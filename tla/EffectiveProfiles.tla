------------------------- MODULE EffectiveProfiles -------------------------
(***************************************************************************)
(* What the session promises its user, without views, indexes or           *)
(* observers: the profile in effect is the manual profile that is toggled  *)
(* on, else that of the program launched last among those still running,   *)
(* else the global profile.  Session implements this specification.        *)
(***************************************************************************)
EXTENDS Naturals, SequencesExt

CONSTANTS Names, Global, None

VARIABLES
  order,      \* automatic profiles in effect, in the order their programs were launched
  override,   \* the manual profile toggled on, or None
  top         \* the profile whose view is applied

vars == <<order, override, top>>

Effective(o, m) ==
  CASE m # None             -> m
    [] m = None /\ o # <<>> -> Last(o)
    [] OTHER                -> Global

TypeOK ==
  /\ order \in Seq(Names \ {Global})
  /\ override \in Names \cup {None}
  /\ top \in Names

Init ==
  /\ order = <<>>
  /\ override = None
  /\ top = Global

Launch(n) ==
  /\ n \notin ToSet(order) \cup {Global, override}
  /\ order' = Append(order, n)
  /\ UNCHANGED override

\* The program of n is gone, or n is removed, disabled or given another executable.
Quit(n) ==
  /\ \E i \in DOMAIN order : order[i] = n /\ order' = RemoveAt(order, i)
  /\ UNCHANGED override

\* Toggling one manual profile on toggles another one off.
Override(m) ==
  /\ m \notin ToSet(order)
  /\ override' = m
  /\ UNCHANGED order

\* A renamed profile keeps its place.
Rename(n, m) ==
  /\ m \notin ToSet(order) \cup {Global, override}
  /\ n \in ToSet(order) \cup {override}
  /\ order' = [i \in DOMAIN order |-> IF order[i] = n THEN m ELSE order[i]]
  /\ override' = IF override = n THEN m ELSE override

Next ==
  /\ \/ \E n \in Names : Launch(n) \/ Quit(n)
     \/ \E m \in (Names \ {Global}) \cup {None} : Override(m)
     \/ \E n, m \in Names : Rename(n, m)
  /\ top' = Effective(order', override')

Spec == Init /\ [][Next]_vars
=============================================================================
