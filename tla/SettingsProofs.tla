---------------------------- MODULE SettingsProofs ----------------------------
(***************************************************************************)
(* The life of a control's settings, proved for any machines, files and    *)
(* bounds.                                                                 *)
(***************************************************************************)
EXTENDS Settings, FiniteSetTheorems, WellFoundedInduction, SequenceTheorems, TLAPS

(***************************************************************************)
(* Numbers                                                                 *)
(***************************************************************************)

\* A set of natural numbers has a least one: an instance of the well-foundedness of <, in a form
\* without an operator to instantiate.
LEMMA Least ==
  ASSUME NEW T \in SUBSET Nat, T # {}
  PROVE \E m \in T : \A n \in T : m <= n
<1> DEFINE R == {p \in Nat \X Nat : p[1] < p[2]}
<1>1. IsWellFoundedOn(OpToRel(<, Nat), Nat)
  BY NatLessThanWellFounded
<1>2. OpToRel(<, Nat) = R
  BY DEF OpToRel
<1>3. IsWellFoundedOn(R, Nat)
  BY <1>1, <1>2
<1> HIDE DEF R
<1>4. PICK m \in T : \A n \in T : ~(<<n, m>> \in R)
  BY <1>3, WFMin
<1>5. ASSUME NEW n \in T PROVE m <= n
  <2>1. ~(n < m)
    BY <1>4 DEF R
  <2>2. QED
    BY <2>1
<1>6. QED
  BY <1>5

\* Induction over the natural numbers, for a set.
LEMMA Induct ==
  ASSUME NEW S \in SUBSET Nat, 0 \in S, \A n \in S : n + 1 \in S
  PROVE S = Nat
<1>1. SUFFICES ASSUME Nat \ S # {} PROVE FALSE
  OBVIOUS
<1>2. PICK m \in Nat \ S : \A n \in Nat \ S : m <= n
  BY <1>1, Least
<1>3. m # 0 /\ m - 1 \in Nat /\ m - 1 \notin Nat \ S
  BY <1>2
<1>4. m - 1 + 1 \in S
  BY <1>3
<1>5. QED
  BY <1>4, <1>2

\* A set of integers with a lower bound has a least element.
LEMMA MinOf ==
  ASSUME NEW S \in SUBSET Int, S # {}, NEW low \in Int, \A i \in S : low <= i
  PROVE Min(S) \in S /\ \A i \in S : Min(S) <= i
<1> DEFINE T == {n \in Nat : n + low \in S}
<1>1. T # {}
  <2>1. PICK i \in S : TRUE
    OBVIOUS
  <2>2. i - low \in T
    OBVIOUS
  <2>3. QED
    BY <2>2
<1>2. PICK m \in T : \A n \in T : m <= n
  BY <1>1, Least
<1>3. m + low \in S /\ \A i \in S : m + low <= i
  <2>1. \A i \in S : i - low \in T
    OBVIOUS
  <2>2. QED
    BY <1>2, <2>1
<1>4. QED
  BY <1>3 DEF Min

\* One with an upper bound has a greatest element.
LEMMA MaxOf ==
  ASSUME NEW S \in SUBSET Int, S # {}, NEW high \in Int, \A i \in S : i <= high
  PROVE Max(S) \in S /\ \A i \in S : i <= Max(S)
<1> DEFINE T == {n \in Nat : high - n \in S}
<1>1. T # {}
  <2>1. PICK i \in S : TRUE
    OBVIOUS
  <2>2. high - i \in T
    OBVIOUS
  <2>3. QED
    BY <2>2
<1>2. PICK m \in T : \A n \in T : m <= n
  BY <1>1, Least
<1>3. high - m \in S /\ \A i \in S : i <= high - m
  <2>1. \A i \in S : high - i \in T
    OBVIOUS
  <2>2. QED
    BY <1>2, <2>1
<1>4. QED
  BY <1>3 DEF Max

\* The first position whose line passes a test, as a set of positions.
LEMMA FirstOf ==
  ASSUME NEW n \in Nat, NEW from \in Int, NEW S \in SUBSET (from .. n)
  PROVE LET at == Min(S \cup {n + 1})
        IN  /\ at \in Int
            /\ at \in S \/ (S = {} /\ at = n + 1)
            /\ \A i \in S : at <= i
<1>1. S \cup {n + 1} \in SUBSET Int /\ S \cup {n + 1} # {}
  OBVIOUS
<1>2. \E low \in Int : \A i \in S \cup {n + 1} : low <= i
  <2>1. CASE from <= n + 1
    <3>1. \A i \in S \cup {n + 1} : from <= i
      BY <2>1
    <3>2. QED
      BY <3>1
  <2>2. CASE from > n + 1
    <3>1. \A i \in S \cup {n + 1} : n + 1 <= i
      BY <2>2
    <3>2. QED
      BY <3>1
  <2>3. QED
    BY <2>1, <2>2
<1>3. /\ Min(S \cup {n + 1}) \in S \cup {n + 1}
      /\ \A i \in S \cup {n + 1} : Min(S \cup {n + 1}) <= i
  BY <1>1, <1>2, MinOf
<1>4. Min(S \cup {n + 1}) = n + 1 => S = {}
  BY <1>3
<1>5. QED
  BY <1>1, <1>3, <1>4

\* The k-th number of a set: every position has one, and every number its position.
LEMMA NthOf ==
  ASSUME NEW S \in SUBSET Int, IsFiniteSet(S)
  PROVE /\ Cardinality(S) \in Nat
        /\ \A k \in 1 .. Cardinality(S) : Nth(S, k) \in S
        /\ \A i \in S : \E k \in 1 .. Cardinality(S) : Nth(S, k) = i
        /\ \A k, n \in 1 .. Cardinality(S) : k < n => Nth(S, k) < Nth(S, n)
<1> DEFINE Below(i) == {j \in S : j < i}
           Rank(i) == Cardinality(Below(i))
           N == Cardinality(S)
<1>1. \A i \in S : IsFiniteSet(Below(i)) /\ Rank(i) \in Nat
  BY FS_Subset, FS_CardinalityType
<1>2. ASSUME NEW i \in S, NEW j \in S, i < j PROVE Rank(i) < Rank(j)
  <2>1. i \notin Below(i) /\ Below(i) \cup {i} \in SUBSET Below(j)
    <3>1. i \in Int /\ j \in Int
      OBVIOUS
    <3>2. i \notin Below(i)
      BY <3>1
    <3>3. \A k \in Below(i) : k \in S /\ k < j
      BY <3>1, <1>2
    <3>4. QED
      BY <3>2, <3>3, <1>2
  <2>2. Cardinality(Below(i) \cup {i}) = Rank(i) + 1
    BY <1>1, <2>1, FS_AddElement
  <2>3. Cardinality(Below(i) \cup {i}) <= Rank(j)
    BY <1>1, <2>1, FS_Subset
  <2>4. QED
    BY <1>1, <2>2, <2>3
<1>3. \A i \in S : Rank(i) < N
  <2>1. SUFFICES ASSUME NEW i \in S PROVE Rank(i) < N
    OBVIOUS
  <2>2. Below(i) \in SUBSET (S \ {i})
    OBVIOUS
  <2>3. IsFiniteSet(S \ {i}) /\ Cardinality(S \ {i}) = N - 1
    BY FS_RemoveElement
  <2>4. Rank(i) <= N - 1
    BY <2>2, <2>3, FS_Subset
  <2>5. QED
    BY <2>4, <1>1, FS_CardinalityType
<1>4. N \in Nat
  BY FS_CardinalityType
<1> DEFINE f == [i \in S |-> Rank(i)]
<1> HIDE DEF N, Below
<1>5. f \in [S -> 0 .. N - 1]
  BY <1>1, <1>3, <1>4
<1>6. \A i, j \in S : i # j => f[i] # f[j]
  <2>1. SUFFICES ASSUME NEW i \in S, NEW j \in S, i # j PROVE f[i] # f[j]
    OBVIOUS
  <2>2. i < j \/ j < i
    BY <2>1
  <2>3. QED
    BY <2>2, <1>2, <1>1
<1>7. f \in Injection(S, 0 .. N - 1)
  BY <1>5, <1>6 DEF Injection, IsInjective
<1>8. IsFiniteSet(0 .. N - 1) /\ Cardinality(0 .. N - 1) = N
  BY <1>4, FS_Interval
<1>9. f \in Surjection(S, 0 .. N - 1)
  BY <1>7, <1>8, FS_Injection DEF N
<1>10. \A k \in 1 .. N : \E i \in S : Rank(i) = k - 1
  <2>1. \A y \in 0 .. N - 1 : \E i \in S : f[i] = y
    BY <1>9 DEF Surjection
  <2>2. QED
    BY <2>1, <1>4
<1>11. \A k \in 1 .. N : Nth(S, k) \in S /\ Rank(Nth(S, k)) = k - 1
  BY <1>10 DEF Nth, Below
<1>12. ASSUME NEW i \in S PROVE \E k \in 1 .. N : Nth(S, k) = i
  <2>1. Rank(i) + 1 \in 1 .. N
    BY <1>1, <1>3, <1>4
  <2>2. Rank(Nth(S, Rank(i) + 1)) = Rank(i) /\ Nth(S, Rank(i) + 1) \in S
    BY <1>1, <1>11, <2>1
  <2>3. Nth(S, Rank(i) + 1) = i
    BY <1>6, <2>2
  <2>4. QED
    BY <2>1, <2>3
<1>13. ASSUME NEW k \in 1 .. N, NEW n \in 1 .. N, k < n PROVE Nth(S, k) < Nth(S, n)
  <2> DEFINE i == Nth(S, k)
             j == Nth(S, n)
  <2>1. i \in S /\ j \in S /\ Rank(i) = k - 1 /\ Rank(j) = n - 1
    BY <1>11
  <2> HIDE DEF i, j, Rank
  <2>2. ~(j < i)
    <3>1. CASE j < i
      <4>1. Rank(j) < Rank(i)
        BY <1>2, <2>1, <3>1
      <4>2. QED
        BY <4>1, <2>1, <1>13
    <3>2. QED
      BY <3>1
  <2>3. i # j
    BY <2>1, <1>13
  <2>4. i < j
    BY <2>1, <2>2, <2>3
  <2>5. QED
    BY <2>4 DEF i, j
<1>14. QED
  BY <1>4, <1>11, <1>12, <1>13 DEF N

\* A finite set of integers has a least element.
LEMMA LeastOf ==
  ASSUME NEW S \in SUBSET Int, IsFiniteSet(S), S # {}
  PROVE Min(S) \in S /\ \A i \in S : Min(S) <= i
<1>1. PICK i \in S : TRUE
  OBVIOUS
<1>2. PICK k \in 1 .. Cardinality(S) : Nth(S, k) = i
  BY NthOf
<1>3. Cardinality(S) \in Nat /\ 1 \in 1 .. Cardinality(S)
  BY NthOf, <1>2
<1>4. Nth(S, 1) \in S
  BY NthOf, <1>3
<1>5. \A j \in S : Nth(S, 1) <= j
  <2>1. SUFFICES ASSUME NEW j \in S PROVE Nth(S, 1) <= j
    OBVIOUS
  <2>2. PICK n \in 1 .. Cardinality(S) : Nth(S, n) = j
    BY NthOf
  <2>3. CASE n = 1
    BY <2>2, <2>3, <1>4
  <2>4. CASE 1 < n
    <3> DEFINE first == Nth(S, 1)
    <3>1. first < j
      BY NthOf, <1>3, <2>2, <2>4
    <3>2. first \in Int /\ j \in Int
      BY <1>4
    <3> HIDE DEF first
    <3>3. first <= j
      BY <3>1, <3>2
    <3>4. QED
      BY <3>3 DEF first
  <2>5. QED
    BY <2>3, <2>4
<1>6. QED
  BY <1>4, <1>5, MinOf

(***************************************************************************)
(* Sequences                                                               *)
(***************************************************************************)

\* The elements of a finite sequence are finitely many.
LEMMA ToSetFinite ==
  ASSUME NEW s, NEW n \in Nat, DOMAIN s = 1 .. n
  PROVE IsFiniteSet(ToSet(s))
<1> DEFINE f == [i \in 1 .. n |-> s[i]]
<1>1. f \in Surjection(1 .. n, ToSet(s))
  BY DEF Surjection, ToSet
<1>2. IsFiniteSet(1 .. n)
  BY FS_Interval
<1>3. QED
  BY <1>1, <1>2, FS_Surjection

\* SetToSeq lists a finite set.
LEMMA SetToSeqOf ==
  ASSUME NEW S, IsFiniteSet(S)
  PROVE /\ Cardinality(S) \in Nat
        /\ SetToSeq(S) \in [1 .. Cardinality(S) -> S]
        /\ ToSet(SetToSeq(S)) = S
<1> DEFINE N == Cardinality(S)
<1>1. N \in Nat /\ ExistsBijection(1 .. N, S)
  BY FS_CardinalityType
<1>2. PICK f \in Bijection(1 .. N, S) : TRUE
  BY <1>1 DEF ExistsBijection
<1>3. f \in [1 .. N -> S] /\ IsInjective(f)
  BY <1>2 DEF Bijection, Injection, IsInjective
<1> DEFINE g == SetToSeq(S)
<1>4. g \in [1 .. N -> S] /\ IsInjective(g)
  BY <1>3 DEF SetToSeq
<1>5. IsFiniteSet(1 .. N) /\ Cardinality(1 .. N) = N
  BY <1>1, FS_Interval
<1>6. g \in Injection(1 .. N, S)
  BY <1>4 DEF Injection, IsInjective
<1>7. g \in Surjection(1 .. N, S)
  BY <1>5, <1>6, FS_Injection
<1>8. ToSet(g) = S
  BY <1>7 DEF Surjection, ToSet
<1>9. QED
  BY <1>1, <1>4, <1>8

\* A sequence of sequences is flattened to a sequence.
LEMMA FlattenOf ==
  ASSUME NEW S, NEW seqs \in Seq(Seq(S))
  PROVE FlattenSeq(seqs) \in Seq(S)
<1>1. CASE Len(seqs) = 0
  BY <1>1 DEF FlattenSeq
<1>2. CASE Len(seqs) # 0
  <2> DEFINE N == Len(seqs)
             Body(f) == [i \in 1 .. N |-> IF i = 1 THEN seqs[i] ELSE f[i - 1] \o seqs[i]]
             G == {n \in Nat : \E f : DOMAIN f = 1 .. n /\ \A i \in 1 .. n :
                     i \in 1 .. N => f[i] = (IF i = 1 THEN seqs[i] ELSE f[i - 1] \o seqs[i])}
  <2>1. N \in Nat \ {0} /\ \A i \in 1 .. N : seqs[i] \in Seq(S)
    BY <1>2
  <2> HIDE DEF N
  <2>2. 0 \in G
    <3> DEFINE f == [i \in 1 .. 0 |-> i]
    <3>1. DOMAIN f = 1 .. 0
      OBVIOUS
    <3>2. QED
      BY <3>1
  <2>3. \A n \in G : n + 1 \in G
    <3>1. SUFFICES ASSUME NEW n \in G PROVE n + 1 \in G
      OBVIOUS
    <3>2. PICK f : DOMAIN f = 1 .. n /\ \A i \in 1 .. n :
                     i \in 1 .. N => f[i] = (IF i = 1 THEN seqs[i] ELSE f[i - 1] \o seqs[i])
      OBVIOUS
    <3> DEFINE h == [i \in 1 .. n + 1 |->
                       IF i \in 1 .. n THEN f[i] ELSE IF i = 1 THEN seqs[i] ELSE f[i - 1] \o seqs[i]]
    <3>3. ASSUME NEW i \in 1 .. n + 1, i \in 1 .. N
          PROVE h[i] = (IF i = 1 THEN seqs[i] ELSE h[i - 1] \o seqs[i])
      <4>1. i # 1 => h[i - 1] = f[i - 1]
        <5>1. i # 1 => i - 1 \in 1 .. n /\ i - 1 \in 1 .. n + 1
          OBVIOUS
        <5>2. QED
          BY <5>1
      <4>2. CASE i \in 1 .. n
        <5>1. h[i] = f[i]
          BY <4>2
        <5>2. QED
          BY <4>1, <4>2, <5>1, <3>2, <3>3
      <4>3. CASE i \notin 1 .. n
        BY <4>1, <4>3
      <4>4. QED
        BY <4>2, <4>3
    <3>4. DOMAIN h = 1 .. n + 1
      OBVIOUS
    <3> HIDE DEF h
    <3>5. \A i \in 1 .. n + 1 : i \in 1 .. N => h[i] = (IF i = 1 THEN seqs[i] ELSE h[i - 1] \o seqs[i])
      BY <3>3
    <3>6. \E g : DOMAIN g = 1 .. n + 1 /\ \A i \in 1 .. n + 1 :
                    i \in 1 .. N => g[i] = (IF i = 1 THEN seqs[i] ELSE g[i - 1] \o seqs[i])
      BY <3>4, <3>5, Zenon
    <3>7. n + 1 \in Nat
      OBVIOUS
    <3>8. QED
      BY <3>6, <3>7, Zenon
  <2>4. G = Nat
    BY <2>2, <2>3, Induct
  <2> HIDE DEF G
  <2>5. PICK f : DOMAIN f = 1 .. N /\ \A i \in 1 .. N :
                   i \in 1 .. N => f[i] = (IF i = 1 THEN seqs[i] ELSE f[i - 1] \o seqs[i])
    BY <2>4, <2>1 DEF G
  <2> DEFINE at == [i \in 1 .. N |-> f[i]]
  <2>6. at = Body(at)
    <3>1. ASSUME NEW i \in 1 .. N PROVE at[i] = IF i = 1 THEN seqs[i] ELSE at[i - 1] \o seqs[i]
      <4>1. i # 1 => i - 1 \in 1 .. N
        BY <2>1
      <4>2. i # 1 => at[i - 1] = f[i - 1]
        BY <4>1
      <4>3. at[i] = f[i]
        OBVIOUS
      <4>4. QED
        BY <2>5, <4>2, <4>3
    <3> HIDE DEF at
    <3>2. DOMAIN at = 1 .. N /\ at = [i \in 1 .. N |-> at[i]]
      BY Zenon DEF at
    <3>3. QED
      BY <3>1, <3>2
  <2> DEFINE flatten == CHOOSE g : g = Body(g)
  <2>7. flatten = Body(flatten)
    BY Zenon, <2>6
  <2>8. FlattenSeq(seqs) = flatten[N]
    BY <1>2 DEF FlattenSeq, N
  <2> HIDE DEF flatten
  <2>9. \A i \in 1 .. N : flatten[i] = IF i = 1 THEN seqs[i] ELSE flatten[i - 1] \o seqs[i]
    BY <2>7
  <2> DEFINE H == {n \in Nat : n + 1 \in 1 .. N => flatten[n + 1] \in Seq(S)}
  <2>10. 0 \in H
    BY <2>9, <2>1
  <2>11. \A n \in H : n + 1 \in H
    <3>1. SUFFICES ASSUME NEW n \in H, n + 2 \in 1 .. N PROVE flatten[n + 2] \in Seq(S)
      OBVIOUS
    <3>2. n + 1 \in 1 .. N /\ n + 2 # 1 /\ n + 2 - 1 = n + 1
      BY <2>1, <3>1
    <3>3. flatten[n + 1] \in Seq(S)
      BY <3>2
    <3> DEFINE j == n + 2
    <3>4. j \in 1 .. N /\ j # 1 /\ j - 1 = n + 1
      BY <3>1, <3>2
    <3> HIDE DEF j
    <3>5. flatten[j] = flatten[j - 1] \o seqs[j]
      BY <2>9, <3>4
    <3>6. flatten[j] \in Seq(S)
      BY <3>3, <3>4, <3>5, <2>1
    <3>7. QED
      BY <3>6 DEF j
  <2>12. H = Nat
    BY <2>10, <2>11, Induct
  <2> HIDE DEF H
  <2>13. flatten[N - 1 + 1] \in Seq(S)
    <3>1. N - 1 \in H /\ N - 1 + 1 \in 1 .. N
      BY <2>12, <2>1
    <3>2. QED
      BY <3>1 DEF H
  <2>14. QED
    BY <2>8, <2>13, <2>1
<1>3. QED
  BY <1>1, <1>2

(***************************************************************************)
(* The execution of the writes of a call                                   *)
(***************************************************************************)

\* The machine goes through a state after every write.
LEMMA Run ==
  ASSUME NEW m, NEW s, NEW writes, Len(writes) \in Nat
  PROVE \E r : /\ r[0] = s
               /\ \A k \in 1 .. Len(writes) : r[k] = Written(m, r[k - 1], writes[k])
               /\ Executed(m, s, writes) = r[Len(writes)]
<1> DEFINE N == Len(writes)
           Body(f) == [k \in 0 .. N |-> IF k = 0 THEN s ELSE Written(m, f[k - 1], writes[k])]
           G == {n \in Nat : \E f : f[0] = s /\ \A k \in 1 .. n : f[k] = Written(m, f[k - 1], writes[k])}
           after == CHOOSE f : f = Body(f)
<1>1. Executed(m, s, writes) = after[N]
  BY DEF Executed
<1>2. 0 \in G
  <2> DEFINE f == [k \in {0} |-> s]
  <2>1. f[0] = s /\ \A k \in 1 .. 0 : f[k] = Written(m, f[k - 1], writes[k])
    OBVIOUS
  <2> HIDE DEF f
  <2>2. QED
    BY <2>1
<1>3. \A n \in G : n + 1 \in G
  <2>1. SUFFICES ASSUME NEW n \in G PROVE n + 1 \in G
    OBVIOUS
  <2>2. PICK f : f[0] = s /\ \A k \in 1 .. n : f[k] = Written(m, f[k - 1], writes[k])
    OBVIOUS
  <2> DEFINE h == [k \in 0 .. n + 1 |-> IF k = n + 1 THEN Written(m, f[n], writes[n + 1]) ELSE f[k]]
  <2>3. h[0] = s /\ \A k \in 0 .. n : h[k] = f[k]
    BY <2>2
  <2>4. h[n + 1] = Written(m, h[n + 1 - 1], writes[n + 1])
    BY <2>3
  <2> HIDE DEF h
  <2>5. \A k \in 1 .. n + 1 : h[k] = Written(m, h[k - 1], writes[k])
    <3>1. SUFFICES ASSUME NEW k \in 1 .. n + 1 PROVE h[k] = Written(m, h[k - 1], writes[k])
      OBVIOUS
    <3>2. CASE k = n + 1
      BY <3>2, <2>4
    <3>3. CASE k \in 1 .. n
      BY <3>3, <2>2, <2>3
    <3>4. QED
      BY <3>2, <3>3
  <2>6. QED
    BY <2>3, <2>5
<1>4. G = Nat
  BY <1>2, <1>3, Induct
<1> HIDE DEF G, N
<1>5. N \in Nat
  BY DEF N
<1>6. PICK f : f[0] = s /\ \A k \in 1 .. N : f[k] = Written(m, f[k - 1], writes[k])
  BY <1>4, <1>5 DEF G
<1>7. [k \in 0 .. N |-> f[k]] = Body([k \in 0 .. N |-> f[k]])
  BY <1>5, <1>6
<1>8. after = Body(after)
  BY <1>7
<1> HIDE DEF after
<1>9. after[0] = s /\ \A k \in 1 .. N : after[k] = Written(m, after[k - 1], writes[k])
  BY <1>8, <1>5
<1>10. QED
  BY <1>1, <1>9 DEF N

(***************************************************************************)
(* What the providers find                                                 *)
(***************************************************************************)

Kinds ==
  {"PMAuto", "PMFixed", "PMPowerState", "PMDynamicFreq", "PMFixedFreq", "PMFreqOd", "PMPowerProfile", "PMPowerCap",
   "PMFreqRange", "PMFreqVolt", "PMVoltCurve", "PMVoltOffset", "FanAuto", "FanFixed", "FanCurve", "CPUFreq"}

NonEmpty(S) == (SUBSET S) \ {{}}
Handlers(states) == [active : NonEmpty(states), resync : BOOLEAN]

\* The curves that are in order.
Curves(leaf) ==
  {points \in Seq((0 .. leaf.maxTemp) \X (0 .. 100)) :
     Len(points) >= 2 /\ \A i, k \in DOMAIN points : i <= k => points[i][2] <= points[k][2]}

\* The files that a control was found for, and the state it is created with.
Found(m, leaf) ==
  CASE leaf.kind \in {"PMAuto", "PMFixed"} ->
         /\ leaf.legacy \in BOOLEAN
         /\ leaf.legacy => Valid(m, {"power_method", "power_profile"})
         /\ ~leaf.legacy => Valid(m, {Level})
         /\ leaf.kind = "PMFixed" => leaf.new \in [mode : leaf.modes]
         /\ leaf.kind = "PMAuto" => leaf.new = NoSettings
    [] leaf.kind = "PMDynamicFreq" -> Valid(m, {Level}) /\ leaf.new = NoSettings
    [] leaf.kind = "PMPowerState" ->
         Valid(m, {"power_dpm_state"}) /\ leaf.new \in [mode : leaf.modes]
    [] leaf.kind = "PMPowerProfile" ->
         /\ Valid(m, {Level, "pp_power_profile_mode"})
         /\ leaf.new \in [mode : leaf.modes]
         /\ \A mode \in leaf.modes : \E k \in DOMAIN m.files["pp_power_profile_mode"] :
              LET line == m.files["pp_power_profile_mode"][k]
              IN  line.t = "mode" /\ line.index = leaf.index[mode]
    [] leaf.kind = "PMPowerCap" ->
         /\ Valid(m, {"power1_cap"})
         /\ leaf.new \in [value : Int, preInit : Int]
         /\ leaf.min > 0
    [] leaf.kind = "CPUFreq" ->
         /\ Valid(m, {"scaling_governor 0", "scaling_governor 1"})
         /\ leaf.new \in [scalingGovernor : leaf.governors]
    [] leaf.kind = "PMFixedFreq" ->
         /\ Valid(m, {Level, "pp_dpm_sclk", "pp_dpm_mclk"})
         /\ \A file \in DpmFiles : HasDPMStates(m, file)
         /\ leaf.sclk = DPMStates(m, "pp_dpm_sclk") /\ leaf.mclk = DPMStates(m, "pp_dpm_mclk")
         /\ leaf.sclk \subseteq Int /\ leaf.mclk \subseteq Int
         /\ leaf.new \in [sclk : Handlers(leaf.sclk), mclk : Handlers(leaf.mclk)]
    [] leaf.kind = "PMFreqOd" ->
         Valid(m, {"pp_sclk_od", "pp_mclk_od"}) /\ leaf.new = [sclkOd |-> 0, mclkOd |-> 0]
    [] leaf.kind = "FanAuto" -> Valid(m, {"pwm1_enable"}) /\ leaf.new = NoSettings
    [] leaf.kind = "FanFixed" ->
         /\ Valid(m, {"pwm1_enable", "pwm1"})
         /\ leaf.new = [value |-> 64, fanStop |-> FALSE, fanStartValue |-> 54, lastValue |-> NoPwm]
    [] leaf.kind = "FanCurve" ->
         /\ Valid(m, {"pwm1_enable", "pwm1", "temp1_input"})
         /\ leaf.maxTemp \in Nat \ {0}
         /\ leaf.new.points \in Curves(leaf)
         /\ leaf.new = [points |-> leaf.new.points, fanStop |-> FALSE, fanStartValue |-> 54,
                        lastPwm |-> NoPwm, lastFanStop |-> FALSE]
    [] leaf.kind = "PMFreqRange" -> Valid(m, {Table}) /\ leaf.new = [states |-> <<>>, preInit |-> <<>>]
    [] leaf.kind = "PMFreqVolt" ->
         /\ Valid(m, {Table})
         /\ leaf.dpmFile \in DpmFiles /\ leaf.dpmStates \subseteq Int
         /\ leaf.new.dpm \in Handlers(leaf.dpmStates)
         /\ leaf.new = [voltMode |-> "auto", states |-> <<>>, initVoltages |-> <<>>, preInit |-> <<>>,
                        dpm |-> leaf.new.dpm]
    [] leaf.kind = "PMVoltCurve" ->
         /\ Valid(m, {Table})
         /\ \E n \in Nat : DOMAIN leaf.ranges = 1 .. n
         /\ leaf.new = [mode |-> "auto", points |-> <<>>, initPoints |-> <<>>, preInit |-> <<>>]
    [] leaf.kind = "PMVoltOffset" -> Valid(m, {Table}) /\ leaf.new = [value |-> 0, preInit |-> 0]

\* A provider has found at most one control.
LEMMA ProvidedIs ==
  ASSUME NEW condition \in BOOLEAN, NEW x, NEW leaf \in ToSet(Provided(condition, x))
  PROVE condition /\ leaf = x
<1>1. CASE condition
  <2>1. Provided(condition, x) = <<x>>
    BY <1>1 DEF Provided
  <2>2. ToSet(<<x>>) = {x}
    BY DEF ToSet
  <2>3. QED
    BY <1>1, <2>1, <2>2
<1>2. CASE ~condition
  <2>1. Provided(condition, x) = <<>> /\ ToSet(<<>>) = {}
    BY <1>2 DEF Provided, ToSet
  <2>2. QED
    BY <2>1
<1>3. QED
  BY <1>1, <1>2

\* The elements of the shortest sequences.
LEMMA ToSetSmall == ToSet(<<>>) = {} /\ \A x : ToSet(<<x>>) = {x}
BY DEF ToSet

\* The lines that pass a test are picked as a sequence.
LEMMA PickedOf ==
  ASSUME NEW n \in Nat, NEW at \in SUBSET (1 .. n)
  PROVE /\ IsFiniteSet(at)
        /\ Cardinality(at) \in Nat
        /\ \A k \in 1 .. Cardinality(at) : Nth(at, k) \in at
        /\ \A i \in at : \E k \in 1 .. Cardinality(at) : Nth(at, k) = i
        /\ at # {} => 1 \in 1 .. Cardinality(at)
<1>1. IsFiniteSet(1 .. n)
  BY FS_Interval
<1>2. IsFiniteSet(at)
  BY <1>1, FS_Subset
<1>3. at \in SUBSET Int
  OBVIOUS
<1>4. \A i \in at : \E k \in 1 .. Cardinality(at) : Nth(at, k) = i
  BY <1>2, <1>3, NthOf
<1>5. Cardinality(at) \in Nat /\ \A k \in 1 .. Cardinality(at) : Nth(at, k) \in at
  BY <1>2, <1>3, NthOf
<1>6. ASSUME at # {} PROVE 1 \in 1 .. Cardinality(at)
  <2>1. PICK k \in 1 .. Cardinality(at) : TRUE
    BY <1>4, <1>6
  <2>2. QED
    BY <2>1, <1>5
<1>7. QED
  BY <1>2, <1>4, <1>5, <1>6

\* What the providers of the power level controls build.
LEMMA FoundLevels ==
  ASSUME NEW m \in Machines,
         NEW leaf \in ToSet(PMAutoProvider(m)) \cup ToSet(PMFixedProvider(m)) \cup ToSet(PMDynamicFreqProvider(m))
                        \cup ToSet(PMPowerStateProvider(m))
  PROVE leaf.kind \in {"PMAuto", "PMFixed", "PMDynamicFreq", "PMPowerState"} /\ Found(m, leaf)
<1>1. CASE leaf \in ToSet(PMAutoProvider(m))
  <2> DEFINE x == [kind |-> "PMAuto", legacy |-> HasLegacyLevels(m), new |-> NoSettings]
  <2>1. (HasLegacyLevels(m) \/ HasLevels(m)) /\ leaf = x
    BY <1>1, ProvidedIs DEF PMAutoProvider
  <2>2. leaf.legacy = HasLegacyLevels(m) /\ leaf.kind = "PMAuto" /\ leaf.new = NoSettings
    BY <2>1
  <2>3. /\ HasLegacyLevels(m) \in BOOLEAN
        /\ HasLegacyLevels(m) => Valid(m, {"power_method", "power_profile"})
        /\ HasLevels(m) => Valid(m, {Level})
    BY DEF HasLegacyLevels, HasLevels
  <2> HIDE DEF x
  <2>4. QED
    BY <2>1, <2>2, <2>3 DEF Found
<1>2. CASE leaf \in ToSet(PMFixedProvider(m))
  <2> DEFINE modes == IF HasLegacyLevels(m) THEN {"low", "mid", "high"} ELSE {"low", "high"}
             x == [kind |-> "PMFixed", legacy |-> HasLegacyLevels(m), new |-> [mode |-> "low"], modes |-> modes]
  <2>1. (HasLegacyLevels(m) \/ HasLevels(m)) /\ leaf = x
    BY <1>2, ProvidedIs DEF PMFixedProvider
  <2>2. "low" \in modes
    OBVIOUS
  <2>3. /\ HasLegacyLevels(m) \in BOOLEAN
        /\ HasLegacyLevels(m) => Valid(m, {"power_method", "power_profile"})
        /\ HasLevels(m) => Valid(m, {Level})
    BY DEF HasLegacyLevels, HasLevels
  <2> HIDE DEF modes
  <2>4. leaf.legacy = HasLegacyLevels(m) /\ leaf.kind = "PMFixed" /\ leaf.new \in [mode : leaf.modes]
    BY <2>1, <2>2
  <2> HIDE DEF x
  <2>5. QED
    BY <2>1, <2>3, <2>4 DEF Found
<1>3. CASE leaf \in ToSet(PMDynamicFreqProvider(m))
  <2>1. Valid(m, {Level}) /\ leaf = [kind |-> "PMDynamicFreq", new |-> NoSettings]
    BY <1>3, ProvidedIs DEF PMDynamicFreqProvider
  <2>2. QED
    BY <2>1 DEF Found
<1>4. CASE leaf \in ToSet(PMPowerStateProvider(m))
  <2> DEFINE modes == {"battery", "balanced", "performance"}
  <2>1. Valid(m, {"power_dpm_state"}) /\ leaf = [kind |-> "PMPowerState", modes |-> modes, new |-> [mode |-> "balanced"]]
    BY <1>4, ProvidedIs DEF PMPowerStateProvider
  <2>2. "balanced" \in modes
    OBVIOUS
  <2> HIDE DEF modes
  <2>3. QED
    BY <2>1, <2>2 DEF Found
<1>5. QED
  BY <1>1, <1>2, <1>3, <1>4

\* The states of a DPM file that can be parsed: there is a first one, and each has a line.
LEMMA StatesOf ==
  ASSUME NEW m \in Machines, NEW file \in DpmFiles, HasDPMStates(m, file)
  PROVE /\ ParseDPMStates(m.files[file])[1][1] \in DPMStates(m, file)
        /\ DPMStates(m, file) \subseteq Int
        /\ \A index \in DPMStates(m, file) : \E k \in DOMAIN m.files[file] :
             m.files[file][k].t = "dpm" /\ m.files[file][k].index = index
<1> DEFINE lines == m.files[file]
           at == {i \in DOMAIN lines : lines[i].t \in {"dpm"}}
           N == Cardinality(at)
           states == [k \in 1 .. N |-> lines[Nth(at, k)]]
<1>1. file \in DOMAIN m.files /\ file \in TableFiles
  BY DEF HasDPMStates, Valid, TableFiles
<1>2. lines \in Seq(Lines)
  BY <1>1, MachinesAssumption DEF Typed
<1> HIDE DEF lines
<1>3. Len(lines) \in Nat /\ DOMAIN lines = 1 .. Len(lines)
  BY <1>2
<1>4. at \in SUBSET (1 .. Len(lines))
  BY <1>3
<1>5. Of(lines, {"dpm"}) = states
  BY DEF Of, Picked
<1> HIDE DEF states, at
<1>6. ParseDPMStates(lines) = IF states = <<>> THEN Absent ELSE [i \in DOMAIN states |-> <<states[i].index, states[i].clk>>]
  BY <1>5 DEF ParseDPMStates
<1>7. states # <<>>
  BY <1>6 DEF HasDPMStates, lines
<1>8. N \in Nat /\ (\A k \in 1 .. N : Nth(at, k) \in at)
  BY <1>3, <1>4, PickedOf
<1> HIDE DEF N
<1>9. DOMAIN states = 1 .. N
  BY DEF states
<1>10. N # 0
  <2>1. SUFFICES ASSUME N = 0 PROVE states = <<>>
    BY <1>7
  <2>2. states = [k \in 1 .. 0 |-> lines[Nth(at, k)]]
    BY <2>1 DEF states
  <2>3. QED
    BY <2>2
<1>11. \A k \in 1 .. N : Nth(at, k) \in DOMAIN lines /\ states[k] = lines[Nth(at, k)] /\ states[k].t = "dpm"
  BY <1>8 DEF states, at
<1>12. \A k \in 1 .. N : states[k].index \in Int
  BY <1>11, <1>2 DEF Lines
<1>13. ParseDPMStates(lines) = [i \in 1 .. N |-> <<states[i].index, states[i].clk>>]
  BY <1>6, <1>7, <1>9
<1>14. DPMStates(m, file) = {states[i].index : i \in 1 .. N}
  BY <1>13 DEF DPMStates, lines
<1>15. 1 \in 1 .. N
  BY <1>8, <1>10
<1>16. ParseDPMStates(lines)[1][1] = states[1].index
  BY <1>13, <1>15
<1>17. QED
  BY <1>11, <1>12, <1>14, <1>15, <1>16 DEF lines

\* What the providers of the frequency controls build.
LEMMA FoundFreqs ==
  ASSUME NEW m \in Machines,
         NEW leaf \in ToSet(PMFixedFreqProvider(m)) \cup ToSet(PMFixedFreqAdvProvider(m)) \cup ToSet(PMFreqOdProvider(m))
  PROVE leaf.kind \in {"PMFixedFreq", "PMFreqOd"} /\ Found(m, leaf)
<1>1. CASE leaf \in ToSet(PMFreqOdProvider(m))
  <2>1. Valid(m, {"pp_sclk_od", "pp_mclk_od"}) /\ leaf = [kind |-> "PMFreqOd", new |-> [sclkOd |-> 0, mclkOd |-> 0]]
    BY ZenonT(60), <1>1, ProvidedIs DEF PMFreqOdProvider
  <2>2. QED
    BY <2>1 DEF Found
<1>2. ASSUME leaf = NewFixedFreq(m), HasFixedFreq(m)
      PROVE leaf.kind \in {"PMFixedFreq", "PMFreqOd"} /\ Found(m, leaf)
  <2> DEFINE first(file) == [active |-> {ParseDPMStates(m.files[file])[1][1]}, resync |-> TRUE]
  <2>1. /\ leaf.kind = "PMFixedFreq"
        /\ leaf.sclk = DPMStates(m, "pp_dpm_sclk") /\ leaf.mclk = DPMStates(m, "pp_dpm_mclk")
        /\ leaf.new = [sclk |-> first("pp_dpm_sclk"), mclk |-> first("pp_dpm_mclk")]
    BY <1>2 DEF NewFixedFreq
  <2>2. \A file \in DpmFiles : HasDPMStates(m, file)
    BY <1>2 DEF HasFixedFreq, DpmFiles
  <2>3. \A file \in DpmFiles : first(file) \in Handlers(DPMStates(m, file)) /\ DPMStates(m, file) \subseteq Int
    BY <2>2, StatesOf DEF Handlers, NonEmpty
  <2> HIDE DEF first
  <2>4. Valid(m, {Level, "pp_dpm_sclk", "pp_dpm_mclk"})
    BY <1>2 DEF HasFixedFreq, HasDPMStates, Valid
  <2>5. QED
    BY <2>1, <2>2, <2>3, <2>4 DEF Found, DpmFiles
<1>3. CASE leaf \in ToSet(PMFixedFreqProvider(m))
  BY <1>2, <1>3, ToSetSmall DEF PMFixedFreqProvider
<1>4. CASE leaf \in ToSet(PMFixedFreqAdvProvider(m))
  BY <1>2, <1>4, ToSetSmall DEF PMFixedFreqAdvProvider
<1>5. QED
  BY <1>1, <1>3, <1>4

\* What the providers of the power cap and of the governors build.
LEMMA FoundCap ==
  ASSUME NEW m \in Machines, NEW leaf \in ToSet(PMPowerCapProvider(m)) \cup ToSet(CPUFreqProvider(m))
  PROVE leaf.kind \in {"PMPowerCap", "CPUFreq"} /\ Found(m, leaf)
<1>1. CASE leaf \in ToSet(PMPowerCapProvider(m))
  <2> DEFINE low == m.files["power1_cap_min"]
             min == IF low = 0 THEN Watt ELSE low
  <2>1. /\ Valid(m, {"power1_cap", "power1_cap_min", "power1_cap_max"})
        /\ leaf = [kind |-> "PMPowerCap", new |-> [value |-> Watt, preInit |-> 0],
                   min |-> min, max |-> m.files["power1_cap_max"]]
    BY <1>1, ProvidedIs DEF PMPowerCapProvider
  <2>2. low \in Nat
    BY <2>1, MachinesAssumption DEF Valid, Typed, NumberFiles
  <2>3. min > 0
    BY <2>2 DEF Watt
  <2> HIDE DEF min, low
  <2>4. leaf.kind = "PMPowerCap" /\ leaf.new \in [value : Int, preInit : Int] /\ leaf.min > 0
    BY <2>1, <2>3 DEF Watt
  <2>5. Valid(m, {"power1_cap"})
    BY <2>1 DEF Valid
  <2>6. QED
    BY <2>4, <2>5 DEF Found
<1>2. CASE leaf \in ToSet(CPUFreqProvider(m))
  <2> DEFINE governors == m.files["scaling_available_governors"]
             all == {governors[i] : i \in DOMAIN governors}
             units == {"scaling_governor 0", "scaling_governor 1"}
  <2>1. Valid(m, {"scaling_available_governors", "scaling_governor 0", "scaling_governor 1"})
    BY <1>2, ToSetSmall DEF CPUFreqProvider
  <2>2. /\ governors # <<>>
        /\ leaf = [kind |-> "CPUFreq", governors |-> all, new |-> [scalingGovernor |-> DefaultGovernor(m)]]
    BY <1>2, <2>1, ProvidedIs DEF CPUFreqProvider
  <2>3. governors \in Seq(STRING)
    BY <2>1, MachinesAssumption DEF Valid, Typed
  <2>4. governors[1] \in all
    BY <2>2, <2>3
  <2>5. DefaultGovernor(m) \in all
    BY <2>4 DEF DefaultGovernor, Known
  <2> HIDE DEF governors, all
  <2>6. leaf.kind = "CPUFreq" /\ leaf.new \in [scalingGovernor : leaf.governors]
    BY <2>2, <2>5
  <2>7. Valid(m, units)
    BY <2>1 DEF Valid
  <2>8. QED
    BY <2>6, <2>7 DEF Found
<1>3. QED
  BY <1>1, <1>2

\* What the provider of the power profiles builds: the modes its parser tells.
LEMMA FoundPowerProfile ==
  ASSUME NEW m \in Machines, NEW leaf \in ToSet(PMPowerProfileProvider(m))
  PROVE leaf.kind = "PMPowerProfile" /\ Found(m, leaf)
<1> DEFINE file == "pp_power_profile_mode"
           lines == m.files[file]
           at == {i \in DOMAIN lines : lines[i].t = "mode" /\ lines[i].name \notin {"BOOTUP_DEFAULT", "CUSTOM"}}
           N == Cardinality(at)
           picked == [k \in 1 .. N |-> lines[Nth(at, k)]]
           modes == ParsePowerProfileModeModes(lines)
           names == {modes[i][1] : i \in DOMAIN modes}
           index == [name \in names |-> modes[CHOOSE i \in DOMAIN modes : modes[i][1] = name][2]]
<1>1. Valid(m, {Level, file})
  BY ToSetSmall DEF PMPowerProfileProvider
<1>2. /\ modes # Absent
      /\ leaf = [kind |-> "PMPowerProfile", modes |-> names, new |-> [mode |-> modes[1][1]], index |-> index]
  <2>1. PMPowerProfileProvider(m) = Provided(modes # Absent,
           [kind |-> "PMPowerProfile", modes |-> names, new |-> [mode |-> modes[1][1]], index |-> index])
    BY Zenon, <1>1, ToSetSmall DEF PMPowerProfileProvider
  <2>2. QED
    BY ZenonT(60), <2>1, ProvidedIs
<1>3. lines \in Seq(Lines)
  BY <1>1, MachinesAssumption DEF Valid, Typed, TableFiles
<1>4. modes = IF picked = <<>> THEN Absent ELSE [i \in DOMAIN picked |-> <<picked[i].name, picked[i].index>>]
  BY DEF ParsePowerProfileModeModes, Picked
<1> HIDE DEF lines
<1>5. Len(lines) \in Nat /\ at \in SUBSET (1 .. Len(lines))
  BY <1>3
<1>6. N \in Nat /\ (\A k \in 1 .. N : Nth(at, k) \in at)
  BY <1>5, PickedOf
<1> HIDE DEF N
<1>7. N # 0
  <2>1. SUFFICES ASSUME N = 0 PROVE picked = <<>>
    BY Zenon, <1>2, <1>4
  <2>2. picked = [k \in 1 .. 0 |-> lines[Nth(at, k)]]
    BY <2>1
  <2>3. QED
    BY <2>2
<1>8. DOMAIN picked = 1 .. N /\ \A k \in 1 .. N : picked[k] = lines[Nth(at, k)] /\ Nth(at, k) \in at
  BY SMTT(40), <1>6
<1> HIDE DEF picked
<1>9. DOMAIN modes = 1 .. N /\ \A k \in 1 .. N : modes[k] = <<picked[k].name, picked[k].index>>
  BY <1>2, <1>4, <1>8
<1> HIDE DEF modes
<1>10. modes[1][1] \in names
  BY <1>6, <1>7, <1>9
<1>11. ASSUME NEW mode \in names
       PROVE \E k \in DOMAIN lines : lines[k].t = "mode" /\ lines[k].index = index[mode]
  <2> DEFINE i == CHOOSE i \in DOMAIN modes : modes[i][1] = mode
  <2>1. i \in DOMAIN modes
    OBVIOUS
  <2>2. index[mode] = modes[i][2]
    OBVIOUS
  <2> HIDE DEF i, index
  <2>3. index[mode] = lines[Nth(at, i)].index /\ Nth(at, i) \in at
    BY <2>1, <2>2, <1>8, <1>9
  <2>4. QED
    BY <2>3
<1> HIDE DEF names, index, at
<1>12. /\ leaf.kind = "PMPowerProfile" /\ leaf.modes = names /\ leaf.index = index
       /\ leaf.new \in [mode : leaf.modes]
  BY <1>2, <1>10
<1>13. QED
  BY SMTT(40), <1>1, <1>11, <1>12 DEF Found, lines

(***************************************************************************)
(* Curves                                                                  *)
(***************************************************************************)

\* A value that is clamped to a range is in it, and one in it is kept.
LEMMA ClampOf ==
  ASSUME NEW value \in Int, NEW min \in Int, NEW max \in Int, min <= max
  PROVE Clamp(value, min, max) \in min .. max /\ (value \in min .. max => Clamp(value, min, max) = value)
BY DEF Clamp

\* A percentage.
LEMMA ClampPercent ==
  /\ \A value \in Int : Clamp(value, 0, 100) \in 0 .. 100
  /\ \A value \in 0 .. 100 : value \in Int /\ Clamp(value, 0, 100) = value
BY DEF Clamp

\* A part of a whole, scaled to a range and rounded, is in the range.
LEMMA ScaledOf ==
  ASSUME NEW x \in Nat, NEW whole \in Nat, whole > 0, x <= whole, NEW max \in Nat
  PROVE Rounded(x * max, whole) \in 0 .. max
<1> DEFINE y == x * max
           q == (2 * y + whole) \div (2 * whole)
<1>1. y \in Nat /\ y <= whole * max
  <2>1. x * max \in Nat /\ whole * max \in Nat
    OBVIOUS
  <2>2. (whole - x) * max \in Nat
    OBVIOUS
  <2>3. (whole - x) * max = whole * max - x * max
    OBVIOUS
  <2>4. QED
    BY <2>1, <2>2, <2>3
<1> HIDE DEF y
<1>2. Rounded(y, whole) = q
  BY <1>1 DEF Rounded
<1>3. q \in Int /\ 2 * whole * q <= 2 * y + whole /\ 2 * y + whole < 2 * whole * (q + 1)
  <2> DEFINE a == 2 * y + whole
             b == 2 * whole
  <2>1. a \in Nat /\ b \in Nat /\ b > 0
    BY <1>1
  <2> HIDE DEF a, b
  <2>2. a \div b \in Int /\ b * (a \div b) <= a /\ a < b * ((a \div b) + 1)
    BY <2>1
  <2>3. QED
    BY <2>2 DEF a, b
<1> HIDE DEF q
<1>4. q >= 0
  <2>1. SUFFICES ASSUME q + 1 <= 0 PROVE FALSE
    BY <1>3
  <2>2. whole * (q + 1) <= 0
    BY <2>1, <1>3
  <2>3. 2 * whole * (q + 1) = 2 * (whole * (q + 1))
    BY <1>3
  <2>4. QED
    BY <2>2, <2>3, <1>1, <1>3
<1>5. q <= max
  <2>1. SUFFICES ASSUME q >= max + 1 PROVE FALSE
    BY <1>3
  <2>2. whole * q >= whole * (max + 1)
    BY <2>1, <1>3
  <2>3. whole * (max + 1) = whole * max + whole /\ 2 * whole * q = 2 * (whole * q)
    BY <1>3
  <2> DEFINE p == whole * q
             r == whole * max
  <2>4. p \in Int /\ r \in Int /\ p >= r + whole /\ y <= r /\ 2 * p <= 2 * y + whole
    BY <2>2, <2>3, <1>1, <1>3
  <2> HIDE DEF p, r
  <2>5. QED
    BY <2>4, <1>1
<1>6. QED
  BY <1>2, <1>3, <1>4, <1>5 DEF y

\* A curve that was normalised is within the ranges and its percentages do not fall; one that was
\* in order before is kept.
LEMMA NormalizeOf ==
  ASSUME NEW points \in Seq(Int \X Int), Len(points) >= 2, NEW maxTemp \in Nat \ {0}
  PROVE LET normal == NormalizePoints(points, maxTemp)
        IN  /\ normal \in Seq((0 .. maxTemp) \X (0 .. 100))
            /\ Len(normal) = Len(points)
            /\ \A i, k \in 1 .. Len(points) : i <= k => normal[i][2] <= normal[k][2]
            /\ (/\ \A k \in 1 .. Len(points) : points[k] \in (0 .. maxTemp) \X (0 .. 100)
                /\ \A i, k \in 1 .. Len(points) : i <= k => points[i][2] <= points[k][2])
                 => normal = points
<1> DEFINE n == Len(points)
           temps == {points[k][1] : k \in DOMAIN points}
           minOld == Min(temps \cup {0})
           maxOld == Max(temps \cup {90 * Degree})
           outside == \E t \in temps : t < 0 \/ t > maxTemp
           Pwms(k) == {Clamp(points[j][2], 0, 100) : j \in 1 .. k}
           top(k) == Max(Pwms(k))
           temp(k) == IF outside THEN Rounded((points[k][1] - minOld) * maxTemp, maxOld - minOld) ELSE points[k][1]
           f == [k \in 1 .. n |-> <<temp(k), top(k)>>]
<1>1. n \in Nat /\ DOMAIN points = 1 .. n /\ \A k \in 1 .. n : points[k][1] \in Int /\ points[k][2] \in Int
  OBVIOUS
<1>2. NormalizePoints(points, maxTemp) = SubSeq(f, 1, n)
  BY DEF NormalizePoints, Sequence
<1> HIDE DEF n
<1>4. /\ IsFiniteSet(temps) /\ temps \in SUBSET Int
      /\ \A k \in 1 .. n : points[k][1] \in temps
  <2> DEFINE g == [k \in 1 .. n |-> points[k][1]]
  <2>1. temps = ToSet(g)
    BY <1>1 DEF ToSet
  <2>2. DOMAIN g = 1 .. n
    OBVIOUS
  <2> HIDE DEF g, temps
  <2>3. IsFiniteSet(temps)
    BY <2>1, <2>2, <1>1, ToSetFinite
  <2>4. temps \in SUBSET Int /\ \A k \in 1 .. n : points[k][1] \in temps
    BY <1>1 DEF temps
  <2>5. QED
    BY <2>3, <2>4
<1> HIDE DEF temps
<1>5. minOld \in Int /\ minOld <= 0 /\ \A t \in temps : minOld <= t
  <2> DEFINE S == temps \cup {0}
  <2>0. IsFiniteSet(S)
    BY <1>4, FS_AddElement
  <2>1. IsFiniteSet(S) /\ S \in SUBSET Int /\ 0 \in S /\ temps \subseteq S
    BY <1>4, <2>0
  <2> HIDE DEF S
  <2>2. Min(S) \in S /\ \A t \in S : Min(S) <= t
    BY <2>1, LeastOf
  <2>3. minOld = Min(S)
    BY DEF S
  <2> HIDE DEF minOld
  <2>4. QED
    BY <2>1, <2>2, <2>3
<1>6. maxOld \in Int /\ maxOld >= 90 * Degree /\ \A t \in temps : t <= maxOld
  <2> DEFINE S == temps \cup {90 * Degree}
             T == {-t : t \in S}
             g == [t \in S |-> -t]
  <2>9. IsFiniteSet(S)
    BY <1>4, FS_AddElement
  <2>1. IsFiniteSet(S) /\ S \in SUBSET Int /\ 90 * Degree \in S /\ temps \subseteq S
    BY <1>4, <2>9 DEF Degree
  <2>0. maxOld = Max(S)
    OBVIOUS
  <2> HIDE DEF S, maxOld
  <2>2. IsFiniteSet(T)
    <3>1. g \in Surjection(S, T)
      BY DEF Surjection
    <3> HIDE DEF g, T
    <3>2. QED
      BY <3>1, <2>1, FS_Surjection
  <2>10. \A t \in S : t \in Int /\ -t \in Int
    BY <2>1
  <2>3. T \in SUBSET Int /\ T # {} /\ \A t \in S : -t \in T
    <3>1. T \in SUBSET Int
      BY <2>10
    <3>2. \A t \in S : -t \in T
      OBVIOUS
    <3>3. T # {}
      BY <3>2, <2>1
    <3>4. QED
      BY <3>1, <3>2, <3>3
  <2> HIDE DEF T
  <2> DEFINE low == Min(T)
  <2>5. low \in T /\ \A t \in T : low <= t
    BY <2>2, <2>3, LeastOf
  <2> HIDE DEF low
  <2>6. -low \in Int /\ \A t \in S : t <= -low
    <3>1. low \in Int
      BY <2>3, <2>5
    <3>2. \A t \in S : t \in Int /\ low <= -t
      BY <2>1, <2>3, <2>5
    <3>3. QED
      BY <3>1, <3>2
  <2>7. Max(S) \in S /\ \A t \in S : t <= Max(S)
    <3>1. S # {}
      BY <2>1
    <3>2. QED
      BY <2>1, <2>6, <3>1, MaxOf
  <2>8. QED
    BY <2>0, <2>1, <2>7
<1> HIDE DEF minOld, maxOld
<1>7. ASSUME NEW k \in 1 .. n PROVE temp(k) \in 0 .. maxTemp
  <2>1. points[k][1] \in temps /\ points[k][1] \in Int
    BY <1>1, <1>4
  <2>2. CASE ~outside
    BY <2>1, <2>2
  <2>3. CASE outside
    <3> DEFINE x == points[k][1] - minOld
               whole == maxOld - minOld
    <3>1. x \in Nat /\ whole \in Nat /\ whole > 0 /\ x <= whole
      BY SMTT(40), <2>1, <1>5, <1>6 DEF Degree
    <3>2. temp(k) = Rounded(x * maxTemp, whole)
      BY <2>3
    <3> HIDE DEF x, whole
    <3>3. Rounded(x * maxTemp, whole) \in 0 .. maxTemp
      BY <3>1, ScaledOf
    <3>4. QED
      BY <3>2, <3>3
  <2>4. QED
    BY <2>2, <2>3
<1>8. ASSUME NEW k \in 1 .. n
      PROVE /\ top(k) \in Pwms(k) /\ top(k) \in 0 .. 100
            /\ \A x \in Pwms(k) : x <= top(k)
  <2>1. \A j \in 1 .. k : j \in 1 .. n /\ points[j][2] \in Int
    BY <1>1
  <2>2. \A j \in 1 .. k : Clamp(points[j][2], 0, 100) \in 0 .. 100
    BY <2>1, ClampPercent
  <2>3. Pwms(k) \in SUBSET Int /\ Pwms(k) # {} /\ (\A x \in Pwms(k) : x <= 100) /\ Pwms(k) \subseteq 0 .. 100
    <3>1. k \in 1 .. k
      BY <1>1
    <3>2. Pwms(k) # {}
      BY <3>1
    <3>3. Pwms(k) \subseteq 0 .. 100
      BY <2>2
    <3>5. \A x \in 0 .. 100 : x \in Int /\ x <= 100
      OBVIOUS
    <3> HIDE DEF Pwms
    <3>4. QED
      BY <3>2, <3>3, <3>5, Zenon
  <2> DEFINE S == Pwms(k)
  <2> HIDE DEF Pwms
  <2>4. S \in SUBSET Int /\ S # {} /\ \A x \in S : x <= 100
    BY <2>3
  <2>5. S \subseteq 0 .. 100
    BY <2>3
  <2>6. top(k) = Max(S)
    OBVIOUS
  <2> HIDE DEF S, top
  <2> DEFINE high == 100
  <2>10. high \in Int /\ \A x \in S : x <= high
    BY <2>4
  <2> HIDE DEF high
  <2>7. Max(S) \in S /\ \A x \in S : x <= Max(S)
    BY <2>4, <2>10, MaxOf
  <2>8. top(k) \in S /\ (\A x \in S : x <= top(k)) /\ top(k) \in 0 .. 100
    BY <2>5, <2>6, <2>7
  <2>9. QED
    BY <2>8 DEF S
<1> HIDE DEF top
<1>9. ASSUME NEW i \in 1 .. n, NEW k \in 1 .. n, i <= k PROVE top(i) <= top(k)
  <2>1. \A j \in 1 .. i : j \in 1 .. k
    BY <1>1, <1>9
  <2>2. Pwms(i) \subseteq Pwms(k)
    BY <2>1
  <2>3. top(i) \in Pwms(i)
    BY <1>8
  <2>4. top(i) \in Pwms(k)
    BY <2>2, <2>3
  <2> HIDE DEF Pwms
  <2>5. QED
    BY <2>4, <1>8
<1> HIDE DEF temp
<1>10. \A k \in 1 .. n : f[k] = <<temp(k), top(k)>> /\ f[k] \in (0 .. maxTemp) \X (0 .. 100)
  <2>1. \A k \in 1 .. n : temp(k) \in 0 .. maxTemp /\ top(k) \in 0 .. 100
    BY <1>7, <1>8
  <2>2. QED
    BY <2>1
<1>11. f \in Seq((0 .. maxTemp) \X (0 .. 100)) /\ Len(f) = n /\ SubSeq(f, 1, n) = f
  <2>1. DOMAIN f = 1 .. n /\ f \in [1 .. n -> (0 .. maxTemp) \X (0 .. 100)]
    BY <1>10
  <2> HIDE DEF f
  <2>2. f \in Seq((0 .. maxTemp) \X (0 .. 100)) /\ Len(f) = n
    BY <1>1, <2>1
  <2>3. SubSeq(f, 1, n) = f
    BY <2>2, <1>1
  <2>4. QED
    BY <2>2, <2>3
<1>12. ASSUME \A k \in 1 .. n : points[k] \in (0 .. maxTemp) \X (0 .. 100),
              \A i, k \in 1 .. n : i <= k => points[i][2] <= points[k][2]
       PROVE f = points
  <2>0. ~outside
    <3>1. \A t \in temps : \E k \in 1 .. n : t = points[k][1]
      BY <1>1 DEF temps
    <3>2. \A k \in 1 .. n : points[k][1] \in 0 .. maxTemp
      BY <1>12
    <3>3. \A t \in temps : t \in 0 .. maxTemp
      BY <3>1, <3>2
    <3>4. QED
      BY <3>3
  <2>1. ASSUME NEW k \in 1 .. n PROVE f[k] = points[k]
    <3>2. temp(k) = points[k][1]
      BY <2>0 DEF temp
    <3>3. \A j \in 1 .. k : Clamp(points[j][2], 0, 100) = points[j][2] /\ points[j][2] <= points[k][2]
      <4>1. SUFFICES ASSUME NEW j \in 1 .. k
                     PROVE Clamp(points[j][2], 0, 100) = points[j][2] /\ points[j][2] <= points[k][2]
        OBVIOUS
      <4>2. j \in 1 .. n /\ j <= k
        BY <1>1
      <4>3. points[j][2] \in 0 .. 100
        BY <4>2, <1>12
      <4>4. QED
        <5>1. Clamp(points[j][2], 0, 100) = points[j][2]
          BY <4>3, ClampPercent, Zenon
        <5>2. points[j][2] <= points[k][2]
          BY <4>2, <1>12
        <5>3. QED
          BY <5>1, <5>2
    <3>4. points[k][2] \in Pwms(k) /\ \A x \in Pwms(k) : x <= points[k][2]
      <4>1. k \in 1 .. k
        BY <1>1
      <4>2. QED
        BY <3>3, <4>1
    <3> HIDE DEF Pwms
    <3>5. points[k][2] \in 0 .. 100
      BY <1>12
    <3>9. points[k] = <<points[k][1], points[k][2]>>
      BY <1>12
    <3>6. top(k) <= points[k][2] /\ points[k][2] <= top(k) /\ top(k) \in 0 .. 100
      BY <3>4, <1>8
    <3>7. top(k) = points[k][2]
      <4> DEFINE x == top(k)
                 y == points[k][2]
      <4>1. x \in Int /\ y \in Int /\ x <= y /\ y <= x
        BY <3>5, <3>6, ClampPercent, Zenon
      <4> HIDE DEF x, y
      <4>2. x = y
        BY <4>1
      <4>3. QED
        BY <4>2 DEF x, y
    <3>8. QED
      BY <3>2, <3>9, <3>7, <1>10
  <2>2. points = [k \in 1 .. n |-> points[k]] /\ DOMAIN f = 1 .. n
    BY <1>1
  <2> HIDE DEF f
  <2>3. QED
    BY <2>1, <2>2, <1>11
<1> HIDE DEF f
<1>13. \A i, k \in 1 .. n : i <= k => f[i][2] <= f[k][2]
  BY <1>9, <1>10
<1>14. QED
  BY <1>2, <1>11, <1>12, <1>13 DEF n

\* What the providers of the fan controls build.
LEMMA FoundFan ==
  ASSUME NEW m \in Machines,
         NEW leaf \in ToSet(FanAutoProvider(m)) \cup ToSet(FanFixedProvider(m)) \cup ToSet(FanCurveProvider(m))
  PROVE leaf.kind \in {"FanAuto", "FanFixed", "FanCurve"} /\ Found(m, leaf)
<1>0. \A names : HasFan(m, names) \in BOOLEAN
  BY DEF HasFan
<1>1. CASE leaf \in ToSet(FanAutoProvider(m))
  <2>1. HasFan(m, {"pwm1_enable"}) /\ leaf = [kind |-> "FanAuto", new |-> NoSettings]
    BY <1>0, <1>1, ProvidedIs DEF FanAutoProvider
  <2>2. QED
    BY <2>1 DEF Found, HasFan
<1>2. CASE leaf \in ToSet(FanFixedProvider(m))
  <2> DEFINE new == [value |-> 64, fanStop |-> FALSE, fanStartValue |-> 54, lastValue |-> NoPwm]
  <2>1. HasFan(m, {"pwm1_enable", "pwm1"}) /\ leaf = [kind |-> "FanFixed", new |-> new]
    BY <1>0, <1>2, ProvidedIs DEF FanFixedProvider
  <2>2. QED
    BY <2>1 DEF Found, HasFan
<1>3. CASE leaf \in ToSet(FanCurveProvider(m))
  <2> DEFINE crit == m.files["temp1_crit"]
             maxTemp == Degree * (IF crit > 0 /\ crit < 150 THEN crit ELSE 90)
             points == NormalizePoints(DefaultCurve, maxTemp)
             new == [points |-> points, fanStop |-> FALSE, fanStartValue |-> 54,
                     lastPwm |-> NoPwm, lastFanStop |-> FALSE]
  <2>1. HasFan(m, {"pwm1_enable", "pwm1", "temp1_input", "temp1_crit"})
    BY <1>3, ToSetSmall DEF FanCurveProvider
  <2>2. leaf = [kind |-> "FanCurve", maxTemp |-> maxTemp, new |-> new]
    BY <1>3, <2>1, ToSetSmall DEF FanCurveProvider
  <2>3. crit \in Int
    BY <2>1, MachinesAssumption DEF HasFan, Valid, Typed
  <2>4. maxTemp \in Nat \ {0}
    BY <2>3 DEF Degree
  <2>5. DefaultCurve \in Seq(Int \X Int) /\ Len(DefaultCurve) = 5
    BY DEF DefaultCurve, Degree
  <2> DEFINE curve == DefaultCurve
  <2>12. curve \in Seq(Int \X Int) /\ Len(curve) >= 2
    BY <2>5
  <2> HIDE DEF maxTemp, curve
  <2>6. /\ points \in Seq((0 .. maxTemp) \X (0 .. 100)) /\ Len(points) = 5
        /\ \A i, k \in 1 .. 5 : i <= k => points[i][2] <= points[k][2]
    <3> DEFINE normal == NormalizePoints(curve, maxTemp)
    <3>1. /\ normal \in Seq((0 .. maxTemp) \X (0 .. 100)) /\ Len(normal) = Len(curve)
          /\ \A i, k \in 1 .. Len(curve) : i <= k => normal[i][2] <= normal[k][2]
      BY <2>4, <2>12, NormalizeOf
    <3>2. normal = points /\ Len(curve) = 5
      BY <2>5 DEF curve
    <3> HIDE DEF normal
    <3>3. QED
      BY <3>1, <3>2
  <2> HIDE DEF points
  <2>7. DOMAIN points = 1 .. 5
    BY <2>6
  <2>8. leaf.kind = "FanCurve" /\ leaf.maxTemp = maxTemp /\ leaf.new = new /\ new.points = points
    BY <2>2
  <2>9. leaf.new.points \in Curves(leaf)
    <3>1. leaf.new.points = points /\ 5 >= 2
      BY <2>8
    <3>2. points \in {p \in Seq((0 .. maxTemp) \X (0 .. 100)) :
                        Len(p) >= 2 /\ \A i, k \in DOMAIN p : i <= k => p[i][2] <= p[k][2]}
      BY <2>6, <2>7
    <3>3. QED
      BY <2>8, <3>1, <3>2 DEF Curves
  <2>10. leaf.new = [points |-> leaf.new.points, fanStop |-> FALSE, fanStartValue |-> 54,
                     lastPwm |-> NoPwm, lastFanStop |-> FALSE]
    BY <2>8
  <2> HIDE DEF new
  <2>13. Valid(m, {"pwm1_enable", "pwm1", "temp1_input"})
    BY <2>1 DEF HasFan, Valid
  <2>11. QED
    BY <2>4, <2>8, <2>9, <2>10, <2>13 DEF Found
<1>4. QED
  BY <1>1, <1>2, <1>3

\* The clocks that have a section of their own.
LEMMA ClocksOf ==
  ASSUME NEW lines \in Seq(Lines), ParseOverdriveClkControls(lines) # Absent
  PROVE IsFiniteSet(ParseOverdriveClkControls(lines)) /\ ParseOverdriveClkControls(lines) \subseteq Clocks
<1> DEFINE at == {i \in DOMAIN lines : \E name \in Clocks : Heads(lines[i], name)}
           N == Cardinality(at)
           heads == [k \in 1 .. N |-> lines[Nth(at, k)]]
<1>1. ParseOverdriveClkControls(lines) = {heads[i].name : i \in DOMAIN heads}
  BY DEF ParseOverdriveClkControls, Picked
<1>2. Len(lines) \in Nat /\ at \in SUBSET (1 .. Len(lines))
  OBVIOUS
<1>3. \A k \in 1 .. N : Nth(at, k) \in at
  BY <1>2, PickedOf
<1>4. \A k \in 1 .. N : heads[k].name \in Clocks
  BY <1>3 DEF Heads
<1>5. DOMAIN heads = 1 .. N
  OBVIOUS
<1> HIDE DEF heads, N
<1>6. ParseOverdriveClkControls(lines) \subseteq Clocks
  BY <1>1, <1>4, <1>5
<1>7. IsFiniteSet(Clocks)
  <2>1. IsFiniteSet({}) /\ Clocks = ({} \cup {"SCLK"}) \cup {"MCLK"}
    BY FS_EmptySet DEF Clocks
  <2>2. IsFiniteSet({} \cup {"SCLK"})
    BY <2>1, FS_AddElement
  <2>3. IsFiniteSet(({} \cup {"SCLK"}) \cup {"MCLK"})
    BY <2>2, FS_AddElement
  <2>4. QED
    BY <2>1, <2>3
<1>8. QED
  BY <1>6, <1>7, FS_Subset

\* An overdrive capability comes with a table.
LEMMA TableThere ==
  ASSUME NEW m \in Machines, OverdriveCapabilities(m) # {}
  PROVE Valid(m, {Table}) /\ m.files[Table] \in Seq(Lines)
<1>1. Valid(m, {Table})
  BY DEF OverdriveCapabilities, Table
<1>2. Table \in DOMAIN m.files /\ Table \in TableFiles
  BY <1>1 DEF Valid, TableFiles
<1>3. QED
  BY <1>1, <1>2, MachinesAssumption DEF Typed

\* What the providers of the clocks of the table build.
LEMMA FoundClocks ==
  ASSUME NEW m \in Machines, NEW leaf \in ToSet(PMFreqRangeProvider(m)) \cup ToSet(PMFreqVoltProvider(m))
  PROVE leaf.kind \in {"PMFreqRange", "PMFreqVolt"} /\ Found(m, leaf)
<1> DEFINE lines == m.files[Table]
           clocks == ParseOverdriveClkControls(lines)
           range(name) == ParseOverdriveClkRange(name, lines)
<1>1. CASE leaf \in ToSet(PMFreqRangeProvider(m))
  <2> DEFINE valid(name) == /\ Cardinality(OutOfRangeStates(name, lines)) <= 1
                            /\ range(name) # Absent /\ ParseOverdriveClks(name, lines) # Absent
             found(name) == [kind |-> "PMFreqRange", name |-> name, cmd |-> ClkControlCmdId[name],
                               min |-> range(name)[1], max |-> range(name)[2],
                               disabled |-> OutOfRangeStates(name, lines),
                               new |-> [states |-> <<>>, preInit |-> <<>>]]
             S == {found(name) : name \in {n \in clocks : valid(n)}}
  <2>1. "clk" \in OverdriveCapabilities(m) /\ clocks # Absent
    BY <1>1, ToSetSmall DEF PMFreqRangeProvider
  <2>2. PMFreqRangeProvider(m) = SetToSeq(S)
    BY <2>1 DEF PMFreqRangeProvider
  <2>3. Valid(m, {Table}) /\ lines \in Seq(Lines)
    BY <2>1, TableThere
  <2>4. IsFiniteSet(clocks)
    BY <2>1, <2>3, ClocksOf
  <2>5. IsFiniteSet({n \in clocks : valid(n)})
    BY <2>4, FS_Subset
  <2> DEFINE T == {n \in clocks : valid(n)}
             f == [n \in T |-> found(n)]
  <2>6. f \in Surjection(T, S)
    BY DEF Surjection
  <2>7. IsFiniteSet(S)
    BY <2>5, <2>6, FS_Surjection
  <2>8. leaf \in S
    BY <1>1, <2>2, <2>7, SetToSeqOf
  <2>9. leaf.kind = "PMFreqRange" /\ leaf.new = [states |-> <<>>, preInit |-> <<>>]
    BY <2>8
  <2>10. QED
    BY <2>3, <2>9 DEF Found
<1>2. CASE leaf \in ToSet(PMFreqVoltProvider(m))
  <2> DEFINE dpmFile == [SCLK |-> "pp_dpm_sclk", MCLK |-> "pp_dpm_mclk"]
             voltRange == ParseOverdriveVoltRange(lines)
             valid(name) == /\ HasDPMStates(m, dpmFile[name])
                            /\ ~HasFreqVoltQuirks(lines)
                            /\ Absent \notin {range(name), voltRange, ParseOverdriveClksVolts(name, lines)}
             dpm(name) == [active |-> DPMStates(m, dpmFile[name]), resync |-> TRUE]
             new(name) == [voltMode |-> "auto", states |-> <<>>, initVoltages |-> <<>>, preInit |-> <<>>,
                           dpm |-> dpm(name)]
             found(name) == [kind |-> "PMFreqVolt", name |-> name, cmd |-> ClkControlCmdId[name],
                               min |-> range(name)[1], max |-> range(name)[2],
                               voltMin |-> voltRange[1], voltMax |-> voltRange[2],
                               dpmFile |-> dpmFile[name], dpmStates |-> DPMStates(m, dpmFile[name]),
                               new |-> new(name)]
             S == {found(name) : name \in {n \in clocks : valid(n)}}
  <2>1. "clkVolt" \in OverdriveCapabilities(m) /\ clocks # Absent
    BY <1>2, ToSetSmall DEF PMFreqVoltProvider
  <2>2. PMFreqVoltProvider(m) = SetToSeq(S)
    BY <2>1 DEF PMFreqVoltProvider
  <2>3. Valid(m, {Table}) /\ lines \in Seq(Lines)
    BY <2>1, TableThere
  <2>4. IsFiniteSet(clocks) /\ clocks \subseteq Clocks
    BY <2>1, <2>3, ClocksOf
  <2>5. IsFiniteSet({n \in clocks : valid(n)})
    BY <2>4, FS_Subset
  <2> DEFINE T == {n \in clocks : valid(n)}
             f == [n \in T |-> found(n)]
  <2>6. f \in Surjection(T, S)
    BY DEF Surjection
  <2>7. IsFiniteSet(S)
    BY <2>5, <2>6, FS_Surjection
  <2>8. leaf \in S
    BY <1>2, <2>2, <2>7, SetToSeqOf
  <2>9. PICK name \in clocks : valid(name) /\ leaf = found(name)
    BY <2>8
  <2>10. dpmFile[name] \in DpmFiles
    BY <2>4, <2>9 DEF Clocks, DpmFiles
  <2> DEFINE file == dpmFile[name]
             states == DPMStates(m, file)
  <2>11. states \subseteq Int /\ states # {}
    BY <2>9, <2>10, StatesOf
  <2>12. leaf.kind = "PMFreqVolt" /\ leaf.dpmFile = file /\ leaf.dpmStates = states /\ leaf.new = new(name)
    BY <2>9
  <2> HIDE DEF file, states
  <2>13. leaf.new.dpm = [active |-> states, resync |-> TRUE]
    BY <2>12 DEF states, file
  <2>14. leaf.new.dpm \in Handlers(states)
    <3>1. states \in NonEmpty(states)
      BY <2>11 DEF NonEmpty
    <3>2. QED
      BY <2>13, <3>1 DEF Handlers
  <2>15. leaf.new = [voltMode |-> "auto", states |-> <<>>, initVoltages |-> <<>>, preInit |-> <<>>,
                     dpm |-> leaf.new.dpm]
    BY <2>12
  <2> HIDE DEF new, dpm
  <2>16. QED
    BY <2>3, <2>10, <2>11, <2>12, <2>14, <2>15 DEF Found, file
<1>3. QED
  BY <1>1, <1>2

\* What the providers of the voltages of the table build.
LEMMA FoundVolts ==
  ASSUME NEW m \in Machines, NEW leaf \in ToSet(PMVoltCurveProvider(m)) \cup ToSet(PMVoltOffsetProvider(m))
  PROVE leaf.kind \in {"PMVoltCurve", "PMVoltOffset"} /\ Found(m, leaf)
<1> DEFINE lines == m.files[Table]
<1>1. CASE leaf \in ToSet(PMVoltOffsetProvider(m))
  <2>1. /\ "voltOffset" \in OverdriveCapabilities(m)
        /\ leaf = [kind |-> "PMVoltOffset", new |-> [value |-> 0, preInit |-> 0]]
    BY <1>1, ProvidedIs DEF PMVoltOffsetProvider
  <2>2. Valid(m, {Table})
    BY <2>1, TableThere
  <2>3. QED
    BY <2>1, <2>2 DEF Found
<1>2. CASE leaf \in ToSet(PMVoltCurveProvider(m))
  <2> DEFINE ranges == ParseOverdriveVoltCurveRange(lines)
             new == [mode |-> "auto", points |-> <<>>, initPoints |-> <<>>, preInit |-> <<>>]
  <2>1. "voltCurve" \in OverdriveCapabilities(m)
    BY <1>2, ToSetSmall DEF PMVoltCurveProvider
  <2>2. ranges # Absent /\ leaf = [kind |-> "PMVoltCurve", ranges |-> ranges, new |-> new]
    BY <1>2, <2>1, ProvidedIs DEF PMVoltCurveProvider
  <2>3. Valid(m, {Table}) /\ lines \in Seq(Lines)
    BY <2>1, TableThere
  <2>4. \E n \in Nat : DOMAIN ranges = 1 .. n
    <3> DEFINE range == FirstFrom(lines, 1, LAMBDA line : Heads(line, "RANGE"))
               from == FirstFrom(lines, range + 1,
                         LAMBDA line : Labels(line, "VDDC_CURVE_SCLK") \/ Labels(line, "VDDC_CURVE_VOLT"))
               isFreq(i) == i <= Len(lines) /\ Labels(lines[i], "VDDC_CURVE_SCLK")
               counts == {k \in 0 .. Len(lines) : ~isFreq(from + 2 * k)}
               many == Min(counts)
               pair(k) ==
                 LET freq == lines[from + 2 * (k - 1)]
                     volt == lines[from + 2 * (k - 1) + 1]
                 IN  <<<<freq.min, freq.max>>, <<volt.min, volt.max>>>>
    <3>1. ranges = [k \in 1 .. many |-> pair(k)]
      BY Zenon, <2>2 DEF ParseOverdriveVoltCurveRange
    <3>2. range \in Int /\ range >= 1
      <4> DEFINE S == {i \in 1 .. Len(lines) : Heads(lines[i], "RANGE")}
      <4> DEFINE n == Len(lines)
                 low == 1
      <4>1. range = Min(S \cup {n + 1})
        BY DEF FirstFrom
      <4>2. S \in SUBSET (low .. n) /\ n \in Nat /\ low \in Int /\ low >= 1
        BY <2>3
      <4> HIDE DEF S, n, low, range
      <4>3. range \in Int /\ (range \in S \/ range = n + 1)
        BY <4>1, <4>2, FirstOf
      <4>4. QED
        BY <4>2, <4>3
    <3> HIDE DEF range
    <3>3. from \in Int /\ from >= 1
      <4> DEFINE S == {i \in range + 1 .. Len(lines) :
                         Labels(lines[i], "VDDC_CURVE_SCLK") \/ Labels(lines[i], "VDDC_CURVE_VOLT")}
      <4> DEFINE n == Len(lines)
                 low == range + 1
      <4>1. from = Min(S \cup {n + 1})
        BY DEF FirstFrom
      <4>2. S \in SUBSET (low .. n) /\ n \in Nat /\ low \in Int /\ low >= 2
        BY <2>3, <3>2
      <4> HIDE DEF S, n, low, from
      <4>3. from \in Int /\ (from \in S \/ from = n + 1)
        BY <4>1, <4>2, FirstOf
      <4>4. QED
        BY <4>2, <4>3
    <3> HIDE DEF from
    <3>4. many \in Nat
      <4>1. Len(lines) \in counts
        <5>1. Len(lines) \in Nat
          BY <2>3
        <5>2. ~(from + 2 * Len(lines) <= Len(lines))
          BY <3>3, <5>1
        <5>3. QED
          BY <5>1, <5>2
      <4>2. counts \in SUBSET Int /\ \A k \in counts : 0 <= k /\ k \in Nat
        OBVIOUS
      <4> HIDE DEF counts
      <4>3. counts # {}
        BY <4>1
      <4>4. Min(counts) \in counts
        BY <4>2, <4>3, MinOf
      <4>5. QED
        BY <4>2, <4>4
    <3> HIDE DEF many
    <3>5. QED
      BY Zenon, <3>1, <3>4
  <2> HIDE DEF ranges
  <2>5. leaf.kind = "PMVoltCurve" /\ leaf.ranges = ranges /\ leaf.new = new
    BY <2>2
  <2>6. QED
    BY <2>3, <2>4, <2>5 DEF Found
<1>3. QED
  BY <1>1, <1>2

\* Every control is of one of the kinds, on files that are there.
LEMMA FoundOf ==
  ASSUME NEW m \in Machines, NEW leaf \in Leaves(m)
  PROVE leaf.kind \in Kinds /\ Found(m, leaf)
BY FoundLevels, FoundFreqs, FoundPowerProfile, FoundCap, FoundClocks, FoundVolts, FoundFan DEF Leaves, Kinds

(***************************************************************************)
(* The settings of a control                                               *)
(***************************************************************************)

VoltModes == {"auto", "manual"}
VoltCurves(leaf, d) ==
  {points \in [DOMAIN d.points -> Int \X Int] : \A k \in DOMAIN points : \A n \in {1, 2} :
     points[k][n] \in leaf.ranges[k][n][1] .. leaf.ranges[k][n][2]}

\* The settings that a profile can have for a control, where d are those of a new one.
Settable(leaf, d) ==
  CASE leaf.kind \in {"PMFixed", "PMPowerState", "PMPowerProfile"} -> [mode : leaf.modes]
    [] leaf.kind = "CPUFreq" -> [scalingGovernor : leaf.governors]
    [] leaf.kind = "PMPowerCap" -> [value : leaf.min .. leaf.max]
    [] leaf.kind = "PMFixedFreq" -> [sclk : leaf.sclk, mclk : leaf.mclk]
    [] leaf.kind = "PMFreqOd" -> [sclkOd : 0 .. MaxOd, mclkOd : 0 .. MaxOd]
    [] leaf.kind = "PMVoltOffset" -> [value : -MaxOffset .. MaxOffset]
    [] leaf.kind = "PMFreqRange" -> [states : [DOMAIN d.states -> leaf.min .. leaf.max]]
    [] leaf.kind = "PMFreqVolt" ->
         [voltMode : VoltModes,
          states : [DOMAIN d.states -> (leaf.min .. leaf.max) \X (leaf.voltMin .. leaf.voltMax)],
          active : NonEmpty(leaf.dpmStates)]
    [] leaf.kind = "PMVoltCurve" -> [mode : VoltModes, points : VoltCurves(leaf, d)]
    [] leaf.kind = "FanFixed" -> [value : 0 .. 100, fanStop : BOOLEAN, fanStartValue : 0 .. 100]
    [] leaf.kind = "FanCurve" -> [points : Curves(leaf), fanStop : BOOLEAN, fanStartValue : 0 .. 100]
    [] OTHER -> {NoSettings}

\* What those of a new one say of the control.
Defaults(leaf, d) ==
  CASE leaf.kind = "PMFreqRange" -> IsFiniteSet(DOMAIN d.states) /\ DOMAIN d.states \subseteq Int
    [] leaf.kind = "PMFreqVolt" -> IsFiniteSet(DOMAIN d.states) /\ DOMAIN d.states = leaf.dpmStates
    [] leaf.kind = "PMVoltCurve" ->
         (\E n \in Nat : DOMAIN d.points = 1 .. n) /\ DOMAIN d.points \subseteq DOMAIN leaf.ranges
    [] OTHER -> TRUE

\* The state of a control with such settings.
Configured(leaf, d, x) ==
  CASE leaf.kind \in {"PMFixed", "PMPowerState", "PMPowerProfile", "CPUFreq", "PMFreqOd"} -> x \in Settable(leaf, d)
    [] leaf.kind = "PMPowerCap" -> x \in [value : leaf.min .. leaf.max, preInit : {x.preInit}]
    [] leaf.kind = "PMFixedFreq" -> x \in [sclk : Handlers(leaf.sclk), mclk : Handlers(leaf.mclk)]
    [] leaf.kind = "PMVoltOffset" -> x \in [value : -MaxOffset .. MaxOffset, preInit : {x.preInit}]
    [] leaf.kind = "PMFreqRange" ->
         x \in [states : [DOMAIN d.states -> leaf.min .. leaf.max], preInit : {x.preInit}]
    [] leaf.kind = "PMFreqVolt" ->
         x \in [voltMode : VoltModes,
                states : [DOMAIN d.states -> (leaf.min .. leaf.max) \X (leaf.voltMin .. leaf.voltMax)],
                initVoltages : {x.initVoltages}, preInit : {x.preInit}, dpm : Handlers(leaf.dpmStates)]
    [] leaf.kind = "PMVoltCurve" ->
         x \in [mode : VoltModes, points : VoltCurves(leaf, d), initPoints : {x.initPoints}, preInit : {x.preInit}]
    [] leaf.kind = "FanFixed" ->
         x \in [value : 0 .. 255, fanStop : BOOLEAN, fanStartValue : 0 .. 255, lastValue : Int]
    [] leaf.kind = "FanCurve" ->
         x \in [points : Curves(leaf), fanStop : BOOLEAN, fanStartValue : 0 .. 255,
                lastPwm : {x.lastPwm}, lastFanStop : {x.lastFanStop}]
    [] OTHER -> x = NoSettings

\* What a part or a control can be given to import.
Given(leaf, d, i) ==
  CASE leaf.kind \in {"PMPowerCap", "PMVoltOffset"} -> i.value \in Int
    [] leaf.kind = "PMFreqOd" -> i.sclkOd \in Int /\ i.mclkOd \in Int
    [] leaf.kind = "PMFreqRange" -> \A index \in DOMAIN d.states : i.states[index] \in Int
    [] leaf.kind = "PMFreqVolt" ->
         \A index \in DOMAIN d.states : i.states[index][1] \in Int /\ i.states[index][2] \in Int
    [] leaf.kind = "PMVoltCurve" ->
         \A k \in DOMAIN d.points \cap DOMAIN i.points : i.points[k][1] \in Int /\ i.points[k][2] \in Int
    [] leaf.kind = "FanFixed" -> i.value \in Int /\ i.fanStop \in BOOLEAN /\ i.fanStartValue \in Int
    [] leaf.kind = "FanCurve" ->
         /\ i.points \in Seq(Int \X Int) /\ Len(i.points) >= 2
         /\ i.fanStop \in BOOLEAN /\ i.fanStartValue \in Int
    [] OTHER -> TRUE

\* The settings that a control exports.
Exported(leaf, x) ==
  CASE leaf.kind \in {"PMPowerCap", "PMVoltOffset"} -> [value |-> x.value]
    [] leaf.kind = "PMFixedFreq" -> [sclk |-> The(x.sclk.active), mclk |-> The(x.mclk.active)]
    [] leaf.kind = "PMFreqRange" -> [states |-> x.states]
    [] leaf.kind = "PMFreqVolt" -> [voltMode |-> x.voltMode, states |-> x.states, active |-> x.dpm.active]
    [] leaf.kind = "PMVoltCurve" -> [mode |-> x.mode, points |-> x.points]
    [] leaf.kind = "FanAuto" -> NoSettings
    [] leaf.kind = "FanFixed" ->
         [value |-> Percent(x.value), fanStop |-> x.fanStop, fanStartValue |-> Percent(x.fanStartValue)]
    [] leaf.kind = "FanCurve" ->
         [points |-> x.points, fanStop |-> x.fanStop, fanStartValue |-> Percent(x.fanStartValue)]
    [] OTHER -> x

\* A method is the control's own or the default.
LEMMA OverOf ==
  ASSUME NEW methods, NEW x
  PROVE LET r == Over(methods, NoInit(x))
        IN  /\ r.preInit = IF "preInit" \in DOMAIN methods THEN methods.preInit ELSE <<x, <<>>>>
            /\ r.postInit = IF "postInit" \in DOMAIN methods THEN methods.postInit ELSE <<>>
            /\ r.export = IF "export" \in DOMAIN methods THEN methods.export ELSE x
            /\ r.synced = IF "synced" \in DOMAIN methods THEN methods.synced ELSE x
            /\ r.cleaned = IF "cleaned" \in DOMAIN methods THEN methods.cleaned ELSE x
            /\ \A name \in {"init", "sync", "clean"} : name \in DOMAIN methods => r[name] = methods[name]
BY DEF Over, NoInit

\* The group only adds writes.
LEMMA GroupOf ==
  ASSUME NEW methods, NEW x, NEW files
  PROVE LET r == Over(methods, NoInit(x))
        IN  \A name \in {"export", "synced", "cleaned", "preInit", "postInit"} : InGroup(r, files)[name] = r[name]
<1> DEFINE r == Over(methods, NoInit(x))
<1>1. r = [name \in DOMAIN r |-> r[name]] /\ {"export", "synced", "cleaned", "preInit", "postInit"} \subseteq DOMAIN r
  BY DEF Over, NoInit
<1> HIDE DEF r
<1>2. \A name \in {"export", "synced", "cleaned", "preInit", "postInit"} : InGroup(r, files)[name] = r[name]
  BY <1>1 DEF InGroup
<1>3. QED
  BY <1>2 DEF r

\* A control exports the settings it was given, whatever the files hold.
LEMMA ExportOf ==
  ASSUME l.kind \in Kinds, NEW x, NEW files
  PROVE Methods(l, x, files).export = Exported(l, x) /\ ControlAt(x, files).export = Exported(l, x)
<1> DEFINE methods == Leaf(l, x, files)
<1>1. Methods(l, x, files).export = IF "export" \in DOMAIN methods THEN methods.export ELSE x
  BY ZenonT(60), OverOf DEF Methods
<1>2. ControlAt(x, files).export = Methods(l, x, files).export
  BY GroupOf DEF ControlAt, Methods
<1>3. (IF "export" \in DOMAIN methods THEN methods.export ELSE x) = Exported(l, x)
  <2>1. CASE l.kind = "PMAuto"
    BY <2>1 DEF Leaf, PMAuto, PMAutoLegacy, PMAutoR600, Exported
  <2>2. CASE l.kind = "PMFixed"
    BY <2>2 DEF Leaf, PMFixed, PMFixedLegacy, PMFixedR600, Exported
  <2>3. CASE l.kind \in {"PMPowerState", "PMDynamicFreq", "PMFreqOd", "PMPowerProfile", "CPUFreq"}
    BY <2>3 DEF Leaf, PMPowerState, PMDynamicFreq, PMFreqOd, PMPowerProfile, CPUFreq, Exported
  <2>4. CASE l.kind \in {"PMFixedFreq", "PMPowerCap"}
    BY <2>4 DEF Leaf, PMFixedFreq, PMPowerCap, Exported
  <2>5. CASE l.kind \in {"PMFreqRange", "PMFreqVolt"}
    BY <2>5 DEF Leaf, PMFreqRange, PMFreqVolt, Exported
  <2>6. CASE l.kind \in {"PMVoltCurve", "PMVoltOffset"}
    BY <2>6 DEF Leaf, PMVoltCurve, PMVoltOffset, Exported
  <2>7. CASE l.kind \in {"FanAuto", "FanFixed", "FanCurve"}
    BY <2>7 DEF Leaf, FanAuto, FanFixed, FanCurve, FanCurveAt, Exported
  <2>8. QED
    BY <2>1, <2>2, <2>3, <2>4, <2>5, <2>6, <2>7 DEF Kinds
<1>4. QED
  BY <1>1, <1>2, <1>3

\* A pass only changes what a control remembers of its writes, never its settings.
LEMMA MarksOf ==
  ASSUME l.kind \in Kinds, NEW d, NEW x, Configured(l, d, x), NEW files
  PROVE Configured(l, d, ControlAt(x, files).synced) /\ Configured(l, d, ControlAt(x, files).cleaned)
<1> DEFINE methods == Leaf(l, x, files)
           synced == IF "synced" \in DOMAIN methods THEN methods.synced ELSE x
           cleaned == IF "cleaned" \in DOMAIN methods THEN methods.cleaned ELSE x
<1>1. ControlAt(x, files).synced = synced /\ ControlAt(x, files).cleaned = cleaned
  <2> DEFINE r == Over(methods, NoInit(x))
  <2>1. ControlAt(x, files) = InGroup(r, files)
    BY DEF ControlAt, Methods
  <2> HIDE DEF methods
  <2>2. r.synced = synced /\ r.cleaned = cleaned
    BY DEF Over, NoInit
  <2>3. InGroup(r, files).synced = r.synced /\ InGroup(r, files).cleaned = r.cleaned
    BY GroupOf
  <2>4. QED
    BY <2>1, <2>2, <2>3
<1>2. Configured(l, d, synced) /\ Configured(l, d, cleaned)
  <2>1. CASE l.kind \in {"PMAuto", "PMFixed"}
    <3>1. "synced" \notin DOMAIN methods /\ "cleaned" \notin DOMAIN methods
      BY <2>1 DEF Leaf, PMAuto, PMAutoLegacy, PMAutoR600, PMFixed, PMFixedLegacy, PMFixedR600
    <3>2. QED
      BY <3>1
  <2>2. CASE l.kind \in {"PMPowerState", "PMDynamicFreq", "PMFreqOd", "PMPowerProfile", "CPUFreq", "PMPowerCap"}
    <3>1. "synced" \notin DOMAIN methods /\ "cleaned" \notin DOMAIN methods
      BY <2>2 DEF Leaf, PMPowerState, PMDynamicFreq, PMFreqOd, PMPowerProfile, CPUFreq, PMPowerCap
    <3>2. QED
      BY <3>1
  <2>3. CASE l.kind \in {"PMFreqRange", "PMVoltCurve", "PMVoltOffset", "FanAuto"}
    <3>1. "synced" \notin DOMAIN methods /\ "cleaned" \notin DOMAIN methods
      BY <2>3 DEF Leaf, PMFreqRange, PMVoltCurve, PMVoltOffset, FanAuto
    <3>2. QED
      BY <3>1
  <2>4. ASSUME NEW h, NEW states, h \in Handlers(states), NEW file, NEW all
        PROVE /\ PpDpmHandler(h, file, all, files).synced \in Handlers(states)
              /\ PpDpmHandler(h, file, all, files).cleaned \in Handlers(states)
    BY <2>4 DEF PpDpmHandler, Handlers
  <2>5. CASE l.kind = "PMFixedFreq"
    <3> DEFINE sclk == PpDpmHandler(x.sclk, "pp_dpm_sclk", l.sclk, files)
               mclk == PpDpmHandler(x.mclk, "pp_dpm_mclk", l.mclk, files)
    <3>1. x.sclk \in Handlers(l.sclk) /\ x.mclk \in Handlers(l.mclk)
      BY <2>5 DEF Configured
    <3>2. /\ sclk.synced \in Handlers(l.sclk) /\ sclk.cleaned \in Handlers(l.sclk)
          /\ mclk.synced \in Handlers(l.mclk) /\ mclk.cleaned \in Handlers(l.mclk)
      BY <3>1, <2>4
    <3>3. synced = [sclk |-> sclk.synced, mclk |-> mclk.synced] /\ cleaned = [sclk |-> sclk.cleaned, mclk |-> mclk.cleaned]
      BY <2>5 DEF Leaf, PMFixedFreq
    <3> HIDE DEF sclk, mclk, synced, cleaned
    <3>4. QED
      BY <2>5, <3>2, <3>3 DEF Configured
  <2>6. CASE l.kind = "PMFreqVolt"
    <3> DEFINE dpm == PpDpmHandler(x.dpm, l.dpmFile, l.dpmStates, files)
    <3>1. x.dpm \in Handlers(l.dpmStates)
      BY <2>6 DEF Configured
    <3>2. dpm.synced \in Handlers(l.dpmStates) /\ dpm.cleaned \in Handlers(l.dpmStates)
      BY <3>1, <2>4
    <3>3. synced = [x EXCEPT !.dpm = dpm.synced] /\ cleaned = [x EXCEPT !.dpm = dpm.cleaned]
      BY <2>6 DEF Leaf, PMFreqVolt
    <3> HIDE DEF dpm, synced, cleaned
    <3>4. QED
      BY <2>6, <3>2, <3>3 DEF Configured
  <2>7. CASE l.kind = "FanFixed"
    <3>1. synced = [x EXCEPT !.lastValue = FixedPwm(x)] /\ cleaned = [x EXCEPT !.lastValue = NoPwm]
      BY <2>7 DEF Leaf, FanFixed
    <3>2. FixedPwm(x) \in Int /\ NoPwm \in Int
      BY <2>7 DEF Configured, FixedPwm, NoPwm
    <3> HIDE DEF synced, cleaned
    <3>3. QED
      BY <2>7, <3>1, <3>2 DEF Configured
  <2>8. CASE l.kind = "FanCurve"
    <3> DEFINE Marked(pwm, stop) == [x EXCEPT !.lastPwm = pwm, !.lastFanStop = stop]
    <3>1. /\ synced = Marked(CurvePwm(x, files["pwm1"], files["temp1_input"]), x.fanStop)
          /\ cleaned = Marked(NoPwm, FALSE)
      BY <2>8 DEF Leaf, FanCurve, FanCurveAt
    <3>2. ASSUME NEW pwm, NEW stop PROVE Configured(l, d, Marked(pwm, stop))
      <4> DEFINE y == Marked(pwm, stop)
      <4>1. x \in [points : Curves(l), fanStop : BOOLEAN, fanStartValue : 0 .. 255,
                   lastPwm : {x.lastPwm}, lastFanStop : {x.lastFanStop}]
        BY <2>8 DEF Configured
      <4>2. /\ y \in [points : Curves(l), fanStop : BOOLEAN, fanStartValue : 0 .. 255, lastPwm : {pwm}, lastFanStop : {stop}]
            /\ y.lastPwm = pwm /\ y.lastFanStop = stop
        BY <4>1
      <4> HIDE DEF y
      <4>3. QED
        BY <2>8, <4>2 DEF Configured, y
    <3> HIDE DEF synced, cleaned
    <3>3. QED
      BY <3>1, <3>2
  <2>9. QED
    BY <2>1, <2>2, <2>3, <2>5, <2>6, <2>7, <2>8 DEF Kinds
<1>3. QED
  BY <1>1, <1>2

\* A pwm is shown as a percentage.
LEMMA PercentOf == \A pwm \in 0 .. 255 : Percent(pwm) \in 0 .. 100
BY DEF Percent, Rounded

\* A percentage asks for a pwm.
LEMMA PwmOf == \A percent \in Int : Pwm(percent) \in 0 .. 255
BY DEF Pwm, Rounded, Clamp

\* What a control exports are settings of a profile.
LEMMA ExportedIn ==
  ASSUME l.kind \in Kinds, NEW d, NEW x, Configured(l, d, x)
  PROVE Exported(l, x) \in Settable(l, d)
<1>1. CASE l.kind \in {"PMAuto", "PMFixed", "PMPowerState", "PMDynamicFreq", "PMFreqOd", "PMPowerProfile", "CPUFreq"}
  BY ZenonT(60), <1>1 DEF Configured, Exported, Settable
<1>2. CASE l.kind \in {"PMPowerCap", "PMVoltOffset", "PMFreqRange", "PMVoltCurve", "FanAuto"}
  BY ZenonT(60), <1>2 DEF Configured, Exported, Settable
<1>3. CASE l.kind = "PMFixedFreq"
  <2>1. x.sclk \in Handlers(l.sclk) /\ x.mclk \in Handlers(l.mclk)
    BY <1>3 DEF Configured
  <2>2. The(x.sclk.active) \in l.sclk /\ The(x.mclk.active) \in l.mclk
    BY <2>1 DEF Handlers, NonEmpty, The
  <2>3. QED
    BY <1>3, <2>2 DEF Exported, Settable
<1>4. CASE l.kind = "PMFreqVolt"
  BY <1>4 DEF Configured, Exported, Settable, Handlers
<1>5. CASE l.kind \in {"FanFixed", "FanCurve"}
  <2>1. x.fanStop \in BOOLEAN /\ x.fanStartValue \in 0 .. 255
    BY <1>5 DEF Configured
  <2>2. Percent(x.fanStartValue) \in 0 .. 100
    BY <2>1, PercentOf
  <2>3. CASE l.kind = "FanFixed"
    <3>1. Percent(x.value) \in 0 .. 100
      BY <2>3, PercentOf DEF Configured
    <3>2. QED
      BY <2>1, <2>2, <2>3, <3>1 DEF Exported, Settable
  <2>4. CASE l.kind = "FanCurve"
    <3>1. x.points \in Curves(l)
      BY <2>4 DEF Configured
    <3>2. QED
      BY <2>1, <2>2, <2>4, <3>1 DEF Exported, Settable
  <2>5. QED
    BY <1>5, <2>3, <2>4
<1>6. QED
  BY <1>1, <1>2, <1>3, <1>4, <1>5 DEF Kinds

\* The settings of a profile are legal.
LEMMA LegalOf ==
  ASSUME NEW m \in Machines, l \in Leaves(m), Defaults(l, default), default \in Settable(l, default),
         NEW s \in Settable(l, default)
  PROVE Legal(s)
<1>0. l.kind \in Kinds /\ Found(m, l) /\ HasRanges(l)
  BY FoundOf, MachinesAssumption
<1>1. CASE l.kind \in {"PMAuto", "PMFixed", "PMPowerState", "PMDynamicFreq", "PMPowerProfile", "CPUFreq", "FanAuto"}
  BY <1>1 DEF Settable, Legal
<1>2. CASE l.kind \in {"PMFreqOd", "PMFixedFreq", "FanFixed"}
  <2>1. CASE l.kind = "PMFreqOd"
    BY <2>1 DEF Settable, Legal, Between, MaxOd
  <2>2. CASE l.kind = "PMFixedFreq"
    BY <2>2 DEF Settable, Legal
  <2>3. CASE l.kind = "FanFixed"
    <3>1. s.value \in 0 .. 100 /\ s.fanStartValue \in 0 .. 100
      BY <2>3 DEF Settable
    <3>2. QED
      BY <2>3, <3>1 DEF Legal, Between
  <2>4. QED
    BY <1>2, <2>1, <2>2, <2>3
<1>8. CASE l.kind = "PMPowerCap"
  BY <1>8, <1>0 DEF Settable, Legal, Between, HasRanges, IsRange
<1>9. CASE l.kind = "PMVoltOffset"
  <2>1. s.value \in -MaxOffset .. MaxOffset /\ MaxOffset \in Int
    BY <1>9 DEF Settable, MaxOffset
  <2>2. Between(s.value, -MaxOffset, MaxOffset)
    BY <2>1 DEF Between
  <2>3. QED
    BY <1>9, <2>2 DEF Legal
<1>3. CASE l.kind = "PMFreqRange"
  BY <1>3, <1>0 DEF Settable, Legal, Between, HasRanges, IsRange
<1>4. CASE l.kind = "PMFreqVolt"
  <2>1. ASSUME NEW index \in DOMAIN s.states PROVE ClampState(l, s.states[index]) = s.states[index]
    <3>1. s.states[index] \in (l.min .. l.max) \X (l.voltMin .. l.voltMax)
      BY <1>4 DEF Settable
    <3>2. QED
      BY <1>4, <1>0, <3>1 DEF ClampState, Clamp, HasRanges, IsRange
  <2>2. DOMAIN s.states = DOMAIN default.states /\ s.active # {} /\ s.active \subseteq l.dpmStates
    BY <1>4 DEF Settable, NonEmpty
  <2>3. QED
    BY <1>4, <2>1, <2>2 DEF Legal
<1>5. CASE l.kind = "PMVoltCurve"
  <2>0. s.points \in VoltCurves(l, default) /\ DOMAIN default.points \subseteq DOMAIN l.ranges
    BY <1>5 DEF Settable, Defaults
  <2>1. ASSUME NEW k \in DOMAIN s.points PROVE ClampPoint(l, k, s.points[k]) = s.points[k]
    <3>1. /\ s.points[k] \in Int \X Int /\ k \in DOMAIN l.ranges
          /\ \A n \in {1, 2} : s.points[k][n] \in l.ranges[k][n][1] .. l.ranges[k][n][2]
      BY <2>0 DEF VoltCurves
    <3>2. \A n \in {1, 2} : IsRange(l.ranges[k][n][1], l.ranges[k][n][2])
      BY <1>5, <1>0, <3>1 DEF HasRanges
    <3>3. QED
      BY <3>1, <3>2 DEF ClampPoint, Clamp, IsRange
  <2>2. DOMAIN s.points = DOMAIN default.points
    BY <2>0 DEF VoltCurves
  <2>3. QED
    BY <1>5, <2>1, <2>2 DEF Legal
<1>6. CASE l.kind = "FanCurve"
  <2>1. s.points \in Curves(l) /\ s.fanStartValue \in 0 .. 100 /\ l.maxTemp \in Nat \ {0}
    BY <1>6, <1>0 DEF Settable, Found
  <2> DEFINE points == s.points
  <2>2. /\ points \in Seq((0 .. l.maxTemp) \X (0 .. 100)) /\ Len(points) \in Nat /\ DOMAIN points = 1 .. Len(points)
        /\ \A i, k \in DOMAIN points : i <= k => points[i][2] <= points[k][2]
    BY <2>1 DEF Curves
  <2> HIDE DEF points
  <2>3. \A k \in DOMAIN points : points[k][1] \in 0 .. l.maxTemp /\ points[k][2] \in 0 .. 100
    BY <2>2
  <2>4. \A k \in DOMAIN points : Between(points[k][1], 0, l.maxTemp) /\ Between(points[k][2], 0, 100)
    BY <2>1, <2>3 DEF Between
  <2>5. \A k \in 2 .. Len(points) : points[k - 1][2] <= points[k][2]
    <3>1. \A k \in 2 .. Len(points) : k - 1 \in DOMAIN points /\ k \in DOMAIN points /\ k - 1 <= k
      BY <2>2
    <3>2. QED
      BY <2>2, <3>1
  <2>6. Between(s.fanStartValue, 0, 100)
    BY <2>1 DEF Between
  <2>7. QED
    BY <1>6, <2>4, <2>5, <2>6 DEF Legal, points
<1>7. QED
  BY <1>0, <1>1, <1>2, <1>3, <1>4, <1>5, <1>6, <1>8, <1>9 DEF Kinds

\* A clamped state or point is within the ranges.
LEMMA ClampStateOf ==
  ASSUME NEW leaf, IsRange(leaf.min, leaf.max), IsRange(leaf.voltMin, leaf.voltMax),
         NEW state, state[1] \in Int, state[2] \in Int
  PROVE ClampState(leaf, state) \in (leaf.min .. leaf.max) \X (leaf.voltMin .. leaf.voltMax)
BY DEF ClampState, Clamp, IsRange

\* A point of the voltage curve is clamped into its ranges.
LEMMA ClampPointOf ==
  ASSUME NEW leaf, NEW k, \A n \in {1, 2} : IsRange(leaf.ranges[k][n][1], leaf.ranges[k][n][2]),
         NEW point, point[1] \in Int, point[2] \in Int
  PROVE /\ ClampPoint(leaf, k, point) \in Int \X Int
        /\ \A n \in {1, 2} : ClampPoint(leaf, k, point)[n] \in leaf.ranges[k][n][1] .. leaf.ranges[k][n][2]
BY DEF ClampPoint, Clamp, IsRange

\* A point of a curve that is given, or of one that is too short.
LEMMA PointsGiven ==
  ASSUME l.kind = "PMVoltCurve", NEW m \in Machines, l \in Leaves(m), NEW d, Defaults(l, d),
         NEW i, Given(l, d, i), NEW S, S = DOMAIN d.points
  PROVE [k \in S |-> ClampPoint(l, k, PointOf(i.points, k))] \in VoltCurves(l, d)
<1> DEFINE f == [k \in S |-> ClampPoint(l, k, PointOf(i.points, k))]
<1>1. ASSUME NEW k \in S
      PROVE f[k] \in Int \X Int /\ \A n \in {1, 2} : f[k][n] \in l.ranges[k][n][1] .. l.ranges[k][n][2]
  <2> DEFINE point == PointOf(i.points, k)
  <2>1. \A n \in {1, 2} : IsRange(l.ranges[k][n][1], l.ranges[k][n][2])
    BY MachinesAssumption DEF HasRanges, Defaults
  <2>2. point[1] \in Int /\ point[2] \in Int
    <3>1. CASE k \in DOMAIN i.points
      BY <3>1 DEF Given, PointOf
    <3>2. CASE k \notin DOMAIN i.points
      BY <3>2 DEF PointOf
    <3>3. QED
      BY <3>1, <3>2
  <2>3. f[k] = ClampPoint(l, k, point)
    OBVIOUS
  <2> HIDE DEF point
  <2>4. QED
    BY <2>1, <2>2, <2>3, ClampPointOf
<1>2. DOMAIN f = S /\ f = [k \in S |-> f[k]]
  OBVIOUS
<1> HIDE DEF f
<1>3. f \in [S -> Int \X Int]
  BY <1>1, <1>2
<1>4. QED
  BY <1>1, <1>2, <1>3 DEF VoltCurves, f

\* Only states that a handler knows are activated.
LEMMA ActivatedOf ==
  ASSUME NEW states, NEW h \in Handlers(states), NEW activated
  PROVE Activated(h, states, activated) \in Handlers(states)
<1>1. CASE activated \cap states = {}
  BY <1>1 DEF Activated
<1>2. CASE activated \cap states # {}
  <2>1. activated \cap states \in NonEmpty(states)
    BY <1>2 DEF NonEmpty
  <2>2. QED
    BY <1>2, <2>1 DEF Activated, Handlers
<1>3. QED
  BY <1>1, <1>2

\* A normalised curve is a curve in order.
LEMMA CurveGiven ==
  ASSUME NEW m \in Machines, l \in Leaves(m), l.kind = "FanCurve",
         NEW points \in Seq(Int \X Int), Len(points) >= 2
  PROVE NormalizePoints(points, l.maxTemp) \in Curves(l)
<1> DEFINE normal == NormalizePoints(points, l.maxTemp)
           n == Len(points)
<1>1. l.maxTemp \in Nat \ {0}
  BY FoundOf DEF Found
<1>2. /\ normal \in Seq((0 .. l.maxTemp) \X (0 .. 100)) /\ Len(normal) = n
      /\ \A i, k \in 1 .. n : i <= k => normal[i][2] <= normal[k][2]
  BY <1>1, NormalizeOf
<1> HIDE DEF normal
<1>3. n \in Nat /\ n >= 2 /\ DOMAIN normal = 1 .. n
  BY <1>2
<1> HIDE DEF n
<1>4. QED
  BY <1>2, <1>3 DEF Curves, normal

\* A part only takes settings it can have.
LEMMA PartOf ==
  ASSUME NEW m \in Machines, l \in Leaves(m), NEW d, Defaults(l, d), NEW p \in Settable(l, d), NEW i, Given(l, d, i)
  PROVE ProfilePart(p, i) \in Settable(l, d)
<1>0. l.kind \in Kinds /\ Found(m, l) /\ HasRanges(l)
  BY FoundOf, MachinesAssumption
<1>1. CASE l.kind \in {"PMAuto", "PMDynamicFreq", "FanAuto"}
  BY <1>1 DEF Settable, ProfilePart, PMAutoProfilePart, PMDynamicFreqProfilePart, FanAutoProfilePart
<1>2. CASE l.kind \in {"PMFixed", "PMPowerState", "PMPowerProfile", "CPUFreq"}
  BY <1>2 DEF Settable, ProfilePart, PMFixedProfilePart, PMPowerStateProfilePart, PMPowerProfileProfilePart,
              CPUFreqProfilePart, Known
<1>3. CASE l.kind \in {"PMFixedFreq"}
  BY <1>3 DEF Settable, ProfilePart, PMFixedFreqProfilePart, Known
<1>4. CASE l.kind = "PMFreqOd"
  BY <1>4 DEF Settable, ProfilePart, PMFreqOdProfilePart, Clamp, MaxOd, Given
<1>5. CASE l.kind = "PMPowerCap"
  BY <1>5, <1>0 DEF Settable, ProfilePart, PMPowerCapProfilePart, Clamp, HasRanges, IsRange, Given
<1>6. CASE l.kind = "PMVoltOffset"
  <2> DEFINE value == Clamp(i.value, -MaxOffset, MaxOffset)
  <2>1. value \in -MaxOffset .. MaxOffset
    BY <1>6 DEF Clamp, MaxOffset, Given
  <2>2. ProfilePart(p, i) = [value |-> value]
    BY <1>6 DEF ProfilePart, PMVoltOffsetProfilePart
  <2> HIDE DEF value
  <2>3. QED
    BY <1>6, <2>1, <2>2 DEF Settable
<1>7. CASE l.kind = "PMFreqRange"
  <2> DEFINE f == [index \in DOMAIN p.states |-> Clamp(i.states[index], l.min, l.max)]
  <2>1. DOMAIN p.states = DOMAIN d.states
    BY <1>7 DEF Settable
  <2>2. f \in [DOMAIN d.states -> l.min .. l.max]
    BY <1>7, <1>0, <2>1 DEF Given, Clamp, HasRanges, IsRange
  <2>3. ProfilePart(p, i) = [states |-> f]
    BY <1>7 DEF ProfilePart, PMFreqRangeProfilePart
  <2> HIDE DEF f
  <2>4. QED
    BY <1>7, <2>2, <2>3 DEF Settable
<1>8. CASE l.kind = "PMFreqVolt"
  <2> DEFINE f == [index \in DOMAIN p.states |-> ClampState(l, i.states[index])]
             chosen == i.active \cap DOMAIN p.states
             voltMode == Known(i.voltMode, {"auto", "manual"}, p.voltMode)
             kept == IF chosen = {} THEN p.active ELSE chosen
  <2>1. DOMAIN p.states = DOMAIN d.states /\ p.voltMode \in VoltModes /\ p.active \in NonEmpty(l.dpmStates)
    BY <1>8 DEF Settable
  <2>2. f \in [DOMAIN d.states -> (l.min .. l.max) \X (l.voltMin .. l.voltMax)]
    <3>1. \A index \in DOMAIN d.states : ClampState(l, i.states[index]) \in (l.min .. l.max) \X (l.voltMin .. l.voltMax)
      BY <1>8, <1>0, ClampStateOf DEF Given, HasRanges
    <3>2. QED
      BY <2>1, <3>1
  <2>3. voltMode \in VoltModes
    BY <2>1 DEF Known, VoltModes
  <2>4. kept \in NonEmpty(l.dpmStates)
    BY <1>8, <2>1 DEF Defaults, NonEmpty
  <2>5. ProfilePart(p, i) = [voltMode |-> voltMode, states |-> f, active |-> kept]
    BY <1>8 DEF ProfilePart, PMFreqVoltProfilePart
  <2> HIDE DEF f, voltMode, kept
  <2>6. QED
    BY <1>8, <2>2, <2>3, <2>4, <2>5 DEF Settable
<1>9. CASE l.kind = "PMVoltCurve"
  <2> DEFINE points == [k \in DOMAIN p.points |-> ClampPoint(l, k, PointOf(i.points, k))]
             mode == Known(i.mode, {"auto", "manual"}, p.mode)
  <2>1. p.mode \in VoltModes /\ DOMAIN p.points = DOMAIN d.points
    BY <1>9 DEF Settable, VoltCurves
  <2>2. mode \in VoltModes
    BY <2>1 DEF Known, VoltModes
  <2>3. points \in VoltCurves(l, d)
    BY <1>9, <2>1, PointsGiven
  <2>4. ProfilePart(p, i) = [mode |-> mode, points |-> points]
    BY <1>9 DEF ProfilePart, PMVoltCurveProfilePart
  <2> HIDE DEF mode, points
  <2>5. QED
    BY <1>9, <2>2, <2>3, <2>4 DEF Settable
<1>10. CASE l.kind = "FanFixed"
  <2> DEFINE value == Clamp(i.value, 0, 100)
             startValue == Clamp(i.fanStartValue, 0, 100)
  <2>1. value \in 0 .. 100 /\ startValue \in 0 .. 100 /\ i.fanStop \in BOOLEAN
    BY <1>10, ClampPercent DEF Given
  <2>2. ProfilePart(p, i) = [value |-> value, fanStop |-> i.fanStop, fanStartValue |-> startValue]
    BY <1>10 DEF ProfilePart, FanFixedProfilePart
  <2> HIDE DEF value, startValue
  <2>3. QED
    BY <1>10, <2>1, <2>2 DEF Settable
<1>11. CASE l.kind = "FanCurve"
  <2> DEFINE points == NormalizePoints(i.points, l.maxTemp)
             startValue == Clamp(i.fanStartValue, 0, 100)
  <2>1. startValue \in 0 .. 100 /\ i.fanStop \in BOOLEAN
    BY <1>11, ClampPercent DEF Given
  <2>2. points \in Curves(l)
    BY <1>11, CurveGiven DEF Given
  <2>3. ProfilePart(p, i) = [points |-> points, fanStop |-> i.fanStop, fanStartValue |-> startValue]
    BY <1>11 DEF ProfilePart, FanCurveProfilePart
  <2> HIDE DEF points, startValue
  <2>4. QED
    BY <1>11, <2>1, <2>2, <2>3 DEF Settable
<1>12. QED
  BY <1>0, <1>1, <1>2, <1>3, <1>4, <1>5, <1>6, <1>7, <1>8, <1>9, <1>10, <1>11 DEF Kinds

\* A control only imports settings it can have.
LEMMA ImportOf ==
  ASSUME NEW m \in Machines, l \in Leaves(m), NEW d, Defaults(l, d), NEW x, Configured(l, d, x), NEW i, Given(l, d, i)
  PROVE Configured(l, d, Import(x, i))
<1>0. l.kind \in Kinds /\ Found(m, l) /\ HasRanges(l)
  BY FoundOf, MachinesAssumption
<1>1. CASE l.kind \in {"PMAuto", "PMDynamicFreq", "FanAuto"}
  BY ZenonT(60), <1>1 DEF Configured, Import, PMAutoImport, PMDynamicFreqImport, FanAutoImport
<1>2. CASE l.kind \in {"PMFixed", "PMPowerState", "PMPowerProfile", "CPUFreq"}
  <2>1. CASE l.kind \in {"PMFixed", "PMPowerState", "PMPowerProfile"}
    <3>1. Import(x, i) = [mode |-> Known(i.mode, l.modes, x.mode)]
      BY <2>1 DEF Import, PMFixedImport, PMPowerStateImport, PMPowerProfileImport
    <3>2. x \in [mode : l.modes]
      BY <2>1 DEF Configured, Settable
    <3>3. Import(x, i) \in [mode : l.modes]
      BY <3>1, <3>2 DEF Known
    <3>4. QED
      BY <2>1, <3>3 DEF Configured, Settable
  <2>2. CASE l.kind = "CPUFreq"
    BY <2>2 DEF Configured, Settable, Import, CPUFreqImport, Known
  <2>3. QED
    BY <1>2, <2>1, <2>2
<1>3. CASE l.kind \in {"PMFixedFreq"}
  <2> DEFINE sclk == Activated(x.sclk, l.sclk, {i.sclk})
             mclk == Activated(x.mclk, l.mclk, {i.mclk})
  <2>1. sclk \in Handlers(l.sclk) /\ mclk \in Handlers(l.mclk)
    BY <1>3, ActivatedOf DEF Configured
  <2>2. Import(x, i) = [sclk |-> sclk, mclk |-> mclk]
    BY <1>3 DEF Import, PMFixedFreqImport
  <2> HIDE DEF sclk, mclk
  <2>3. QED
    BY <1>3, <2>1, <2>2 DEF Configured
<1>4. CASE l.kind = "PMFreqOd"
  BY <1>4 DEF Configured, Settable, Import, PMFreqOdImport, Clamp, MaxOd, Given
<1>5. CASE l.kind = "PMPowerCap"
  <2> DEFINE value == Clamp(i.value, l.min, l.max)
  <2>1. value \in l.min .. l.max
    BY <1>5, <1>0 DEF Clamp, Given, HasRanges, IsRange
  <2>2. Import(x, i) = [x EXCEPT !.value = value]
    BY <1>5 DEF Import, PMPowerCapImport
  <2> HIDE DEF value
  <2>3. QED
    BY <1>5, <2>1, <2>2 DEF Configured
<1>6. CASE l.kind = "PMVoltOffset"
  <2> DEFINE value == Clamp(i.value, -MaxOffset, MaxOffset)
  <2>1. value \in -MaxOffset .. MaxOffset
    BY <1>6 DEF Clamp, MaxOffset, Given
  <2>2. Import(x, i) = [x EXCEPT !.value = value]
    BY <1>6 DEF Import, PMVoltOffsetImport
  <2> HIDE DEF value
  <2>3. QED
    BY <1>6, <2>1, <2>2 DEF Configured
<1>7. CASE l.kind = "PMFreqRange"
  <2> DEFINE f == [index \in DOMAIN x.states |-> Clamp(i.states[index], l.min, l.max)]
  <2>1. DOMAIN x.states = DOMAIN d.states
    BY <1>7 DEF Configured
  <2>2. f \in [DOMAIN d.states -> l.min .. l.max]
    BY <1>7, <1>0, <2>1 DEF Given, Clamp, HasRanges, IsRange
  <2>3. Import(x, i) = [x EXCEPT !.states = f]
    BY <1>7 DEF Import, PMFreqRangeImport
  <2> HIDE DEF f
  <2>4. QED
    BY <1>7, <2>2, <2>3 DEF Configured
<1>8. CASE l.kind = "PMFreqVolt"
  <2> DEFINE f == [index \in DOMAIN x.states |-> ClampState(l, i.states[index])]
             dpm == Activated(x.dpm, l.dpmStates, i.active)
             voltMode == VoltMode(i.voltMode)
  <2>1. DOMAIN x.states = DOMAIN d.states /\ x.dpm \in Handlers(l.dpmStates)
    BY <1>8 DEF Configured
  <2>2. f \in [DOMAIN d.states -> (l.min .. l.max) \X (l.voltMin .. l.voltMax)]
    <3>1. \A index \in DOMAIN d.states : ClampState(l, i.states[index]) \in (l.min .. l.max) \X (l.voltMin .. l.voltMax)
      BY <1>8, <1>0, ClampStateOf DEF Given, HasRanges
    <3>2. QED
      BY <2>1, <3>1
  <2>3. voltMode \in VoltModes
    BY DEF VoltMode, VoltModes
  <2>4. dpm \in Handlers(l.dpmStates)
    BY <2>1, ActivatedOf
  <2>5. Import(x, i) = [x EXCEPT !.voltMode = voltMode, !.states = f, !.dpm = dpm]
    BY <1>8 DEF Import, PMFreqVoltImport
  <2> HIDE DEF f, voltMode, dpm
  <2>6. QED
    BY <1>8, <2>2, <2>3, <2>4, <2>5 DEF Configured
<1>9. CASE l.kind = "PMVoltCurve"
  <2> DEFINE points == [k \in DOMAIN x.points |-> ClampPoint(l, k, PointOf(i.points, k))]
             mode == VoltMode(i.mode)
  <2>1. DOMAIN x.points = DOMAIN d.points
    BY <1>9 DEF Configured, VoltCurves
  <2>2. mode \in VoltModes
    BY DEF VoltMode, VoltModes
  <2>3. points \in VoltCurves(l, d)
    BY <1>9, <2>1, PointsGiven
  <2>4. Import(x, i) = [x EXCEPT !.mode = mode, !.points = points]
    BY <1>9 DEF Import, PMVoltCurveImport
  <2> HIDE DEF mode, points
  <2>5. QED
    BY <1>9, <2>2, <2>3, <2>4 DEF Configured
<1>10. CASE l.kind = "FanFixed"
  <2> DEFINE value == Pwm(i.value)
             startValue == Pwm(i.fanStartValue)
  <2>1. value \in 0 .. 255 /\ startValue \in 0 .. 255 /\ i.fanStop \in BOOLEAN
    BY <1>10, PwmOf DEF Given
  <2>2. Import(x, i) = [x EXCEPT !.value = value, !.fanStop = i.fanStop, !.fanStartValue = startValue]
    BY <1>10 DEF Import, FanFixedImport
  <2> HIDE DEF value, startValue
  <2>3. QED
    BY ZenonT(60), <1>10, <2>1, <2>2 DEF Configured
<1>11. CASE l.kind = "FanCurve"
  <2> DEFINE points == NormalizePoints(i.points, l.maxTemp)
             startValue == Pwm(i.fanStartValue)
  <2>1. startValue \in 0 .. 255 /\ i.fanStop \in BOOLEAN
    BY <1>11, PwmOf DEF Given
  <2>2. points \in Curves(l)
    BY <1>11, CurveGiven DEF Given
  <2>3. Import(x, i) = [x EXCEPT !.points = points, !.fanStop = i.fanStop, !.fanStartValue = startValue]
    BY <1>11 DEF Import, FanCurveImport
  <2> HIDE DEF points, startValue
  <2>4. QED
    BY ZenonT(60), <1>11, <2>1, <2>2, <2>3 DEF Configured
<1>12. QED
  BY <1>0, <1>1, <1>2, <1>3, <1>4, <1>5, <1>6, <1>7, <1>8, <1>9, <1>10, <1>11 DEF Kinds

\* The points of a fan curve.
LEMMA CurvesOf ==
  ASSUME NEW leaf, NEW points \in Curves(leaf)
  PROVE /\ points \in Seq((0 .. leaf.maxTemp) \X (0 .. 100))
        /\ points \in Seq(Int \X Int)
        /\ Len(points) \in Nat /\ Len(points) >= 2 /\ DOMAIN points = 1 .. Len(points)
        /\ \A k \in DOMAIN points : points[k][1] \in 0 .. leaf.maxTemp /\ points[k][2] \in 0 .. 100
<1> DEFINE S == (0 .. leaf.maxTemp) \X (0 .. 100)
<1>1. points \in Seq(S) /\ Len(points) >= 2
  BY DEF Curves
<1>2. S \subseteq Int \X Int
  OBVIOUS
<1>3. \A pair \in S : pair[1] \in 0 .. leaf.maxTemp /\ pair[2] \in 0 .. 100
  OBVIOUS
<1> HIDE DEF S
<1>4. Len(points) \in Nat /\ DOMAIN points = 1 .. Len(points) /\ \A k \in 1 .. Len(points) : points[k] \in S
  BY <1>1
<1>5. points \in Seq(Int \X Int)
  <2> DEFINE T == Int \X Int
  <2>1. S \subseteq T
    BY <1>2
  <2> HIDE DEF T
  <2>2. points \in Seq(T)
    BY <1>1, <2>1
  <2>3. QED
    BY <2>2 DEF T
<1>6. QED
  BY <1>1, <1>3, <1>4, <1>5 DEF S

\* The settings of a part can be given to another and to the control.
LEMMA SettableGiven ==
  ASSUME NEW m \in Machines, l \in Leaves(m), NEW d, NEW s \in Settable(l, d)
  PROVE Given(l, d, s)
<1>0. l.kind \in Kinds /\ Found(m, l) /\ HasRanges(l)
  BY FoundOf, MachinesAssumption
<1>1. CASE l.kind \in {"PMAuto", "PMDynamicFreq", "FanAuto", "PMFixed", "PMPowerState", "PMPowerProfile", "CPUFreq",
                       "PMFixedFreq"}
  BY <1>1 DEF Given
<1>2. CASE l.kind = "PMFreqOd"
  BY <1>2 DEF Given, Settable, MaxOd
<1>3. CASE l.kind = "PMPowerCap"
  BY <1>3, <1>0 DEF Given, Settable, HasRanges, IsRange
<1>4. CASE l.kind = "PMVoltOffset"
  BY <1>4 DEF Given, Settable, MaxOffset
<1>5. CASE l.kind = "PMFreqRange"
  BY <1>5, <1>0 DEF Given, Settable, HasRanges, IsRange
<1>6. CASE l.kind = "PMFreqVolt"
  BY <1>6, <1>0 DEF Given, Settable, HasRanges, IsRange
<1>7. CASE l.kind = "PMVoltCurve"
  BY <1>7 DEF Given, Settable, VoltCurves
<1>8. CASE l.kind = "FanFixed"
  BY <1>8 DEF Given, Settable
<1>9. CASE l.kind = "FanCurve"
  <2>1. s.points \in Curves(l) /\ s.fanStop \in BOOLEAN /\ s.fanStartValue \in 0 .. 100
    BY <1>9 DEF Settable
  <2>2. s.points \in Seq(Int \X Int) /\ Len(s.points) >= 2
    BY <2>1, CurvesOf
  <2>3. s.fanStartValue \in Int
    BY <2>1
  <2>4. QED
    BY <1>9, <2>1, <2>2, <2>3 DEF Given
<1>10. QED
  BY <1>0, <1>1, <1>2, <1>3, <1>4, <1>5, <1>6, <1>7, <1>8, <1>9 DEF Kinds

\* A point that is moved stays a pair of numbers.
LEMMA MovedOf ==
  ASSUME NEW points \in Seq(Int \X Int), NEW k, NEW to \in Int \X Int
  PROVE Moved(points, k, to) \in Seq(Int \X Int) /\ Len(Moved(points, k, to)) = Len(points)
<1> DEFINE from == <<Degree * Rounded(points[k][1], Degree), points[k][2]>>
           at == FirstFrom(points, 1, LAMBDA point : point = from)
           T == Int \X Int
<1>1. Moved(points, k, to) = IF at > Len(points) THEN points ELSE [points EXCEPT ![at] = to]
  BY DEF Moved
<1>2. points \in Seq(T) /\ to \in T
  OBVIOUS
<1> HIDE DEF at, T
<1>3. [points EXCEPT ![at] = to] \in Seq(T) /\ Len([points EXCEPT ![at] = to]) = Len(points)
  <2> DEFINE n == Len(points)
             f == [points EXCEPT ![at] = to]
  <2>1. n \in Nat /\ points \in [1 .. n -> T]
    BY <1>2
  <2> HIDE DEF n
  <2>2. f \in [1 .. n -> T]
    BY <1>2, <2>1
  <2> HIDE DEF f
  <2>3. f \in Seq(T) /\ Len(f) = n
    BY <2>1, <2>2
  <2>4. QED
    BY <2>3 DEF f, n
<1>4. QED
  BY <1>1, <1>2, <1>3 DEF T

\* Whatever the user changes can be given to the part.
LEMMA EditOf ==
  ASSUME NEW m \in Machines, l \in Leaves(m), NEW d, Defaults(l, d), NEW p \in Settable(l, d),
         NEW item \in QMLItem(QMLItem(p, p).take, p).edits
  PROVE Given(l, d, item)
<1>0. l.kind \in Kinds /\ Found(m, l) /\ HasRanges(l) /\ Given(l, d, p)
  BY FoundOf, MachinesAssumption, SettableGiven
<1>1. CASE l.kind \in {"PMAuto", "PMDynamicFreq", "FanAuto", "PMFixed", "PMPowerState", "PMPowerProfile", "CPUFreq",
                       "PMFixedFreq"}
  BY <1>1 DEF Given
<1>2. CASE l.kind = "PMFreqOd"
  <2>1. p \in [sclkOd : 0 .. MaxOd, mclkOd : 0 .. MaxOd]
    BY <1>2 DEF Settable
  <2>2. \E od \in {0, MaxOd} : item \in {[p EXCEPT !.sclkOd = od], [p EXCEPT !.mclkOd = od]}
    BY <1>2 DEF QMLItem, PMFreqOdQMLItem
  <2>3. item.sclkOd \in Int /\ item.mclkOd \in Int
    BY <2>1, <2>2 DEF MaxOd
  <2>4. QED
    BY <1>2, <2>3 DEF Given
<1>3. CASE l.kind = "PMPowerCap"
  <2>1. \E value \in {l.min, l.max} : item = [value |-> Watt * Watts(value)]
    BY <1>3 DEF QMLItem, PMPowerCapQMLItem
  <2>2. item.value \in Int
    BY <1>3, <1>0, <2>1 DEF HasRanges, IsRange, Watt, Watts
  <2>3. QED
    BY <1>3, <2>2 DEF Given
<1>4. CASE l.kind = "PMVoltOffset"
  <2>1. \E value \in {-MaxOffset, 0, MaxOffset} : item = [value |-> value]
    BY <1>4 DEF QMLItem, PMVoltOffsetQMLItem
  <2>2. item.value \in Int
    BY <2>1 DEF MaxOffset
  <2>3. QED
    BY <1>4, <2>2 DEF Given
<1>5. CASE l.kind = "PMFreqRange"
  <2>1. p.states \in [DOMAIN d.states -> Int] /\ l.min \in Int /\ l.max \in Int
    BY <1>5, <1>0 DEF Settable, HasRanges, IsRange
  <2>2. \E index \in DOMAIN p.states, freq \in {l.min, l.max} : item = [states |-> [p.states EXCEPT ![index] = freq]]
    <3> DEFINE S == {[states |-> [p.states EXCEPT ![index] = freq]] : index \in DOMAIN p.states, freq \in {l.min, l.max}}
    <3>1. \A q : QMLItem(q, p) = PMFreqRangeQMLItem(l, q, p)
      BY <1>5 DEF QMLItem
    <3>2. PMFreqRangeQMLItem(l, p, p).take = p
      BY DEF PMFreqRangeQMLItem
    <3>4. item \in PMFreqRangeQMLItem(l, p, p).edits
      BY <3>1, <3>2
    <3>5. item \in S
      BY <3>4 DEF PMFreqRangeQMLItem
    <3>3. QED
      BY <3>5
  <2>3. item.states \in [DOMAIN d.states -> Int]
    BY <2>1, <2>2
  <2>4. QED
    BY <1>5, <2>3 DEF Given
<1>6. CASE l.kind = "PMFreqVolt"
  <2> DEFINE S == DOMAIN d.states
             T == Int \X Int
             lowest == <<l.min, l.voltMax>>
             highest == <<l.max, l.voltMin>>
  <2>1. /\ p \in [voltMode : VoltModes, states : [S -> T], active : {p.active}]
        /\ lowest \in T /\ highest \in T
    <3>1. p.states \in [S -> (l.min .. l.max) \X (l.voltMin .. l.voltMax)]
      BY <1>6 DEF Settable
    <3>2. lowest \in T /\ highest \in T /\ (l.min .. l.max) \X (l.voltMin .. l.voltMax) \subseteq T
      BY <1>6, <1>0 DEF HasRanges, IsRange
    <3>3. p.states \in [S -> T]
      BY <3>1, <3>2
    <3>4. p = [voltMode |-> p.voltMode, states |-> p.states, active |-> p.active] /\ p.voltMode \in VoltModes
      BY Zenon, <1>6 DEF Settable
    <3>5. QED
      BY <3>2, <3>3, <3>4
  <2>2. \/ \E mode \in VoltModes : item = [p EXCEPT !.voltMode = mode]
        \/ \E index \in DOMAIN p.states : item = [p EXCEPT !.states[index] = lowest]
        \/ \E index \in DOMAIN p.states : item = [p EXCEPT !.states[index] = highest]
        \/ \E index \in DOMAIN p.states : item = [p EXCEPT !.active = @ \cup {index}]
        \/ \E index \in DOMAIN p.states : item = [p EXCEPT !.active = @ \ {index}]
    BY ZenonT(60), <1>6 DEF QMLItem, PMFreqVoltQMLItem, VoltModes
  <2> HIDE DEF S, T, lowest, highest
  <2>3. item.states \in [S -> T]
    BY <2>1, <2>2
  <2>4. QED
    BY <1>6, <2>3 DEF Given, S, T
<1>7. CASE l.kind = "PMVoltCurve"
  <2> DEFINE S == DOMAIN d.points
             T == Int \X Int
             range == l.ranges[Len(l.ranges)]
             first(point) == FirstFrom(p.points, 1, LAMBDA other : other = point)
             corners == {<<range[1][1], range[2][2]>>, <<range[1][2], range[2][1]>>}
  <2>1. p \in [mode : VoltModes, points : [S -> T]]
    BY <1>7 DEF Settable, VoltCurves
  <2>2. \/ \E mode \in VoltModes : item = [p EXCEPT !.mode = mode]
        \/ \E k \in DOMAIN p.points, corner \in corners : item = [p EXCEPT !.points[first(p.points[k])] = corner]
    <3> DEFINE S1 == {[p EXCEPT !.mode = mode] : mode \in {"auto", "manual"}}
               S2 == {[p EXCEPT !.points[first(p.points[k])] = corner] : k \in DOMAIN p.points, corner \in corners}
    <3>1. \A q : QMLItem(q, p) = PMVoltCurveQMLItem(l, q, p)
      BY <1>7 DEF QMLItem
    <3>4. PMVoltCurveQMLItem(l, p, p).take = p
      BY DEF PMVoltCurveQMLItem
    <3>5. item \in PMVoltCurveQMLItem(l, p, p).edits
      BY <3>1, <3>4
    <3>7. PMVoltCurveQMLItem(l, p, p) = [take |-> p, edits |-> S1 \cup S2]
      BY DEF PMVoltCurveQMLItem
    <3>2. PMVoltCurveQMLItem(l, p, p).edits = S1 \cup S2
      <4> HIDE DEF S1, S2
      <4>1. QED
        BY <3>7
    <3> HIDE DEF first, corners
    <3>6. item \in S1 \/ item \in S2
      <4> HIDE DEF S1, S2
      <4>1. QED
        BY <3>2, <3>5
    <3>3. QED
      BY <3>6 DEF VoltModes
  <2>3. DOMAIN p.points # {} => corners \subseteq T
    <3>1. SUFFICES ASSUME DOMAIN p.points # {} PROVE corners \subseteq T
      OBVIOUS
    <3>2. PICK n \in Nat : DOMAIN l.ranges = 1 .. n
      BY <1>7, <1>0 DEF Found
    <3>3. S \subseteq DOMAIN l.ranges /\ DOMAIN p.points = S
      BY <1>7, <2>1 DEF Defaults
    <3>4. Len(l.ranges) \in DOMAIN l.ranges
      <4>1. n >= 1
        BY <3>1, <3>2, <3>3
      <4>2. Len(l.ranges) = n
        BY <3>2
      <4>3. QED
        BY <3>2, <4>1, <4>2
    <3>5. \A n_1 \in {1, 2} : IsRange(range[n_1][1], range[n_1][2])
      BY <1>7, <1>0, <3>4 DEF HasRanges
    <3>6. QED
      BY <3>5 DEF IsRange
  <2> HIDE DEF S, T, first, corners
  <2>4. item.points \in [S -> T]
    BY <2>1, <2>2, <2>3
  <2>5. QED
    BY <1>7, <2>4 DEF Given, S, T
<1>8. CASE l.kind = "FanFixed"
  <2>1. p \in [value : 0 .. 100, fanStop : BOOLEAN, fanStartValue : 0 .. 100]
    BY <1>8 DEF Settable
  <2>2. \/ \E value \in {0, 100} : item = [p EXCEPT !.value = value]
        \/ \E value \in {0, 100} : item = [p EXCEPT !.fanStartValue = value]
        \/ item = [p EXCEPT !.fanStop = ~@]
    BY ZenonT(60), <1>8 DEF QMLItem, FanFixedQMLItem
  <2>3. p.value \in Int /\ p.fanStop \in BOOLEAN /\ p.fanStartValue \in Int
    BY <2>1
  <2>4. item.value \in Int /\ item.fanStop \in BOOLEAN /\ item.fanStartValue \in Int
    <3>1. CASE \E value \in {0, 100} : item = [p EXCEPT !.value = value]
      BY <2>1, <2>3, <3>1
    <3>2. CASE \E value \in {0, 100} : item = [p EXCEPT !.fanStartValue = value]
      BY <2>1, <2>3, <3>2
    <3>3. CASE item = [p EXCEPT !.fanStop = ~@]
      BY <2>1, <2>3, <3>3
    <3>4. QED
      BY <2>2, <3>1, <3>2, <3>3
  <2>5. QED
    BY <1>8, <2>4 DEF Given
<1>9. CASE l.kind = "FanCurve"
  <2> DEFINE points == p.points
             n == Len(points)
             T == Int \X Int
  <2>1. p \in [points : {points}, fanStop : BOOLEAN, fanStartValue : 0 .. 100]
    BY <1>9 DEF Settable
  <2>2. points \in Seq(T) /\ n \in Nat /\ n >= 2
    BY <1>9, CurvesOf DEF Settable
  <2>3. \/ \E k \in 1 .. n - 1 : item = [p EXCEPT !.points = Moved(@, k, <<@[k][1], @[k + 1][2]>>)]
        \/ \E k \in 1 .. n - 1 : item = [p EXCEPT !.points = Moved(@, k, <<@[k + 1][1] - 5 * Degree, @[k][2]>>)]
        \/ \E value \in {0, 100} : item = [p EXCEPT !.fanStartValue = value]
        \/ item = [p EXCEPT !.fanStop = ~@]
    <3> DEFINE S1 == {[p EXCEPT !.points = Moved(@, k, <<@[k][1], @[k + 1][2]>>)] : k \in 1 .. Len(p.points) - 1}
               S2 == {[p EXCEPT !.points = Moved(@, k, <<@[k + 1][1] - 5 * Degree, @[k][2]>>)] : k \in 1 .. Len(p.points) - 1}
               S3 == {[p EXCEPT !.fanStartValue = value] : value \in {0, 100}}
               S4 == {[p EXCEPT !.fanStop = ~@]}
    <3>1. \A q : QMLItem(q, p) = FanCurveQMLItem(l, q, p)
      BY <1>9 DEF QMLItem
    <3>7. FanCurveQMLItem(l, p, p).take = p
      BY DEF FanCurveQMLItem
    <3>8. item \in FanCurveQMLItem(l, p, p).edits
      BY <3>1, <3>7
    <3>2. item \in S1 \/ item \in S2 \/ item \in S3 \/ item \in S4
      BY <3>8 DEF FanCurveQMLItem
    <3>3. CASE item \in S1
      BY <3>3
    <3>4. CASE item \in S2
      BY <3>4
    <3>5. CASE item \in S3
      BY <3>5
    <3>6. CASE item \in S4
      BY <3>6
    <3>9. QED
      BY <3>2, <3>3, <3>4, <3>5, <3>6
  <2>4. ASSUME NEW k \in 1 .. n - 1
        PROVE <<points[k][1], points[k + 1][2]>> \in T /\ <<points[k + 1][1] - 5 * Degree, points[k][2]>> \in T
    <3>1. k \in 1 .. n /\ k + 1 \in 1 .. n
      BY <2>2
    <3>2. \A j \in 1 .. n : points[j][1] \in Int /\ points[j][2] \in Int
      BY SMTT(40), <2>2
    <3>3. QED
      BY SMTT(40), <3>1, <3>2 DEF Degree
  <2>5. ASSUME NEW k \in 1 .. n - 1, NEW to \in T
        PROVE Moved(points, k, to) \in Seq(T) /\ Len(Moved(points, k, to)) = n
    BY <2>2, MovedOf
  <2>8. p.points = points /\ p.fanStop \in BOOLEAN /\ p.fanStartValue \in Int
    BY <2>1
  <2>9. Len(points) = n
    OBVIOUS
  <2> HIDE DEF points, n, T
  <2>6. item.points \in Seq(T) /\ Len(item.points) >= 2 /\ item.fanStop \in BOOLEAN /\ item.fanStartValue \in Int
    <3>1. CASE \E k \in 1 .. n - 1 : item = [p EXCEPT !.points = Moved(@, k, <<@[k][1], @[k + 1][2]>>)]
      <4>1. PICK k \in 1 .. n - 1 : item = [p EXCEPT !.points = Moved(points, k, <<points[k][1], points[k + 1][2]>>)]
        BY <3>1 DEF points
      <4> DEFINE moved == Moved(points, k, <<points[k][1], points[k + 1][2]>>)
      <4>2. moved \in Seq(T) /\ Len(moved) >= 2
        BY <2>2, <2>4, <2>5
      <4> HIDE DEF moved
      <4>3. item = [p EXCEPT !.points = moved]
        BY <4>1 DEF moved
      <4>4. QED
        BY <2>1, <2>8, <4>2, <4>3
    <3>2. CASE \E k \in 1 .. n - 1 : item = [p EXCEPT !.points = Moved(@, k, <<@[k + 1][1] - 5 * Degree, @[k][2]>>)]
      <4>1. PICK k \in 1 .. n - 1 :
              item = [p EXCEPT !.points = Moved(points, k, <<points[k + 1][1] - 5 * Degree, points[k][2]>>)]
        BY <3>2 DEF points
      <4> DEFINE moved == Moved(points, k, <<points[k + 1][1] - 5 * Degree, points[k][2]>>)
      <4>2. moved \in Seq(T) /\ Len(moved) >= 2
        BY <2>2, <2>4, <2>5
      <4> HIDE DEF moved
      <4>3. item = [p EXCEPT !.points = moved]
        BY <4>1 DEF moved
      <4>4. QED
        BY <2>1, <2>8, <4>2, <4>3
    <3>3. CASE \E value \in {0, 100} : item = [p EXCEPT !.fanStartValue = value]
      BY <2>1, <2>8, <2>9, <2>2, <3>3
    <3>4. CASE item = [p EXCEPT !.fanStop = ~@]
      BY <2>1, <2>8, <2>9, <2>2, <3>4
    <3>5. QED
      BY <2>3, <3>1, <3>2, <3>3, <3>4
  <2>7. QED
    BY <1>9, <2>6 DEF Given, T
<1>10. QED
  BY <1>0, <1>1, <1>2, <1>3, <1>4, <1>5, <1>6, <1>7, <1>8, <1>9 DEF Kinds


\* An attribute that is missing is the default.
LEMMA AttributeOf ==
  ASSUME NEW T, NEW d \in T, NEW node, NEW name, node = Absent \/ node[name] \in T \cup {Absent}
  PROVE Attribute(node, name, d) \in T
BY DEF Attribute

\* A node of a file is one of the old or of the new version.
LEMMA SavedOf ==
  ASSUME NEW nodes, NEW parent \in Versions(nodes) \cup {Absent}
  PROVE SavedNode(parent) \in nodes \cup {Absent}
BY DEF Versions, SavedNode

\* An entry that is found has the index that was looked for.
LEMMA EntryOf ==
  ASSUME NEW entries, NEW n \in Nat, Len(entries) = n, NEW index, NEW d
  PROVE \/ Entry(entries, index, d) = d /\ \A k \in 1 .. n : entries[k][1] # index
        \/ \E k \in 1 .. n : Entry(entries, index, d) = entries[k] /\ entries[k][1] = index
<1> DEFINE S == {k \in 1 .. n : entries[k][1] = index}
           at == Min(S \cup {n + 1})
           low == 1
<1>1. at = FirstFrom(entries, 1, LAMBDA entry : entry[1] = index)
  BY DEF FirstFrom
<1>2. Entry(entries, index, d) = IF at > n THEN d ELSE entries[at]
  BY <1>1 DEF Entry
<1>3. low \in Int /\ S \in SUBSET (low .. n)
  OBVIOUS
<1>5. \A k \in S : k \in 1 .. n /\ entries[k][1] = index
  OBVIOUS
<1>6. (\A k \in 1 .. n : entries[k][1] # index) <=> S = {}
  OBVIOUS
<1> HIDE DEF S, at, low
<1>4. at \in Int /\ (at \in S \/ (S = {} /\ at = n + 1))
  BY <1>3, FirstOf DEF at
<1>7. CASE at \in S
  <2>1. at \in 1 .. n /\ entries[at][1] = index /\ Entry(entries, index, d) = entries[at]
    BY <1>2, <1>5, <1>7
  <2>2. QED
    BY <2>1
<1>8. CASE S = {} /\ at = n + 1
  BY <1>2, <1>6, <1>8
<1>9. QED
  BY <1>4, <1>7, <1>8

\* The ranges of a file are those it holds of known states, or mixed with those of a new profile.
LEMMA LoadRangeOf ==
  ASSUME NEW d, d.states \in [DOMAIN d.states -> Int], NEW parent \in Versions([states : Pairs \cup {Absent}]) \cup {Absent},
         Absent \notin Int, NEW s
  PROVE \A index \in DOMAIN d.states : PMFreqRangeXMLParser(s, parent, d).loadFrom.states[index] \in Int
<1> DEFINE D == DOMAIN d.states
           node == SavedNode(parent)
           n == Len(node.states)
           test(state) == state[1] \in D /\ state[2] # Absent
           at == {i \in DOMAIN node.states : test(node.states[i])}
           known == [k \in 1 .. Cardinality(at) |-> node.states[Nth(at, k)]]
           mixed(index) == {d.states[index]} \cup {known[k][2] : k \in {j \in DOMAIN known : known[j][1] = index}}
           loaded == IF Len(known) = Cardinality(D)
                     THEN [index \in D |-> Entry(known, index, <<index, 0>>)[2]]
                     ELSE [index \in D |-> Min(mixed(index))]
           result == PMFreqRangeXMLParser(s, parent, d).loadFrom
<1>1. node \in [states : Pairs \cup {Absent}] \cup {Absent}
  BY Zenon, SavedOf
<1>3. result = IF node = Absent THEN d ELSE IF node.states = Absent THEN d ELSE [states |-> loaded]
  BY DEF PMFreqRangeXMLParser, Picked
<1>4. CASE node = Absent \/ node.states = Absent
  <2>1. result = d
    BY Zenon, <1>3, <1>4
  <2> HIDE DEF result
  <2>2. \A index \in DOMAIN d.states : result.states[index] \in Int
    BY <2>1
  <2>3. QED
    BY <2>2 DEF result
<1>5. CASE node # Absent /\ node.states # Absent
  <2>1. node.states \in Seq(Number \X Number)
    BY <1>1, <1>5 DEF Pairs
  <2>2. n \in Nat /\ DOMAIN node.states = 1 .. n /\ \A i \in 1 .. n : node.states[i] \in Number \X Number
    BY <2>1
  <2>3. at \in SUBSET (1 .. n)
    BY <2>2
  <2>4. \A i \in at : node.states[i][2] \in Int
    BY <2>2 DEF Number
  <2> DEFINE many == Cardinality(at)
  <2> HIDE DEF n
  <2>5. many \in Nat /\ \A k \in 1 .. many : Nth(at, k) \in at
    <3> HIDE DEF at
    <3>1. QED
      BY <2>2, <2>3, PickedOf
  <2>6. DOMAIN known = 1 .. many /\ \A k \in 1 .. many : known[k][2] \in Int
    BY <2>4, <2>5
  <2>7. Len(known) = many
    BY <2>5
  <2>8. result = [states |-> loaded]
    BY Zenon, <1>3, <1>5
  <2> HIDE DEF known, many, at, node, result
  <2>9. ASSUME NEW index \in D PROVE Entry(known, index, <<index, 0>>)[2] \in Int
    <3> DEFINE entry == Entry(known, index, <<index, 0>>)
    <3>1. entry = <<index, 0>> \/ \E k \in 1 .. many : entry = known[k]
      BY <2>5, <2>7, EntryOf
    <3> HIDE DEF entry
    <3>2. entry[2] \in Int
      BY <3>1, <2>6
    <3>3. QED
      BY <3>2 DEF entry
  <2>10. ASSUME NEW index \in D PROVE Min(mixed(index)) \in Int
    <3> DEFINE T == {j \in DOMAIN known : known[j][1] = index}
               U == {known[k][2] : k \in T}
               f == [k \in T |-> known[k][2]]
               mix == {d.states[index]} \cup U
    <3>10. 1 \in Int /\ many \in Int
      BY <2>5
    <3>11. IsFiniteSet(1 .. many)
      BY <3>10, FS_Interval
    <3>1. IsFiniteSet(1 .. many) /\ T \in SUBSET (1 .. many)
      BY <2>6, <3>11
    <3>2. IsFiniteSet(T)
      BY <3>1, FS_Subset
    <3>3. f \in Surjection(T, U)
      BY DEF Surjection
    <3>4. IsFiniteSet(U)
      BY <3>2, <3>3, FS_Surjection
    <3>5. IsFiniteSet(mix)
      <4> HIDE DEF U
      <4>1. mix = U \cup {d.states[index]}
        OBVIOUS
      <4>2. QED
        BY <3>4, <4>1, FS_AddElement
    <3>6. mix \in SUBSET Int /\ mix # {}
      BY <2>6
    <3>7. mixed(index) = mix
      OBVIOUS
    <3> HIDE DEF mix
    <3>8. Min(mix) \in mix
      BY <3>5, <3>6, LeastOf
    <3>9. QED
      BY <3>6, <3>7, <3>8
  <2>11. ASSUME NEW index \in D PROVE result.states[index] \in Int
    <3>1. result.states = loaded
      BY <2>8
    <3>2. CASE Len(known) = Cardinality(D)
      BY <3>1, <3>2, <2>9
    <3>3. CASE Len(known) # Cardinality(D)
      <4>1. result.states = [j \in D |-> Min(mixed(j))]
        BY <3>1, <3>3
      <4> HIDE DEF mixed
      <4>2. QED
        BY <4>1, <2>10
    <3>4. QED
      BY <3>2, <3>3
  <2>12. QED
    BY <2>11 DEF result
<1>6. QED
  BY <1>4, <1>5

\* The states and voltages of a file are those it holds, or those of a new profile.
LEMMA LoadVoltsOf ==
  ASSUME NEW d,
         d \in [voltMode : {d.voltMode}, states : [DOMAIN d.states -> Int \X Int], active : {d.active}],
         NEW parent \in Versions([voltMode : Word, states : Quadruples \cup {Absent}]) \cup {Absent},
         Absent \notin Int, NEW s
  PROVE \A index \in DOMAIN d.states : LET loaded == PMFreqVoltXMLParser(s, parent, d).loadFrom.states[index]
                                      IN  loaded[1] \in Int /\ loaded[2] \in Int
<1> DEFINE D == DOMAIN d.states
           node == SavedNode(parent)
           n == Len(node.states)
           bad == {i \in 1 .. n : node.states[i][1] \notin D \/ Absent \in ToSet(node.states[i])}
           last == Min(bad \cup {n + 1}) - 1
           states == SubSeq(node.states, 1, last)
           loaded == [index \in D |-> SubSeq(Entry(states, index, <<index, FALSE, 0, 0>>), 3, 4)]
           result == PMFreqVoltXMLParser(s, parent, d).loadFrom.states
           old == node = Absent \/ node.states = Absent \/ last # Cardinality(D)
<1>1. node \in [voltMode : Word, states : Quadruples \cup {Absent}] \cup {Absent}
  BY SavedOf
<1>2. DOMAIN d.states = D /\ \A index \in D : d.states[index][1] \in Int /\ d.states[index][2] \in Int
  <2>1. d.states \in [D -> Int \X Int]
    OBVIOUS
  <2>2. QED
    BY <2>1
<1> DEFINE full == [voltMode |-> Attribute(node, "voltMode", d.voltMode), states |-> loaded,
                    active |-> {states[k][1] : k \in {j \in DOMAIN states : states[j][2]}}]
           part1 == [d EXCEPT !.voltMode = Attribute(node, "voltMode", @)]
<1>4. PMFreqVoltXMLParser(s, parent, d).loadFrom =
        IF node = Absent THEN d
        ELSE IF node.states = Absent \/ last # Cardinality(D) THEN part1 ELSE full
  BY DEF PMFreqVoltXMLParser, FirstFrom
<1>5. part1.states = d.states
  OBVIOUS
<1>6. full.states = loaded
  OBVIOUS
<1>7. result = d.states \/ (~old /\ result = loaded)
  <2> HIDE DEF full, part1, loaded, states, last
  <2>1. QED
    BY <1>4, <1>5, <1>6
<1>8. CASE ~old
  <2>1. node.states \in Seq(Number \X Flag \X Number \X Number)
    BY <1>1, <1>8 DEF Quadruples
  <2>2. n \in Nat /\ DOMAIN node.states = 1 .. n /\ \A i \in 1 .. n : node.states[i] \in Number \X Flag \X Number \X Number
    BY <2>1
  <2> DEFINE low == 1
  <2>3. bad \in SUBSET (low .. n) /\ low \in Int
    OBVIOUS
  <2>4. \A i \in 1 .. n : i \notin bad => node.states[i][3] \in Int /\ node.states[i][4] \in Int
    <3>1. SUFFICES ASSUME NEW i \in 1 .. n, i \notin bad PROVE node.states[i][3] \in Int /\ node.states[i][4] \in Int
      OBVIOUS
    <3> DEFINE state == node.states[i]
    <3>2. state \in Number \X Flag \X Number \X Number /\ Absent \notin ToSet(state)
      BY <2>2, <3>1
    <3> HIDE DEF state
    <3>3. state[3] \in Number /\ state[4] \in Number /\ DOMAIN state = 1 .. 4
      BY <3>2
    <3>4. state[3] \in ToSet(state) /\ state[4] \in ToSet(state)
      BY <3>3 DEF ToSet
    <3>5. state[3] \in Int /\ state[4] \in Int
      BY <3>2, <3>3, <3>4 DEF Number
    <3>6. QED
      BY <3>5 DEF state
  <2>5. \A i \in bad : i \in 1 .. n
    OBVIOUS
  <2> DEFINE first == Min(bad \cup {n + 1})
  <2> HIDE DEF n, bad, low, first
  <2>6. first \in Int /\ (first \in bad \/ first = n + 1) /\ \A i \in bad : first <= i
    BY <2>2, <2>3, FirstOf DEF first
  <2>7. last \in 0 .. n /\ \A i \in 1 .. last : i \notin bad
    <3>1. last = first - 1
      BY DEF first
    <3> HIDE DEF last
    <3>2. QED
      BY <3>1, <2>2, <2>5, <2>6
  <2> HIDE DEF last, node
  <2>8. states = [k \in 1 .. last |-> node.states[k]] /\ Len(states) = last
    BY <2>1, <2>2, <2>7 DEF n
  <2> HIDE DEF states
  <2>9. \A k \in 1 .. last : states[k][3] \in Int /\ states[k][4] \in Int
    BY <2>2, <2>4, <2>7, <2>8
  <2>10. ASSUME NEW index \in D PROVE loaded[index][1] \in Int /\ loaded[index][2] \in Int
    <3> DEFINE other == <<index, FALSE, 0, 0>>
               entry == Entry(states, index, other)
    <3>6. last \in Nat /\ Len(states) = last
      BY <2>7, <2>8
    <3> HIDE DEF other
    <3>1. entry = other \/ \E k \in 1 .. last : entry = states[k]
      BY <3>6, EntryOf
    <3>7. other[3] \in Int /\ other[4] \in Int
      BY DEF other
    <3>2. loaded[index] = SubSeq(entry, 3, 4)
      BY DEF other
    <3> HIDE DEF entry, loaded
    <3>3. entry[3] \in Int /\ entry[4] \in Int
      BY <3>1, <3>7, <2>9
    <3>4. SubSeq(entry, 3, 4)[1] = entry[3] /\ SubSeq(entry, 3, 4)[2] = entry[4]
      BY DEF SubSeq
    <3>5. QED
      BY <3>2, <3>3, <3>4
  <2> HIDE DEF loaded, result
  <2>11. QED
    BY <1>2, <1>7, <2>10 DEF result
<1>9. CASE old
  <2> HIDE DEF result, old
  <2>1. result = d.states
    BY <1>7, <1>9
  <2>2. QED
    BY <1>2, <2>1 DEF result
<1>10. QED
  BY <1>8, <1>9

\* The voltage curve of a file is the one it holds, or that of a new profile.
LEMMA LoadPointsOf ==
  ASSUME NEW d, NEW N \in Nat, d.points \in [1 .. N -> Int \X Int],
         NEW parent \in Versions([mode : Word, points : Pairs \cup {Absent}]) \cup {Absent}, Absent \notin Int, NEW s
  PROVE LET loaded == PMVoltCurveXMLParser(s, parent, d).loadFrom.points
        IN  \A k \in 1 .. N \cap DOMAIN loaded : loaded[k][1] \in Int /\ loaded[k][2] \in Int
<1> DEFINE node == SavedNode(parent)
           n == Len(node.points)
           bad == {i \in 1 .. n : Absent \in ToSet(node.points[i])}
           last == Min(bad \cup {n + 1}) - 1
           result == PMVoltCurveXMLParser(s, parent, d).loadFrom.points
           old == node = Absent \/ node.points = Absent \/ last # Len(d.points)
           points == IF node.points = Absent THEN d.points
                     ELSE IF last # Len(d.points) THEN d.points
                     ELSE SubSeq(node.points, 1, last)
           full == [mode |-> Attribute(node, "mode", d.mode), points |-> points]
<1>1. node \in [mode : Word, points : Pairs \cup {Absent}] \cup {Absent}
  BY SavedOf
<1>2. \A k \in 1 .. N : d.points[k][1] \in Int /\ d.points[k][2] \in Int
  BY Zenon
<1>3. PMVoltCurveXMLParser(s, parent, d).loadFrom = IF node = Absent THEN d ELSE full
  BY DEF PMVoltCurveXMLParser, FirstFrom
<1>4. full.points = points
  OBVIOUS
<1>5. result = d.points \/ (~old /\ result = SubSeq(node.points, 1, last))
  <2> HIDE DEF full, last, node
  <2>1. QED
    BY <1>3, <1>4
<1>6. CASE ~old
  <2>1. node.points \in Seq(Number \X Number)
    BY <1>1, <1>6 DEF Pairs
  <2>2. n \in Nat /\ DOMAIN node.points = 1 .. n /\ \A i \in 1 .. n : node.points[i] \in Number \X Number
    BY <2>1
  <2> DEFINE low == 1
             first == Min(bad \cup {n + 1})
  <2>3. bad \in SUBSET (low .. n) /\ low \in Int
    OBVIOUS
  <2>4. \A i \in 1 .. n : i \notin bad => node.points[i][1] \in Int /\ node.points[i][2] \in Int
    <3>1. SUFFICES ASSUME NEW i \in 1 .. n, i \notin bad PROVE node.points[i][1] \in Int /\ node.points[i][2] \in Int
      OBVIOUS
    <3> DEFINE point == node.points[i]
    <3>2. point \in Number \X Number /\ Absent \notin ToSet(point)
      BY <2>2, <3>1
    <3> HIDE DEF point
    <3>3. point[1] \in Number /\ point[2] \in Number /\ DOMAIN point = 1 .. 2
      BY <3>2
    <3>4. point[1] \in ToSet(point) /\ point[2] \in ToSet(point)
      BY <3>3 DEF ToSet
    <3>5. point[1] \in Int /\ point[2] \in Int
      BY <3>2, <3>3, <3>4 DEF Number
    <3>6. QED
      BY <3>5 DEF point
  <2>5. \A i \in bad : i \in 1 .. n
    OBVIOUS
  <2> HIDE DEF n, bad, low, first
  <2>6. first \in Int /\ (first \in bad \/ first = n + 1) /\ \A i \in bad : first <= i
    BY <2>2, <2>3, FirstOf DEF first
  <2>7. last \in 0 .. n /\ \A i \in 1 .. last : i \notin bad
    <3>1. last = first - 1
      BY DEF first
    <3> HIDE DEF last
    <3>2. QED
      BY <3>1, <2>2, <2>5, <2>6
  <2> HIDE DEF last, node
  <2> DEFINE new == SubSeq(node.points, 1, last)
  <2>8. DOMAIN new = 1 .. last /\ \A k \in 1 .. last : new[k] = node.points[k]
    BY <2>1, <2>2, <2>7 DEF n
  <2> HIDE DEF new
  <2>9. \A k \in 1 .. last : new[k][1] \in Int /\ new[k][2] \in Int
    <3>1. \A k \in 1 .. last : k \in 1 .. n
      BY <2>2, <2>7
    <3>2. QED
      BY <2>4, <2>7, <2>8, <3>1
  <2>10. result = d.points \/ result = new
    BY <1>5 DEF new
  <2> HIDE DEF result
  <2>11. \A k \in 1 .. N \cap DOMAIN result : result[k][1] \in Int /\ result[k][2] \in Int
    BY <1>2, <2>8, <2>9, <2>10
  <2>12. QED
    BY <2>11 DEF result
<1>7. CASE old
  <2> HIDE DEF result, old
  <2>1. result = d.points
    BY <1>5, <1>7
  <2>2. \A k \in 1 .. N \cap DOMAIN result : result[k][1] \in Int /\ result[k][2] \in Int
    BY <1>2, <2>1
  <2>3. QED
    BY <2>2 DEF result
<1>8. QED
  BY <1>6, <1>7

\* The curve of a file is the one it holds, if it has two points or more and each is well formed.
LEMMA LoadCurveOf ==
  ASSUME NEW d, d.points \in Seq(Int \X Int), Len(d.points) >= 2, Absent \notin Int, NEW s,
         NEW node, node = Absent \/ node.points \in Pairs \cup {Absent}
  PROVE LET loaded == FanCurveXMLParser(s, node, d).loadFrom.points
        IN  loaded \in Seq(Int \X Int) /\ Len(loaded) >= 2
<1> DEFINE points == node.points
           n == Len(points)
           new == Sequence(n, LAMBDA k : <<points[k][1] * Degree, points[k][2]>>)
           at == [k \in 1 .. n |-> <<points[k][1] * Degree, points[k][2]>>]
           bad == n < 2 \/ \E k \in DOMAIN points : Absent \in {points[k][1], points[k][2]}
           loaded == IF points = Absent THEN d.points ELSE IF bad THEN d.points ELSE new
           result == FanCurveXMLParser(s, node, d).loadFrom.points
<1>1. result = IF node = Absent THEN d.points ELSE loaded
  BY DEF FanCurveXMLParser
<1>2. CASE node = Absent \/ points = Absent \/ bad
  <2>1. result = d.points
    BY <1>1, <1>2
  <2> HIDE DEF result
  <2>2. result \in Seq(Int \X Int) /\ Len(result) >= 2
    BY <2>1
  <2>3. QED
    BY <2>2 DEF result
<1>3. CASE ~(node = Absent \/ points = Absent \/ bad)
  <2>1. points \in Seq(Number \X Number)
    BY <1>3 DEF Pairs
  <2>2. n \in Nat /\ n >= 2 /\ DOMAIN points = 1 .. n /\ \A k \in 1 .. n : points[k] \in Number \X Number
    BY <2>1, <1>3
  <2>3. \A k \in 1 .. n : points[k][1] \in Int /\ points[k][2] \in Int
    BY <2>2, <1>3 DEF Number
  <2>4. result = new
    BY <1>1, <1>3
  <2> HIDE DEF points, n, result
  <2>5. \A k \in 1 .. n : at[k] \in Int \X Int
    BY <2>3 DEF Degree
  <2>6. at \in Seq(Int \X Int) /\ Len(at) = n
    <3> HIDE DEF at
    <3>1. at \in [1 .. n -> Int \X Int]
      BY <2>5 DEF at
    <3>2. QED
      BY <2>2, <3>1
  <2>7. new = SubSeq(at, 1, n)
    BY DEF Sequence
  <2> HIDE DEF at, new
  <2>8. new \in Seq(Int \X Int) /\ Len(new) = n
    BY SMTT(40), <2>2, <2>6, <2>7
  <2>9. result \in Seq(Int \X Int) /\ Len(result) >= 2
    BY <2>2, <2>4, <2>8
  <2>10. QED
    BY <2>9 DEF result
<1>4. QED
  BY <1>2, <1>3

\* What a file holds for a control can be given to its part, whatever it is.
LEMMA LoadOf ==
  ASSUME NEW m \in Machines, l \in Leaves(m), Defaults(l, default), default \in Settable(l, default),
         NEW node \in ParserNodes(l) \cup {Absent}, NEW s
  PROVE Given(l, default, XMLParser(s, node).loadFrom)
<1> DEFINE loaded == XMLParser(s, node).loadFrom
<1>0. l.kind \in Kinds /\ Found(m, l) /\ HasRanges(l) /\ Absent \notin Int /\ Given(l, default, default)
  BY FoundOf, MachinesAssumption, AbsentAssumption, SettableGiven
<1>1. CASE l.kind \in {"PMAuto", "PMDynamicFreq", "FanAuto", "PMFixed", "PMPowerState", "PMPowerProfile", "CPUFreq",
                       "PMFixedFreq"}
  BY <1>1 DEF Given
<1>2. CASE l.kind = "PMFreqOd"
  <2>1. default.sclkOd \in Int /\ default.mclkOd \in Int
    BY <1>0, <1>2 DEF Given
  <2>2. node = Absent \/ (node.sclkOd \in Int \cup {Absent} /\ node.mclkOd \in Int \cup {Absent})
    BY <1>2 DEF ParserNodes, Versioned, FileNodes, Number
  <2>3. Attribute(node, "sclkOd", default.sclkOd) \in Int /\ Attribute(node, "mclkOd", default.mclkOd) \in Int
    BY <2>1, <2>2, AttributeOf
  <2>4. /\ loaded.sclkOd = Attribute(node, "sclkOd", default.sclkOd)
        /\ loaded.mclkOd = Attribute(node, "mclkOd", default.mclkOd)
    BY <1>2 DEF XMLParser, PMFreqOdXMLParser
  <2> HIDE DEF loaded
  <2>5. Given(l, default, loaded)
    BY <1>2, <2>3, <2>4 DEF Given
  <2>6. QED
    BY <2>5 DEF loaded
<1>3. CASE l.kind = "PMPowerCap"
  <2>1. Watts(default.value) \in Int
    BY <1>0, <1>3 DEF Given, Watts, Watt
  <2>2. node = Absent \/ node.value \in Int \cup {Absent}
    BY <1>3 DEF ParserNodes, Versioned, FileNodes, Number
  <2>3. Attribute(node, "value", Watts(default.value)) \in Int
    BY <2>1, <2>2, AttributeOf
  <2>4. loaded.value = Watt * Attribute(node, "value", Watts(default.value))
    BY <1>3 DEF XMLParser, PMPowerCapXMLParser
  <2> HIDE DEF loaded
  <2>5. Given(l, default, loaded)
    BY <1>3, <2>3, <2>4 DEF Given, Watt
  <2>6. QED
    BY <2>5 DEF loaded
<1>4. CASE l.kind = "PMVoltOffset"
  <2>1. default.value \in Int
    BY <1>0, <1>4 DEF Given
  <2>2. node = Absent \/ node.value \in Int \cup {Absent}
    BY <1>4 DEF ParserNodes, Versioned, FileNodes, Number
  <2>3. Attribute(node, "value", default.value) \in Int
    BY <2>1, <2>2, AttributeOf
  <2>4. loaded.value = Attribute(node, "value", default.value)
    BY <1>4 DEF XMLParser, PMVoltOffsetXMLParser
  <2> HIDE DEF loaded
  <2>5. Given(l, default, loaded)
    BY <1>4, <2>3, <2>4 DEF Given
  <2>6. QED
    BY <2>5 DEF loaded
<1>5. CASE l.kind = "PMFreqRange"
  <2>1. default.states \in [DOMAIN default.states -> Int]
    <3>1. default.states \in [DOMAIN default.states -> l.min .. l.max] /\ l.min .. l.max \subseteq Int
      BY <1>0, <1>5 DEF Settable, HasRanges, IsRange
    <3>2. QED
      BY <3>1
  <2>2. node \in Versions([states : Pairs \cup {Absent}]) \cup {Absent}
    BY <1>5 DEF ParserNodes, Versioned, FileNodes
  <2>3. loaded = PMFreqRangeXMLParser(s, node, default).loadFrom
    BY <1>5 DEF XMLParser
  <2> HIDE DEF loaded
  <2>4. \A index \in DOMAIN default.states : loaded.states[index] \in Int
    BY <1>0, <2>1, <2>2, <2>3, LoadRangeOf
  <2>5. Given(l, default, loaded)
    BY <1>5, <2>4 DEF Given
  <2>6. QED
    BY <2>5 DEF loaded
<1>6. CASE l.kind = "PMFreqVolt"
  <2>1. default \in [voltMode : {default.voltMode}, states : [DOMAIN default.states -> Int \X Int], active : {default.active}]
    <3> DEFINE range == (l.min .. l.max) \X (l.voltMin .. l.voltMax)
    <3>1. default \in [voltMode : VoltModes, states : [DOMAIN default.states -> range], active : NonEmpty(l.dpmStates)]
      BY <1>6 DEF Settable
    <3>2. range \subseteq Int \X Int
      BY <1>0, <1>6 DEF HasRanges, IsRange
    <3> HIDE DEF range
    <3>3. default.states \in [DOMAIN default.states -> Int \X Int]
      BY <3>1, <3>2
    <3>4. QED
      BY <3>1, <3>3
  <2>2. node \in Versions([voltMode : Word, states : Quadruples \cup {Absent}]) \cup {Absent}
    BY <1>6 DEF ParserNodes, Versioned, FileNodes
  <2>3. loaded = PMFreqVoltXMLParser(s, node, default).loadFrom
    BY <1>6 DEF XMLParser
  <2> HIDE DEF loaded
  <2>4. \A index \in DOMAIN default.states : loaded.states[index][1] \in Int /\ loaded.states[index][2] \in Int
    BY <1>0, <2>1, <2>2, <2>3, LoadVoltsOf
  <2>5. Given(l, default, loaded)
    BY <1>6, <2>4 DEF Given
  <2>6. QED
    BY <2>5 DEF loaded
<1>7. CASE l.kind = "PMVoltCurve"
  <2>1. PICK N \in Nat : DOMAIN default.points = 1 .. N
    BY <1>7 DEF Defaults
  <2>2. default.points \in [1 .. N -> Int \X Int]
    BY <1>7, <2>1 DEF Settable, VoltCurves
  <2>3. node \in Versions([mode : Word, points : Pairs \cup {Absent}]) \cup {Absent}
    BY <1>7 DEF ParserNodes, Versioned, FileNodes
  <2>4. loaded = PMVoltCurveXMLParser(s, node, default).loadFrom
    BY <1>7 DEF XMLParser
  <2> HIDE DEF loaded
  <2>5. \A k \in 1 .. N \cap DOMAIN loaded.points : loaded.points[k][1] \in Int /\ loaded.points[k][2] \in Int
    BY <1>0, <2>2, <2>3, <2>4, LoadPointsOf
  <2>6. Given(l, default, loaded)
    BY <1>7, <2>1, <2>5 DEF Given
  <2>7. QED
    BY <2>6 DEF loaded
<1>8. CASE l.kind = "FanFixed"
  <2>1. default.value \in Int /\ default.fanStop \in BOOLEAN /\ default.fanStartValue \in Int
    BY <1>0, <1>8 DEF Given
  <2>2. node = Absent \/ (/\ node.value \in Int \cup {Absent} /\ node.fanStop \in BOOLEAN \cup {Absent}
                          /\ node.fanStartValue \in Int \cup {Absent})
    BY <1>8 DEF ParserNodes, Versioned, FileNodes, Number, Flag
  <2>3. /\ Attribute(node, "value", default.value) \in Int
        /\ Attribute(node, "fanStop", default.fanStop) \in BOOLEAN
        /\ Attribute(node, "fanStartValue", default.fanStartValue) \in Int
    <3>1. Attribute(node, "value", default.value) \in Int
      BY <2>1, <2>2, AttributeOf
    <3>2. Attribute(node, "fanStop", default.fanStop) \in BOOLEAN
      BY <2>1, <2>2, AttributeOf, Zenon
    <3>3. Attribute(node, "fanStartValue", default.fanStartValue) \in Int
      BY <2>1, <2>2, AttributeOf
    <3>4. QED
      BY <3>1, <3>2, <3>3
  <2>4. /\ loaded.value = Attribute(node, "value", default.value)
        /\ loaded.fanStop = Attribute(node, "fanStop", default.fanStop)
        /\ loaded.fanStartValue = Attribute(node, "fanStartValue", default.fanStartValue)
    BY <1>8 DEF XMLParser, FanFixedXMLParser
  <2> HIDE DEF loaded
  <2>5. Given(l, default, loaded)
    BY <1>8, <2>3, <2>4 DEF Given
  <2>6. QED
    BY <2>5 DEF loaded
<1>9. CASE l.kind = "FanCurve"
  <2>1. /\ default.points \in Seq(Int \X Int) /\ Len(default.points) >= 2
        /\ default.fanStop \in BOOLEAN /\ default.fanStartValue \in Int
    BY <1>0, <1>9 DEF Given
  <2>2. node = Absent \/ (/\ node.points \in Pairs \cup {Absent} /\ node.fanStop \in BOOLEAN \cup {Absent}
                          /\ node.fanStartValue \in Int \cup {Absent})
    BY <1>9 DEF ParserNodes, Versioned, FileNodes, Number, Flag
  <2>3. Attribute(node, "fanStop", default.fanStop) \in BOOLEAN
    BY <2>1, <2>2, AttributeOf, Zenon
  <2>4. Attribute(node, "fanStartValue", default.fanStartValue) \in Int
    BY <2>1, <2>2, AttributeOf
  <2>5. loaded = FanCurveXMLParser(s, node, default).loadFrom
    BY <1>9 DEF XMLParser
  <2>6. /\ loaded.fanStop = Attribute(node, "fanStop", default.fanStop)
        /\ loaded.fanStartValue = Attribute(node, "fanStartValue", default.fanStartValue)
    <3> DEFINE read == FanCurveXMLParser(s, node, default).loadFrom
    <3>1. read.fanStop = Attribute(node, "fanStop", default.fanStop)
      BY DEF FanCurveXMLParser
    <3>2. read.fanStartValue = Attribute(node, "fanStartValue", default.fanStartValue)
      BY DEF FanCurveXMLParser
    <3>3. loaded = read
      BY <2>5
    <3> HIDE DEF read, loaded
    <3>4. QED
      BY <3>1, <3>2, <3>3
  <2> HIDE DEF loaded
  <2>7. loaded.points \in Seq(Int \X Int) /\ Len(loaded.points) >= 2
    BY <1>0, <2>1, <2>2, <2>5, LoadCurveOf
  <2>8. Given(l, default, loaded)
    BY <1>9, <2>3, <2>4, <2>6, <2>7 DEF Given
  <2>9. QED
    BY <2>8 DEF loaded
<1>10. QED
  BY <1>0, <1>1, <1>2, <1>3, <1>4, <1>5, <1>6, <1>7, <1>8, <1>9 DEF Kinds

(***************************************************************************)
(* The start                                                               *)
(***************************************************************************)

\* What a write does, by its file.
LEMMA WrittenIs ==
  ASSUME NEW m, NEW s, NEW w
  PROVE LET files == s[1]
            d == s[2]
            locked == Level \in DOMAIN files /\ files[Level] # "manual"
            after == Written(m, s, w)
        IN  /\ w.file \in DpmFiles \cup {Table, "pp_power_profile_mode"} /\ locked => after = s
            /\ w.file = Table /\ ~locked =>
                 /\ w.value = <<"r">> => after = <<[files EXCEPT ![Table] = m.files[Table]], d>>
                 /\ w.value = <<"c">> => after = <<files, [d EXCEPT !.table = files[Table]]>>
                 /\ w.value \notin {<<"r">>, <<"c">>} =>
                      after = <<[files EXCEPT ![Table] = EditedTable(files[Table], w.value)], d>>
            /\ w.file = "pp_power_profile_mode" /\ ~locked =>
                 after = <<[files EXCEPT !["pp_power_profile_mode"] = MarkedAs(@, w.value)], d>>
            /\ w.file = "power1_cap" /\ w.value = 0 =>
                 after = <<[files EXCEPT !["power1_cap"] = m.files["power1_cap"]], d>>
            /\ w.file \in DpmFiles /\ ~locked =>
                 after = <<IF ParseDPMCurrentStateIndex(files[w.file]) \in w.value THEN files
                           ELSE [files EXCEPT ![w.file] = MarkedAs(@, Min(w.value))],
                           [d EXCEPT !.enabled[w.file] = w.value]>>
            /\ w.file = "pwm1" /\ files["pwm1_enable"] # 1 => after = s
            /\ w.file \notin DpmFiles \cup {Table, "pp_power_profile_mode"}
                 /\ ~(w.file = "power1_cap" /\ w.value = 0) /\ ~(w.file = "pwm1" /\ files["pwm1_enable"] # 1) =>
                 after = <<[files EXCEPT ![w.file] = w.value], d>>
<1> DEFINE files == s[1]
           d == s[2]
           set(value) == <<[files EXCEPT ![w.file] = value], d>>
           locked == Level \in DOMAIN files /\ files[Level] # "manual"
           committed == <<files, [d EXCEPT !.table = files[Table]]>>
           moved == <<IF ParseDPMCurrentStateIndex(files[w.file]) \in w.value THEN files
                      ELSE [files EXCEPT ![w.file] = MarkedAs(@, Min(w.value))],
                      [d EXCEPT !.enabled[w.file] = w.value]>>
           stopped == w.file = "pwm1" /\ files["pwm1_enable"] # 1
           after == CASE w.file = Table /\ w.value = <<"r">> -> set(m.files[Table])
                      [] w.file = Table /\ w.value = <<"c">> -> committed
                      [] w.file = Table /\ w.value \notin {<<"r">>, <<"c">>} -> set(EditedTable(files[Table], w.value))
                      [] w.file = "pp_power_profile_mode" -> set(MarkedAs(files[w.file], w.value))
                      [] w.file = "power1_cap" /\ w.value = 0 -> set(m.files["power1_cap"])
                      [] w.file \in DpmFiles -> moved
                      [] w.file = "pwm1" /\ files["pwm1_enable"] # 1 -> s
                      [] OTHER -> set(w.value)
           new == Written(m, s, w)
<1>1. new = IF w.file \in DpmFiles \cup {Table, "pp_power_profile_mode"} /\ locked THEN s ELSE after
  BY DEF Written
<1>2. \A value : set(value) = <<[files EXCEPT ![w.file] = value], d>>
  OBVIOUS
<1> HIDE DEF set, committed, moved, locked, new
<1>3. /\ w.file = Table /\ w.value = <<"r">> => after = set(m.files[Table])
      /\ w.file = Table /\ w.value = <<"c">> => after = committed
      /\ w.file = Table /\ w.value \notin {<<"r">>, <<"c">>} => after = set(EditedTable(files[Table], w.value))
      /\ w.file = "pp_power_profile_mode" => after = set(MarkedAs(files[w.file], w.value))
      /\ w.file = "power1_cap" /\ w.value = 0 => after = set(m.files["power1_cap"])
      /\ w.file \in DpmFiles => after = moved
  BY DEF DpmFiles, Table
<1>4. w.file \notin DpmFiles \cup {Table, "pp_power_profile_mode"} /\ ~(w.file = "power1_cap" /\ w.value = 0) =>
        /\ stopped => after = s
        /\ ~stopped => after = set(w.value)
  BY DEF DpmFiles, Table
<1>5. "pwm1" \notin DpmFiles \cup {Table, "pp_power_profile_mode", "power1_cap"}
      /\ "power1_cap" \notin DpmFiles \cup {Table, "pp_power_profile_mode"}
      /\ "pp_power_profile_mode" \notin DpmFiles \cup {Table}
      /\ Table \notin DpmFiles
  BY DEF DpmFiles, Table
<1> HIDE DEF after, stopped
<1>6. /\ w.file \in DpmFiles \cup {Table, "pp_power_profile_mode"} /\ locked => new = s
      /\ w.file = Table /\ ~locked =>
           /\ w.value = <<"r">> => new = set(m.files[Table])
           /\ w.value = <<"c">> => new = committed
           /\ w.value \notin {<<"r">>, <<"c">>} => new = set(EditedTable(files[Table], w.value))
      /\ w.file = "pp_power_profile_mode" /\ ~locked => new = set(MarkedAs(files[w.file], w.value))
      /\ w.file = "power1_cap" /\ w.value = 0 => new = set(m.files["power1_cap"])
      /\ w.file \in DpmFiles /\ ~locked => new = moved
      /\ stopped => new = s
      /\ w.file \notin DpmFiles \cup {Table, "pp_power_profile_mode"} /\ ~(w.file = "power1_cap" /\ w.value = 0)
           /\ ~stopped => new = set(w.value)
  BY <1>1, <1>3, <1>4, <1>5 DEF stopped
<1> HIDE DEF files, d
<1>7. /\ w.file \in DpmFiles \cup {Table, "pp_power_profile_mode"} /\ locked => new = s
      /\ w.file = Table /\ ~locked =>
           /\ w.value = <<"r">> => new = <<[files EXCEPT ![Table] = m.files[Table]], d>>
           /\ w.value = <<"c">> => new = committed
           /\ w.value \notin {<<"r">>, <<"c">>} =>
                new = <<[files EXCEPT ![Table] = EditedTable(files[Table], w.value)], d>>
      /\ w.file = "pp_power_profile_mode" /\ ~locked =>
           new = <<[files EXCEPT !["pp_power_profile_mode"] = MarkedAs(@, w.value)], d>>
      /\ w.file = "power1_cap" /\ w.value = 0 => new = <<[files EXCEPT !["power1_cap"] = m.files["power1_cap"]], d>>
      /\ w.file \in DpmFiles /\ ~locked => new = moved
      /\ stopped => new = s
      /\ w.file \notin DpmFiles \cup {Table, "pp_power_profile_mode"} /\ ~(w.file = "power1_cap" /\ w.value = 0)
           /\ ~stopped => new = <<[files EXCEPT ![w.file] = w.value], d>>
  BY <1>2, <1>6
<1>8. QED
  BY <1>7 DEF new, files, d, locked, committed, moved, stopped

\* A write changes what a file holds, never which files there are.
LEMMA WrittenFiles ==
  ASSUME NEW m, NEW s, NEW w
  PROVE DOMAIN Written(m, s, w)[1] = DOMAIN s[1]
<1> DEFINE files == s[1]
           d == s[2]
           set(value) == <<[files EXCEPT ![w.file] = value], d>>
           locked == Level \in DOMAIN files /\ files[Level] # "manual"
           moved == <<IF ParseDPMCurrentStateIndex(files[w.file]) \in w.value THEN files
                      ELSE [files EXCEPT ![w.file] = MarkedAs(@, Min(w.value))],
                      [d EXCEPT !.enabled[w.file] = w.value]>>
<1>1. \A value : DOMAIN set(value)[1] = DOMAIN files
  OBVIOUS
<1>2. DOMAIN moved[1] = DOMAIN files
  OBVIOUS
<1>3. DOMAIN <<files, [d EXCEPT !.table = files[Table]]>>[1] = DOMAIN files
  OBVIOUS
<1> DEFINE after ==
             CASE w.file = Table /\ w.value = <<"r">> -> set(m.files[Table])
               [] w.file = Table /\ w.value = <<"c">> -> <<files, [d EXCEPT !.table = files[Table]]>>
               [] w.file = Table /\ w.value \notin {<<"r">>, <<"c">>} -> set(EditedTable(files[Table], w.value))
               [] w.file = "pp_power_profile_mode" -> set(MarkedAs(files[w.file], w.value))
               [] w.file = "power1_cap" /\ w.value = 0 -> set(m.files["power1_cap"])
               [] w.file \in DpmFiles -> moved
               [] w.file = "pwm1" /\ files["pwm1_enable"] # 1 -> s
               [] OTHER -> set(w.value)
<1>4. Written(m, s, w) = IF w.file \in DpmFiles \cup {Table, "pp_power_profile_mode"} /\ locked THEN s ELSE after
  BY DEF Written
<1>5. \/ \E value : after = set(value)
      \/ after = <<files, [d EXCEPT !.table = files[Table]]>>
      \/ after = moved
      \/ after = s
  <2> HIDE DEF set, moved
  <2>1. QED
    BY DEF DpmFiles, Table
<1>6. QED
  <2> HIDE DEF after, set, moved
  <2>1. QED
    BY <1>1, <1>2, <1>3, <1>4, <1>5 DEF files

\* Nor do the writes of a call.
LEMMA ExecutedFiles ==
  ASSUME NEW m, NEW s, NEW writes, Len(writes) \in Nat
  PROVE DOMAIN Executed(m, s, writes)[1] = DOMAIN s[1]
<1>1. PICK r : /\ r[0] = s
               /\ \A k \in 1 .. Len(writes) : r[k] = Written(m, r[k - 1], writes[k])
               /\ Executed(m, s, writes) = r[Len(writes)]
  BY Run
<1> DEFINE n == Len(writes)
           G == {k \in Nat : k <= n => DOMAIN r[k][1] = DOMAIN s[1]}
<1> HIDE DEF n
<1>2. 0 \in G
  BY <1>1
<1>3. \A k \in G : k + 1 \in G
  <2>1. SUFFICES ASSUME NEW k \in G, k + 1 <= n PROVE DOMAIN r[k + 1][1] = DOMAIN s[1]
    OBVIOUS
  <2>2. k + 1 \in 1 .. n /\ k + 1 - 1 = k /\ DOMAIN r[k][1] = DOMAIN s[1]
    BY <2>1 DEF n
  <2>3. r[k + 1] = Written(m, r[k], writes[k + 1])
    BY <1>1, <2>2 DEF n
  <2>4. QED
    BY <2>2, <2>3, WrittenFiles
<1>4. G = Nat
  BY <1>2, <1>3, Induct
<1> HIDE DEF G
<1>5. n \in G
  BY <1>4 DEF n
<1>6. QED
  BY <1>1, <1>5 DEF G, n

\* The states that a call with few writes goes through.
Steps(m, s, writes, n, r) ==
  /\ r[0] = s /\ Executed(m, s, writes) = r[n]
  /\ r[1] = Written(m, s, writes[1])
  /\ n >= 2 => r[2] = Written(m, r[1], writes[2])
  /\ n >= 3 => r[3] = Written(m, r[2], writes[3])
  /\ n >= 4 => r[4] = Written(m, r[3], writes[4])

\* A call of no more than four writes, one state after another.
LEMMA ExecutedSteps ==
  ASSUME NEW m, NEW s
  PROVE /\ Executed(m, s, <<>>) = s
        /\ \A n \in 1 .. 4 : \A writes : Len(writes) = n => \E r : Steps(m, s, writes, n, r)
<1>1. ASSUME NEW writes, NEW n \in 0 .. 4, Len(writes) = n
      PROVE \E r : /\ r[0] = s /\ Executed(m, s, writes) = r[n]
                   /\ \A k \in 1 .. n : r[k] = Written(m, r[k - 1], writes[k])
  <2>1. Len(writes) \in Nat
    BY <1>1
  <2>2. PICK r : /\ r[0] = s
                 /\ \A k \in 1 .. Len(writes) : r[k] = Written(m, r[k - 1], writes[k])
                 /\ Executed(m, s, writes) = r[Len(writes)]
    BY <2>1, Run
  <2>3. r[0] = s /\ Executed(m, s, writes) = r[n] /\ \A k \in 1 .. n : r[k] = Written(m, r[k - 1], writes[k])
    BY <1>1, <2>2
  <2>4. QED
    BY <2>3
<1>2. Executed(m, s, <<>>) = s
  <2>1. \E r : r[0] = s /\ Executed(m, s, <<>>) = r[0]
    BY <1>1
  <2>2. QED
    BY <2>1
<1>3. ASSUME NEW n \in 1 .. 4, NEW writes, Len(writes) = n
      PROVE \E r : /\ r[0] = s /\ Executed(m, s, writes) = r[n]
                   /\ r[1] = Written(m, s, writes[1])
                   /\ n >= 2 => r[2] = Written(m, r[1], writes[2])
                   /\ n >= 3 => r[3] = Written(m, r[2], writes[3])
                   /\ n >= 4 => r[4] = Written(m, r[3], writes[4])
  <2>1. n \in 0 .. 4
    OBVIOUS
  <2>2. PICK r : /\ r[0] = s /\ Executed(m, s, writes) = r[n]
                 /\ \A k \in 1 .. n : r[k] = Written(m, r[k - 1], writes[k])
    BY <1>1, <1>3, <2>1
  <2>3. 1 \in 1 .. n /\ (n >= 2 => 2 \in 1 .. n) /\ (n >= 3 => 3 \in 1 .. n) /\ (n >= 4 => 4 \in 1 .. n)
    OBVIOUS
  <2>4. /\ r[1] = Written(m, r[0], writes[1])
        /\ n >= 2 => r[2] = Written(m, r[1], writes[2])
        /\ n >= 3 => r[3] = Written(m, r[2], writes[3])
        /\ n >= 4 => r[4] = Written(m, r[3], writes[4])
    BY <2>2, <2>3
  <2>5. QED
    BY <2>2, <2>4
<1>4. \A n \in 1 .. 4 : \A writes : Len(writes) = n => \E r : Steps(m, s, writes, n, r)
  BY <1>3 DEF Steps
<1>5. QED
  BY <1>2, <1>4

\* A call without a write, with one, and with more.
LEMMA ExecutedNone ==
  ASSUME NEW m, NEW s
  PROVE Executed(m, s, <<>>) = s
BY ExecutedSteps

\* A call of one write.
LEMMA ExecutedOne ==
  ASSUME NEW m, NEW s, NEW w
  PROVE Executed(m, s, <<w>>) = Written(m, s, w)
<1> DEFINE writes == <<w>>
<1>1. Len(writes) = 1 /\ 1 \in 1 .. 4
  OBVIOUS
<1> HIDE DEF writes
<1>2. PICK r : Steps(m, s, writes, 1, r)
  BY <1>1, ExecutedSteps
<1>3. QED
  BY <1>2 DEF Steps, writes

\* A call of two writes.
LEMMA ExecutedTwo ==
  ASSUME NEW m, NEW s, NEW w1, NEW w2
  PROVE Executed(m, s, <<w1, w2>>) = Written(m, Written(m, s, w1), w2)
<1> DEFINE writes == <<w1, w2>>
<1>1. Len(writes) = 2 /\ 2 \in 1 .. 4
  OBVIOUS
<1> HIDE DEF writes
<1>2. PICK r : Steps(m, s, writes, 2, r)
  BY <1>1, ExecutedSteps
<1>3. QED
  BY <1>2 DEF Steps, writes

\* A call of three writes.
LEMMA ExecutedThree ==
  ASSUME NEW m, NEW s, NEW w1, NEW w2, NEW w3
  PROVE Executed(m, s, <<w1, w2, w3>>) = Written(m, Written(m, Written(m, s, w1), w2), w3)
<1> DEFINE writes == <<w1, w2, w3>>
<1>1. Len(writes) = 3 /\ 3 \in 1 .. 4
  OBVIOUS
<1> HIDE DEF writes
<1>2. PICK r : Steps(m, s, writes, 3, r)
  BY <1>1, ExecutedSteps
<1>3. QED
  BY <1>2 DEF Steps, writes

\* A call of four writes.
LEMMA ExecutedFour ==
  ASSUME NEW m, NEW s, NEW w1, NEW w2, NEW w3, NEW w4
  PROVE Executed(m, s, <<w1, w2, w3, w4>>) = Written(m, Written(m, Written(m, Written(m, s, w1), w2), w3), w4)
<1> DEFINE writes == <<w1, w2, w3, w4>>
<1>1. Len(writes) = 4 /\ 4 \in 1 .. 4
  OBVIOUS
<1> HIDE DEF writes
<1>2. PICK r : Steps(m, s, writes, 4, r)
  BY <1>1, ExecutedSteps
<1>3. QED
  BY <1>2 DEF Steps, writes

\* The writes of a control that starts alone.
LEMMA FlattenOne ==
  ASSUME NEW seqs, Len(seqs) = 1
  PROVE FlattenSeq(seqs) = seqs[1]
<1> DEFINE Body(f) == [i \in 1 .. Len(seqs) |-> IF i = 1 THEN seqs[i] ELSE f[i - 1] \o seqs[i]]
           flatten == CHOOSE f : f = Body(f)
           one == [i \in 1 .. Len(seqs) |-> seqs[1]]
<1>1. FlattenSeq(seqs) = flatten[1]
  BY DEF FlattenSeq
<1>2. one = Body(one)
  OBVIOUS
<1>3. flatten = Body(flatten)
  BY <1>2
<1> HIDE DEF flatten
<1>4. flatten[1] = seqs[1]
  BY <1>3
<1>5. QED
  BY <1>1, <1>4

\* The controls of the table are finitely many.
LEMMA ClocksFinite ==
  ASSUME NEW m \in Machines
  PROVE IsFiniteSet(ToSet(PMFreqRangeProvider(m))) /\ IsFiniteSet(ToSet(PMFreqVoltProvider(m)))
<1> DEFINE lines == m.files[Table]
           clocks == ParseOverdriveClkControls(lines)
           range(name) == ParseOverdriveClkRange(name, lines)
<1>1. ASSUME NEW T \in SUBSET clocks, NEW f, NEW S, S = {f[name] : name \in T}, IsFiniteSet(clocks)
      PROVE IsFiniteSet(ToSet(SetToSeq(S)))
  <2> DEFINE g == [name \in T |-> f[name]]
  <2>1. IsFiniteSet(T)
    BY <1>1, FS_Subset
  <2>2. g \in Surjection(T, S)
    BY <1>1 DEF Surjection
  <2>3. IsFiniteSet(S)
    BY <2>1, <2>2, FS_Surjection
  <2>4. QED
    BY <2>3, SetToSeqOf
<1>2. ToSet(<<>>) = {} /\ IsFiniteSet({})
  BY ToSetSmall, FS_EmptySet
<1>3. CASE OverdriveCapabilities(m) = {} \/ clocks = Absent
  BY <1>2, <1>3 DEF PMFreqRangeProvider, PMFreqVoltProvider
<1>4. CASE OverdriveCapabilities(m) # {} /\ clocks # Absent
  <2>1. IsFiniteSet(clocks)
    BY <1>4, TableThere, ClocksOf
  <2>2. IsFiniteSet(ToSet(PMFreqRangeProvider(m)))
    <3> DEFINE valid(name) == /\ Cardinality(OutOfRangeStates(name, lines)) <= 1
                              /\ range(name) # Absent /\ ParseOverdriveClks(name, lines) # Absent
               found(name) == [kind |-> "PMFreqRange", name |-> name, cmd |-> ClkControlCmdId[name],
                                 min |-> range(name)[1], max |-> range(name)[2],
                                 disabled |-> OutOfRangeStates(name, lines),
                                 new |-> [states |-> <<>>, preInit |-> <<>>]]
               T == {n \in clocks : valid(n)}
               S == {found(name) : name \in T}
               f == [name \in T |-> found(name)]
    <3>1. PMFreqRangeProvider(m) \in {<<>>, SetToSeq(S)}
      BY DEF PMFreqRangeProvider
    <3>2. T \in SUBSET clocks
      OBVIOUS
    <3>3. S = {f[name] : name \in T}
      OBVIOUS
    <3> HIDE DEF S, T, f, clocks
    <3>4. IsFiniteSet(ToSet(SetToSeq(S)))
      BY <1>1, <2>1, <3>2, <3>3
    <3>5. QED
      BY <1>2, <3>1, <3>4
  <2>3. IsFiniteSet(ToSet(PMFreqVoltProvider(m)))
    <3> DEFINE dpmFile == [SCLK |-> "pp_dpm_sclk", MCLK |-> "pp_dpm_mclk"]
               voltRange == ParseOverdriveVoltRange(lines)
               valid(name) == /\ HasDPMStates(m, dpmFile[name])
                              /\ ~HasFreqVoltQuirks(lines)
                              /\ Absent \notin {range(name), voltRange, ParseOverdriveClksVolts(name, lines)}
               found(name) == [kind |-> "PMFreqVolt", name |-> name, cmd |-> ClkControlCmdId[name],
                                 min |-> range(name)[1], max |-> range(name)[2],
                                 voltMin |-> voltRange[1], voltMax |-> voltRange[2],
                                 dpmFile |-> dpmFile[name], dpmStates |-> DPMStates(m, dpmFile[name]),
                                 new |-> [voltMode |-> "auto", states |-> <<>>, initVoltages |-> <<>>, preInit |-> <<>>,
                                          dpm |-> [active |-> DPMStates(m, dpmFile[name]), resync |-> TRUE]]]
               T == {n \in clocks : valid(n)}
               S == {found(name) : name \in T}
               f == [name \in T |-> found(name)]
    <3>1. PMFreqVoltProvider(m) \in {<<>>, SetToSeq(S)}
      BY DEF PMFreqVoltProvider
    <3>2. T \in SUBSET clocks
      OBVIOUS
    <3>3. S = {f[name] : name \in T}
      OBVIOUS
    <3> HIDE DEF S, T, f, clocks
    <3>4. IsFiniteSet(ToSet(SetToSeq(S)))
      BY <1>1, <2>1, <3>2, <3>3
    <3>5. QED
      BY <1>2, <3>1, <3>4
  <2>4. QED
    BY <2>2, <2>3
<1>5. QED
  BY <1>3, <1>4

\* The group of the table has finitely many controls.
LEMMA GroupFinite ==
  ASSUME NEW m \in Machines
  PROVE IsFiniteSet({leaf \in Leaves(m) : InTable(leaf)})
<1> DEFINE A == ToSet(PMFreqRangeProvider(m))
           B == ToSet(PMFreqVoltProvider(m))
           C == ToSet(PMVoltCurveProvider(m))
           D == ToSet(PMVoltOffsetProvider(m))
           S == {leaf \in Leaves(m) : InTable(leaf)}
<1>1. S \subseteq (A \cup B) \cup (C \cup D)
  <2>1. SUFFICES ASSUME NEW leaf \in Leaves(m), InTable(leaf), leaf \notin A \cup B \cup C \cup D PROVE FALSE
    OBVIOUS
  <2>2. leaf.kind \notin {"PMAuto", "PMFixed", "PMDynamicFreq", "PMPowerState", "PMFixedFreq", "PMFreqOd", "PMPowerProfile",
                          "PMPowerCap", "CPUFreq", "FanAuto", "FanFixed", "FanCurve"}
    BY <2>1 DEF InTable
  <2>3. QED
    BY <2>1, <2>2, FoundLevels, FoundFreqs, FoundPowerProfile, FoundCap, FoundFan DEF Leaves
<1>2. \A condition, x : IsFiniteSet(ToSet(Provided(condition, x)))
  <2>1. SUFFICES ASSUME NEW condition, NEW x PROVE IsFiniteSet(ToSet(Provided(condition, x)))
    OBVIOUS
  <2>2. ToSet(Provided(condition, x)) \in {{}, {x}}
    BY ToSetSmall DEF Provided
  <2>3. QED
    BY <2>2, FS_EmptySet, FS_Singleton
<1>3. IsFiniteSet(A) /\ IsFiniteSet(B)
  BY ClocksFinite
<1>4. IsFiniteSet(C)
  <2>1. IsFiniteSet(ToSet(<<>>))
    BY ToSetSmall, FS_EmptySet
  <2>2. CASE "voltCurve" \notin OverdriveCapabilities(m)
    BY <2>1, <2>2 DEF PMVoltCurveProvider
  <2>3. CASE "voltCurve" \in OverdriveCapabilities(m)
    <3>1. \E condition, x : PMVoltCurveProvider(m) = Provided(condition, x)
      BY <2>3 DEF PMVoltCurveProvider
    <3>2. QED
      BY <1>2, <3>1
  <2>4. QED
    BY <2>2, <2>3
<1>5. IsFiniteSet(D)
  BY <1>2 DEF PMVoltOffsetProvider
<1> HIDE DEF A, B, C, D, S
<1>6. IsFiniteSet((A \cup B) \cup (C \cup D))
  <2>1. IsFiniteSet(A \cup B) /\ IsFiniteSet(C \cup D)
    BY <1>3, <1>4, <1>5, FS_Union
  <2>2. QED
    BY <2>1, FS_Union
<1>7. IsFiniteSet(S)
  BY <1>1, <1>6, FS_Subset
<1>8. QED
  BY <1>7 DEF S

\* The states that the group writes while it starts: they leave the table alone.
Safe == {Write(Level, "manual")} \cup {Write(file, states) : file \in DpmFiles, states \in SUBSET Int}

\* What a control remembers before the reset.
Remembered(leaf, x) ==
  CASE leaf.kind \in {"PMPowerCap", "PMFreqRange", "PMVoltCurve", "PMVoltOffset"} -> x = [leaf.new EXCEPT !.preInit = x.preInit]
    [] leaf.kind = "PMFreqVolt" ->
         x = [leaf.new EXCEPT !.preInit = x.preInit, !.dpm = [leaf.new.dpm EXCEPT !.resync = FALSE]]
    [] OTHER -> x = leaf.new

\* The state and the writes of a control before the reset.
LEMMA PreOf ==
  ASSUME NEW m \in Machines, NEW leaf \in Leaves(m), NEW files
  PROVE LET pre == Methods(leaf, leaf.new, files).preInit
        IN  /\ Remembered(leaf, pre[1])
            /\ InTable(leaf) => pre[2] \in Seq(Safe)
            /\ leaf.kind = "PMPowerCap" =>
                 pre = <<[leaf.new EXCEPT !.preInit = files["power1_cap"]], <<Write("power1_cap", 0)>>>>
            /\ leaf.kind # "PMPowerCap" /\ ~InTable(leaf) => pre = <<leaf.new, <<>>>>
<1> DEFINE x == leaf.new
           methods == Leaf(leaf, x, files)
           pre == Methods(leaf, x, files).preInit
<1>0. leaf.kind \in Kinds /\ Found(m, leaf)
  BY FoundOf
<1>1. pre = IF "preInit" \in DOMAIN methods THEN methods.preInit ELSE <<x, <<>>>>
  BY OverOf DEF Methods
<1>2. CASE leaf.kind \in {"PMAuto", "PMFixed"}
  <2>1. "preInit" \notin DOMAIN methods
    BY <1>2 DEF Leaf, PMAuto, PMAutoLegacy, PMAutoR600, PMFixed, PMFixedLegacy, PMFixedR600
  <2> HIDE DEF methods
  <2>2. pre = <<x, <<>>>>
    BY <1>1, <2>1
  <2> HIDE DEF pre
  <2>3. QED
    BY <1>2, <2>2 DEF Remembered, InTable, pre
<1>3. CASE leaf.kind \in {"PMPowerState", "PMDynamicFreq", "PMFreqOd", "PMPowerProfile", "CPUFreq"}
  <2>1. "preInit" \notin DOMAIN methods
    BY <1>3 DEF Leaf, PMPowerState, PMDynamicFreq, PMFreqOd, PMPowerProfile, CPUFreq
  <2> HIDE DEF methods
  <2>2. pre = <<x, <<>>>>
    BY <1>1, <2>1
  <2> HIDE DEF pre
  <2>3. QED
    BY <1>3, <2>2 DEF Remembered, InTable, pre
<1>4. CASE leaf.kind \in {"PMFixedFreq", "FanAuto", "FanFixed", "FanCurve"}
  <2>1. "preInit" \notin DOMAIN methods
    BY <1>4 DEF Leaf, PMFixedFreq, FanAuto, FanFixed, FanCurve, FanCurveAt
  <2> HIDE DEF methods
  <2>2. pre = <<x, <<>>>>
    BY <1>1, <2>1
  <2> HIDE DEF pre
  <2>3. QED
    BY <1>4, <2>2 DEF Remembered, InTable, pre
<1>5. CASE leaf.kind = "PMPowerCap"
  <2>1. pre = <<[x EXCEPT !.preInit = files["power1_cap"]], <<Write("power1_cap", 0)>>>>
    BY <1>1, <1>5 DEF Leaf, PMPowerCap
  <2>2. x \in [value : Int, preInit : Int]
    BY <1>0, <1>5 DEF Found
  <2> HIDE DEF pre, x
  <2>3. Remembered(leaf, pre[1])
    BY <1>5, <2>1, <2>2 DEF Remembered, x
  <2>4. QED
    BY <1>5, <2>1, <2>3 DEF InTable, pre, x
<1>6. CASE leaf.kind \in {"PMFreqRange", "PMVoltCurve", "PMVoltOffset"}
  <2>1. \E value : methods.preInit = <<[x EXCEPT !.preInit = value], <<>>>> /\ "preInit" \in DOMAIN methods
    <3>1. CASE leaf.kind = "PMFreqRange"
      BY <3>1 DEF Leaf, PMFreqRange
    <3>2. CASE leaf.kind = "PMVoltCurve"
      BY <3>2 DEF Leaf, PMVoltCurve
    <3>3. CASE leaf.kind = "PMVoltOffset"
      BY <3>3 DEF Leaf, PMVoltOffset
    <3>4. QED
      BY <1>6, <3>1, <3>2, <3>3
  <2> HIDE DEF methods
  <2>2. PICK value : pre = <<[x EXCEPT !.preInit = value], <<>>>>
    BY <1>1, <2>1
  <2>3. "preInit" \in DOMAIN x
    <3>1. CASE leaf.kind = "PMFreqRange"
      BY <1>0, <3>1 DEF Found
    <3>2. CASE leaf.kind = "PMVoltCurve"
      BY <1>0, <3>2 DEF Found
    <3>3. CASE leaf.kind = "PMVoltOffset"
      BY <1>0, <3>3 DEF Found
    <3>4. QED
      BY <1>6, <3>1, <3>2, <3>3
  <2> HIDE DEF pre, x
  <2>4. pre[1] = [x EXCEPT !.preInit = value] /\ pre[1].preInit = value /\ pre[2] = <<>>
    BY <2>2, <2>3
  <2>5. Remembered(leaf, pre[1])
    BY <1>6, <2>4 DEF Remembered, x
  <2>6. pre[2] \in Seq(Safe)
    BY <2>4
  <2>7. QED
    BY <1>6, <2>5, <2>6 DEF InTable, pre, x
<1>7. CASE leaf.kind = "PMFreqVolt"
  <2> DEFINE dpm == PpDpmHandler(x.dpm, leaf.dpmFile, leaf.dpmStates, files)
  <2>1. \E value : methods.preInit = <<[x EXCEPT !.preInit = value, !.dpm = dpm.cleaned], dpm.clean>>
                   /\ "preInit" \in DOMAIN methods
    BY <1>7 DEF Leaf, PMFreqVolt
  <2> HIDE DEF methods
  <2>2. PICK value : pre = <<[x EXCEPT !.preInit = value, !.dpm = dpm.cleaned], dpm.clean>>
    BY <1>1, <2>1
  <2>3. dpm.cleaned = [x.dpm EXCEPT !.resync = FALSE] /\ dpm.clean = Manual(files) \o <<Write(leaf.dpmFile, leaf.dpmStates)>>
    BY DEF PpDpmHandler
  <2>4. "preInit" \in DOMAIN x /\ leaf.dpmFile \in DpmFiles /\ leaf.dpmStates \in SUBSET Int
    BY <1>0, <1>7 DEF Found
  <2> HIDE DEF pre, x, dpm
  <2>5. pre[1] = [x EXCEPT !.preInit = value, !.dpm = [x.dpm EXCEPT !.resync = FALSE]] /\ pre[1].preInit = value
    BY <2>2, <2>3, <2>4
  <2>6. Remembered(leaf, pre[1])
    BY <1>7, <2>5 DEF Remembered, x
  <2>7. dpm.clean \in Seq(Safe)
    <3>1. Write(Level, "manual") \in Safe /\ Write(leaf.dpmFile, leaf.dpmStates) \in Safe
      BY <2>4 DEF Safe
    <3>2. Manual(files) \in {<<>>, <<Write(Level, "manual")>>}
      BY DEF Manual, Differs
    <3> DEFINE first == Write(Level, "manual")
               second == Write(leaf.dpmFile, leaf.dpmStates)
    <3>3. dpm.clean = <<>> \o <<second>> \/ dpm.clean = <<first>> \o <<second>>
      BY <2>3, <3>2
    <3> HIDE DEF Safe, first, second
    <3>4. <<second>> \in Seq(Safe) /\ <<first>> \in Seq(Safe) /\ <<>> \in Seq(Safe)
      BY <3>1 DEF first, second
    <3>5. <<>> \o <<second>> \in Seq(Safe) /\ <<first>> \o <<second>> \in Seq(Safe)
      BY <3>4
    <3>6. QED
      BY <3>3, <3>5
  <2>8. pre[2] = dpm.clean
    BY <2>2
  <2>9. QED
    BY <1>7, <2>6, <2>7, <2>8 DEF InTable, pre, x
<1>8. QED
  BY <1>0, <1>2, <1>3, <1>4, <1>5, <1>6, <1>7 DEF Kinds

\* Most files take a write.
Unlocked(files) == Level \in DOMAIN files => files[Level] = "manual"

\* While the level is manual, the writes of a start that do not go to the table leave it alone.
LEMMA SafeOf ==
  ASSUME NEW m, NEW s, Unlocked(s[1]), NEW w \in Safe
  PROVE Unlocked(Written(m, s, w)[1]) /\ Written(m, s, w)[1][Table] = s[1][Table]
<1> DEFINE files == s[1]
<1>1. CASE w = Write(Level, "manual")
  <2>1. w.file = Level /\ w.value = "manual"
    BY <1>1 DEF Write
  <2>5. w.file \notin DpmFiles \cup {Table, "pp_power_profile_mode", "power1_cap", "pwm1"}
    BY <2>1 DEF Level, Table, DpmFiles
  <2>2. Written(m, s, w) = <<[files EXCEPT ![Level] = "manual"], s[2]>>
    BY <2>1, <2>5, WrittenIs
  <2>3. Level # Table
    BY DEF Level, Table
  <2>4. QED
    BY <2>2, <2>3 DEF Unlocked
<1>2. CASE w.file \in DpmFiles
  <2>1. ~(Level \in DOMAIN files /\ files[Level] # "manual")
    BY DEF Unlocked
  <2>2. w.file \notin {Level, Table, "pp_power_profile_mode", "power1_cap", "pwm1"}
    BY <1>2 DEF Level, Table, DpmFiles
  <2>3. Written(m, s, w)[1] = IF ParseDPMCurrentStateIndex(files[w.file]) \in w.value THEN files
                              ELSE [files EXCEPT ![w.file] = MarkedAs(@, Min(w.value))]
    BY <1>2, <2>1, WrittenIs
  <2>4. QED
    BY <2>2, <2>3 DEF Unlocked
<1>3. QED
  BY <1>1, <1>2 DEF Safe, Write

\* The reset of the table, by the whole group.
LEMMA ResetTable ==
  ASSUME NEW m, NEW files, Table \in DOMAIN files, NEW d, NEW flat \in Seq(Safe)
  PROVE Executed(m, <<files, d>>, Manual(files) \o Reset \o flat)[1][Table] = m.files[Table]
<1> DEFINE s == <<files, d>>
           first == Manual(files)
           writes == first \o Reset \o flat
           q == Len(first)
           n == Len(flat)
<1>1. /\ Manual(files) \in {<<>>, <<Write(Level, "manual")>>}
      /\ Manual(files) = <<>> => files[Level] = "manual"
  BY DEF Manual, Differs
<1>2. /\ q \in {0, 1} /\ n \in Nat /\ Len(writes) = q + 2 + n
      /\ q = 0 => first = <<>>
      /\ q = 1 => writes[1] = Write(Level, "manual") /\ first = <<Write(Level, "manual")>>
      /\ writes[q + 1] = Edit(<<"r">>) /\ writes[q + 2] = Edit(<<"c">>)
  <2>1. flat \in Seq(Safe) /\ n \in Nat
    OBVIOUS
  <2>2. Reset = <<Edit(<<"r">>), Edit(<<"c">>)>>
    BY DEF Reset
  <2>3. CASE Manual(files) = <<>>
    BY <2>1, <2>2, <2>3
  <2>4. CASE Manual(files) = <<Write(Level, "manual")>>
    BY <2>1, <2>2, <2>4
  <2>5. QED
    BY <1>1, <2>3, <2>4
<1>3. \A j \in 1 .. n : writes[q + 2 + j] \in Safe
  <2>1. Reset = <<Edit(<<"r">>), Edit(<<"c">>)>>
    BY DEF Reset
  <2> DEFINE two == first \o Reset
  <2>2. Len(two) = q + 2 /\ DOMAIN two = 1 .. q + 2
    BY <1>1, <2>1
  <2> HIDE DEF two, q
  <2>3. \A j \in 1 .. n : (two \o flat)[q + 2 + j] = flat[j]
    BY SMTT(40), <1>2, <2>2
  <2>4. \A j \in 1 .. n : flat[j] \in Safe
    OBVIOUS
  <2>5. QED
    BY <2>3, <2>4 DEF two
<1> HIDE DEF writes, first, q, n
<1>4. Len(writes) \in Nat
  BY <1>2
<1>5. PICK r : /\ r[0] = s
               /\ \A k \in 1 .. Len(writes) : r[k] = Written(m, r[k - 1], writes[k])
               /\ Executed(m, s, writes) = r[Len(writes)]
  BY <1>4, Run
<1>6. Unlocked(r[q][1]) /\ Table \in DOMAIN r[q][1]
  <2>1. CASE q = 0
    BY <2>1, <1>1, <1>2, <1>5 DEF Unlocked, first
  <2>2. CASE q = 1
    <3> DEFINE w == Write(Level, "manual")
    <3>1. 1 \in 1 .. Len(writes)
      BY <1>2, <2>2
    <3>7. 1 - 1 = 0
      OBVIOUS
    <3>2. r[1] = Written(m, r[0], writes[1])
      BY <1>5, <3>1, <3>7
    <3>6. r[1] = Written(m, s, w)
      BY <3>2, <1>2, <1>5, <2>2
    <3>3. Written(m, s, w) = <<[files EXCEPT ![Level] = "manual"], d>>
      <4>1. w.file = Level /\ w.value = "manual"
        BY DEF Write
      <4>2. Level \notin DpmFiles \cup {Table, "pp_power_profile_mode", "power1_cap", "pwm1"}
        BY DEF Level, Table, DpmFiles
      <4> HIDE DEF w
      <4>3. QED
        BY <4>1, <4>2, WrittenIs
    <3>4. r[1][1] = [files EXCEPT ![Level] = "manual"]
      BY <3>6, <3>3
    <3>5. QED
      BY <2>2, <3>4 DEF Unlocked
  <2>3. QED
    BY <1>2, <2>1, <2>2
<1>7. Unlocked(r[q + 1][1]) /\ r[q + 1][1][Table] = m.files[Table]
  <2>1. q + 1 \in 1 .. Len(writes) /\ q + 1 - 1 = q
    BY <1>2
  <2> DEFINE before == r[q]
             w == Edit(<<"r">>)
  <2>2. r[q + 1] = Written(m, before, w)
    BY <1>2, <1>5, <2>1
  <2>3. w.file = Table /\ w.value = <<"r">>
    BY DEF Edit, Write
  <2>4. ~(Level \in DOMAIN before[1] /\ before[1][Level] # "manual")
    BY <1>6 DEF Unlocked
  <2> HIDE DEF before, w
  <2>5. Written(m, before, w) = <<[before[1] EXCEPT ![Table] = m.files[Table]], before[2]>>
    BY <2>3, <2>4, WrittenIs
  <2>6. Level # Table
    BY DEF Level, Table
  <2>7. QED
    BY <1>6, <2>2, <2>5, <2>6 DEF Unlocked, before
<1>8. Unlocked(r[q + 2][1]) /\ r[q + 2][1][Table] = m.files[Table]
  <2>1. q + 2 \in 1 .. Len(writes) /\ q + 2 - 1 = q + 1
    BY <1>2
  <2> DEFINE before == r[q + 1]
             w == Edit(<<"c">>)
  <2>2. r[q + 2] = Written(m, before, w)
    BY <1>2, <1>5, <2>1
  <2>3. w.file = Table /\ w.value = <<"c">> /\ <<"c">> # <<"r">>
    BY DEF Edit, Write
  <2>4. ~(Level \in DOMAIN before[1] /\ before[1][Level] # "manual")
    BY <1>7 DEF Unlocked
  <2> HIDE DEF before, w
  <2>5. Written(m, before, w)[1] = before[1]
    BY <2>3, <2>4, WrittenIs
  <2>7. QED
    BY <1>7, <2>2, <2>5 DEF before
<1> DEFINE G == {j \in Nat : j <= n => Unlocked(r[q + 2 + j][1]) /\ r[q + 2 + j][1][Table] = m.files[Table]}
<1>9. 0 \in G
  <2>1. q + 2 + 0 = q + 2
    BY <1>2
  <2>2. QED
    BY <1>8, <2>1
<1>10. \A j \in G : j + 1 \in G
  <2>1. SUFFICES ASSUME NEW j \in G, j + 1 <= n
                 PROVE Unlocked(r[q + 2 + (j + 1)][1]) /\ r[q + 2 + (j + 1)][1][Table] = m.files[Table]
    OBVIOUS
  <2> DEFINE at == q + 2 + (j + 1)
  <2>2. at \in 1 .. Len(writes) /\ at - 1 = q + 2 + j /\ j + 1 \in 1 .. n /\ j <= n
    BY <1>2, <2>1
  <2>3. Unlocked(r[at - 1][1]) /\ r[at - 1][1][Table] = m.files[Table] /\ writes[at] \in Safe
    BY <1>3, <2>2
  <2>4. r[at] = Written(m, r[at - 1], writes[at])
    BY <1>5, <2>2
  <2> HIDE DEF at
  <2>5. Unlocked(r[at][1]) /\ r[at][1][Table] = m.files[Table]
    BY <2>3, <2>4, SafeOf
  <2>6. QED
    BY <2>5 DEF at
<1>11. G = Nat
  <2> HIDE DEF G
  <2>1. G \in SUBSET Nat
    BY DEF G
  <2>2. QED
    BY <1>9, <1>10, <2>1, Induct
<1> HIDE DEF G
<1>12. n \in G
  BY <1>2, <1>11
<1>13. r[q + 2 + n][1][Table] = m.files[Table]
  BY <1>2, <1>12 DEF G
<1>14. QED
  BY <1>2, <1>5, <1>13 DEF writes, first

\* The entries of a clock that are in use.
LEMMA ClksOf ==
  ASSUME NEW entries \in Seq(Int \X Int), NEW disabled
  PROVE LET picked == [k \in 1 .. Cardinality({i \in DOMAIN entries : entries[i][1] \notin disabled}) |->
                         entries[Nth({i \in DOMAIN entries : entries[i][1] \notin disabled}, k)]]
        IN  \E n \in Nat : Len(picked) = n /\ DOMAIN picked = 1 .. n /\ \A k \in 1 .. n : picked[k] \in Int \X Int
<1> DEFINE n == Len(entries)
           at == {i \in DOMAIN entries : entries[i][1] \notin disabled}
           N == Cardinality(at)
           clks == [k \in 1 .. N |-> entries[Nth(at, k)]]
<1>2. n \in Nat /\ DOMAIN entries = 1 .. n /\ \A i \in 1 .. n : entries[i] \in Int \X Int
  OBVIOUS
<1>3. at \in SUBSET (1 .. n)
  BY <1>2
<1> HIDE DEF n
<1>4. N \in Nat /\ \A k \in 1 .. N : Nth(at, k) \in at
  <2> HIDE DEF at
  <2>1. QED
    BY <1>2, <1>3, PickedOf
<1>5. DOMAIN clks = 1 .. N /\ \A k \in 1 .. N : clks[k] \in Int \X Int
  <2>1. \A k \in 1 .. N : clks[k] = entries[Nth(at, k)] /\ Nth(at, k) \in 1 .. n
    BY <1>3, <1>4
  <2> HIDE DEF clks, N, at
  <2>2. \A k \in 1 .. N : clks[k] \in Int \X Int
    BY <1>2, <2>1
  <2>3. QED
    BY <2>2 DEF clks
<1>6. Len(clks) = N
  BY <1>4
<1>7. QED
  BY <1>4, <1>5, <1>6

\* An entry that is listed is found.
LEMMA EntryFound ==
  ASSUME NEW T, NEW entries, NEW n \in Nat, Len(entries) = n, \A k \in 1 .. n : entries[k] \in T,
         NEW index, \E k \in 1 .. n : entries[k][1] = index
  PROVE Entry(entries, index, Absent) \in T
<1>1. ~ \A k \in 1 .. n : entries[k][1] # index
  OBVIOUS
<1>2. QED
  BY <1>1, EntryOf

\* The entries of a clock.
LEMMA EntriesOf ==
  ASSUME NEW T, NEW entries, NEW n \in Nat, Len(entries) = n, DOMAIN entries = 1 .. n,
         \A k \in 1 .. n : entries[k] \in T /\ entries[k][1] \in Int
  PROVE /\ IsFiniteSet(Indices(entries)) /\ Indices(entries) \subseteq Int
        /\ \A index \in Indices(entries) : Entry(entries, index, Absent) \in T
<1>1. IsFiniteSet(Indices(entries)) /\ Indices(entries) \subseteq Int
  <2> DEFINE f == [k \in 1 .. n |-> entries[k][1]]
             S == Indices(entries)
  <2>1. f \in Surjection(1 .. n, S)
    BY DEF Surjection, Indices
  <2>3. 1 \in Int /\ n \in Int
    OBVIOUS
  <2>2. IsFiniteSet(1 .. n)
    BY <2>3, FS_Interval
  <2> HIDE DEF f, S
  <2>4. IsFiniteSet(S)
    BY <2>1, <2>2, FS_Surjection
  <2>5. QED
    BY <2>4 DEF S, Indices
<1>2. ASSUME NEW index \in Indices(entries) PROVE Entry(entries, index, Absent) \in T
  <2>1. \E k \in 1 .. n : entries[k][1] = index
    BY DEF Indices
  <2>2. \A k \in 1 .. n : entries[k] \in T
    OBVIOUS
  <2>3. QED
    BY <2>1, <2>2, EntryFound
<1>3. QED
  BY <1>1, <1>2

\* The tail of an entry with three numbers.
LEMMA TailOf ==
  \A t \in Int \X Int \X Int : t[1] \in Int /\ Tail(t) \in Int \X Int
<1>1. SUFFICES ASSUME NEW t \in Int \X Int \X Int PROVE t[1] \in Int /\ Tail(t) \in Int \X Int
  OBVIOUS
<1>2. t = <<t[1], t[2], t[3]>> /\ t[1] \in Int /\ t[2] \in Int /\ t[3] \in Int
  OBVIOUS
<1>3. Tail(<<t[1], t[2], t[3]>>) = <<t[2], t[3]>>
  OBVIOUS
<1>4. Tail(t) = <<t[2], t[3]>>
  BY <1>2, <1>3
<1>5. QED
  BY <1>2, <1>4
\* The settings that are read when the program starts are settings of the control, whatever was
\* remembered before.
LEMMA InitOf ==
  ASSUME NEW m \in Machines, l \in Leaves(m), NEW read,
         InTable(l) \/ l.kind = "PMPowerCap" => Shows(l, read),
         NEW before, Remembered(l, before)
  PROVE LET x == Methods(l, before, read).init
        IN  Defaults(l, Exported(l, x)) /\ Configured(l, Exported(l, x), x)
<1> DEFINE x == Methods(l, before, read).init
           methods == Leaf(l, before, read)
<1>0. l.kind \in Kinds /\ Found(m, l) /\ HasRanges(l)
  BY FoundOf, MachinesAssumption
<1>1. "init" \in DOMAIN methods => x = methods.init
  BY OverOf DEF Methods
<1>2. CASE l.kind \in {"PMAuto", "PMFixed", "PMPowerState", "PMDynamicFreq", "PMFixedFreq", "PMFreqOd",
                       "PMPowerProfile", "FanAuto", "FanFixed", "FanCurve", "CPUFreq"}
  <2>1. "init" \in DOMAIN methods /\ methods.init = before
    <3>1. CASE l.kind \in {"PMAuto", "PMFixed"}
      BY <3>1 DEF Leaf, PMAuto, PMAutoLegacy, PMAutoR600, PMFixed, PMFixedLegacy, PMFixedR600
    <3>2. CASE l.kind \in {"PMPowerState", "PMDynamicFreq", "PMFixedFreq", "PMFreqOd"}
      BY <3>2 DEF Leaf, PMPowerState, PMDynamicFreq, PMFixedFreq, PMFreqOd
    <3>3. CASE l.kind \in {"PMPowerProfile", "CPUFreq"}
      BY <3>3 DEF Leaf, PMPowerProfile, CPUFreq
    <3>4. CASE l.kind \in {"FanAuto", "FanFixed", "FanCurve"}
      BY <3>4 DEF Leaf, FanAuto, FanFixed, FanCurve, FanCurveAt
    <3>5. QED
      BY <1>2, <3>1, <3>2, <3>3, <3>4
  <2>2. before = l.new
    BY <1>2 DEF Remembered
  <2> HIDE DEF methods
  <2>3. x = l.new
    BY <1>1, <2>1, <2>2
  <2> HIDE DEF x
  <2>4. Configured(l, Exported(l, x), x)
    <3>1. CASE l.kind \in {"PMAuto", "PMDynamicFreq", "FanAuto"}
      BY ZenonT(60), <1>0, <2>3, <3>1 DEF Found, Configured
    <3>2. CASE l.kind \in {"PMFixed", "PMPowerState", "PMPowerProfile", "CPUFreq"}
      BY <1>0, <2>3, <3>2 DEF Found, Configured, Settable
    <3>3. CASE l.kind = "PMFixedFreq"
      BY <1>0, <2>3, <3>3 DEF Found, Configured
    <3>4. CASE l.kind = "PMFreqOd"
      BY <1>0, <2>3, <3>4 DEF Found, Configured, Settable, MaxOd
    <3>5. CASE l.kind = "FanFixed"
      <4>1. x = [value |-> 64, fanStop |-> FALSE, fanStartValue |-> 54, lastValue |-> -1]
        BY <1>0, <2>3, <3>5 DEF Found, NoPwm
      <4>2. x \in [value : 0 .. 255, fanStop : BOOLEAN, fanStartValue : 0 .. 255, lastValue : Int]
        BY <4>1
      <4>3. QED
        BY <3>5, <4>2 DEF Configured
    <3>6. CASE l.kind = "FanCurve"
      <4>1. /\ l.new.points \in Curves(l)
            /\ x = [points |-> l.new.points, fanStop |-> FALSE, fanStartValue |-> 54,
                    lastPwm |-> NoPwm, lastFanStop |-> FALSE]
        BY <1>0, <2>3, <3>6 DEF Found
      <4>2. x \in [points : Curves(l), fanStop : BOOLEAN, fanStartValue : 0 .. 255,
                   lastPwm : {x.lastPwm}, lastFanStop : {x.lastFanStop}]
        BY <4>1
      <4>3. QED
        BY <3>6, <4>2 DEF Configured
    <3>7. QED
      BY SMTT(40), <1>2, <3>1, <3>2, <3>3, <3>4, <3>5, <3>6
  <2>5. QED
    BY <1>2, <2>4 DEF Defaults, x
<1>3. CASE l.kind = "PMPowerCap"
  <2>1. "init" \in DOMAIN methods /\ methods.init = [before EXCEPT !.value = Clamp(read["power1_cap"], l.min, l.max)]
    BY <1>3 DEF Leaf, PMPowerCap
  <2>2. before = [l.new EXCEPT !.preInit = before.preInit] /\ l.new \in [value : Int, preInit : Int]
    BY <1>0, <1>3 DEF Remembered, Found
  <2>3. read["power1_cap"] \in Int
    BY <1>3 DEF Shows
  <2>4. Clamp(read["power1_cap"], l.min, l.max) \in l.min .. l.max
    BY <1>0, <1>3, <2>3 DEF Clamp, HasRanges, IsRange
  <2> HIDE DEF methods
  <2>5. x = [before EXCEPT !.value = Clamp(read["power1_cap"], l.min, l.max)]
    BY <1>1, <2>1
  <2> HIDE DEF x
  <2>6. x \in [value : l.min .. l.max, preInit : {x.preInit}]
    BY <2>2, <2>4, <2>5
  <2>7. QED
    BY <1>3, <2>6 DEF Defaults, Configured, x
<1>4. CASE l.kind = "PMVoltOffset"
  <2> DEFINE offset == ParseOverdriveVoltOffset(read[Table])
  <2>1. "init" \in DOMAIN methods /\ methods.init = [before EXCEPT !.value = offset]
    BY <1>4 DEF Leaf, PMVoltOffset
  <2>2. before = [l.new EXCEPT !.preInit = before.preInit] /\ l.new = [value |-> 0, preInit |-> 0]
    BY <1>0, <1>4 DEF Remembered, Found
  <2>3. offset \in -MaxOffset .. MaxOffset
    BY <1>4 DEF Shows, InTable
  <2> HIDE DEF methods, offset
  <2>5. x = [before EXCEPT !.value = offset]
    BY <1>1, <2>1
  <2> HIDE DEF x
  <2>6. x \in [value : -MaxOffset .. MaxOffset, preInit : {x.preInit}]
    BY <2>2, <2>3, <2>5
  <2>7. QED
    BY <1>4, <2>6 DEF Defaults, Configured, x
<1>5. CASE l.kind = "PMFreqRange"
  <2> DEFINE entries == ParseOverdriveClks(l.name, read[Table])
             clks == Picked(entries, LAMBDA clk : clk[1] \notin l.disabled)
             D == Indices(clks)
             states == [index \in D |-> Clamp(Entry(clks, index, Absent)[2], l.min, l.max)]
  <2>1. "init" \in DOMAIN methods /\ methods.init = [before EXCEPT !.states = states]
    BY <1>5 DEF Leaf, PMFreqRange
  <2>2. before = [l.new EXCEPT !.preInit = before.preInit] /\ l.new = [states |-> <<>>, preInit |-> <<>>]
    BY <1>0, <1>5 DEF Remembered, Found
  <2>3. entries \in Seq(Int \X Int)
    BY <1>5 DEF Shows, InTable
  <2>4. /\ IsFiniteSet(D) /\ D \subseteq Int
        /\ \A index \in D : Entry(clks, index, Absent)[2] \in Int
    <3> DEFINE disabled == l.disabled
    <3> HIDE DEF entries, disabled
    <3> DEFINE picked == [k \in 1 .. Cardinality({i \in DOMAIN entries : entries[i][1] \notin disabled}) |->
                            entries[Nth({i \in DOMAIN entries : entries[i][1] \notin disabled}, k)]]
    <3>1. clks = picked
      BY DEF Picked, disabled
    <3>2. \E n \in Nat : Len(picked) = n /\ DOMAIN picked = 1 .. n /\ \A k \in 1 .. n : picked[k] \in Int \X Int
      BY ZenonT(60), <2>3, ClksOf
    <3> DEFINE T == Int \X Int
    <3> HIDE DEF picked
    <3>3. \A t \in T : t[1] \in Int /\ t[2] \in Int
      OBVIOUS
    <3> HIDE DEF T
    <3>4. PICK n \in Nat : Len(picked) = n /\ DOMAIN picked = 1 .. n /\ \A k \in 1 .. n : picked[k] \in T
      BY <3>2 DEF T
    <3>5. \A k \in 1 .. n : picked[k] \in T /\ picked[k][1] \in Int
      BY <3>3, <3>4
    <3>6. /\ IsFiniteSet(Indices(picked)) /\ Indices(picked) \subseteq Int
          /\ \A index \in Indices(picked) : Entry(picked, index, Absent) \in T
      BY <3>4, <3>5, EntriesOf
    <3> HIDE DEF clks
    <3>7. QED
      BY <3>1, <3>3, <3>6
  <2> HIDE DEF methods, entries, clks, D
  <2>5. states \in [D -> l.min .. l.max]
    BY <1>0, <1>5, <2>4 DEF Clamp, HasRanges, IsRange
  <2>6. DOMAIN states = D
    OBVIOUS
  <2> HIDE DEF states
  <2>7. x = [before EXCEPT !.states = states]
    BY <1>1, <2>1
  <2> HIDE DEF x
  <2>8. x.states = states /\ x = [states |-> states, preInit |-> x.preInit]
    BY <2>2, <2>7
  <2>9. Exported(l, x).states = states
    BY <1>5, <2>8 DEF Exported
  <2>10. Defaults(l, Exported(l, x))
    BY <1>5, <2>4, <2>6, <2>9 DEF Defaults
  <2>11. x \in [states : [D -> l.min .. l.max], preInit : {x.preInit}]
    BY <2>5, <2>8
  <2>12. Configured(l, Exported(l, x), x)
    BY <1>5, <2>6, <2>9, <2>11 DEF Configured
  <2>13. QED
    BY <2>10, <2>12 DEF x
<1>6. CASE l.kind = "PMFreqVolt"
  <2> DEFINE entries == ParseOverdriveClksVolts(l.name, read[Table])
             T == Int \X Int \X Int
             N == Len(entries)
             D == Indices(entries)
             values == [index \in D |-> Tail(Entry(entries, index, Absent))]
             voltages == [index \in DOMAIN values |-> values[index][2]]
             states == [index \in DOMAIN values |-> ClampState(l, values[index])]
  <2>1. "init" \in DOMAIN methods /\ methods.init = [before EXCEPT !.initVoltages = voltages, !.states = states]
    BY <1>6 DEF Leaf, PMFreqVolt
  <2>2. /\ before = [l.new EXCEPT !.preInit = before.preInit, !.dpm = [l.new.dpm EXCEPT !.resync = FALSE]]
        /\ l.new.dpm \in Handlers(l.dpmStates)
        /\ l.new = [voltMode |-> "auto", states |-> <<>>, initVoltages |-> <<>>, preInit |-> <<>>, dpm |-> l.new.dpm]
    BY <1>0, <1>6 DEF Remembered, Found
  <2>3. entries \in Seq(l.dpmStates \X Int \X Int) /\ D = l.dpmStates /\ l.dpmStates \subseteq Int
    BY <1>0, <1>6 DEF Shows, InTable, Found
  <2>4. IsFiniteSet(D) /\ D \subseteq Int /\ \A index \in D : Tail(Entry(entries, index, Absent)) \in Int \X Int
    <3>1. N \in Nat /\ DOMAIN entries = 1 .. N /\ \A k \in 1 .. N : entries[k] \in l.dpmStates \X Int \X Int
      BY <2>3
    <3>2. l.dpmStates \X Int \X Int \subseteq T
      BY <2>3
    <3>3. N \in Nat /\ DOMAIN entries = 1 .. N /\ \A k \in 1 .. N : entries[k] \in T
      BY <3>1, <3>2
    <3> DEFINE all == entries
    <3> HIDE DEF T, N
    <3>4. \A t \in T : t[1] \in Int /\ Tail(t) \in Int \X Int
      BY TailOf DEF T
    <3>5. Len(all) = N /\ N \in Nat /\ DOMAIN all = 1 .. N
      BY <3>3 DEF N
    <3>6. \A k \in 1 .. N : all[k] \in T /\ all[k][1] \in Int
      BY <3>3, <3>4
    <3> HIDE DEF all, entries
    <3>7. /\ IsFiniteSet(Indices(all)) /\ Indices(all) \subseteq Int
          /\ \A index \in Indices(all) : Entry(all, index, Absent) \in T
      BY <3>5, <3>6, EntriesOf
    <3>8. \A index \in Indices(all) : Tail(Entry(all, index, Absent)) \in Int \X Int
      BY <3>4, <3>7
    <3>9. QED
      BY <3>7, <3>8 DEF all, D
  <2> HIDE DEF methods, entries, D
  <2>5. DOMAIN values = D /\ \A index \in D : values[index] \in Int \X Int
    BY <2>4
  <2> HIDE DEF values
  <2>6. states \in [D -> (l.min .. l.max) \X (l.voltMin .. l.voltMax)] /\ DOMAIN states = D
    <3>1. IsRange(l.min, l.max) /\ IsRange(l.voltMin, l.voltMax)
      BY <1>0, <1>6 DEF HasRanges
    <3>2. \A index \in D : values[index][1] \in Int /\ values[index][2] \in Int
      BY <2>5
    <3>3. \A index \in D : ClampState(l, values[index]) \in (l.min .. l.max) \X (l.voltMin .. l.voltMax)
      BY <3>1, <3>2, ClampStateOf
    <3>4. QED
      BY <2>5, <3>3
  <2> HIDE DEF states, voltages
  <2>7. x = [before EXCEPT !.initVoltages = voltages, !.states = states]
    BY <1>1, <2>1
  <2> HIDE DEF x
  <2>8. /\ before = [voltMode |-> "auto", states |-> <<>>, initVoltages |-> <<>>, preInit |-> before.preInit,
                     dpm |-> before.dpm]
        /\ before.dpm = [l.new.dpm EXCEPT !.resync = FALSE]
    <3> DEFINE saved == before.preInit
               dpm == l.new.dpm
               unsynced == [dpm EXCEPT !.resync = FALSE]
               new == l.new
    <3>1. new = [voltMode |-> "auto", states |-> <<>>, initVoltages |-> <<>>, preInit |-> <<>>, dpm |-> dpm]
      BY <2>2
    <3>2. before = [new EXCEPT !.preInit = saved, !.dpm = unsynced]
      BY <2>2
    <3> HIDE DEF saved, unsynced, new, dpm
    <3>3. before = [voltMode |-> "auto", states |-> <<>>, initVoltages |-> <<>>, preInit |-> saved, dpm |-> unsynced]
      BY <3>1, <3>2
    <3>4. before.preInit = saved /\ before.dpm = unsynced
      BY <3>3
    <3>5. QED
      BY <3>3, <3>4 DEF unsynced, dpm
  <2>9. before.dpm \in Handlers(l.dpmStates)
    BY <2>2, <2>8 DEF Handlers
  <2>10. x = [voltMode |-> "auto", states |-> states, initVoltages |-> voltages, preInit |-> before.preInit,
              dpm |-> before.dpm]
    <3> DEFINE saved == before.preInit
               dpm == before.dpm
    <3>1. before = [voltMode |-> "auto", states |-> <<>>, initVoltages |-> <<>>, preInit |-> saved, dpm |-> dpm]
      BY <2>8
    <3> HIDE DEF saved, dpm
    <3>2. x = [voltMode |-> "auto", states |-> states, initVoltages |-> voltages, preInit |-> saved, dpm |-> dpm]
      BY <2>7, <3>1
    <3>3. QED
      BY <3>2 DEF saved, dpm
  <2>11. Exported(l, x).states = states
    BY <1>6, <2>10 DEF Exported
  <2>12. Defaults(l, Exported(l, x))
    BY <1>6, <2>3, <2>4, <2>6, <2>11 DEF Defaults
  <2>13. x \in [voltMode : VoltModes, states : [D -> (l.min .. l.max) \X (l.voltMin .. l.voltMax)],
                initVoltages : {x.initVoltages}, preInit : {x.preInit}, dpm : Handlers(l.dpmStates)]
    BY <2>6, <2>9, <2>10 DEF VoltModes
  <2>14. Configured(l, Exported(l, x), x)
    BY <1>6, <2>6, <2>11, <2>13 DEF Configured
  <2>15. QED
    BY <2>12, <2>14 DEF x
<1>7. CASE l.kind = "PMVoltCurve"
  <2> DEFINE points == ParseOverdriveVoltCurve(read[Table])
             N == Len(points)
  <2>1. "init" \in DOMAIN methods /\ methods.init = [before EXCEPT !.points = points, !.initPoints = points]
    BY <1>7 DEF Leaf, PMVoltCurve
  <2>2. /\ before = [l.new EXCEPT !.preInit = before.preInit]
        /\ l.new = [mode |-> "auto", points |-> <<>>, initPoints |-> <<>>, preInit |-> <<>>]
    BY <1>0, <1>7 DEF Remembered, Found
  <2>3. /\ points \in Seq(Int \X Int)
        /\ \A k \in DOMAIN points : k \in DOMAIN l.ranges /\ ClampPoint(l, k, points[k]) = points[k]
    BY <1>7 DEF Shows, InTable
  <2> HIDE DEF methods, points
  <2>4. N \in Nat /\ DOMAIN points = 1 .. N /\ \A k \in 1 .. N : points[k][1] \in Int /\ points[k][2] \in Int
    BY <2>3
  <2>5. \A k \in 1 .. N : points[k] \in Int \X Int
    BY <2>3, <2>4
  <2> HIDE DEF N
  <2>6. ASSUME NEW k \in 1 .. N, NEW n \in {1, 2} PROVE points[k][n] \in l.ranges[k][n][1] .. l.ranges[k][n][2]
    <3>1. \A i \in {1, 2} : IsRange(l.ranges[k][i][1], l.ranges[k][i][2])
      BY <1>0, <1>7, <2>3, <2>4 DEF HasRanges
    <3>2. points[k][1] \in Int /\ points[k][2] \in Int
      BY <2>4
    <3>3. ClampPoint(l, k, points[k])[n] \in l.ranges[k][n][1] .. l.ranges[k][n][2]
      BY <3>1, <3>2, ClampPointOf
    <3>4. QED
      BY <2>3, <2>4, <3>3
  <2>7. x = [before EXCEPT !.points = points, !.initPoints = points]
    BY <1>1, <2>1
  <2> HIDE DEF x
  <2>8. x = [mode |-> "auto", points |-> points, initPoints |-> points, preInit |-> before.preInit]
    <3> DEFINE saved == before.preInit
               new == l.new
    <3>1. new = [mode |-> "auto", points |-> <<>>, initPoints |-> <<>>, preInit |-> <<>>]
      BY <2>2
    <3>2. before = [new EXCEPT !.preInit = saved]
      BY <2>2
    <3> HIDE DEF saved, new
    <3>3. before = [mode |-> "auto", points |-> <<>>, initPoints |-> <<>>, preInit |-> saved]
      BY <3>1, <3>2
    <3>4. x = [mode |-> "auto", points |-> points, initPoints |-> points, preInit |-> saved]
      BY <2>7, <3>3
    <3>5. QED
      BY <3>4 DEF saved
  <2>9. Exported(l, x).points = points
    BY <1>7, <2>8 DEF Exported
  <2>10. Defaults(l, Exported(l, x))
    BY <1>7, <2>3, <2>4, <2>9 DEF Defaults
  <2>11. points \in [DOMAIN points -> Int \X Int]
    <3>1. points \in [1 .. N -> Int \X Int]
      BY <2>3, <2>4 DEF N
    <3>2. QED
      BY <2>4, <3>1
  <2>12. points \in VoltCurves(l, Exported(l, x))
    BY <2>4, <2>6, <2>9, <2>11 DEF VoltCurves
  <2>13. Configured(l, Exported(l, x), x)
    BY <1>7, <2>8, <2>12 DEF Configured, VoltModes
  <2>14. QED
    BY <2>10, <2>13 DEF x
<1>8. QED
  BY <1>0, <1>2, <1>3, <1>4, <1>5, <1>6, <1>7 DEF Kinds

\* The group of a control that l stands for.
GroupOn(m) == IF InTable(l) THEN SetToSeq({leaf \in Leaves(m) : InTable(leaf)}) ELSE <<l>>

\* Its members.
LEMMA MembersOf ==
  ASSUME NEW m \in Machines, l \in Leaves(m)
  PROVE \E n \in Nat :
          /\ DOMAIN GroupOn(m) = 1 .. n
          /\ \A k \in 1 .. n : GroupOn(m)[k] \in Leaves(m) /\ (InTable(l) => InTable(GroupOn(m)[k]))
          /\ ~InTable(l) => n = 1 /\ GroupOn(m)[1] = l
<1>1. CASE InTable(l)
  <2> DEFINE S == {leaf \in Leaves(m) : InTable(leaf)}
             leaves == Leaves(m)
             N == Cardinality(S)
  <2>1. N \in Nat /\ SetToSeq(S) \in [1 .. N -> S]
    BY GroupFinite, SetToSeqOf
  <2>2. \A leaf \in S : leaf \in leaves /\ InTable(leaf)
    OBVIOUS
  <2> HIDE DEF S, N, leaves
  <2>3. GroupOn(m) = SetToSeq(S)
    BY <1>1 DEF GroupOn, S
  <2>4. DOMAIN GroupOn(m) = 1 .. N /\ \A k \in 1 .. N : GroupOn(m)[k] \in S
    BY <2>1, <2>3
  <2>5. \A k \in 1 .. N : GroupOn(m)[k] \in leaves /\ InTable(GroupOn(m)[k])
    BY <2>2, <2>4
  <2>6. QED
    BY <1>1, <2>1, <2>4, <2>5 DEF leaves
<1>2. CASE ~InTable(l)
  <2> DEFINE leaves == Leaves(m)
  <2>1. l \in leaves
    OBVIOUS
  <2> HIDE DEF leaves
  <2>2. GroupOn(m) = <<l>>
    BY <1>2 DEF GroupOn
  <2>3. DOMAIN GroupOn(m) = 1 .. 1 /\ GroupOn(m)[1] = l /\ 1 \in Nat
    BY <2>2
  <2>4. \A k \in 1 .. 1 : GroupOn(m)[k] = l
    BY <2>3
  <2>5. QED
    BY <1>2, <2>1, <2>3, <2>4 DEF leaves
<1>3. QED
  BY <1>1, <1>2

\* The reset brings the table of the group, and the power cap, back to what the machine had.
LEMMA ResetOf ==
  ASSUME NEW m \in Machines, l \in Leaves(m), NEW files, DOMAIN files = DOMAIN m.files, NEW d,
         NEW all, all = GroupOn(m),
         NEW pre, pre = [k \in DOMAIN all |-> Methods(all[k], all[k].new, files).preInit[2]]
  PROVE LET reset == Executed(m, <<files, d>>, AllWrites(pre, <<>>, files, files).preInit)
        IN  /\ InTable(l) => reset[1][Table] = m.files[Table]
            /\ l.kind = "PMPowerCap" => reset = Written(m, <<files, d>>, Write("power1_cap", 0))
            /\ ~InTable(l) /\ l.kind # "PMPowerCap" => reset = <<files, d>>
<1> DEFINE writes == AllWrites(pre, <<>>, files, files).preInit
<1>1. PICK n \in Nat :
          /\ DOMAIN all = 1 .. n
          /\ \A k \in 1 .. n : all[k] \in Leaves(m) /\ (InTable(l) => InTable(all[k]))
          /\ ~InTable(l) => n = 1 /\ all[1] = l
  BY MembersOf
<1>2. DOMAIN pre = 1 .. n /\ \A k \in 1 .. n : pre[k] = Methods(all[k], all[k].new, files).preInit[2]
  BY Zenon, <1>1
<1>3. CASE InTable(l)
  <2>1. \A k \in 1 .. n : pre[k] \in Seq(Safe)
    BY <1>1, <1>2, <1>3, PreOf
  <2>2. pre \in Seq(Seq(Safe))
    <3> DEFINE S == Seq(Safe)
    <3>1. \A k \in 1 .. n : pre[k] \in S
      BY <2>1
    <3> HIDE DEF S
    <3>2. pre = [k \in 1 .. n |-> pre[k]]
      BY <1>2
    <3>3. pre \in [1 .. n -> S]
      BY <3>1, <3>2
    <3>4. pre \in Seq(S)
      BY <1>1, <3>3
    <3>5. QED
      BY <3>4 DEF S
  <2>3. FlattenSeq(pre) \in Seq(Safe)
    BY <2>2, FlattenOf
  <2> DEFINE flat == FlattenSeq(pre)
  <2>4. writes = Manual(files) \o Reset \o flat
    BY <1>3 DEF AllWrites, PMOverdrive
  <2>5. Table \in DOMAIN files
    <3>1. Found(m, l)
      BY SMTT(40), FoundOf
    <3>2. QED
      BY <1>3, <3>1 DEF Found, InTable, Valid
  <2> HIDE DEF flat, writes
  <2>6. Executed(m, <<files, d>>, writes)[1][Table] = m.files[Table]
    BY <2>3, <2>4, <2>5, ResetTable DEF flat
  <2>7. QED
    BY Zenon, <1>3, <2>6 DEF InTable, writes
<1>4. CASE ~InTable(l)
  <2>1. n = 1 /\ all[1] = l /\ 1 \in 1 .. n
    BY <1>1, <1>4
  <2>2. pre[1] = Methods(l, l.new, files).preInit[2]
    BY <1>2, <2>1
  <2>3. pre = <<pre[1]>> /\ Len(pre) = 1
    <3>1. pre = [k \in 1 .. 1 |-> pre[k]]
      BY <1>2, <2>1
    <3>2. QED
      BY <3>1
  <2>4. FlattenSeq(pre) = pre[1]
    BY <2>3, FlattenOne
  <2>5. writes = pre[1]
    BY <1>4, <2>4 DEF AllWrites
  <2>6. /\ l.kind = "PMPowerCap" => pre[1] = <<Write("power1_cap", 0)>>
        /\ l.kind # "PMPowerCap" => pre[1] = <<>>
    <3> DEFINE kept == Methods(l, l.new, files).preInit
    <3>1. /\ l.kind = "PMPowerCap" =>
               kept = <<[l.new EXCEPT !.preInit = files["power1_cap"]], <<Write("power1_cap", 0)>>>>
          /\ l.kind # "PMPowerCap" => kept = <<l.new, <<>>>>
      BY <1>4, PreOf
    <3> HIDE DEF kept
    <3>2. /\ l.kind = "PMPowerCap" => kept[2] = <<Write("power1_cap", 0)>>
          /\ l.kind # "PMPowerCap" => kept[2] = <<>>
      BY <3>1
    <3>3. QED
      BY <2>2, <3>2 DEF kept
  <2> DEFINE w == Write("power1_cap", 0)
             s == <<files, d>>
  <2> HIDE DEF writes, w, s
  <2>7. l.kind = "PMPowerCap" => Executed(m, s, writes) = Written(m, s, w)
    <3>1. Executed(m, s, <<w>>) = Written(m, s, w)
      BY ExecutedOne
    <3>2. QED
      BY <2>5, <2>6, <3>1 DEF w
  <2>8. l.kind # "PMPowerCap" => Executed(m, s, writes) = s
    <3>1. Executed(m, s, <<>>) = s
      BY ExecutedNone
    <3>2. QED
      BY <2>5, <2>6, <3>1
  <2>9. QED
    BY <1>4, <2>7, <2>8 DEF writes, w, s
<1>5. QED
  BY Zenon, <1>3, <1>4

(***************************************************************************)
(* The start                                                               *)
(***************************************************************************)

\* The files and the driver before the program started.
Before(m) == {Factory(m), Executed(m, Factory(m), m.custom)}

Untouched == \E before \in Before(machine) : hw = before[1] /\ driver = before[2]

\* They show settings of the control.
LEMMA ShownBefore ==
  ASSUME NEW m \in Machines, l \in Leaves(m), NEW before \in Before(m)
  PROVE Shows(l, m.files) /\ Shows(l, before[1]) /\ DOMAIN before[1] = DOMAIN m.files
<1> DEFINE factory == Factory(m)
           changed == Executed(m, factory, m.custom)
           leaves == Leaves(m)
<1>1. factory[1] = m.files
  BY DEF Factory
<1>2. DOMAIN changed[1] = DOMAIN m.files
  <2> HIDE DEF factory
  <2>1. Len(m.custom) \in Nat
    BY MachinesAssumption
  <2>2. DOMAIN Executed(m, factory, m.custom)[1] = DOMAIN factory[1]
    BY <2>1, ExecutedFiles
  <2>3. QED
    BY <1>1, <2>2
<1>3. \A s \in {factory, changed} : \A leaf \in leaves : Shows(leaf, s[1])
  BY MachinesAssumption
<1>4. before \in {factory, changed} /\ l \in leaves
  BY DEF Before
<1> HIDE DEF factory, changed, leaves
<1>5. Shows(l, factory[1])
  BY <1>3, <1>4
<1>6. Shows(l, before[1]) /\ DOMAIN before[1] = DOMAIN m.files
  BY <1>1, <1>2, <1>3, <1>4
<1>7. QED
  BY <1>1, <1>5, <1>6

\* The writes of a control that starts alone: its reset, and those that put its settings back.
PutBack(s, post) ==
  \E reset :
    /\ reset = IF l.kind = "PMPowerCap" THEN Written(machine, s, Write("power1_cap", 0)) ELSE s
    /\ hw' = Executed(machine, reset, post)[1] /\ driver' = Executed(machine, reset, post)[2]

\* What the start reads, and what it makes of it.
LEMMA Started ==
  ASSUME machine \in Machines, l \in Leaves(machine), group = GroupOn(machine), Untouched, Start
  PROVE \E before, read :
          /\ before = Methods(l, l.new, hw).preInit[1]
          /\ c' = Methods(l, before, read).init
          /\ default' = Exported(l, c') /\ part' = default'
          /\ start' = "late" => read = hw
          /\ start' = "onTime" /\ InTable(l) => read[Table] = machine.files[Table]
          /\ start' = "onTime" /\ l.kind = "PMPowerCap" => read["power1_cap"] = machine.files["power1_cap"]
          /\ ~InTable(l) => PutBack(<<hw, driver>>, Methods(l, c', read).postInit)
<1> DEFINE saved == [k \in DOMAIN group |-> Methods(group[k], group[k].new, hw).preInit]
           pre == [k \in DOMAIN group |-> saved[k][2]]
           reset == Executed(machine, <<hw, driver>>, AllWrites(pre, <<>>, hw, hw).preInit)
           read == IF start' = "late" THEN hw ELSE reset[1]
           all == [k \in DOMAIN group |-> Methods(group[k], saved[k][1], read).init]
           methods == [k \in DOMAIN group |-> Methods(group[k], all[k], read)]
           after == Executed(machine, reset, AllWrites(<<>>, [k \in DOMAIN group |-> methods[k].postInit], read, hw).postInit)
<1>1. PICK own \in {k \in DOMAIN group : group[k] = l} :
        /\ c' = all[own] /\ default' = methods[own].export /\ part' = methods[own].export
        /\ hw' = after[1] /\ driver' = after[2]
  <2> DEFINE Reset_(s) == Executed(machine, <<hw, driver>>, AllWrites([k \in DOMAIN group |-> s[k][2]], <<>>, hw, hw).preInit)
             Read_(r) == IF start' = "late" THEN hw ELSE r[1]
             All_(s, r) == [k \in DOMAIN group |-> Methods(group[k], s[k][1], r).init]
             Methods_(a, r) == [k \in DOMAIN group |-> Methods(group[k], a[k], r)]
             Done_(own, a, m) == c' = a[own] /\ default' = m[own].export /\ part' = m[own].export
             Post_(s, r, rd, a, m) ==
               LET post == [k \in DOMAIN group |-> m[k].postInit]
                   t == Executed(machine, r, AllWrites(<<>>, post, rd, hw).postInit)
               IN  hw' = t[1] /\ driver' = t[2]
  <2>1. \E s \in {saved} : \E r \in {Reset_(s)} : \E rd \in {Read_(r)} : \E a \in {All_(s, rd)} : \E m \in {Methods_(a, rd)} :
          \E own \in {k \in DOMAIN group : group[k] = l} :
            /\ c' = a[own]
            /\ default' = m[own].export
            /\ part' = m[own].export
            /\ Post_(s, r, rd, a, m)
    <3>1. \E s \in {[k \in DOMAIN group |-> Methods(group[k], group[k].new, hw).preInit]} :
          \E r \in {Executed(machine, <<hw, driver>>, AllWrites([k \in DOMAIN group |-> s[k][2]], <<>>, hw, hw).preInit)} :
          \E rd \in {IF start' = "late" THEN hw ELSE r[1]} :
          \E a \in {[k \in DOMAIN group |-> Methods(group[k], s[k][1], rd).init]} :
          \E m \in {[k \in DOMAIN group |-> Methods(group[k], a[k], rd)]} :
          \E own \in {k \in DOMAIN group : group[k] = l} :
            /\ c' = a[own]
            /\ default' = m[own].export
            /\ part' = m[own].export
            /\ LET post == [k \in DOMAIN group |-> m[k].postInit]
                   t == Executed(machine, r, AllWrites(<<>>, post, rd, hw).postInit)
               IN  hw' = t[1] /\ driver' = t[2]
      BY ZenonT(60) DEF Start
    <3>2. QED
      BY <3>1, Zenon
  <2>6. /\ reset = Reset_(saved) /\ read = Read_(reset)
        /\ all = All_(saved, read) /\ methods = Methods_(all, read)
    OBVIOUS
  <2> HIDE DEF Reset_, Read_, All_, Methods_, Post_, saved, reset, read, all, methods, after
  <2>2. \E own \in {k \in DOMAIN group : group[k] = l} :
          /\ c' = all[own] /\ default' = methods[own].export /\ part' = methods[own].export
          /\ Post_(saved, reset, read, all, methods)
    BY <2>1, <2>6
  <2>3. Post_(saved, reset, read, all, methods) => hw' = after[1] /\ driver' = after[2]
    BY DEF Post_, after
  <2>4. QED
    BY <2>2, <2>3
<1> HIDE DEF after
<1>2. start' \in {"onTime", "late"}
  BY DEF Start
<1>3. own \in DOMAIN group /\ group[own] = l
  OBVIOUS
<1> DEFINE before == Methods(l, l.new, hw).preInit[1]
<1>4. saved[own][1] = before
  BY <1>3
<1>5. c' = Methods(l, before, read).init
  <2> HIDE DEF saved, read, before
  <2>1. QED
    BY <1>1, <1>3, <1>4
<1>6. default' = Exported(l, c') /\ part' = default'
  <2>1. l.kind \in Kinds
    BY FoundOf
  <2> HIDE DEF saved, read, before, all
  <2>2. methods[own] = Methods(l, c', read)
    BY <1>1, <1>3
  <2>3. Methods(l, c', read).export = Exported(l, c')
    BY SMTT(40), <2>1, ExportOf
  <2>4. QED
    BY <1>1, <2>2, <2>3
<1>7. /\ InTable(l) => reset[1][Table] = machine.files[Table]
      /\ l.kind = "PMPowerCap" => reset = Written(machine, <<hw, driver>>, Write("power1_cap", 0))
  <2>1. pre = [k \in DOMAIN group |-> Methods(group[k], group[k].new, hw).preInit[2]]
    OBVIOUS
  <2>2. DOMAIN hw = DOMAIN machine.files
    BY ShownBefore DEF Untouched
  <2> HIDE DEF pre
  <2>3. QED
    BY <2>1, <2>2, ResetOf
<1>8. l.kind = "PMPowerCap" => reset[1]["power1_cap"] = machine.files["power1_cap"]
  <2>1. SUFFICES ASSUME l.kind = "PMPowerCap" PROVE reset[1]["power1_cap"] = machine.files["power1_cap"]
    BY Zenon
  <2> DEFINE w == Write("power1_cap", 0)
             s == <<hw, driver>>
  <2>2. "power1_cap" \in DOMAIN hw
    <3>1. Found(machine, l) /\ DOMAIN hw = DOMAIN machine.files
      BY FoundOf, ShownBefore DEF Untouched
    <3>2. QED
      BY <2>1, <3>1 DEF Found, Valid
  <2>3. w.file = "power1_cap" /\ w.value = 0
    BY DEF Write
  <2>4. s[1] = hw /\ s[2] = driver
    OBVIOUS
  <2> HIDE DEF w, s
  <2>5. Written(machine, s, w) = <<[s[1] EXCEPT !["power1_cap"] = machine.files["power1_cap"]], s[2]>>
    BY <2>3, WrittenIs
  <2>6. Written(machine, s, w)[1]["power1_cap"] = machine.files["power1_cap"]
    BY <2>2, <2>4, <2>5
  <2> HIDE DEF reset
  <2>7. QED
    BY Zenon, <1>7, <2>1, <2>6 DEF w, s
<1>9. /\ start' = "late" => read = hw
      /\ start' = "onTime" => read = reset[1]
  BY Zenon
<1>10. ASSUME ~InTable(l) PROVE PutBack(<<hw, driver>>, Methods(l, c', read).postInit)
  <2> DEFINE s == <<hw, driver>>
             post == [k \in DOMAIN group |-> methods[k].postInit]
             own_ == Methods(l, c', read).postInit
  <2>1. DOMAIN group = 1 .. 1 /\ group[1] = l
    BY <1>10, MembersOf
  <2>2. own = 1
    BY <1>3, <2>1
  <2>3. post = [k \in 1 .. 1 |-> own_]
    <3> HIDE DEF all, read, reset, saved
    <3>1. all[1] = c'
      BY <1>1, <2>2
    <3>2. \A k \in DOMAIN group : methods[k].postInit = own_
      BY <2>1, <3>1
    <3> HIDE DEF methods
    <3>3. QED
      BY <2>1, <3>2
  <2>4. Len(post) = 1 /\ post[1] = own_
    <3> HIDE DEF post, own_
    <3>1. QED
      BY <2>3
  <2>5. AllWrites(<<>>, post, read, hw).postInit = own_
    <3> HIDE DEF post, own_
    <3>1. FlattenSeq(post) = own_
      BY <2>4, FlattenOne
    <3>2. QED
      BY Zenon, <1>10, <3>1 DEF AllWrites
  <2>6. reset = IF l.kind = "PMPowerCap" THEN Written(machine, s, Write("power1_cap", 0)) ELSE s
    <3>1. pre = [k \in DOMAIN group |-> Methods(group[k], group[k].new, hw).preInit[2]]
      OBVIOUS
    <3>2. DOMAIN hw = DOMAIN machine.files
      BY ShownBefore DEF Untouched
    <3> HIDE DEF pre
    <3>3. QED
      BY Zenon, <1>7, <1>10, <3>1, <3>2, ResetOf
  <2> HIDE DEF reset, own_, s, post, read
  <2>7. after = Executed(machine, reset, own_)
    BY Zenon, <2>5 DEF after, post
  <2>8. PutBack(s, own_)
    BY <1>1, <2>6, <2>7 DEF PutBack
  <2>9. QED
    BY <2>8 DEF s, own_
<1> HIDE DEF reset, before, read
<1>11. QED
  BY <1>5, <1>6, <1>7, <1>8, <1>9, <1>10 DEF before

\* Once the program has started the settings of the profile and of the control are some that the
\* control can have.
Inv ==
  /\ machine \in Machines /\ l \in Leaves(machine) /\ group = GroupOn(machine)
  /\ start \in {"none", "onTime", "late"}
  /\ start = "none" => Untouched
  /\ start # "none" =>
       /\ Defaults(l, default)
       /\ default \in Settable(l, default) /\ part \in Settable(l, default)
       /\ Configured(l, default, c)

\* The machine starts untouched.
LEMMA InitInv == Init => Inv
<1> SUFFICES ASSUME Init PROVE Inv
  OBVIOUS
<1>1. machine \in Machines /\ l \in Leaves(machine) /\ start = "none"
  BY DEF Init
<1>2. group = GroupOn(machine)
  BY DEF Init, GroupOn
<1>3. Untouched
  BY DEF Init, Untouched, Before
<1>4. QED
  BY <1>1, <1>2, <1>3 DEF Inv

\* What is read at the start are settings of the control.
LEMMA StartInv == Inv /\ Start => Inv'
<1> SUFFICES ASSUME Inv, Start PROVE Inv'
  OBVIOUS
<1>1. /\ machine \in Machines /\ l \in Leaves(machine) /\ group = GroupOn(machine)
      /\ start = "none" /\ start' \in {"onTime", "late"} /\ Untouched
      /\ UNCHANGED <<machine, l, group>>
  BY DEF Inv, Start
<1>2. PICK before, read :
          /\ before = Methods(l, l.new, hw).preInit[1]
          /\ c' = Methods(l, before, read).init
          /\ default' = Exported(l, c') /\ part' = default'
          /\ start' = "late" => read = hw
          /\ start' = "onTime" /\ InTable(l) => read[Table] = machine.files[Table]
          /\ start' = "onTime" /\ l.kind = "PMPowerCap" => read["power1_cap"] = machine.files["power1_cap"]
  BY <1>1, Started
<1>3. Shows(l, machine.files) /\ Shows(l, hw)
  BY <1>1, ShownBefore DEF Untouched
<1>4. InTable(l) \/ l.kind = "PMPowerCap" => Shows(l, read)
  <2>1. CASE start' = "late"
    BY <1>2, <1>3, <2>1
  <2>2. CASE start' = "onTime" /\ l.kind = "PMPowerCap"
    BY <1>2, <1>3, <2>2 DEF Shows, InTable
  <2>3. CASE start' = "onTime" /\ InTable(l)
    <3>1. read[Table] = machine.files[Table]
      BY <1>2, <2>3
    <3>2. QED
      BY <1>3, <2>3, <3>1 DEF Shows, InTable
  <2>4. QED
    BY <1>1, <2>1, <2>2, <2>3
<1>5. Remembered(l, before)
  BY <1>1, <1>2, PreOf
<1>6. Defaults(l, default') /\ Configured(l, default', c')
  BY <1>1, <1>2, <1>4, <1>5, InitOf
<1>7. default' \in Settable(l, default')
  <2>1. l.kind \in Kinds
    BY <1>1, FoundOf
  <2>2. QED
    BY <1>2, <1>6, <2>1, ExportedIn
<1>8. QED
  <2>1. /\ Defaults(l, default)'
        /\ (default \in Settable(l, default))' /\ (part \in Settable(l, default))'
        /\ Configured(l, default, c)'
    BY <1>1, <1>2, <1>6, <1>7
  <2>2. (machine \in Machines /\ l \in Leaves(machine) /\ group = GroupOn(machine))'
    BY <1>1 DEF GroupOn
  <2>3. QED
    BY <1>1, <2>1, <2>2 DEF Inv

\* What a file holds, and what the user edits, become settings of the control.
LEMMA LoadInv == \A node \in Nodes(l) : Inv /\ Load(node) => Inv'
<1> SUFFICES ASSUME NEW node \in Nodes(l), Inv, Load(node) PROVE Inv'
  OBVIOUS
<1>1. /\ start # "none" /\ part' = ProfilePart(part, XMLParser(default, node).loadFrom)
      /\ UNCHANGED <<machine, l, group, start, default, c>>
  BY DEF Load, control
<1>2. /\ machine \in Machines /\ l \in Leaves(machine)
      /\ Defaults(l, default) /\ default \in Settable(l, default) /\ part \in Settable(l, default)
  BY <1>1 DEF Inv
<1>3. node \in ParserNodes(l) \cup {Absent}
  BY <1>2, NodesAssumption
<1>4. Given(l, default, XMLParser(default, node).loadFrom)
  BY <1>2, <1>3, LoadOf
<1>5. part' \in Settable(l, default)
  BY <1>1, <1>2, <1>4, PartOf
<1>6. QED
  BY <1>1, <1>5 DEF Inv, GroupOn

\* An edit leaves settings of a profile.
LEMMA ChangeInv == Inv /\ Change => Inv'
<1> SUFFICES ASSUME Inv, Change PROVE Inv'
  OBVIOUS
<1>1. /\ start # "none" /\ \E item \in QMLItem(QMLItem(part, part).take, part).edits : part' = ProfilePart(part, item)
      /\ UNCHANGED <<machine, l, group, start, default, c>>
  BY DEF Change, control
<1>2. /\ machine \in Machines /\ l \in Leaves(machine)
      /\ Defaults(l, default) /\ default \in Settable(l, default) /\ part \in Settable(l, default)
  BY <1>1 DEF Inv
<1>3. PICK item \in QMLItem(QMLItem(part, part).take, part).edits : part' = ProfilePart(part, item)
  BY <1>1
<1>4. Given(l, default, item)
  BY <1>2, EditOf
<1>5. part' \in Settable(l, default)
  BY <1>2, <1>3, <1>4, PartOf
<1>6. QED
  BY <1>1, <1>5 DEF Inv, GroupOn

\* The controls take in what the profile holds.
LEMMA ApplyInv == \A selected \in BOOLEAN : Inv /\ Apply(selected) => Inv'
<1> SUFFICES ASSUME NEW selected \in BOOLEAN, Inv, Apply(selected) PROVE Inv'
  OBVIOUS
<1>1. start # "none" /\ c' = Import(c, part) /\ UNCHANGED <<machine, l, group, start, default, part>>
  BY DEF Apply, settings
<1>2. /\ machine \in Machines /\ l \in Leaves(machine) /\ Defaults(l, default)
      /\ part \in Settable(l, default) /\ Configured(l, default, c)
  BY <1>1 DEF Inv
<1>3. Given(l, default, part)
  BY <1>2, SettableGiven
<1>4. Configured(l, default, c')
  BY <1>1, <1>2, <1>3, ImportOf
<1>5. QED
  BY <1>1, <1>4 DEF Inv, GroupOn

\* A pass leaves the settings inside their bounds.
LEMMA PassInv == Inv /\ Pass => Inv'
<1> SUFFICES ASSUME Inv, Pass PROVE Inv'
  OBVIOUS
<1>1. start # "none" /\ UNCHANGED <<machine, l, group, start, default, part>>
  BY DEF Pass, settings
<1>2. machine \in Machines /\ l \in Leaves(machine) /\ Configured(l, default, c)
  BY <1>1 DEF Inv
<1>3. l.kind \in Kinds
  BY <1>2, FoundOf
<1>4. \A x \in AfterClean : Configured(l, default, x.c)
  <2>1. Configured(l, default, ControlAt(c, hw).cleaned)
    BY <1>2, <1>3, MarksOf
  <2>2. QED
    BY <1>2, <2>1 DEF AfterClean
<1>5. \A x : Configured(l, default, x.c) => \A passed \in AfterSync(x, hw) : Configured(l, default, passed.c)
  <2>1. SUFFICES ASSUME NEW x, Configured(l, default, x.c), NEW passed \in AfterSync(x, hw)
                 PROVE Configured(l, default, passed.c)
    OBVIOUS
  <2>2. Configured(l, default, ControlAt(x.c, hw).synced)
    BY <1>3, <2>1, MarksOf
  <2> DEFINE methods == ControlAt(x.c, hw)
             writes == x.writes \o methods.sync
  <2>3. passed = IF active THEN [c |-> methods.synced, writes |-> writes] ELSE x
    BY DEF AfterSync
  <2> HIDE DEF methods, writes
  <2>4. passed.c = IF active THEN methods.synced ELSE x.c
    BY <2>3
  <2>5. QED
    BY <2>1, <2>2, <2>4 DEF methods
<1>6. PICK passed \in AfterPass : c' = passed.c
  BY DEF Pass
<1>7. Configured(l, default, c')
  BY <1>4, <1>5, <1>6 DEF AfterPass
<1>8. QED
  BY <1>1, <1>7 DEF Inv, GroupOn

\* The settings of the control, its profile and its defaults stay inside their bounds, on
\* any machine and whatever files are loaded.
THEOREM InvHolds == Spec => []Inv
<1>1. Inv /\ [Next]_vars => Inv'
  <2> SUFFICES ASSUME Inv, [Next]_vars PROVE Inv'
    OBVIOUS
  <2>1. CASE Start
    BY <2>1, StartInv
  <2>2. ASSUME NEW node \in Nodes(l), Load(node) PROVE Inv'
    BY <2>2, LoadInv
  <2>3. CASE Change
    BY <2>3, ChangeInv
  <2>4. ASSUME NEW selected \in BOOLEAN, Apply(selected) PROVE Inv'
    BY <2>4, ApplyInv
  <2>5. CASE Pass
    BY <2>5, PassInv
  <2>6. CASE Drift
    BY <2>6 DEF Drift, Inv, GroupOn, control, settings
  <2>7. CASE UNCHANGED vars
    BY <2>7 DEF vars, control, settings, Inv, GroupOn, Untouched
  <2>8. QED
    BY <2>1, <2>2, <2>3, <2>4, <2>5, <2>6, <2>7 DEF Next
<1>2. QED
  BY <1>1, InitInv, PTL DEF Spec

\* Whatever a file holds and however the program started, the settings of a profile and of a
\* control are ones the hardware has.
THEOREM WithinLimitsHolds == Spec => []WithinLimits
<1>1. Inv => WithinLimits
  <2> SUFFICES ASSUME Inv, start # "none" PROVE Legal(part) /\ Legal(ControlAt(c, hw).export)
    BY DEF WithinLimits
  <2>1. /\ machine \in Machines /\ l \in Leaves(machine) /\ Defaults(l, default)
        /\ default \in Settable(l, default) /\ part \in Settable(l, default) /\ Configured(l, default, c)
    BY DEF Inv
  <2>2. l.kind \in Kinds
    BY <2>1, FoundOf
  <2>3. ControlAt(c, hw).export \in Settable(l, default)
    BY <2>1, <2>2, ExportOf, ExportedIn
  <2>4. QED
    BY <2>1, <2>3, LegalOf
<1>2. QED
  BY <1>1, InvHolds, PTL

(***************************************************************************)
(* The defaults                                                            *)
(***************************************************************************)

\* What the settings are that a control reads from the files.
ReadFrom(leaf, files) ==
  CASE leaf.kind = "PMPowerCap" -> [value |-> Clamp(files["power1_cap"], leaf.min, leaf.max)]
    [] leaf.kind = "PMVoltOffset" -> [value |-> ParseOverdriveVoltOffset(files[Table])]
    [] leaf.kind = "PMFreqRange" ->
         LET clks == Picked(ParseOverdriveClks(leaf.name, files[Table]), LAMBDA clk : clk[1] \notin leaf.disabled)
         IN  [states |-> [index \in Indices(clks) |-> Clamp(Entry(clks, index, Absent)[2], leaf.min, leaf.max)]]
    [] leaf.kind = "PMFreqVolt" ->
         LET entries == ParseOverdriveClksVolts(leaf.name, files[Table])
             values == [index \in Indices(entries) |-> Tail(Entry(entries, index, Absent))]
         IN  [voltMode |-> "auto", states |-> [index \in DOMAIN values |-> ClampState(leaf, values[index])],
              active |-> leaf.new.dpm.active]
    [] leaf.kind = "PMVoltCurve" -> [mode |-> "auto", points |-> ParseOverdriveVoltCurve(files[Table])]
    [] OTHER -> Exported(leaf, leaf.new)

\* The settings that are read do not depend on what was remembered before.
LEMMA ReadOf ==
  ASSUME NEW m \in Machines, l \in Leaves(m), NEW read, NEW before, Remembered(l, before) \/ before = l.new
  PROVE Exported(l, Methods(l, before, read).init) = ReadFrom(l, read)
<1> DEFINE x == Methods(l, before, read).init
           methods == Leaf(l, before, read)
<1>0. l.kind \in Kinds /\ Found(m, l)
  BY FoundOf
<1>1. "init" \in DOMAIN methods => x = methods.init
  BY OverOf DEF Methods
<1>2. CASE l.kind \in {"PMAuto", "PMFixed", "PMPowerState", "PMDynamicFreq", "PMFixedFreq", "PMFreqOd",
                       "PMPowerProfile", "FanAuto", "FanFixed", "FanCurve", "CPUFreq"}
  <2>1. "init" \in DOMAIN methods /\ methods.init = before
    <3>1. CASE l.kind \in {"PMAuto", "PMFixed"}
      BY <3>1 DEF Leaf, PMAuto, PMAutoLegacy, PMAutoR600, PMFixed, PMFixedLegacy, PMFixedR600
    <3>2. CASE l.kind \in {"PMPowerState", "PMDynamicFreq", "PMFixedFreq", "PMFreqOd"}
      BY <3>2 DEF Leaf, PMPowerState, PMDynamicFreq, PMFixedFreq, PMFreqOd
    <3>3. CASE l.kind \in {"PMPowerProfile", "CPUFreq"}
      BY <3>3 DEF Leaf, PMPowerProfile, CPUFreq
    <3>4. CASE l.kind \in {"FanAuto", "FanFixed", "FanCurve"}
      BY <3>4 DEF Leaf, FanAuto, FanFixed, FanCurve, FanCurveAt
    <3>5. QED
      BY <1>2, <3>1, <3>2, <3>3, <3>4
  <2>2. before = l.new
    BY <1>2 DEF Remembered
  <2> HIDE DEF methods
  <2>3. x = l.new
    BY <1>1, <2>1, <2>2
  <2>4. ReadFrom(l, read) = Exported(l, l.new)
    BY <1>2 DEF ReadFrom
  <2> HIDE DEF x
  <2>5. Exported(l, x) = ReadFrom(l, read)
    BY <2>3, <2>4
  <2>6. QED
    BY <2>5 DEF x
<1>3. CASE l.kind = "PMPowerCap"
  <2> DEFINE value == Clamp(read["power1_cap"], l.min, l.max)
             new == l.new
  <2>1. "init" \in DOMAIN methods /\ methods.init = [before EXCEPT !.value = value]
    BY <1>3 DEF Leaf, PMPowerCap
  <2>2. before = new \/ before = [new EXCEPT !.preInit = before.preInit]
    BY <1>3 DEF Remembered
  <2>3. new \in [value : Int, preInit : Int]
    BY <1>0, <1>3 DEF Found
  <2> HIDE DEF methods, value, new
  <2>4. x = [before EXCEPT !.value = value]
    BY <1>1, <2>1
  <2> HIDE DEF x
  <2>5. x.value = value
    BY <2>2, <2>3, <2>4
  <2>6. Exported(l, x) = [value |-> value]
    BY <1>3, <2>5 DEF Exported
  <2>7. QED
    BY <1>3, <2>6 DEF ReadFrom, x, value
<1>4. CASE l.kind = "PMVoltOffset"
  <2> DEFINE value == ParseOverdriveVoltOffset(read[Table])
             new == l.new
  <2>1. "init" \in DOMAIN methods /\ methods.init = [before EXCEPT !.value = value]
    BY <1>4 DEF Leaf, PMVoltOffset
  <2>2. before = new \/ before = [new EXCEPT !.preInit = before.preInit]
    BY <1>4 DEF Remembered
  <2>3. new = [value |-> 0, preInit |-> 0]
    BY <1>0, <1>4 DEF Found
  <2> HIDE DEF methods, value, new
  <2>4. x = [before EXCEPT !.value = value]
    BY <1>1, <2>1
  <2> HIDE DEF x
  <2>5. x.value = value
    BY <2>2, <2>3, <2>4
  <2>6. Exported(l, x) = [value |-> value]
    BY <1>4, <2>5 DEF Exported
  <2>7. QED
    BY <1>4, <2>6 DEF ReadFrom, x, value
<1>5. CASE l.kind = "PMFreqRange"
  <2> DEFINE clks == Picked(ParseOverdriveClks(l.name, read[Table]), LAMBDA clk : clk[1] \notin l.disabled)
             states == [index \in Indices(clks) |-> Clamp(Entry(clks, index, Absent)[2], l.min, l.max)]
             new == l.new
  <2>1. "init" \in DOMAIN methods /\ methods.init = [before EXCEPT !.states = states]
    BY <1>5 DEF Leaf, PMFreqRange
  <2>2. before = new \/ before = [new EXCEPT !.preInit = before.preInit]
    BY <1>5 DEF Remembered
  <2>3. new = [states |-> <<>>, preInit |-> <<>>]
    BY <1>0, <1>5 DEF Found
  <2>8. ReadFrom(l, read) = [states |-> states]
    BY <1>5 DEF ReadFrom
  <2> HIDE DEF methods, states, new
  <2>4. x = [before EXCEPT !.states = states]
    BY <1>1, <2>1
  <2> HIDE DEF x
  <2>5. x.states = states
    BY <2>2, <2>3, <2>4
  <2>6. Exported(l, x) = [states |-> states]
    BY <1>5, <2>5 DEF Exported
  <2>7. QED
    BY <2>6, <2>8 DEF x
<1>6. CASE l.kind = "PMFreqVolt"
  <2> DEFINE entries == ParseOverdriveClksVolts(l.name, read[Table])
             values == [index \in Indices(entries) |-> Tail(Entry(entries, index, Absent))]
             voltages == [index \in DOMAIN values |-> values[index][2]]
             states == [index \in DOMAIN values |-> ClampState(l, values[index])]
             new == l.new
  <2>1. "init" \in DOMAIN methods /\ methods.init = [before EXCEPT !.initVoltages = voltages, !.states = states]
    BY <1>6 DEF Leaf, PMFreqVolt
  <2>2. \/ before = new
        \/ before = [new EXCEPT !.preInit = before.preInit, !.dpm = [new.dpm EXCEPT !.resync = FALSE]]
    BY <1>6 DEF Remembered
  <2>3. /\ new = [voltMode |-> "auto", states |-> <<>>, initVoltages |-> <<>>, preInit |-> <<>>, dpm |-> new.dpm]
        /\ \E states_, resync : new.dpm = [active |-> states_, resync |-> resync]
    BY <1>0, <1>6 DEF Found, Handlers
  <2>8. ReadFrom(l, read) = [voltMode |-> "auto", states |-> states, active |-> new.dpm.active]
    BY <1>6 DEF ReadFrom
  <2> HIDE DEF methods, states, voltages, new
  <2>4. x = [before EXCEPT !.initVoltages = voltages, !.states = states]
    BY <1>1, <2>1
  <2>9. before.voltMode = "auto" /\ before.dpm.active = new.dpm.active
        /\ DOMAIN before = {"voltMode", "states", "initVoltages", "preInit", "dpm"}
    <3>1. CASE before = new
      BY <2>3, <3>1
    <3>2. CASE before = [new EXCEPT !.preInit = before.preInit, !.dpm = [new.dpm EXCEPT !.resync = FALSE]]
      <4> DEFINE dpm == new.dpm
                 unsynced == [dpm EXCEPT !.resync = FALSE]
                 saved == before.preInit
      <4>1. unsynced.active = dpm.active
        BY <2>3
      <4>2. before = [new EXCEPT !.preInit = saved, !.dpm = unsynced]
        BY <3>2
      <4>3. new = [voltMode |-> "auto", states |-> <<>>, initVoltages |-> <<>>, preInit |-> <<>>, dpm |-> dpm]
        BY <2>3
      <4> HIDE DEF dpm, unsynced, saved
      <4>4. before = [voltMode |-> "auto", states |-> <<>>, initVoltages |-> <<>>, preInit |-> saved, dpm |-> unsynced]
        BY <4>2, <4>3
      <4>5. before.voltMode = "auto" /\ before.dpm = unsynced
            /\ DOMAIN before = {"voltMode", "states", "initVoltages", "preInit", "dpm"}
        BY <4>4
      <4>6. QED
        BY <4>1, <4>5 DEF dpm
    <3>3. QED
      BY <2>2, <3>1, <3>2
  <2> HIDE DEF x
  <2>5. x.voltMode = before.voltMode /\ x.dpm = before.dpm /\ x.states = states
    BY <2>4, <2>9
  <2>6. Exported(l, x) = [voltMode |-> "auto", states |-> states, active |-> new.dpm.active]
    BY <1>6, <2>5, <2>9 DEF Exported
  <2>7. QED
    BY <2>6, <2>8 DEF x
<1>7. CASE l.kind = "PMVoltCurve"
  <2> DEFINE points == ParseOverdriveVoltCurve(read[Table])
             new == l.new
  <2>1. "init" \in DOMAIN methods /\ methods.init = [before EXCEPT !.points = points, !.initPoints = points]
    BY <1>7 DEF Leaf, PMVoltCurve
  <2>2. before = new \/ before = [new EXCEPT !.preInit = before.preInit]
    BY <1>7 DEF Remembered
  <2>3. new = [mode |-> "auto", points |-> <<>>, initPoints |-> <<>>, preInit |-> <<>>]
    BY <1>0, <1>7 DEF Found
  <2> HIDE DEF methods, points, new
  <2>4. x = [before EXCEPT !.points = points, !.initPoints = points]
    BY <1>1, <2>1
  <2>9. before.mode = "auto" /\ DOMAIN before = {"mode", "points", "initPoints", "preInit"}
    BY <2>2, <2>3
  <2> HIDE DEF x
  <2>5. x.mode = "auto" /\ x.points = points
    BY <2>4, <2>9
  <2>6. Exported(l, x) = [mode |-> "auto", points |-> points]
    BY <1>7, <2>5 DEF Exported
  <2>7. QED
    BY <1>7, <2>6 DEF ReadFrom, x, points
<1>8. QED
  BY <1>0, <1>2, <1>3, <1>4, <1>5, <1>6, <1>7 DEF Kinds

\* With a helper that is on time the defaults are those of the hardware, whoever had changed its
\* settings before: the reset is executed before the settings are read.
THEOREM DefaultsAreFactoryHolds == Spec => DefaultsAreFactory
<1> DEFINE Factory_ == Methods(l, Methods(l, l.new, machine.files).init, machine.files).export
<1>1. Inv /\ Next => (start = "none" /\ start' = "onTime" => default' = Factory_)
  <2> SUFFICES ASSUME Inv, Next, start = "none", start' = "onTime" PROVE default' = Factory_
    OBVIOUS
  <2>1. Start
    BY DEF Next, Load, Change, Apply, Pass, Drift
  <2>2. /\ machine \in Machines /\ l \in Leaves(machine) /\ group = GroupOn(machine) /\ Untouched
    BY DEF Inv
  <2>3. PICK before, read :
          /\ before = Methods(l, l.new, hw).preInit[1]
          /\ c' = Methods(l, before, read).init
          /\ default' = Exported(l, c') /\ part' = default'
          /\ start' = "late" => read = hw
          /\ start' = "onTime" /\ InTable(l) => read[Table] = machine.files[Table]
          /\ start' = "onTime" /\ l.kind = "PMPowerCap" => read["power1_cap"] = machine.files["power1_cap"]
    BY <2>1, <2>2, Started
  <2>4. Remembered(l, before)
    BY <2>2, <2>3, PreOf
  <2>5. default' = ReadFrom(l, read)
    BY <2>2, <2>3, <2>4, ReadOf
  <2>6. Factory_ = ReadFrom(l, machine.files)
    <3>1. Exported(l, Methods(l, l.new, machine.files).init) = ReadFrom(l, machine.files)
      BY <2>2, ReadOf
    <3>2. l.kind \in Kinds
      BY <2>2, FoundOf
    <3>3. QED
      BY <3>1, <3>2, ExportOf
  <2>7. ReadFrom(l, read) = ReadFrom(l, machine.files)
    <3>1. CASE InTable(l)
      <4>1. read[Table] = machine.files[Table]
        BY <2>3, <3>1
      <4>2. QED
        BY <3>1, <4>1 DEF InTable, ReadFrom
    <3>2. CASE l.kind = "PMPowerCap"
      BY <2>3, <3>2 DEF ReadFrom
    <3>3. CASE ~InTable(l) /\ l.kind # "PMPowerCap"
      BY <3>3 DEF InTable, ReadFrom
    <3>4. QED
      BY <3>1, <3>2, <3>3
  <2> HIDE DEF Factory_
  <2>8. QED
    BY <2>5, <2>6, <2>7
<1>2. Inv /\ [Next]_vars => [start = "none" /\ start' = "onTime" => default' = Factory_]_vars
  BY <1>1
<1>3. QED
  BY <1>2, InvHolds, PTL DEF DefaultsAreFactory, Spec


(***************************************************************************)
(* The round trips                                                         *)
(***************************************************************************)

\* A curve in order is normalised to itself.
LEMMA InOrder ==
  ASSUME NEW m \in Machines, l \in Leaves(m), l.kind = "FanCurve", NEW points \in Curves(l)
  PROVE NormalizePoints(points, l.maxTemp) = points
<1>1. /\ l.maxTemp \in Nat \ {0} /\ points \in Seq(Int \X Int) /\ Len(points) >= 2
      /\ DOMAIN points = 1 .. Len(points)
      /\ points \in Seq((0 .. l.maxTemp) \X (0 .. 100))
  BY FoundOf, CurvesOf DEF Found
<1> DEFINE S == (0 .. l.maxTemp) \X (0 .. 100)
<1>2. \A k \in 1 .. Len(points) : points[k] \in S
  <2> HIDE DEF S
  <2>1. points \in Seq(S)
    BY <1>1 DEF S
  <2>2. QED
    BY <2>1
<1>3. \A i, k \in 1 .. Len(points) : i <= k => points[i][2] <= points[k][2]
  BY <1>1 DEF Curves
<1>4. QED
  BY <1>1, <1>2, <1>3, NormalizeOf

\* A part that is given its own settings keeps them.
LEMMA KeptOf ==
  ASSUME NEW m \in Machines, l \in Leaves(m), NEW d, Defaults(l, d), NEW p \in Settable(l, d)
  PROVE ProfilePart(p, p) = p
<1>0. l.kind \in Kinds /\ Found(m, l) /\ HasRanges(l)
  BY FoundOf, MachinesAssumption
<1>1. CASE l.kind \in {"PMAuto", "PMDynamicFreq", "FanAuto"}
  BY <1>1 DEF Settable, ProfilePart, PMAutoProfilePart, PMDynamicFreqProfilePart, FanAutoProfilePart
<1>2. CASE l.kind \in {"PMFixed", "PMPowerState", "PMPowerProfile", "CPUFreq"}
  BY <1>2 DEF Settable, ProfilePart, PMFixedProfilePart, PMPowerStateProfilePart, PMPowerProfileProfilePart,
              CPUFreqProfilePart, Known
<1>3. CASE l.kind \in {"PMFixedFreq"}
  BY <1>3 DEF Settable, ProfilePart, PMFixedFreqProfilePart, Known
<1>4. CASE l.kind = "PMFreqOd"
  BY <1>4 DEF Settable, ProfilePart, PMFreqOdProfilePart, Clamp, MaxOd
<1>5. CASE l.kind = "PMPowerCap"
  BY <1>5, <1>0 DEF Settable, ProfilePart, PMPowerCapProfilePart, Clamp, HasRanges, IsRange
<1>6. CASE l.kind = "PMVoltOffset"
  BY <1>6 DEF Settable, ProfilePart, PMVoltOffsetProfilePart, Clamp, MaxOffset
<1>7. CASE l.kind = "PMFreqRange"
  <2>1. p \in [states : [DOMAIN d.states -> l.min .. l.max]]
    BY <1>7 DEF Settable
  <2>2. ASSUME NEW index \in DOMAIN p.states PROVE Clamp(p.states[index], l.min, l.max) = p.states[index]
    BY <1>0, <1>7, <2>1 DEF Clamp, HasRanges, IsRange
  <2>3. ProfilePart(p, p) = [states |-> [index \in DOMAIN p.states |-> Clamp(p.states[index], l.min, l.max)]]
    BY <1>7 DEF ProfilePart, PMFreqRangeProfilePart
  <2>4. [index \in DOMAIN p.states |-> Clamp(p.states[index], l.min, l.max)] = p.states
    BY <2>1, <2>2
  <2>5. QED
    BY <2>1, <2>3, <2>4
<1>8. CASE l.kind = "PMFreqVolt"
  <2> DEFINE range == (l.min .. l.max) \X (l.voltMin .. l.voltMax)
             states == [index \in DOMAIN p.states |-> ClampState(l, p.states[index])]
  <2>1. /\ p = [voltMode |-> p.voltMode, states |-> p.states, active |-> p.active]
        /\ p.voltMode \in {"auto", "manual"} /\ p.states \in [DOMAIN d.states -> range]
        /\ p.active \in NonEmpty(l.dpmStates) /\ DOMAIN d.states = l.dpmStates
    BY <1>8 DEF Settable, Defaults, VoltModes
  <2>2. ASSUME NEW index \in DOMAIN p.states PROVE ClampState(l, p.states[index]) = p.states[index]
    BY <1>0, <1>8, <2>1 DEF ClampState, Clamp, HasRanges, IsRange
  <2> HIDE DEF range
  <2>3. states = p.states
    BY <2>1, <2>2
  <2>4. p.active \cap DOMAIN p.states = p.active /\ p.active # {}
    BY <2>1 DEF NonEmpty
  <2>5. Known(p.voltMode, {"auto", "manual"}, p.voltMode) = p.voltMode
    BY DEF Known
  <2>6. ProfilePart(p, p) = [voltMode |-> Known(p.voltMode, {"auto", "manual"}, p.voltMode), states |-> states,
                             active |-> IF p.active \cap DOMAIN p.states = {} THEN p.active
                                        ELSE p.active \cap DOMAIN p.states]
    BY <1>8 DEF ProfilePart, PMFreqVoltProfilePart
  <2> HIDE DEF states
  <2>7. QED
    BY <2>1, <2>3, <2>4, <2>5, <2>6
<1>9. CASE l.kind = "PMVoltCurve"
  <2> DEFINE points == [k \in DOMAIN p.points |-> ClampPoint(l, k, PointOf(p.points, k))]
  <2>1. /\ p = [mode |-> p.mode, points |-> p.points]
        /\ p.points \in VoltCurves(l, d) /\ DOMAIN d.points \subseteq DOMAIN l.ranges
    BY SMTT(40), <1>9 DEF Settable, Defaults
  <2>2. ASSUME NEW k \in DOMAIN p.points PROVE points[k] = p.points[k]
    <3>1. /\ p.points[k] \in Int \X Int /\ k \in DOMAIN l.ranges
          /\ \A n \in {1, 2} : p.points[k][n] \in l.ranges[k][n][1] .. l.ranges[k][n][2]
      BY <2>1 DEF VoltCurves
    <3>2. \A n \in {1, 2} : IsRange(l.ranges[k][n][1], l.ranges[k][n][2])
      BY <1>9, <1>0, <3>1 DEF HasRanges
    <3>3. QED
      BY <3>1, <3>2 DEF ClampPoint, Clamp, IsRange, PointOf
  <2>3. p.points = [k \in DOMAIN p.points |-> p.points[k]]
    BY <2>1 DEF VoltCurves
  <2>4. points = p.points
    BY <2>2, <2>3
  <2>5. Known(p.mode, {"auto", "manual"}, p.mode) = p.mode
    BY DEF Known
  <2>6. ProfilePart(p, p) = [mode |-> Known(p.mode, {"auto", "manual"}, p.mode), points |-> points]
    BY <1>9 DEF ProfilePart, PMVoltCurveProfilePart
  <2> HIDE DEF points
  <2>7. QED
    BY <2>1, <2>4, <2>5, <2>6
<1>10. CASE l.kind = "FanFixed"
  <2>1. p \in [value : 0 .. 100, fanStop : BOOLEAN, fanStartValue : 0 .. 100]
    BY <1>10 DEF Settable
  <2>2. Clamp(p.value, 0, 100) = p.value /\ Clamp(p.fanStartValue, 0, 100) = p.fanStartValue
    BY <2>1, ClampPercent
  <2>3. ProfilePart(p, p) =
          [value |-> Clamp(p.value, 0, 100), fanStop |-> p.fanStop, fanStartValue |-> Clamp(p.fanStartValue, 0, 100)]
    BY <1>10 DEF ProfilePart, FanFixedProfilePart
  <2>4. QED
    BY <2>1, <2>2, <2>3
<1>11. CASE l.kind = "FanCurve"
  <2>1. p \in [points : Curves(l), fanStop : BOOLEAN, fanStartValue : 0 .. 100]
    BY <1>11 DEF Settable
  <2>2. Clamp(p.fanStartValue, 0, 100) = p.fanStartValue
    BY <2>1, ClampPercent
  <2>3. NormalizePoints(p.points, l.maxTemp) = p.points
    BY <2>1, <1>11, InOrder
  <2>4. ProfilePart(p, p) = [points |-> NormalizePoints(p.points, l.maxTemp), fanStop |-> p.fanStop,
                             fanStartValue |-> Clamp(p.fanStartValue, 0, 100)]
    BY <1>11 DEF ProfilePart, FanCurveProfilePart
  <2>5. QED
    BY <2>1, <2>2, <2>3, <2>4
<1>12. QED
  BY <1>0, <1>1, <1>2, <1>3, <1>4, <1>5, <1>6, <1>7, <1>8, <1>9, <1>10, <1>11 DEF Kinds

\* The whole watts of a power cap and the whole degrees of a curve are settings too.
LEMMA WholeOf ==
  ASSUME NEW m \in Machines, l \in Leaves(m), NEW d, Defaults(l, d), NEW p \in Settable(l, d)
  PROVE /\ Whole(p) \in Settable(l, d)
        /\ l.kind \notin {"PMPowerCap", "FanCurve"} => Whole(p) = p
<1>0. HasRanges(l) /\ Found(m, l)
  BY FoundOf, MachinesAssumption
<1>1. CASE l.kind \notin {"PMPowerCap", "FanCurve"}
  BY <1>1 DEF Whole
<1>2. CASE l.kind = "PMPowerCap"
  <2>1. p.value \in Int /\ IsRange(l.min, l.max)
    BY <1>0, <1>2 DEF Settable, HasRanges, IsRange
  <2> DEFINE value == Watt * Watts(p.value)
  <2>4. value \in Int
    BY <2>1 DEF Watt, Watts
  <2> HIDE DEF value
  <2>2. Clamp(value, l.min, l.max) \in l.min .. l.max
    BY <2>1, <2>4, ClampOf DEF IsRange
  <2>3. QED
    BY <1>2, <2>2 DEF Whole, Settable, value
<1>3. CASE l.kind = "FanCurve"
  <2> DEFINE n == Len(p.points)
             f == [k \in 1 .. n |-> <<Degree * (p.points[k][1] \div Degree), p.points[k][2]>>]
  <2>1. p \in [points : Curves(l), fanStop : BOOLEAN, fanStartValue : 0 .. 100]
    BY <1>3 DEF Settable
  <2>2. /\ n \in Nat /\ n >= 2 /\ DOMAIN p.points = 1 .. n
        /\ \A k \in 1 .. n : p.points[k][1] \in 0 .. l.maxTemp /\ p.points[k][2] \in 0 .. 100
    BY ZenonT(60), <2>1, CurvesOf
  <2>3. \A i, k \in 1 .. n : i <= k => p.points[i][2] <= p.points[k][2]
    BY <2>1, <2>2 DEF Curves
  <2>4. l.maxTemp \in Nat
    BY <1>0, <1>3 DEF Found
  <2>5. Whole(p) = [p EXCEPT !.points = SubSeq(f, 1, n)]
    BY <1>3 DEF Whole, Sequence
  <2> DEFINE S == (0 .. l.maxTemp) \X (0 .. 100)
  <2>6. \A k \in 1 .. n : f[k] \in S /\ f[k][2] = p.points[k][2]
    <3>1. SUFFICES ASSUME NEW k \in 1 .. n PROVE f[k] \in S /\ f[k][2] = p.points[k][2]
      OBVIOUS
    <3> DEFINE x == p.points[k][1]
    <3>2. x \in 0 .. l.maxTemp
      BY <2>2
    <3> HIDE DEF x
    <3>3. Degree * (x \div Degree) \in 0 .. l.maxTemp
      BY <3>2, <2>4 DEF Degree
    <3>4. f[k] = <<Degree * (x \div Degree), p.points[k][2]>>
      BY DEF x
    <3>5. QED
      BY ZenonT(60), <3>3, <3>4, <2>2
  <2>7. DOMAIN f = 1 .. n
    OBVIOUS
  <2> HIDE DEF f, n, S
  <2>8. f \in Seq(S) /\ Len(f) = n /\ SubSeq(f, 1, n) = f
    <3>1. f = [k \in 1 .. n |-> f[k]]
      BY DEF f
    <3>2. QED
      BY <3>1, <2>2, <2>6
  <2>9. f \in Curves(l)
    BY <2>2, <2>3, <2>6, <2>7, <2>8 DEF Curves, S
  <2>10. Whole(p) = [points |-> f, fanStop |-> p.fanStop, fanStartValue |-> p.fanStartValue]
    BY <2>1, <2>5, <2>8
  <2>11. QED
    BY <1>3, <2>1, <2>9, <2>10 DEF Settable
<1>4. QED
  BY <1>1, <1>2, <1>3

\* A profile that is shown and accepted has the settings it had, or their whole watts.
LEMMA AcceptedOf ==
  ASSUME NEW m \in Machines, l \in Leaves(m), NEW d, Defaults(l, d), NEW p \in Settable(l, d)
  PROVE ProfilePart(p, QMLItem(p, p).take) \in {p, Whole(p)}
<1>0. l.kind \in Kinds
  BY FoundOf
<1>1. CASE l.kind \in {"PMAuto", "PMDynamicFreq", "FanAuto"}
  BY <1>1 DEF Settable, ProfilePart, PMAutoProfilePart, PMDynamicFreqProfilePart, FanAutoProfilePart
<1>2. CASE l.kind \in {"PMFixed", "PMPowerState", "PMPowerProfile"}
  <2>1. QMLItem(p, p).take = p
    BY <1>2 DEF Settable, QMLItem, PMFixedQMLItem, PMPowerStateQMLItem, PMPowerProfileQMLItem, ModeQMLItem
  <2>2. QED
    BY <2>1, KeptOf
<1>3. CASE l.kind = "CPUFreq"
  <2>1. QMLItem(p, p).take = p
    BY <1>3 DEF Settable, QMLItem, CPUFreqQMLItem
  <2>2. QED
    BY <2>1, KeptOf
<1>4. CASE l.kind = "PMPowerCap"
  <2>1. QMLItem(p, p).take = [value |-> Watt * Watts(p.value)]
    BY <1>4 DEF QMLItem, PMPowerCapQMLItem
  <2>2. Whole(p) = [value |-> Clamp(Watt * Watts(p.value), l.min, l.max)]
    BY <1>4 DEF Whole
  <2>3. ProfilePart(p, QMLItem(p, p).take) = [value |-> Clamp(Watt * Watts(p.value), l.min, l.max)]
    BY <1>4, <2>1 DEF ProfilePart, PMPowerCapProfilePart
  <2>4. QED
    BY <2>2, <2>3
<1>5. CASE l.kind \in {"PMFixedFreq", "PMFreqOd", "PMVoltOffset", "PMFreqRange", "PMFreqVolt", "PMVoltCurve",
                       "FanFixed", "FanCurve"}
  <2>1. QMLItem(p, p).take = p
    BY <1>5 DEF QMLItem, PMFixedFreqQMLItem, PMFreqOdQMLItem, PMVoltOffsetQMLItem, PMFreqRangeQMLItem,
                PMFreqVoltQMLItem, PMVoltCurveQMLItem, FanFixedQMLItem, FanCurveQMLItem
  <2>2. QED
    BY <2>1, KeptOf
<1>6. QED
  BY <1>0, <1>1, <1>2, <1>3, <1>4, <1>5 DEF Kinds

\* The node that is written last is the one that is read.
LEMMA OwnOf ==
  ASSUME NEW node, NEW nodes, node \in nodes, Absent \notin Versions(nodes)
  PROVE SavedNode(Own(node)) = node
<1>1. Own(node) \in Versions(nodes) /\ Own(node).legacy = Absent /\ Own(node).own = node
  BY DEF Own, Versions
<1>2. Own(node) # Absent
  BY <1>1
<1>3. QED
  BY <1>1, <1>2 DEF SavedNode

\* The entry of an index that is there is one with the index.
LEMMA EntryIs ==
  ASSUME NEW entries, NEW n \in Nat, Len(entries) = n, NEW index, NEW other,
         NEW i \in 1 .. n, entries[i][1] = index
  PROVE \E k \in 1 .. n : Entry(entries, index, other) = entries[k] /\ entries[k][1] = index
<1>1. \/ Entry(entries, index, other) = other /\ \A k \in 1 .. n : entries[k][1] # index
      \/ \E k \in 1 .. n : Entry(entries, index, other) = entries[k] /\ entries[k][1] = index
  BY EntryOf
<1>2. QED
  BY <1>1

\* The entries of a function are found in a list of them.
Finds(entries, f) == \A index \in DOMAIN f : \A other : Entry(entries, index, other) = f[index]

\* A list with an entry for each index finds each of them.
LEMMA FindsOf ==
  ASSUME NEW entries, NEW n \in Nat, Len(entries) = n, NEW f,
         \A k \in 1 .. n : entries[k] = f[entries[k][1]],
         \A index \in DOMAIN f : \E k \in 1 .. n : entries[k][1] = index
  PROVE Finds(entries, f)
<1>1. SUFFICES ASSUME NEW index \in DOMAIN f, NEW other PROVE Entry(entries, index, other) = f[index]
  BY DEF Finds
<1>2. PICK i \in 1 .. n : entries[i][1] = index
  OBVIOUS
<1>3. \E k \in 1 .. n : Entry(entries, index, other) = entries[k] /\ entries[k][1] = index
  BY <1>2, EntryIs
<1>4. QED
  BY <1>3

\* As many positions as there are.
LEMMA PositionsOf ==
  ASSUME NEW n \in Nat
  PROVE Cardinality(1 .. n) = n
<1>1. 1 \in Int /\ n \in Int
  OBVIOUS
<1>2. Cardinality(1 .. n) = IF 1 > n THEN 0 ELSE n - 1 + 1
  BY <1>1, FS_Interval
<1>3. QED
  BY <1>2

\* The states of a range are found in what was saved of them.
LEMMA RangeBack ==
  ASSUME NEW d, DOMAIN d.states \in SUBSET Int, IsFiniteSet(DOMAIN d.states),
         NEW s \in [states : [DOMAIN d.states -> Int]],
         Absent \notin Int, Absent \notin [states : Pairs], Absent \notin Pairs,
         Absent \notin Versions([states : Pairs \cup {Absent}])
  PROVE PMFreqRangeXMLParser(s, PMFreqRangeXMLParser(s, Absent, d).appendTo, d).loadFrom = s
<1> DEFINE D == DOMAIN d.states
           N == Cardinality(D)
           list == [k \in 1 .. N |-> <<Nth(D, k), s.states[Nth(D, k)]>>]
           saved == [states |-> list]
           parent == PMFreqRangeXMLParser(s, Absent, d).appendTo
           at == {i \in DOMAIN list : list[i][1] \in D /\ list[i][2] # Absent}
           known == [k \in 1 .. Cardinality(at) |-> list[Nth(at, k)]]
           loaded == [index \in D |-> Entry(known, index, <<index, 0>>)[2]]
<1>1. DOMAIN s.states = D /\ s = [states |-> s.states] /\ \A index \in D : s.states[index] \in Int
  OBVIOUS
<1>2. /\ N \in Nat
      /\ \A k \in 1 .. N : Nth(D, k) \in D
      /\ \A i \in D : \E k \in 1 .. N : Nth(D, k) = i
  BY NthOf
<1>3. parent = Own(saved)
  BY <1>1 DEF PMFreqRangeXMLParser, Listed
<1> HIDE DEF N
<1>4. /\ DOMAIN list = 1 .. N
      /\ \A k \in 1 .. N : list[k] = <<Nth(D, k), s.states[Nth(D, k)]>>
      /\ list \in Pairs
  <2>1. \A k \in 1 .. N : <<Nth(D, k), s.states[Nth(D, k)]>> \in Number \X Number
    BY <1>1, <1>2 DEF Number
  <2>2. list \in [1 .. N -> Number \X Number]
    BY <2>1
  <2>3. list \in Pairs
    BY <1>2, <2>2 DEF Pairs
  <2>4. QED
    BY <2>3
<1> HIDE DEF list
<1>5. \A k \in 1 .. N : list[k][1] \in D /\ list[k][2] = s.states[list[k][1]] /\ list[k][2] # Absent
                          /\ list[k] = <<list[k][1], s.states[list[k][1]]>>
  BY <1>1, <1>2, <1>4
<1>6. at = 1 .. N
  BY <1>4, <1>5
<1>7. Cardinality(1 .. N) = N
  <2>1. N \in Nat
    BY <1>2
  <2>2. QED
    BY <2>1, PositionsOf
<1>8. \A k \in 1 .. N : Nth(1 .. N, k) \in 1 .. N
  BY <1>2, <1>7, PickedOf
<1>9. \A i \in 1 .. N : \E k \in 1 .. N : Nth(1 .. N, k) = i
  <2> DEFINE all == 1 .. N
  <2>1. all \in SUBSET (1 .. N) /\ Cardinality(all) = N
    BY <1>7
  <2> HIDE DEF all
  <2>2. \A i \in all : \E k \in 1 .. N : Nth(all, k) = i
    BY <1>2, <2>1, PickedOf
  <2>3. QED
    BY <2>2 DEF all
<1>10. known = [k \in 1 .. N |-> list[Nth(1 .. N, k)]] /\ Len(known) = N
  <2> HIDE DEF at
  <2>1. known = [k \in 1 .. N |-> list[Nth(1 .. N, k)]]
    BY <1>6, <1>7
  <2> HIDE DEF known
  <2>2. QED
    BY <2>1, <1>2
<1> HIDE DEF known
<1> DEFINE f == [index \in D |-> <<index, s.states[index]>>]
<1>16. \A k \in 1 .. N : known[k] = f[known[k][1]]
  BY <1>5, <1>8, <1>10
<1>17. \A index \in D : \E k \in 1 .. N : known[k][1] = index
  <2>1. SUFFICES ASSUME NEW index \in D PROVE \E k \in 1 .. N : known[k][1] = index
    OBVIOUS
  <2>2. PICK i \in 1 .. N : list[i][1] = index
    BY <1>2, <1>4
  <2>3. PICK k \in 1 .. N : Nth(1 .. N, k) = i
    BY <1>9
  <2>4. QED
    BY <2>2, <2>3, <1>10
<1>18. Finds(known, f)
  <2>1. N \in Nat /\ Len(known) = N /\ DOMAIN f = D
    BY <1>2, <1>10
  <2> HIDE DEF f
  <2>2. QED
    BY <2>1, <1>16, <1>17, FindsOf
<1>11. ASSUME NEW index \in D PROVE Entry(known, index, <<index, 0>>)[2] = s.states[index]
  <2> DEFINE other == <<index, 0>>
  <2>1. index \in DOMAIN f /\ f[index] = <<index, s.states[index]>>
    OBVIOUS
  <2> HIDE DEF f, other
  <2>2. Entry(known, index, other) = f[index]
    BY <1>18, <2>1 DEF Finds
  <2>3. QED
    BY <2>1, <2>2 DEF other
<1>12. loaded = s.states
  BY <1>1, <1>11
<1>13. SavedNode(parent) = saved /\ saved # Absent /\ saved.states = list /\ list # Absent
  <2>1. saved \in [states : Pairs] /\ saved \in [states : Pairs \cup {Absent}]
    BY <1>4
  <2>2. saved # Absent /\ saved.states = list /\ list # Absent
    BY <2>1, <1>4
  <2> DEFINE nodes == [states : Pairs \cup {Absent}]
  <2> HIDE DEF saved, nodes
  <2>3. SavedNode(Own(saved)) = saved
    BY <2>1, OwnOf DEF nodes
  <2>4. QED
    BY <2>2, <2>3, <1>3
<1> HIDE DEF parent, saved
<1>14. PMFreqRangeXMLParser(s, parent, d).loadFrom = [states |-> loaded]
  <2> DEFINE node == SavedNode(parent)
             where == {i \in DOMAIN node.states : node.states[i][1] \in D /\ node.states[i][2] # Absent}
             picked == [k \in 1 .. Cardinality(where) |-> node.states[Nth(where, k)]]
             mixed(index) == {d.states[index]} \cup {picked[k][2] : k \in {j \in DOMAIN picked : picked[j][1] = index}}
             result == IF Len(picked) = Cardinality(D)
                       THEN [index \in D |-> Entry(picked, index, <<index, 0>>)[2]]
                       ELSE [index \in D |-> Min(mixed(index))]
  <2>1. PMFreqRangeXMLParser(s, parent, d).loadFrom =
          IF node = Absent THEN d ELSE IF node.states = Absent THEN d ELSE [states |-> result]
    BY DEF PMFreqRangeXMLParser, Picked
  <2>2. node = saved /\ node.states = list
    BY <1>13
  <2>3. picked = known
    BY <2>2 DEF known
  <2>4. Len(picked) = Cardinality(D)
    BY <2>3, <1>10 DEF N
  <2> HIDE DEF picked, node, mixed
  <2>5. result = loaded
    BY <2>3, <2>4
  <2> HIDE DEF result, loaded
  <2>6. QED
    BY <2>1, <2>2, <2>5, <1>13
<1>15. QED
  BY <1>1, <1>12, <1>14 DEF parent

\* Joining two pairs, and what is behind the first of them.
LEMMA FourOf ==
  \A a, b, x, y : <<a, b>> \o <<x, y>> = <<a, b, x, y>> /\ SubSeq(<<a, b, x, y>>, 3, 4) = <<x, y>>
<1> SUFFICES ASSUME NEW a, NEW b, NEW x, NEW y
             PROVE <<a, b>> \o <<x, y>> = <<a, b, x, y>> /\ SubSeq(<<a, b, x, y>>, 3, 4) = <<x, y>>
  OBVIOUS
<1> DEFINE S == {a, b, x, y}
           s == <<a, b>>
           t == <<x, y>>
           four == <<a, b, x, y>>
<1>1. s \in Seq(S) /\ t \in Seq(S) /\ four \in Seq(S) /\ Len(s) = 2 /\ Len(t) = 2 /\ Len(four) = 4
  OBVIOUS
<1>2. /\ s[1] = a /\ s[2] = b /\ t[1] = x /\ t[2] = y
      /\ four[1] = a /\ four[2] = b /\ four[3] = x /\ four[4] = y
  OBVIOUS
<1> HIDE DEF S, s, t, four
<1> DEFINE u == s \o t
           v == SubSeq(four, 3, 4)
<1>3. u \in Seq(S) /\ Len(u) = 4 /\ \A i \in 1 .. 4 : u[i] = IF i <= 2 THEN s[i] ELSE t[i - 2]
  <2>1. /\ u \in Seq(S) /\ Len(u) = Len(s) + Len(t)
        /\ \A i \in 1 .. Len(s) + Len(t) : u[i] = IF i <= Len(s) THEN s[i] ELSE t[i - Len(s)]
    BY <1>1, ConcatProperties
  <2> HIDE DEF u
  <2>2. Len(s) + Len(t) = 4
    BY <1>1
  <2>3. QED
    BY <2>1, <2>2, <1>1
<1>4. v \in Seq(S) /\ Len(v) = 2 /\ v[1] = four[3] /\ v[2] = four[4]
  <2>1. \A i \in 3 .. 4 : four[i] \in S
    <3>1. four[3] \in S /\ four[4] \in S
      BY DEF four, S
    <3>2. QED
      BY <3>1
  <2> DEFINE from == 3
             to == 4
  <2>2. from \in Int /\ to \in Int /\ \A i \in from .. to : four[i] \in S
    BY <2>1
  <2> HIDE DEF from, to
  <2>3. /\ SubSeq(four, from, to) \in Seq(S)
        /\ Len(SubSeq(four, from, to)) = IF from <= to THEN to - from + 1 ELSE 0
        /\ \A i \in 1 .. to - from + 1 : SubSeq(four, from, to)[i] = four[from + i - 1]
    BY <2>2, SubSeqProperties
  <2>4. /\ SubSeq(four, 3, 4) \in Seq(S) /\ Len(SubSeq(four, 3, 4)) = 2
        /\ \A i \in 1 .. 2 : SubSeq(four, 3, 4)[i] = four[i + 2]
    BY <2>3 DEF from, to
  <2>5. QED
    BY <2>4
<1> HIDE DEF u, v
<1>5. u = four
  <2>1. u[1] = s[1] /\ u[2] = s[2] /\ u[3] = t[1] /\ u[4] = t[2]
    BY <1>3
  <2>2. \A i \in 1 .. Len(u) : u[i] = four[i]
    BY <1>2, <1>3, <2>1
  <2>3. QED
    BY <1>1, <1>3, <2>2, SeqEqual
<1>6. v = t
  <2>1. \A i \in 1 .. Len(v) : v[i] = t[i]
    BY <1>2, <1>4
  <2>2. QED
    BY <1>1, <1>4, <2>1, SeqEqual
<1>7. QED
  BY <1>5, <1>6 DEF u, v, s, t, four

\* A list of elements is a sequence of them.
LEMMA ListOf ==
  ASSUME NEW n \in Nat, NEW T, NEW list, list = [k \in 1 .. n |-> list[k]], \A k \in 1 .. n : list[k] \in T
  PROVE list \in Seq(T)
<1>1. list \in [1 .. n -> T]
  OBVIOUS
<1>2. QED
  BY <1>1

\* The states of a clock, and which of them may be used, are found in what was saved of them.
LEMMA VoltsBack ==
  ASSUME NEW d, DOMAIN d.states \in SUBSET Int, IsFiniteSet(DOMAIN d.states),
         NEW s \in [voltMode : VoltModes, states : [DOMAIN d.states -> Int \X Int], active : SUBSET DOMAIN d.states],
         NEW W, VoltModes \subseteq W, Absent \notin VoltModes, Absent \notin Int, Absent \notin BOOLEAN,
         Absent \notin Quadruples,
         Absent \notin [voltMode : W, states : Quadruples \cup {Absent}],
         Absent \notin Versions([voltMode : W, states : Quadruples \cup {Absent}])
  PROVE PMFreqVoltXMLParser(s, PMFreqVoltXMLParser(s, Absent, d).appendTo, d).loadFrom = s
<1> DEFINE D == DOMAIN d.states
           N == Cardinality(D)
           four(index) == <<index, index \in s.active>> \o s.states[index]
           list == [k \in 1 .. N |-> four(Nth(D, k))]
           saved == [voltMode |-> s.voltMode, states |-> list]
           parent == PMFreqVoltXMLParser(s, Absent, d).appendTo
           f == [index \in D |-> four(index)]
<1>1. /\ DOMAIN s.states = D /\ s = [voltMode |-> s.voltMode, states |-> s.states, active |-> s.active]
      /\ \A index \in D : s.states[index] \in Int \X Int
      /\ s.active \in SUBSET D /\ s.voltMode \in VoltModes
  OBVIOUS
<1>2. /\ N \in Nat
      /\ \A k \in 1 .. N : Nth(D, k) \in D
      /\ \A i \in D : \E k \in 1 .. N : Nth(D, k) = i
  BY NthOf
<1>3. parent = Own(saved)
  BY <1>1 DEF PMFreqVoltXMLParser, Listed
<1>4. ASSUME NEW index \in D
      PROVE four(index) = <<index, index \in s.active, s.states[index][1], s.states[index][2]>>
  <2>1. s.states[index] \in Int \X Int
    BY <1>1
  <2> DEFINE clk == s.states[index][1]
             volt == s.states[index][2]
             state == s.states[index]
             on == index \in s.active
  <2>2. state = <<clk, volt>>
    BY <2>1
  <2> HIDE DEF clk, volt, state, on
  <2>3. <<index, on>> \o <<clk, volt>> = <<index, on, clk, volt>>
    BY FourOf
  <2>4. QED
    BY <2>2, <2>3 DEF clk, volt, state, on
<1> HIDE DEF N
<1>5. ASSUME NEW index \in D
      PROVE /\ f[index] = <<index, index \in s.active, s.states[index][1], s.states[index][2]>>
            /\ f[index] \in Number \X Flag \X Number \X Number
            /\ Absent \notin ToSet(f[index])
            /\ SubSeq(f[index], 3, 4) = s.states[index]
  <2> DEFINE clk == s.states[index][1]
             volt == s.states[index][2]
             on == index \in s.active
             x == <<index, on, clk, volt>>
  <2>1. s.states[index] = <<clk, volt>> /\ clk \in Int /\ volt \in Int /\ index \in Int /\ on \in BOOLEAN
    <3>1. s.states[index] \in Int \X Int
      BY <1>1
    <3>2. QED
      BY <3>1
  <2>2. f[index] = x
    BY <1>4
  <2> HIDE DEF clk, volt, on
  <2>3. x \in Number \X Flag \X Number \X Number
    BY <2>1 DEF Number, Flag
  <2>4. Absent \notin ToSet(x)
    <3>1. ToSet(x) = {index, on, clk, volt}
      BY DEF ToSet
    <3>2. QED
      BY <3>1, <2>1
  <2>5. SubSeq(x, 3, 4) = <<clk, volt>>
    BY FourOf
  <2> HIDE DEF f
  <2>6. QED
    BY <2>1, <2>2, <2>3, <2>4, <2>5 DEF clk, volt, on
<1>6. \A k \in 1 .. N : list[k] = f[Nth(D, k)]
  BY <1>2
<1>7. DOMAIN list = 1 .. N /\ DOMAIN f = D
  OBVIOUS
<1>8. list \in Quadruples
  <2> DEFINE T == Number \X Flag \X Number \X Number
  <2>1. list = [k \in 1 .. N |-> list[k]]
    OBVIOUS
  <2>2. \A k \in 1 .. N : list[k] \in T
    BY <1>2, <1>5, <1>6
  <2> HIDE DEF list, T
  <2>3. list \in Seq(T)
    <3>1. N \in Nat
      BY <1>2
    <3>2. QED
      BY <3>1, <2>1, <2>2, ListOf
  <2>4. QED
    BY <2>3 DEF Quadruples, T
<1>9. Len(list) = N /\ SubSeq(list, 1, N) = list
  BY <1>2
<1> HIDE DEF list, f
<1>10. \A k \in 1 .. N : list[k][1] \in D /\ Absent \notin ToSet(list[k]) /\ list[k] = f[list[k][1]]
                           /\ list[k][2] = (list[k][1] \in s.active)
  <2>1. SUFFICES ASSUME NEW k \in 1 .. N
                 PROVE list[k][1] \in D /\ Absent \notin ToSet(list[k]) /\ list[k] = f[list[k][1]]
                         /\ list[k][2] = (list[k][1] \in s.active)
    OBVIOUS
  <2> DEFINE index == Nth(D, k)
  <2>2. index \in D /\ list[k] = f[index]
    BY <1>2, <1>6
  <2> HIDE DEF index
  <2>3. f[index] = <<index, index \in s.active, s.states[index][1], s.states[index][2]>> /\ Absent \notin ToSet(f[index])
    BY <2>2, <1>5
  <2>4. f[index][1] = index /\ f[index][2] = (index \in s.active)
    BY <2>3
  <2>5. QED
    BY <2>2, <2>3, <2>4
<1>11. \A index \in D : \E k \in 1 .. N : list[k][1] = index
  <2>1. SUFFICES ASSUME NEW index \in D PROVE \E k \in 1 .. N : list[k][1] = index
    OBVIOUS
  <2>2. PICK k \in 1 .. N : Nth(D, k) = index
    BY <1>2
  <2>3. list[k] = f[index]
    BY <1>6, <2>2
  <2>4. f[index][1] = index
    BY <1>5
  <2>5. QED
    BY <2>3, <2>4
<1>12. Finds(list, f)
  <2>1. N \in Nat /\ Len(list) = N /\ \A k \in 1 .. N : list[k] = f[list[k][1]]
    BY <1>2, <1>9, <1>10
  <2>2. \A index \in DOMAIN f : \E k \in 1 .. N : list[k][1] = index
    BY <1>7, <1>11
  <2>3. QED
    BY <2>1, <2>2, FindsOf
<1>13. SavedNode(parent) = saved /\ saved # Absent /\ saved.states = list /\ list # Absent /\ saved.voltMode = s.voltMode
  <2> DEFINE nodes == [voltMode : W, states : Quadruples \cup {Absent}]
  <2>1. saved \in nodes
    BY <1>1, <1>8
  <2>2. saved # Absent /\ saved.states = list /\ list # Absent /\ saved.voltMode = s.voltMode
    BY <2>1, <1>8
  <2> HIDE DEF saved, nodes
  <2>3. SavedNode(Own(saved)) = saved
    BY <2>1, OwnOf DEF nodes
  <2>4. QED
    BY <2>2, <2>3, <1>3
<1> HIDE DEF parent, saved
<1> DEFINE states == [index \in D |-> SubSeq(Entry(list, index, <<index, FALSE, 0, 0>>), 3, 4)]
           on == {list[k][1] : k \in {j \in DOMAIN list : list[j][2]}}
<1>14. states = s.states
  <2>1. ASSUME NEW index \in D PROVE SubSeq(Entry(list, index, <<index, FALSE, 0, 0>>), 3, 4) = s.states[index]
    <3> DEFINE other == <<index, FALSE, 0, 0>>
    <3> HIDE DEF other
    <3>1. Entry(list, index, other) = f[index]
      BY <1>7, <1>12 DEF Finds
    <3>2. SubSeq(f[index], 3, 4) = s.states[index]
      BY <1>5
    <3>3. QED
      BY <3>1, <3>2 DEF other
  <2>2. s.states = [index \in D |-> s.states[index]]
    BY <1>1
  <2>3. QED
    BY <2>1, <2>2
<1>15. on = s.active
  <2>1. \A k \in 1 .. N : list[k][2] <=> list[k][1] \in s.active
    BY <1>10
  <2>2. on \subseteq s.active
    BY <1>7, <2>1
  <2>3. ASSUME NEW index \in s.active PROVE index \in on
    <3>1. PICK k \in 1 .. N : list[k][1] = index
      BY <1>1, <1>11
    <3>2. k \in DOMAIN list /\ list[k][2]
      BY <1>7, <2>1, <3>1
    <3>3. QED
      BY <3>1, <3>2
  <2>4. QED
    BY <2>2, <2>3
<1>16. PMFreqVoltXMLParser(s, parent, d).loadFrom =
         [voltMode |-> Attribute(saved, "voltMode", d.voltMode), states |-> states, active |-> on]
  <2> DEFINE node == SavedNode(parent)
             bad == {i \in 1 .. Len(node.states) : node.states[i][1] \notin D \/ Absent \in ToSet(node.states[i])}
             last == Min(bad \cup {Len(node.states) + 1}) - 1
             part1 == SubSeq(node.states, 1, last)
             old == [d EXCEPT !.voltMode = Attribute(node, "voltMode", @)]
             full == [voltMode |-> Attribute(node, "voltMode", d.voltMode),
                      states |-> [index \in D |-> SubSeq(Entry(part1, index, <<index, FALSE, 0, 0>>), 3, 4)],
                      active |-> {part1[k][1] : k \in {j \in DOMAIN part1 : part1[j][2]}}]
  <2>1. PMFreqVoltXMLParser(s, parent, d).loadFrom =
          IF node = Absent THEN d ELSE IF node.states = Absent \/ last # Cardinality(D) THEN old ELSE full
    BY DEF PMFreqVoltXMLParser, FirstFrom
  <2>2. node = saved /\ node.states = list
    BY <1>13
  <2>3. last = N
    <3>1. bad = {}
      BY <2>2, <1>9, <1>10
    <3>2. Len(node.states) = N
      BY <2>2, <1>9
    <3> HIDE DEF bad, node
    <3>3. bad \cup {Len(node.states) + 1} = {N + 1}
      BY <3>1, <3>2
    <3>4. Min({N + 1}) = N + 1
      BY <1>2 DEF Min
    <3> DEFINE all == bad \cup {Len(node.states) + 1}
    <3>6. all = {N + 1}
      BY <3>3
    <3> HIDE DEF all
    <3>7. Min(all) = N + 1
      BY <3>4, <3>6
    <3>8. last = Min(all) - 1
      BY DEF all
    <3> HIDE DEF last
    <3>5. QED
      BY <3>7, <3>8, <1>2
  <2> HIDE DEF last, node
  <2>4. part1 = list
    BY <2>2, <2>3, <1>9
  <2> HIDE DEF part1
  <2>5. full = [voltMode |-> Attribute(saved, "voltMode", d.voltMode), states |-> states, active |-> on]
    BY <2>2, <2>4
  <2> HIDE DEF full, old, states, on
  <2>6. QED
    BY <2>1, <2>2, <2>3, <2>5, <1>13 DEF N
<1>17. Attribute(saved, "voltMode", d.voltMode) = s.voltMode
  BY <1>1, <1>13 DEF Attribute
<1> HIDE DEF states, on
<1>18. QED
  BY <1>1, <1>14, <1>15, <1>16, <1>17 DEF parent

\* A voltage curve is what was saved of it.
LEMMA PointsBack ==
  ASSUME NEW d, NEW n \in Nat, DOMAIN d.points = 1 .. n, Len(d.points) = n,
         NEW s \in [mode : VoltModes, points : [1 .. n -> Int \X Int]],
         NEW W, VoltModes \subseteq W, Absent \notin VoltModes, Absent \notin Int, Absent \notin Pairs,
         Absent \notin [mode : W, points : Pairs \cup {Absent}],
         Absent \notin Versions([mode : W, points : Pairs \cup {Absent}])
  PROVE PMVoltCurveXMLParser(s, PMVoltCurveXMLParser(s, Absent, d).appendTo, d).loadFrom = s
<1> DEFINE list == s.points
           saved == [mode |-> s.mode, points |-> list]
           parent == PMVoltCurveXMLParser(s, Absent, d).appendTo
<1>1. s = [mode |-> s.mode, points |-> list] /\ s.mode \in VoltModes /\ list \in [1 .. n -> Int \X Int]
  OBVIOUS
<1>2. parent = Own(saved)
  BY DEF PMVoltCurveXMLParser
<1> HIDE DEF list
<1>3. ASSUME NEW k \in 1 .. n PROVE list[k] \in Number \X Number /\ Absent \notin ToSet(list[k])
  <2> DEFINE point == list[k]
  <2>1. point \in Int \X Int
    BY <1>1
  <2> HIDE DEF point
  <2>2. DOMAIN point = 1 .. 2 /\ point[1] \in Int /\ point[2] \in Int
    BY <2>1
  <2>3. ToSet(point) = {point[1], point[2]}
    BY <2>2 DEF ToSet
  <2>4. point \in Number \X Number
    BY <2>1 DEF Number
  <2>5. QED
    BY <2>2, <2>3, <2>4 DEF point
<1>4. list \in Pairs
  <2> DEFINE T == Number \X Number
  <2>1. list = [k \in 1 .. n |-> list[k]] /\ \A k \in 1 .. n : list[k] \in T
    BY <1>1, <1>3
  <2> HIDE DEF T
  <2>2. list \in Seq(T)
    BY <2>1, ListOf
  <2>3. QED
    BY <2>2 DEF Pairs, T
<1>5. Len(list) = n /\ SubSeq(list, 1, n) = list
  <2>1. list = [k \in 1 .. n |-> list[k]]
    BY <1>1
  <2> DEFINE T == Int \X Int
  <2>2. \A k \in 1 .. n : list[k] \in T
    BY <1>1
  <2> HIDE DEF T
  <2>3. list \in Seq(T)
    BY <2>1, <2>2, ListOf
  <2>4. Len(list) = n
    BY <2>1
  <2>5. QED
    BY <2>3, <2>4, SubSeqFull
<1>6. SavedNode(parent) = saved /\ saved # Absent /\ saved.points = list /\ list # Absent /\ saved.mode = s.mode
  <2> DEFINE nodes == [mode : W, points : Pairs \cup {Absent}]
  <2>1. saved \in nodes
    BY <1>1, <1>4
  <2>2. saved # Absent /\ saved.points = list /\ list # Absent /\ saved.mode = s.mode
    BY <2>1, <1>4
  <2> HIDE DEF saved, nodes
  <2>3. SavedNode(Own(saved)) = saved
    BY <2>1, OwnOf DEF nodes
  <2>4. QED
    BY <2>2, <2>3, <1>2
<1> HIDE DEF parent, saved
<1>7. PMVoltCurveXMLParser(s, parent, d).loadFrom = [mode |-> Attribute(saved, "mode", d.mode), points |-> list]
  <2> DEFINE node == SavedNode(parent)
             bad == {i \in 1 .. Len(node.points) : Absent \in ToSet(node.points[i])}
             last == Min(bad \cup {Len(node.points) + 1}) - 1
             new == SubSeq(node.points, 1, last)
             full == [mode |-> Attribute(node, "mode", d.mode),
                      points |-> IF node.points = Absent THEN d.points
                                 ELSE IF last # Len(d.points) THEN d.points
                                 ELSE SubSeq(node.points, 1, last)]
  <2>1. PMVoltCurveXMLParser(s, parent, d).loadFrom = IF node = Absent THEN d ELSE full
    BY DEF PMVoltCurveXMLParser, FirstFrom
  <2>2. node = saved /\ node.points = list
    BY <1>6
  <2>3. last = n
    <3>1. bad = {}
      BY <2>2, <1>5, <1>3
    <3>2. Len(node.points) = n
      BY <2>2, <1>5
    <3> HIDE DEF bad, node
    <3>3. bad \cup {Len(node.points) + 1} = {n + 1}
      BY <3>1, <3>2
    <3>4. Min({n + 1}) = n + 1
      BY DEF Min
    <3> DEFINE all == bad \cup {Len(node.points) + 1}
    <3>6. all = {n + 1}
      BY <3>3
    <3> HIDE DEF all
    <3>7. Min(all) = n + 1
      BY <3>4, <3>6
    <3>8. last = Min(all) - 1
      BY DEF all
    <3> HIDE DEF last
    <3>5. QED
      BY <3>7, <3>8
  <2> HIDE DEF last, node
  <2>4. new = list
    BY <2>2, <2>3, <1>5
  <2>5. full = [mode |-> Attribute(saved, "mode", d.mode), points |-> list]
    BY <2>2, <2>3, <2>4, <1>6
  <2> HIDE DEF full
  <2>6. QED
    BY <2>1, <2>2, <2>5, <1>6
<1>8. Attribute(saved, "mode", d.mode) = s.mode
  BY <1>1, <1>6 DEF Attribute
<1>9. QED
  BY <1>1, <1>7, <1>8 DEF parent

\* The curve of a fan is what was saved of it, in whole degrees.
LEMMA DegreesBack ==
  ASSUME NEW m \in Machines, l \in Leaves(m), l.kind = "FanCurve", NEW d, NEW s \in Settable(l, d)
  PROVE FanCurveXMLParser(s, FanCurveXMLParser(s, Absent, d).appendTo, d).loadFrom = Whole(s)
<1> DEFINE n == Len(s.points)
           saving == [k \in 1 .. n |-> <<s.points[k][1] \div Degree, s.points[k][2]>>]
           saved == [points |-> saving, fanStop |-> s.fanStop, fanStartValue |-> s.fanStartValue]
           node == FanCurveXMLParser(s, Absent, d).appendTo
           loading == [k \in 1 .. n |-> <<saving[k][1] * Degree, saving[k][2]>>]
           whole == [k \in 1 .. n |-> <<Degree * (s.points[k][1] \div Degree), s.points[k][2]>>]
<1>1. s \in [points : Curves(l), fanStop : BOOLEAN, fanStartValue : 0 .. 100]
  BY DEF Settable
<1>2. /\ n \in Nat /\ n >= 2 /\ DOMAIN s.points = 1 .. n
      /\ \A k \in 1 .. n : s.points[k][1] \in 0 .. l.maxTemp /\ s.points[k][2] \in 0 .. 100
  BY ZenonT(60), <1>1, CurvesOf
<1>3. /\ Absent \notin Int /\ Absent \notin Pairs /\ Absent \notin BOOLEAN
      /\ Absent \notin [points : Pairs \cup {Absent}, fanStop : Flag, fanStartValue : Number]
  BY AbsentAssumption DEF FileNodes
<1> HIDE DEF n
<1>4. \A k \in 1 .. n : saving[k] \in Int \X Int
  <2>1. SUFFICES ASSUME NEW k \in 1 .. n PROVE <<s.points[k][1] \div Degree, s.points[k][2]>> \in Int \X Int
    OBVIOUS
  <2> DEFINE x == s.points[k][1]
             y == s.points[k][2]
  <2>5. l.maxTemp \in Int
    <3>1. Found(m, l)
      BY FoundOf
    <3>2. QED
      BY <3>1 DEF Found
  <2>2. x \in Int /\ y \in Int
    <3>1. x \in 0 .. l.maxTemp /\ y \in 0 .. 100
      BY <1>2
    <3> HIDE DEF x, y
    <3>2. QED
      BY <3>1, <2>5
  <2> HIDE DEF x, y
  <2>3. <<x \div Degree, y>> \in Int \X Int
    BY <2>2 DEF Degree
  <2>4. QED
    BY <2>3 DEF x, y
<1>5. saving \in Seq(Int \X Int) /\ Len(saving) = n /\ SubSeq(saving, 1, n) = saving
  <2> DEFINE T == Int \X Int
  <2>1. saving = [k \in 1 .. n |-> saving[k]] /\ \A k \in 1 .. n : saving[k] \in T
    BY <1>4
  <2>2. Len(saving) = n
    BY <1>2
  <2> HIDE DEF T, saving
  <2>3. saving \in Seq(T)
    BY <1>2, <2>1, ListOf
  <2>4. QED
    BY <2>2, <2>3, SubSeqFull DEF T
<1>6. saving \in Pairs
  <2> DEFINE T == Number \X Number
  <2>1. saving = [k \in 1 .. n |-> saving[k]] /\ \A k \in 1 .. n : saving[k] \in T
    BY <1>4 DEF Number
  <2> HIDE DEF T, saving
  <2>2. saving \in Seq(T)
    BY <1>2, <2>1, ListOf
  <2>3. QED
    BY <2>2 DEF Pairs, T
<1>7. node = saved
  <2>1. node = [s EXCEPT !.points = SubSeq(saving, 1, n)]
    BY DEF FanCurveXMLParser, Sequence, n
  <2> HIDE DEF saving, node
  <2>2. QED
    BY <1>1, <1>5, <2>1
<1>8. /\ saved # Absent /\ saved.points = saving /\ saving # Absent
      /\ saved.fanStop = s.fanStop /\ s.fanStop # Absent
      /\ saved.fanStartValue = s.fanStartValue /\ s.fanStartValue # Absent
  <2> HIDE DEF saving
  <2>1. s.fanStop \in BOOLEAN /\ s.fanStartValue \in Int
    BY <1>1
  <2>2. saved \in [points : Pairs \cup {Absent}, fanStop : Flag, fanStartValue : Number]
    BY <1>6, <2>1 DEF Flag, Number
  <2>3. QED
    BY <1>3, <1>6, <2>1, <2>2
<1>9. \A k \in 1 .. n : saving[k][1] # Absent /\ saving[k][2] # Absent
  <2> HIDE DEF saving
  <2>1. QED
    BY <1>3, <1>4
<1>10. loading = whole
  <2>1. \A k \in 1 .. n : loading[k] = whole[k]
    BY <1>2 DEF Degree
  <2>2. QED
    BY <2>1
<1>11. FanCurveXMLParser(s, node, d).loadFrom =
         [points |-> SubSeq(loading, 1, n), fanStop |-> s.fanStop, fanStartValue |-> s.fanStartValue]
  <2> HIDE DEF node, saving
  <2> DEFINE points == node.points
             read == [k \in 1 .. Len(points) |-> <<points[k][1] * Degree, points[k][2]>>]
             bad == Len(points) < 2 \/ \E k \in DOMAIN points : Absent \in {points[k][1], points[k][2]}
             loaded == IF points = Absent THEN d.points ELSE IF bad THEN d.points ELSE SubSeq(read, 1, Len(points))
  <2>1. FanCurveXMLParser(s, node, d).loadFrom =
          [points |-> IF node = Absent THEN d.points ELSE loaded,
           fanStop |-> Attribute(node, "fanStop", d.fanStop),
           fanStartValue |-> Attribute(node, "fanStartValue", d.fanStartValue)]
    BY DEF FanCurveXMLParser, Sequence
  <2>2. points = saving /\ Len(points) = n /\ DOMAIN points = 1 .. n
    BY <1>5, <1>7, <1>8 DEF saving
  <2>3. ~bad
    BY <1>2, <1>9, <2>2
  <2>4. read = loading
    BY <2>2
  <2> HIDE DEF read, bad, points
  <2>5. loaded = SubSeq(loading, 1, n)
    BY <1>8, <2>2, <2>3, <2>4
  <2>6. Attribute(node, "fanStop", d.fanStop) = s.fanStop /\ Attribute(node, "fanStartValue", d.fanStartValue) = s.fanStartValue
    BY <1>7, <1>8 DEF Attribute
  <2> HIDE DEF loaded, saved
  <2>7. node # Absent
    BY <1>7, <1>8
  <2>8. QED
    BY <2>1, <2>5, <2>6, <2>7
<1>12. Whole(s) = [s EXCEPT !.points = SubSeq(whole, 1, n)]
  BY DEF Whole, Sequence, n
<1> HIDE DEF loading, whole, node
<1>13. Whole(s) = [points |-> SubSeq(whole, 1, n), fanStop |-> s.fanStop, fanStartValue |-> s.fanStartValue]
  BY <1>1, <1>12
<1>14. QED
  BY <1>10, <1>11, <1>13 DEF node

\* A profile that is saved and loaded has the settings it had, or their whole watts and degrees.
LEMMA LoadedOf ==
  ASSUME NEW m \in Machines, l \in Leaves(m), Defaults(l, default), default \in Settable(l, default),
         NEW p \in Settable(l, default)
  PROVE ProfilePart(p, XMLParser(p, XMLParser(p, Absent).appendTo).loadFrom) = Whole(p)
<1> DEFINE node == XMLParser(p, Absent).appendTo
           loaded == XMLParser(p, node).loadFrom
<1>0. /\ l.kind \in Kinds /\ Found(m, l) /\ HasRanges(l)
      /\ Absent \notin Int /\ Absent \notin BOOLEAN /\ Absent \notin STRING
      /\ Absent \notin Pairs /\ Absent \notin Quadruples
      /\ Words(l) \subseteq STRING /\ Absent \notin FileNodes(l) /\ Absent \notin ParserNodes(l)
  BY FoundOf, MachinesAssumption, AbsentAssumption
<1>1. CASE l.kind \in {"PMAuto", "PMDynamicFreq", "FanAuto"}
  BY <1>1 DEF Settable, ProfilePart, PMAutoProfilePart, PMDynamicFreqProfilePart, FanAutoProfilePart, Whole
<1>20. ASSUME l.kind \notin {"PMPowerCap", "FanCurve"}, loaded = p PROVE ProfilePart(p, loaded) = Whole(p)
  BY <1>20, KeptOf, WholeOf
<1>2. CASE l.kind \in {"PMFixed", "PMPowerState", "PMPowerProfile"}
  <2>1. p = [mode |-> p.mode] /\ p.mode \in STRING
    BY <1>0, <1>2 DEF Settable, Words
  <2>2. node = p
    <3>1. node = [mode |-> p.mode]
      BY <1>2 DEF XMLParser, PMFixedXMLParser, PMPowerStateXMLParser, PMPowerProfileXMLParser, ModeXMLParser
    <3>2. QED
      BY <2>1, <3>1
  <2> HIDE DEF node
  <2>3. node # Absent /\ node.mode # Absent
    <3>1. node \in [mode : Word]
      BY <2>1, <2>2 DEF Word
    <3>2. FileNodes(l) = [mode : Word]
      BY <1>2 DEF FileNodes
    <3>3. QED
      BY <1>0, <2>1, <2>2, <3>1, <3>2
  <2>4. loaded = [mode |-> Attribute(node, "mode", default.mode)]
    BY <1>2 DEF XMLParser, PMFixedXMLParser, PMPowerStateXMLParser, PMPowerProfileXMLParser, ModeXMLParser
  <2>5. loaded = p
    BY <2>1, <2>2, <2>3, <2>4 DEF Attribute
  <2>6. QED
    BY <1>2, <1>20, <2>5 DEF node
<1>3. CASE l.kind = "CPUFreq"
  <2>1. p = [scalingGovernor |-> p.scalingGovernor] /\ p.scalingGovernor \in STRING
    BY <1>0, <1>3 DEF Settable, Words
  <2>2. node = p
    <3>1. node = [scalingGovernor |-> p.scalingGovernor]
      BY <1>3 DEF XMLParser, CPUFreqXMLParser
    <3>2. QED
      BY <2>1, <3>1
  <2> HIDE DEF node
  <2>3. node # Absent /\ node.scalingGovernor # Absent
    <3>1. node \in [scalingGovernor : Word]
      BY <2>1, <2>2 DEF Word
    <3>2. FileNodes(l) = [scalingGovernor : Word]
      BY <1>3 DEF FileNodes
    <3>3. QED
      BY <1>0, <2>1, <2>2, <3>1, <3>2
  <2>4. loaded = [scalingGovernor |-> Attribute(node, "scalingGovernor", default.scalingGovernor)]
    BY <1>3 DEF XMLParser, CPUFreqXMLParser
  <2>5. loaded = p
    BY <2>1, <2>2, <2>3, <2>4 DEF Attribute
  <2>6. QED
    BY <1>3, <1>20, <2>5 DEF node
<1>4. CASE l.kind = "PMPowerCap"
  <2>1. p.value \in Int
    BY <1>0, <1>4 DEF Settable, HasRanges, IsRange
  <2> DEFINE watts == Watts(p.value)
  <2>2. watts \in Int
    BY <2>1 DEF Watts, Watt
  <2>3. node = [value |-> watts]
    BY <1>4 DEF XMLParser, PMPowerCapXMLParser
  <2>7. loaded = [value |-> Watt * Attribute(node, "value", Watts(default.value))]
    BY <1>4 DEF XMLParser, PMPowerCapXMLParser
  <2>8. Whole(p) = [value |-> Clamp(Watt * watts, l.min, l.max)]
    BY <1>4 DEF Whole
  <2> HIDE DEF watts, node
  <2>4. node # Absent /\ node.value = watts /\ watts # Absent
    <3>1. node \in [value : Number]
      BY <2>2, <2>3 DEF Number
    <3>2. FileNodes(l) = [value : Number]
      BY <1>4 DEF FileNodes
    <3>3. QED
      BY <1>0, <2>2, <2>3, <3>1, <3>2
  <2>5. loaded = [value |-> Watt * watts]
    BY <2>4, <2>7 DEF Attribute
  <2> HIDE DEF loaded
  <2>6. ProfilePart(p, loaded) = [value |-> Clamp(Watt * watts, l.min, l.max)]
    BY <1>4, <2>5 DEF ProfilePart, PMPowerCapProfilePart
  <2>9. QED
    BY <2>6, <2>8 DEF node, loaded
<1>5. CASE l.kind = "PMVoltOffset"
  <2>1. p = [value |-> p.value] /\ p.value \in Int
    BY <1>5 DEF Settable, MaxOffset
  <2>2. node = p
    <3>1. node = [value |-> p.value]
      BY <1>5, <2>1 DEF XMLParser, PMVoltOffsetXMLParser
    <3>2. QED
      BY <2>1, <3>1
  <2>4. loaded = [value |-> Attribute(node, "value", default.value)]
    BY <1>5 DEF XMLParser, PMVoltOffsetXMLParser
  <2> HIDE DEF node
  <2>3. node # Absent /\ node.value # Absent
    <3>1. node \in [value : Number]
      BY <2>1, <2>2 DEF Number
    <3>2. FileNodes(l) = [value : Number]
      BY <1>5 DEF FileNodes
    <3>3. QED
      BY <1>0, <2>1, <2>2, <3>1, <3>2
  <2>5. loaded = p
    BY <2>1, <2>2, <2>3, <2>4 DEF Attribute
  <2>6. QED
    BY <1>5, <1>20, <2>5 DEF node
<1>6. CASE l.kind = "PMFixedFreq"
  <2>1. p = [sclk |-> p.sclk, mclk |-> p.mclk] /\ p.sclk \in Int /\ p.mclk \in Int
    BY <1>0, <1>6 DEF Settable, Found
  <2>2. node = [sclkState |-> p.sclk, mclkState |-> p.mclk]
    BY <1>6 DEF XMLParser, PMFixedFreqXMLParser
  <2>4. loaded = [sclk |-> Attribute(node, "sclkState", default.sclk), mclk |-> Attribute(node, "mclkState", default.mclk)]
    BY <1>6 DEF XMLParser, PMFixedFreqXMLParser
  <2> HIDE DEF node
  <2>3. node # Absent /\ node.sclkState = p.sclk /\ node.mclkState = p.mclk /\ p.sclk # Absent /\ p.mclk # Absent
    <3>1. node \in [sclkState : Number, mclkState : Number]
      BY <2>1, <2>2 DEF Number
    <3>2. FileNodes(l) = [sclkState : Number, mclkState : Number]
      BY <1>6 DEF FileNodes
    <3>3. QED
      BY <1>0, <2>1, <2>2, <3>1, <3>2
  <2>5. loaded = p
    BY <2>1, <2>3, <2>4 DEF Attribute
  <2>6. QED
    BY <1>6, <1>20, <2>5 DEF node
<1>7. CASE l.kind = "PMFreqOd"
  <2>1. p = [sclkOd |-> p.sclkOd, mclkOd |-> p.mclkOd] /\ p.sclkOd \in Int /\ p.mclkOd \in Int
    BY <1>7 DEF Settable, MaxOd
  <2>2. node = p
    BY <1>7 DEF XMLParser, PMFreqOdXMLParser
  <2>4. loaded = [sclkOd |-> Attribute(node, "sclkOd", default.sclkOd), mclkOd |-> Attribute(node, "mclkOd", default.mclkOd)]
    BY <1>7 DEF XMLParser, PMFreqOdXMLParser
  <2> HIDE DEF node
  <2>3. node # Absent /\ p.sclkOd # Absent /\ p.mclkOd # Absent
    <3>1. node \in [sclkOd : Number, mclkOd : Number]
      BY <2>1, <2>2 DEF Number
    <3>2. FileNodes(l) = [sclkOd : Number, mclkOd : Number]
      BY <1>7 DEF FileNodes
    <3>3. QED
      BY <1>0, <2>1, <3>1, <3>2
  <2>5. loaded = p
    BY <2>1, <2>2, <2>3, <2>4 DEF Attribute
  <2>6. QED
    BY <1>7, <1>20, <2>5 DEF node
<1>8. CASE l.kind = "FanFixed"
  <2> DEFINE names == {"value", "fanStop", "fanStartValue"}
  <2>1. /\ p = [value |-> p.value, fanStop |-> p.fanStop, fanStartValue |-> p.fanStartValue]
        /\ p.value \in Int /\ p.fanStop \in BOOLEAN /\ p.fanStartValue \in Int
    BY <1>8 DEF Settable
  <2>2. node = p
    BY <1>8 DEF XMLParser, FanFixedXMLParser
  <2>4. loaded = [name \in names |-> Attribute(node, name, default[name])]
    BY <1>8 DEF XMLParser, FanFixedXMLParser
  <2> HIDE DEF node
  <2>3. node # Absent /\ p.value # Absent /\ p.fanStop # Absent /\ p.fanStartValue # Absent
    <3>1. node \in [value : Number, fanStop : Flag, fanStartValue : Number]
      BY <2>1, <2>2 DEF Number, Flag
    <3>2. FileNodes(l) = [value : Number, fanStop : Flag, fanStartValue : Number]
      BY <1>8 DEF FileNodes
    <3>3. QED
      BY <1>0, <2>1, <3>1, <3>2
  <2>7. \A name \in names : node[name] = p[name] /\ p[name] # Absent
    BY <2>2, <2>3
  <2>8. \A name \in names : Attribute(node, name, default[name]) = p[name]
    BY <2>3, <2>7 DEF Attribute
  <2>9. p = [name \in names |-> p[name]]
    BY <2>1
  <2>5. loaded = p
    BY <2>4, <2>8, <2>9
  <2>6. QED
    BY <1>8, <1>20, <2>5 DEF node
<1>9. CASE l.kind = "PMFreqRange"
  <2> DEFINE nodes == [states : Pairs \cup {Absent}]
  <2>1. FileNodes(l) = nodes /\ ParserNodes(l) = Versions(nodes)
    BY <1>9 DEF FileNodes, ParserNodes, Versioned
  <2>2. Absent \notin [states : Pairs]
    BY <1>0, <2>1
  <2>3. DOMAIN default.states \in SUBSET Int /\ IsFiniteSet(DOMAIN default.states)
    BY <1>9 DEF Defaults
  <2>4. p \in [states : [DOMAIN default.states -> Int]]
    <3>1. p \in [states : [DOMAIN default.states -> l.min .. l.max]] /\ l.min .. l.max \subseteq Int
      BY <1>0, <1>9 DEF Settable, HasRanges, IsRange
    <3>2. QED
      BY <3>1
  <2>5. PMFreqRangeXMLParser(p, PMFreqRangeXMLParser(p, Absent, default).appendTo, default).loadFrom = p
    BY <1>0, <2>1, <2>2, <2>3, <2>4, RangeBack
  <2>6. loaded = p
    BY <1>9, <2>5 DEF XMLParser
  <2>7. QED
    BY <1>9, <1>20, <2>6
<1>10. CASE l.kind = "PMFreqVolt"
  <2> DEFINE nodes == [voltMode : Word, states : Quadruples \cup {Absent}]
             range == (l.min .. l.max) \X (l.voltMin .. l.voltMax)
  <2>1. FileNodes(l) = nodes /\ ParserNodes(l) = Versions(nodes) /\ VoltModes \subseteq Word /\ Absent \notin VoltModes
    BY <1>0, <1>10 DEF FileNodes, ParserNodes, Versioned, Words, VoltModes, Word
  <2>2. DOMAIN default.states \in SUBSET Int /\ IsFiniteSet(DOMAIN default.states) /\ DOMAIN default.states = l.dpmStates
    BY <1>0, <1>10 DEF Defaults, Found
  <2>3. p \in [voltMode : VoltModes, states : [DOMAIN default.states -> Int \X Int], active : SUBSET DOMAIN default.states]
    <3>1. p \in [voltMode : VoltModes, states : [DOMAIN default.states -> range], active : NonEmpty(l.dpmStates)]
      BY <1>10 DEF Settable
    <3>2. range \subseteq Int \X Int
      BY <1>0, <1>10 DEF HasRanges, IsRange
    <3>3. NonEmpty(l.dpmStates) \subseteq SUBSET DOMAIN default.states
      BY <2>2 DEF NonEmpty
    <3> HIDE DEF range
    <3>4. QED
      BY <3>1, <3>2, <3>3
  <2>4. PMFreqVoltXMLParser(p, PMFreqVoltXMLParser(p, Absent, default).appendTo, default).loadFrom = p
    BY <1>0, <2>1, <2>2, <2>3, VoltsBack
  <2>5. loaded = p
    BY <1>10, <2>4 DEF XMLParser
  <2>6. QED
    BY <1>10, <1>20, <2>5
<1>11. CASE l.kind = "PMVoltCurve"
  <2> DEFINE nodes == [mode : Word, points : Pairs \cup {Absent}]
  <2>1. FileNodes(l) = nodes /\ ParserNodes(l) = Versions(nodes) /\ VoltModes \subseteq Word /\ Absent \notin VoltModes
    BY <1>0, <1>11 DEF FileNodes, ParserNodes, Versioned, Words, VoltModes, Word
  <2>2. PICK n \in Nat : DOMAIN default.points = 1 .. n
    BY <1>11 DEF Defaults
  <2>3. p \in [mode : VoltModes, points : [1 .. n -> Int \X Int]]
    BY <1>11, <2>2 DEF Settable, VoltCurves
  <2>7. Len(default.points) = n
    BY <1>11, <2>2 DEF Settable, VoltCurves
  <2>4. PMVoltCurveXMLParser(p, PMVoltCurveXMLParser(p, Absent, default).appendTo, default).loadFrom = p
    BY <1>0, <2>1, <2>2, <2>3, <2>7, PointsBack
  <2>5. loaded = p
    BY <1>11, <2>4 DEF XMLParser
  <2>6. QED
    BY <1>11, <1>20, <2>5
<1>12. CASE l.kind = "FanCurve"
  <2>1. FanCurveXMLParser(p, FanCurveXMLParser(p, Absent, default).appendTo, default).loadFrom = Whole(p)
    BY <1>12, DegreesBack
  <2>2. loaded = Whole(p)
    BY <1>12, <2>1 DEF XMLParser
  <2> HIDE DEF loaded
  <2>3. Whole(p) \in Settable(l, default)
    BY WholeOf
  <2>4. ProfilePart(Whole(p), Whole(p)) = Whole(p)
    BY <2>3, KeptOf
  <2>5. ProfilePart(p, loaded) = ProfilePart(Whole(p), Whole(p))
    BY <1>12, <2>2 DEF ProfilePart, FanCurveProfilePart
  <2>6. QED
    BY <2>4, <2>5 DEF loaded
<1>13. QED
  BY <1>0, <1>1, <1>2, <1>3, <1>4, <1>5, <1>6, <1>7, <1>8, <1>9, <1>10, <1>11, <1>12 DEF Kinds

\* The settings of a profile survive being saved and loaded, and being shown and accepted: whatever
\* the machine and the profile, the parsers, the items and the parts agree on them.
THEOREM RoundTripsHolds == Spec => []RoundTrips
<1>1. Inv => RoundTrips
  <2>1. SUFFICES ASSUME Inv, start # "none" PROVE RoundTrips
    BY DEF RoundTrips
  <2>2. /\ machine \in Machines /\ l \in Leaves(machine) /\ Defaults(l, default)
        /\ default \in Settable(l, default) /\ part \in Settable(l, default)
    BY <2>1 DEF Inv
  <2>3. ProfilePart(part, XMLParser(part, XMLParser(part, Absent).appendTo).loadFrom) = Whole(part)
    BY <2>2, LoadedOf
  <2>4. ProfilePart(part, QMLItem(part, part).take) \in {part, Whole(part)}
    BY <2>2, AcceptedOf
  <2>5. QED
    BY <2>3, <2>4 DEF RoundTrips
<1>2. QED
  BY <1>1, InvHolds, PTL


(***************************************************************************)
(* What the passes of a control that is not in the table do to the files   *)
(***************************************************************************)

\* Without the group the methods are the control's own.
LEMMA OwnMethods ==
  ASSUME ~InTable(l), NEW x, NEW files
  PROVE LET at == ControlAt(x, files)
            methods == Leaf(l, x, files)
        IN  /\ "sync" \in DOMAIN methods => at.sync = methods.sync
            /\ "clean" \in DOMAIN methods => at.clean = methods.clean
            /\ at.synced = IF "synced" \in DOMAIN methods THEN methods.synced ELSE x
            /\ at.cleaned = IF "cleaned" \in DOMAIN methods THEN methods.cleaned ELSE x
<1> DEFINE methods == Leaf(l, x, files)
           r == Over(methods, NoInit(x))
<1>1. ControlAt(x, files) = r
  BY DEF ControlAt, Methods, InGroup
<1> HIDE DEF methods
<1>2. /\ r.synced = IF "synced" \in DOMAIN methods THEN methods.synced ELSE x
      /\ r.cleaned = IF "cleaned" \in DOMAIN methods THEN methods.cleaned ELSE x
      /\ \A name \in {"init", "sync", "clean"} : name \in DOMAIN methods => r[name] = methods[name]
  BY DEF Over, NoInit
<1> HIDE DEF r
<1>3. QED
  BY <1>1, <1>2 DEF methods

\* A write to one of the many files that just hold what is written.
Plain(file) == file \notin DpmFiles \cup {Table, "pp_power_profile_mode", "power1_cap", "pwm1"}

\* Such a file holds what is written, and nothing else changes.
LEMMA PlainOf ==
  ASSUME NEW m, NEW s, NEW file, NEW value, Plain(file)
  PROVE Written(m, s, Write(file, value)) = <<[s[1] EXCEPT ![file] = value], s[2]>>
<1> DEFINE w == Write(file, value)
<1>1. w.file = file /\ w.value = value
  BY DEF Write
<1> HIDE DEF w
<1>2. Written(m, s, w) = <<[s[1] EXCEPT ![w.file] = w.value], s[2]>>
  BY <1>1, WrittenIs DEF Plain
<1>3. QED
  BY <1>1, <1>2 DEF w

\* A file has a value afterwards, and nothing else has changed.
Sets(s, after, file, value) ==
  /\ after[1][file] = value
  /\ \A other \in DOMAIN s[1] : other # file => after[1][other] = s[1][other]
  /\ DOMAIN after[1] = DOMAIN s[1]
  /\ after[2] = s[2]

\* A call with the writes that a file needs.
LEMMA DiffersOf ==
  ASSUME NEW m, NEW s, NEW file, file \in DOMAIN s[1], Plain(file), NEW value
  PROVE Sets(s, Executed(m, s, Differs(s[1], file, value)), file, value)
<1> DEFINE w == Write(file, value)
<1>1. CASE s[1][file] = value
  <2>1. Differs(s[1], file, value) = <<>>
    BY <1>1 DEF Differs
  <2>2. QED
    BY <1>1, <2>1, ExecutedNone DEF Sets
<1>2. CASE s[1][file] # value
  <2>1. Differs(s[1], file, value) = <<w>>
    BY <1>2 DEF Differs
  <2>2. Written(m, s, w) = <<[s[1] EXCEPT ![file] = value], s[2]>>
    BY PlainOf
  <2> HIDE DEF w
  <2>3. Executed(m, s, <<w>>) = Written(m, s, w)
    BY ExecutedOne
  <2>4. QED
    BY <2>1, <2>2, <2>3 DEF Sets
<1>3. QED
  BY <1>1, <1>2

\* A line that is marked, and the lines, are otherwise what they were.
Alike(lines, base) ==
  /\ DOMAIN lines = DOMAIN base
  /\ \A k \in DOMAIN base :
       /\ lines[k].t = base[k].t
       /\ base[k].t \in {"dpm", "mode"} => lines[k].index = base[k].index /\ "current" \in DOMAIN lines[k]

\* A list of lines is like itself.
LEMMA AlikeItself == \A base \in Seq(Lines) : Alike(base, base)
<1>1. SUFFICES ASSUME NEW base \in Seq(Lines), NEW k \in DOMAIN base, base[k].t \in {"dpm", "mode"}
               PROVE "current" \in DOMAIN base[k]
  BY DEF Alike
<1>2. SUFFICES ASSUME NEW line \in Lines, line.t \in {"dpm", "mode"} PROVE "current" \in DOMAIN line
  BY <1>1
<1>3. QED
  BY <1>2 DEF Lines

\* Marking another line as the current one leaves the list like it was.
LEMMA AlikeOf ==
  ASSUME NEW base, NEW lines, Alike(lines, base), NEW index
  PROVE /\ Alike(MarkedAs(lines, index), base)
        /\ \A k \in DOMAIN base : base[k].t \in {"dpm", "mode"} => MarkedAs(lines, index)[k].current = (base[k].index = index)
<1> DEFINE Marked(line) ==
     IF "current" \in DOMAIN line THEN [line EXCEPT !.current = (line.index = index)] ELSE line
<1>1. \A line : /\ Marked(line).t = line.t /\ Marked(line).index = line.index /\ DOMAIN Marked(line) = DOMAIN line
                /\ "current" \in DOMAIN line => Marked(line).current = (line.index = index)
  OBVIOUS
<1>2. DOMAIN MarkedAs(lines, index) = DOMAIN lines /\ \A k \in DOMAIN lines : MarkedAs(lines, index)[k] = Marked(lines[k])
  BY DEF MarkedAs
<1> HIDE DEF Marked
<1>3. QED
  BY <1>1, <1>2 DEF Alike

\* The files and the driver of a machine: any write leaves the lines of its lists, up to their marks.
Lists == DpmFiles \cup {"pp_power_profile_mode"}
ShapedFiles(m, files) ==
  /\ DOMAIN files = DOMAIN m.files
  /\ \A file \in Lists \cap DOMAIN m.files : Alike(files[file], m.files[file])
ShapedDriver(m, d) == {"table", "enabled"} \subseteq DOMAIN d /\ DOMAIN d.enabled = DpmFiles \cap DOMAIN m.files
Shaped(m, s) == ShapedFiles(m, s[1]) /\ ShapedDriver(m, s[2])

\* The machine starts in its shape.
LEMMA FactoryShaped == \A m \in Machines : Shaped(m, Factory(m))
<1> SUFFICES ASSUME NEW m \in Machines PROVE Shaped(m, Factory(m))
  OBVIOUS
<1>1. \A file \in Lists \cap DOMAIN m.files : m.files[file] \in Seq(Lines)
  BY MachinesAssumption DEF Typed, TableFiles, Lists
<1>2. ShapedFiles(m, m.files)
  BY <1>1, AlikeItself DEF ShapedFiles
<1>3. QED
  BY <1>2 DEF Factory, Shaped, ShapedDriver

\* A write keeps the shape.
LEMMA WrittenShaped ==
  ASSUME NEW m, NEW s, Shaped(m, s), NEW w
  PROVE Shaped(m, Written(m, s, w))
<1> DEFINE files == s[1]
           d == s[2]
           locked == Level \in DOMAIN files /\ files[Level] # "manual"
           next == Written(m, s, w)
           Put(value) == [files EXCEPT ![w.file] = value]
           Marked(index) == [files EXCEPT ![w.file] = MarkedAs(@, index)]
           Enabling(value) == [d EXCEPT !.enabled[w.file] = value]
<1>1. \/ next = s
      \/ w.file \notin Lists /\ \E value : next = <<Put(value), d>>
      \/ \E value : next = <<files, [d EXCEPT !.table = value]>>
      \/ w.file \in Lists /\ \E index : next = <<Marked(index), d>>
      \/ w.file \in Lists /\ \E index, value :
           next = <<Marked(index), Enabling(value)>>
      \/ w.file \in Lists /\ \E value : next = <<files, Enabling(value)>>
  <2>1. CASE w.file \in DpmFiles \cup {Table, "pp_power_profile_mode"} /\ locked
    BY <2>1, WrittenIs
  <2>2. CASE w.file = "pp_power_profile_mode" /\ ~locked
    BY <2>2, WrittenIs DEF Lists
  <2>3. CASE w.file \in DpmFiles /\ ~locked
    <3>1. next = <<IF ParseDPMCurrentStateIndex(files[w.file]) \in w.value THEN files
                   ELSE [files EXCEPT ![w.file] = MarkedAs(@, Min(w.value))],
                   [d EXCEPT !.enabled[w.file] = w.value]>>
      BY <2>3, WrittenIs
    <3> HIDE DEF next, files, d
    <3>2. QED
      BY <2>3, <3>1 DEF Lists
  <2>4. CASE w.file = Table /\ ~locked
    <3>1. Table \notin Lists
      BY DEF Table, DpmFiles, Lists
    <3>2. QED
      BY <2>4, <3>1, WrittenIs
  <2>5. CASE w.file \notin DpmFiles \cup {Table, "pp_power_profile_mode"}
    <3>1. CASE w.file = "power1_cap" /\ w.value = 0
      BY <2>5, <3>1, WrittenIs DEF Lists
    <3>2. CASE w.file = "pwm1" /\ files["pwm1_enable"] # 1
      BY <2>5, <3>2, WrittenIs
    <3>3. CASE ~(w.file = "power1_cap" /\ w.value = 0) /\ ~(w.file = "pwm1" /\ files["pwm1_enable"] # 1)
      BY <2>5, <3>3, WrittenIs DEF Lists
    <3>4. QED
      BY <3>1, <3>2, <3>3
  <2>6. QED
    BY <2>1, <2>2, <2>3, <2>4, <2>5
<1>2. ShapedFiles(m, files) /\ ShapedDriver(m, d)
  BY DEF Shaped
<1> HIDE DEF next, files, d
<1>3. \A value : w.file \notin Lists => ShapedFiles(m, Put(value))
  BY <1>2 DEF ShapedFiles
<1>4. \A index : ShapedFiles(m, Marked(index))
  <2>1. \A file \in Lists \cap DOMAIN m.files : \A index : Alike(MarkedAs(files[file], index), m.files[file])
    BY <1>2, AlikeOf DEF ShapedFiles
  <2>2. SUFFICES ASSUME NEW index PROVE ShapedFiles(m, Marked(index))
    OBVIOUS
  <2>3. QED
    BY <1>2, <1>3, <2>1 DEF ShapedFiles
<1>5. \A value : ShapedDriver(m, [d EXCEPT !.table = value])
  BY <1>2 DEF ShapedDriver
<1>6. \A value : ShapedDriver(m, Enabling(value))
  BY <1>2 DEF ShapedDriver
<1> HIDE DEF Put, Marked, Enabling
<1>7. ShapedFiles(m, next[1]) /\ ShapedDriver(m, next[2])
  <2>1. CASE next = s
    BY <1>2, <2>1 DEF files, d
  <2>2. CASE w.file \notin Lists /\ \E value : next = <<Put(value), d>>
    BY <1>2, <1>3, <2>2
  <2>3. CASE \E value : next = <<files, [d EXCEPT !.table = value]>>
    BY <1>2, <1>5, <2>3
  <2>4. CASE w.file \in Lists /\ \E index : next = <<Marked(index), d>>
    BY <1>2, <1>4, <2>4
  <2>5. CASE w.file \in Lists /\ \E index, value :
               next = <<Marked(index), Enabling(value)>>
    BY <1>4, <1>6, <2>5
  <2>6. CASE w.file \in Lists /\ \E value : next = <<files, Enabling(value)>>
    BY <1>2, <1>6, <2>6
  <2>7. QED
    BY <1>1, <2>1, <2>2, <2>3, <2>4, <2>5, <2>6
<1>8. QED
  BY <1>7 DEF Shaped, next

\* A call with two parts: the second starts where the first ends.
LEMMA ExecutedBoth ==
  ASSUME NEW T, NEW first \in Seq(T), NEW second \in Seq(T), NEW m, NEW s
  PROVE Executed(m, s, first \o second) = Executed(m, Executed(m, s, first), second)
<1> DEFINE writes == first \o second
           a == Len(first)
           b == Len(second)
<1>1. /\ a \in Nat /\ b \in Nat /\ Len(writes) = a + b
      /\ \A k \in 1 .. a : writes[k] = first[k]
      /\ \A k \in 1 .. b : writes[a + k] = second[k]
  OBVIOUS
<1> HIDE DEF writes, a, b
<1>0. Len(writes) \in Nat
  BY <1>1
<1>2. PICK r : /\ r[0] = s
               /\ \A k \in 1 .. Len(writes) : r[k] = Written(m, r[k - 1], writes[k])
               /\ Executed(m, s, writes) = r[Len(writes)]
  BY <1>0, Run
<1>3. PICK p : /\ p[0] = s
               /\ \A k \in 1 .. a : p[k] = Written(m, p[k - 1], first[k])
               /\ Executed(m, s, first) = p[a]
  <2>1. \E p : /\ p[0] = s
               /\ \A k \in 1 .. Len(first) : p[k] = Written(m, p[k - 1], first[k])
               /\ Executed(m, s, first) = p[Len(first)]
    BY Run
  <2>2. QED
    BY Zenon, <2>1 DEF a
<1>4. PICK q : /\ q[0] = p[a]
               /\ \A k \in 1 .. b : q[k] = Written(m, q[k - 1], second[k])
               /\ Executed(m, p[a], second) = q[b]
  <2>1. \E q : /\ q[0] = p[a]
               /\ \A k \in 1 .. Len(second) : q[k] = Written(m, q[k - 1], second[k])
               /\ Executed(m, p[a], second) = q[Len(second)]
    BY Run
  <2>2. QED
    BY Zenon, <2>1 DEF b
<1> DEFINE G == {n \in Nat : n <= a => r[n] = p[n]}
           H == {n \in Nat : n <= b => r[a + n] = q[n]}
<1>5. G = Nat
  <2>1. 0 \in G
    BY <1>2, <1>3
  <2>2. ASSUME NEW n \in G PROVE n + 1 \in G
    <3>1. SUFFICES ASSUME n + 1 <= a PROVE r[n + 1] = p[n + 1]
      OBVIOUS
    <3>2. n + 1 \in 1 .. a /\ n + 1 \in 1 .. Len(writes) /\ n + 1 - 1 = n /\ r[n] = p[n]
      BY <1>1, <3>1
    <3>3. r[n + 1] = Written(m, r[n], writes[n + 1]) /\ p[n + 1] = Written(m, p[n], first[n + 1])
      BY <1>2, <1>3, <3>2
    <3>4. QED
      BY <1>1, <3>2, <3>3
  <2>3. \A n \in G : n + 1 \in G
    BY <2>2
  <2> HIDE DEF G
  <2>4. G \in SUBSET Nat
    BY DEF G
  <2>5. QED
    BY <2>1, <2>3, <2>4, Induct
<1>6. r[a] = p[a]
  BY <1>1, <1>5
<1>7. H = Nat
  <2>1. 0 \in H
    BY <1>1, <1>4, <1>6
  <2>2. ASSUME NEW n \in H PROVE n + 1 \in H
    <3>1. SUFFICES ASSUME n + 1 <= b PROVE r[a + (n + 1)] = q[n + 1]
      OBVIOUS
    <3>2. n + 1 \in 1 .. b /\ a + (n + 1) \in 1 .. Len(writes) /\ n + 1 - 1 = n /\ (a + (n + 1)) - 1 = a + n
          /\ r[a + n] = q[n]
      BY SMTT(40), <1>1, <3>1
    <3>3. r[a + (n + 1)] = Written(m, r[a + n], writes[a + (n + 1)]) /\ q[n + 1] = Written(m, q[n], second[n + 1])
      BY <1>2, <1>4, <3>2
    <3>4. QED
      BY <1>1, <3>2, <3>3
  <2>3. \A n \in H : n + 1 \in H
    BY <2>2
  <2> HIDE DEF H
  <2>4. H \in SUBSET Nat
    BY DEF H
  <2>5. QED
    BY <2>1, <2>3, <2>4, Induct
<1>8. r[a + b] = q[b]
  BY <1>1, <1>7
<1>9. QED
  BY <1>1, <1>2, <1>3, <1>4, <1>8 DEF writes

\* The power profile that is in use can be told, and so can the states of the DPM; only states that
\* there are can be enabled.
Lively(m, leaf, s) ==
  /\ Shaped(m, s)
  /\ leaf.kind = "PMPowerProfile" => ParsePowerProfileModeCurrentModeIndex(s[1]["pp_power_profile_mode"]) # Absent
  /\ leaf.kind = "PMFixedFreq" =>
       \A file \in DpmFiles :
         ParseDPMCurrentStateIndex(s[1][file]) # Absent /\ s[2].enabled[file] \subseteq DPMStates(m, file)

\* The writes of a control keep it so.
Harmless(m, leaf, w) ==
  /\ leaf.kind = "PMPowerProfile" /\ w.file = "pp_power_profile_mode" =>
       \E mode \in leaf.modes : w.value = leaf.index[mode]
  /\ leaf.kind = "PMFixedFreq" /\ w.file \in DpmFiles => w.value \in NonEmpty(DPMStates(m, w.file))

\* The first line that is marked has the index that is marked.
LEMMA CurrentOf ==
  ASSUME NEW base \in Seq(Lines), NEW lines, Alike(lines, base), NEW index, NEW t \in {"dpm", "mode"},
         \E k \in DOMAIN base : base[k].t = t /\ base[k].index = index
  PROVE /\ t = "dpm" => ParseDPMCurrentStateIndex(MarkedAs(lines, index)) = index
        /\ t = "mode" => ParsePowerProfileModeCurrentModeIndex(MarkedAs(lines, index)) = index
<1> DEFINE marked == MarkedAs(lines, index)
           n == Len(base)
           at == {k \in 1 .. n : marked[k].t = t /\ marked[k].current}
<1>1. Alike(marked, base) /\ \A k \in DOMAIN base : base[k].t \in {"dpm", "mode"} => marked[k].current = (base[k].index = index)
  BY AlikeOf
<1> HIDE DEF marked
<1>2. n \in Nat /\ DOMAIN base = 1 .. n /\ DOMAIN marked = 1 .. n
  BY <1>1 DEF Alike
<1>3. Len(marked) = n
  BY <1>1, <1>2
<1> DEFINE first == Min(at \cup {n + 1})
<1>4. /\ t = "dpm" => ParseDPMCurrentStateIndex(marked) = IF first > n THEN Absent ELSE marked[first].index
      /\ t = "mode" => ParsePowerProfileModeCurrentModeIndex(marked) = IF first > n THEN Absent ELSE marked[first].index
  BY <1>3 DEF FirstFrom, ParseDPMCurrentStateIndex, ParsePowerProfileModeCurrentModeIndex
<1>5. \A k \in 1 .. n : k \in at <=> base[k].t = t /\ base[k].index = index
  BY <1>1, <1>2 DEF Alike
<1>6. \A k \in at : marked[k].index = index
  BY <1>1, <1>2, <1>5 DEF Alike
<1>7. at # {} /\ at \in SUBSET (1 .. n)
  BY <1>2, <1>5
<1> HIDE DEF at, n
<1>8. first \in at
  <2>1. 1 \in Int /\ n \in Nat
    BY <1>2
  <2>2. QED
    BY <1>7, <2>1, FirstOf
<1> HIDE DEF first
<1>9. first \in 1 .. n /\ ~(first > n)
  BY <1>2, <1>7, <1>8
<1>10. QED
  BY <1>4, <1>6, <1>8, <1>9 DEF marked

\* What there is to select is in the lists of the machine.
LEMMA ListsOf ==
  ASSUME NEW m \in Machines, NEW leaf \in Leaves(m)
  PROVE /\ leaf.kind = "PMFixedFreq" => \A file \in DpmFiles :
             /\ file \in DOMAIN m.files /\ m.files[file] \in Seq(Lines)
             /\ \A states \in NonEmpty(DPMStates(m, file)) : Min(states) \in states
             /\ \A index \in DPMStates(m, file) : \E k \in DOMAIN m.files[file] :
                  m.files[file][k].t = "dpm" /\ m.files[file][k].index = index
        /\ leaf.kind = "PMPowerProfile" =>
             /\ "pp_power_profile_mode" \in DOMAIN m.files /\ m.files["pp_power_profile_mode"] \in Seq(Lines)
             /\ \A mode \in leaf.modes : \E k \in DOMAIN m.files["pp_power_profile_mode"] :
                  m.files["pp_power_profile_mode"][k].t = "mode"
                  /\ m.files["pp_power_profile_mode"][k].index = leaf.index[mode]
<1>1. Found(m, leaf)
  BY FoundOf
<1>2. \A file \in DOMAIN m.files \cap Lists : m.files[file] \in Seq(Lines)
  BY MachinesAssumption DEF Typed, TableFiles, Lists
<1>3. CASE leaf.kind = "PMPowerProfile"
  <2>1. /\ "pp_power_profile_mode" \in DOMAIN m.files
        /\ \A mode \in leaf.modes : \E k \in DOMAIN m.files["pp_power_profile_mode"] :
             m.files["pp_power_profile_mode"][k].t = "mode"
             /\ m.files["pp_power_profile_mode"][k].index = leaf.index[mode]
    BY <1>1, <1>3 DEF Found, Valid
  <2>2. QED
    BY <1>2, <1>3, <2>1 DEF Lists
<1>4. ASSUME leaf.kind = "PMFixedFreq", NEW file \in DpmFiles
      PROVE /\ file \in DOMAIN m.files /\ m.files[file] \in Seq(Lines)
            /\ \A states \in NonEmpty(DPMStates(m, file)) : Min(states) \in states
            /\ \A index \in DPMStates(m, file) : \E k \in DOMAIN m.files[file] :
                 m.files[file][k].t = "dpm" /\ m.files[file][k].index = index
  <2>1. HasDPMStates(m, file)
    BY <1>1, <1>4 DEF Found
  <2>2. file \in DOMAIN m.files
    BY <2>1 DEF HasDPMStates, Valid
  <2> DEFINE lines == m.files[file]
             states == DPMStates(m, file)
             n == Len(lines)
             indices == [k \in 1 .. n |-> lines[k].index]
  <2>3. lines \in Seq(Lines)
    BY <1>2, <2>2 DEF Lists
  <2>4. n \in Nat /\ DOMAIN lines = 1 .. n
    BY <2>3
  <2>5. states \subseteq Int /\ \A index \in states : \E k \in DOMAIN lines : lines[k].t = "dpm" /\ lines[k].index = index
    BY <1>4, <2>1, StatesOf
  <2> HIDE DEF lines, n, states
  <2>6. IsFiniteSet(ToSet(indices)) /\ states \subseteq ToSet(indices)
    <3>1. DOMAIN indices = 1 .. n /\ ToSet(indices) = {indices[k] : k \in 1 .. n}
      BY DEF ToSet
    <3>2. IsFiniteSet(ToSet(indices))
      BY <2>4, <3>1, ToSetFinite
    <3>3. QED
      BY <2>4, <2>5, <3>1, <3>2
  <2>7. ASSUME NEW S \in NonEmpty(states) PROVE Min(S) \in S
    <3>1. IsFiniteSet(S)
      BY <2>6, <2>7, FS_Subset DEF NonEmpty
    <3>2. S \in SUBSET Int /\ S # {}
      BY <2>5 DEF NonEmpty
    <3>3. QED
      BY <3>1, <3>2, LeastOf
  <2>8. QED
    BY <2>2, <2>3, <2>5, <2>7 DEF lines, states
<1>5. QED
  BY <1>3, <1>4

\* A write changes one file, and what the driver keeps of it.
OnlyChanged(changed, s, after) ==
  /\ \A file \in DOMAIN s[1] : file # changed => after[1][file] = s[1][file]
  /\ \A file : file # changed => after[2].enabled[file] = s[2].enabled[file]
  /\ changed \notin DpmFiles => after[2].enabled = s[2].enabled
  /\ changed # Table => after[2].table = s[2].table

\* A write only changes its own file, and what the driver keeps about it.
LEMMA OthersKept ==
  ASSUME NEW m, NEW s, ShapedDriver(m, s[2]), NEW w
  PROVE OnlyChanged(w.file, s, Written(m, s, w))
<1> DEFINE files == s[1]
           d == s[2]
           locked == Level \in DOMAIN files /\ files[Level] # "manual"
           next == Written(m, s, w)
           Put(value) == [files EXCEPT ![w.file] = value]
           Enabling(value) == [d EXCEPT !.enabled[w.file] = value]
           Committing(value) == [d EXCEPT !.table = value]
<1>1. \/ next = s
      \/ \E value : next = <<Put(value), d>>
      \/ w.file = Table /\ \E value : next = <<files, Committing(value)>>
      \/ w.file \in DpmFiles /\ \E value : next[1] \in {files, Put(value)} /\ \E states : next[2] = Enabling(states)
  <2>1. CASE w.file \in DpmFiles \cup {Table, "pp_power_profile_mode"} /\ locked
    BY <2>1, WrittenIs
  <2>2. CASE w.file = "pp_power_profile_mode" /\ ~locked
    BY <2>2, WrittenIs
  <2>3. CASE w.file \in DpmFiles /\ ~locked
    <3>1. next = <<IF ParseDPMCurrentStateIndex(files[w.file]) \in w.value THEN files
                   ELSE [files EXCEPT ![w.file] = MarkedAs(@, Min(w.value))],
                   [d EXCEPT !.enabled[w.file] = w.value]>>
      BY <2>3, WrittenIs
    <3>2. next[1] \in {files, Put(MarkedAs(files[w.file], Min(w.value)))} /\ next[2] = Enabling(w.value)
      BY <3>1
    <3> HIDE DEF next, Put, Enabling
    <3>3. QED
      BY <2>3, <3>2
  <2>4. CASE w.file = Table /\ ~locked
    <3>1. Table \notin DpmFiles \cup {"pp_power_profile_mode"}
      BY DEF Table, DpmFiles
    <3>2. QED
      BY <2>4, <3>1, WrittenIs
  <2>5. CASE w.file \notin DpmFiles \cup {Table, "pp_power_profile_mode"}
    <3>1. CASE w.file = "power1_cap" /\ w.value = 0
      BY <2>5, <3>1, WrittenIs
    <3>2. CASE w.file = "pwm1" /\ files["pwm1_enable"] # 1
      BY <2>5, <3>2, WrittenIs
    <3>3. CASE ~(w.file = "power1_cap" /\ w.value = 0) /\ ~(w.file = "pwm1" /\ files["pwm1_enable"] # 1)
      BY <2>5, <3>3, WrittenIs
    <3>4. QED
      BY <3>1, <3>2, <3>3
  <2>6. QED
    BY <2>1, <2>2, <2>3, <2>4, <2>5
<1>2. \A value : \A file \in DOMAIN files : file # w.file => Put(value)[file] = files[file]
  OBVIOUS
<1>3. \A states : /\ \A file : file # w.file => Enabling(states).enabled[file] = d.enabled[file]
                  /\ Enabling(states).table = d.table
  <2>1. SUFFICES ASSUME NEW states PROVE /\ \A file : file # w.file => Enabling(states).enabled[file] = d.enabled[file]
                                         /\ Enabling(states).table = d.table
    OBVIOUS
  <2>2. Enabling(states).enabled = [d.enabled EXCEPT ![w.file] = states] /\ Enabling(states).table = d.table
    BY DEF ShapedDriver
  <2>3. QED
    BY <2>2
<1>4. \A value : Committing(value).enabled = d.enabled
  BY DEF ShapedDriver
<1>5. Table \notin DpmFiles
  BY DEF Table, DpmFiles
<1> HIDE DEF next, Put, Enabling, Committing, files, d
<1>6. CASE next = s
  BY <1>6 DEF next, files, d, OnlyChanged
<1>7. CASE \E value : next = <<Put(value), d>>
  <2>1. PICK value : next = <<Put(value), d>>
    BY <1>7
  <2>2. next[1] = Put(value) /\ next[2] = d
    BY <2>1
  <2>3. QED
    BY <1>2, <2>2 DEF next, files, d, OnlyChanged
<1>8. CASE w.file = Table /\ \E value : next = <<files, Committing(value)>>
  <2>1. PICK value : next = <<files, Committing(value)>>
    BY <1>8
  <2>2. next[1] = files /\ next[2] = Committing(value)
    BY <2>1
  <2>3. QED
    BY <1>4, <1>8, <2>2 DEF next, files, d, OnlyChanged
<1>9. CASE w.file \in DpmFiles /\ \E value : next[1] \in {files, Put(value)} /\ \E states : next[2] = Enabling(states)
  <2>1. PICK value, states : next[1] \in {files, Put(value)} /\ next[2] = Enabling(states)
    BY <1>9
  <2>2. QED
    BY <1>2, <1>3, <1>5, <1>9, <2>1 DEF next, files, d, OnlyChanged
<1>10. QED
  BY <1>1, <1>6, <1>7, <1>8, <1>9

\* A harmless write leaves the machine lively.
LEMMA HarmlessOf ==
  ASSUME NEW m \in Machines, NEW leaf \in Leaves(m), NEW s, Lively(m, leaf, s), NEW w, Harmless(m, leaf, w)
  PROVE Lively(m, leaf, Written(m, s, w))
<1> DEFINE files == s[1]
           d == s[2]
           locked == Level \in DOMAIN files /\ files[Level] # "manual"
           next == Written(m, s, w)
           profiles == "pp_power_profile_mode"
<1>1. Shaped(m, next) /\ Shaped(m, s)
  BY WrittenShaped DEF Lively
<1>2. ShapedDriver(m, d) /\ ShapedFiles(m, files)
  BY <1>1 DEF Shaped
<1>3. /\ \A file \in DOMAIN files : file # w.file => next[1][file] = files[file]
      /\ \A file : file # w.file => next[2].enabled[file] = d.enabled[file]
      /\ w.file \notin DpmFiles => next[2].enabled = d.enabled
      /\ w.file # Table => next[2].table = d.table
  <2>1. ShapedDriver(m, s[2])
    BY <1>2
  <2>2. OnlyChanged(w.file, s, next)
    BY <2>1, OthersKept
  <2> HIDE DEF next
  <2>3. QED
    BY <2>2 DEF OnlyChanged
<1>4. ASSUME leaf.kind = "PMPowerProfile"
      PROVE ParsePowerProfileModeCurrentModeIndex(next[1][profiles]) # Absent
  <2>1. /\ profiles \in DOMAIN files /\ m.files[profiles] \in Seq(Lines)
        /\ Alike(files[profiles], m.files[profiles])
        /\ ParsePowerProfileModeCurrentModeIndex(files[profiles]) # Absent
    BY <1>2, <1>4, ListsOf DEF ShapedFiles, Lists, Lively
  <2>2. CASE w.file # profiles
    BY <1>3, <2>1, <2>2
  <2>3. CASE w.file = profiles /\ locked
    <3>1. next = s
      BY <2>3, WrittenIs
    <3>2. QED
      BY <2>1, <3>1
  <2>4. CASE w.file = profiles /\ ~locked
    <3>1. next = <<[files EXCEPT ![profiles] = MarkedAs(@, w.value)], d>>
      BY <2>4, WrittenIs
    <3>2. PICK mode \in leaf.modes : w.value = leaf.index[mode]
      BY <1>4, <2>4 DEF Harmless
    <3>3. PICK k \in DOMAIN m.files[profiles] :
            m.files[profiles][k].t = "mode" /\ m.files[profiles][k].index = leaf.index[mode]
      BY <1>4, ListsOf
    <3>4. m.files[profiles][k] \in Lines
      BY <2>1, <3>3
    <3>5. w.value \in Int
      BY <3>2, <3>3, <3>4 DEF Lines
    <3>6. ParsePowerProfileModeCurrentModeIndex(MarkedAs(files[profiles], w.value)) = w.value
      BY <2>1, <3>2, <3>3, CurrentOf
    <3> HIDE DEF next
    <3>7. next[1][profiles] = MarkedAs(files[profiles], w.value)
      BY <2>1, <3>1
    <3>8. QED
      BY <3>5, <3>6, <3>7, AbsentAssumption
  <2>5. QED
    BY <2>2, <2>3, <2>4
<1>5. ASSUME leaf.kind = "PMFixedFreq", NEW file \in DpmFiles
      PROVE ParseDPMCurrentStateIndex(next[1][file]) # Absent /\ next[2].enabled[file] \subseteq DPMStates(m, file)
  <2> DEFINE states == DPMStates(m, file)
  <2>1. /\ file \in DOMAIN files /\ file \in DOMAIN d.enabled /\ m.files[file] \in Seq(Lines)
        /\ Alike(files[file], m.files[file])
        /\ ParseDPMCurrentStateIndex(files[file]) # Absent /\ d.enabled[file] \subseteq states
    BY <1>2, <1>5, ListsOf DEF ShapedFiles, ShapedDriver, Lists, Lively
  <2>2. CASE w.file # file
    BY <1>3, <2>1, <2>2
  <2>3. CASE w.file = file /\ locked
    <3>1. next = s
      BY <2>3, WrittenIs
    <3>2. QED
      BY <2>1, <3>1
  <2>4. CASE w.file = file /\ ~locked
    <3> DEFINE marked == MarkedAs(files[file], Min(w.value))
    <3>1. next = <<IF ParseDPMCurrentStateIndex(files[file]) \in w.value THEN files
                   ELSE [files EXCEPT ![file] = marked], [d EXCEPT !.enabled[file] = w.value]>>
      BY <2>4, WrittenIs
    <3>2. w.value \in NonEmpty(states)
      BY <1>5, <2>4 DEF Harmless
    <3>3. Min(w.value) \in states
      <4>1. Min(w.value) \in w.value
        BY <1>5, <3>2, ListsOf
      <4>2. QED
        BY <3>2, <4>1 DEF NonEmpty
    <3>4. PICK k \in DOMAIN m.files[file] : m.files[file][k].t = "dpm" /\ m.files[file][k].index = Min(w.value)
      BY <1>5, <3>3, ListsOf
    <3>5. m.files[file][k] \in Lines
      BY <2>1, <3>4
    <3>6. Min(w.value) \in Int
      BY <3>4, <3>5 DEF Lines
    <3>7. ParseDPMCurrentStateIndex(marked) = Min(w.value)
      BY <2>1, <3>4, CurrentOf
    <3>8. [d EXCEPT !.enabled[file] = w.value].enabled[file] = w.value
      BY <1>2, <2>1 DEF ShapedDriver
    <3> HIDE DEF next, marked, files, states
    <3>9. next[1][file] \in {files[file], marked} /\ next[2].enabled[file] = w.value
      BY <2>1, <3>1, <3>8
    <3>10. QED
      BY <2>1, <3>2, <3>6, <3>7, <3>9, AbsentAssumption DEF NonEmpty, states
  <2>5. QED
    BY <2>2, <2>3, <2>4
<1>6. QED
  BY <1>1, <1>4, <1>5 DEF Lively

\* A call of harmless writes leaves the machine lively.
LEMMA ExecutedLively ==
  ASSUME NEW m \in Machines, NEW leaf \in Leaves(m), NEW s, Lively(m, leaf, s),
         NEW writes, Len(writes) \in Nat, \A k \in 1 .. Len(writes) : Harmless(m, leaf, writes[k])
  PROVE Lively(m, leaf, Executed(m, s, writes))
<1>1. PICK r : /\ r[0] = s
               /\ \A k \in 1 .. Len(writes) : r[k] = Written(m, r[k - 1], writes[k])
               /\ Executed(m, s, writes) = r[Len(writes)]
  BY SMTT(40), Run
<1> DEFINE n == Len(writes)
           G == {k \in Nat : k <= n => Lively(m, leaf, r[k])}
<1> HIDE DEF n
<1>2. 0 \in G
  BY <1>1
<1>3. \A k \in G : k + 1 \in G
  <2>1. SUFFICES ASSUME NEW k \in G, k + 1 <= n PROVE Lively(m, leaf, r[k + 1])
    OBVIOUS
  <2>2. k + 1 \in 1 .. n /\ k + 1 - 1 = k /\ Lively(m, leaf, r[k])
    BY <2>1 DEF n
  <2>3. r[k + 1] = Written(m, r[k], writes[k + 1]) /\ Harmless(m, leaf, writes[k + 1])
    BY <1>1, <2>2 DEF n
  <2>4. QED
    BY <2>2, <2>3, HarmlessOf
<1>4. G = Nat
  BY <1>2, <1>3, Induct
<1> HIDE DEF G
<1>5. n \in G
  BY <1>4 DEF n
<1>6. QED
  BY <1>1, <1>5 DEF G, n

\* What a control outside the table writes in its passes.
Calls(T, at) == at.sync \in Seq(T) /\ at.clean \in Seq(T)

\* Calls of no, one or two writes.
LEMMA ShortCalls ==
  \A T : \A a, b \in T : <<>> \in Seq(T) /\ <<a>> \in Seq(T) /\ <<a, b>> \in Seq(T)
OBVIOUS

\* The write of a value that differs is a call.
LEMMA DiffersSeq ==
  ASSUME NEW T, NEW files, NEW file, NEW value, Write(file, value) \in T
  PROVE Differs(files, file, value) \in Seq(T)
<1> DEFINE w == Write(file, value)
<1>1. Differs(files, file, value) \in {<<>>, <<w>>}
  BY DEF Differs
<1> HIDE DEF w
<1>2. QED
  BY <1>1, ShortCalls DEF w

\* What a control outside the table writes is harmless.
LEMMA HarmlessAt ==
  ASSUME machine \in Machines, l \in Leaves(machine), ~InTable(l), NEW d, NEW x, Configured(l, d, x), NEW files
  PROVE \E T : Calls(T, ControlAt(x, files)) /\ \A w \in T : Harmless(machine, l, w)
<1> DEFINE at == ControlAt(x, files)
           methods == Leaf(l, x, files)
<1>1. Found(machine, l) /\ l.kind \in Kinds
  BY FoundOf
<1>2. {"sync", "clean"} \subseteq DOMAIN methods => at.sync = methods.sync /\ at.clean = methods.clean
  BY OwnMethods
<1>3. ASSUME NEW T, methods.sync \in Seq(T), methods.clean \in Seq(T), {"sync", "clean"} \subseteq DOMAIN methods
      PROVE Calls(T, at)
  BY <1>2, <1>3 DEF Calls
<1>5. l.kind \notin {"PMPowerProfile", "PMFixedFreq"} => \A w : Harmless(machine, l, w)
  BY DEF Harmless
<1> HIDE DEF at
<1>6. CASE l.kind = "PMAuto"
  <2> DEFINE a == Write("power_method", "profile")
             b == Write("power_profile", "auto")
             level == Write(Level, "auto")
             T == {a, b, level}
  <2>1. /\ methods.sync \in {<<>>, <<a, b>>, Differs(files, Level, "auto")} /\ methods.clean = <<>>
        /\ {"sync", "clean"} \subseteq DOMAIN methods
    BY <1>6 DEF Leaf, PMAuto, PMAutoLegacy, PMAutoR600
  <2>2. Differs(files, Level, "auto") \in Seq(T)
    BY DiffersSeq
  <2> HIDE DEF a, b, level, methods
  <2>3. a \in T /\ b \in T
    OBVIOUS
  <2> HIDE DEF T
  <2>4. methods.sync \in Seq(T) /\ methods.clean \in Seq(T)
    BY <2>1, <2>2, <2>3, ShortCalls
  <2>5. QED
    BY <1>3, <1>5, <1>6, <2>1, <2>4 DEF at
<1>7. CASE l.kind = "PMFixed"
  <2> DEFINE a == Write("power_method", "profile")
             b == Write("power_profile", x.mode)
             auto == Write("power_profile", "auto")
             level == Write(Level, "auto")
             T == {a, b, auto, level, Write(Level, x.mode)}
  <2>1. /\ methods.sync \in {<<a, b>>, Differs(files, "power_profile", x.mode), Differs(files, Level, x.mode)}
        /\ methods.clean \in {<<a, auto>>, <<level>>}
        /\ {"sync", "clean"} \subseteq DOMAIN methods
    BY <1>7 DEF Leaf, PMFixed, PMFixedLegacy, PMFixedR600
  <2>2. Differs(files, "power_profile", x.mode) \in Seq(T) /\ Differs(files, Level, x.mode) \in Seq(T)
    BY DiffersSeq
  <2> HIDE DEF a, b, auto, level, methods
  <2>3. a \in T /\ b \in T /\ auto \in T /\ level \in T
    OBVIOUS
  <2> HIDE DEF T
  <2>4. methods.sync \in Seq(T) /\ methods.clean \in Seq(T)
    BY <2>1, <2>2, <2>3, ShortCalls
  <2>5. QED
    BY <1>3, <1>5, <1>7, <2>1, <2>4 DEF at
<1>8. ASSUME NEW file, NEW value, methods.sync = Differs(files, file, value), methods.clean = <<>>,
             {"sync", "clean"} \subseteq DOMAIN methods, l.kind \notin {"PMPowerProfile", "PMFixedFreq"}
      PROVE \E T : Calls(T, at) /\ \A w \in T : Harmless(machine, l, w)
  <2> DEFINE T == {Write(file, value)}
  <2>1. methods.sync \in Seq(T) /\ methods.clean \in Seq(T)
    BY <1>8, DiffersSeq
  <2> HIDE DEF methods, T
  <2>2. Calls(T, at)
    BY <1>3, <1>8, <2>1
  <2>3. QED
    BY <1>5, <1>8, <2>2
<1>9. CASE l.kind \in {"PMDynamicFreq", "PMPowerState", "FanAuto"}
  <2>1. CASE l.kind = "PMDynamicFreq"
    <3>1. methods.sync = Differs(files, Level, "auto") /\ methods.clean = <<>> /\ {"sync", "clean"} \subseteq DOMAIN methods
      BY <2>1 DEF Leaf, PMDynamicFreq
    <3>2. QED
      BY <1>8, <2>1, <3>1 DEF at
  <2>2. CASE l.kind = "PMPowerState"
    <3>1. methods.sync = Differs(files, "power_dpm_state", x.mode) /\ methods.clean = <<>>
          /\ {"sync", "clean"} \subseteq DOMAIN methods
      BY <2>2 DEF Leaf, PMPowerState
    <3>2. QED
      BY <1>8, <2>2, <3>1 DEF at
  <2>3. CASE l.kind = "FanAuto"
    <3>1. methods.sync = Differs(files, "pwm1_enable", 2) /\ methods.clean = <<>> /\ {"sync", "clean"} \subseteq DOMAIN methods
      BY <2>3 DEF Leaf, FanAuto
    <3>2. QED
      BY <1>8, <2>3, <3>1 DEF at
  <2>4. QED
    BY <1>9, <2>1, <2>2, <2>3
<1>10. CASE l.kind \in {"PMPowerCap", "PMFreqOd", "CPUFreq"}
  <2>1. CASE l.kind = "PMPowerCap"
    <3> DEFINE a == Write("power1_cap", 0)
               T == {a, Write("power1_cap", x.value)}
    <3>1. /\ methods.sync = Differs(files, "power1_cap", x.value) /\ methods.clean = <<a>>
          /\ {"sync", "clean"} \subseteq DOMAIN methods
      BY <2>1 DEF Leaf, PMPowerCap
    <3>2. Differs(files, "power1_cap", x.value) \in Seq(T)
      BY DiffersSeq
    <3> HIDE DEF methods, a
    <3>3. a \in T
      OBVIOUS
    <3> HIDE DEF T
    <3>4. methods.sync \in Seq(T) /\ methods.clean \in Seq(T)
      BY <3>1, <3>2, <3>3, ShortCalls
    <3>5. QED
      BY <1>3, <1>5, <2>1, <3>1, <3>4 DEF at
  <2>2. CASE l.kind = "PMFreqOd"
    <3> DEFINE a == Write("pp_sclk_od", 0)
               b == Write("pp_mclk_od", 0)
               T == {a, b, Write("pp_sclk_od", x.sclkOd), Write("pp_mclk_od", x.mclkOd)}
               first == Differs(files, "pp_sclk_od", x.sclkOd)
               second == Differs(files, "pp_mclk_od", x.mclkOd)
    <3>1. methods.sync = first \o second /\ methods.clean = <<a, b>> /\ {"sync", "clean"} \subseteq DOMAIN methods
      BY <2>2 DEF Leaf, PMFreqOd
    <3>2. first \in Seq(T) /\ second \in Seq(T)
      BY DiffersSeq
    <3> HIDE DEF methods, a, b, first, second
    <3>3. a \in T /\ b \in T
      OBVIOUS
    <3> HIDE DEF T
    <3>4. first \o second \in Seq(T)
      BY <3>2
    <3>5. methods.sync \in Seq(T) /\ methods.clean \in Seq(T)
      BY <3>1, <3>3, <3>4, ShortCalls
    <3>6. QED
      BY <1>3, <1>5, <2>2, <3>1, <3>5 DEF at
  <2>3. CASE l.kind = "CPUFreq"
    <3> DEFINE T == {Write("scaling_governor 0", x.scalingGovernor), Write("scaling_governor 1", x.scalingGovernor)}
               first == Differs(files, "scaling_governor 0", x.scalingGovernor)
               second == Differs(files, "scaling_governor 1", x.scalingGovernor)
    <3>1. methods.sync = first \o second /\ methods.clean = <<>> /\ {"sync", "clean"} \subseteq DOMAIN methods
      BY <2>3 DEF Leaf, CPUFreq
    <3>0. /\ Write("scaling_governor 0", x.scalingGovernor) \in T
          /\ Write("scaling_governor 1", x.scalingGovernor) \in T
      OBVIOUS
    <3> HIDE DEF methods, T
    <3>2. first \in Seq(T) /\ second \in Seq(T)
      BY <3>0, DiffersSeq
    <3> HIDE DEF first, second
    <3>3. first \o second \in Seq(T) /\ <<>> \in Seq(T)
      BY <3>2
    <3>4. QED
      BY <1>3, <1>5, <2>3, <3>1, <3>2, <3>3 DEF at
  <2>4. QED
    BY <1>10, <2>1, <2>2, <2>3
<1>11. CASE l.kind \in {"FanFixed", "FanCurve"}
  <2>1. \E pwm : /\ methods.sync \in {<<Write("pwm1_enable", 1), Write("pwm1", pwm)>>, <<Write("pwm1", pwm)>>, <<>>}
                 /\ methods.clean = <<>> /\ {"sync", "clean"} \subseteq DOMAIN methods
    <3>1. CASE l.kind = "FanFixed"
      BY <3>1 DEF Leaf, FanFixed, Differs
    <3>2. CASE l.kind = "FanCurve"
      BY <3>2 DEF Leaf, FanCurve, FanCurveAt
    <3>3. QED
      BY <1>11, <3>1, <3>2
  <2> HIDE DEF methods
  <2>2. PICK pwm : /\ methods.sync \in {<<Write("pwm1_enable", 1), Write("pwm1", pwm)>>, <<Write("pwm1", pwm)>>, <<>>}
                   /\ methods.clean = <<>> /\ {"sync", "clean"} \subseteq DOMAIN methods
    BY <2>1
  <2> DEFINE a == Write("pwm1_enable", 1)
             b == Write("pwm1", pwm)
             T == {a, b}
  <2>3. methods.sync \in {<<a, b>>, <<b>>, <<>>} /\ methods.clean = <<>>
    BY <2>2
  <2> HIDE DEF a, b
  <2>4. a \in T /\ b \in T
    OBVIOUS
  <2> HIDE DEF T
  <2>5. methods.sync \in Seq(T) /\ methods.clean \in Seq(T)
    BY <2>3, <2>4, ShortCalls
  <2>6. QED
    BY <1>3, <1>5, <1>11, <2>2, <2>5 DEF at
<1>12. CASE l.kind = "PMPowerProfile"
  <2> DEFINE T == {Write(Level, "manual")} \cup {Write("pp_power_profile_mode", l.index[mode]) : mode \in l.modes}
             select(mode) == <<Write("pp_power_profile_mode", l.index[mode])>>
  <2>1. /\ methods.sync \in {Manual(files) \o select(x.mode), <<>>, select(x.mode)}
        /\ methods.clean = Manual(files) \o select(l.new.mode)
        /\ {"sync", "clean"} \subseteq DOMAIN methods
    BY <1>12 DEF Leaf, PMPowerProfile
  <2>2. x.mode \in l.modes /\ l.new.mode \in l.modes
    BY <1>1, <1>12 DEF Found, Configured, Settable
  <2>3. \A mode \in l.modes : select(mode) \in Seq(T)
    OBVIOUS
  <2>4. Manual(files) \in Seq(T)
    BY DiffersSeq DEF Manual
  <2>5. ASSUME NEW w \in T PROVE Harmless(machine, l, w)
    <3>1. CASE w = Write(Level, "manual")
      BY <1>12, <3>1 DEF Harmless, Write, Level
    <3>2. CASE \E mode \in l.modes : w = Write("pp_power_profile_mode", l.index[mode])
      BY <1>12, <3>2 DEF Harmless, Write
    <3>3. QED
      BY <3>1, <3>2
  <2> HIDE DEF methods, T, select
  <2>6. \A mode \in l.modes : Manual(files) \o select(mode) \in Seq(T)
    BY <2>3, <2>4
  <2>10. <<>> \in Seq(T)
    OBVIOUS
  <2>7. methods.sync \in Seq(T) /\ methods.clean \in Seq(T)
    BY <2>1, <2>2, <2>3, <2>6, <2>10
  <2>8. Calls(T, at)
    BY <1>3, <2>1, <2>7
  <2>9. QED
    BY <2>5, <2>8 DEF at
<1>13. CASE l.kind = "PMFixedFreq"
  <2> DEFINE T == {Write(Level, "manual"), Write("pp_dpm_sclk", x.sclk.active), Write("pp_dpm_mclk", x.mclk.active),
                   Write("pp_dpm_sclk", l.sclk), Write("pp_dpm_mclk", l.mclk)}
             sclk == PpDpmHandler(x.sclk, "pp_dpm_sclk", l.sclk, files)
             mclk == PpDpmHandler(x.mclk, "pp_dpm_mclk", l.mclk, files)
  <2>1. /\ methods.sync = sclk.sync \o mclk.sync /\ methods.clean = sclk.clean \o mclk.clean
        /\ {"sync", "clean"} \subseteq DOMAIN methods
    BY Zenon, <1>13 DEF Leaf, PMFixedFreq
  <2>2. /\ sclk.sync \in {Manual(files) \o <<Write("pp_dpm_sclk", x.sclk.active)>>, <<>>}
        /\ mclk.sync \in {Manual(files) \o <<Write("pp_dpm_mclk", x.mclk.active)>>, <<>>}
        /\ sclk.clean = Manual(files) \o <<Write("pp_dpm_sclk", l.sclk)>>
        /\ mclk.clean = Manual(files) \o <<Write("pp_dpm_mclk", l.mclk)>>
    BY DEF PpDpmHandler
  <2>3. Manual(files) \in Seq(T)
    BY DiffersSeq DEF Manual
  <2>4. ASSUME NEW w \in T PROVE <<w>> \in Seq(T)
    OBVIOUS
  <2>5. /\ Write("pp_dpm_sclk", x.sclk.active) \in T /\ Write("pp_dpm_mclk", x.mclk.active) \in T
        /\ Write("pp_dpm_sclk", l.sclk) \in T /\ Write("pp_dpm_mclk", l.mclk) \in T
    OBVIOUS
  <2>6. ASSUME NEW w \in T PROVE Harmless(machine, l, w)
    <3>1. l.sclk = DPMStates(machine, "pp_dpm_sclk") /\ l.mclk = DPMStates(machine, "pp_dpm_mclk")
          /\ \A file \in DpmFiles : HasDPMStates(machine, file)
      BY <1>1, <1>13 DEF Found
    <3>2. l.sclk \in NonEmpty(l.sclk) /\ l.mclk \in NonEmpty(l.mclk)
      BY <3>1, StatesOf DEF NonEmpty, DpmFiles
    <3>3. x.sclk.active \in NonEmpty(l.sclk) /\ x.mclk.active \in NonEmpty(l.mclk)
      BY <1>13 DEF Configured, Handlers
    <3>4. w.file = Level \/ (w.file = "pp_dpm_sclk" /\ w.value \in NonEmpty(l.sclk))
            \/ (w.file = "pp_dpm_mclk" /\ w.value \in NonEmpty(l.mclk))
      BY <3>2, <3>3 DEF Write
    <3> HIDE DEF T
    <3>5. QED
      BY <1>13, <3>1, <3>4 DEF Harmless, Level, DpmFiles
  <2> HIDE DEF methods, T, sclk, mclk
  <2>7. <<>> \in Seq(T) /\ \A w \in T : Manual(files) \o <<w>> \in Seq(T)
    BY <2>3, <2>4
  <2>8. sclk.sync \in Seq(T) /\ mclk.sync \in Seq(T) /\ sclk.clean \in Seq(T) /\ mclk.clean \in Seq(T)
    BY <2>2, <2>3, <2>5, <2>7
  <2>9. methods.sync \in Seq(T) /\ methods.clean \in Seq(T)
    BY <2>1, <2>8
  <2>10. Calls(T, at)
    BY <1>3, <2>1, <2>9
  <2>11. QED
    BY <2>6, <2>10 DEF at
<1>14. QED
  BY <1>1, <1>6, <1>7, <1>9, <1>10, <1>11, <1>12, <1>13 DEF Kinds, InTable, at
(***************************************************************************)
(* The pwm of a curve                                                      *)
(***************************************************************************)

\* A quotient of numbers with the same sign is none below zero.
LEMMA RoundedOf ==
  ASSUME NEW x \in Int, NEW y \in Int, (x >= 0 /\ y > 0) \/ (x <= 0 /\ y < 0)
  PROVE Rounded(x, y) \in Nat
<1> DEFINE size(n) == IF n < 0 THEN -n ELSE n
           q == (2 * size(x) + size(y)) \div (2 * size(y))
<1>1. ASSUME NEW a \in Nat, NEW b \in Nat, b > 0 PROVE a \div b \in Nat
  BY <1>1
<1>2. 2 * size(x) + size(y) \in Nat /\ 2 * size(y) \in Nat /\ 2 * size(y) > 0
  OBVIOUS
<1>3. q \in Nat
  BY <1>1, <1>2
<1>4. Rounded(x, y) = IF (x < 0) = (y < 0) THEN q ELSE -q
  BY DEF Rounded
<1>5. CASE x = 0
  <2>1. q = 0
    <3> DEFINE n == size(y)
    <3>1. n \in Nat /\ n > 0 /\ q = n \div (2 * n)
      BY <1>5
    <3> HIDE DEF n, q
    <3>2. QED
      BY <3>1
  <2> HIDE DEF q
  <2>2. QED
    BY <1>4, <2>1
<1>6. CASE x # 0
  <2>1. (x < 0) = (y < 0)
    BY <1>6
  <2> HIDE DEF q
  <2>2. QED
    BY <1>3, <1>4, <2>1
<1>7. QED
  BY <1>5, <1>6

\* A point between two others, which have none below zero, has none.
LEMMA BlendOf ==
  ASSUME NEW a \in Nat, NEW b \in Nat, NEW u \in Int, NEW v \in Int, NEW x \in Int,
         (u <= v /\ x \in u .. v) \/ (v < u /\ x \in {u, v})
  PROVE LET y == a * (v - u) + (b - a) * (x - u)
        IN  y \in Int /\ (u <= v => y >= 0) /\ (v < u => y <= 0)
<1> DEFINE y == a * (v - u) + (b - a) * (x - u)
           p == v - x
           q == x - u
<1>1. y = a * p + b * q /\ p \in Int /\ q \in Int
  OBVIOUS
<1>2. CASE u <= v
  <2>1. p \in Nat /\ q \in Nat
    BY <1>2
  <2> HIDE DEF p, q, y
  <2>2. a * p \in Nat /\ b * q \in Nat
    BY <2>1
  <2>3. QED
    BY <1>1, <1>2, <2>2 DEF y
<1>3. CASE v < u
  <2>1. /\ p \in Int /\ q \in Int /\ p <= 0 /\ q <= 0
    BY <1>3
  <2> HIDE DEF p, q, y
  <2>2. a * (-p) \in Nat /\ b * (-q) \in Nat
    BY <2>1
  <2>3. a * p = -(a * (-p)) /\ b * q = -(b * (-q))
    BY <2>1
  <2>4. y \in Int /\ y <= 0
    BY <1>1, <2>2, <2>3
  <2>5. QED
    BY <1>3, <2>4 DEF y
<1>4. QED
  BY <1>2, <1>3

\* The points around one are two of the curve, in its order.
LEMMA AroundOf ==
  ASSUME NEW points, NEW n \in Nat, n >= 2, Len(points) = n, NEW x, NEW input
  PROVE \E k \in 2 .. n : Around(points, x, input) = <<points[k - 1], points[k]>>
<1> DEFINE S == {k \in 1 .. n : points[k][x] > input}
           at == Min(S \cup {n + 1})
           to == IF at > n THEN n ELSE IF at = 1 THEN 2 ELSE at
<1>1. Around(points, x, input) = <<points[to - 1], points[to]>>
  BY DEF Around, PointsBefore, FirstFrom
<1>2. at \in 1 .. n + 1
  <2>1. 1 \in Int /\ n \in Nat /\ S \in SUBSET (1 .. n)
    OBVIOUS
  <2> HIDE DEF S
  <2>2. at \in Int /\ (at \in S \/ (S = {} /\ at = n + 1))
    BY <2>1, FirstOf
  <2>3. QED
    BY <2>1, <2>2
<1> HIDE DEF at
<1>3. to \in 2 .. n
  BY <1>2
<1>4. QED
  BY <1>1, <1>3

\* A curve asks for no pwm below zero, and starts its fan at no temperature below zero.
LEMMA EvaluatedOf ==
  ASSUME NEW leaf, leaf.maxTemp \in Nat, NEW points \in Curves(leaf)
  PROVE /\ \A temp \in Int : EvaluateTemp(points, temp) \in Nat
        /\ NotANumber # LeastInt => \A percent \in Int : EvaluatePwm(points, percent) \in Nat
<1> DEFINE n == Len(points)
<1>1. /\ n \in Nat /\ n >= 2
      /\ \A k \in 1 .. n : points[k][1] \in Nat /\ points[k][2] \in Nat
      /\ \A k \in 2 .. n : points[k - 1][2] <= points[k][2]
  <2>1. n \in Nat /\ n >= 2 /\ DOMAIN points = 1 .. n
    BY CurvesOf
  <2>2. \A k \in 1 .. n : points[k][1] \in 0 .. leaf.maxTemp /\ points[k][2] \in 0 .. 100
    BY <2>1, CurvesOf
  <2>3. \A i, k \in 1 .. n : i <= k => points[i][2] <= points[k][2]
    BY <2>1 DEF Curves
  <2> HIDE DEF n
  <2>4. \A k \in 2 .. n : k - 1 \in 1 .. n /\ k \in 1 .. n /\ k - 1 <= k
    BY <2>1
  <2>5. \A k \in 2 .. n : points[k - 1][2] <= points[k][2]
    BY <2>3, <2>4
  <2>6. \A k \in 1 .. n : points[k][1] \in Nat /\ points[k][2] \in Nat
    <3>1. 0 .. leaf.maxTemp \subseteq Nat /\ 0 .. 100 \subseteq Nat
      OBVIOUS
    <3>2. QED
      BY <2>2, <3>1
  <2>7. QED
    BY <2>1, <2>5, <2>6
<1>2. Len(points) = n
  OBVIOUS
<1> HIDE DEF n
<1>3. \A x, input : \E k \in 2 .. n : Around(points, x, input) = <<points[k - 1], points[k]>>
  BY Zenon, <1>1, <1>2, AroundOf
<1>4. ASSUME NEW temp \in Int PROVE EvaluateTemp(points, temp) \in Nat
  <2> DEFINE input == temp * Degree
  <2>1. input \in Int
    BY DEF Degree
  <2> HIDE DEF input
  <2>2. PICK k \in 2 .. n : Around(points, 1, input) = <<points[k - 1], points[k]>>
    BY Zenon, <1>3
  <2> DEFINE u == points[k - 1][1]
             v == points[k][1]
             a == points[k - 1][2]
             b == points[k][2]
             x == Clamp(input, u, v)
  <2>3. u \in Nat /\ v \in Nat /\ a \in Nat /\ b \in Nat
    BY <1>1
  <2>4. EvaluateTemp(points, temp) = PwmBetween(points[k - 1], points[k], x)
    BY <2>2 DEF EvaluateTemp, ValueOn, input
  <2>5. PwmBetween(points[k - 1], points[k], x) =
          IF u = v THEN 0 ELSE Rounded(255 * (a * (v - u) + (b - a) * (x - u)), 100 * (v - u))
    BY DEF PwmBetween
  <2> HIDE DEF u, v, a, b
  <2>6. x \in Int /\ ((u <= v /\ x \in u .. v) \/ (v < u /\ x \in {u, v}))
    BY <2>1, <2>3 DEF Clamp
  <2> HIDE DEF x
  <2> DEFINE y == a * (v - u) + (b - a) * (x - u)
  <2>7. y \in Int /\ (u <= v => y >= 0) /\ (v < u => y <= 0)
    BY <2>3, <2>6, BlendOf
  <2> HIDE DEF y
  <2>8. u # v => Rounded(255 * y, 100 * (v - u)) \in Nat
    <3>1. SUFFICES ASSUME u # v PROVE Rounded(255 * y, 100 * (v - u)) \in Nat
      OBVIOUS
    <3>2. /\ 255 * y \in Int /\ 100 * (v - u) \in Int
          /\ (255 * y >= 0 /\ 100 * (v - u) > 0) \/ (255 * y <= 0 /\ 100 * (v - u) < 0)
      BY <2>3, <2>7, <3>1
    <3>3. QED
      BY ZenonT(60), <3>2, RoundedOf
  <2>9. PwmBetween(points[k - 1], points[k], x) = IF u = v THEN 0 ELSE Rounded(255 * y, 100 * (v - u))
    BY Zenon, <2>5 DEF y
  <2>10. 0 \in Nat
    OBVIOUS
  <2>11. PwmBetween(points[k - 1], points[k], x) \in Nat
    BY Zenon, <2>8, <2>9, <2>10
  <2>12. QED
    BY Zenon, <2>4, <2>11
<1>5. ASSUME NotANumber # LeastInt, NEW percent \in Int PROVE EvaluatePwm(points, percent) \in Nat
  <2>2. PICK k \in 2 .. n : Around(points, 2, percent) = <<points[k - 1], points[k]>>
    BY Zenon, <1>3
  <2> DEFINE u == points[k - 1][2]
             v == points[k][2]
             a == points[k - 1][1]
             b == points[k][1]
             x == Clamp(percent, u, v)
  <2>3. u \in Nat /\ v \in Nat /\ a \in Nat /\ b \in Nat /\ u <= v
    BY <1>1
  <2>4. EvaluatePwm(points, percent) = TempBetween(points[k - 1], points[k], x)
    BY <2>2 DEF EvaluatePwm, InverseOn
  <2>5. TempBetween(points[k - 1], points[k], x) =
          IF u = v THEN NotANumber ELSE Rounded(a * (v - u) + (b - a) * (x - u), Degree * (v - u))
    BY DEF TempBetween
  <2> HIDE DEF u, v, a, b
  <2>6. x \in Int /\ u <= v /\ x \in u .. v
    BY <1>5, <2>3 DEF Clamp
  <2> HIDE DEF x
  <2> DEFINE y == a * (v - u) + (b - a) * (x - u)
  <2>7. y \in Int /\ y >= 0
    BY <2>3, <2>6, BlendOf
  <2> HIDE DEF y
  <2>8. u # v => Rounded(y, Degree * (v - u)) \in Nat
    <3>1. SUFFICES ASSUME u # v PROVE Rounded(y, Degree * (v - u)) \in Nat
      OBVIOUS
    <3>2. Degree * (v - u) \in Int /\ Degree * (v - u) > 0
      BY <2>3, <3>1 DEF Degree
    <3>3. QED
      BY <2>7, <3>2, RoundedOf
  <2>9. NotANumber = 0
    BY <1>5, NotANumberAssumption
  <2>10. TempBetween(points[k - 1], points[k], x) =
           IF u = v THEN NotANumber ELSE Rounded(y, Degree * (v - u))
    BY Zenon, <2>5 DEF y
  <2>11. 0 \in Nat
    OBVIOUS
  <2>12. TempBetween(points[k - 1], points[k], x) \in Nat
    BY Zenon, <2>8, <2>9, <2>10, <2>11
  <2>13. QED
    BY Zenon, <2>4, <2>12
<1>6. QED
  BY <1>4, <1>5

\* The pwm that a curve asks for is one, and once it is there the curve asks for it again.
LEMMA SettledOf ==
  ASSUME NotANumber # LeastInt, NEW leaf, leaf.maxTemp \in Nat, NEW x, x.points \in Curves(leaf),
         x.fanStop \in BOOLEAN, x.fanStartValue \in 0 .. 255, NEW pwm \in Nat, NEW temp \in Int
  PROVE /\ CurvePwm(x, pwm, temp) \in Nat
        /\ CurvePwm(x, CurvePwm(x, pwm, temp), temp) = CurvePwm(x, pwm, temp)
<1> DEFINE startTemp == EvaluatePwm(x.points, Percent(x.fanStartValue))
           onCurve == EvaluateTemp(x.points, temp)
           Asked(p) == PwmStartingAt(startTemp, x, p, temp)
<1>1. startTemp \in Nat /\ onCurve \in Nat
  <2>1. Percent(x.fanStartValue) \in 0 .. 100
    BY PercentOf
  <2>2. \A percent \in 0 .. 100 : percent \in Int
    OBVIOUS
  <2>3. QED
    BY SMTT(40), <2>1, <2>2, EvaluatedOf
<1>2. \A p : CurvePwm(x, p, temp) = Asked(p)
  BY DEF CurvePwm
<1> HIDE DEF startTemp
<1>3. startTemp # LeastInt
  BY <1>1 DEF LeastInt
<1>4. \A p : Asked(p) =
        IF x.fanStop /\ \/ p > 0 /\ temp < startTemp - Hysteresis
                        \/ p = 0 /\ temp < startTemp
        THEN 0
        ELSE IF x.fanStop /\ p > 0 /\ temp < startTemp THEN x.fanStartValue
        ELSE onCurve
  BY <1>3 DEF PwmStartingAt, BelowHysteresis
<1> HIDE DEF Asked, onCurve
<1>5. Asked(pwm) \in Nat /\ Asked(Asked(pwm)) = Asked(pwm)
  BY <1>1, <1>4 DEF Hysteresis
<1>6. QED
  BY <1>2, <1>5

(***************************************************************************)
(* What a pass leaves                                                      *)
(***************************************************************************)

\* The hardware has the pwm that a fan remembers, if the fan is controlled by it.
Agrees(leaf, x, s) ==
  /\ leaf.kind = "FanFixed" /\ x.lastValue # NoPwm /\ s[1]["pwm1_enable"] = 1 => s[1]["pwm1"] = x.lastValue
  /\ leaf.kind = "FanCurve" /\ x.lastPwm # NoPwm /\ s[1]["pwm1_enable"] = 1 => s[1]["pwm1"] = x.lastPwm

\* The states are enabled that a control does not remember to have to write.
Selected(leaf, x, s) ==
  leaf.kind = "PMFixedFreq" =>
    /\ ~x.sclk.resync => s[2].enabled["pp_dpm_sclk"] = x.sclk.active
    /\ ~x.mclk.resync => s[2].enabled["pp_dpm_mclk"] = x.mclk.active

\* What a curve reads are numbers.
Felt(leaf, s) == leaf.kind = "FanCurve" => s[1]["pwm1"] \in Nat /\ s[1]["temp1_input"] \in Int

\* A control outside the table, and what it controls.
Ready(x, s) ==
  /\ machine \in Machines /\ l \in Leaves(machine) /\ ~InTable(l)
  /\ count.faults \in Nat
  /\ l.kind = "FanCurve" => NotANumber # LeastInt
  /\ \E d : Configured(l, d, x)
  /\ Lively(machine, l, s) /\ Felt(l, s)

\* What the writes of sync do.
Syncs(x, s) ==
  LET at == ControlAt(x, s[1])
      after == Executed(machine, s, at.sync)
  IN  /\ Agrees(l, x, s) => Agrees(l, at.synced, after)
      /\ Selected(l, x, s) => Selected(l, at.synced, after)
      /\ Felt(l, after)
      /\ (count.faults = 0 => Agrees(l, x, s) /\ (retaken \/ Selected(l, x, s))) => InEffect(at.synced, after)

\* A control of which nothing has to be remembered.
LEMMA Unmarked ==
  ASSUME NEW x, NEW s, ~InTable(l), l.kind \notin {"FanFixed", "FanCurve", "PMFixedFreq"},
         LET methods == Leaf(l, x, s[1])
         IN  {"synced"} \cap DOMAIN methods = {} /\ "sync" \in DOMAIN methods
               /\ InEffect(x, Executed(machine, s, methods.sync))
  PROVE Syncs(x, s)
<1> DEFINE at == ControlAt(x, s[1])
           methods == Leaf(l, x, s[1])
<1>1. at.sync = methods.sync /\ at.synced = x
  BY OwnMethods
<1> HIDE DEF at, methods
<1>2. InEffect(at.synced, Executed(machine, s, at.sync))
  BY <1>1 DEF methods
<1>3. QED
  BY <1>2 DEF Syncs, Agrees, Selected, Felt, at

Both(after, f1, v1, f2, v2) == after[1][f1] = v1 /\ after[1][f2] = v2

\* Two writes that two files need.
LEMMA DiffersBoth ==
  ASSUME NEW m, NEW s, NEW f1, NEW f2, f1 # f2, {f1, f2} \subseteq DOMAIN s[1], Plain(f1), Plain(f2), NEW v1, NEW v2
  PROVE Both(Executed(m, s, Differs(s[1], f1, v1) \o Differs(s[1], f2, v2)), f1, v1, f2, v2)
<1> DEFINE first == Differs(s[1], f1, v1)
           second == Differs(s[1], f2, v2)
           between == Executed(m, s, first)
           T == {Write(f1, v1), Write(f2, v2)}
<1>0. Write(f1, v1) \in T /\ Write(f2, v2) \in T
  OBVIOUS
<1> HIDE DEF T
<1>1. first \in Seq(T) /\ second \in Seq(T)
  BY <1>0, DiffersSeq
<1>2. between[1][f1] = v1 /\ between[1][f2] = s[1][f2] /\ DOMAIN between[1] = DOMAIN s[1]
  <2>1. f1 \in DOMAIN s[1] /\ f2 \in DOMAIN s[1] \ {f1}
    OBVIOUS
  <2>2. Sets(s, between, f1, v1)
    BY <2>1, DiffersOf
  <2> HIDE DEF between
  <2>3. QED
    BY <2>1, <2>2 DEF Sets
<1>3. second = Differs(between[1], f2, v2)
  BY <1>2 DEF Differs
<1> HIDE DEF first, second, between
<1>4. Executed(m, s, first \o second) = Executed(m, between, second)
  BY <1>1, ExecutedBoth DEF between
<1> DEFINE after == Executed(m, between, second)
<1>5. after[1][f2] = v2 /\ after[1][f1] = between[1][f1]
  <2> DEFINE next == Executed(m, between, Differs(between[1], f2, v2))
  <2>1. f2 \in DOMAIN between[1] /\ f1 \in DOMAIN between[1] \ {f2}
    BY <1>2
  <2>2. Sets(between, next, f2, v2)
    BY <2>1, DiffersOf
  <2>3. after = next
    BY <1>3
  <2> HIDE DEF after, next
  <2>4. QED
    BY <2>1, <2>2, <2>3 DEF Sets
<1>6. QED
  BY <1>2, <1>4, <1>5 DEF first, second, Both

\* Two writes in any case.
LEMMA PlainBoth ==
  ASSUME NEW m, NEW s, NEW f1, NEW f2, f1 # f2, {f1, f2} \subseteq DOMAIN s[1], Plain(f1), Plain(f2), NEW v1, NEW v2
  PROVE Both(Executed(m, s, <<Write(f1, v1), Write(f2, v2)>>), f1, v1, f2, v2)
<1> DEFINE a == Write(f1, v1)
           b == Write(f2, v2)
<1>1. Written(m, s, a) = <<[s[1] EXCEPT ![f1] = v1], s[2]>>
  BY PlainOf
<1> DEFINE between == Written(m, s, a)
<1>2. Written(m, between, b) = <<[between[1] EXCEPT ![f2] = v2], between[2]>>
  BY PlainOf
<1> HIDE DEF a, b
<1>3. Executed(m, s, <<a, b>>) = Written(m, between, b)
  BY ExecutedTwo
<1> DEFINE after == Executed(m, s, <<a, b>>)
<1>4. after[1][f1] = v1 /\ after[1][f2] = v2
  BY <1>1, <1>2, <1>3
<1>5. QED
  BY <1>4 DEF a, b, Both

\* What is in the files of a control that is ready.
LEMMA ReadyOf ==
  ASSUME NEW x, NEW s, Ready(x, s)
  PROVE /\ l.kind \in Kinds /\ Found(machine, l) /\ DOMAIN s[1] = DOMAIN machine.files
        /\ \A names : Valid(machine, names) => names \subseteq DOMAIN s[1]
<1>1. machine \in Machines /\ l \in Leaves(machine) /\ Lively(machine, l, s)
  BY DEF Ready
<1>2. DOMAIN s[1] = DOMAIN machine.files
  BY <1>1 DEF Lively, Shaped, ShapedFiles
<1>3. QED
  BY <1>1, <1>2, FoundOf DEF Valid

\* The sync of a control of levels or of numbers puts its settings into effect.
LEMMA LevelsSync ==
  ASSUME NEW x, NEW s, Ready(x, s), l.kind \notin {"PMPowerProfile", "PMFixedFreq", "FanFixed", "FanCurve"}
  PROVE Syncs(x, s)
<1> DEFINE files == s[1]
           methods == Leaf(l, x, files)
           after == Executed(machine, s, methods.sync)
<1>1. /\ l.kind \in Kinds /\ Found(machine, l) /\ ~InTable(l)
      /\ \A names : Valid(machine, names) => names \subseteq DOMAIN files
  BY ReadyOf DEF Ready
<1>2. SUFFICES {"synced"} \cap DOMAIN methods = {} /\ "sync" \in DOMAIN methods /\ InEffect(x, after)
  BY <1>1, Unmarked
<1>3. ASSUME NEW file, Plain(file), file \in DOMAIN files, NEW value, methods.sync = Differs(files, file, value)
      PROVE after[1][file] = value
  <2>1. Sets(s, Executed(machine, s, Differs(files, file, value)), file, value)
    BY <1>3, DiffersOf
  <2> HIDE DEF methods
  <2>2. QED
    BY <1>3, <2>1 DEF Sets
<1>4. CASE l.kind = "PMAuto"
  <2>1. CASE l.legacy
    <3> DEFINE a == Write("power_method", "profile")
               b == Write("power_profile", "auto")
    <3>1. /\ methods.sync = (IF files["power_method"] = "profile" /\ files["power_profile"] = "auto" THEN <<>> ELSE <<a, b>>)
          /\ {"synced"} \cap DOMAIN methods = {} /\ "sync" \in DOMAIN methods
      BY <1>4, <2>1 DEF Leaf, PMAuto, PMAutoLegacy
    <3>2. {"power_method", "power_profile"} \subseteq DOMAIN files
      BY <1>1, <1>4, <2>1 DEF Found
    <3>3. Plain("power_method") /\ Plain("power_profile")
      BY DEF Plain, DpmFiles, Table
    <3> HIDE DEF methods
    <3>4. after[1]["power_method"] = "profile" /\ after[1]["power_profile"] = "auto"
      <4>1. CASE files["power_method"] = "profile" /\ files["power_profile"] = "auto"
        BY <3>1, <4>1, ExecutedNone
      <4>2. CASE ~(files["power_method"] = "profile" /\ files["power_profile"] = "auto")
        <5>1. after = Executed(machine, s, <<a, b>>)
          BY <3>1, <4>2
        <5>2. QED
          BY <3>2, <3>3, <5>1, PlainBoth DEF Both
      <4>3. QED
        BY <4>1, <4>2
    <3>5. InEffect(x, after)
      BY <1>4, <2>1, <3>4 DEF InEffect
    <3>6. QED
      BY <3>1, <3>5
  <2>2. CASE ~l.legacy
    <3>1. methods.sync = Differs(files, Level, "auto") /\ {"synced"} \cap DOMAIN methods = {} /\ "sync" \in DOMAIN methods
      BY <1>4, <2>2 DEF Leaf, PMAuto, PMAutoR600
    <3>2. Level \in DOMAIN files
      BY <1>1, <1>4, <2>2 DEF Found
    <3>3. Plain(Level)
      BY DEF Plain, DpmFiles, Table, Level
    <3>4. after[1][Level] = "auto"
      BY <1>3, <3>1, <3>2, <3>3
    <3>5. InEffect(x, after)
      BY <1>4, <2>2, <3>4 DEF InEffect
    <3>6. QED
      BY <3>1, <3>5
  <2>3. QED
    BY <2>1, <2>2
<1>5. CASE l.kind = "PMFixed"
  <2>1. CASE l.legacy
    <3> DEFINE a == Write("power_method", "profile")
               b == Write("power_profile", x.mode)
    <3>1. /\ methods.sync = (IF files["power_method"] # "profile" THEN <<a, b>> ELSE Differs(files, "power_profile", x.mode))
          /\ {"synced"} \cap DOMAIN methods = {} /\ "sync" \in DOMAIN methods
      BY <1>5, <2>1 DEF Leaf, PMFixed, PMFixedLegacy
    <3>2. {"power_method", "power_profile"} \subseteq DOMAIN files
      BY <1>1, <1>5, <2>1 DEF Found
    <3>3. Plain("power_method") /\ Plain("power_profile")
      BY DEF Plain, DpmFiles, Table
    <3> HIDE DEF methods
    <3>4. after[1]["power_method"] = "profile" /\ after[1]["power_profile"] = x.mode
      <4>1. CASE files["power_method"] = "profile"
        <5>1. methods.sync = Differs(files, "power_profile", x.mode)
          BY <3>1, <4>1
        <5>2. Sets(s, after, "power_profile", x.mode)
          BY <3>2, <3>3, <5>1, DiffersOf
        <5>3. QED
          BY <3>2, <4>1, <5>2 DEF Sets
      <4>2. CASE files["power_method"] # "profile"
        <5>1. after = Executed(machine, s, <<a, b>>)
          BY <3>1, <4>2
        <5>2. QED
          BY <3>2, <3>3, <5>1, PlainBoth DEF Both
      <4>3. QED
        BY <4>1, <4>2
    <3>5. InEffect(x, after)
      BY <1>5, <2>1, <3>4 DEF InEffect
    <3>6. QED
      BY <3>1, <3>5
  <2>2. CASE ~l.legacy
    <3>1. methods.sync = Differs(files, Level, x.mode) /\ {"synced"} \cap DOMAIN methods = {} /\ "sync" \in DOMAIN methods
      BY <1>5, <2>2 DEF Leaf, PMFixed, PMFixedR600
    <3>2. Level \in DOMAIN files
      BY <1>1, <1>5, <2>2 DEF Found
    <3>3. Plain(Level)
      BY DEF Plain, DpmFiles, Table, Level
    <3>4. after[1][Level] = x.mode
      BY <1>3, <3>1, <3>2, <3>3
    <3>5. InEffect(x, after)
      BY <1>5, <2>2, <3>4 DEF InEffect
    <3>6. QED
      BY <3>1, <3>5
  <2>3. QED
    BY <2>1, <2>2
<1>6. CASE l.kind = "PMDynamicFreq"
  <2>1. methods.sync = Differs(files, Level, "auto") /\ {"synced"} \cap DOMAIN methods = {} /\ "sync" \in DOMAIN methods
    BY <1>6 DEF Leaf, PMDynamicFreq
  <2>2. Level \in DOMAIN files /\ Plain(Level)
    BY <1>1, <1>6 DEF Found, Plain, DpmFiles, Table, Level
  <2>3. after[1][Level] = "auto"
    BY <1>3, <2>1, <2>2
  <2>4. InEffect(x, after)
    BY <1>6, <2>3 DEF InEffect
  <2>5. QED
    BY <2>1, <2>4
<1>7. CASE l.kind = "PMPowerState"
  <2>1. /\ methods.sync = Differs(files, "power_dpm_state", x.mode)
        /\ {"synced"} \cap DOMAIN methods = {} /\ "sync" \in DOMAIN methods
    BY <1>7 DEF Leaf, PMPowerState
  <2>2. "power_dpm_state" \in DOMAIN files /\ Plain("power_dpm_state")
    BY <1>1, <1>7 DEF Found, Plain, DpmFiles, Table
  <2>3. after[1]["power_dpm_state"] = x.mode
    BY <1>3, <2>1, <2>2
  <2>4. InEffect(x, after)
    BY <1>7, <2>3 DEF InEffect
  <2>5. QED
    BY <2>1, <2>4
<1>8. CASE l.kind = "FanAuto"
  <2>1. methods.sync = Differs(files, "pwm1_enable", 2) /\ {"synced"} \cap DOMAIN methods = {} /\ "sync" \in DOMAIN methods
    BY <1>8 DEF Leaf, FanAuto
  <2>2. "pwm1_enable" \in DOMAIN files /\ Plain("pwm1_enable")
    BY <1>1, <1>8 DEF Found, Plain, DpmFiles, Table
  <2>3. after[1]["pwm1_enable"] = 2
    BY <1>3, <2>1, <2>2
  <2>4. InEffect(x, after)
    BY <1>8, <2>3 DEF InEffect
  <2>5. QED
    BY <2>1, <2>4
<1>9. CASE l.kind = "PMPowerCap"
  <2> DEFINE w == Write("power1_cap", x.value)
  <2>1. methods.sync = Differs(files, "power1_cap", x.value) /\ {"synced"} \cap DOMAIN methods = {} /\ "sync" \in DOMAIN methods
    BY <1>9 DEF Leaf, PMPowerCap
  <2>2. "power1_cap" \in DOMAIN files /\ l.min > 0
    BY <1>1, <1>9 DEF Found
  <2>3. x.value # 0
    <3>1. PICK d : Configured(l, d, x)
      BY DEF Ready
    <3>2. x.value \in l.min .. l.max
      BY <1>9, <3>1 DEF Configured
    <3>3. IsRange(l.min, l.max)
      BY <1>9, MachinesAssumption DEF Ready, HasRanges
    <3>4. QED
      BY <2>2, <3>2, <3>3 DEF IsRange
  <2>4. Written(machine, s, w) = <<[files EXCEPT !["power1_cap"] = x.value], s[2]>>
    <3>1. w.file = "power1_cap" /\ w.value = x.value
      BY DEF Write
    <3> HIDE DEF w
    <3>2. w.file \notin DpmFiles \cup {Table, "pp_power_profile_mode"} /\ w.file # "pwm1"
      BY <3>1 DEF DpmFiles, Table
    <3>3. Written(machine, s, w) = <<[files EXCEPT ![w.file] = w.value], s[2]>>
      BY <2>3, <3>1, <3>2, WrittenIs
    <3>4. QED
      BY <3>1, <3>3
  <2> HIDE DEF w, methods
  <2>5. after[1]["power1_cap"] = x.value
    <3>1. CASE files["power1_cap"] = x.value
      BY <2>1, <3>1, ExecutedNone DEF Differs
    <3>2. CASE files["power1_cap"] # x.value
      <4>1. methods.sync = <<w>>
        BY <2>1, <3>2 DEF Differs, w
      <4>2. after = Written(machine, s, w)
        BY <4>1, ExecutedOne
      <4>3. QED
        BY <2>2, <2>4, <4>2
    <3>3. QED
      BY <3>1, <3>2
  <2>6. InEffect(x, after)
    BY <1>9, <2>5 DEF InEffect
  <2>7. QED
    BY <2>1, <2>6
<1>10. CASE l.kind = "PMFreqOd"
  <2>1. /\ methods.sync = Differs(files, "pp_sclk_od", x.sclkOd) \o Differs(files, "pp_mclk_od", x.mclkOd)
        /\ {"synced"} \cap DOMAIN methods = {} /\ "sync" \in DOMAIN methods
    BY <1>10 DEF Leaf, PMFreqOd
  <2>2. {"pp_sclk_od", "pp_mclk_od"} \subseteq DOMAIN files /\ Plain("pp_sclk_od") /\ Plain("pp_mclk_od")
    BY <1>1, <1>10 DEF Found, Plain, DpmFiles, Table
  <2> HIDE DEF methods
  <2>3. Both(after, "pp_sclk_od", x.sclkOd, "pp_mclk_od", x.mclkOd)
    BY <2>1, <2>2, DiffersBoth
  <2>4. InEffect(x, after)
    BY <1>10, <2>3 DEF InEffect, Both
  <2>5. QED
    BY <2>1, <2>4
<1>11. CASE l.kind = "CPUFreq"
  <2> DEFINE f1 == "scaling_governor 0"
             f2 == "scaling_governor 1"
  <2>1. /\ methods.sync = Differs(files, f1, x.scalingGovernor) \o Differs(files, f2, x.scalingGovernor)
        /\ {"synced"} \cap DOMAIN methods = {} /\ "sync" \in DOMAIN methods
    BY <1>11 DEF Leaf, CPUFreq
  <2>2. {f1, f2} \subseteq DOMAIN files /\ Plain(f1) /\ Plain(f2) /\ f1 # f2
    BY <1>1, <1>11 DEF Found, Plain, DpmFiles, Table
  <2> HIDE DEF methods
  <2>3. Both(after, f1, x.scalingGovernor, f2, x.scalingGovernor)
    BY <2>1, <2>2, DiffersBoth
  <2>4. InEffect(x, after)
    BY <1>11, <2>3 DEF InEffect, Both
  <2>5. QED
    BY <2>1, <2>4
<1>12. QED
  BY <1>1, <1>4, <1>5, <1>6, <1>7, <1>8, <1>9, <1>10, <1>11 DEF Kinds, InTable

\* A write at the manual level.
LEMMA AtManual ==
  ASSUME NEW m, NEW s, NEW files, Level \in DOMAIN s[1], files[Level] = "manual" => s[1][Level] = "manual", NEW w
  PROVE \E between : Sets(s, between, Level, "manual") /\ Executed(m, s, Manual(files) \o <<w>>) = Written(m, between, w)
<1> DEFINE a == Write(Level, "manual")
           first == Manual(files)
           between == Executed(m, s, first)
<1>1. first = (IF files[Level] = "manual" THEN <<>> ELSE <<a>>)
  BY DEF Manual, Differs
<1>2. Sets(s, between, Level, "manual")
  <2>1. CASE files[Level] = "manual"
    <3>1. between = s
      BY <1>1, <2>1, ExecutedNone
    <3>2. QED
      BY <2>1, <3>1 DEF Sets
  <2>2. CASE files[Level] # "manual"
    <3>1. Plain(Level)
      BY DEF Plain, DpmFiles, Table, Level
    <3>2. Written(m, s, a) = <<[s[1] EXCEPT ![Level] = "manual"], s[2]>>
      BY <3>1, PlainOf
    <3>3. between = Written(m, s, a)
      BY <1>1, <2>2, ExecutedOne
    <3> HIDE DEF a, between
    <3>4. QED
      BY <3>2, <3>3 DEF Sets
  <2>3. QED
    BY <2>1, <2>2
<1> DEFINE T == {a, w}
<1>3. a \in T /\ w \in T
  OBVIOUS
<1> HIDE DEF a, T
<1>4. first \in Seq(T) /\ <<w>> \in Seq(T)
  BY <1>1, <1>3, ShortCalls
<1> HIDE DEF first
<1>5. Executed(m, s, first \o <<w>>) = Executed(m, between, <<w>>)
  BY ZenonT(60), <1>4, ExecutedBoth
<1>6. Executed(m, between, <<w>>) = Written(m, between, w)
  BY ExecutedOne
<1> HIDE DEF between
<1>7. QED
  BY <1>2, <1>5, <1>6 DEF first

\* A power profile that is selected is the current one.
LEMMA ProfileSelected ==
  ASSUME NEW x, NEW s, Ready(x, s), l.kind = "PMPowerProfile", NEW mode \in l.modes, NEW files,
         files[Level] = "manual" => s[1][Level] = "manual"
  PROVE LET select == <<Write("pp_power_profile_mode", l.index[mode])>>
            after == Executed(machine, s, Manual(files) \o select)
        IN  ParsePowerProfileModeCurrentModeIndex(after[1]["pp_power_profile_mode"]) = l.index[mode]
<1> DEFINE profiles == "pp_power_profile_mode"
           w == Write(profiles, l.index[mode])
           after == Executed(machine, s, Manual(files) \o <<w>>)
<1>1. {Level, profiles} \subseteq DOMAIN s[1]
  <2>1. Found(machine, l) /\ \A names : Valid(machine, names) => names \subseteq DOMAIN s[1]
    BY ReadyOf
  <2>2. QED
    BY <2>1 DEF Found
<1>2. w.file = profiles /\ w.value = l.index[mode] /\ profiles # Level
  BY DEF Write, Level
<1> HIDE DEF w
<1>3. PICK between : Sets(s, between, Level, "manual") /\ after = Written(machine, between, w)
  BY <1>1, AtManual
<1>4. /\ between[1][profiles] = s[1][profiles] /\ profiles \in DOMAIN between[1]
      /\ Level \in DOMAIN between[1] /\ between[1][Level] = "manual"
  BY <1>1, <1>2, <1>3 DEF Sets
<1>5. after[1][profiles] = MarkedAs(s[1][profiles], l.index[mode])
  <2>1. after = <<[between[1] EXCEPT ![profiles] = MarkedAs(@, w.value)], between[2]>>
    BY <1>2, <1>3, <1>4, WrittenIs
  <2> HIDE DEF after
  <2>2. QED
    BY <1>2, <1>4, <2>1
<1>6. /\ machine.files[profiles] \in Seq(Lines)
      /\ \E k \in DOMAIN machine.files[profiles] :
           machine.files[profiles][k].t = "mode" /\ machine.files[profiles][k].index = l.index[mode]
  BY ListsOf DEF Ready
<1>7. Alike(s[1][profiles], machine.files[profiles])
  <2>1. profiles \in DOMAIN machine.files
    BY <1>1, ReadyOf
  <2>2. QED
    BY <2>1 DEF Ready, Lively, Shaped, ShapedFiles, Lists
<1>8. ParsePowerProfileModeCurrentModeIndex(MarkedAs(s[1][profiles], l.index[mode])) = l.index[mode]
  BY <1>6, <1>7, CurrentOf
<1>9. QED
  BY <1>5, <1>8 DEF w

\* Selecting a power profile takes effect.
LEMMA ProfileSync ==
  ASSUME NEW x, NEW s, Ready(x, s), l.kind = "PMPowerProfile"
  PROVE Syncs(x, s)
<1> DEFINE files == s[1]
           methods == Leaf(l, x, files)
           after == Executed(machine, s, methods.sync)
           select == <<Write("pp_power_profile_mode", l.index[x.mode])>>
           current == ParsePowerProfileModeCurrentModeIndex(files["pp_power_profile_mode"])
           manual == Manual(files)
<1>1. /\ methods.sync = (IF manual # <<>> THEN manual \o select
                         ELSE IF current \in {Absent, l.index[x.mode]} THEN <<>> ELSE select)
      /\ {"synced"} \cap DOMAIN methods = {} /\ "sync" \in DOMAIN methods
  BY DEF Leaf, PMPowerProfile
<1>2. x.mode \in l.modes /\ current # Absent
  BY DEF Ready, Configured, Settable, Lively
<1> HIDE DEF methods, current
<1>3. ParsePowerProfileModeCurrentModeIndex(Executed(machine, s, manual \o select)[1]["pp_power_profile_mode"]) = l.index[x.mode]
  BY <1>2, ProfileSelected
<1> HIDE DEF select, manual
<1>4. ParsePowerProfileModeCurrentModeIndex(after[1]["pp_power_profile_mode"]) = l.index[x.mode]
  <2>1. CASE methods.sync = <<>>
    <3>1. current = l.index[x.mode]
      <4>1. manual = <<>> => manual \o select = select /\ select # <<>>
        BY DEF select
      <4>2. manual # <<>> => manual \o select # <<>>
        <5>1. SUFFICES ASSUME manual # <<>> PROVE manual = <<Write(Level, "manual")>>
          BY DEF select
        <5>2. QED
          BY <5>1 DEF manual, Manual, Differs
      <4>3. QED
        BY <1>1, <1>2, <2>1, <4>1, <4>2
    <3>2. after = s
      BY <2>1, ExecutedNone
    <3>3. QED
      BY <3>1, <3>2 DEF current
  <2>2. CASE methods.sync # <<>>
    <3>1. methods.sync = manual \o select
      <4>1. CASE manual = <<>>
        <5>1. manual \o select = select
          BY <4>1 DEF select
        <5>2. QED
          BY <1>1, <2>2, <4>1, <5>1
      <4>2. CASE manual # <<>>
        BY <1>1, <4>2
      <4>3. QED
        BY <4>1, <4>2
    <3>2. QED
      BY <1>3, <3>1
  <2>3. QED
    BY <2>1, <2>2
<1>5. InEffect(x, after)
  BY <1>4 DEF InEffect
<1>6. ~InTable(l) /\ l.kind \notin {"FanFixed", "FanCurve", "PMFixedFreq"}
  BY DEF Ready
<1>7. QED
  BY <1>1, <1>5, <1>6, Unmarked DEF methods

\* The states that a DPM file is given are enabled, whatever the other has.
Enables(s, after, file, states) ==
  /\ after[1][Level] = "manual" /\ DOMAIN after[1] = DOMAIN s[1]
  /\ after[2].enabled[file] = states
  /\ \A other \in DpmFiles : other # file =>
       /\ other \in DOMAIN s[1] => after[1][other] = s[1][other]
       /\ after[2].enabled[other] = s[2].enabled[other]

\* The manual level and the mask, in that order, enable the states.
LEMMA EnablesOf ==
  ASSUME NEW m, NEW s, Shaped(m, s), NEW file \in DpmFiles, {Level, file} \subseteq DOMAIN s[1],
         NEW files, files[Level] = "manual" => s[1][Level] = "manual", NEW states
  PROVE LET after == Executed(m, s, Manual(files) \o <<Write(file, states)>>)
        IN  Enables(s, after, file, states) /\ Shaped(m, after)
<1> DEFINE w == Write(file, states)
           after == Executed(m, s, Manual(files) \o <<w>>)
<1>1. w.file = file /\ w.value = states /\ file # Level /\ Level \notin DpmFiles
  BY DEF Write, DpmFiles, Level
<1> HIDE DEF w
<1>2. PICK between : Sets(s, between, Level, "manual") /\ after = Written(m, between, w)
  BY AtManual
<1>3. Shaped(m, between)
  <2>1. between[2] = s[2] /\ DOMAIN between[1] = DOMAIN s[1]
        /\ \A other \in DOMAIN s[1] : other # Level => between[1][other] = s[1][other]
    BY <1>2 DEF Sets
  <2>2. Level \notin Lists
    BY DEF Lists, DpmFiles, Level
  <2>3. QED
    BY <2>1, <2>2 DEF Shaped, ShapedFiles, ShapedDriver
<1>4. Shaped(m, after)
  BY <1>2, <1>3, WrittenShaped
<1>5. OnlyChanged(file, between, after)
  BY <1>1, <1>2, <1>3, OthersKept DEF Shaped
<1>6. DOMAIN after[1] = DOMAIN s[1]
  BY <1>3, <1>4 DEF Shaped, ShapedFiles
<1>7. after[1][Level] = "manual"
  BY <1>1, <1>2, <1>5 DEF Sets, OnlyChanged
<1>8. after[2].enabled[file] = states
  <2> DEFINE d == between[2]
             Enabling == [d EXCEPT !.enabled[file] = states]
  <2>1. Level \in DOMAIN between[1] /\ between[1][Level] = "manual"
    BY <1>2 DEF Sets
  <2>2. after = <<IF ParseDPMCurrentStateIndex(between[1][w.file]) \in w.value THEN between[1]
                  ELSE [between[1] EXCEPT ![w.file] = MarkedAs(@, Min(w.value))],
                  [d EXCEPT !.enabled[w.file] = w.value]>>
    BY <1>1, <1>2, <2>1, WrittenIs
  <2>3. after[2] = Enabling
    BY <1>1, <2>2
  <2>4. {"table", "enabled"} \subseteq DOMAIN d /\ file \in DOMAIN d.enabled
    BY <1>3 DEF Shaped, ShapedDriver, ShapedFiles
  <2> HIDE DEF d, after
  <2>5. QED
    BY <2>3, <2>4
<1>9. ASSUME NEW other \in DpmFiles, other # file
      PROVE /\ other \in DOMAIN s[1] => after[1][other] = s[1][other]
            /\ after[2].enabled[other] = s[2].enabled[other]
  BY <1>1, <1>2, <1>5, <1>9 DEF Sets, OnlyChanged
<1> HIDE DEF after
<1>10. Enables(s, after, file, states)
  BY <1>6, <1>7, <1>8, <1>9 DEF Enables
<1>11. QED
  BY <1>4, <1>10 DEF after, w

\* The sync of a handler: it writes, and need not any more, or it had written before.
Handled(s, after, h, synced, file, current) ==
  /\ synced.active = h.active
  /\ \/ ~synced.resync /\ Enables(s, after, file, h.active)
     \/ synced = h /\ ~h.resync /\ after = s /\ current \in h.active

\* The handler of a state file enables its states, or leaves them alone when the current one is one of them.
LEMMA HandledOf ==
  ASSUME NEW m, NEW s, Shaped(m, s), NEW file \in DpmFiles, {Level, file} \subseteq DOMAIN s[1],
         NEW files, files[Level] = "manual" => s[1][Level] = "manual",
         NEW current, current = ParseDPMCurrentStateIndex(files[file]), current # Absent,
         NEW all, NEW h \in Handlers(all), NEW states
  PROVE LET handler == PpDpmHandler(h, file, states, files)
            after == Executed(m, s, handler.sync)
        IN  Handled(s, after, h, handler.synced, file, current) /\ Shaped(m, after)
<1> DEFINE handler == PpDpmHandler(h, file, states, files)
           after == Executed(m, s, handler.sync)
           apply == Manual(files) # <<>> \/ (current # Absent /\ (h.resync \/ current \notin h.active))
           calls == Manual(files) \o <<Write(file, h.active)>>
<1>1. /\ handler.sync = (IF apply THEN calls ELSE <<>>)
      /\ handler.synced = (IF apply THEN [h EXCEPT !.resync = FALSE] ELSE h)
  BY DEF PpDpmHandler
<1>2. Enables(s, Executed(m, s, calls), file, h.active) /\ Shaped(m, Executed(m, s, calls))
  BY EnablesOf
<1>3. h.resync \in BOOLEAN /\ [h EXCEPT !.resync = FALSE].resync = FALSE /\ [h EXCEPT !.resync = FALSE].active = h.active
  BY DEF Handlers
<1> HIDE DEF handler, calls
<1>4. CASE apply
  <2>1. after = Executed(m, s, calls) /\ handler.synced.resync = FALSE /\ handler.synced.active = h.active
    BY <1>1, <1>3, <1>4
  <2>2. QED
    BY <1>2, <2>1 DEF Handled, handler
<1>5. CASE ~apply
  <2>1. after = s /\ handler.synced = h
    BY <1>1, <1>5, ExecutedNone
  <2>2. ~h.resync /\ current \in h.active
    BY <1>5
  <2>3. QED
    BY <2>1, <2>2 DEF Handled, handler
<1>6. QED
  BY <1>4, <1>5

\* The frequencies asked for are enabled.
LEMMA FreqSync ==
  ASSUME NEW x, NEW s, Ready(x, s), l.kind = "PMFixedFreq"
  PROVE Syncs(x, s)
<1> DEFINE files == s[1]
           methods == Leaf(l, x, files)
           sclk == PpDpmHandler(x.sclk, "pp_dpm_sclk", l.sclk, files)
           mclk == PpDpmHandler(x.mclk, "pp_dpm_mclk", l.mclk, files)
           between == Executed(machine, s, sclk.sync)
           after == Executed(machine, between, mclk.sync)
           synced == [sclk |-> sclk.synced, mclk |-> mclk.synced]
           first == ParseDPMCurrentStateIndex(files["pp_dpm_sclk"])
           second == ParseDPMCurrentStateIndex(files["pp_dpm_mclk"])
<1>1. /\ methods.sync = sclk.sync \o mclk.sync /\ methods.synced = synced
      /\ {"sync", "synced"} \subseteq DOMAIN methods
  BY Zenon DEF Leaf, PMFixedFreq
<1>2. /\ machine \in Machines /\ ~InTable(l) /\ count.faults \in Nat /\ Shaped(machine, s)
      /\ first # Absent /\ second # Absent
  <2>1. Lively(machine, l, s)
    BY DEF Ready
  <2>2. "pp_dpm_sclk" \in DpmFiles /\ "pp_dpm_mclk" \in DpmFiles
    BY DEF DpmFiles
  <2>3. QED
    BY <2>1, <2>2 DEF Ready, Lively
<1>3. {Level, "pp_dpm_sclk", "pp_dpm_mclk"} \subseteq DOMAIN files
  <2>1. Found(machine, l) /\ \A names : Valid(machine, names) => names \subseteq DOMAIN files
    BY ReadyOf
  <2>2. QED
    BY <2>1 DEF Found
<1>4. x.sclk \in Handlers(l.sclk) /\ x.mclk \in Handlers(l.mclk)
  BY DEF Ready, Configured
<1>5. "pp_dpm_sclk" \in DpmFiles /\ "pp_dpm_mclk" \in DpmFiles
  BY DEF DpmFiles
<1>6. Handled(s, between, x.sclk, sclk.synced, "pp_dpm_sclk", first) /\ Shaped(machine, between)
  BY <1>2, <1>3, <1>4, <1>5, HandledOf
<1> HIDE DEF sclk, between, first
<1>7. /\ DOMAIN between[1] = DOMAIN files
      /\ files[Level] = "manual" => between[1][Level] = "manual"
      /\ {Level, "pp_dpm_mclk"} \subseteq DOMAIN between[1]
      /\ between[2].enabled["pp_dpm_mclk"] = s[2].enabled["pp_dpm_mclk"]
  BY <1>3, <1>5, <1>6 DEF Handled, Enables
<1>8. Handled(between, after, x.mclk, mclk.synced, "pp_dpm_mclk", second) /\ Shaped(machine, after)
  BY <1>2, <1>3, <1>4, <1>5, <1>6, <1>7, HandledOf
<1> HIDE DEF mclk, after, second
<1>9. /\ after[2].enabled["pp_dpm_sclk"] = between[2].enabled["pp_dpm_sclk"]
      /\ after[1]["pp_dpm_sclk"] = between[1]["pp_dpm_sclk"]
  BY <1>3, <1>5, <1>7, <1>8 DEF Handled, Enables
<1>10. Executed(machine, s, sclk.sync \o mclk.sync) = after
  <2> DEFINE U == {Write(Level, "manual"), Write("pp_dpm_sclk", x.sclk.active), Write("pp_dpm_mclk", x.mclk.active)}
             a == Write("pp_dpm_sclk", x.sclk.active)
             b == Write("pp_dpm_mclk", x.mclk.active)
  <2>2. Write(Level, "manual") \in U /\ a \in U /\ b \in U
    OBVIOUS
  <2>3. sclk.sync \in {Manual(files) \o <<a>>, <<>>} /\ mclk.sync \in {Manual(files) \o <<b>>, <<>>}
    BY DEF sclk, mclk, PpDpmHandler
  <2> HIDE DEF U, a, b
  <2>4. Manual(files) \in Seq(U) /\ <<a>> \in Seq(U) /\ <<b>> \in Seq(U) /\ <<>> \in Seq(U)
    BY <2>2, DiffersSeq, ShortCalls DEF Manual
  <2>5. Manual(files) \o <<a>> \in Seq(U) /\ Manual(files) \o <<b>> \in Seq(U)
    BY <2>4
  <2>6. sclk.sync \in Seq(U) /\ mclk.sync \in Seq(U)
    BY <2>3, <2>4, <2>5
  <2>7. QED
    BY <2>6, ExecutedBoth DEF between, after
<1>11. ASSUME Selected(l, x, s) PROVE Selected(l, synced, after)
  BY <1>5, <1>6, <1>7, <1>8, <1>9, <1>11 DEF Selected, Handled, Enables
<1>12. ASSUME count.faults = 0 => retaken \/ Selected(l, x, s) PROVE InEffect(synced, after)
  <2>1. Enabled(after, "pp_dpm_sclk", synced.sclk.active)
    <3>1. CASE ~sclk.synced.resync /\ Enables(s, between, "pp_dpm_sclk", x.sclk.active)
      BY <1>6, <1>9, <3>1 DEF Enabled, Enables, Handled
    <3>2. CASE sclk.synced = x.sclk /\ ~x.sclk.resync /\ between = s /\ first \in x.sclk.active
      BY <1>2, <1>9, <1>12, <3>2 DEF Enabled, Selected, first
    <3>3. QED
      BY <1>6, <3>1, <3>2 DEF Handled
  <2>2. Enabled(after, "pp_dpm_mclk", synced.mclk.active)
    <3>1. CASE ~mclk.synced.resync /\ Enables(between, after, "pp_dpm_mclk", x.mclk.active)
      BY <1>8, <3>1 DEF Enabled, Enables, Handled
    <3>2. CASE mclk.synced = x.mclk /\ ~x.mclk.resync /\ after = between /\ second \in x.mclk.active
      <4>1. after[1]["pp_dpm_mclk"] = files["pp_dpm_mclk"]
        BY <1>3, <1>5, <1>6, <3>2 DEF Handled, Enables
      <4>2. QED
        BY <1>2, <1>7, <1>12, <3>2, <4>1 DEF Enabled, Selected, second
    <3>3. QED
      BY <1>8, <3>1, <3>2 DEF Handled
  <2>3. QED
    BY <2>1, <2>2 DEF InEffect
<1> DEFINE at == ControlAt(x, files)
<1>13. at.sync = sclk.sync \o mclk.sync /\ at.synced = synced
  BY <1>1, <1>2, OwnMethods
<1> HIDE DEF at, synced
<1>14. QED
  BY Zenon, <1>10, <1>11, <1>12, <1>13 DEF Syncs, Agrees, Felt, at

\* A fan is controlled by a pwm.
Blown(s, after, pwm) ==
  /\ after[1]["pwm1_enable"] = 1 /\ after[1]["pwm1"] = pwm
  /\ "temp1_input" \in DOMAIN s[1] => after[1]["temp1_input"] = s[1]["temp1_input"]

\* The writes of a fan control turn the fan at the pwm.
LEMMA BlownOf ==
  ASSUME NEW m, NEW s, {"pwm1_enable", "pwm1"} \subseteq DOMAIN s[1], NEW pwm
  PROVE /\ Blown(s, Executed(m, s, <<Write("pwm1_enable", 1), Write("pwm1", pwm)>>), pwm)
        /\ s[1]["pwm1_enable"] = 1 => Blown(s, Executed(m, s, <<Write("pwm1", pwm)>>), pwm)
<1> DEFINE a == Write("pwm1_enable", 1)
           b == Write("pwm1", pwm)
           between == <<[s[1] EXCEPT !["pwm1_enable"] = 1], s[2]>>
<1>1. Written(m, s, a) = between
  <2>1. Plain("pwm1_enable")
    BY DEF Plain, DpmFiles, Table
  <2>2. QED
    BY <2>1, PlainOf
<1>2. b.file = "pwm1" /\ b.value = pwm
  BY DEF Write
<1> HIDE DEF a, b
<1>3. ASSUME NEW r, r[1]["pwm1_enable"] = 1 PROVE Written(m, r, b) = <<[r[1] EXCEPT !["pwm1"] = pwm], r[2]>>
  <2>1. b.file \notin DpmFiles \cup {Table, "pp_power_profile_mode"} /\ b.file # "power1_cap"
    BY <1>2 DEF DpmFiles, Table
  <2>2. Written(m, r, b) = <<[r[1] EXCEPT ![b.file] = b.value], r[2]>>
    BY <1>2, <1>3, <2>1, WrittenIs
  <2>3. QED
    BY <1>2, <2>2
<1>4. Blown(s, Executed(m, s, <<a, b>>), pwm)
  <2>1. Executed(m, s, <<a, b>>) = Written(m, between, b)
    BY <1>1, ExecutedTwo
  <2>2. between[1]["pwm1_enable"] = 1
    OBVIOUS
  <2>3. Written(m, between, b) = <<[between[1] EXCEPT !["pwm1"] = pwm], between[2]>>
    BY <1>3, <2>2
  <2>4. QED
    BY <2>1, <2>3 DEF Blown
<1>5. s[1]["pwm1_enable"] = 1 => Blown(s, Executed(m, s, <<b>>), pwm)
  <2>1. Executed(m, s, <<b>>) = Written(m, s, b)
    BY ExecutedOne
  <2>2. QED
    BY <1>3, <2>1 DEF Blown
<1>6. QED
  BY <1>4, <1>5 DEF a, b

\* The sync of a fan that remembers a pwm.
Keeps(s, after, last, pwm) ==
  /\ after[1]["pwm1"] \in {pwm, s[1]["pwm1"]} /\ Blown(s, after, after[1]["pwm1"])
  /\ (last # NoPwm /\ s[1]["pwm1_enable"] = 1 => s[1]["pwm1"] = last) => after[1]["pwm1"] = pwm

\* A fan control that is still in control writes the pwm when its own last one or the file differs.
LEMMA FanOf ==
  ASSUME NEW m, NEW s, {"pwm1_enable", "pwm1"} \subseteq DOMAIN s[1], NEW pwm \in Nat, NEW last, NEW needed \in BOOLEAN,
         ~needed => s[1]["pwm1"] = pwm \/ last = pwm, NEW writes,
         writes = IF s[1]["pwm1_enable"] # 1 THEN <<Write("pwm1_enable", 1), Write("pwm1", pwm)>>
                  ELSE IF needed THEN <<Write("pwm1", pwm)>> ELSE <<>>
  PROVE Keeps(s, Executed(m, s, writes), last, pwm)
<1> DEFINE after == Executed(m, s, writes)
<1>1. ASSUME Blown(s, after, pwm)
      PROVE after[1]["pwm1"] = pwm /\ Blown(s, after, after[1]["pwm1"])
  <2> HIDE DEF after
  <2>1. QED
    BY <1>1 DEF Blown
<1>2. CASE s[1]["pwm1_enable"] # 1
  <2>1. Blown(s, after, pwm)
    BY <1>2, BlownOf
  <2> HIDE DEF after
  <2>2. QED
    BY <1>1, <2>1 DEF Keeps, after
<1>3. CASE s[1]["pwm1_enable"] = 1 /\ needed
  <2>1. writes = <<Write("pwm1", pwm)>>
    BY <1>3
  <2>2. Blown(s, after, pwm)
    BY <1>3, <2>1, BlownOf
  <2> HIDE DEF after
  <2>3. QED
    BY <1>1, <2>2 DEF Keeps, after
<1>4. CASE s[1]["pwm1_enable"] = 1 /\ ~needed
  <2>1. after = s
    BY <1>4, ExecutedNone
  <2>2. pwm # NoPwm
    BY DEF NoPwm
  <2> HIDE DEF after
  <2>3. QED
    BY <1>4, <2>1, <2>2 DEF Blown, Keeps, after
<1> HIDE DEF after
<1>5. QED
  BY <1>2, <1>3, <1>4 DEF Keeps, after

\* The fan turns as its settings ask.
LEMMA FanSync ==
  ASSUME NEW x, NEW s, Ready(x, s), l.kind \in {"FanFixed", "FanCurve"}
  PROVE Syncs(x, s)
<1> DEFINE files == s[1]
           methods == Leaf(l, x, files)
           at == ControlAt(x, files)
           after == Executed(machine, s, at.sync)
<1>1. /\ ~InTable(l) /\ count.faults \in Nat
      /\ Found(machine, l) /\ \A names : Valid(machine, names) => names \subseteq DOMAIN files
  BY ReadyOf DEF Ready
<1>2. PICK d : Configured(l, d, x)
  BY DEF Ready
<1>3. CASE l.kind = "FanFixed"
  <2> DEFINE pwm == FixedPwm(x)
             needed == x.lastValue # pwm /\ files["pwm1"] # pwm
             synced == [x EXCEPT !.lastValue = pwm]
  <2>1. x \in [value : 0 .. 255, fanStop : BOOLEAN, fanStartValue : 0 .. 255, lastValue : Int]
    BY <1>2, <1>3 DEF Configured
  <2>2. pwm \in Nat /\ FixedPwm(synced) = pwm /\ synced.lastValue = pwm
    BY <2>1 DEF FixedPwm
  <2>3. {"pwm1_enable", "pwm1"} \subseteq DOMAIN files
    BY <1>1, <1>3 DEF Found
  <2>4. /\ methods.sync = (IF files["pwm1_enable"] # 1 THEN <<Write("pwm1_enable", 1), Write("pwm1", pwm)>>
                           ELSE IF needed THEN <<Write("pwm1", pwm)>> ELSE <<>>)
        /\ methods.synced = synced /\ {"sync", "synced"} \subseteq DOMAIN methods
    BY <1>3 DEF Leaf, FanFixed, Differs
  <2> HIDE DEF methods, pwm
  <2>5. /\ at.sync = (IF files["pwm1_enable"] # 1 THEN <<Write("pwm1_enable", 1), Write("pwm1", pwm)>>
                      ELSE IF needed THEN <<Write("pwm1", pwm)>> ELSE <<>>)
        /\ at.synced = synced
    BY <1>1, <2>4, OwnMethods DEF methods
  <2>0. needed \in BOOLEAN /\ (~needed => files["pwm1"] = pwm \/ x.lastValue = pwm)
    OBVIOUS
  <2> HIDE DEF at, needed
  <2>6. /\ Blown(s, after, after[1]["pwm1"])
        /\ (x.lastValue # NoPwm /\ files["pwm1_enable"] = 1 => files["pwm1"] = x.lastValue) => after[1]["pwm1"] = pwm
    <3>1. Keeps(s, after, x.lastValue, pwm)
      BY <2>0, <2>2, <2>3, <2>5, FanOf
    <3> HIDE DEF after
    <3>2. QED
      BY <3>1 DEF Keeps
  <2> HIDE DEF after, synced
  <2>7. Agrees(l, x, s) => after[1]["pwm1"] = pwm
    BY <1>3, <2>6 DEF Agrees
  <2>8. after[1]["pwm1"] = pwm => Agrees(l, synced, after)
    BY <1>3, <2>2 DEF Agrees
  <2>9. ASSUME count.faults = 0 => Agrees(l, x, s) PROVE InEffect(synced, after)
    <3>1. Blows(after, pwm)
      BY <1>1, <2>6, <2>7, <2>9 DEF Blows, Blown
    <3>2. QED
      BY <1>3, <2>2, <3>1 DEF InEffect, pwm
  <2>10. QED
    BY <1>3, <2>5, <2>7, <2>8, <2>9 DEF Syncs, Selected, Felt, at, after
<1>4. CASE l.kind = "FanCurve"
  <2> DEFINE pwm == CurvePwm(x, files["pwm1"], files["temp1_input"])
             needed == (files["pwm1"] # pwm /\ x.lastPwm # pwm) \/ x.lastFanStop # x.fanStop
             synced == [x EXCEPT !.lastPwm = pwm, !.lastFanStop = x.fanStop]
  <2>1. x \in [points : Curves(l), fanStop : BOOLEAN, fanStartValue : 0 .. 255,
               lastPwm : {x.lastPwm}, lastFanStop : {x.lastFanStop}]
    BY <1>2, <1>4 DEF Configured
  <2>2. NotANumber # LeastInt /\ files["pwm1"] \in Nat /\ files["temp1_input"] \in Int /\ l.maxTemp \in Nat
    BY <1>1, <1>4 DEF Ready, Felt, Found
  <2>3. pwm \in Nat /\ CurvePwm(x, pwm, files["temp1_input"]) = pwm
    BY <2>1, <2>2, SettledOf
  <2>4. {"pwm1_enable", "pwm1", "temp1_input"} \subseteq DOMAIN files
    BY <1>1, <1>4 DEF Found
  <2>5. /\ methods.sync = (IF files["pwm1_enable"] # 1 THEN <<Write("pwm1_enable", 1), Write("pwm1", pwm)>>
                           ELSE IF needed THEN <<Write("pwm1", pwm)>> ELSE <<>>)
        /\ methods.synced = synced /\ {"sync", "synced"} \subseteq DOMAIN methods
    BY <1>4 DEF Leaf, FanCurve, FanCurveAt
  <2> HIDE DEF pwm
  <2>6. \A p, t : CurvePwm(synced, p, t) = CurvePwm(x, p, t)
    <3>1. synced.points = x.points /\ synced.fanStop = x.fanStop /\ synced.fanStartValue = x.fanStartValue
      BY <2>1
    <3> HIDE DEF synced
    <3>2. QED
      BY <3>1 DEF CurvePwm, PwmStartingAt
  <2>7. synced.lastPwm = pwm
    BY <2>1
  <2> HIDE DEF methods
  <2>8. /\ at.sync = (IF files["pwm1_enable"] # 1 THEN <<Write("pwm1_enable", 1), Write("pwm1", pwm)>>
                      ELSE IF needed THEN <<Write("pwm1", pwm)>> ELSE <<>>)
        /\ at.synced = synced
    BY <1>1, <2>5, OwnMethods DEF methods
  <2>0. needed \in BOOLEAN /\ (~needed => files["pwm1"] = pwm \/ x.lastPwm = pwm)
    OBVIOUS
  <2> HIDE DEF at, synced, needed
  <2>9. /\ after[1]["pwm1"] \in {pwm, files["pwm1"]} /\ Blown(s, after, after[1]["pwm1"])
        /\ (x.lastPwm # NoPwm /\ files["pwm1_enable"] = 1 => files["pwm1"] = x.lastPwm) => after[1]["pwm1"] = pwm
    <3>1. Keeps(s, after, x.lastPwm, pwm)
      BY <2>0, <2>3, <2>4, <2>8, FanOf
    <3> HIDE DEF after
    <3>2. QED
      BY <3>1 DEF Keeps
  <2> HIDE DEF after
  <2>10. after[1]["temp1_input"] = files["temp1_input"] /\ Felt(l, after)
    BY <2>2, <2>3, <2>4, <2>9 DEF Blown, Felt
  <2>11. Agrees(l, x, s) => after[1]["pwm1"] = pwm
    BY <1>4, <2>9 DEF Agrees
  <2>12. after[1]["pwm1"] = pwm => Agrees(l, synced, after)
    BY <1>4, <2>7 DEF Agrees
  <2>13. ASSUME count.faults = 0 => Agrees(l, x, s) PROVE InEffect(synced, after)
    <3>1. Blows(after, CurvePwm(synced, after[1]["pwm1"], after[1]["temp1_input"]))
      <4>1. CASE count.faults = 0
        BY <2>3, <2>6, <2>9, <2>10, <2>11, <2>13, <4>1 DEF Blows, Blown
      <4>2. CASE count.faults # 0
        BY <1>1, <2>9, <4>2 DEF Blows, Blown
      <4>3. QED
        BY <4>1, <4>2
    <3>2. QED
      BY <1>4, <3>1 DEF InEffect
  <2>14. QED
    BY <1>4, <2>8, <2>10, <2>11, <2>12, <2>13 DEF Syncs, Selected, at, after
<1>5. QED
  BY <1>3, <1>4

\* The sync of a control outside the table puts its settings into effect.
LEMMA SyncsOf == \A x, s : Ready(x, s) => Syncs(x, s)
BY LevelsSync, ProfileSync, FreqSync, FanSync

\* The hardware has its defaults again.
Back(s) ==
  IF l.kind = "PMFixedFreq"
  THEN s[2].enabled["pp_dpm_sclk"] = l.sclk /\ s[2].enabled["pp_dpm_mclk"] = l.mclk
  ELSE TakenBack(s)

\* What the writes of clean do.
Cleans(x, s) ==
  LET at == ControlAt(x, s[1])
      after == Executed(machine, s, at.clean)
  IN  /\ \A t : Agrees(l, at.cleaned, t)
      /\ l.kind \in {"FanFixed", "FanCurve"} => at.clean = <<>>
      /\ Back(after)

\* A cleaned control has given back what it took.
LEMMA CleansOf ==
  ASSUME NEW x, NEW s, Ready(x, s)
  PROVE Cleans(x, s)
<1> DEFINE files == s[1]
           methods == Leaf(l, x, files)
           at == ControlAt(x, files)
           after == Executed(machine, s, methods.clean)
<1>1. /\ l.kind \in Kinds /\ Found(machine, l) /\ ~InTable(l) /\ machine \in Machines /\ l \in Leaves(machine)
      /\ \A names : Valid(machine, names) => names \subseteq DOMAIN files
  BY ReadyOf DEF Ready
<1>2. SUFFICES /\ "clean" \in DOMAIN methods /\ Back(after)
               /\ l.kind \in {"FanFixed", "FanCurve"} =>
                    methods.clean = <<>> /\ "cleaned" \in DOMAIN methods /\ \A t : Agrees(l, methods.cleaned, t)
  <2>1. "clean" \in DOMAIN methods => at.clean = methods.clean
    BY <1>1, OwnMethods
  <2>2. "cleaned" \in DOMAIN methods => at.cleaned = methods.cleaned
    BY <1>1, OwnMethods
  <2> HIDE DEF methods, at
  <2>3. l.kind \notin {"FanFixed", "FanCurve"} => \A t : Agrees(l, at.cleaned, t)
    BY DEF Agrees
  <2>4. QED
    BY <2>1, <2>2, <2>3 DEF Cleans, at
<1>3. CASE l.kind \in {"PMAuto", "PMDynamicFreq"}
  <2>1. "clean" \in DOMAIN methods
    BY <1>3 DEF Leaf, PMAuto, PMAutoLegacy, PMAutoR600, PMDynamicFreq
  <2>2. QED
    BY <1>1, <1>3, <2>1 DEF Back, TakenBack
<1>4. CASE l.kind \in {"PMPowerState", "CPUFreq", "FanAuto"}
  <2>1. "clean" \in DOMAIN methods
    BY <1>4 DEF Leaf, PMPowerState, CPUFreq, FanAuto
  <2>2. QED
    BY <1>1, <1>4, <2>1 DEF Back, TakenBack
<1>5. CASE l.kind = "FanFixed"
  <2>1. {"clean", "cleaned"} \subseteq DOMAIN methods /\ methods.clean = <<>> /\ methods.cleaned = [x EXCEPT !.lastValue = NoPwm]
    BY <1>5 DEF Leaf, FanFixed
  <2>2. [x EXCEPT !.lastValue = NoPwm].lastValue = NoPwm
    <3>1. PICK d : Configured(l, d, x)
      BY DEF Ready
    <3>2. QED
      BY <1>5, <3>1 DEF Configured
  <2> HIDE DEF methods
  <2>3. QED
    BY <1>1, <1>5, <2>1, <2>2 DEF Back, TakenBack, Agrees
<1>6. CASE l.kind = "FanCurve"
  <2>1. /\ {"clean", "cleaned"} \subseteq DOMAIN methods /\ methods.clean = <<>>
        /\ methods.cleaned = [x EXCEPT !.lastPwm = NoPwm, !.lastFanStop = FALSE]
    BY <1>6 DEF Leaf, FanCurve, FanCurveAt
  <2>2. [x EXCEPT !.lastPwm = NoPwm, !.lastFanStop = FALSE].lastPwm = NoPwm
    <3>1. PICK d : Configured(l, d, x)
      BY DEF Ready
    <3>2. QED
      BY <1>6, <3>1 DEF Configured
  <2> HIDE DEF methods
  <2>3. QED
    BY <1>1, <1>6, <2>1, <2>2 DEF Back, TakenBack, Agrees
<1>7. CASE l.kind = "PMFixed"
  <2>1. CASE l.legacy
    <3>1. /\ methods.clean = <<Write("power_method", "profile"), Write("power_profile", "auto")>> /\ "clean" \in DOMAIN methods
      BY <1>7, <2>1 DEF Leaf, PMFixed, PMFixedLegacy
    <3>2. {"power_method", "power_profile"} \subseteq DOMAIN files /\ Plain("power_method") /\ Plain("power_profile")
      BY <1>1, <1>7, <2>1 DEF Found, Plain, DpmFiles, Table
    <3> HIDE DEF methods
    <3>3. Both(after, "power_method", "profile", "power_profile", "auto")
      BY <3>1, <3>2, PlainBoth
    <3> HIDE DEF after
    <3>4. Back(after)
      BY <1>1, <1>7, <2>1, <3>1, <3>3 DEF Back, TakenBack, Both
    <3>5. QED
      BY <1>7, <3>1, <3>4
  <2>2. CASE ~l.legacy
    <3> DEFINE w == Write(Level, "auto")
    <3>1. /\ methods.clean = <<w>> /\ "clean" \in DOMAIN methods
      BY <1>7, <2>2 DEF Leaf, PMFixed, PMFixedR600
    <3>2. Level \in DOMAIN files /\ Plain(Level)
      BY <1>1, <1>7, <2>2 DEF Found, Plain, DpmFiles, Table, Level
    <3>3. Written(machine, s, w) = <<[files EXCEPT ![Level] = "auto"], s[2]>>
      BY <3>2, PlainOf
    <3> HIDE DEF methods, w
    <3>4. after = Written(machine, s, w)
      BY <3>1, ExecutedOne
    <3>5. after[1][Level] = "auto"
      BY <3>2, <3>3, <3>4
    <3> HIDE DEF after
    <3>6. Back(after)
      BY <1>1, <1>7, <2>2, <3>1, <3>5 DEF Back, TakenBack
    <3>7. QED
      BY <1>7, <3>1, <3>6
  <2>3. QED
    BY <2>1, <2>2
<1>8. CASE l.kind = "PMPowerProfile"
  <2> DEFINE select == <<Write("pp_power_profile_mode", l.index[l.new.mode])>>
  <2>1. methods.clean = Manual(files) \o select /\ "clean" \in DOMAIN methods
    BY <1>8 DEF Leaf, PMPowerProfile
  <2>2. l.new.mode \in l.modes
    BY <1>1, <1>8 DEF Found
  <2> HIDE DEF methods
  <2>3. ParsePowerProfileModeCurrentModeIndex(Executed(machine, s, Manual(files) \o select)[1]["pp_power_profile_mode"])
          = l.index[l.new.mode]
    BY <1>8, <2>2, ProfileSelected
  <2>4. ParsePowerProfileModeCurrentModeIndex(after[1]["pp_power_profile_mode"]) = l.index[l.new.mode]
    BY <2>1, <2>3
  <2> HIDE DEF after
  <2>5. Back(after)
    BY <1>1, <1>8, <2>4 DEF Back, TakenBack
  <2>6. QED
    BY SMTT(40), <1>8, <2>1, <2>5
<1>9. CASE l.kind = "PMPowerCap"
  <2> DEFINE w == Write("power1_cap", 0)
  <2>1. methods.clean = <<w>> /\ "clean" \in DOMAIN methods
    BY <1>9 DEF Leaf, PMPowerCap
  <2>2. "power1_cap" \in DOMAIN files
    BY <1>1, <1>9 DEF Found
  <2>3. w.file = "power1_cap" /\ w.value = 0
    BY DEF Write
  <2> HIDE DEF methods, w
  <2>4. Written(machine, s, w) = <<[files EXCEPT !["power1_cap"] = machine.files["power1_cap"]], s[2]>>
    BY <2>3, WrittenIs
  <2>5. after = Written(machine, s, w)
    BY <2>1, ExecutedOne
  <2>6. after[1]["power1_cap"] = machine.files["power1_cap"]
    BY <2>2, <2>4, <2>5
  <2> HIDE DEF after
  <2>7. Back(after)
    BY <1>1, <1>9, <2>1, <2>6 DEF Back, TakenBack
  <2>8. QED
    BY <1>9, <2>1, <2>7
<1>10. CASE l.kind = "PMFreqOd"
  <2>1. methods.clean = <<Write("pp_sclk_od", 0), Write("pp_mclk_od", 0)>> /\ "clean" \in DOMAIN methods
    BY <1>10 DEF Leaf, PMFreqOd
  <2>2. {"pp_sclk_od", "pp_mclk_od"} \subseteq DOMAIN files /\ Plain("pp_sclk_od") /\ Plain("pp_mclk_od")
    BY <1>1, <1>10 DEF Found, Plain, DpmFiles, Table
  <2> HIDE DEF methods
  <2>3. Both(after, "pp_sclk_od", 0, "pp_mclk_od", 0)
    BY <2>1, <2>2, PlainBoth
  <2> HIDE DEF after
  <2>4. Back(after)
    BY <1>1, <1>10, <2>1, <2>3 DEF Back, TakenBack, Both
  <2>5. QED
    BY <1>10, <2>1, <2>4
<1>11. CASE l.kind = "PMFixedFreq"
  <2> DEFINE a == Write("pp_dpm_sclk", l.sclk)
             b == Write("pp_dpm_mclk", l.mclk)
             first == Manual(files) \o <<a>>
             second == Manual(files) \o <<b>>
             between == Executed(machine, s, first)
             last == Executed(machine, between, second)
  <2>1. methods.clean = first \o second /\ "clean" \in DOMAIN methods
    BY Zenon, <1>11 DEF Leaf, PMFixedFreq, PpDpmHandler
  <2>2. {Level, "pp_dpm_sclk", "pp_dpm_mclk"} \subseteq DOMAIN files
    BY <1>1, <1>11 DEF Found
  <2>3. Shaped(machine, s) /\ "pp_dpm_sclk" \in DpmFiles /\ "pp_dpm_mclk" \in DpmFiles
    BY DEF Ready, Lively, DpmFiles
  <2>4. Enables(s, between, "pp_dpm_sclk", l.sclk) /\ Shaped(machine, between)
    BY <2>2, <2>3, EnablesOf
  <2> HIDE DEF between
  <2>5. {Level, "pp_dpm_mclk"} \subseteq DOMAIN between[1] /\ between[1][Level] = "manual"
    BY <2>2, <2>4 DEF Enables
  <2>6. Enables(between, last, "pp_dpm_mclk", l.mclk)
    BY <2>3, <2>4, <2>5, EnablesOf
  <2> HIDE DEF last, methods
  <2>7. after = last
    <3> DEFINE U == {Write(Level, "manual"), a, b}
    <3>1. Write(Level, "manual") \in U /\ a \in U /\ b \in U
      OBVIOUS
    <3> HIDE DEF U, a, b
    <3>2. Manual(files) \in Seq(U) /\ <<a>> \in Seq(U) /\ <<b>> \in Seq(U)
      BY <3>1, DiffersSeq, ShortCalls DEF Manual
    <3>3. first \in Seq(U) /\ second \in Seq(U)
      BY <3>2
    <3> HIDE DEF first, second
    <3>4. QED
      BY <2>1, <3>3, ExecutedBoth DEF between, last
  <2>8. after[2].enabled["pp_dpm_sclk"] = l.sclk /\ after[2].enabled["pp_dpm_mclk"] = l.mclk
    BY <2>3, <2>4, <2>6, <2>7 DEF Enables
  <2>9. QED
    BY Zenon, <1>11, <2>1, <2>8 DEF Back
<1>12. QED
  BY <1>1, <1>3, <1>4, <1>5, <1>6, <1>7, <1>8, <1>9, <1>10, <1>11 DEF Kinds, InTable

(***************************************************************************)
(* Passes outside the table                                                *)
(***************************************************************************)

\* A call whose writes are all harmless leaves the machine lively.
LEMMA CallLively ==
  ASSUME NEW m \in Machines, NEW leaf \in Leaves(m), NEW s, Lively(m, leaf, s),
         NEW T, \A w \in T : Harmless(m, leaf, w), NEW writes \in Seq(T)
  PROVE Lively(m, leaf, Executed(m, s, writes))
<1>1. Len(writes) \in Nat /\ \A k \in 1 .. Len(writes) : writes[k] \in T
  OBVIOUS
<1>2. QED
  BY <1>1, ExecutedLively

\* What the control remembers, and what is written, up to the sync of a pass.
Cleaned == IF dirty THEN ControlAt(c, hw).cleaned ELSE c
CleanWrites == IF dirty THEN ControlAt(c, hw).clean ELSE <<>>

\* A pass cleans a control that was left, then syncs it if it is active.
LEMMA PassedIs ==
  ASSUME NEW passed \in AfterPass
  PROVE LET at == ControlAt(Cleaned, hw)
        IN  /\ passed.c = IF active THEN at.synced ELSE Cleaned
            /\ passed.writes = IF active THEN CleanWrites \o at.sync ELSE CleanWrites
<1> DEFINE methods == ControlAt(c, hw)
           x == IF dirty THEN [c |-> methods.cleaned, writes |-> methods.clean] ELSE [c |-> c, writes |-> <<>>]
<1>1. AfterClean = {x}
  BY DEF AfterClean
<1>2. x.c = Cleaned /\ x.writes = CleanWrites
  BY DEF Cleaned, CleanWrites
<1> HIDE DEF x
<1> DEFINE at == ControlAt(x.c, hw)
           y == IF active THEN [c |-> at.synced, writes |-> x.writes \o at.sync] ELSE x
<1>3. AfterSync(x, hw) = {y}
  BY DEF AfterSync
<1>4. y.c = (IF active THEN at.synced ELSE x.c) /\ y.writes = IF active THEN x.writes \o at.sync ELSE x.writes
  OBVIOUS
<1> HIDE DEF y, at
<1>5. passed = y
  BY <1>1, <1>3 DEF AfterPass
<1>6. QED
  BY <1>2, <1>4, <1>5 DEF at

\* What a control outside the table remembers is so, as long as no call is lost.
Held ==
  LET s == <<hw, driver>>
  IN  /\ count \in [changes : Nat, imports : Nat, faults : Nat]
      /\ Lively(machine, l, s) /\ Felt(l, s)
      /\ start = "none" => ~active /\ ~dirty /\ ~used
      /\ active => used
      /\ active /\ dirty => retaken
      /\ start # "none" /\ count.faults = 0 =>
           /\ Agrees(l, c, s)
           /\ active /\ ~dirty /\ ~retaken => Selected(l, c, s)
           /\ used /\ ~active /\ ~dirty => Back(s)

\* The controls it is about: those outside the table, but no fan curve where the start temperature of a
\* flat end is the least integer, below which no fan stops.
Outside == ~InTable(l) /\ (l.kind = "FanCurve" => NotANumber # LeastInt)

\* What a pass leaves.
AfterOne(x, after) ==
  /\ Configured(l, default, x)
  /\ Lively(machine, l, after) /\ Felt(l, after)
  /\ active /\ ~dirty => InEffect(x, after)
  /\ count.faults = 0 =>
       /\ Agrees(l, x, after)
       /\ active /\ ~dirty /\ ~retaken => Selected(l, x, after)
       /\ ~active /\ used => Back(after)

\* A pass takes effect: what was written is there, and stays there.
LEMMA OnePass ==
  ASSUME Inv, Held, Outside, start # "none", NEW passed \in AfterPass
  PROVE AfterOne(passed.c, Executed(machine, <<hw, driver>>, passed.writes))
<1> DEFINE s == <<hw, driver>>
           x == Cleaned
           at == ControlAt(x, hw)
           after == Executed(machine, s, passed.writes)
<1>0. s[1] = hw /\ s[2] = driver
  OBVIOUS
<1> HIDE DEF s
<1>1. machine \in Machines /\ l \in Leaves(machine) /\ l.kind \in Kinds /\ Configured(l, default, c) /\ ~InTable(l)
  <2>1. machine \in Machines /\ l \in Leaves(machine) /\ Configured(l, default, c)
    BY DEF Inv
  <2>2. QED
    BY <2>1, FoundOf DEF Outside
<1>2. Configured(l, default, x) /\ Configured(l, default, at.synced)
  <2>1. Configured(l, default, ControlAt(c, hw).cleaned)
    BY <1>1, MarksOf
  <2>2. Configured(l, default, x)
    BY <1>1, <2>1 DEF Cleaned
  <2>3. QED
    BY <1>1, <2>2, MarksOf
<1>3. /\ Lively(machine, l, s) /\ Felt(l, s) /\ count.faults \in Nat
      /\ active => used
      /\ active /\ dirty => retaken
      /\ count.faults = 0 =>
           /\ Agrees(l, c, s)
           /\ active /\ ~dirty /\ ~retaken => Selected(l, c, s)
           /\ used /\ ~active /\ ~dirty => Back(s)
  BY DEF Held, s
<1>4. Ready(c, s) /\ Ready(x, s)
  BY <1>1, <1>2, <1>3 DEF Ready, Outside
<1>5. PICK T : Calls(T, ControlAt(c, hw)) /\ \A w \in T : Harmless(machine, l, w)
  BY <1>1, HarmlessAt
<1>6. PICK U : Calls(U, at) /\ \A w \in U : Harmless(machine, l, w)
  BY <1>1, <1>2, HarmlessAt
<1>7. /\ passed.c = IF active THEN at.synced ELSE x
      /\ passed.writes = IF active THEN CleanWrites \o at.sync ELSE CleanWrites
  BY PassedIs
<1> HIDE DEF x
<1>8. at.sync \in Seq(U) /\ at.sync \in Seq(T \cup U) /\ <<>> \o at.sync = at.sync
  <2>1. at.sync \in Seq(U)
    BY <1>6 DEF Calls
  <2> HIDE DEF at
  <2>2. QED
    BY <2>1
<1>9. CleanWrites \in Seq(T) /\ CleanWrites \in Seq(T \cup U)
  <2>1. CleanWrites \in Seq(T)
    <3>1. ControlAt(c, hw).clean \in Seq(T) /\ <<>> \in Seq(T)
      BY <1>5 DEF Calls
    <3>2. QED
      BY <3>1 DEF CleanWrites
  <2>2. QED
    BY <2>1
<1>10. Lively(machine, l, after)
  <2>1. passed.writes \in Seq(T \cup U)
    <3> HIDE DEF at
    <3>1. CleanWrites \o at.sync \in Seq(T \cup U)
      BY <1>8, <1>9
    <3>2. QED
      BY <1>7, <1>9, <3>1
  <2>2. \A w \in T \cup U : Harmless(machine, l, w)
    BY <1>5, <1>6
  <2>3. QED
    BY <1>1, <1>3, <2>1, <2>2, CallLively
<1>11. Configured(l, default, passed.c)
  BY <1>2, <1>7
<1>12. dirty => /\ \A t : Agrees(l, x, t)
                /\ l.kind \in {"FanFixed", "FanCurve"} => CleanWrites = <<>>
                /\ Back(Executed(machine, s, CleanWrites))
  <2>1. Cleans(c, s)
    BY <1>4, CleansOf
  <2>2. dirty => x = ControlAt(c, s[1]).cleaned /\ CleanWrites = ControlAt(c, s[1]).clean
    BY <1>0 DEF x, Cleaned, CleanWrites
  <2>3. QED
    BY <2>1, <2>2 DEF Cleans
<1>13. ~dirty => x = c /\ CleanWrites = <<>>
  BY DEF x, Cleaned, CleanWrites
<1> DEFINE synced == Executed(machine, s, at.sync)
<1>14. /\ Agrees(l, x, s) => Agrees(l, at.synced, synced)
       /\ Selected(l, x, s) => Selected(l, at.synced, synced)
       /\ Felt(l, synced)
       /\ (count.faults = 0 => Agrees(l, x, s) /\ (retaken \/ Selected(l, x, s))) => InEffect(at.synced, synced)
  <2>1. Syncs(x, s)
    BY <1>4, SyncsOf
  <2>2. QED
    BY <1>0, <2>1 DEF Syncs
<1>15. CASE ~active /\ ~dirty
  <2>1. after = s /\ passed.c = c
    BY <1>7, <1>13, <1>15, ExecutedNone
  <2> HIDE DEF after
  <2>2. QED
    BY <1>3, <1>10, <1>11, <1>15, <2>1 DEF AfterOne, after, s
<1>16. CASE ~active /\ dirty
  <2>1. after = Executed(machine, s, CleanWrites) /\ passed.c = x
    BY <1>7, <1>16
  <2>2. l.kind = "FanCurve" => after = s
    BY <1>12, <1>16, <2>1, ExecutedNone
  <2> HIDE DEF after
  <2>3. Felt(l, after)
    BY <1>3, <2>2 DEF Felt
  <2>4. QED
    BY <1>10, <1>11, <1>12, <1>16, <2>1, <2>3 DEF AfterOne, after, s
<1>17. CASE active /\ ~dirty
  <2>1. after = synced /\ passed.c = at.synced /\ x = c
    BY <1>7, <1>8, <1>13, <1>17
  <2> HIDE DEF after, synced, at
  <2>2. QED
    BY <1>3, <1>10, <1>11, <1>14, <1>17, <2>1 DEF AfterOne, after, s
<1>18. CASE active /\ dirty
  <2>1. passed.c = at.synced
    BY <1>7, <1>18
  <2>2. l.kind \in {"FanFixed", "FanCurve"} => after = synced
    BY <1>7, <1>8, <1>12, <1>18
  <2>3. Agrees(l, x, s)
    BY <1>12, <1>18
  <2> HIDE DEF after, synced, at
  <2>4. Agrees(l, at.synced, synced)
    BY <1>14, <2>3
  <2>5. Agrees(l, passed.c, after)
    <3>1. CASE l.kind \in {"FanFixed", "FanCurve"}
      BY <2>1, <2>2, <2>4, <3>1
    <3>2. CASE l.kind \notin {"FanFixed", "FanCurve"}
      BY <3>2 DEF Agrees
    <3>3. QED
      BY <3>1, <3>2
  <2>6. Felt(l, after)
    BY <1>14, <2>2 DEF Felt
  <2>7. QED
    BY <1>3, <1>10, <1>11, <1>18, <2>1, <2>5, <2>6 DEF AfterOne, after, s
<1>19. QED
  BY <1>15, <1>16, <1>17, <1>18
\* One pass that is executed puts the settings into effect, or takes back what they had changed.
LEMMA EffectOf == Inv /\ Held /\ Outside => PassTakesEffect
<1> SUFFICES ASSUME Inv, Held, Outside, start # "none", NEW passed \in AfterPass
             PROVE LET s == Executed(machine, <<hw, driver>>, passed.writes)
                   IN  /\ active /\ ~dirty => InEffect(passed.c, s)
                       /\ active /\ dirty =>
                            \A next \in AfterSync([c |-> passed.c, writes |-> <<>>], s[1]) :
                              InEffect(next.c, Executed(machine, s, next.writes))
                       /\ ~active /\ used /\ count.faults = 0 => TakenBack(s)
  BY DEF PassTakesEffect
<1> DEFINE s == Executed(machine, <<hw, driver>>, passed.writes)
<1>1. AfterOne(passed.c, s)
  BY OnePass
<1> HIDE DEF s
<1>2. active /\ ~dirty => InEffect(passed.c, s)
  BY <1>1 DEF AfterOne
<1>3. ASSUME active, dirty, NEW next \in AfterSync([c |-> passed.c, writes |-> <<>>], s[1])
      PROVE InEffect(next.c, Executed(machine, s, next.writes))
  <2> DEFINE x == passed.c
             at == ControlAt(x, s[1])
  <2>1. machine \in Machines /\ l \in Leaves(machine) /\ Configured(l, default, x) /\ ~InTable(l)
    BY <1>1 DEF Inv, AfterOne, Outside
  <2>2. count.faults \in Nat /\ retaken
    BY <1>3 DEF Held
  <2>3. Ready(x, s)
    BY <1>1, <2>1, <2>2 DEF Ready, AfterOne, Outside
  <2>4. Syncs(x, s)
    BY <2>3, SyncsOf
  <2>5. InEffect(at.synced, Executed(machine, s, at.sync))
    BY <1>1, <2>2, <2>4 DEF Syncs, AfterOne
  <2>6. PICK T : Calls(T, at)
    BY <2>1, HarmlessAt
  <2> HIDE DEF at
  <2>7. <<>> \o at.sync = at.sync
    BY <2>6 DEF Calls
  <2>8. next = [c |-> at.synced, writes |-> <<>> \o at.sync]
    BY <1>3 DEF AfterSync, at
  <2>9. next.c = at.synced /\ next.writes = at.sync
    BY <2>7, <2>8
  <2>10. QED
    BY <2>5, <2>9
<1>4. ~active /\ used /\ count.faults = 0 => TakenBack(s)
  <2>1. SUFFICES ASSUME Back(s) PROVE TakenBack(s)
    BY <1>1 DEF AfterOne
  <2>2. CASE l.kind = "PMFixedFreq"
    <3>1. Enabled(s, "pp_dpm_sclk", l.sclk) /\ Enabled(s, "pp_dpm_mclk", l.mclk)
      BY <2>1, <2>2 DEF Back, Enabled
    <3>2. QED
      BY <2>2, <3>1 DEF TakenBack, Outside, InTable
  <2>3. CASE l.kind # "PMFixedFreq"
    BY <2>1, <2>3 DEF Back
  <2>4. QED
    BY <2>2, <2>3
<1>5. QED
  BY <1>2, <1>3, <1>4 DEF s

\* A call keeps the shape.
LEMMA ExecutedShaped ==
  ASSUME NEW m, NEW s, Shaped(m, s), NEW writes, Len(writes) \in Nat
  PROVE Shaped(m, Executed(m, s, writes))
<1>1. PICK r : /\ r[0] = s
               /\ \A k \in 1 .. Len(writes) : r[k] = Written(m, r[k - 1], writes[k])
               /\ Executed(m, s, writes) = r[Len(writes)]
  BY Run
<1> DEFINE n == Len(writes)
           G == {k \in Nat : k <= n => Shaped(m, r[k])}
<1> HIDE DEF n
<1>2. 0 \in G
  BY <1>1
<1>3. \A k \in G : k + 1 \in G
  <2>1. SUFFICES ASSUME NEW k \in G, k + 1 <= n PROVE Shaped(m, r[k + 1])
    OBVIOUS
  <2>2. k + 1 \in 1 .. n /\ k + 1 - 1 = k /\ Shaped(m, r[k])
    BY <2>1 DEF n
  <2>3. r[k + 1] = Written(m, r[k], writes[k + 1])
    BY <1>1, <2>2 DEF n
  <2>4. QED
    BY <2>2, <2>3, WrittenShaped
<1>4. G = Nat
  BY <1>2, <1>3, Induct
<1> HIDE DEF G
<1>5. n \in G
  BY <1>4 DEF n
<1>6. QED
  BY <1>1, <1>5 DEF G, n

\* So are the files before the start.
LEMMA BeforeLively ==
  ASSUME NEW m \in Machines, NEW leaf \in Leaves(m), NEW s \in Before(m)
  PROVE Lively(m, leaf, s) /\ Felt(leaf, s)
<1> DEFINE factory == Factory(m)
           changed == Executed(m, factory, m.custom)
           leaves == Leaves(m)
<1>1. Shaped(m, s)
  <2>1. Shaped(m, factory)
    BY FactoryShaped
  <2> HIDE DEF factory
  <2>2. Shaped(m, changed)
    BY <2>1, ExecutedShaped, MachinesAssumption
  <2>3. s \in {factory, changed}
    BY DEF Before, factory
  <2>4. QED
    BY <2>1, <2>2, <2>3
<1>2. \A t \in {factory, changed} :
         /\ \A any \in leaves : Shows(any, t[1])
         /\ \A file \in DpmFiles \cap DOMAIN m.files : t[2].enabled[file] \subseteq DPMStates(m, file)
  BY MachinesAssumption
<1>3. s \in {factory, changed} /\ leaf \in leaves
  BY DEF Before
<1> HIDE DEF factory, changed, leaves
<1>4. Shows(leaf, s[1]) /\ \A file \in DpmFiles \cap DOMAIN m.files : s[2].enabled[file] \subseteq DPMStates(m, file)
  BY <1>2, <1>3
<1>5. leaf.kind = "PMPowerProfile" => ParsePowerProfileModeCurrentModeIndex(s[1]["pp_power_profile_mode"]) # Absent
  BY <1>4 DEF Shows
<1>6. leaf.kind = "PMFixedFreq" => \A file \in DpmFiles :
        ParseDPMCurrentStateIndex(s[1][file]) # Absent /\ s[2].enabled[file] \subseteq DPMStates(m, file)
  <2>1. leaf.kind = "PMFixedFreq" => DpmFiles \subseteq DOMAIN m.files
    BY ListsOf
  <2>2. leaf.kind = "PMFixedFreq" => \A file \in DpmFiles : ParseDPMCurrentStateIndex(s[1][file]) # Absent
    BY <1>4 DEF Shows, DpmFiles
  <2>3. QED
    BY <1>4, <2>1, <2>2
<1>7. Felt(leaf, s)
  BY <1>4 DEF Shows, Felt
<1>8. QED
  BY <1>1, <1>5, <1>6, <1>7 DEF Lively

\* What is known of the files and the driver of a step is known of them after it.
LEMMA Carried ==
  ASSUME UNCHANGED <<machine, l>>, NEW s, hw' = s[1], driver' = s[2]
  PROVE /\ Lively(machine, l, s) /\ Felt(l, s) => Lively(machine, l, <<hw, driver>>)' /\ Felt(l, <<hw, driver>>)'
        /\ Back(s) => Back(<<hw, driver>>)'
        /\ \A x : /\ Agrees(l, x, s) => Agrees(l', x, <<hw', driver'>>)
                  /\ Selected(l, x, s) => Selected(l', x, <<hw', driver'>>)
<1>1. Lively(machine, l, s) /\ Felt(l, s) => Lively(machine, l, <<hw, driver>>)' /\ Felt(l, <<hw, driver>>)'
  BY DEF Lively, Felt, Shaped
<1>2. Back(s) => Back(<<hw, driver>>)'
  <2>1. CASE l.kind = "PMFixedFreq"
    BY <2>1 DEF Back
  <2>2. CASE l.kind # "PMFixedFreq"
    BY <2>2 DEF Back, TakenBack, InTable
  <2>3. QED
    BY <2>1, <2>2
<1>3. ASSUME NEW x
      PROVE /\ Agrees(l, x, s) => Agrees(l', x, <<hw', driver'>>)
            /\ Selected(l, x, s) => Selected(l', x, <<hw', driver'>>)
  BY DEF Agrees, Selected
<1>4. QED
  BY <1>1, <1>2, <1>3

\* Nothing is used at first.
LEMMA InitHeld == Init /\ Outside => Held
<1> SUFFICES ASSUME Init, Outside PROVE Held
  OBVIOUS
<1> DEFINE s == <<hw, driver>>
<1>1. machine \in Machines /\ l \in Leaves(machine) /\ Untouched
  BY InitInv DEF Inv, Init
<1>2. Lively(machine, l, s) /\ Felt(l, s)
  <2>1. PICK before \in Before(machine) : hw = before[1] /\ driver = before[2]
    BY <1>1 DEF Untouched
  <2>2. Lively(machine, l, before) /\ Felt(l, before)
    BY <1>1, BeforeLively
  <2>3. QED
    BY <2>1, <2>2 DEF Lively, Felt, Shaped
<1> HIDE DEF s
<1>3. /\ count = [changes |-> 0, imports |-> 0, faults |-> 0]
      /\ start = "none" /\ ~active /\ ~dirty /\ ~used
  BY DEF Init
<1>4. count \in [changes : Nat, imports : Nat, faults : Nat]
  BY <1>3
<1>5. QED
  BY <1>2, <1>3, <1>4 DEF Held, s

\* What a control outside the table writes to put its settings back.
LEMMA PostOf ==
  ASSUME l.kind \in Kinds, ~InTable(l), NEW x, NEW files
  PROVE LET post == Methods(l, x, files).postInit
        IN  /\ l.kind = "PMPowerCap" => post = <<Write("power1_cap", x.preInit)>>
            /\ l.kind # "PMPowerCap" => post = <<>>
<1> DEFINE methods == Leaf(l, x, files)
<1>1. Methods(l, x, files).postInit = IF "postInit" \in DOMAIN methods THEN methods.postInit ELSE <<>>
  <2> DEFINE r == Over(methods, NoInit(x))
  <2>1. Methods(l, x, files) = r
    BY DEF Methods
  <2> HIDE DEF methods
  <2>2. r.postInit = IF "postInit" \in DOMAIN methods THEN methods.postInit ELSE <<>>
    BY DEF Over, NoInit
  <2> HIDE DEF r
  <2>3. QED
    BY <2>1, <2>2
<1>2. l.kind = "PMPowerCap" => "postInit" \in DOMAIN methods /\ methods.postInit = <<Write("power1_cap", x.preInit)>>
  BY DEF Leaf, PMPowerCap
<1>3. l.kind \in {"PMAuto", "PMFixed"} => "postInit" \notin DOMAIN methods
  BY Zenon DEF Leaf, PMAuto, PMAutoLegacy, PMAutoR600, PMFixed, PMFixedLegacy, PMFixedR600
<1>4. l.kind \in {"PMPowerState", "PMDynamicFreq"} => "postInit" \notin DOMAIN methods
  BY Zenon DEF Leaf, PMPowerState, PMDynamicFreq
<1>5. l.kind \in {"PMFreqOd", "PMPowerProfile", "CPUFreq"} => "postInit" \notin DOMAIN methods
  BY Zenon DEF Leaf, PMFreqOd, PMPowerProfile, CPUFreq
<1>6. l.kind \in {"PMFixedFreq", "FanAuto", "FanFixed", "FanCurve"} => "postInit" \notin DOMAIN methods
  BY Zenon DEF Leaf, PMFixedFreq, FanAuto, FanFixed, FanCurve, FanCurveAt
<1>7. l.kind # "PMPowerCap" => "postInit" \notin DOMAIN methods
  BY <1>3, <1>4, <1>5, <1>6 DEF Kinds, InTable
<1> HIDE DEF methods
<1>8. QED
  BY <1>1, <1>2, <1>7

\* The start of a control outside the table leaves the hardware as it was.
Undisturbed ==
  /\ DOMAIN hw' = DOMAIN hw
  /\ \A file \in DOMAIN hw : hw'[file] = hw[file]
  /\ driver' = driver

\* The start of a control outside the table writes back what it found, its last pwm unset.
LEMMA StartedAlone ==
  ASSUME Inv, Start, ~InTable(l)
  PROVE /\ Undisturbed
        /\ l.kind = "FanFixed" => c'.lastValue = NoPwm
        /\ l.kind = "FanCurve" => c'.lastPwm = NoPwm
<1>1. /\ machine \in Machines /\ l \in Leaves(machine) /\ group = GroupOn(machine) /\ Untouched
      /\ l.kind \in Kinds /\ Found(machine, l)
  <2>1. /\ machine \in Machines /\ l \in Leaves(machine) /\ group = GroupOn(machine) /\ Untouched
    BY DEF Inv, Start
  <2>2. QED
    BY <2>1, FoundOf
<1>2. PICK before, read :
          /\ before = Methods(l, l.new, hw).preInit[1]
          /\ c' = Methods(l, before, read).init
          /\ PutBack(<<hw, driver>>, Methods(l, c', read).postInit)
  BY SMTT(40), <1>1, Started
<1> DEFINE s == <<hw, driver>>
           post == Methods(l, c', read).postInit
<1>3. PICK reset :
        /\ reset = IF l.kind = "PMPowerCap" THEN Written(machine, s, Write("power1_cap", 0)) ELSE s
        /\ hw' = Executed(machine, reset, post)[1] /\ driver' = Executed(machine, reset, post)[2]
  BY <1>2 DEF PutBack
<1>4. /\ l.kind = "PMPowerCap" => post = <<Write("power1_cap", c'.preInit)>>
      /\ l.kind # "PMPowerCap" => post = <<>>
  BY <1>1, PostOf
<1>5. s[1] = hw /\ s[2] = driver
  OBVIOUS
<1>6. /\ l.kind = "PMPowerCap" => before = [l.new EXCEPT !.preInit = hw["power1_cap"]]
      /\ l.kind # "PMPowerCap" => before = l.new
  <2> DEFINE pre == Methods(l, l.new, hw).preInit
  <2>1. /\ l.kind = "PMPowerCap" =>
             pre = <<[l.new EXCEPT !.preInit = hw["power1_cap"]], <<Write("power1_cap", 0)>>>>
        /\ l.kind # "PMPowerCap" => pre = <<l.new, <<>>>>
    BY <1>1, PreOf
  <2> HIDE DEF pre
  <2>2. QED
    BY <1>2, <2>1 DEF pre
<1> HIDE DEF s, post
<1>7. CASE l.kind # "PMPowerCap"
  <2>1. hw' = hw /\ driver' = driver
    BY <1>3, <1>4, <1>5, <1>7, ExecutedNone
  <2>2. l.kind \in {"FanFixed", "FanCurve"} => c' = l.new
    <3> DEFINE methods == Leaf(l, l.new, read)
    <3>1. l.kind \in {"FanFixed", "FanCurve"} => "init" \in DOMAIN methods /\ methods.init = l.new
      BY DEF Leaf, FanFixed, FanCurve, FanCurveAt
    <3>2. "init" \in DOMAIN methods => Methods(l, l.new, read).init = methods.init
      BY OverOf DEF Methods
    <3>3. QED
      BY <1>2, <1>6, <1>7, <3>1, <3>2
  <2>3. l.kind = "FanFixed" => c'.lastValue = NoPwm
    BY <1>1, <2>2 DEF Found
  <2>4. l.kind = "FanCurve" => c'.lastPwm = NoPwm
    BY <1>1, <2>2 DEF Found
  <2>5. QED
    BY <2>1, <2>3, <2>4 DEF Undisturbed
<1>8. CASE l.kind = "PMPowerCap"
  <2> DEFINE cap == "power1_cap"
             w == Write(cap, hw[cap])
             r == Write(cap, 0)
  <2>1. hw[cap] \in Nat \ {0} /\ cap \in DOMAIN hw
    <3>1. Shows(l, hw) /\ DOMAIN hw = DOMAIN machine.files
      BY <1>1, ShownBefore DEF Untouched
    <3>2. QED
      BY <1>1, <1>8, <3>1 DEF Shows, Found, Valid
  <2>2. c'.preInit = hw[cap]
    <3> DEFINE methods == Leaf(l, before, read)
    <3>1. "init" \in DOMAIN methods /\ methods.init = [before EXCEPT !.value = Clamp(read[cap], l.min, l.max)]
      BY <1>8 DEF Leaf, PMPowerCap
    <3>2. Methods(l, before, read).init = methods.init
      BY <3>1, OverOf DEF Methods
    <3>3. l.new \in [value : Int, preInit : Int]
      BY <1>1, <1>8 DEF Found
    <3> HIDE DEF methods
    <3>4. before.preInit = hw[cap]
      BY <1>6, <1>8, <3>3
    <3>5. QED
      BY <1>2, <3>1, <3>2, <3>4
  <2>3. w.file = cap /\ w.value = hw[cap] /\ r.file = cap /\ r.value = 0
    BY DEF Write
  <2>4. post = <<w>>
    BY <1>4, <1>8, <2>2
  <2>5. reset = Written(machine, s, r)
    BY <1>3, <1>8
  <2> HIDE DEF w, r
  <2>6. Written(machine, s, r) = <<[hw EXCEPT ![cap] = machine.files[cap]], driver>>
    BY <1>5, <2>3, WrittenIs
  <2>7. reset[1] = [hw EXCEPT ![cap] = machine.files[cap]] /\ reset[2] = driver
    BY <2>5, <2>6
  <2>8. Written(machine, reset, w) = <<[reset[1] EXCEPT ![cap] = hw[cap]], reset[2]>>
    <3>1. cap \notin DpmFiles \cup {Table, "pp_power_profile_mode"} /\ cap # "pwm1"
      BY DEF DpmFiles, Table
    <3>2. Written(machine, reset, w) = <<[reset[1] EXCEPT ![w.file] = w.value], reset[2]>>
      BY <2>1, <2>3, <3>1, WrittenIs
    <3>3. QED
      BY <2>3, <3>2
  <2>9. Executed(machine, reset, post) = Written(machine, reset, w)
    BY <2>4, ExecutedOne
  <2>10. hw' = [reset[1] EXCEPT ![cap] = hw[cap]] /\ driver' = driver
    BY <1>3, <2>7, <2>8, <2>9
  <2>11. Undisturbed
    BY <2>1, <2>7, <2>10 DEF Undisturbed
  <2>12. QED
    BY <1>8, <2>11
<1>9. QED
  BY <1>7, <1>8

\* The start leaves the control unused, on a lively machine.
LEMMA StartHeld == Inv /\ Outside /\ Held /\ Start => Held'
<1> SUFFICES ASSUME Inv, Outside, Held, Start PROVE Held'
  OBVIOUS
<1> DEFINE s == <<hw, driver>>
<1>1. machine \in Machines /\ l \in Leaves(machine) /\ Found(machine, l) /\ DOMAIN hw = DOMAIN machine.files
  <2>1. machine \in Machines /\ l \in Leaves(machine) /\ Untouched
    BY DEF Inv, Start
  <2>2. QED
    BY <2>1, FoundOf, ShownBefore DEF Untouched
<1>2. /\ UNCHANGED <<machine, l, active, dirty, used, count>>
      /\ start = "none" /\ start' \in {"onTime", "late"} /\ ~active /\ ~dirty /\ ~used
  BY DEF Start, Held
<1>3. /\ Undisturbed
      /\ l.kind = "FanFixed" => c'.lastValue = NoPwm
      /\ l.kind = "FanCurve" => c'.lastPwm = NoPwm
  BY StartedAlone DEF Outside
<1>4. Lively(machine, l, s)' /\ Felt(l, s)'
  <2>1. Lively(machine, l, s) /\ Felt(l, s)
    BY DEF Held
  <2>2. Shaped(machine, s)'
    BY <1>2, <1>3, <2>1 DEF Lively, Shaped, ShapedFiles, ShapedDriver, Undisturbed
  <2>3. /\ l.kind = "PMPowerProfile" => "pp_power_profile_mode" \in DOMAIN hw
        /\ l.kind = "PMFixedFreq" => DpmFiles \subseteq DOMAIN hw
        /\ l.kind = "FanCurve" => {"pwm1", "temp1_input"} \subseteq DOMAIN hw
    <3>1. l.kind = "FanCurve" => {"pwm1", "temp1_input"} \subseteq DOMAIN hw
      BY <1>1 DEF Found, Valid
    <3>2. QED
      BY <1>1, <3>1, ListsOf
  <2>4. Felt(l, s)'
    BY <1>2, <1>3, <2>1, <2>3 DEF Felt, Undisturbed
  <2>5. QED
    BY <1>2, <1>3, <2>1, <2>2, <2>3, <2>4 DEF Lively, Undisturbed
<1>5. Agrees(l, c, s)'
  BY <1>2, <1>3 DEF Agrees
<1> HIDE DEF s
<1>6. count' \in [changes : Nat, imports : Nat, faults : Nat]
  BY <1>2 DEF Held
<1>7. QED
  BY <1>2, <1>4, <1>5, <1>6 DEF Held, s

\* Counting keeps the counts, and a fault is not forgotten.
LEMMA CountedOf ==
  ASSUME Held, NEW name \in {"changes", "imports", "faults"}, NEW bound, Counted(name, bound)
  PROVE /\ count' \in [changes : Nat, imports : Nat, faults : Nat]
        /\ name = "faults" => count'.faults # 0
        /\ name # "faults" => count'.faults = count.faults
<1>1. count \in [changes : Nat, imports : Nat, faults : Nat] /\ count' = [count EXCEPT ![name] = @ + 1]
  BY DEF Held, Counted
<1>2. QED
  BY <1>1

\* What does not concern the control is the same afterwards.
LEMMA KeptHeld ==
  ASSUME Held, UNCHANGED <<machine, l, c, active, dirty, hw, driver, start, used, retaken>>,
         count' \in [changes : Nat, imports : Nat, faults : Nat], count'.faults = count.faults
  PROVE Held'
<1> DEFINE s == <<hw, driver>>
<1>1. s' = s
  OBVIOUS
<1>2. /\ Lively(machine, l, s)' = Lively(machine, l, s) /\ Felt(l, s)' = Felt(l, s)
      /\ Agrees(l, c, s)' = Agrees(l, c, s) /\ Selected(l, c, s)' = Selected(l, c, s)
  BY <1>1 DEF Lively, Shaped, Felt, Agrees, Selected
<1>3. Back(s) => Back(s)'
  <2>1. hw' = s[1] /\ driver' = s[2]
    OBVIOUS
  <2>2. QED
    BY <2>1, Carried
<1> HIDE DEF s
<1>4. QED
  BY <1>2, <1>3 DEF Held, s

\* The dirty mark tells of a control that was in use and is left.
LEMMA ApplyHeld == \A selected \in BOOLEAN : Inv /\ Outside /\ Held /\ Apply(selected) => Held'
<1> SUFFICES ASSUME NEW selected \in BOOLEAN, Inv, Outside, Held, Apply(selected) PROVE Held'
  OBVIOUS
<1> DEFINE s == <<hw, driver>>
<1>1. /\ start # "none" /\ c' = Import(c, part) /\ UNCHANGED <<machine, l, hw, driver, start>>
      /\ active' = selected
      /\ dirty' = (dirty \/ (active /\ ~selected))
      /\ used' = (used \/ selected)
      /\ retaken' = (retaken \/ (dirty' /\ selected))
      /\ Counted("imports", MaxImports)
  BY DEF Apply
<1>2. count' \in [changes : Nat, imports : Nat, faults : Nat] /\ count'.faults = count.faults
  BY <1>1, CountedOf
<1>3. part \in Settable(l, default) /\ Configured(l, default, c)
  BY <1>1 DEF Inv
<1>4. Lively(machine, l, s)' = Lively(machine, l, s) /\ Felt(l, s)' = Felt(l, s)
  BY <1>1 DEF Lively, Shaped, Felt
<1>5. Back(s) => Back(s)'
  <2>1. hw' = s[1] /\ driver' = s[2]
    BY <1>1
  <2>2. QED
    BY <1>1, <2>1, Carried
<1>6. Agrees(l, c, s) => Agrees(l, c, s)'
  <2>1. CASE l.kind = "FanFixed"
    <3>1. c'.lastValue = c.lastValue
      BY ZenonT(60), <1>1, <1>3, <2>1 DEF Import, FanFixedImport, Configured
    <3>2. QED
      BY <1>1, <2>1, <3>1 DEF Agrees
  <2>2. CASE l.kind = "FanCurve"
    <3>1. c'.lastPwm = c.lastPwm
      BY <1>1, <1>3, <2>2 DEF Import, FanCurveImport, Configured
    <3>2. QED
      BY <1>1, <2>2, <3>1 DEF Agrees
  <2>3. CASE l.kind \notin {"FanFixed", "FanCurve"}
    BY <1>1, <2>3 DEF Agrees
  <2>4. QED
    BY <2>1, <2>2, <2>3
<1>7. Selected(l, c, s)'
  <2>1. SUFFICES ASSUME l.kind = "PMFixedFreq" PROVE c'.sclk.resync /\ c'.mclk.resync
    BY <1>1 DEF Selected
  <2>2. part.sclk \in l.sclk /\ part.mclk \in l.mclk
    BY <1>3, <2>1 DEF Settable
  <2>3. {part.sclk} \cap l.sclk # {} /\ {part.mclk} \cap l.mclk # {}
    BY <2>2
  <2>4. c' = [sclk |-> Activated(c.sclk, l.sclk, {part.sclk}), mclk |-> Activated(c.mclk, l.mclk, {part.mclk})]
    BY <1>1, <2>1 DEF Import, PMFixedFreqImport
  <2>5. QED
    BY <2>3, <2>4 DEF Activated
<1> HIDE DEF s
<1>8. QED
  BY <1>1, <1>2, <1>4, <1>5, <1>6, <1>7 DEF Held, s

\* After a pass the control that is active is in effect, and the one that was left is back.
LEMMA PassHeld == Inv /\ Outside /\ Held /\ Pass => Held'
<1> SUFFICES ASSUME Inv, Outside, Held, Pass PROVE Held'
  OBVIOUS
<1> DEFINE s == <<hw, driver>>
<1>1. /\ start # "none" /\ ~dirty' /\ UNCHANGED <<machine, l, active, start, used, retaken>>
  BY DEF Pass
<1>2. PICK passed \in AfterPass :
        /\ c' = passed.c
        /\ \/ LET after == Executed(machine, <<hw, driver>>, passed.writes)
              IN  hw' = after[1] /\ driver' = after[2] /\ UNCHANGED count
           \/ Counted("faults", MaxFaults) /\ UNCHANGED <<hw, driver>>
  BY DEF Pass
<1> DEFINE after == Executed(machine, s, passed.writes)
<1>3. AfterOne(passed.c, after)
  BY <1>1, OnePass
<1>4. /\ count \in [changes : Nat, imports : Nat, faults : Nat]
      /\ Lively(machine, l, s) /\ Felt(l, s)
      /\ active => used
      /\ active /\ dirty => retaken
  BY DEF Held
<1>5. CASE hw' = after[1] /\ driver' = after[2] /\ UNCHANGED count
  <2>1. /\ Lively(machine, l, after) /\ Felt(l, after) => Lively(machine, l, s)' /\ Felt(l, s)'
        /\ Back(after) => Back(s)'
        /\ \A x : /\ Agrees(l, x, after) => Agrees(l', x, <<hw', driver'>>)
                  /\ Selected(l, x, after) => Selected(l', x, <<hw', driver'>>)
    <3> HIDE DEF after
    <3>1. QED
      BY <1>1, <1>5, Carried
  <2>2. (Agrees(l, passed.c, after) => Agrees(l, c, s)') /\ (Selected(l, passed.c, after) => Selected(l, c, s)')
    <3> HIDE DEF after
    <3>1. c' = passed.c
      BY <1>2
    <3>2. /\ Agrees(l, passed.c, after) => Agrees(l', c', <<hw', driver'>>)
          /\ Selected(l, passed.c, after) => Selected(l', c', <<hw', driver'>>)
      BY <2>1, <3>1
    <3>3. Agrees(l, c, s)' = Agrees(l', c', <<hw', driver'>>)
      BY DEF Agrees
    <3>4. Selected(l, c, s)' = Selected(l', c', <<hw', driver'>>)
      BY DEF Selected
    <3>5. QED
      BY <3>2, <3>3, <3>4
  <2> HIDE DEF after, s
  <2>3. QED
    BY <1>1, <1>3, <1>4, <1>5, <2>1, <2>2 DEF Held, AfterOne, s
<1>6. CASE Counted("faults", MaxFaults) /\ UNCHANGED <<hw, driver>>
  <2>1. count' \in [changes : Nat, imports : Nat, faults : Nat] /\ count'.faults # 0
    BY <1>6, CountedOf
  <2>2. Lively(machine, l, s)' /\ Felt(l, s)'
    BY <1>1, <1>4, <1>6 DEF Lively, Shaped, Felt
  <2> HIDE DEF after, s
  <2>3. QED
    BY <1>1, <1>4, <2>1, <2>2 DEF Held, s
<1>7. QED
  BY <1>2, <1>5, <1>6

\* A fault is counted: nothing is claimed after it.
LEMMA DriftHeld == Inv /\ Outside /\ Held /\ Drift => Held'
<1> SUFFICES ASSUME Inv, Outside, Held, Drift PROVE Held'
  OBVIOUS
<1> DEFINE s == <<hw, driver>>
<1>1. /\ start # "none" /\ Counted("faults", MaxFaults)
      /\ UNCHANGED <<machine, l, active, dirty, driver, start, used, retaken>>
  BY DEF Drift, control
<1>2. count' \in [changes : Nat, imports : Nat, faults : Nat] /\ count'.faults # 0
  BY <1>1, CountedOf
<1>3. machine \in Machines /\ l \in Leaves(machine) /\ Found(machine, l)
  <2>1. machine \in Machines /\ l \in Leaves(machine)
    BY DEF Inv
  <2>2. QED
    BY <2>1, FoundOf
<1>4. /\ Lively(machine, l, s) /\ Felt(l, s)
      /\ ShapedFiles(machine, hw) /\ ShapedDriver(machine, driver)
  BY DEF Held, Lively, Shaped
<1>5. Lively(machine, l, s)' /\ Felt(l, s)'
  <2>1. CASE "temp1_input" \in DOMAIN hw /\ \E temp \in machine.temps : hw' = [hw EXCEPT !["temp1_input"] = temp]
    <3>1. PICK temp \in machine.temps : hw' = [hw EXCEPT !["temp1_input"] = temp]
      BY <2>1
    <3>2. temp \in Int
      BY <1>3, <3>1, MachinesAssumption
    <3>3. DOMAIN hw' = DOMAIN hw /\ hw'["temp1_input"] = temp /\ \A file \in DOMAIN hw : file # "temp1_input" => hw'[file] = hw[file]
      BY <2>1, <3>1
    <3>4. "temp1_input" \notin Lists /\ DpmFiles \subseteq Lists
      BY DEF Lists, DpmFiles
    <3>5. ShapedFiles(machine, hw')
      BY <1>4, <3>3, <3>4 DEF ShapedFiles
    <3>6. /\ l.kind = "PMPowerProfile" => "pp_power_profile_mode" \in DOMAIN hw
          /\ l.kind = "PMFixedFreq" => DpmFiles \subseteq DOMAIN hw
      BY <1>3, <1>4, ListsOf DEF ShapedFiles
    <3>7. l.kind = "FanCurve" => "pwm1" \in DOMAIN hw
      BY <1>3, <1>4 DEF Found, Valid, ShapedFiles
    <3>8. Felt(l, s)'
      BY <1>1, <1>4, <3>2, <3>3, <3>7 DEF Felt
    <3>9. QED
      BY <1>1, <1>4, <3>3, <3>4, <3>5, <3>6, <3>8 DEF Lively, Shaped, Lists
  <2>2. ASSUME NEW file \in DpmFiles \cap DOMAIN hw, NEW index \in driver.enabled[file],
               hw' = [hw EXCEPT ![file] = MarkedAs(@, index)]
        PROVE Lively(machine, l, s)' /\ Felt(l, s)'
    <3>1. /\ DOMAIN hw' = DOMAIN hw /\ hw'[file] = MarkedAs(hw[file], index)
          /\ \A other \in DOMAIN hw : other # file => hw'[other] = hw[other]
      BY <2>2
    <3>2. file \in Lists /\ file \in DOMAIN machine.files
      BY <1>4 DEF Lists, ShapedFiles
    <3>3. Alike(hw[file], machine.files[file])
      BY <1>4, <3>2 DEF ShapedFiles
    <3>4. Alike(hw'[file], machine.files[file])
      BY <3>1, <3>3, AlikeOf
    <3>5. ShapedFiles(machine, hw')
      BY <1>4, <3>1, <3>4 DEF ShapedFiles
    <3>6. file \notin {"pp_power_profile_mode", "pwm1", "temp1_input"}
      BY DEF DpmFiles
    <3>7. /\ l.kind = "PMPowerProfile" => "pp_power_profile_mode" \in DOMAIN hw
          /\ l.kind = "PMFixedFreq" => DpmFiles \subseteq DOMAIN hw
      BY <1>3, <1>4, ListsOf DEF ShapedFiles
    <3>8. l.kind = "FanCurve" => {"pwm1", "temp1_input"} \subseteq DOMAIN hw
      BY <1>3, <1>4 DEF Found, Valid, ShapedFiles
    <3>9. Felt(l, s)'
      BY <1>1, <1>4, <3>1, <3>6, <3>8 DEF Felt
    <3>10. l.kind = "PMFixedFreq" => ParseDPMCurrentStateIndex(hw'[file]) # Absent
      <4>1. SUFFICES ASSUME l.kind = "PMFixedFreq" PROVE ParseDPMCurrentStateIndex(hw'[file]) # Absent
        OBVIOUS
      <4>2. index \in DPMStates(machine, file)
        BY <1>4, <2>2, <4>1 DEF Lively
      <4>3. PICK k \in DOMAIN machine.files[file] :
              machine.files[file][k].t = "dpm" /\ machine.files[file][k].index = index
        BY <1>3, <4>1, <4>2, ListsOf
      <4>4. machine.files[file] \in Seq(Lines)
        BY <1>3, <4>1, ListsOf
      <4>5. index \in Int
        <5>1. machine.files[file][k] \in Lines
          BY <4>3, <4>4
        <5>2. QED
          BY <4>3, <5>1 DEF Lines
      <4>6. ParseDPMCurrentStateIndex(MarkedAs(hw[file], index)) = index
        BY <3>3, <4>3, <4>4, CurrentOf
      <4>7. QED
        BY <3>1, <4>5, <4>6, AbsentAssumption
    <3>11. QED
      BY <1>1, <1>4, <3>1, <3>5, <3>6, <3>7, <3>9, <3>10 DEF Lively, Shaped
  <2>3. QED
    BY <2>1, <2>2 DEF Drift
<1> HIDE DEF s
<1>6. (active => used) /\ (active /\ dirty => retaken)
  BY DEF Held
<1>7. QED
  BY <1>1, <1>2, <1>5, <1>6 DEF Held, s

\* The control and its machine are chosen once.
LEMMA SameControl == [Next]_vars => UNCHANGED <<machine, l>>
BY Zenon DEF Next, Start, Load, Change, Apply, Pass, Drift, vars

\* What a control outside the table remembers is so.
LEMMA HeldHolds == Spec => [](Outside => Held)
<1>1. Init => (Outside => Held)
  BY InitHeld
<1>2. Inv /\ (Outside => Held) /\ [Next]_vars => (Outside => Held)'
  <2> SUFFICES ASSUME Inv, Outside => Held, [Next]_vars, Outside' PROVE Held'
    BY Zenon
  <2>1. UNCHANGED <<machine, l>>
    BY SameControl
  <2>2. Outside /\ Held
    BY <2>1 DEF Outside, InTable
  <2>3. CASE Start
    BY <2>2, <2>3, StartHeld
  <2>4. ASSUME NEW node \in Nodes(l), Load(node) PROVE Held'
    BY <2>2, <2>4, CountedOf, KeptHeld DEF Load, control
  <2>5. CASE Change
    BY <2>2, <2>5, CountedOf, KeptHeld DEF Change, control
  <2>6. ASSUME NEW selected \in BOOLEAN, Apply(selected) PROVE Held'
    BY <2>2, <2>6, ApplyHeld
  <2>7. CASE Pass
    BY <2>2, <2>7, PassHeld
  <2>8. CASE Drift
    BY <2>2, <2>8, DriftHeld
  <2>9. CASE UNCHANGED vars
    <3>1. count' \in [changes : Nat, imports : Nat, faults : Nat] /\ count'.faults = count.faults
      BY <2>2, <2>9 DEF Held, vars
    <3>2. QED
      BY <2>2, <2>9, <3>1, KeptHeld DEF vars, control
  <2>10. QED
    BY <2>3, <2>4, <2>5, <2>6, <2>7, <2>8, <2>9 DEF Next
<1>3. QED
  BY <1>1, <1>2, InvHolds, PTL DEF Spec

\* Wherever a control outside the table and its hardware are, one pass whose call is executed puts
\* its settings into effect, or has taken back what they had changed.
THEOREM PassTakesEffectHolds == Spec /\ Outside => []PassTakesEffect
<1>1. Outside /\ [Next]_vars => Outside'
  BY SameControl DEF Outside, InTable
<1>2. Inv /\ (Outside => Held) /\ Outside => PassTakesEffect
  BY EffectOf
<1>3. QED
  BY <1>1, <1>2, InvHolds, HeldHolds, PTL DEF Spec

\* Its start leaves the hardware as it was, whoever had changed it.
THEOREM StartKeepsHardwareHolds == Spec /\ ~InTable(l) => StartKeepsHardware
<1>0. ~InTable(l) /\ [Next]_vars => ~InTable(l)'
  BY SameControl DEF InTable
<1>1. Inv /\ ~InTable(l) /\ [Next]_vars =>
        [start = "none" /\ start' # "none" =>
           /\ \A file \in DOMAIN hw \ DpmFiles : hw'[file] = hw[file]
           /\ driver'.table = driver.table]_vars
  <2> SUFFICES ASSUME Inv, ~InTable(l), Next, start = "none", start' # "none"
               PROVE /\ \A file \in DOMAIN hw \ DpmFiles : hw'[file] = hw[file]
                     /\ driver'.table = driver.table
    BY DEF vars
  <2>1. Start
    BY DEF Next, Load, Change, Apply, Pass, Drift
  <2>2. Undisturbed
    BY <2>1, StartedAlone
  <2>3. QED
    BY <2>2 DEF Undisturbed
<1>2. QED
  BY <1>0, <1>1, InvHolds, PTL DEF Spec, StartKeepsHardware

=============================================================================
