---------------------------- MODULE MCHelperLife -----------------------------
(* The helper and its application, with a few launches and faults. *)
EXTENDS HelperLife
=============================================================================
