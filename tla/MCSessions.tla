----------------------------- MODULE MCSessions -----------------------------
(* Model-checking instances of Sessions.                                   *)
EXTENDS Sessions, TLC

Alike == Permutations(Refreshes) \cup Permutations(SignIns)
=============================================================================
