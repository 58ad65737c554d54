------------------------------ MODULE MCSignIn ------------------------------
(* Model-checking instances of SignIn.                                     *)
EXTENDS SignIn, TLC

Calls == Permutations(Requests) \cup Permutations(Verifies)
=============================================================================
