-------------------------- MODULE MCDevicePairing --------------------------
(* Model-checking instances of DevicePairing.                              *)
EXTENDS DevicePairing, TLC

CONSTANTS s1, s2, r1, r2, crm1, crm2, p1, p2

\* CRM's calls are alike, and so are the serials.
Symmetry == Permutations(CrmCalls) \union Permutations(Serials)
=============================================================================
