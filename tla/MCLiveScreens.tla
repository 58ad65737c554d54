--------------------------- MODULE MCLiveScreens ---------------------------
(* Model-checking instances of LiveScreens.                                *)
EXTENDS LiveScreens, TLC

CONSTANTS o1, r1, r2

AtR1 == o1 :> r1
=============================================================================
