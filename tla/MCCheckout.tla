----------------------------- MODULE MCCheckout -----------------------------
(* Model-checking instances of Checkout.                                   *)
EXTENDS Checkout

CONSTANTS c1, c2, c3, k1

TwoCalls == {c1, c2}
ThreeCalls == {c1, c2, c3}
OneKey == {k1}

\* Every call is a checkout of its own, and c1 sends a key.
NobodyRetries == [c \in Calls |-> IF c = c1 THEN k1 ELSE NoKey]

\* c1 and c2 are the same checkout; c3, where it exists, another.
OneRetries == [c \in Calls |-> IF c \in {c1, c2} THEN k1 ELSE NoKey]
=============================================================================
