----------------------------- MODULE TokenChain -----------------------------
(* What refresh tokens promise: every sign-in has at most one token that   *)
(* is accepted, a token is accepted once, and a chain of tokens that has   *)
(* ended does not come back.                                               *)
EXTENDS Naturals

CONSTANT SignIns    \* the sign-ins, each the start of a chain of tokens

VARIABLES
    good,      \* the tokens that are accepted, by their number in the chain
    given,     \* tokens given out so far
    turning    \* chains whose token is being exchanged

vars == <<good, given, turning>>

Init ==
    /\ good = [s \in SignIns |-> {}]
    /\ given = [s \in SignIns |-> 0]
    /\ turning = {}

Give(s) ==
    /\ given' = [given EXCEPT ![s] = @ + 1]
    /\ good' = [good EXCEPT ![s] = {given[s] + 1}]

\* Signing in.
Open(s) ==
    /\ given[s] = 0
    /\ Give(s)
    /\ UNCHANGED turning

\* The one good token is exchanged ...
Turn(s) ==
    /\ good[s] # {}
    /\ good' = [good EXCEPT ![s] = {}]
    /\ turning' = turning \cup {s}
    /\ UNCHANGED given

\* ... for the next one ...
Turned(s) ==
    /\ s \in turning
    /\ Give(s)
    /\ turning' = turning \ {s}

\* ... or for none.
Break(s) ==
    /\ s \in turning
    /\ turning' = turning \ {s}
    /\ UNCHANGED <<good, given>>

\* Logging out, or expiry.
End(s) ==
    /\ good[s] # {}
    /\ good' = [good EXCEPT ![s] = {}]
    /\ UNCHANGED <<given, turning>>

Next == \E s \in SignIns : Open(s) \/ Turn(s) \/ Turned(s) \/ Break(s) \/ End(s)

Spec == Init /\ [][Next]_vars
=============================================================================
