----------------------------- MODULE Redemption -----------------------------
(***************************************************************************)
(* What a checkout that pays with loyalty points promises, one idempotency *)
(* key at a time: the order and the points go together.  A checkout is     *)
(*   open      neither order nor decision yet                              *)
(*   ordered   the order exists, its points are held for it                *)
(*   paid      the order exists and its points are spent                   *)
(*   void      the service gave the points back; there will be no order    *)
(*   lapsed    the order exists, but kfc-loyalty let the hold expire       *)
(***************************************************************************)
CONSTANT Checkouts

VARIABLE outcome

Outcomes == {"open", "ordered", "paid", "void", "lapsed"}

Init == outcome = [k \in Checkouts |-> "open"]

Becomes(k, from, to) == outcome[k] = from /\ outcome' = [outcome EXCEPT ![k] = to]

Next ==
    \E k \in Checkouts :
        \/ Becomes(k, "open", "ordered")
        \/ Becomes(k, "open", "void")
        \/ Becomes(k, "open", "lapsed")
        \/ Becomes(k, "ordered", "paid")
        \/ Becomes(k, "ordered", "lapsed")

Spec == Init /\ [][Next]_outcome
=============================================================================
