------------------------------ MODULE Checkout ------------------------------
(***************************************************************************)
(* orderService.place and reservePoints: a checkout that pays with loyalty *)
(* points reserves them at kfc-loyalty, creates the order at kfc-order and *)
(* then commits the hold, or releases it if kfc-order refused.             *)
(*                                                                         *)
(* kfc-order and kfc-loyalty are external: they are modelled by what the   *)
(* code expects of them.  A request may be lost, or executed long after    *)
(* the caller's deadline.  Validation, the menu and the prices come before *)
(* any state changes, and are the choice whether a call gets that far.     *)
(***************************************************************************)
EXTENDS Naturals, FiniteSets

CONSTANTS
    Calls,      \* calls of place (POST /orders requests)
    Keys,       \* idempotency keys that clients send
    NoKey,      \* no idempotency key in the request
    KeyOf,      \* the key each call carries
    Redeems,    \* the calls with redeem_points # 0
    Balance     \* how many such redemptions the member's points allow

ASSUME ConstantsAssumption ==
    /\ NoKey \notin Keys
    /\ Keys \intersect Calls = {}
    /\ KeyOf \in [Calls -> Keys \union {NoKey}]
    /\ Redeems \subseteq Calls
    /\ Balance \in Nat
    \* One key per checkout: calls that share it make the same request.
    /\ \A c, d \in Calls :
          KeyOf[c] = KeyOf[d] /\ KeyOf[c] # NoKey => (c \in Redeems <=> d \in Redeems)

\* What identifies a checkout at kfc-order and, behind "order:", at
\* kfc-loyalty.  Without a client key reservePoints makes one up.
Ref(c) == IF KeyOf[c] = NoKey THEN c ELSE KeyOf[c]

Refs == {Ref(c) : c \in Calls}

VARIABLES
    pc,     \* where each call of place is
    reply,  \* the answer to the RPC it waits for
    net,    \* requests on their way
    hold,   \* kfc-loyalty: the hold of each reference
    order   \* kfc-order: the order of each key

vars == <<pc, reply, net, hold, order>>

Kinds == {"reserve", "create", "commit", "release"}
Ends == {"placed", "refused", "failed"}

\* Of the gRPC codes: "ok", one for all that say the call was refused, and
\* those that leave it open.
Codes == {"ok", "refused", "DeadlineExceeded", "Unavailable", "Canceled", "Unknown"}

Messages == [kind : Kinds, call : Calls]

Init ==
    /\ pc = [c \in Calls |-> "idle"]
    /\ reply = [c \in Calls |-> "none"]
    /\ net = {}
    /\ hold = [k \in Refs |-> "none"]
    /\ order = [k \in Refs |-> "none"]

----------------------------------------------------------------------------
(* The service.                                                            *)

Send(c, kind) ==
    /\ pc' = [pc EXCEPT ![c] = kind]
    /\ reply' = [reply EXCEPT ![c] = "none"]
    /\ net' = net \union {[kind |-> kind, call |-> c]}

Return(c, end) ==
    /\ pc' = [pc EXCEPT ![c] = end]
    /\ reply' = [reply EXCEPT ![c] = "none"]
    /\ UNCHANGED net

\* The cart is valid and priced: go for the points, or straight for the order.
Start(c) ==
    /\ pc[c] = "idle"
    /\ Send(c, IF c \in Redeems THEN "reserve" ELSE "create")
    /\ UNCHANGED <<hold, order>>

\* The request is invalid, or the menu or the program could not be read.
Reject(c) ==
    /\ pc[c] = "idle"
    /\ Return(c, "refused")
    /\ UNCHANGED <<hold, order>>

\* What the customer is told of an error: mapOrderError's "internal error"
\* says nothing about the outcome.
mapOrderError(code) == IF code = "refused" THEN "refused" ELSE "failed"

\* reservePoints returns: the hold, whatever its status, or the error.
Reserved(c) ==
    /\ pc[c] = "reserve"
    /\ \/ reply[c] = "ok" /\ Send(c, "create")
       \/ reply[c] \notin {"none", "ok"} /\ Return(c, mapOrderError(reply[c]))
    /\ UNCHANGED <<hold, order>>

\* Mutant: a call that a shutdown has cut off counts as failed.
CanceledIsDefinite(code) == code \in {"DeadlineExceeded", "Unavailable", "Unknown"}

\* Mutant: only what the client's own deadline cuts off counts as open.
OnlyDeadlineAmbiguous(code) == code = "DeadlineExceeded"

\* After such an error the call may have succeeded, or may yet.
isAmbiguous(code) == code \in {"DeadlineExceeded", "Unavailable", "Canceled", "Unknown"}

\* Mutant: the hold is committed as soon as there is an answer.
CreatedCommitsAlways(c) ==
    /\ pc[c] = "create"
    /\ reply[c] # "none"
    /\ IF c \in Redeems THEN Send(c, "commit")
       ELSE Return(c, IF reply[c] = "ok" THEN "placed" ELSE mapOrderError(reply[c]))
    /\ UNCHANGED <<hold, order>>

\* CreateOrder returns: commit the hold, release it, or leave it alone.
Created(c) ==
    /\ pc[c] = "create"
    /\ \/ /\ reply[c] = "ok"
          /\ IF c \in Redeems THEN Send(c, "commit") ELSE Return(c, "placed")
       \/ /\ reply[c] \notin {"none", "ok"}
          /\ IF c \in Redeems /\ ~isAmbiguous(reply[c])
             THEN Send(c, "release")
             ELSE Return(c, mapOrderError(reply[c]))
    /\ UNCHANGED <<hold, order>>

\* Mutant: the status of the commit becomes the status of the order.
CommittedReturnsStatus(c) ==
    /\ pc[c] = "commit" /\ reply[c] # "none"
    /\ Return(c, reply[c])
    /\ UNCHANGED <<hold, order>>

\* CommitHold returns; an error is only logged.
Committed(c) ==
    /\ pc[c] = "commit" /\ reply[c] # "none"
    /\ Return(c, "placed")
    /\ UNCHANGED <<hold, order>>

\* ReleaseHold returns; an error is only logged.
Released(c) ==
    /\ pc[c] = "release" /\ reply[c] # "none"
    /\ Return(c, "refused")
    /\ UNCHANGED <<hold, order>>

\* Mutant: a call under context.WithoutCancel has no deadline.
TimesOutUnlessDetached(c) ==
    /\ pc[c] \in {"reserve", "create"}
    /\ reply[c] = "none"
    /\ reply' = [reply EXCEPT ![c] = "DeadlineExceeded"]
    /\ UNCHANGED <<pc, net, hold, order>>

\* How the transport ends a call: timeoutInterceptor's deadline, a broken
\* connection, or App.Shutdown closing the client under calls in flight.
TransportErrors == {"DeadlineExceeded", "Unavailable", "Canceled"}

\* The caller gets such an error; the request may still be on its way.
TimesOut(c) ==
    /\ pc[c] \in Kinds
    /\ reply[c] = "none"
    /\ \E code \in TransportErrors : reply' = [reply EXCEPT ![c] = code]
    /\ UNCHANGED <<pc, net, hold, order>>

\* The replica dies with the call.
Dies(c) ==
    /\ pc[c] \in Kinds
    /\ Return(c, "failed")
    /\ UNCHANGED <<hold, order>>

----------------------------------------------------------------------------
(* kfc-loyalty and kfc-order.                                              *)

\* The request is taken off the net; the answer reaches a caller that waits.
Answer(kind, c, answer) ==
    /\ [kind |-> kind, call |-> c] \in net
    /\ net' = net \ {[kind |-> kind, call |-> c]}
    /\ reply' = IF pc[c] = kind /\ reply[c] = "none"
                THEN [reply EXCEPT ![c] = answer] ELSE reply
    /\ UNCHANGED pc

Available == Balance - Cardinality({k \in Refs : hold[k] \in {"held", "committed"}})

\* "The same reference returns the same hold."
ReservePoints(c) ==
    /\ \/ /\ hold[Ref(c)] = "none" /\ Available > 0
          /\ hold' = [hold EXCEPT ![Ref(c)] = "held"]
          /\ Answer("reserve", c, "ok")
       \/ /\ hold[Ref(c)] = "none" /\ Available = 0
          /\ UNCHANGED hold
          /\ Answer("reserve", c, "refused")
       \/ /\ hold[Ref(c)] # "none"
          /\ UNCHANGED hold
          /\ Answer("reserve", c, "ok")
    /\ UNCHANGED order

\* The order a call asks for: with the discount and the id of its hold, or not.
CreateOrderRequest(c) == IF c \in Redeems THEN "discounted" ELSE "plain"

\* A retry with the same key returns the original order; anything else may be
\* refused for good.  A server that fails with "Unknown" may have stored it.
CreateOrder(c) ==
    /\ \/ /\ order[Ref(c)] = "none"
          /\ order' = [order EXCEPT ![Ref(c)] = CreateOrderRequest(c)]
          /\ \E code \in {"ok", "Unknown"} : Answer("create", c, code)
       \/ /\ order[Ref(c)] = "none"
          /\ UNCHANGED order
          /\ Answer("create", c, "refused")
       \/ /\ order[Ref(c)] # "none"
          /\ UNCHANGED order
          /\ Answer("create", c, "ok")
    /\ UNCHANGED hold

CommitHold(c) ==
    /\ \/ /\ hold[Ref(c)] = "held"
          /\ hold' = [hold EXCEPT ![Ref(c)] = "committed"]
          /\ Answer("commit", c, "ok")
       \/ /\ hold[Ref(c)] # "held"
          /\ UNCHANGED hold
          /\ Answer("commit", c, IF hold[Ref(c)] = "committed" THEN "ok" ELSE "refused")
    /\ UNCHANGED order

ReleaseHold(c) ==
    /\ \/ /\ hold[Ref(c)] = "held"
          /\ hold' = [hold EXCEPT ![Ref(c)] = "released"]
          /\ Answer("release", c, "ok")
       \/ /\ hold[Ref(c)] # "held"
          /\ UNCHANGED hold
          /\ Answer("release", c, IF hold[Ref(c)] = "committed" THEN "refused" ELSE "ok")
    /\ UNCHANGED order

\* kfc-loyalty commits the hold from the order.created event.
OrderCreatedEvent(k) ==
    /\ order[k] = "discounted" /\ hold[k] = "held"
    /\ hold' = [hold EXCEPT ![k] = "committed"]
    /\ UNCHANGED <<pc, reply, net, order>>

\* kfc-loyalty frees a hold nobody committed.
HoldExpires(k) ==
    /\ hold[k] = "held"
    /\ hold' = [hold EXCEPT ![k] = "expired"]
    /\ UNCHANGED <<pc, reply, net, order>>

\* A request is lost.
Lost(m) ==
    /\ m \in net
    /\ net' = net \ {m}
    /\ UNCHANGED <<pc, reply, hold, order>>

----------------------------------------------------------------------------
ServiceStep(c) ==
    \/ Start(c) \/ Reject(c) \/ Reserved(c) \/ Created(c) \/ Committed(c)
    \/ Released(c) \/ TimesOut(c)

Next ==
    \/ \E c \in Calls :
          \/ ServiceStep(c) \/ Dies(c)
          \/ ReservePoints(c) \/ CreateOrder(c) \/ CommitHold(c) \/ ReleaseHold(c)
    \/ \E k \in Refs : OrderCreatedEvent(k) \/ HoldExpires(k)
    \/ \E m \in net : Lost(m)

Spec == Init /\ [][Next]_vars

\* A call that has begun goes on: every RPC has a deadline (the clients'
\* timeouts).  The order.created event is delivered in the end.
FairSpec ==
    /\ Spec
    /\ \A c \in Calls : WF_vars(pc[c] # "idle" /\ ServiceStep(c))
    /\ \A k \in Refs : WF_vars(OrderCreatedEvent(k))

----------------------------------------------------------------------------
TypeOK ==
    /\ pc \in [Calls -> {"idle"} \union Kinds \union Ends]
    /\ reply \in [Calls -> {"none"} \union Codes]
    /\ net \subseteq Messages
    /\ hold \in [Refs -> {"none", "held", "committed", "released", "expired"}]
    /\ order \in [Refs -> {"none", "plain", "discounted"}]

\* loyalty.proto: "a failed checkout never loses points".  Points are spent
\* only on an order that carries the discount for them, whatever is lost,
\* late, retried or interrupted.
NoPointsWithoutOrder ==
    \A k \in Refs : hold[k] = "committed" => order[k] = "discounted"

\* A customer who is told that the order is placed has an order, and one who
\* pays with points has the discount.
PlacedMeansOrdered ==
    \A c \in Calls : pc[c] = "placed" => order[Ref(c)] = CreateOrderRequest(c)

\* A customer who is told that the order was refused keeps the points and has
\* no order, now or later: no request that could still create it is on its
\* way.  (With one call per checkout; a retry may well succeed.)
RefusedMeansNothing ==
    \A c \in Calls : pc[c] = "refused" =>
        /\ order[Ref(c)] = "none"
        /\ hold[Ref(c)] # "committed"
        /\ [kind |-> "create", call |-> c] \notin net

\* The hold behind a discount is never given back by the service: it is
\* released after a definite failure only, and then no late CreateOrder can
\* produce the order after all.
DiscountBacked ==
    \A k \in Refs : order[k] = "discounted" => hold[k] \in {"held", "committed", "expired"}

\* A crash or an error between CreateOrder and CommitHold leaves no order
\* with its points held for good: the order.created event settles it.  And
\* every call that has begun gets its answer, however many RPCs are lost.
EverythingSettles ==
    /\ \A k \in Refs : order[k] # "none" /\ hold[k] = "held" ~> hold[k] # "held"
    /\ \A c \in Calls : pc[c] \in Kinds ~> pc[c] \in Ends

\* What has become of a checkout, by the order o and the hold h it has.
OutcomeOf(o, h) ==
    CASE o = "none" /\ h # "released" -> "open"
      [] o = "none" /\ h = "released" -> "void"
      [] o # "none" /\ h = "held" -> "ordered"
      [] o # "none" /\ h = "committed" -> "paid"
      [] OTHER -> "lapsed"

Outcome == [k \in {Ref(c) : c \in Redeems} |-> OutcomeOf(order[k], hold[k])]

R == INSTANCE Redemption WITH Checkouts <- {Ref(c) : c \in Redeems}, outcome <- Outcome

\* Without client retries the checkout implements the two-phase redemption:
\* the order and the points go together.
ImplementsRedemption == R!Spec

----------------------------------------------------------------------------
(* The inductive invariants of CheckoutProofs.                             *)

\* All calls of one checkout ask for the same order.
OrderInv ==
    \A c \in Calls : order[Ref(c)] \in {"none", CreateOrderRequest(c)}

\* Nobody is on the way to a commit before the order exists.
CommitInv ==
    \A c \in Calls :
        /\ pc[c] = "create" /\ reply[c] = "ok" => order[Ref(c)] # "none"
        /\ pc[c] = "commit" => c \in Redeems
        /\ pc[c] \in {"commit", "placed"} => order[Ref(c)] # "none"
        /\ [kind |-> "commit", call |-> c] \in net =>
              c \in Redeems /\ order[Ref(c)] # "none"

IInv == TypeOK /\ OrderInv /\ CommitInv /\ NoPointsWithoutOrder

\* No two calls belong to the same checkout: no client retries.
NoRetries == \A c, d \in Calls : Ref(c) = Ref(d) => c = d

\* A hold is given back, or about to be, only when there will be no order:
\* there is none, and no request that could create it.
VoidInv ==
    \A c \in Calls :
        \/ pc[c] \in {"idle", "reserve", "release", "refused"}
        \/ pc[c] = "create" /\ reply[c] = "refused"
        \/ pc[c] = "failed" /\ [kind |-> "release", call |-> c] \in net
        \/ pc[c] = "failed" /\ hold[Ref(c)] = "released"
        => order[Ref(c)] = "none" /\ [kind |-> "create", call |-> c] \notin net

\* The only way to there is the release of place.
ReleaseInv ==
    \A c \in Calls :
        [kind |-> "release", call |-> c] \in net \/ hold[Ref(c)] = "released"
        => pc[c] \in {"release", "refused", "failed"}

\* The hold comes before the order.
HoldInv ==
    \A c \in Redeems :
        \/ pc[c] = "reserve" /\ reply[c] = "ok"
        \/ pc[c] = "create"
        \/ [kind |-> "create", call |-> c] \in net
        \/ order[Ref(c)] # "none"
        => hold[Ref(c)] # "none"

OnceInv == IInv /\ VoidInv /\ ReleaseInv /\ HoldInv
=============================================================================
