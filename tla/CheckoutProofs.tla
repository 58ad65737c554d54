--------------------------- MODULE CheckoutProofs ---------------------------
(***************************************************************************)
(* Proofs about Checkout, for any number of calls, keys and points.  The   *)
(* first part holds whoever retries; the second, under NoRetries, is that  *)
(* of calls with a checkout each.                                          *)
(***************************************************************************)
EXTENDS Checkout, TLAPS

(* Calls that share a reference send the same key or are the same call.    *)
LEMMA SameRequest ==
    ASSUME NEW c \in Calls, NEW d \in Calls, Ref(c) = Ref(d)
    PROVE  CreateOrderRequest(c) = CreateOrderRequest(d)
BY ConstantsAssumption DEF Ref, CreateOrderRequest

(* Every call has a reference, and a request for one order or the other.   *)
LEMMA RefType ==
    ASSUME NEW c \in Calls
    PROVE  Ref(c) \in Refs /\ CreateOrderRequest(c) \in {"plain", "discounted"}
BY DEF Refs, CreateOrderRequest

----------------------------------------------------------------------------
(* A step keeps the type invariant.                                        *)
LEMMA TypeStep ==
    TypeOK /\ [Next]_vars => TypeOK'
<1> SUFFICES ASSUME TypeOK, [Next]_vars PROVE TypeOK'
    OBVIOUS
<1> USE DEF TypeOK, Kinds, Ends, Codes, Messages
<1>1. ASSUME NEW c \in Calls, ServiceStep(c) \/ Dies(c) PROVE TypeOK'
    <2>1. CASE Start(c)
        BY <2>1 DEF Start, Send
    <2>2. CASE Reject(c)
        BY <2>2 DEF Reject, Return
    <2>3. CASE Reserved(c)
        BY <2>3 DEF Reserved, Send, Return, mapOrderError
    <2>4. CASE Created(c)
        BY <2>4 DEF Created, Send, Return, mapOrderError
    <2>5. CASE Committed(c)
        BY <2>5 DEF Committed, Return
    <2>6. CASE Released(c)
        BY <2>6 DEF Released, Return
    <2>7. CASE TimesOut(c)
        BY <2>7 DEF TimesOut, TransportErrors
    <2>8. CASE Dies(c)
        BY <2>8 DEF Dies, Return
    <2> QED
        BY <1>1, <2>1, <2>2, <2>3, <2>4, <2>5, <2>6, <2>7, <2>8 DEF ServiceStep
<1>2. ASSUME NEW c \in Calls,
             ReservePoints(c) \/ CreateOrder(c) \/ CommitHold(c) \/ ReleaseHold(c)
      PROVE  TypeOK'
    <2>1. CASE ReservePoints(c)
        BY <2>1, RefType DEF ReservePoints, Answer
    <2>2. CASE CreateOrder(c)
        BY <2>2, RefType DEF CreateOrder, Answer
    <2>3. CASE CommitHold(c)
        BY <2>3, RefType DEF CommitHold, Answer
    <2>4. CASE ReleaseHold(c)
        BY <2>4, RefType DEF ReleaseHold, Answer
    <2> QED
        BY <1>2, <2>1, <2>2, <2>3, <2>4
<1>3. ASSUME NEW k \in Refs, OrderCreatedEvent(k) \/ HoldExpires(k) PROVE TypeOK'
    BY <1>3 DEF OrderCreatedEvent, HoldExpires
<1>4. ASSUME NEW m \in net, Lost(m) PROVE TypeOK'
    BY <1>4 DEF Lost
<1>5. CASE UNCHANGED vars
    BY <1>5 DEF vars
<1> QED
    BY <1>1, <1>2, <1>3, <1>4, <1>5 DEF Next

(* Type correctness of every reachable state.                              *)
THEOREM TypeCorrect == Spec => []TypeOK
<1>1. Init => TypeOK
    BY DEF Init, TypeOK
<1> QED
    BY <1>1, TypeStep, PTL DEF Spec

----------------------------------------------------------------------------
(* A step keeps OrderInv, CommitInv and NoPointsWithoutOrder: the points    *)
(* are committed by a CommitHold, which is sent after CreateOrder's "ok"    *)
(* only, or by the event of a discounted order.                             *)
LEMMA PointsStep ==
    IInv /\ [Next]_vars => IInv'
<1> SUFFICES ASSUME IInv, [Next]_vars PROVE IInv'
    OBVIOUS
<1>t. TypeOK /\ TypeOK'
    BY TypeStep DEF IInv
<1>r. \A c \in Calls : Ref(c) \in Refs /\ CreateOrderRequest(c) \in {"plain", "discounted"}
    BY RefType
<1>s. \A c, d \in Calls : Ref(c) = Ref(d) => CreateOrderRequest(c) = CreateOrderRequest(d)
    BY SameRequest
<1>d. \A c \in Redeems : CreateOrderRequest(c) = "discounted"
    BY DEF CreateOrderRequest
<1> SUFFICES OrderInv' /\ CommitInv' /\ NoPointsWithoutOrder'
    BY <1>t DEF IInv
<1> USE <1>t, <1>r DEF IInv, TypeOK, OrderInv, CommitInv, NoPointsWithoutOrder
<1>1. ASSUME NEW c \in Calls, ServiceStep(c) \/ Dies(c)
      PROVE  OrderInv' /\ CommitInv' /\ NoPointsWithoutOrder'
    <2>0. UNCHANGED <<hold, order>>
        BY <1>1 DEF ServiceStep, Start, Reject, Reserved, Created, Committed,
                    Released, TimesOut, Dies
    <2>1. OrderInv' /\ NoPointsWithoutOrder'
        BY <2>0
    <2>2. CommitInv'
        <3>1. CASE Start(c) BY <2>0, <3>1 DEF Start, Send
        <3>2. CASE Reject(c) BY <2>0, <3>2 DEF Reject, Return
        <3>3. CASE Reserved(c)
            <4>1. CASE Send(c, "create")
                BY <2>0, <4>1 DEF Send
            <4>2. CASE \E end \in {"refused", "failed"} : Return(c, end)
                <5> PICK end \in {"refused", "failed"} : Return(c, end)
                    BY <4>2
                <5> QED
                    BY <2>0 DEF Return
            <4> QED
                BY <3>3, <4>1, <4>2 DEF Reserved, mapOrderError
        <3>4. CASE Created(c)
            <4>1. CASE c \in Redeems /\ reply[c] = "ok" /\ Send(c, "commit")
                BY <2>0, <3>4, <4>1 DEF Created, Send
            <4>2. CASE reply[c] = "ok" /\ Return(c, "placed")
                BY <2>0, <3>4, <4>2 DEF Created, Return
            <4>3. CASE Send(c, "release")
                BY <2>0, <4>3 DEF Send
            <4>4. CASE \E end \in {"refused", "failed"} : Return(c, end)
                <5> PICK end \in {"refused", "failed"} : Return(c, end)
                    BY <4>4
                <5> QED
                    BY <2>0 DEF Return
            <4> QED
                BY <3>4, <4>1, <4>2, <4>3, <4>4 DEF Created, mapOrderError
        <3>5. CASE Committed(c) BY <2>0, <3>5 DEF Committed, Return
        <3>6. CASE Released(c) BY <2>0, <3>6 DEF Released, Return
        <3>7. CASE TimesOut(c) BY <2>0, <3>7 DEF TimesOut, TransportErrors
        <3>8. CASE Dies(c) BY <2>0, <3>8 DEF Dies, Return
        <3> QED BY <1>1, <3>1, <3>2, <3>3, <3>4, <3>5, <3>6, <3>7, <3>8 DEF ServiceStep
    <2> QED
        BY <2>1, <2>2
<1>2. ASSUME NEW c \in Calls, ReservePoints(c)
      PROVE  OrderInv' /\ CommitInv' /\ NoPointsWithoutOrder'
    BY <1>2 DEF ReservePoints, Answer
<1>3. ASSUME NEW c \in Calls, CreateOrder(c)
      PROVE  OrderInv' /\ CommitInv' /\ NoPointsWithoutOrder'
    BY <1>3, <1>s DEF CreateOrder, Answer
<1>4. ASSUME NEW c \in Calls, CommitHold(c)
      PROVE  OrderInv' /\ CommitInv' /\ NoPointsWithoutOrder'
    BY <1>4, <1>d DEF CommitHold, Answer
<1>5. ASSUME NEW c \in Calls, ReleaseHold(c)
      PROVE  OrderInv' /\ CommitInv' /\ NoPointsWithoutOrder'
    BY <1>5 DEF ReleaseHold, Answer
<1>6. ASSUME NEW k \in Refs, OrderCreatedEvent(k) \/ HoldExpires(k)
      PROVE  OrderInv' /\ CommitInv' /\ NoPointsWithoutOrder'
    BY <1>6 DEF OrderCreatedEvent, HoldExpires
<1>7. ASSUME NEW m \in net, Lost(m)
      PROVE  OrderInv' /\ CommitInv' /\ NoPointsWithoutOrder'
    BY <1>7 DEF Lost
<1>8. CASE UNCHANGED vars
    BY <1>8 DEF vars
<1> QED
    BY <1>1, <1>2, <1>3, <1>4, <1>5, <1>6, <1>7, <1>8 DEF Next

(* The invariant holds in every reachable state.                           *)
THEOREM InductiveInvariant == Spec => []IInv
<1>1. Init => IInv
    BY RefType DEF Init, IInv, TypeOK, OrderInv, CommitInv, NoPointsWithoutOrder
<1> QED
    BY <1>1, PointsStep, PTL DEF Spec

(* "A failed checkout never loses points", whoever retries with whatever    *)
(* key, whatever is lost or late and wherever a replica dies: points are    *)
(* spent on an order that carries the discount for them, or not at all.     *)
THEOREM PointsSafety == Spec => []NoPointsWithoutOrder
<1>1. IInv => NoPointsWithoutOrder
    BY DEF IInv
<1> QED
    BY <1>1, InductiveInvariant, PTL

(* Who is told that the order is placed has the order that was asked for,   *)
(* also when an earlier call of the same checkout created it.               *)
THEOREM PlacedIsOrdered == Spec => []PlacedMeansOrdered
<1>1. IInv => PlacedMeansOrdered
    BY DEF IInv, OrderInv, CommitInv, PlacedMeansOrdered
<1> QED
    BY <1>1, InductiveInvariant, PTL

----------------------------------------------------------------------------
(* Checkouts without client retries.                                       *)

(* A step keeps VoidInv: once there can be no order there never will be     *)
(* one, because the only CreateOrder request of the call has been answered. *)
LEMMA VoidStep ==
    ASSUME OnceInv, NoRetries, TypeOK', [Next]_vars
    PROVE  VoidInv' /\ ReleaseInv'
<1> USE DEF OnceInv, IInv, TypeOK, VoidInv, ReleaseInv, NoRetries
<1>r. \A c \in Calls : Ref(c) \in Refs /\ CreateOrderRequest(c) \in {"plain", "discounted"}
    BY RefType
<1>1. ASSUME NEW c \in Calls, ServiceStep(c) \/ Dies(c) PROVE VoidInv' /\ ReleaseInv'
    <2>0. UNCHANGED <<hold, order>>
        BY <1>1 DEF ServiceStep, Start, Reject, Reserved, Created, Committed,
                    Released, TimesOut, Dies
    <2>1. CASE Start(c)
        BY <2>0, <2>1 DEF Start, Send
    <2>2. CASE Reject(c)
        BY <2>0, <2>2 DEF Reject, Return
    <2>3. CASE Reserved(c)
        <3>1. CASE Send(c, "create")
            BY <2>0, <2>3, <3>1 DEF Reserved, Send
        <3>2. CASE \E end \in {"refused", "failed"} : Return(c, end)
            BY <2>0, <2>3, <3>2 DEF Reserved, Return
        <3> QED
            BY <2>3, <3>1, <3>2 DEF Reserved, mapOrderError
    <2>4. CASE Created(c)
        <3>1. CASE reply[c] = "ok" /\ Send(c, "commit")
            BY <2>0, <2>4, <3>1 DEF Created, Send
        <3>2. CASE reply[c] = "ok" /\ Return(c, "placed")
            BY <2>0, <2>4, <3>2 DEF Created, Return
        <3>3. CASE reply[c] = "refused" /\ Send(c, "release")
            BY <2>0, <2>4, <3>3 DEF Created, Send
        <3>4. CASE reply[c] = "refused" /\ Return(c, "refused")
            BY <2>0, <2>4, <3>4 DEF Created, Return
        <3>5. CASE Return(c, "failed")
            BY <2>0, <2>4, <3>5 DEF Created, Return
        <3> QED
            BY <2>4, <3>1, <3>2, <3>3, <3>4, <3>5 DEF Created, mapOrderError, isAmbiguous, Codes
    <2>5. CASE Committed(c)
        BY <2>0, <2>5 DEF Committed, Return
    <2>6. CASE Released(c)
        BY <2>0, <2>6 DEF Released, Return
    <2>7. CASE TimesOut(c)
        BY <2>0, <2>7 DEF TimesOut, TransportErrors
    <2>8. CASE Dies(c)
        BY <2>0, <2>8 DEF Dies, Return
    <2> QED
        BY <1>1, <2>1, <2>2, <2>3, <2>4, <2>5, <2>6, <2>7, <2>8 DEF ServiceStep
<1>2. ASSUME NEW c \in Calls, ReservePoints(c) PROVE VoidInv' /\ ReleaseInv'
    BY <1>2, <1>r DEF ReservePoints, Answer
<1>3. ASSUME NEW c \in Calls, CreateOrder(c) PROVE VoidInv' /\ ReleaseInv'
    BY <1>3, <1>r DEF CreateOrder, Answer
<1>4. ASSUME NEW c \in Calls, CommitHold(c) PROVE VoidInv' /\ ReleaseInv'
    BY <1>4, <1>r DEF CommitHold, Answer
<1>5. ASSUME NEW c \in Calls, ReleaseHold(c) PROVE VoidInv' /\ ReleaseInv'
    BY <1>5, <1>r DEF ReleaseHold, Answer
<1>6. ASSUME NEW k \in Refs, OrderCreatedEvent(k) \/ HoldExpires(k) PROVE VoidInv' /\ ReleaseInv'
    BY <1>6, <1>r DEF OrderCreatedEvent, HoldExpires
<1>7. ASSUME NEW m \in net, Lost(m) PROVE VoidInv' /\ ReleaseInv'
    BY <1>7 DEF Lost
<1>8. CASE UNCHANGED vars
    BY <1>8 DEF vars
<1> QED
    BY <1>1, <1>2, <1>3, <1>4, <1>5, <1>6, <1>7, <1>8 DEF Next

(* A step keeps HoldInv: CreateOrder is sent after ReservePoints's "ok".    *)
LEMMA HoldStep ==
    ASSUME OnceInv, NoRetries, TypeOK', [Next]_vars
    PROVE  HoldInv'
<1> USE ConstantsAssumption DEF OnceInv, IInv, TypeOK, HoldInv, NoRetries
<1>r. \A c \in Calls : Ref(c) \in Refs /\ CreateOrderRequest(c) \in {"plain", "discounted"}
    BY RefType
<1>1. ASSUME NEW c \in Calls, ServiceStep(c) \/ Dies(c) PROVE HoldInv'
    <2>0. UNCHANGED <<hold, order>>
        BY <1>1 DEF ServiceStep, Start, Reject, Reserved, Created, Committed,
                    Released, TimesOut, Dies
    <2>1. CASE Start(c)
        BY <2>0, <2>1 DEF Start, Send
    <2>2. CASE Reject(c)
        BY <2>0, <2>2 DEF Reject, Return
    <2>3. CASE Reserved(c)
        <3>1. CASE reply[c] = "ok" /\ Send(c, "create")
            BY <2>0, <2>3, <3>1 DEF Reserved, Send
        <3>2. CASE \E end \in {"refused", "failed"} : Return(c, end)
            BY <2>0, <3>2 DEF Return
        <3> QED
            BY <2>3, <3>1, <3>2 DEF Reserved, mapOrderError
    <2>4. CASE Created(c)
        <3>1. CASE \E kind \in {"commit", "release"} : Send(c, kind)
            BY <2>0, <3>1 DEF Send
        <3>2. CASE \E end \in {"placed", "refused", "failed"} : Return(c, end)
            BY <2>0, <3>2 DEF Return
        <3> QED
            BY <2>4, <3>1, <3>2 DEF Created, mapOrderError
    <2>5. CASE Committed(c)
        BY <2>0, <2>5 DEF Committed, Return
    <2>6. CASE Released(c)
        BY <2>0, <2>6 DEF Released, Return
    <2>7. CASE TimesOut(c)
        BY <2>0, <2>7 DEF TimesOut, TransportErrors
    <2>8. CASE Dies(c)
        BY <2>0, <2>8 DEF Dies, Return
    <2> QED
        BY <1>1, <2>1, <2>2, <2>3, <2>4, <2>5, <2>6, <2>7, <2>8 DEF ServiceStep
<1>2. ASSUME NEW c \in Calls, ReservePoints(c) PROVE HoldInv'
    BY <1>2, <1>r DEF ReservePoints, Answer
<1>3. ASSUME NEW c \in Calls, CreateOrder(c) PROVE HoldInv'
    BY <1>3, <1>r DEF CreateOrder, Answer
<1>4. ASSUME NEW c \in Calls, CommitHold(c) PROVE HoldInv'
    BY <1>4, <1>r DEF CommitHold, Answer
<1>5. ASSUME NEW c \in Calls, ReleaseHold(c) PROVE HoldInv'
    BY <1>5, <1>r DEF ReleaseHold, Answer
<1>6. ASSUME NEW k \in Refs, OrderCreatedEvent(k) \/ HoldExpires(k) PROVE HoldInv'
    BY <1>6, <1>r DEF OrderCreatedEvent, HoldExpires
<1>7. ASSUME NEW m \in net, Lost(m) PROVE HoldInv'
    BY <1>7 DEF Lost
<1>8. CASE UNCHANGED vars
    BY <1>8 DEF vars
<1> QED
    BY <1>1, <1>2, <1>3, <1>4, <1>5, <1>6, <1>7, <1>8 DEF Next

(* The strengthened invariant of checkouts without retries.                *)
THEOREM OnceInvariant ==
    ASSUME NoRetries
    PROVE  Spec => []OnceInv
<1>1. Init => OnceInv
    <2>1. Init => IInv
        BY RefType DEF Init, IInv, TypeOK, OrderInv, CommitInv, NoPointsWithoutOrder
    <2>2. Init => VoidInv /\ ReleaseInv /\ HoldInv
        BY RefType, ConstantsAssumption DEF Init, VoidInv, ReleaseInv, HoldInv
    <2> QED
        BY <2>1, <2>2 DEF OnceInv
<1>2. OnceInv /\ [Next]_vars => OnceInv'
    <2> SUFFICES ASSUME OnceInv, [Next]_vars PROVE OnceInv'
        OBVIOUS
    <2>1. IInv'
        BY PointsStep DEF OnceInv
    <2>2. TypeOK'
        BY <2>1 DEF IInv
    <2> QED
        BY <2>1, <2>2, VoidStep, HoldStep DEF OnceInv
<1> QED
    BY <1>1, <1>2, PTL DEF Spec

(* A customer whose only attempt was refused has no order, keeps the points *)
(* and will have no order later: a definite error of CreateOrder is final.  *)
THEOREM RefusalSafety ==
    ASSUME NoRetries
    PROVE  Spec => []RefusedMeansNothing
<1>1. OnceInv => RefusedMeansNothing
    BY RefType DEF OnceInv, IInv, NoPointsWithoutOrder, VoidInv, RefusedMeansNothing
<1> QED
    BY <1>1, OnceInvariant, PTL

(* The service never gives back the points behind an order's discount.      *)
THEOREM DiscountSafety ==
    ASSUME NoRetries
    PROVE  Spec => []DiscountBacked
<1>1. OnceInv => DiscountBacked
    <2> SUFFICES ASSUME OnceInv, NEW c \in Calls, order[Ref(c)] = "discounted"
                 PROVE  hold[Ref(c)] \in {"held", "committed", "expired"}
        BY DEF DiscountBacked, Refs
    <2>1. c \in Redeems
        BY DEF OnceInv, IInv, OrderInv, CreateOrderRequest
    <2>2. hold[Ref(c)] # "none"
        BY <2>1 DEF OnceInv, HoldInv
    <2>3. hold[Ref(c)] # "released"
        BY DEF OnceInv, VoidInv, ReleaseInv
    <2> QED
        BY <2>2, <2>3, RefType DEF OnceInv, IInv, TypeOK
<1> QED
    BY <1>1, OnceInvariant, PTL

----------------------------------------------------------------------------
(* The service implements the redemption that Redemption promises.          *)
THEOREM Refinement ==
    ASSUME NoRetries
    PROVE  Spec => ImplementsRedemption
<1> DEFINE K == {Ref(c) : c \in Redeems}
<1>1. Init => R!Init
    <2> SUFFICES ASSUME Init PROVE Outcome = [k \in K |-> "open"]
        BY DEF R!Init
    <2>1. ASSUME NEW k \in K PROVE order[k] = "none" /\ hold[k] = "none"
        BY RefType, ConstantsAssumption DEF Init
    <2> QED
        BY <2>1 DEF Outcome, OutcomeOf
<1>2. OnceInv /\ OnceInv' /\ [Next]_vars => [R!Next]_Outcome
    <2> SUFFICES ASSUME OnceInv, OnceInv', [Next]_vars
                 PROVE  (\E k \in K : R!Becomes(k, "open", "ordered")
                            \/ R!Becomes(k, "open", "void")
                            \/ R!Becomes(k, "open", "lapsed")
                            \/ R!Becomes(k, "ordered", "paid")
                            \/ R!Becomes(k, "ordered", "lapsed"))
                        \/ Outcome' = Outcome
        BY DEF R!Next
    <2> DEFINE Moves(k, from, to) ==
            OutcomeOf(order[k], hold[k]) = from /\ OutcomeOf(order'[k], hold'[k]) = to
    <2>k. K \subseteq Refs /\ \A c \in Calls : Ref(c) \in K => c \in Redeems
        BY ConstantsAssumption DEF Refs, NoRetries
    <2>a. ASSUME NEW k \in K, NEW from, NEW to, Moves(k, from, to),
                 \A j \in Refs \ {k} : order'[j] = order[j] /\ hold'[j] = hold[j]
          PROVE  R!Becomes(k, from, to)
        <3>1. \A j \in K \ {k} : order'[j] = order[j] /\ hold'[j] = hold[j]
            BY <2>a, <2>k
        <3>2. Outcome' = [j \in K |-> OutcomeOf(order'[j], hold'[j])]
            BY DEF Outcome
        <3>3. Outcome = [j \in K |-> OutcomeOf(order[j], hold[j])]
            BY DEF Outcome
        <3> HIDE DEF K
        <3> QED
            BY <2>a, <3>1, <3>2, <3>3 DEF R!Becomes
    <2>b. ASSUME \A j \in K : \/ order'[j] = order[j] /\ hold'[j] = hold[j]
                              \/ \E o : Moves(j, o, o)
          PROVE  Outcome' = Outcome
        <3>2. Outcome' = [j \in K |-> OutcomeOf(order'[j], hold'[j])]
            BY DEF Outcome
        <3>3. Outcome = [j \in K |-> OutcomeOf(order[j], hold[j])]
            BY DEF Outcome
        <3> HIDE DEF K
        <3> QED
            BY <2>b, <3>2, <3>3
    <2> HIDE DEF K
    <2> USE DEF OnceInv, IInv, TypeOK
    <2>1. ASSUME NEW c \in Calls, ReservePoints(c) PROVE Outcome' = Outcome
        <3>1. c \in Redeems /\ hold[Ref(c)] = "none" => order[Ref(c)] = "none"
            BY DEF HoldInv
        <3>2. \A j \in K : \/ order'[j] = order[j] /\ hold'[j] = hold[j]
                           \/ Moves(j, "open", "open")
            BY <2>1, <2>k, <3>1, RefType DEF ReservePoints, OutcomeOf
        <3> QED
            BY <2>b, <3>2
    <2>2. ASSUME NEW c \in Calls, CreateOrder(c), Ref(c) \in K, order' # order
          PROVE  R!Becomes(Ref(c), "open", "ordered") \/ R!Becomes(Ref(c), "open", "lapsed")
        <3>1. /\ order[Ref(c)] = "none" /\ order'[Ref(c)] # "none" /\ hold' = hold
              /\ \A j \in Refs \ {Ref(c)} : order'[j] = order[j]
              /\ [kind |-> "create", call |-> c] \in net
            BY <2>2, RefType DEF CreateOrder, Answer
        <3>2. hold[Ref(c)] \in {"held", "expired"}
            BY <2>2, <2>k, <3>1, RefType DEF HoldInv, ReleaseInv, VoidInv, NoPointsWithoutOrder
        <3>3. Moves(Ref(c), "open", "ordered") \/ Moves(Ref(c), "open", "lapsed")
            BY <3>1, <3>2 DEF OutcomeOf
        <3> QED
            BY <2>2, <2>a, <3>1, <3>3
    <2>3. ASSUME NEW c \in Calls, CommitHold(c), Ref(c) \in K, hold' # hold
          PROVE  R!Becomes(Ref(c), "ordered", "paid")
        <3>1. /\ hold[Ref(c)] = "held" /\ hold'[Ref(c)] = "committed" /\ order' = order
              /\ \A j \in Refs \ {Ref(c)} : hold'[j] = hold[j]
              /\ [kind |-> "commit", call |-> c] \in net
            BY <2>3, RefType DEF CommitHold, Answer
        <3>2. Moves(Ref(c), "ordered", "paid")
            BY <3>1 DEF CommitInv, OutcomeOf
        <3> QED
            BY <2>3, <2>a, <3>1, <3>2
    <2>4. ASSUME NEW c \in Calls, ReleaseHold(c), Ref(c) \in K, hold' # hold
          PROVE  R!Becomes(Ref(c), "open", "void")
        <3>1. /\ hold[Ref(c)] = "held" /\ hold'[Ref(c)] = "released" /\ order' = order
              /\ \A j \in Refs \ {Ref(c)} : hold'[j] = hold[j]
              /\ [kind |-> "release", call |-> c] \in net
            BY <2>4, RefType DEF ReleaseHold, Answer
        <3>2. order[Ref(c)] = "none"
            BY <3>1 DEF ReleaseInv, VoidInv
        <3>3. Moves(Ref(c), "open", "void")
            BY <3>1, <3>2 DEF OutcomeOf
        <3> QED
            BY <2>4, <2>a, <3>1, <3>3
    <2>5. ASSUME NEW k \in Refs, OrderCreatedEvent(k), k \in K
          PROVE  R!Becomes(k, "ordered", "paid")
        <3>1. /\ Moves(k, "ordered", "paid")
              /\ \A j \in Refs \ {k} : order'[j] = order[j] /\ hold'[j] = hold[j]
            BY <2>5 DEF OrderCreatedEvent, OutcomeOf
        <3> QED
            BY <2>5, <2>a, <3>1
    <2>6. ASSUME NEW k \in Refs, HoldExpires(k), k \in K
          PROVE  R!Becomes(k, "ordered", "lapsed") \/ Outcome' = Outcome
        <3>1. /\ Moves(k, "ordered", "lapsed") \/ Moves(k, "open", "open")
              /\ \A j \in Refs \ {k} : order'[j] = order[j] /\ hold'[j] = hold[j]
            BY <2>6 DEF HoldExpires, OutcomeOf
        <3>2. CASE Moves(k, "open", "open")
            BY <2>b, <2>k, <3>1, <3>2
        <3> QED
            BY <2>6, <2>a, <3>1, <3>2
    <2>7. ASSUME UNCHANGED <<hold, order>> PROVE Outcome' = Outcome
        BY <2>7, <2>b
    <2>8. ASSUME NEW k \in Refs \ K, \A j \in Refs \ {k} : order'[j] = order[j] /\ hold'[j] = hold[j]
          PROVE  Outcome' = Outcome
        BY <2>8, <2>b, <2>k
    <2>9. ASSUME NEW c \in Calls, ServiceStep(c) \/ Dies(c) PROVE UNCHANGED <<hold, order>>
        BY <2>9 DEF ServiceStep, Start, Reject, Reserved, Created, Committed,
                    Released, TimesOut, Dies
    <2>10. ASSUME NEW m \in net, Lost(m) PROVE UNCHANGED <<hold, order>>
        BY <2>10 DEF Lost
    <2>11. ASSUME NEW c \in Calls, CreateOrder(c) \/ CommitHold(c) \/ ReleaseHold(c)
           PROVE  \A j \in Refs \ {Ref(c)} : order'[j] = order[j] /\ hold'[j] = hold[j]
        BY <2>11, RefType DEF CreateOrder, CommitHold, ReleaseHold
    <2>12. ASSUME NEW k \in Refs, OrderCreatedEvent(k) \/ HoldExpires(k)
           PROVE  \A j \in Refs \ {k} : order'[j] = order[j] /\ hold'[j] = hold[j]
        BY <2>12 DEF OrderCreatedEvent, HoldExpires
    <2>13. /\ \A c \in Calls : CreateOrder(c) => hold' = hold
           /\ \A c \in Calls : CommitHold(c) \/ ReleaseHold(c) => order' = order
        BY DEF CreateOrder, CommitHold, ReleaseHold
    <2> QED
        <3>1. CASE UNCHANGED vars
            BY <3>1, <2>7 DEF vars
        <3>2. ASSUME NEW c \in Calls, CreateOrder(c) \/ CommitHold(c) \/ ReleaseHold(c)
              PROVE  \/ \E k \in K : \/ R!Becomes(k, "open", "ordered")
                                     \/ R!Becomes(k, "open", "void")
                                     \/ R!Becomes(k, "open", "lapsed")
                                     \/ R!Becomes(k, "ordered", "paid")
                     \/ Outcome' = Outcome
            <4>1. CASE Ref(c) \notin K
                BY <3>2, <4>1, <2>8, <2>11, RefType
            <4>2. CASE Ref(c) \in K
                <5>1. CASE UNCHANGED <<hold, order>>
                    BY <5>1, <2>7
                <5>2. CASE CreateOrder(c) /\ order' # order
                    BY <4>2, <5>2, <2>2
                <5>3. CASE CommitHold(c) /\ hold' # hold
                    BY <4>2, <5>3, <2>3
                <5>4. CASE ReleaseHold(c) /\ hold' # hold
                    BY <4>2, <5>4, <2>4
                <5> QED
                    BY <3>2, <5>1, <5>2, <5>3, <5>4, <2>13
            <4> QED
                BY <4>1, <4>2
        <3>3. ASSUME NEW k \in Refs, OrderCreatedEvent(k) \/ HoldExpires(k)
              PROVE  \/ \E j \in K : \/ R!Becomes(j, "ordered", "paid")
                                     \/ R!Becomes(j, "ordered", "lapsed")
                     \/ Outcome' = Outcome
            BY <3>3, <2>5, <2>6, <2>8, <2>12
        <3> QED
            BY <3>1, <3>2, <3>3, <2>1, <2>7, <2>9, <2>10 DEF Next
<1> QED
    BY <1>1, <1>2, OnceInvariant, PTL DEF Spec, ImplementsRedemption, R!Spec
=============================================================================
