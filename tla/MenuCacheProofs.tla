-------------------------- MODULE MenuCacheProofs --------------------------
(***************************************************************************)
(* Proofs that the menu cache keeps its promises for any number of         *)
(* restaurants, fetches in flight, consumers, changes and faults.          *)
(***************************************************************************)
EXTENDS MenuCache, TLAPS

\* What an idle request and an empty cache look like.
LEMMA IdleRequestType == IdleRequest \in Requests /\ IdleRequest.pc = "idle"
BY ConstantsAssumption DEF IdleRequest, Requests

\* A flushed or fresh cache has the type of any other.
LEMMA EmptyCacheType == EmptyCache \in [Restaurants -> Entries \union {NoEntry}]
BY DEF EmptyCache

\* TypeOK holds initially, and no step leaves it.
LEMMA InitType == Init => TypeOK
<1> SUFFICES ASSUME Init PROVE TypeOK
  OBVIOUS
<1>1. fetch \in [Fetchers -> Requests] /\ \A f \in Fetchers : fetch[f].pc = "idle"
  BY IdleRequestType DEF Init
<1>2. mark \in [Keys -> Marks]
  BY DEF Init, NoMark, Marks
<1>3. cache \in [Restaurants -> Entries \union {NoEntry}]
  BY EmptyCacheType DEF Init
<1>4. snap \in [Consumers -> [Restaurants -> Entries \union {NoEntry}]]
  BY EmptyCacheType DEF Init
<1>5. log \in Seq(Changes) /\ Len(log) = 0
  BY DEF Init
<1>6. QED
  BY <1>1, <1>2, <1>3, <1>4, <1>5, ConstantsAssumption DEF Init, TypeOK

\* Invalidate's DEL and SCAN only remove entries.
LEMMA DropType ==
  ASSUME cache \in [Restaurants -> Entries \union {NoEntry}], NEW K
  PROVE  Drop(K) \in [Restaurants -> Entries \union {NoEntry}]
BY DEF Drop

\* A call that may fail counts at most MaxFaults faults.
LEMMA FaultType ==
  ASSUME TypeOK, UNCHANGED envVars \/ Fault
  PROVE  faults' \in 0..MaxFaults /\ stops' \in 0..MaxStops
BY ConstantsAssumption DEF TypeOK, Fault, envVars

\* Invalidate's SET replaces one mark.
LEMMA WriteMarkType ==
  ASSUME TypeOK, NEW c \in Consumers, WriteMark(c)
  PROVE  mark' \in [Keys -> Marks]
<1>1. Key(c) \in Keys => mark' \in [Keys -> Marks]
  BY ConstantsAssumption DEF WriteMark, TypeOK, Marks
<1>2. Key(c) \notin Keys => mark' = mark
  BY DEF WriteMark, TypeOK
<1> QED
  BY <1>1, <1>2 DEF TypeOK

\* A successful Invalidate moves its consumer on.
LEMMA InvalidatedType ==
  ASSUME TypeOK, NEW c \in Consumers, Invalidated(c)
  PROVE  /\ pc' \in [Consumers -> {"poll", "mark", "del", "scan", "publish", "commit"}]
         /\ attempt' \in [Consumers -> Nat]
         /\ snap' \in [Consumers -> [Restaurants -> Entries \union {NoEntry}]]
         /\ applied' \in [Consumers -> SUBSET (0..published)]
BY EmptyCacheType DEF Invalidated, AfterHandler, TypeOK

\* No step of CRM, a fetch, a consumer or the clock leaves TypeOK.
LEMMA TypeStep == TypeOK /\ [Next]_vars => TypeOK'
<1> SUFFICES ASSUME TypeOK, [Next]_vars PROVE TypeOK'
  OBVIOUS
<1> USE ConstantsAssumption
<1>1. CASE Tick
  <2>1. now' \in Nat \ {0}
    BY <1>1 DEF Tick, TypeOK
  <2>2. mark' \in [Keys -> Marks]
    BY <1>1, <2>1 DEF Tick, TypeOK, NoMark, Marks
  <2>3. cache' \in [Restaurants -> Entries \union {NoEntry}]
    BY <1>1 DEF Tick, TypeOK
  <2>4. QED
    BY <1>1, <2>1, <2>2, <2>3 DEF Tick, TypeOK, consVars, envVars
<1>2. ASSUME NEW k \in Keys, CrmCommits(k) PROVE TypeOK'
  <2>1. log' \in Seq(Changes) /\ Len(log') = Len(log) + 1
    BY <1>2 DEF CrmCommits, TypeOK, Changes
  <2>2. published \in 0..Len(log')
    BY <2>1 DEF TypeOK
  <2>3. UNCHANGED <<now, published, mark, cache, fetch, pc, pos, committed, stamp,
                    attempt, snap, told, marked, applied, stopping>>
    BY <1>2 DEF CrmCommits, consVars, envVars
  <2>4. faults' = faults /\ stops' = stops
    BY <1>2 DEF CrmCommits, envVars
  <2>5. QED
    BY <2>1, <2>2, <2>3, <2>4 DEF TypeOK
<1>3. CASE CrmPublishes
  <2>1. published' = published + 1 /\ published' \in 0..Len(log)
    BY <1>3 DEF CrmPublishes, TypeOK
  <2>2. 0..published \subseteq 0..published'
    BY <2>1 DEF TypeOK
  <2>3. pos' \in [Consumers -> 0..published'] /\ committed' \in [Consumers -> 0..published']
        /\ told' \in [Consumers -> 0..published']
    BY <1>3, <2>2 DEF CrmPublishes, TypeOK, consVars
  <2>4. marked' \in [Consumers -> SUBSET (0..published')]
        /\ applied' \in [Consumers -> SUBSET (0..published')]
    BY <1>3, <2>2 DEF CrmPublishes, TypeOK, consVars
  <2>5. QED
    BY <1>3, <2>1, <2>3, <2>4 DEF CrmPublishes, TypeOK, consVars, envVars
<1>4. ASSUME NEW f \in Fetchers, FetchStep(f) PROVE TypeOK'
  <2>1. ASSUME NEW r \in Restaurants, Miss(f, r) PROVE TypeOK'
    <3>1. fetch' \in [Fetchers -> Requests]
      BY <2>1, IdleRequestType DEF Miss, TypeOK, Requests
    <3>0. UNCHANGED envVars \/ Fault
      BY <2>1 DEF Miss
    <3>2. faults' \in 0..MaxFaults /\ stops' \in 0..MaxStops
      BY <3>0, FaultType
    <3>3. \A g \in Fetchers : fetch'[g].pc = "write" => fetch'[g].ttl > 0
      BY <2>1, IdleRequestType DEF Miss, TypeOK, Requests
    <3>4. QED
      BY <2>1, <3>1, <3>2, <3>3 DEF Miss, TypeOK, consVars
  <2>2. CASE CrmAnswers(f)
    <3>0. fetch[f] \in Requests /\ ValidUntil[fetch[f].rest] \in Nat /\ Len(log) \in Nat
      BY DEF TypeOK, Requests
    <3>1. fetch' \in [Fetchers -> Requests]
      <4> DEFINE b == ValidUntil[fetch[f].rest]
                 q == [fetch[f] EXCEPT !.pc = "check", !.ver = Len(log),
                                       !.until = IF b > now THEN b ELSE 0]
      <4>1. q \in Requests
        BY <3>0 DEF Requests
      <4>2. fetch' = [fetch EXCEPT ![f] = q]
        BY <2>2 DEF CrmAnswers
      <4> QED
        BY <4>1, <4>2 DEF TypeOK
    <3>2. \A g \in Fetchers : fetch'[g].pc = "write" => fetch'[g].ttl > 0
      BY <2>2, <3>0 DEF CrmAnswers, TypeOK, Requests
    <3>3. QED
      BY <2>2, <3>1, <3>2 DEF CrmAnswers, TypeOK, consVars, envVars
  <2>3. CASE CheckMarks(f)
    <3>1. TTL(fetch[f].until) \in Int
      BY DEF TTL, TypeOK, Requests
    <3>2. /\ fetch' \in [Fetchers -> Requests]
          /\ \A g \in Fetchers : fetch'[g].pc = "write" => fetch'[g].ttl > 0
      <4> DEFINE q == fetch[f]
                 t == TTL(q.until)
      <4>1. CASE t <= 0 \/ GuardRefuses(q.rest, q.fetchedAt)
        BY <2>3, <4>1, IdleRequestType DEF CheckMarks, TypeOK
      <4>2. CASE ~(t <= 0 \/ GuardRefuses(q.rest, q.fetchedAt))
        <5>1. t \in Nat /\ t > 0
          BY <3>1, <4>2
        <5>2. /\ [q EXCEPT !.pc = "write", !.ttl = t] \in Requests
              /\ [q EXCEPT !.pc = "write", !.ttl = t].ttl = t
          <6>1. q \in Requests
            BY DEF TypeOK
          <6> HIDE DEF q, t
          <6> QED
            BY <5>1, <6>1 DEF Requests
        <5>3. fetch' = [fetch EXCEPT ![f] = [q EXCEPT !.pc = "write", !.ttl = t]]
          BY <2>3, <4>2 DEF CheckMarks
        <5> HIDE DEF q, t
        <5> QED
          BY <5>1, <5>2, <5>3 DEF TypeOK
      <4> QED
        BY <4>1, <4>2
    <3>3. QED
      BY <2>3, <3>2 DEF CheckMarks, TypeOK, consVars, envVars
  <2>4. CASE Write(f)
    <3> DEFINE q == fetch[f]
               e == [ver |-> q.ver, until |-> q.until, expires |-> now + q.ttl,
                     fetchedAt |-> q.fetchedAt, raced |-> GuardRefuses(q.rest, q.fetchedAt)]
    <3>1. q.rest \in Restaurants /\ q.ver \in Nat /\ q.until \in Nat /\ q.fetchedAt \in Nat
      BY DEF TypeOK, Requests
    <3>2. now + q.ttl \in Nat
      BY DEF TypeOK, Requests
    <3>3. e.raced \in BOOLEAN
      BY DEF GuardRefuses, Forbids
    <3>4. e \in Entries
      BY <3>1, <3>2, <3>3 DEF Entries
    <3>5. cache' = [cache EXCEPT ![q.rest] = e]
      BY <2>4 DEF Write
    <3>6. /\ fetch' \in [Fetchers -> Requests]
          /\ \A g \in Fetchers : fetch'[g].pc = "write" => fetch'[g].ttl > 0
      BY <2>4, IdleRequestType DEF Write, TypeOK
    <3> HIDE DEF e, q
    <3>7. cache' \in [Restaurants -> Entries \union {NoEntry}]
      BY <3>1, <3>4, <3>5 DEF TypeOK
    <3> QED
      BY <2>4, <3>6, <3>7 DEF Write, TypeOK, consVars, envVars
  <2>5. CASE FetchFails(f)
    BY <2>5, IdleRequestType DEF FetchFails, TypeOK, consVars, envVars
  <2>6. QED
    BY <1>4, <2>1, <2>2, <2>3, <2>4, <2>5 DEF FetchStep
<1>5. ASSUME NEW c \in Consumers, ConsumerStep(c) \/ ScanBatch(c) \/ Stop(c) \/ Crash(c)
      PROVE  TypeOK'
  <2> USE <1>5
  <2>1. CASE Poll(c)
    <3>1. pos[c] + 1 \in 0..published
      BY <2>1 DEF Poll, Available, TypeOK
    <3> QED
      BY <2>1, <3>1 DEF Poll, Attempt, TypeOK, envVars
  <2>2. CASE Mark(c)
    <3>1. mark' \in [Keys -> Marks]
      BY <2>2, WriteMarkType DEF Mark
    <3>2. snap' \in [Consumers -> [Restaurants -> Entries \union {NoEntry}]]
      BY <2>2, EmptyCacheType DEF Mark, TypeOK
    <3>3. marked' \in [Consumers -> SUBSET (0..published)]
      BY <2>2 DEF Mark, TypeOK
    <3>4. QED
      BY <2>2, <3>1, <3>2, <3>3 DEF Mark, TypeOK, envVars
  <2>3. CASE Del(c)
    <3>1. cache' \in [Restaurants -> Entries \union {NoEntry}]
      BY <2>3, DropType DEF Del, TypeOK
    <3>2. QED
      BY <2>3, <3>1, InvalidatedType DEF Del, TypeOK, envVars
  <2>4. CASE ScanEnds(c)
    <3>1. cache' \in [Restaurants -> Entries \union {NoEntry}]
      BY <2>4, DropType DEF ScanEnds, TypeOK
    <3>2. QED
      BY <2>4, <3>1, InvalidatedType DEF ScanEnds, TypeOK, envVars
  <2>5. CASE AttemptFails(c)
    <3>1. cache' \in [Restaurants -> Entries \union {NoEntry}]
      BY <2>5, DropType DEF AttemptFails, TypeOK
    <3>2. mark' \in [Keys -> Marks]
      BY <2>5, WriteMarkType DEF AttemptFails, TypeOK
    <3>3. faults' \in 0..MaxFaults /\ stops' \in 0..MaxStops
      BY <2>5, FaultType DEF AttemptFails, CallFails
    <3>4. /\ pc' \in [Consumers -> {"poll", "mark", "del", "scan", "publish", "commit"}]
          /\ stamp' \in [Consumers -> Nat]
          /\ attempt' \in [Consumers -> Nat]
      <4>1. \/ Attempt(c, attempt[c] + 1)
            \/ AfterHandler(c) /\ stamp' = [stamp EXCEPT ![c] = 0]
        BY <2>5 DEF AttemptFails
      <4>2. CASE Attempt(c, attempt[c] + 1)
        BY <4>2 DEF Attempt, TypeOK
      <4>3. CASE AfterHandler(c) /\ stamp' = [stamp EXCEPT ![c] = 0]
        BY <4>3 DEF AfterHandler, TypeOK
      <4> QED
        BY <4>1, <4>2, <4>3
    <3>5. snap' \in [Consumers -> [Restaurants -> Entries \union {NoEntry}]]
      BY <2>5, EmptyCacheType DEF AttemptFails, TypeOK
    <3>6. QED
      BY <2>5, <3>1, <3>2, <3>3, <3>4, <3>5 DEF AttemptFails, TypeOK
  <2>6. CASE Publish(c)
    BY <2>6 DEF Publish, TypeOK, envVars
  <2>7. CASE Commit(c)
    BY <2>7, FaultType DEF Commit, CallFails, TypeOK
  <2>8. ASSUME Rejoin(c), UNCHANGED envVars \/ Fault PROVE TypeOK'
    <3>1. faults' \in 0..MaxFaults /\ stops' \in 0..MaxStops
      BY <2>8, FaultType
    <3>2. /\ pos' \in [Consumers -> 0..published]
          /\ committed' \in [Consumers -> 0..published]
      <4>1. \/ pos' = [pos EXCEPT ![c] = committed[c]] /\ UNCHANGED committed
            \/ /\ pos' = [pos EXCEPT ![c] = published]
               /\ committed' = [committed EXCEPT ![c] = published]
        BY <2>8 DEF Rejoin
      <4>2. published \in 0..published /\ committed[c] \in 0..published
        BY DEF TypeOK
      <4>3. CASE pos' = [pos EXCEPT ![c] = committed[c]] /\ UNCHANGED committed
        BY <4>2, <4>3 DEF TypeOK
      <4>4. CASE /\ pos' = [pos EXCEPT ![c] = published]
                 /\ committed' = [committed EXCEPT ![c] = published]
        BY <4>2, <4>4 DEF TypeOK
      <4> QED
        BY <4>1, <4>3, <4>4
    <3>3. snap' \in [Consumers -> [Restaurants -> Entries \union {NoEntry}]]
      BY <2>8, EmptyCacheType DEF Rejoin, TypeOK
    <3>4. QED
      BY <2>8, <3>1, <3>2, <3>3 DEF Rejoin, TypeOK
  <2>9. CASE ScanBatch(c)
    <3>1. PICK K \in SUBSET Restaurants : cache' = Drop(K)
      BY <2>9 DEF ScanBatch
    <3>2. cache' \in [Restaurants -> Entries \union {NoEntry}]
      BY <3>1, DropType DEF TypeOK
    <3>3. UNCHANGED <<now, log, published, mark, fetch, pc, pos, committed, stamp,
                      attempt, snap, told, marked, applied, stopping, faults, stops>>
      BY <2>9 DEF ScanBatch, consVars, envVars
    <3>4. QED
      BY <3>2, <3>3 DEF TypeOK
  <2>10. CASE Stop(c)
    <3>1. stops' \in 0..MaxStops /\ stopping' \in [Consumers -> BOOLEAN]
      BY <2>10 DEF Stop, TypeOK
    <3>2. UNCHANGED <<now, log, published, mark, cache, fetch, pc, pos, committed,
                      stamp, attempt, snap, told, marked, applied, faults>>
      BY <2>10 DEF Stop
    <3>3. QED
      BY <3>1, <3>2 DEF TypeOK
  <2>11. QED
    BY <2>1, <2>2, <2>3, <2>4, <2>5, <2>6, <2>7, <2>8, <2>9, <2>10
       DEF ConsumerStep, Resume, Crash
<1>6. CASE UNCHANGED vars
  BY <1>6 DEF vars, TypeOK, consVars, envVars
<1>7. QED
  BY <1>1, <1>2, <1>3, <1>4, <1>5, <1>6 DEF Next

\* Type correctness of the specification.
THEOREM TypeCorrect == Spec => []TypeOK
BY InitType, TypeStep, PTL DEF Spec

----------------------------------------------------------------------------
(* The times of changes, fetches and cached menus.                         *)

\* The parts of a change.
LEMMA LogType ==
  ASSUME TypeOK, NEW i \in 1..Len(log)
  PROVE  log[i] \in Changes /\ log[i].at \in Nat /\ log[i].key \in Keys
<1>1. log[i] \in Changes
  BY DEF TypeOK
<1>2. QED
  BY <1>1 DEF Changes

\* A change of CRM is appended to the log with the present time.
LEMMA CommitGrows ==
  ASSUME TypeOK, NEW k \in Keys, CrmCommits(k)
  PROVE  /\ Len(log') = Len(log) + 1
         /\ \A i \in 1..Len(log) : log'[i] = log[i]
         /\ log'[Len(log) + 1].key = k /\ log'[Len(log) + 1].at = now
         /\ Len(log) \in Nat
BY DEF CrmCommits, TypeOK, Changes

\* A consumer leaves the clock, CRM and the fetches alone, and only removes
\* cached menus.
LEMMA ConsumerFrame ==
  ASSUME TypeOK, NEW c \in Consumers,
         ConsumerStep(c) \/ ScanBatch(c) \/ Stop(c) \/ Crash(c)
  PROVE  /\ UNCHANGED <<now, log, published, fetch>>
         /\ \A r \in Restaurants : cache'[r] = NoEntry \/ cache'[r] = cache[r]
<1>1. UNCHANGED <<now, log, published, fetch>>
  BY DEF ConsumerStep, Poll, Mark, Del, ScanEnds, AttemptFails, Publish, Commit,
         Resume, ScanBatch, Stop, Crash, Rejoin
<1>2. UNCHANGED cache \/ \E K : cache' = Drop(K)
  BY DEF ConsumerStep, Poll, Mark, Del, ScanEnds, AttemptFails, Publish, Commit,
         Resume, ScanBatch, Stop, Crash, Rejoin
<1>3. QED
  BY <1>1, <1>2 DEF Drop

\* A fetch leaves the clock, CRM, the marks and the consumers alone.
LEMMA FetchFrame ==
  ASSUME NEW f \in Fetchers, FetchStep(f)
  PROVE  UNCHANGED <<now, log, published, mark, consVars>>
BY DEF FetchStep, Miss, CrmAnswers, CheckMarks, Write, FetchFails

\* A change is never dated in the future.
LEMMA LogStep == TypeOK /\ LogInv /\ [Next]_vars => LogInv'
<1> SUFFICES ASSUME TypeOK, LogInv, [Next]_vars PROVE LogInv'
  OBVIOUS
<1>1. CASE Tick
  BY <1>1, LogType DEF Tick, LogInv, TypeOK
<1>2. ASSUME NEW k \in Keys, CrmCommits(k) PROVE LogInv'
  BY <1>2, CommitGrows DEF CrmCommits, LogInv, TypeOK
<1>3. CASE UNCHANGED <<now, log>>
  BY <1>3 DEF LogInv
<1>4. QED
  BY <1>1, <1>2, <1>3, FetchFrame, ConsumerFrame DEF Next, vars, CrmPublishes

\* Later changes do not belong to what a fetch must hold.
LEMMA HoldsStays ==
  ASSUME TypeOK, NEW ver \in Nat, NEW t \in Nat, t <= now, HoldsEarlier(ver, t),
         UNCHANGED log \/ \E k \in Keys : CrmCommits(k)
  PROVE  \A i \in 1..Len(log') : log'[i].at < t => i <= ver
<1>1. CASE UNCHANGED log
  BY <1>1 DEF HoldsEarlier
<1>2. ASSUME NEW k \in Keys, CrmCommits(k)
      PROVE  \A i \in 1..Len(log') : log'[i].at < t => i <= ver
  <2> SUFFICES ASSUME NEW i \in 1..Len(log'), log'[i].at < t PROVE i <= ver
    OBVIOUS
  <2>1. Len(log') = Len(log) + 1 /\ Len(log) \in Nat
        /\ log'[Len(log) + 1].at = now
        /\ \A j \in 1..Len(log) : log'[j] = log[j]
    BY <1>2, CommitGrows
  <2>2. i # Len(log) + 1
    BY <2>1 DEF TypeOK
  <2>3. i \in 1..Len(log)
    BY <2>1, <2>2
  <2> QED
    BY <2>1, <2>3 DEF HoldsEarlier
<1>3. QED
  BY <1>1, <1>2

\* No step disturbs what is known of the fetches in flight.
LEMMA FetchInvStep == TypeOK /\ LogInv /\ FetchInv /\ [Next]_vars => FetchInv'
<1> SUFFICES ASSUME TypeOK, LogInv, FetchInv, [Next]_vars, NEW g \in Fetchers
             PROVE  FetchOK(fetch[g])'
  BY DEF FetchInv
<1> USE ConstantsAssumption
<1>0. FetchOK(fetch[g]) /\ fetch[g] \in Requests /\ now \in Nat
  BY DEF FetchInv, TypeOK
<1>1. ASSUME fetch'[g] = fetch[g], now' \in Nat, now' >= now,
             UNCHANGED log \/ \E k \in Keys : CrmCommits(k)
      PROVE  FetchOK(fetch[g])'
  <2>1. fetch[g].ver \in Nat /\ fetch[g].fetchedAt \in Nat
    BY <1>0 DEF Requests
  <2>2. ASSUME fetch[g].pc \in {"check", "write"}
        PROVE  HoldsEarlier(fetch[g].ver, fetch[g].fetchedAt)'
    BY <1>0, <1>1, <2>1, <2>2, HoldsStays DEF FetchOK, HoldsEarlier
  <2>3. QED
    BY <1>0, <1>1, <2>1, <2>2 DEF FetchOK
<1>2. CASE Tick
  BY <1>1, <1>2 DEF Tick, TypeOK
<1>3. ASSUME NEW k \in Keys, CrmCommits(k) PROVE FetchOK(fetch[g])'
  BY <1>0, <1>1, <1>3 DEF CrmCommits
<1>4. ASSUME NEW f \in Fetchers, FetchStep(f) PROVE FetchOK(fetch[g])'
  <2>0. UNCHANGED <<now, log>>
    BY <1>4, FetchFrame
  <2>1. CASE f # g
    <3>1. fetch'[g] = fetch[g]
      BY <1>4, <2>1 DEF FetchStep, Miss, CrmAnswers, CheckMarks, Write, FetchFails, TypeOK
    <3>2. QED
      BY <1>0, <1>1, <2>0, <3>1
  <2>2. CASE f = g /\ fetch'[g] = IdleRequest
    BY <2>2, IdleRequestType DEF FetchOK
  <2>3. ASSUME f = g, NEW r \in Restaurants, Miss(f, r) PROVE FetchOK(fetch[g])'
    <3>1. fetch'[g].pc = "call" /\ fetch'[g].fetchedAt = now
      BY <2>3, IdleRequestType DEF Miss, TypeOK, Requests
    <3>2. QED
      BY <1>0, <2>0, <3>1 DEF FetchOK
  <2>4. CASE f = g /\ CrmAnswers(f)
    <3>1. /\ fetch'[g].pc = "check"
          /\ fetch'[g].fetchedAt = fetch[g].fetchedAt
          /\ fetch'[g].ver = Len(log)
          /\ fetch[g].pc = "call"
      BY <2>4 DEF CrmAnswers, TypeOK, Requests
    <3>2. QED
      BY <1>0, <2>0, <3>1 DEF FetchOK, HoldsEarlier
  <2>5. CASE f = g /\ CheckMarks(f) /\ fetch'[g] # IdleRequest
    <3> DEFINE t == TTL(fetch[g].until)
    <3>1. /\ ~(t <= 0)
          /\ fetch'[g] = [fetch[g] EXCEPT !.pc = "write", !.ttl = t]
          /\ fetch[g].pc = "check"
      BY <2>5 DEF CheckMarks, TypeOK
    <3>2. t \in 1..MaxTTL /\ (fetch[g].until > 0 => t <= fetch[g].until - fetch[g].fetchedAt)
      BY <1>0, <3>1 DEF TTL, FetchOK, Requests
    <3>3. /\ fetch'[g].pc = "write" /\ fetch'[g].ttl = t
          /\ fetch'[g].fetchedAt = fetch[g].fetchedAt /\ fetch'[g].ver = fetch[g].ver
          /\ fetch'[g].until = fetch[g].until
      BY <1>0, <3>1 DEF Requests
    <3> HIDE DEF t
    <3>4. QED
      BY <1>0, <2>0, <3>1, <3>2, <3>3 DEF FetchOK, HoldsEarlier
  <2>6. QED
    BY <1>4, <2>1, <2>2, <2>3, <2>4, <2>5
       DEF FetchStep, Write, FetchFails, TypeOK
<1>5. CASE UNCHANGED <<now, log, fetch>>
  BY <1>0, <1>1, <1>5
<1>6. QED
  BY <1>2, <1>3, <1>4, <1>5, ConsumerFrame DEF Next, vars, CrmPublishes

\* What is cached keeps its times: it holds the changes before its fetch, and
\* expires in time.
LEMMA EntryInvStep ==
  TypeOK /\ FetchInv /\ EntryInv /\ [Next]_vars => EntryInv'
<1> SUFFICES ASSUME TypeOK, FetchInv, EntryInv, [Next]_vars,
                    NEW r \in Restaurants, cache'[r] # NoEntry
             PROVE  EntryOK(cache[r])'
  BY DEF EntryInv
<1> USE ConstantsAssumption
<1>0. /\ now \in Nat
      /\ cache[r] # NoEntry => cache[r] \in Entries /\ EntryOK(cache[r])
  BY DEF EntryInv, TypeOK
<1>1. ASSUME cache'[r] = cache[r], now' \in Nat, now' >= now, now' < cache[r].expires,
             UNCHANGED log \/ \E k \in Keys : CrmCommits(k)
      PROVE  EntryOK(cache[r])'
  <2>1. cache[r].ver \in Nat /\ cache[r].fetchedAt \in Nat
    BY <1>0, <1>1 DEF Entries
  <2>2. HoldsEarlier(cache[r].ver, cache[r].fetchedAt)'
    BY <1>0, <1>1, <2>1, HoldsStays DEF EntryOK, HoldsEarlier
  <2>3. QED
    BY <1>0, <1>1, <2>1, <2>2 DEF EntryOK
<1>2. CASE Tick
  <2>1. cache'[r] = cache[r] /\ ~(cache[r].expires <= now')
    BY <1>2 DEF Tick
  <2>2. cache[r].expires \in Nat
    BY <1>0, <2>1 DEF Entries
  <2>3. QED
    BY <1>0, <1>1, <1>2, <2>1, <2>2 DEF Tick
<1>3. ASSUME NEW k \in Keys, CrmCommits(k) PROVE EntryOK(cache[r])'
  BY <1>0, <1>1, <1>3 DEF CrmCommits, EntryOK
<1>4. ASSUME UNCHANGED <<now, log>>, cache'[r] = cache[r] PROVE EntryOK(cache[r])'
  BY <1>0, <1>1, <1>4 DEF EntryOK
<1>5. ASSUME NEW f \in Fetchers, Write(f) PROVE EntryOK(cache[r])'
  <2>0. UNCHANGED <<now, log>>
    BY <1>5 DEF Write
  <2>1. CASE r # fetch[f].rest
    <3>1. cache'[r] = cache[r]
      BY <1>5, <2>1 DEF Write, TypeOK
    <3>2. QED
      BY <1>4, <2>0, <3>1
  <2>2. CASE r = fetch[f].rest
    <3>1. /\ cache'[r].ver = fetch[f].ver
          /\ cache'[r].until = fetch[f].until
          /\ cache'[r].expires = now + fetch[f].ttl
          /\ cache'[r].fetchedAt = fetch[f].fetchedAt
          /\ fetch[f].pc = "write"
      BY <1>5, <2>2 DEF Write, TypeOK
    <3>2. FetchOK(fetch[f]) /\ fetch[f] \in Requests /\ now <= fetch[f].fetchedAt + FetchTimeout
      BY <1>5 DEF Write, InTime, FetchInv, TypeOK
    <3>3. fetch[f].ttl \in Nat /\ fetch[f].until \in Nat /\ fetch[f].fetchedAt \in Nat
      BY <3>2 DEF Requests
    <3>4. /\ fetch[f].fetchedAt <= now
          /\ HoldsEarlier(fetch[f].ver, fetch[f].fetchedAt)
          /\ fetch[f].ttl \in 1..MaxTTL
          /\ fetch[f].until > 0 => fetch[f].ttl <= fetch[f].until - fetch[f].fetchedAt
      BY <3>1, <3>2 DEF FetchOK
    <3>5. HoldsEarlier(cache[r].ver, cache[r].fetchedAt)'
      BY <2>0, <3>1, <3>4 DEF HoldsEarlier
    <3>6. QED
      BY <1>0, <2>0, <3>1, <3>2, <3>3, <3>4, <3>5 DEF EntryOK
  <2>3. QED
    BY <2>1, <2>2
<1>6. ASSUME NEW f \in Fetchers, FetchStep(f), ~Write(f) PROVE EntryOK(cache[r])'
  BY <1>4, <1>6, FetchFrame DEF FetchStep, Miss, CrmAnswers, CheckMarks, FetchFails
<1>7. ASSUME NEW c \in Consumers, ConsumerStep(c) \/ ScanBatch(c) \/ Stop(c) \/ Crash(c)
      PROVE  EntryOK(cache[r])'
  BY <1>4, <1>7, ConsumerFrame
<1>8. CASE CrmPublishes \/ UNCHANGED vars
  BY <1>4, <1>8 DEF CrmPublishes, vars
<1>9. QED
  BY <1>2, <1>3, <1>5, <1>6, <1>7, <1>8 DEF Next

----------------------------------------------------------------------------
(* The consumers and the marks.                                            *)

\* A consumer holds a change that is in the log.
LEMMA PosType ==
  ASSUME TypeOK, NEW c \in Consumers
  PROVE  /\ pos[c] \in Nat /\ pos[c] <= published /\ published <= Len(log)
         /\ published \in Nat /\ Len(log) \in Nat
         /\ \A i \in marked[c] : i \in Nat /\ i <= Len(log)
         /\ \A i \in applied[c] : i \in Nat /\ i <= Len(log)
BY DEF TypeOK

\* What StampInv and PhaseInv say of one consumer depends on its own state
\* and on changes that stay in the log.
LEMMA ConsumerStays ==
  ASSUME TypeOK, LogInv, StampInv, PhaseInv, NEW c \in Consumers,
         now' \in Nat, now' >= now,
         UNCHANGED log \/ \E k \in Keys : CrmCommits(k),
         /\ pc'[c] = pc[c] /\ pos'[c] = pos[c] /\ stamp'[c] = stamp[c]
         /\ marked'[c] = marked[c] /\ applied'[c] = applied[c]
  PROVE  /\ pc'[c] = "mark" =>
              /\ pos'[c] > 0
              /\ stamp'[c] <= now'
              /\ log'[pos'[c]].at <= stamp'[c]
              /\ \A i \in marked'[c] : log'[i].at <= stamp'[c]
         /\ applied'[c] \subseteq marked'[c]
         /\ 0 \notin marked'[c]
         /\ pc'[c] \in {"del", "scan"} => pos'[c] \in marked'[c]
         /\ pc'[c] = "del" => Key(c)' # All
         /\ pc'[c] = "scan" => Key(c)' = All
<1>1. \A i \in 1..Len(log) : log'[i] = log[i]
  BY CommitGrows
<1>2. \A i \in marked[c] : i \in 1..Len(log)
  BY PosType DEF PhaseInv
<1>3. pc[c] = "mark" => pos[c] \in 1..Len(log)
  BY PosType DEF StampInv
<1>4. pc[c] \in {"del", "scan"} => pos[c] \in 1..Len(log)
  BY <1>2 DEF PhaseInv
<1>5. now \in Nat /\ stamp[c] \in Nat
  BY DEF TypeOK
<1>6. pc'[c] = "mark" =>
              /\ pos'[c] > 0
              /\ stamp'[c] <= now'
              /\ log'[pos'[c]].at <= stamp'[c]
              /\ \A i \in marked'[c] : log'[i].at <= stamp'[c]
  <2> SUFFICES ASSUME pc[c] = "mark"
               PROVE  /\ pos[c] > 0
                      /\ stamp[c] <= now'
                      /\ log'[pos[c]].at <= stamp[c]
                      /\ \A i \in marked[c] : log'[i].at <= stamp[c]
    OBVIOUS
  <2>1. /\ pos[c] > 0 /\ stamp[c] <= now /\ log[pos[c]].at <= stamp[c]
        /\ \A i \in marked[c] : log[i].at <= stamp[c]
    BY DEF StampInv
  <2>2. log'[pos[c]].at <= stamp[c]
    BY <1>1, <1>3, <2>1
  <2>3. \A i \in marked[c] : log'[i].at <= stamp[c]
    BY <1>1, <1>2, <2>1
  <2>4. stamp[c] <= now'
    BY <1>5, <2>1
  <2> QED
    BY <2>1, <2>2, <2>3, <2>4
<1>7. QED
  BY <1>1, <1>4, <1>6 DEF PhaseInv, Key

\* No step disturbs the times of the marks or the phases of the consumers.
LEMMA StampPhaseStep ==
  TypeOK /\ LogInv /\ StampInv /\ PhaseInv /\ [Next]_vars => StampInv' /\ PhaseInv'
<1> SUFFICES ASSUME TypeOK, LogInv, StampInv, PhaseInv, [Next]_vars, NEW d \in Consumers
             PROVE  /\ pc'[d] = "mark" =>
                         /\ pos'[d] > 0
                         /\ stamp'[d] <= now'
                         /\ log'[pos'[d]].at <= stamp'[d]
                         /\ \A i \in marked'[d] : log'[i].at <= stamp'[d]
                    /\ applied'[d] \subseteq marked'[d]
                    /\ 0 \notin marked'[d]
                    /\ pc'[d] \in {"del", "scan"} => pos'[d] \in marked'[d]
                    /\ pc'[d] = "del" => Key(d)' # All
                    /\ pc'[d] = "scan" => Key(d)' = All
  BY DEF StampInv, PhaseInv
<1> DEFINE Goal == /\ pc'[d] = "mark" =>
                         /\ pos'[d] > 0
                         /\ stamp'[d] <= now'
                         /\ log'[pos'[d]].at <= stamp'[d]
                         /\ \A i \in marked'[d] : log'[i].at <= stamp'[d]
                   /\ applied'[d] \subseteq marked'[d]
                   /\ 0 \notin marked'[d]
                   /\ pc'[d] \in {"del", "scan"} => pos'[d] \in marked'[d]
                   /\ pc'[d] = "del" => Key(d)' # All
                   /\ pc'[d] = "scan" => Key(d)' = All
<1>0. now \in Nat /\ now >= now
  BY DEF TypeOK
<1>1. CASE Tick
  BY <1>1, ConsumerStays DEF Tick, TypeOK, consVars
<1>2. ASSUME NEW k \in Keys, CrmCommits(k) PROVE Goal
  BY <1>0, <1>2, ConsumerStays DEF CrmCommits, consVars
<1>3. ASSUME UNCHANGED <<now, log, consVars>> PROVE Goal
  BY <1>0, <1>3, ConsumerStays DEF consVars
<1>4. ASSUME NEW c \in Consumers, ConsumerStep(c) \/ ScanBatch(c) \/ Stop(c) \/ Crash(c)
      PROVE  Goal
  <2>0. UNCHANGED <<now, log>>
    BY <1>4, ConsumerFrame
  <2>1. CASE c # d
    <3>1. /\ pc'[d] = pc[d] /\ pos'[d] = pos[d] /\ stamp'[d] = stamp[d]
          /\ marked'[d] = marked[d] /\ applied'[d] = applied[d]
      BY <1>4, <2>1 DEF ConsumerStep, Poll, Attempt, Mark, Del, ScanEnds, Invalidated,
         AfterHandler, AttemptFails, Publish, Commit, Resume, ScanBatch, Stop, Crash,
         Rejoin, consVars, TypeOK
    <3>2. QED
      BY <1>0, <2>0, <3>1, ConsumerStays
  <2>2. CASE c = d /\ Poll(c)
    <3>1. /\ pc'[d] = "mark" /\ pos'[d] = pos[d] + 1 /\ stamp'[d] = now
          /\ marked'[d] = marked[d] /\ applied'[d] = applied[d]
          /\ pos[d] < published
      BY <2>2 DEF Poll, Attempt, Available, TypeOK
    <3>2. pos[d] + 1 \in 1..Len(log)
      BY <3>1, PosType
    <3>3. \A i \in marked[d] : i \in 1..Len(log)
      BY PosType DEF PhaseInv
    <3>4. QED
      BY <1>0, <2>0, <3>1, <3>2, <3>3 DEF LogInv, PhaseInv
  <2>3. CASE c = d /\ Mark(c)
    <3>1. /\ pc[d] = "mark" /\ pos'[d] = pos[d] /\ marked'[d] = marked[d] \union {pos[d]}
          /\ applied'[d] = applied[d]
          /\ pc'[d] = (IF Key(d) = All THEN "scan" ELSE "del")
      BY <2>3 DEF Mark, TypeOK
    <3>2. Key(d)' = Key(d) /\ pos[d] # 0
      BY <2>0, <3>1, PosType DEF Key, StampInv
    <3>3. QED
      BY <3>1, <3>2 DEF PhaseInv
  <2>4. CASE c = d /\ (Del(c) \/ ScanEnds(c))
    <3>1. /\ pos'[d] = pos[d] /\ marked'[d] = marked[d] /\ pos[d] \in marked[d]
          /\ applied'[d] = applied[d] \union {pos[d]}
          /\ pc'[d] \in {"publish", "commit"}
      BY <2>4 DEF Del, ScanEnds, Invalidated, AfterHandler, TypeOK, PhaseInv
    <3>2. QED
      BY <3>1 DEF PhaseInv
  <2>5. CASE c = d /\ AttemptFails(c)
    <3>1. /\ pos'[d] = pos[d] /\ marked'[d] = marked[d] /\ applied'[d] = applied[d]
          /\ pc[d] \in {"mark", "del", "scan"}
      BY <2>5 DEF AttemptFails
    <3>2. \/ pc'[d] = "mark" /\ stamp'[d] = now
          \/ pc'[d] \in {"publish", "commit"}
      BY <2>5 DEF AttemptFails, Attempt, AfterHandler, TypeOK
    <3>3. pos[d] \in 1..Len(log) /\ \A i \in marked[d] : i \in 1..Len(log)
      BY <3>1, PosType DEF PhaseInv, StampInv
    <3>4. QED
      BY <1>0, <2>0, <3>1, <3>2, <3>3 DEF LogInv, PhaseInv
  <2>6. CASE c = d /\ (Publish(c) \/ Commit(c) \/ Rejoin(c))
    <3>1. marked'[d] = marked[d] /\ applied'[d] = applied[d] /\ pc'[d] \in {"poll", "commit"}
      BY <2>6 DEF Publish, Commit, Rejoin, TypeOK
    <3>2. QED
      BY <3>1 DEF PhaseInv
  <2>7. CASE ScanBatch(c) \/ Stop(c)
    <3>1. /\ pc'[d] = pc[d] /\ pos'[d] = pos[d] /\ stamp'[d] = stamp[d]
          /\ marked'[d] = marked[d] /\ applied'[d] = applied[d]
      BY <2>7 DEF ScanBatch, Stop, consVars
    <3>2. QED
      BY <1>0, <2>0, <3>1, ConsumerStays
  <2>8. QED
    BY <1>4, <2>1, <2>2, <2>3, <2>4, <2>5, <2>6, <2>7 DEF ConsumerStep, Resume, Crash
<1>5. QED
  BY <1>1, <1>2, <1>3, <1>4, FetchFrame DEF Next, vars, CrmPublishes

\* A mark may be overwritten with an older time, but by a consumer that has
\* not yet set a mark for the changes in between.
LEMMA WriteMarkKeeps ==
  ASSUME TypeOK, LogInv, StampInv, PhaseInv, MarkInv,
         NEW c \in Consumers, pc[c] = "mark", WriteMark(c), UNCHANGED <<now, log>>,
         marked'[c] \subseteq marked[c] \union {pos[c]},
         \A d \in Consumers : d # c => marked'[d] = marked[d]
  PROVE  MarkInv'
<1> USE ConstantsAssumption
<1>0. /\ pos[c] \in 1..Len(log) /\ Key(c) \in Keys /\ stamp[c] \in Nat /\ now \in Nat
      /\ stamp[c] <= now
  <2>1. pos[c] \in 1..Len(log)
    BY PosType DEF StampInv
  <2>2. Key(c) \in Keys
    BY <2>1, LogType DEF Key
  <2>3. stamp[c] \in Nat /\ now \in Nat /\ stamp[c] <= now
    BY DEF StampInv, TypeOK
  <2> QED
    BY <2>1, <2>2, <2>3
<1>1. /\ mark'[Key(c)].at = stamp[c] /\ mark'[Key(c)].expires = now + 2 * MaxTTL
      /\ \A k \in Keys : k # Key(c) => mark'[k] = mark[k]
  BY <1>0 DEF WriteMark, TypeOK
<1>2. ASSUME NEW k \in Keys, mark'[k] # NoMark
      PROVE  mark'[k].expires >= mark'[k].at + 2 * MaxTTL
  BY <1>0, <1>1, <1>2 DEF MarkInv
<1>3. ASSUME NEW i \in 1..Len(log), \A d \in Consumers : i \in marked'[d]
      PROVE  mark'[log[i].key].at >= log[i].at \/ now >= log[i].at + 2 * MaxTTL
  <2>1. log[i].at \in Nat /\ log[i].key \in Keys
    BY LogType
  <2>2. CASE log[i].key = Key(c)
    <3>1. i \in marked[c] \/ i = pos[c]
      BY <1>3
    <3>2. log[i].at <= stamp[c]
      BY <3>1 DEF StampInv
    <3>3. QED
      BY <1>0, <1>1, <2>1, <2>2, <3>2
  <2>3. CASE log[i].key # Key(c)
    <3>1. i # pos[c]
      BY <2>3 DEF Key
    <3>2. \A d \in Consumers : i \in marked[d]
      BY <1>3, <3>1
    <3>3. QED
      BY <1>1, <2>1, <2>3, <3>2 DEF MarkInv
  <2>4. QED
    BY <2>2, <2>3
<1>4. QED
  BY <1>2, <1>3 DEF MarkInv

\* The marks outlast every change they stand for by two MaxTTL.
LEMMA MarkInvStep ==
  TypeOK /\ LogInv /\ StampInv /\ PhaseInv /\ MarkInv /\ [Next]_vars => MarkInv'
<1> SUFFICES ASSUME TypeOK, LogInv, StampInv, PhaseInv, MarkInv, [Next]_vars
             PROVE  MarkInv'
  OBVIOUS
<1> USE ConstantsAssumption
<1>1. CASE Tick
  <2>0. /\ now \in Nat /\ now' = now + 1 /\ UNCHANGED <<log, marked>>
        /\ \A k \in Keys : mark'[k] = IF mark[k].expires <= now' THEN NoMark ELSE mark[k]
    BY <1>1 DEF Tick, consVars, TypeOK
  <2>1. \A k \in Keys : mark[k].at \in Nat /\ mark[k].expires \in Nat
    BY DEF TypeOK, Marks
  <2>2. ASSUME NEW k \in Keys, mark'[k] # NoMark
        PROVE  mark'[k].expires >= mark'[k].at + 2 * MaxTTL
    BY <2>0, <2>2 DEF MarkInv
  <2>3. ASSUME NEW i \in 1..Len(log), \A d \in Consumers : i \in marked[d]
        PROVE  mark'[log[i].key].at >= log[i].at \/ now' >= log[i].at + 2 * MaxTTL
    <3>1. log[i].at \in Nat /\ log[i].key \in Keys
      BY LogType
    <3>2. mark[log[i].key].at >= log[i].at \/ now >= log[i].at + 2 * MaxTTL
      BY <2>3 DEF MarkInv
    <3>3. CASE mark'[log[i].key] = mark[log[i].key]
      BY <2>0, <3>1, <3>2, <3>3
    <3>4. CASE mark[log[i].key].expires <= now' /\ mark[log[i].key] # NoMark
      <4>1. mark[log[i].key].expires >= mark[log[i].key].at + 2 * MaxTTL
        BY <3>1, <3>4 DEF MarkInv
      <4>2. QED
        BY <2>0, <2>1, <3>1, <3>2, <3>4, <4>1
    <3>5. QED
      BY <2>0, <3>1, <3>3, <3>4
  <2>4. QED
    BY <2>0, <2>2, <2>3 DEF MarkInv
<1>2. ASSUME NEW k \in Keys, CrmCommits(k) PROVE MarkInv'
  <2>1. UNCHANGED <<now, mark, marked>>
    BY <1>2 DEF CrmCommits, consVars
  <2>2. PICK c \in Consumers : TRUE
    OBVIOUS
  <2>3. Len(log) + 1 \notin marked[c]
    BY PosType
  <2>4. QED
    BY <1>2, <2>1, <2>3, CommitGrows DEF MarkInv
<1>3. ASSUME UNCHANGED <<now, log, mark, marked>> PROVE MarkInv'
  BY <1>3 DEF MarkInv
<1>4. ASSUME NEW c \in Consumers, Mark(c) PROVE MarkInv'
  <2>1. /\ pc[c] = "mark" /\ WriteMark(c) /\ UNCHANGED <<now, log>>
        /\ marked' = [marked EXCEPT ![c] = @ \union {pos[c]}]
    BY <1>4 DEF Mark
  <2>2. /\ marked'[c] \subseteq marked[c] \union {pos[c]}
        /\ \A d \in Consumers : d # c => marked'[d] = marked[d]
    BY <2>1 DEF TypeOK
  <2>3. QED
    BY <2>1, <2>2, WriteMarkKeeps
<1>5. ASSUME NEW c \in Consumers, AttemptFails(c) PROVE MarkInv'
  <2>1. UNCHANGED <<now, log, marked>> /\ (UNCHANGED mark \/ (pc[c] = "mark" /\ WriteMark(c)))
    BY <1>5 DEF AttemptFails
  <2>2. CASE pc[c] = "mark" /\ WriteMark(c)
    BY <2>1, <2>2, WriteMarkKeeps
  <2>3. QED
    BY <1>3, <2>1, <2>2
<1>6. ASSUME NEW c \in Consumers, ConsumerStep(c) \/ ScanBatch(c) \/ Stop(c) \/ Crash(c)
      PROVE  MarkInv'
  <2>1. Mark(c) \/ AttemptFails(c) \/ UNCHANGED <<now, log, mark, marked>>
    BY <1>6 DEF ConsumerStep, Poll, Del, ScanEnds, Publish, Commit, Resume, ScanBatch,
       Stop, Crash, Rejoin, consVars
  <2>2. QED
    BY <1>3, <1>4, <1>5, <2>1
<1>7. QED
  BY <1>1, <1>2, <1>3, <1>6, FetchFrame DEF Next, vars, consVars, CrmPublishes

----------------------------------------------------------------------------
(* No stale menu stays, unless it slipped through the window of Set.       *)

\* What is written while the guard would still let it through misses only
\* changes that some consumer has not set its mark for.
LEMMA WriteDropped ==
  ASSUME TypeOK, FetchInv, PhaseInv, MarkInv,
         NEW f \in Fetchers, Write(f), ~GuardRefuses(fetch[f].rest, fetch[f].fetchedAt),
         NEW i \in 1..Len(log), Misses(fetch[f].ver, fetch[f].rest, i)
  PROVE  \E c \in Consumers : i \notin marked[c]
<1> USE ConstantsAssumption
<1>1. /\ FetchOK(fetch[f]) /\ fetch[f] \in Requests /\ fetch[f].pc = "write"
      /\ now <= fetch[f].fetchedAt + FetchTimeout /\ now \in Nat
  BY DEF Write, InTime, FetchInv, TypeOK
<1>2. fetch[f].fetchedAt \in Nat /\ fetch[f].ver \in Nat /\ fetch[f].rest \in Restaurants
  BY <1>1 DEF Requests
<1>3. log[i].at \in Nat /\ log[i].key \in {fetch[f].rest, All} /\ fetch[f].ver < i
  BY LogType DEF Misses, Touches
<1>h. HoldsEarlier(fetch[f].ver, fetch[f].fetchedAt)
  BY <1>1 DEF FetchOK
<1>l. i \in Nat /\ (log[i].at < fetch[f].fetchedAt => i <= fetch[f].ver)
  BY <1>h DEF HoldsEarlier
<1>4. fetch[f].fetchedAt <= log[i].at
  BY <1>2, <1>3, <1>l
<1>5. log[i].key \in Keys /\ mark[log[i].key].at \in Nat
  BY <1>2, <1>3 DEF Keys, TypeOK, Marks
<1>6. mark[log[i].key].at < fetch[f].fetchedAt
  <2>1. /\ ~Forbids(fetch[f].rest, fetch[f].fetchedAt)
        /\ ~Forbids(All, fetch[f].fetchedAt)
    BY DEF GuardRefuses
  <2>2. ~Forbids(log[i].key, fetch[f].fetchedAt)
    BY <1>3, <2>1
  <2>3. QED
    BY <1>2, <1>5, <2>2 DEF Forbids
<1>7. now < log[i].at + 2 * MaxTTL
  BY <1>1, <1>2, <1>3, <1>4
<1>8. ~(mark[log[i].key].at >= log[i].at)
  BY <1>2, <1>3, <1>4, <1>5, <1>6
<1>9. ~(now >= log[i].at + 2 * MaxTTL)
  BY <1>1, <1>3, <1>7
<1>10. QED
  BY <1>8, <1>9 DEF MarkInv

\* A stale menu that did not slip through the window is still to be removed
\* by some consumer.
LEMMA DropInvStep ==
  /\ TypeOK /\ FetchInv /\ StampInv /\ PhaseInv /\ MarkInv /\ DropInv /\ [Next]_vars
  => DropInv'
<1> SUFFICES ASSUME TypeOK, FetchInv, StampInv, PhaseInv, MarkInv, DropInv, [Next]_vars,
                    NEW r \in Restaurants, NEW i \in 1..Len(log'),
                    cache'[r] # NoEntry, Misses(cache[r].ver, r, i)', ~cache'[r].raced
             PROVE  \E c \in Consumers : WillDrop(c, r, i)'
  BY DEF DropInv
<1> USE ConstantsAssumption
<1>1. ASSUME cache'[r] = cache[r], UNCHANGED log
      PROVE  \E c \in Consumers : WillDrop(c, r, i)
  BY <1>1 DEF DropInv, Misses, Touches
<1>2. ASSUME UNCHANGED <<log, consVars>>, cache'[r] = cache[r]
      PROVE  \E c \in Consumers : WillDrop(c, r, i)'
  BY <1>1, <1>2 DEF WillDrop, consVars
<1>3. CASE Tick
  BY <1>2, <1>3 DEF Tick
<1>4. ASSUME NEW k \in Keys, CrmCommits(k) PROVE \E c \in Consumers : WillDrop(c, r, i)'
  <2>0. UNCHANGED <<cache, consVars>>
    BY <1>4 DEF CrmCommits
  <2>1. CASE i = Len(log) + 1
    <3>1. PICK c \in Consumers : TRUE
      OBVIOUS
    <3>2. i \notin applied[c] /\ pos[c] # i
      BY <2>1, PosType
    <3>3. QED
      BY <2>0, <3>2 DEF WillDrop, consVars
  <2>2. CASE i # Len(log) + 1
    <3>1. i \in 1..Len(log) /\ log'[i] = log[i]
      BY <1>4, <2>2, CommitGrows
    <3>2. \E c \in Consumers : WillDrop(c, r, i)
      BY <2>0, <3>1 DEF DropInv, Misses, Touches
    <3>3. QED
      BY <2>0, <3>2 DEF WillDrop, consVars
  <2>3. QED
    BY <2>1, <2>2
<1>5. ASSUME NEW f \in Fetchers, Write(f) PROVE \E c \in Consumers : WillDrop(c, r, i)'
  <2>0. UNCHANGED <<log, consVars>>
    BY <1>5 DEF Write
  <2>1. CASE r # fetch[f].rest
    BY <1>2, <1>5, <2>0, <2>1 DEF Write, TypeOK
  <2>2. CASE r = fetch[f].rest
    <3>1. /\ cache'[r].ver = fetch[f].ver
          /\ cache'[r].raced = GuardRefuses(fetch[f].rest, fetch[f].fetchedAt)
      BY <1>5, <2>2 DEF Write, TypeOK
    <3>2. i \in 1..Len(log) /\ Misses(fetch[f].ver, fetch[f].rest, i)
      BY <2>0, <2>2, <3>1 DEF Misses, Touches
    <3>3. PICK c \in Consumers : i \notin marked[c]
      BY <1>5, <3>1, <3>2, WriteDropped
    <3>4. i \notin applied[c] /\ ~(pc[c] = "scan" /\ pos[c] = i)
      BY <3>3 DEF PhaseInv
    <3>5. QED
      BY <2>0, <3>4 DEF WillDrop, consVars
  <2>3. QED
    BY <2>1, <2>2
<1>6. ASSUME NEW f \in Fetchers, FetchStep(f), ~Write(f)
      PROVE  \E c \in Consumers : WillDrop(c, r, i)'
  BY <1>2, <1>6, FetchFrame DEF FetchStep, Miss, CrmAnswers, CheckMarks, FetchFails
<1>7. ASSUME NEW c \in Consumers, ConsumerStep(c) \/ ScanBatch(c) \/ Stop(c) \/ Crash(c)
      PROVE  \E w \in Consumers : WillDrop(w, r, i)'
  <2>0. UNCHANGED log /\ cache'[r] = cache[r]
    BY <1>7, ConsumerFrame
  <2>1. PICK w \in Consumers : WillDrop(w, r, i)
    BY <1>1, <2>0
  <2>2. CASE w # c
    <3>1. pc'[w] = pc[w] /\ pos'[w] = pos[w] /\ applied'[w] = applied[w] /\ snap'[w] = snap[w]
      BY <1>7, <2>2 DEF ConsumerStep, Poll, Attempt, Mark, Del, ScanEnds, Invalidated,
         AfterHandler, AttemptFails, Publish, Commit, Resume, ScanBatch, Stop, Crash,
         Rejoin, consVars, TypeOK
    <3>2. QED
      BY <2>0, <2>1, <3>1 DEF WillDrop
  <2>3. CASE w = c /\ Mark(c)
    <3>1. /\ applied'[c] = applied[c] /\ pos'[c] = pos[c]
          /\ pc'[c] = "scan" => snap'[c] = cache
      BY <2>3 DEF Mark, TypeOK
    <3>2. QED
      BY <2>0, <2>1, <2>3, <3>1 DEF WillDrop
  <2>4. CASE w = c /\ Del(c)
    <3>1. pos[c] # i
      <4>1. ASSUME pos[c] = i PROVE FALSE
        <5>1. Key(c) = r
          BY <2>0, <2>4, <4>1 DEF Del, PhaseInv, Key, Misses, Touches
        <5>2. cache'[r] = NoEntry
          BY <2>4, <5>1 DEF Del, Drop
        <5>3. QED
          BY <5>2
      <4>2. QED
        BY <4>1
    <3>2. applied'[c] = applied[c] \union {pos[c]} /\ pc'[c] # "scan"
      BY <2>4 DEF Del, Invalidated, AfterHandler, TypeOK
    <3>3. QED
      BY <2>1, <2>4, <3>1, <3>2 DEF WillDrop
  <2>5. CASE w = c /\ ScanEnds(c)
    <3>1. pos[c] # i
      <4>1. ASSUME pos[c] = i PROVE FALSE
        <5>1. cache[r] = snap[c][r]
          BY <2>1, <2>5, <4>1 DEF ScanEnds, WillDrop
        <5>2. PICK K \in SUBSET Restaurants : MustReturn(c) \subseteq K /\ cache' = Drop(K)
          BY <2>5 DEF ScanEnds
        <5>3. r \in K
          BY <2>0, <5>1, <5>2 DEF MustReturn
        <5>4. QED
          BY <5>2, <5>3 DEF Drop
      <4>2. QED
        BY <4>1
    <3>2. applied'[c] = applied[c] \union {pos[c]} /\ pc'[c] # "scan"
      BY <2>5 DEF ScanEnds, Invalidated, AfterHandler, TypeOK
    <3>3. QED
      BY <2>1, <2>5, <3>1, <3>2 DEF WillDrop
  <2>6. CASE w = c /\ (Poll(c) \/ AttemptFails(c) \/ Publish(c) \/ Commit(c) \/ Rejoin(c))
    <3>1. applied'[c] = applied[c] /\ pc'[c] # "scan"
      BY <2>6 DEF Poll, Attempt, AttemptFails, AfterHandler, Publish, Commit, Rejoin, TypeOK
    <3>2. QED
      BY <2>1, <2>6, <3>1 DEF WillDrop
  <2>7. CASE ScanBatch(c) \/ Stop(c)
    <3>1. UNCHANGED <<pc, pos, snap, applied>>
      BY <2>7 DEF ScanBatch, Stop, consVars
    <3>2. QED
      BY <2>0, <2>1, <3>1 DEF WillDrop
  <2>8. QED
    BY <1>7, <2>2, <2>3, <2>4, <2>5, <2>6, <2>7 DEF ConsumerStep, Resume, Crash
<1>8. CASE CrmPublishes \/ UNCHANGED vars
  BY <1>2, <1>8 DEF CrmPublishes, vars
<1>9. QED
  BY <1>3, <1>4, <1>5, <1>6, <1>7, <1>8 DEF Next

----------------------------------------------------------------------------
\* The inductive invariant holds initially, and no step leaves it.
THEOREM InductiveInvariant == Spec => []IInv
<1>1. Init => IInv
  <2> SUFFICES ASSUME Init PROVE IInv
    OBVIOUS
  <2>1. TypeOK
    BY InitType
  <2>2. Len(log) = 0 /\ \A r \in Restaurants : cache[r] = NoEntry
    BY DEF Init, EmptyCache
  <2>3. LogInv /\ EntryInv /\ DropInv
    BY <2>2 DEF LogInv, EntryInv, DropInv
  <2>4. FetchInv
    BY IdleRequestType DEF Init, FetchInv, FetchOK
  <2>5. StampInv /\ PhaseInv
    BY DEF Init, StampInv, PhaseInv
  <2>6. MarkInv
    BY <2>2 DEF Init, MarkInv
  <2>7. QED
    BY <2>1, <2>3, <2>4, <2>5, <2>6 DEF IInv
<1>2. IInv /\ [Next]_vars => IInv'
  BY TypeStep, LogStep, FetchInvStep, EntryInvStep, StampPhaseStep, MarkInvStep,
     DropInvStep DEF IInv
<1>3. QED
  BY <1>1, <1>2, PTL DEF Spec

\* SettledFresh for every instance: once every consumer has invalidated for a
\* change, a cached menu that misses it slipped in between the MGET and the
\* SET of menuCacheRepo.Set.
THEOREM SettledFreshness == Spec => []SettledFresh
<1>1. IInv => SettledFresh
  BY DEF IInv, DropInv, SettledFresh, Settled, WillDrop
<1>2. QED
  BY <1>1, InductiveInvariant, PTL

\* StalenessBounded for every instance: MenuCacheMaxTTL bounds how long a
\* cached menu can miss a change, whatever was lost or raced.
THEOREM BoundedStaleness == Spec => []StalenessBounded
<1>1. IInv => StalenessBounded
  <2> SUFFICES ASSUME IInv, NEW r \in Restaurants, NEW i \in 1..Len(log),
                      cache[r] # NoEntry, Misses(cache[r].ver, r, i)
               PROVE  now < log[i].at + MaxTTL + FetchTimeout
    BY DEF StalenessBounded
  <2>1. EntryOK(cache[r]) /\ cache[r] \in Entries /\ now \in Nat
    BY DEF IInv, EntryInv, TypeOK
  <2>2. cache[r].fetchedAt \in Nat /\ cache[r].expires \in Nat /\ cache[r].ver \in Nat
    BY <2>1 DEF Entries
  <2>3. log[i].at \in Nat
    BY LogType DEF IInv
  <2>4. cache[r].fetchedAt <= log[i].at
    BY <2>1, <2>2, <2>3 DEF EntryOK, HoldsEarlier, Misses
  <2>5. /\ cache[r].expires <= cache[r].fetchedAt + FetchTimeout + MaxTTL
        /\ now < cache[r].expires
    BY <2>1 DEF EntryOK
  <2>6. MaxTTL \in Nat /\ FetchTimeout \in Nat
    BY ConstantsAssumption
  <2>7. \A n, f, e, a, m, w \in Nat :
           n < e /\ e <= f + w + m /\ f <= a => n < a + m + w
    OBVIOUS
  <2>8. QED
    BY <2>1, <2>2, <2>3, <2>4, <2>5, <2>6, <2>7
<1>2. QED
  BY <1>1, InductiveInvariant, PTL

\* BoundaryRespected for every instance: a cached menu outlives its promotion
\* boundary by less than the duration of a fetch.
THEOREM BoundaryRespect == Spec => []BoundaryRespected
<1>1. IInv => BoundaryRespected
  <2> SUFFICES ASSUME IInv, NEW r \in Restaurants, cache[r] # NoEntry, cache[r].until > 0
               PROVE  now < cache[r].until + FetchTimeout
    BY DEF BoundaryRespected
  <2>1. EntryOK(cache[r]) /\ cache[r] \in Entries /\ now \in Nat
    BY DEF IInv, EntryInv, TypeOK
  <2>2. cache[r].expires \in Nat /\ cache[r].until \in Nat
    BY <2>1 DEF Entries
  <2>3. QED
    BY <2>1, <2>2, ConstantsAssumption DEF EntryOK
<1>2. QED
  BY <1>1, InductiveInvariant, PTL

----------------------------------------------------------------------------
(* No event is lost to fewer failures than there are attempts.             *)

\* What a step does to one consumer as long as nothing has been shut down:
\* nothing, or one of these.
LEMMA OwnEffect ==
  ASSUME TypeOK, [Next]_vars, NEW c \in Consumers, ~stopping[c], stops' = 0
  PROVE  \/ UNCHANGED <<pc[c], pos[c], committed[c], attempt[c], applied[c], stopping[c]>>
         \/ Poll(c) \/ Mark(c) \/ Del(c) \/ ScanEnds(c) \/ AttemptFails(c)
         \/ Publish(c) \/ Commit(c) \/ Crash(c)
<1>1. CASE UNCHANGED consVars
  BY <1>1 DEF consVars
<1>2. ASSUME NEW d \in Consumers, ConsumerStep(d) \/ ScanBatch(d) \/ Stop(d) \/ Crash(d)
      PROVE  \/ UNCHANGED <<pc[c], pos[c], committed[c], attempt[c], applied[c], stopping[c]>>
             \/ Poll(c) \/ Mark(c) \/ Del(c) \/ ScanEnds(c) \/ AttemptFails(c)
             \/ Publish(c) \/ Commit(c) \/ Crash(c)
  <2>1. CASE Stop(d)
    BY <2>1 DEF Stop, TypeOK
  <2>2. CASE ScanBatch(d)
    BY <2>2 DEF ScanBatch, consVars
  <2>3. CASE d # c
    <3>0. /\ pc \in [Consumers -> {"poll", "mark", "del", "scan", "publish", "commit"}]
          /\ pos \in [Consumers -> 0..published] /\ committed \in [Consumers -> 0..published]
          /\ attempt \in [Consumers -> Nat] /\ stopping \in [Consumers -> BOOLEAN]
          /\ applied \in [Consumers -> SUBSET (0..published)]
      BY DEF TypeOK
    <3>1. ConsumerStep(d) \/ Crash(d) \/ Stop(d) \/ ScanBatch(d)
      BY <1>2
    <3>2. CASE Poll(d) \/ Mark(d) \/ Publish(d) \/ Commit(d)
      BY <2>3, <3>0, <3>2 DEF Poll, Attempt, Mark, Publish, Commit
    <3>3. CASE Del(d) \/ ScanEnds(d)
      BY <2>3, <3>0, <3>3 DEF Del, ScanEnds, Invalidated, AfterHandler
    <3>4. CASE AttemptFails(d)
      <4>1. /\ UNCHANGED <<pos, committed, applied, stopping>>
            /\ Attempt(d, attempt[d] + 1) \/ AfterHandler(d)
        BY <3>4 DEF AttemptFails
      <4>2. QED
        BY <2>3, <3>0, <4>1 DEF Attempt, AfterHandler
    <3>5. CASE Rejoin(d)
      BY <2>3, <3>0, <3>5 DEF Rejoin
    <3>6. QED
      BY <2>1, <2>2, <3>1, <3>2, <3>3, <3>4, <3>5 DEF ConsumerStep, Resume, Crash
  <2>4. QED
    BY <1>2, <2>1, <2>2, <2>3 DEF ConsumerStep, Resume
<1>3. QED
  BY <1>1, <1>2, FetchFrame DEF Next, vars, Tick, CrmCommits, CrmPublishes

\* Faults and shutdowns are only ever counted up.
LEMMA CountsGrow ==
  ASSUME TypeOK, [Next]_vars
  PROVE  /\ faults \in Nat /\ faults' \in Nat /\ faults <= faults'
         /\ stops' = 0 => stops = 0
<1>1. faults \in Nat /\ stops \in Nat
  BY ConstantsAssumption DEF TypeOK
<1>2. UNCHANGED envVars \/ Fault \/ \E c \in Consumers : Stop(c)
  BY DEF Next, vars, Tick, CrmCommits, CrmPublishes, FetchStep, Miss, CrmAnswers,
         CheckMarks, Write, FetchFails, ConsumerStep, Poll, Mark, Del, ScanEnds,
         AttemptFails, CallFails, Publish, Commit, Resume, ScanBatch, Crash
<1>3. QED
  BY <1>1, <1>2 DEF envVars, Fault, Stop

\* SkipInv of one consumer.
SkipOK(p, o, m, a, A, f) ==
    /\ p # "publish"
    /\ m <= o
    /\ p \in {"mark", "del", "scan"} => m < o /\ a <= f + 1
    /\ \A i \in 1..o : \/ p \in {"mark", "del", "scan"} /\ i = o
                       \/ i \in A
                       \/ f >= Attempts

\* No step of a durable consumer disturbs it: an attempt that fails has a fault
\* to show for it, and the last one ends the handler's call.
LEMMA SkipInvStep == TypeOK /\ SkipInv /\ [Next]_vars => SkipInv'
<1> SUFFICES ASSUME TypeOK, SkipInv, [Next]_vars, stops' = 0,
                    NEW c \in Consumers \ Broadcasters
             PROVE  /\ ~stopping'[c]
                    /\ SkipOK(pc'[c], pos'[c], committed'[c], attempt'[c], applied'[c],
                              faults')
  BY DEF SkipInv, SkipOK, Trying
<1> USE ConstantsAssumption
<1>0. /\ faults \in Nat /\ faults' \in Nat /\ faults <= faults' /\ stops = 0
      /\ c \in Consumers /\ c \notin Broadcasters
  BY CountsGrow
<1>1. /\ ~stopping[c]
      /\ SkipOK(pc[c], pos[c], committed[c], attempt[c], applied[c], faults)
  BY <1>0 DEF SkipInv, SkipOK, Trying
<1>2. pos[c] \in Nat /\ committed[c] \in Nat /\ attempt[c] \in Nat
  BY <1>0 DEF TypeOK
<1>3. CASE UNCHANGED <<pc[c], pos[c], committed[c], attempt[c], applied[c], stopping[c]>>
  BY <1>0, <1>1, <1>2, <1>3 DEF SkipOK
<1>4. CASE Poll(c)
  <2>1. /\ pc[c] = "poll" /\ pc'[c] = "mark" /\ pos'[c] = pos[c] + 1 /\ attempt'[c] = 1
        /\ committed'[c] = committed[c] /\ applied'[c] = applied[c] /\ ~stopping'[c]
    BY <1>0, <1>1, <1>4 DEF Poll, Attempt, TypeOK
  <2>2. \A i \in 1..(pos[c] + 1) : i = pos[c] + 1 \/ i \in 1..pos[c]
    BY <1>2
  <2>3. committed[c] <= pos[c] /\ \A i \in 1..pos[c] : i \in applied[c] \/ faults >= Attempts
    BY <1>1, <2>1 DEF SkipOK
  <2>4. \A i \in 1..pos'[c] : i = pos'[c] \/ i \in applied'[c] \/ faults' >= Attempts
    BY <1>0, <2>1, <2>2, <2>3
  <2>5. committed'[c] < pos'[c] /\ committed'[c] <= pos'[c]
    BY <1>2, <2>1, <2>3
  <2>6. attempt'[c] <= faults' + 1
    <3>1. \A n \in Nat : 1 <= n + 1
      OBVIOUS
    <3>2. faults' \in Nat /\ attempt'[c] = 1
      BY <1>0, <2>1
    <3>3. QED
      BY <3>1, <3>2
  <2>7. QED
    BY <2>1, <2>4, <2>5, <2>6 DEF SkipOK
<1>5. CASE Mark(c)
  <2>1. /\ pc[c] = "mark" /\ pc'[c] \in {"scan", "del"}
        /\ pos'[c] = pos[c] /\ attempt'[c] = attempt[c]
        /\ committed'[c] = committed[c] /\ applied'[c] = applied[c] /\ ~stopping'[c]
    BY <1>0, <1>1, <1>5 DEF Mark, TypeOK
  <2>2. QED
    BY <1>0, <1>1, <1>2, <2>1 DEF SkipOK
<1>6. CASE Del(c) \/ ScanEnds(c)
  <2>1. /\ pc'[c] = "commit" /\ pos'[c] = pos[c] /\ committed'[c] = committed[c]
        /\ applied'[c] = applied[c] \union {pos[c]} /\ ~stopping'[c]
    BY <1>0, <1>1, <1>6 DEF Del, ScanEnds, Invalidated, AfterHandler, TypeOK
  <2>2. QED
    BY <1>0, <1>1, <1>2, <2>1 DEF SkipOK
<1>7. CASE AttemptFails(c)
  <2>1. /\ pc[c] \in {"mark", "del", "scan"} /\ faults' = faults + 1
        /\ pos'[c] = pos[c] /\ committed'[c] = committed[c]
        /\ applied'[c] = applied[c] /\ ~stopping'[c]
    BY <1>0, <1>1, <1>7 DEF AttemptFails, CallFails, Fault, TypeOK
  <2>2. \/ pc'[c] = "mark" /\ attempt'[c] = attempt[c] + 1
        \/ pc'[c] = "commit" /\ attempt[c] >= Attempts
    BY <1>0, <1>1, <1>7 DEF AttemptFails, Attempt, AfterHandler, LastAttempt, TypeOK
  <2>3. attempt[c] <= faults + 1 /\ committed[c] < pos[c]
    BY <1>1, <2>1 DEF SkipOK
  <2>4. CASE pc'[c] = "mark" /\ attempt'[c] = attempt[c] + 1
    BY <1>0, <1>1, <1>2, <2>1, <2>3, <2>4 DEF SkipOK
  <2>5. CASE pc'[c] = "commit" /\ attempt[c] >= Attempts
    <3>1. faults' >= Attempts
      BY <1>0, <1>2, <2>1, <2>3, <2>5
    <3>2. QED
      BY <1>2, <2>1, <2>3, <2>5, <3>1 DEF SkipOK
  <2>6. QED
    BY <2>2, <2>4, <2>5
<1>8. CASE Publish(c)
  BY <1>1, <1>8 DEF Publish, SkipOK
<1>9. CASE Commit(c)
  <2>1. /\ pc[c] = "commit" /\ pc'[c] = "poll" /\ pos'[c] = pos[c]
        /\ committed'[c] \in {pos[c], committed[c]}
        /\ applied'[c] = applied[c] /\ ~stopping'[c]
    BY <1>0, <1>1, <1>9 DEF Commit, TypeOK
  <2>2. QED
    BY <1>0, <1>1, <1>2, <2>1 DEF SkipOK
<1>10. CASE Crash(c)
  <2>1. /\ pc'[c] = "poll" /\ pos'[c] = committed[c] /\ committed'[c] = committed[c]
        /\ applied'[c] = applied[c] /\ ~stopping'[c]
    BY <1>0, <1>10 DEF Crash, Rejoin, TypeOK
  <2>2. \A i \in 1..committed[c] :
           i \in 1..pos[c] /\ ~(pc[c] \in {"mark", "del", "scan"} /\ i = pos[c])
    BY <1>1, <1>2 DEF SkipOK
  <2>3. QED
    BY <1>0, <1>1, <1>2, <2>1, <2>2 DEF SkipOK
<1>11. QED
  BY <1>0, <1>1, <1>3, <1>4, <1>5, <1>6, <1>7, <1>8, <1>9, <1>10, OwnEffect

\* SkipTakesAllAttempts for every instance: kafka.Consumer commits a message
\* its RetryHandler has not handled only after Attempts failed calls, or when
\* it is stopped in between; crashes and failed commits alone lose nothing.
THEOREM LossTakesAllAttempts == Spec => []SkipTakesAllAttempts
<1>1. Init => SkipInv
  BY ConstantsAssumption DEF Init, SkipInv, Trying
<1>2. TypeOK /\ SkipInv => SkipTakesAllAttempts
  <2> SUFFICES ASSUME TypeOK, SkipInv, NEW c \in Consumers \ Broadcasters,
                      NEW i \in 1..Len(log), i <= committed[c], i \notin applied[c]
               PROVE  faults >= Attempts \/ stops > 0
    BY DEF SkipTakesAllAttempts
  <2>0. stops = 0 \/ stops > 0
    BY ConstantsAssumption DEF TypeOK
  <2>1. c \in Consumers /\ pos[c] \in Nat /\ committed[c] \in Nat
    BY DEF TypeOK
  <2>2. ASSUME stops = 0 PROVE faults >= Attempts
    <3>1. committed[c] <= pos[c] /\ (Trying(c) => committed[c] < pos[c])
      BY <2>2 DEF SkipInv
    <3>2. i \in 1..pos[c] /\ ~(Trying(c) /\ i = pos[c])
      BY <2>1, <3>1
    <3>3. QED
      BY <2>2, <3>2 DEF SkipInv
  <2>3. QED
    BY <2>0, <2>2
<1>3. QED
  BY <1>1, <1>2, TypeCorrect, InitType, TypeStep, SkipInvStep, PTL DEF Spec
=============================================================================
