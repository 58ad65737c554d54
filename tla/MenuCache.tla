----------------------------- MODULE MenuCache -----------------------------
(***************************************************************************)
(* The effective-menu cache that every kfc-userapi replica shares in       *)
(* Redis: the cache-aside read of menuService.GetEffectiveMenu, the        *)
(* stale-write guard of menuCacheRepo.Set, menuCacheRepo.Invalidate and    *)
(* the two kinds of Kafka consumer that call it (consumer.MenuConsumer on  *)
(* top of the loop of kafka.Consumer).                                     *)
(*                                                                         *)
(* Time is the counter now; a version of CRM's menus is a position in log, *)
(* the sequence of changes CRM has committed, so the menu of restaurant r  *)
(* read at version v misses every later change that touches r.  A Redis    *)
(* command is one step; what a handler does between two commands is        *)
(* folded into the next one.                                               *)
(***************************************************************************)
EXTENDS Integers, Sequences

CONSTANTS
    Restaurants,    \* restaurant ids
    All,            \* the key suffix "all" (an event with restaurant_id "")
    Fetchers,       \* GetEffectiveMenu calls that may be in flight together
    Consumers,      \* Kafka consumers of crm.menu.updated
    Broadcasters,   \* those of them that run Broadcast, one per replica
    Attempts,       \* kafka.RetryHandler's attempts (5 in app.go)
    MaxTTL,         \* MenuCacheMaxTTL
    FetchTimeout,   \* the CRM and Redis client timeouts of one fetch, together
    ValidUntil,     \* when each restaurant's next promotion boundary is (0 = none)
    NoEntry,        \* an absent menu:restaurant:{id} key
    MaxNow,         \* bound: how far the clock runs
    MaxChanges,     \* bound: changes CRM makes
    MaxFaults,      \* bound: failed Redis or Kafka calls and crashes
    MaxStops        \* bound: shutdowns

Keys == Restaurants \union {All}

\* A mark that is not there: time.Now is always later.
NoMark == [at |-> 0, expires |-> 0]

Marks == [at : Nat, expires : Nat]

\* A cached menu.  ver and until are the payload, expires is the key's TTL;
\* fetchedAt and raced are history: when the fetch began, and whether a mark
\* that forbids caching it was in place at the moment it was written.
Entries == [ver : Nat, until : Nat, expires : Nat, fetchedAt : Nat, raced : BOOLEAN]

Requests == [pc : {"idle", "call", "check", "write"}, rest : Restaurants,
             fetchedAt : Nat, ver : Nat, until : Nat, ttl : Nat]

Changes == [key : Keys, at : Nat]

ASSUME ConstantsAssumption ==
    /\ Restaurants # {}
    /\ Consumers # {}
    /\ All \notin Restaurants
    /\ Broadcasters \subseteq Consumers
    /\ Attempts \in Nat \ {0}
    /\ MaxTTL \in Nat \ {0}
    /\ FetchTimeout \in Nat
    /\ FetchTimeout < 2 * MaxTTL
    /\ ValidUntil \in [Restaurants -> Nat]
    /\ NoEntry \notin Entries
    /\ MaxNow \in Nat /\ MaxChanges \in Nat /\ MaxFaults \in Nat
    /\ MaxStops \in Nat

VARIABLES
    now,        \* the clock all processes read with time.Now
    log,        \* the changes CRM has committed, oldest first
    published,  \* how many of them have reached the Kafka topic
    mark,       \* the keys menu:invalidated:{id} and menu:invalidated:all
    cache,      \* the keys menu:restaurant:{id}
    fetch,      \* the GetEffectiveMenu calls
    pc,         \* where each consumer's goroutine is
    pos,        \* the offset of the message each consumer holds or last held
    committed,  \* the offset its group has committed
    stamp,      \* the time.Now of an Invalidate that has not set its mark yet
    attempt,    \* the handler attempt it is in (0 = none)
    snap,       \* the keys that existed when its SCAN began
    told,       \* the last event its hub has published to SSE clients
    marked,     \* history: the events each consumer has written the mark for
    applied,    \* history: the events each consumer has invalidated for
    stopping,   \* its context is cancelled (Consumer.Stop)
    faults,     \* how many calls have failed or replicas crashed
    stops       \* how many shutdowns there have been

consVars == <<pc, pos, committed, stamp, attempt, snap, told, marked, applied,
              stopping>>
envVars == <<faults, stops>>
vars == <<now, log, published, mark, cache, fetch, consVars, envVars>>

----------------------------------------------------------------------------
\* The change at position i alters the menu of restaurant r.
Touches(i, r) == log[i].key \in {r, All}

\* A copy of r's menu read at version v misses the change at position i.
Misses(v, r, i) == v < i /\ Touches(i, r)

\* Mutant: a mark in the very instant of the fetch is let through.
ForbidsOnlyLater(k, fetchedAt) == mark[k].at > fetchedAt

\* The stale-write guard: a mark at or after the start of the fetch forbids
\* caching what it brought.
Forbids(k, fetchedAt) == mark[k].at >= fetchedAt

GuardRefuses(r, fetchedAt) == Forbids(r, fetchedAt) \/ Forbids(All, fetchedAt)

\* Mutant: the ttl is not capped.
TTLUncapped(until) == IF until > 0 THEN until - now ELSE MaxTTL

\* Mutant: the promotion boundary is not looked at.
TTLIgnoresBoundary(until) == MaxTTL

\* ttl of a menu: until its next scheduled change, at most MaxTTL.
TTL(until) ==
    LET ttl == IF until > 0 THEN until - now ELSE MaxTTL
    IN  IF ttl < MaxTTL THEN ttl ELSE MaxTTL

IdleRequest == [pc |-> "idle", rest |-> CHOOSE r \in Restaurants : TRUE,
                fetchedAt |-> 0, ver |-> 0, until |-> 0, ttl |-> 0]

EmptyCache == [r \in Restaurants |-> NoEntry]

Init ==
    /\ now = 1
    /\ log = <<>>
    /\ published = 0
    /\ mark = [k \in Keys |-> NoMark]
    /\ cache = EmptyCache
    /\ fetch = [f \in Fetchers |-> IdleRequest]
    /\ pc = [c \in Consumers |-> "poll"]
    /\ pos = [c \in Consumers |-> 0]
    /\ committed = [c \in Consumers |-> 0]
    /\ stamp = [c \in Consumers |-> 0]
    /\ attempt = [c \in Consumers |-> 0]
    /\ snap = [c \in Consumers |-> EmptyCache]
    /\ told = [c \in Consumers |-> 0]
    /\ marked = [c \in Consumers |-> {}]
    /\ applied = [c \in Consumers |-> {}]
    /\ stopping = [c \in Consumers |-> FALSE]
    /\ faults = 0
    /\ stops = 0

Fault == faults < MaxFaults /\ faults' = faults + 1 /\ UNCHANGED stops

\* A call of consumer c fails; with its context cancelled that is no surprise.
CallFails(c) == IF stopping[c] THEN UNCHANGED envVars ELSE Fault

----------------------------------------------------------------------------
\* Redis removes what has outlived its TTL as time passes.
Tick ==
    /\ now < MaxNow
    /\ now' = now + 1
    /\ mark' = [k \in Keys |-> IF mark[k].expires <= now' THEN NoMark ELSE mark[k]]
    /\ cache' = [r \in Restaurants |->
                    IF cache[r] # NoEntry /\ cache[r].expires <= now'
                    THEN NoEntry ELSE cache[r]]
    /\ UNCHANGED <<log, published, fetch, consVars, envVars>>

\* CRM commits a change to one restaurant's menu or to all of them ...
CrmCommits(k) ==
    /\ Len(log) < MaxChanges
    /\ log' = Append(log, [key |-> k, at |-> now])
    /\ UNCHANGED <<now, published, mark, cache, fetch, consVars, envVars>>

\* ... and publishes the crm.menu.updated event after that.
CrmPublishes ==
    /\ published < Len(log)
    /\ published' = published + 1
    /\ UNCHANGED <<now, log, mark, cache, fetch, consVars, envVars>>

----------------------------------------------------------------------------
(* GetEffectiveMenu.  A hit changes nothing and is not a step.             *)

\* A miss, or a cache read that failed: note the time and call CRM.
Miss(f, r) ==
    /\ fetch[f].pc = "idle"
    /\ \/ cache[r] = NoEntry /\ UNCHANGED envVars
       \/ cache[r] # NoEntry /\ Fault
    /\ fetch' = [fetch EXCEPT ![f] = [IdleRequest EXCEPT
                    !.pc = "call", !.rest = r, !.fetchedAt = now]]
    /\ UNCHANGED <<now, log, published, mark, cache, consVars>>

InTime(f) == now <= fetch[f].fetchedAt + FetchTimeout

\* CRM answers with the menu as it is now and its next promotion boundary.
CrmAnswers(f) ==
    /\ fetch[f].pc = "call"
    /\ InTime(f)
    /\ LET boundary == ValidUntil[fetch[f].rest]
       IN  fetch' = [fetch EXCEPT ![f] = [@ EXCEPT
                        !.pc = "check", !.ver = Len(log),
                        !.until = IF boundary > now THEN boundary ELSE 0]]
    /\ UNCHANGED <<now, log, published, mark, cache, consVars, envVars>>

\* Mutant: a menu whose boundary is over is cached with whatever ttl comes out.
CheckMarksAnyTTL(f) ==
    LET q == fetch[f]
    IN  /\ q.pc = "check"
        /\ InTime(f)
        /\ fetch' = [fetch EXCEPT ![f] =
                        IF GuardRefuses(q.rest, q.fetchedAt)
                        THEN IdleRequest
                        ELSE [@ EXCEPT !.pc = "write", !.ttl = TTL(q.until)]]
        /\ UNCHANGED <<now, log, published, mark, cache, consVars, envVars>>

\* The first half of Set: the ttl, and the MGET of the two marks.
CheckMarks(f) ==
    LET q == fetch[f]
        ttl == TTL(q.until)
    IN  /\ q.pc = "check"
        /\ InTime(f)
        /\ fetch' = [fetch EXCEPT ![f] =
                        IF ttl <= 0 \/ GuardRefuses(q.rest, q.fetchedAt)
                        THEN IdleRequest
                        ELSE [@ EXCEPT !.pc = "write", !.ttl = ttl]]
        /\ UNCHANGED <<now, log, published, mark, cache, consVars, envVars>>

\* The second half of Set: the SET with the ttl computed before the MGET.
Write(f) ==
    LET q == fetch[f]
    IN  /\ q.pc = "write"
        /\ InTime(f)
        /\ cache' = [cache EXCEPT ![q.rest] =
                        [ver |-> q.ver, until |-> q.until, expires |-> now + q.ttl,
                         fetchedAt |-> q.fetchedAt,
                         raced |-> GuardRefuses(q.rest, q.fetchedAt)]]
        /\ fetch' = [fetch EXCEPT ![f] = IdleRequest]
        /\ UNCHANGED <<now, log, published, mark, consVars, envVars>>

\* CRM, the conversion, the MGET or the SET fails: nothing is cached.
FetchFails(f) ==
    /\ fetch[f].pc # "idle"
    /\ fetch' = [fetch EXCEPT ![f] = IdleRequest]
    /\ UNCHANGED <<now, log, published, mark, cache, consVars, envVars>>

----------------------------------------------------------------------------
(* kafka.Consumer.Start and handle around MenuConsumer.invalidate.         *)

\* The n-th call of the handler: Invalidate takes time.Now.
Attempt(c, n) ==
    /\ stamp' = [stamp EXCEPT ![c] = now]
    /\ attempt' = [attempt EXCEPT ![c] = n]
    /\ pc' = [pc EXCEPT ![c] = "mark"]

\* Mutant: the newest message stays unread.
AvailableButNewest(c) == pos[c] + 1 < published

\* The topic holds a message the consumer has not read.
Available(c) == pos[c] < published

\* FetchMessage, then the first attempt.
Poll(c) ==
    /\ pc[c] = "poll"
    /\ Available(c)
    /\ pos' = [pos EXCEPT ![c] = @ + 1]
    /\ Attempt(c, 1)
    /\ UNCHANGED <<now, log, published, mark, cache, fetch, committed, snap,
                   told, marked, applied, stopping, envVars>>

Key(c) == log[pos[c]].key

WriteMark(c) ==
    mark' = [mark EXCEPT ![Key(c)] = [at |-> stamp[c], expires |-> now + 2 * MaxTTL]]

\* The SET of the mark, and the first thing after it.
Mark(c) ==
    /\ pc[c] = "mark"
    /\ WriteMark(c)
    /\ marked' = [marked EXCEPT ![c] = @ \union {pos[c]}]
    /\ pc' = [pc EXCEPT ![c] = IF Key(c) = All THEN "scan" ELSE "del"]
    /\ snap' = [snap EXCEPT ![c] = IF Key(c) = All THEN cache ELSE EmptyCache]
    /\ stamp' = [stamp EXCEPT ![c] = 0]
    /\ UNCHANGED <<now, log, published, cache, fetch, pos, committed, attempt,
                   told, applied, stopping, envVars>>

Drop(K) == [r \in Restaurants |-> IF r \in K THEN NoEntry ELSE cache[r]]

\* The attempts are over: Broadcast publishes, Invalidate returns.
AfterHandler(c) ==
    /\ pc' = [pc EXCEPT ![c] = IF c \in Broadcasters THEN "publish" ELSE "commit"]
    /\ attempt' = [attempt EXCEPT ![c] = 0]

\* Invalidate succeeds.
Invalidated(c) ==
    /\ AfterHandler(c)
    /\ applied' = [applied EXCEPT ![c] = @ \union {pos[c]}]
    /\ snap' = [snap EXCEPT ![c] = EmptyCache]

\* One restaurant: DEL of its key.
Del(c) ==
    /\ pc[c] = "del"
    /\ cache' = Drop({Key(c)})
    /\ Invalidated(c)
    /\ UNCHANGED <<now, log, published, mark, fetch, pos, committed, stamp,
                   told, marked, stopping, envVars>>

\* Every restaurant: SCAN returns the keys in batches, each deleted at once.
\* A key that exists from the first call to the last is returned; one that
\* comes or goes in between may be missed.
MustReturn(c) == {r \in Restaurants : snap[c][r] # NoEntry /\ cache[r] = snap[c][r]}

ScanBatch(c) ==
    /\ pc[c] = "scan"
    /\ \E K \in SUBSET Restaurants : cache' = Drop(K)
    /\ UNCHANGED <<now, log, published, mark, fetch, consVars, envVars>>

ScanEnds(c) ==
    /\ pc[c] = "scan"
    /\ \E K \in SUBSET Restaurants : MustReturn(c) \subseteq K /\ cache' = Drop(K)
    /\ Invalidated(c)
    /\ UNCHANGED <<now, log, published, mark, fetch, pos, committed, stamp,
                   told, marked, stopping, envVars>>

\* Mutant: one attempt fewer.
LastAttemptEarly(c) == c \in Broadcasters \/ attempt[c] + 1 >= Attempts \/ stopping[c]

\* Only the durable consumer has a RetryHandler, and a cancelled context ends
\* its retries; Broadcast swallows the error.
LastAttempt(c) == c \in Broadcasters \/ attempt[c] >= Attempts \/ stopping[c]

\* A Redis call of Invalidate returns an error, executed or not.  Broadcast
\* goes on to notify; the durable consumer retries, then commits anyway.
AttemptFails(c) ==
    /\ pc[c] \in {"mark", "del", "scan"}
    /\ CallFails(c)
    /\ \/ UNCHANGED <<mark, cache>>
       \/ pc[c] = "mark" /\ WriteMark(c) /\ UNCHANGED cache
       \/ pc[c] = "del" /\ cache' = Drop({Key(c)}) /\ UNCHANGED mark
       \/ /\ pc[c] = "scan"
          /\ \E K \in SUBSET Restaurants : cache' = Drop(K)
          /\ UNCHANGED mark
    /\ snap' = [snap EXCEPT ![c] = EmptyCache]
    /\ \/ ~LastAttempt(c) /\ Attempt(c, attempt[c] + 1)
       \/ /\ LastAttempt(c)
          /\ AfterHandler(c)
          /\ stamp' = [stamp EXCEPT ![c] = 0]
    /\ UNCHANGED <<now, log, published, fetch, pos, committed, told, marked,
                   applied, stopping>>

\* Broadcast tells this replica's SSE clients to refetch.
Publish(c) ==
    /\ pc[c] = "publish"
    /\ told' = [told EXCEPT ![c] = pos[c]]
    /\ pc' = [pc EXCEPT ![c] = "commit"]
    /\ UNCHANGED <<now, log, published, mark, cache, fetch, pos, committed,
                   stamp, attempt, snap, marked, applied, stopping, envVars>>

\* CommitMessages, whatever became of the message; a failure is only logged.
\* On a cancelled context the commit may be sent all the same.
Commit(c) ==
    /\ pc[c] = "commit"
    /\ \/ committed' = [committed EXCEPT ![c] = pos[c]] /\ UNCHANGED envVars
       \/ UNCHANGED committed /\ CallFails(c)
    /\ pc' = [pc EXCEPT ![c] = "poll"]
    /\ UNCHANGED <<now, log, published, mark, cache, fetch, pos, stamp, attempt,
                   snap, told, marked, applied, stopping>>

\* Consumer.Stop cancels the context of the loop and waits for it to end.
Stop(c) ==
    /\ ~stopping[c]
    /\ stops < MaxStops
    /\ stops' = stops + 1
    /\ stopping' = [stopping EXCEPT ![c] = TRUE]
    /\ UNCHANGED <<now, log, published, mark, cache, fetch, pc, pos, committed,
                   stamp, attempt, snap, told, marked, applied, faults>>

\* A new process.  A group resumes from its committed offset; a replica with
\* a new host name has a new broadcast group, which starts at the newest
\* message.
Rejoin(c) ==
    /\ \/ pos' = [pos EXCEPT ![c] = committed[c]] /\ UNCHANGED committed
       \/ /\ c \in Broadcasters
          /\ pos' = [pos EXCEPT ![c] = published]
          /\ committed' = [committed EXCEPT ![c] = published]
    /\ pc' = [pc EXCEPT ![c] = "poll"]
    /\ snap' = [snap EXCEPT ![c] = EmptyCache]
    /\ stamp' = [stamp EXCEPT ![c] = 0]
    /\ attempt' = [attempt EXCEPT ![c] = 0]
    /\ stopping' = [stopping EXCEPT ![c] = FALSE]
    /\ UNCHANGED <<now, log, published, mark, cache, fetch, told, marked, applied>>

\* The loop has ended after Stop, and the replica is started again.
Resume(c) == stopping[c] /\ pc[c] = "poll" /\ Rejoin(c) /\ UNCHANGED envVars

\* The replica dies anywhere, and comes back.
Crash(c) == Fault /\ Rejoin(c)

----------------------------------------------------------------------------
FetchStep(f) ==
    \/ \E r \in Restaurants : Miss(f, r)
    \/ CrmAnswers(f) \/ CheckMarks(f) \/ Write(f) \/ FetchFails(f)

\* What the consumer's goroutine does of itself (and its supervisor for it).
ConsumerStep(c) ==
    \/ Poll(c) \/ Mark(c) \/ Del(c) \/ ScanEnds(c)
    \/ AttemptFails(c) \/ Publish(c) \/ Commit(c) \/ Resume(c)

Next ==
    \/ Tick
    \/ \E k \in Keys : CrmCommits(k)
    \/ CrmPublishes
    \/ \E f \in Fetchers : FetchStep(f)
    \/ \E c \in Consumers : 
        ConsumerStep(c) \/ ScanBatch(c) \/ Stop(c) \/ Crash(c)

Spec == Init /\ [][Next]_vars

\* The goroutines run; CRM's clock and clients owe nobody a step.
FairSpec == Spec /\ \A c \in Consumers : WF_vars(ConsumerStep(c))

----------------------------------------------------------------------------
\* The types, and that no menu is written with a ttl of zero or less, when
\* its boundary passes during the fetch: Redis would keep it for ever.
TypeOK ==
    /\ now \in Nat \ {0}
    /\ log \in Seq(Changes)
    /\ published \in 0..Len(log)
    /\ mark \in [Keys -> Marks]
    /\ cache \in [Restaurants -> Entries \union {NoEntry}]
    /\ fetch \in [Fetchers -> Requests]
    /\ \A f \in Fetchers : fetch[f].pc = "write" => fetch[f].ttl > 0
    /\ pc \in [Consumers -> {"poll", "mark", "del", "scan", "publish", "commit"}]
    /\ pos \in [Consumers -> 0..published]
    /\ committed \in [Consumers -> 0..published]
    /\ stamp \in [Consumers -> Nat]
    /\ attempt \in [Consumers -> Nat]
    /\ snap \in [Consumers -> [Restaurants -> Entries \union {NoEntry}]]
    /\ told \in [Consumers -> 0..published]
    /\ marked \in [Consumers -> SUBSET (0..published)]
    /\ applied \in [Consumers -> SUBSET (0..published)]
    /\ stopping \in [Consumers -> BOOLEAN]
    /\ faults \in 0..MaxFaults
    /\ stops \in 0..MaxStops

\* Every consumer has invalidated the cache for the change at position i.
Settled(i) == \A c \in Consumers : i \in applied[c]

\* Once every consumer has invalidated for a change, a cached menu that
\* misses it can only have slipped in between Set's MGET of the marks and
\* its SET: the mark-then-delete order of Invalidate and the guard in Set
\* close every other way, whatever fails, restarts or expires on the way.
SettledFresh ==
    \A r \in Restaurants, i \in 1..Len(log) :
        /\ cache[r] # NoEntry
        /\ Misses(cache[r].ver, r, i)
        /\ Settled(i)
        => cache[r].raced

\* The safety net of MenuCacheMaxTTL: however many events are lost and
\* whoever wins the race, no cached menu misses a change for longer than
\* MaxTTL and the duration of one fetch.
StalenessBounded ==
    \A r \in Restaurants, i \in 1..Len(log) :
        cache[r] # NoEntry /\ Misses(cache[r].ver, r, i)
        => now < log[i].at + MaxTTL + FetchTimeout

\* A menu does not stay cached past its promotion boundary, which no event
\* announces, for longer than the fetch that cached it may have taken.
BoundaryRespected ==
    \A r \in Restaurants :
        cache[r] # NoEntry /\ cache[r].until > 0
        => now < cache[r].until + FetchTimeout

\* The durable consumer loses an event only to as many failures as it has
\* attempts, or to a shutdown that interrupts the handler: fewer transient
\* errors, crashes and failed commits together never lose a change, although
\* every message is committed.
SkipTakesAllAttempts ==
    \A c \in Consumers \ Broadcasters, i \in 1..Len(log) :
        i <= committed[c] /\ i \notin applied[c] => faults >= Attempts \/ stops > 0

\* Every consumer is eventually through with every published event and
\* ready for the next: failing handlers, failed commits and restarts delay
\* an event but never block the ones behind it.
EventsDrain ==
    \A c \in Consumers, i \in 1..MaxChanges :
        published >= i ~> pos[c] >= i /\ pc[c] = "poll"

----------------------------------------------------------------------------
(* The inductive invariant behind SettledFresh, StalenessBounded and       *)
(* BoundaryRespected (MenuCacheProofs).                                    *)

\* A menu whose fetch began at fetchedAt holds every change committed before.
HoldsEarlier(ver, fetchedAt) ==
    \A i \in 1..Len(log) : log[i].at < fetchedAt => i <= ver

LogInv == \A i \in 1..Len(log) : log[i].at <= now

FetchOK(q) ==
    /\ q.pc # "idle" => q.fetchedAt <= now
    /\ q.pc \in {"check", "write"} => HoldsEarlier(q.ver, q.fetchedAt)
    /\ q.pc = "write" =>
          /\ q.ttl \in 1..MaxTTL
          /\ q.until > 0 => q.ttl <= q.until - q.fetchedAt

EntryOK(e) ==
    /\ e.fetchedAt <= now
    /\ HoldsEarlier(e.ver, e.fetchedAt)
    /\ now < e.expires
    /\ e.expires <= e.fetchedAt + FetchTimeout + MaxTTL
    /\ e.until > 0 => e.expires <= e.until + FetchTimeout

FetchInv == \A f \in Fetchers : FetchOK(fetch[f])

EntryInv == \A r \in Restaurants : cache[r] # NoEntry => EntryOK(cache[r])

\* A consumer about to set a mark holds a time later than the change it is
\* for, and than every change it has set a mark for before.
StampInv ==
    \A c \in Consumers : pc[c] = "mark" =>
        /\ pos[c] > 0
        /\ stamp[c] <= now
        /\ log[pos[c]].at <= stamp[c]
        /\ \A i \in marked[c] : log[i].at <= stamp[c]

PhaseInv ==
    \A c \in Consumers :
        /\ applied[c] \subseteq marked[c]
        /\ 0 \notin marked[c]
        /\ pc[c] \in {"del", "scan"} => pos[c] \in marked[c]
        /\ pc[c] = "del" => Key(c) # All
        /\ pc[c] = "scan" => Key(c) = All

\* Marks may go back in time, but not behind a change that every consumer
\* has set a mark for, until two MaxTTL have passed.
MarkInv ==
    /\ \A k \in Keys : mark[k] # NoMark => mark[k].expires >= mark[k].at + 2 * MaxTTL
    /\ \A i \in 1..Len(log) :
          (\A c \in Consumers : i \in marked[c])
          => mark[log[i].key].at >= log[i].at \/ now >= log[i].at + 2 * MaxTTL

\* Consumer c has yet to delete what is cached for r on account of change i.
WillDrop(c, r, i) ==
    /\ i \notin applied[c]
    /\ pc[c] = "scan" /\ pos[c] = i => cache[r] = snap[c][r]

DropInv ==
    \A r \in Restaurants, i \in 1..Len(log) :
        cache[r] # NoEntry /\ Misses(cache[r].ver, r, i) /\ ~cache[r].raced
        => \E c \in Consumers : WillDrop(c, r, i)

IInv == /\ TypeOK /\ LogInv /\ FetchInv /\ EntryInv
        /\ StampInv /\ PhaseInv /\ MarkInv /\ DropInv

\* The inductive invariant behind SkipTakesAllAttempts.  Without a shutdown the
\* durable consumer has had a fault for every attempt but the one it is in,
\* and commits nothing it is still trying: every change up to its offset but
\* that one is applied, or all its attempts have failed.
Trying(c) == pc[c] \in {"mark", "del", "scan"}

SkipInv ==
    stops = 0 => \A c \in Consumers \ Broadcasters :
        /\ ~stopping[c]
        /\ pc[c] # "publish"
        /\ committed[c] <= pos[c]
        /\ Trying(c) => committed[c] < pos[c] /\ attempt[c] <= faults + 1
        /\ \A i \in 1..pos[c] :
              \/ Trying(c) /\ i = pos[c]
              \/ i \in applied[c]
              \/ faults >= Attempts

----------------------------------------------------------------------------
(* What a comment of the source says, which the code does not keep.        *)

\* menu_cache_repo.go:100: "a fetch racing with us either sees the mark (and
\* won't cache) or wrote before the delete (and is removed)", so once an
\* Invalidate for a change is through, no cached menu misses that change.
RacingFetchRefusedOrRemoved ==
    \A c \in Consumers, r \in Restaurants :
        \A i \in applied[c] :
            cache[r] # NoEntry => ~Misses(cache[r].ver, r, i)
=============================================================================
