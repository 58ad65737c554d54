------------------------------- MODULE SignIn -------------------------------
(* Signing in with a phone number and an SMS code: RequestCode and         *)
(* VerifyCode of customer_service.go over the Redis keys of                *)
(* customer_auth_repo.go. Every Redis command and every call to another    *)
(* service is a step of its own, calls of any number of customers and      *)
(* replicas interleave, and a command that fails may have been executed.   *)
(* A code is identified with the request that drew it.                     *)
EXTENDS Integers, FiniteSets

CONSTANTS
    Phones,       \* normalised phone numbers
    IPs,          \* client addresses
    Requests,     \* calls of RequestCode
    Verifies,     \* calls of VerifyCode
    MaxAttempts,  \* maxCodeAttempts
    Cooldown,     \* resendCooldown
    Hour,         \* the window of the two hourly throttles
    PhoneLimit,   \* codesPerPhoneHour
    IPLimit,      \* codesPerIPHour
    CodeTTL,      \* lifetime of a code
    Second,       \* ticks of the clock in a second
    MaxNow,       \* bound of the clock
    MaxFaults,    \* bound of the commands and calls that fail
    NoCode,       \* no code is stored
    Wrong         \* a guess that is nobody's code

ASSUME ConstantsAssumption ==
    /\ MaxAttempts \in Nat \ {0}
    /\ Cooldown \in Nat \ {0}
    /\ Hour \in Nat \ {0}
    /\ PhoneLimit \in Nat \ {0}
    /\ IPLimit \in Nat \ {0}
    /\ CodeTTL \in Nat \ {0}
    /\ Second \in Nat \ {0}
    /\ MaxNow \in Nat
    /\ MaxFaults \in Nat
    /\ Wrong \notin Requests

VARIABLES
    now,        \* the clock
    code,       \* cust:code:{phone}
    window,     \* cust:throttle:{key}: uses so far and when it ends
    req,        \* the calls of RequestCode
    ver,        \* the calls of VerifyCode
    faults,     \* failures so far
    wrong,      \* history: guesses found wrong that each code is charged with
    free,       \* history: guesses found wrong that it is not charged with
    used,       \* history: guesses found right against each code
    lax,        \* history: codes on which calls overlapped or commands failed
    disturbed   \* history: codes removed by a call that was about another one

vars == <<now, code, window, req, ver, faults, wrong, free, used, lax, disturbed>>

Keys == ({"send", "send-hour"} \X Phones) \cup ({"send-ip"} \X IPs)

LoginCode == [by : Requests, attempts : 0 .. MaxAttempts - 1, until : Nat]

ASSUME NoCodeAssumption == NoCode \notin LoginCode

Guesses == Requests \cup {Wrong}

ReqPC == {"idle", "hour", "ip", "save", "sms", "drop", "sent", "refused", "failed"}
VerPC == {"idle", "ttl", "consume", "burn", "count", "upsert", "done"}

Unused == [n |-> 0, until |-> 0]

TypeOK ==
    /\ now \in Nat
    /\ code \in [Phones -> LoginCode \cup {NoCode}]
    /\ window \in [Keys -> [n : Nat, until : Nat]]
    /\ req \in [Requests ->
                  [pc : ReqPC, phone : Phones, ip : IPs, at : Nat, saved : Nat]]
    /\ ver \in [Verifies ->
                  [pc : VerPC, phone : Phones, guess : Guesses,
                   stored : LoginCode \cup {NoCode}, ttl : Nat]]
    /\ faults \in 0 .. MaxFaults
    /\ wrong \in [Requests -> Nat]
    /\ free \in [Requests -> Nat]
    /\ used \in [Requests -> Nat]
    /\ lax \subseteq Requests
    /\ disturbed \subseteq Requests

Init ==
    /\ now = 0
    /\ code = [p \in Phones |-> NoCode]
    /\ window = [k \in Keys |-> Unused]
    /\ req \in [Requests -> [pc : {"idle"}, phone : Phones, ip : IPs,
                             at : {0}, saved : {0}]]
    /\ ver \in [Verifies -> [pc : {"idle"}, phone : Phones, guess : {Wrong},
                             stored : {NoCode}, ttl : {0}]]
    /\ faults = 0
    /\ wrong = [r \in Requests |-> 0]
    /\ free = [r \in Requests |-> 0]
    /\ used = [r \in Requests |-> 0]
    /\ lax = {}
    /\ disturbed = {}

Fault == faults < MaxFaults /\ faults' = faults + 1

----------------------------------------------------------------------------
(* Throttles.                                                              *)

\* INCR, EXPIRE NX and TTL in one transaction: a use is counted also when
\* it is refused, and only the first one starts the window.
Allow(key, len) ==
    window' = [window EXCEPT
                 ![key] = [n |-> @.n + 1,
                           until |-> IF @.n = 0 THEN now + len ELSE @.until]]

\* Mutant: one more than the limit gets through.
WithinOneMore(key, limit) == window[key].n <= limit

Within(key, limit) == window[key].n + 1 <= limit

ReqAt(r, pc) == req' = [req EXCEPT ![r].pc = pc]

\* The first throttle: one SMS per phone and cooldown.
AllowSend(r) ==
    LET key == <<"send", req[r].phone>>
    IN  /\ req[r].pc = "idle"
        /\ Allow(key, Cooldown)
        /\ req' = [req EXCEPT ![r].pc = IF Within(key, 1) THEN "hour" ELSE "refused",
                              ![r].at = now]
        /\ UNCHANGED <<now, code, ver, faults, wrong, free, used, lax, disturbed>>

\* The second: a few per phone and hour. A refusal leaves the cooldown used.
AllowHour(r) ==
    LET key == <<"send-hour", req[r].phone>>
    IN  /\ req[r].pc = "hour"
        /\ Allow(key, Hour)
        /\ ReqAt(r, IF Within(key, PhoneLimit) THEN "ip" ELSE "refused")
        /\ UNCHANGED <<now, code, ver, faults, wrong, free, used, lax, disturbed>>

\* The third: a cap per client address.
AllowIP(r) ==
    LET key == <<"send-ip", req[r].ip>>
    IN  /\ req[r].pc = "ip"
        /\ Allow(key, Hour)
        /\ ReqAt(r, IF Within(key, IPLimit) THEN "save" ELSE "refused")
        /\ UNCHANGED <<now, code, ver, faults, wrong, free, used, lax, disturbed>>

----------------------------------------------------------------------------
(* The rest of RequestCode.                                                *)

\* Writes the key of phone p on behalf of a call about the codes in `mine'.
Store(p, c, mine) ==
    /\ code' = [code EXCEPT ![p] = c]
    /\ disturbed' = IF code[p] # NoCode /\ code[p].by \notin mine
                    THEN disturbed \cup {code[p].by} ELSE disturbed

\* A new code replaces the codes of the requests before it.
Older(r) == {q \in Requests : req[q].at <= req[r].at}

SaveCode(r) ==
    /\ req[r].pc = "save"
    /\ Store(req[r].phone, [by |-> r, attempts |-> 0, until |-> now + CodeTTL], Older(r))
    /\ req' = [req EXCEPT ![r].pc = "sms", ![r].saved = now]
    /\ UNCHANGED <<now, window, ver, faults, wrong, free, used, lax>>

SmsSent(r) ==
    /\ req[r].pc = "sms"
    /\ ReqAt(r, "sent")
    /\ UNCHANGED <<now, code, window, ver, faults, wrong, free, used, lax, disturbed>>

\* kfc-notification answers with an error, or not in time.
SmsFails(r) ==
    /\ req[r].pc = "sms"
    /\ Fault
    /\ ReqAt(r, "drop")
    /\ UNCHANGED <<now, code, window, ver, wrong, free, used, lax, disturbed>>

\* The code of the SMS that failed is deleted, by phone: whatever is there.
DropCode(r) ==
    /\ req[r].pc = "drop"
    /\ \/ /\ Store(req[r].phone, NoCode, {r})
          /\ UNCHANGED faults
       \/ /\ Fault
          /\ UNCHANGED <<code, disturbed>>
    /\ ReqAt(r, "failed")
    /\ UNCHANGED <<now, window, ver, wrong, free, used, lax>>

\* A throttle or the save fails, executed or not: the call ends with it.
RequestFails(r) ==
    LET p == req[r].phone
    IN  /\ Fault
        /\ \/ /\ req[r].pc = "idle"
              /\ \/ Allow(<<"send", p>>, Cooldown)
                 \/ UNCHANGED window
              /\ UNCHANGED <<code, disturbed>>
           \/ /\ req[r].pc = "hour"
              /\ \/ Allow(<<"send-hour", p>>, Hour)
                 \/ UNCHANGED window
              /\ UNCHANGED <<code, disturbed>>
           \/ /\ req[r].pc = "ip"
              /\ \/ Allow(<<"send-ip", req[r].ip>>, Hour)
                 \/ UNCHANGED window
              /\ UNCHANGED <<code, disturbed>>
           \/ /\ req[r].pc = "save"
              /\ \/ Store(p, [by |-> r, attempts |-> 0, until |-> now + CodeTTL], Older(r))
                 \/ UNCHANGED <<code, disturbed>>
              /\ UNCHANGED window
        /\ ReqAt(r, "failed")
        /\ UNCHANGED <<now, ver, wrong, free, used, lax>>

----------------------------------------------------------------------------
(* VerifyCode.                                                             *)

VerAt(v, pc) == ver' = [ver EXCEPT ![v].pc = pc]

\* What a call that has ended leaves behind.
Ended(v) == [ver[v] EXCEPT !.pc = "done", !.guess = Wrong, !.stored = NoCode, !.ttl = 0]

EndVerify(v) == ver' = [ver EXCEPT ![v] = Ended(v)]

\* Calls that have read the code c and have not dealt with it yet.
Holders(c) ==
    {v \in Verifies : /\ ver[v].pc \in {"ttl", "consume", "burn", "count"}
                      /\ ver[v].stored.by = c.by}

\* GET. The customer types the code that is stored, or anything else.
ReadCode(v) ==
    LET p == ver[v].phone
    IN  /\ ver[v].pc = "idle"
        /\ \/ /\ code[p] = NoCode
              /\ EndVerify(v)
              /\ UNCHANGED lax
           \/ /\ code[p] # NoCode
              /\ \E g \in {code[p].by, Wrong} :
                    ver' = [ver EXCEPT ![v].pc = "ttl", ![v].guess = g, ![v].stored = code[p]]
              /\ lax' = IF Holders(code[p]) = {} THEN lax ELSE lax \cup {code[p].by}
        /\ UNCHANGED <<now, code, window, req, faults, wrong, free, used, disturbed>>

\* Mutants: the code is burnt one guess too late, or too early.
ExhaustedLate(c) == c.attempts >= MaxAttempts
ExhaustedEarly(c) == c.attempts + 2 >= MaxAttempts

Exhausted(c) == c.attempts + 1 >= MaxAttempts

\* Redis answers TTL in whole seconds, to the nearest: the last half second
\* of a key reads 0, like a key that is gone.
HalfSecond == Second \div 2
Rounded(left) == ((left + HalfSecond) \div Second) * Second

Tally(f, r, happens) == [f EXCEPT ![r] = @ + (IF happens THEN 1 ELSE 0)]

\* TTL of whatever is stored by then, then the comparison with what was read.
\* A wrong guess that reads 0 is not written back: a code that is still there
\* is not charged with it.
Compare(v) ==
    LET c == ver[v].stored
        there == code[ver[v].phone]
        ttl == IF there = NoCode THEN 0 ELSE Rounded(there.until - now)
        next == IF ver[v].guess = c.by THEN "consume"
                ELSE IF Exhausted(c) THEN "burn"
                ELSE IF ttl > 0 THEN "count" ELSE "done"
        spared == next = "done" /\ there # NoCode /\ there.by = c.by
    IN  /\ ver[v].pc = "ttl"
        /\ IF next = "done" THEN EndVerify(v)
           ELSE ver' = [ver EXCEPT ![v].pc = next, ![v].ttl = ttl]
        /\ used' = Tally(used, c.by, next = "consume")
        /\ free' = Tally(free, c.by, spared)
        /\ wrong' = Tally(wrong, c.by, next # "consume" /\ ~spared)
        /\ UNCHANGED <<now, code, window, req, faults, lax, disturbed>>

\* The three writes ignore their errors: when one is not executed the call
\* goes on as if it had been.
Skipped(v) ==
    /\ Fault
    /\ lax' = lax \cup {ver[v].stored.by}
    /\ UNCHANGED <<code, disturbed>>

\* The right code: deleted, by phone.
Consume(v) ==
    /\ ver[v].pc = "consume"
    /\ \/ /\ Store(ver[v].phone, NoCode, {ver[v].stored.by})
          /\ UNCHANGED <<faults, lax>>
       \/ Skipped(v)
    /\ VerAt(v, "upsert")
    /\ UNCHANGED <<now, window, req, wrong, free, used>>

\* The last wrong guess: deleted, by phone.
Burn(v) ==
    /\ ver[v].pc = "burn"
    /\ \/ /\ Store(ver[v].phone, NoCode, {ver[v].stored.by})
          /\ UNCHANGED <<faults, lax>>
       \/ Skipped(v)
    /\ EndVerify(v)
    /\ UNCHANGED <<now, window, req, wrong, free, used>>

\* Mutant: the attempt is not added.
CountedNot(v) == [ver[v].stored EXCEPT !.until = now + ver[v].ttl]

\* What was read, with one attempt more and the time it had left, rounded.
Counted(v) ==
    [ver[v].stored EXCEPT !.attempts = @ + 1, !.until = now + ver[v].ttl]

\* Any other.
Count(v) ==
    /\ ver[v].pc = "count"
    /\ \/ /\ Store(ver[v].phone, Counted(v), {ver[v].stored.by})
          /\ UNCHANGED <<faults, lax>>
       \/ Skipped(v)
    /\ EndVerify(v)
    /\ UNCHANGED <<now, window, req, wrong, free, used>>

\* kfc-loyalty finds or creates the member, and the session is saved.
SignedIn(v) ==
    /\ ver[v].pc = "upsert"
    /\ EndVerify(v)
    /\ UNCHANGED <<now, code, window, req, faults, wrong, free, used, lax, disturbed>>

\* Reading the code, asking kfc-loyalty or saving the session fails. After
\* the code has been consumed the customer has to ask for another one.
VerifyFails(v) ==
    /\ ver[v].pc \in {"ttl", "upsert"}
    /\ Fault
    /\ EndVerify(v)
    /\ UNCHANGED <<now, code, window, req, wrong, free, used, lax, disturbed>>

----------------------------------------------------------------------------

\* Time passes and Redis expires keys.
Tick ==
    /\ now < MaxNow
    /\ now' = now + 1
    /\ code' = [p \in Phones |->
                  IF code[p] # NoCode /\ code[p].until <= now'
                  THEN NoCode ELSE code[p]]
    /\ window' = [k \in Keys |-> IF window[k].until <= now' THEN Unused ELSE window[k]]
    /\ UNCHANGED <<req, ver, faults, wrong, free, used, lax, disturbed>>

RequestCode(r) ==
    \/ AllowSend(r) \/ AllowHour(r) \/ AllowIP(r)
    \/ SaveCode(r) \/ SmsSent(r) \/ SmsFails(r) \/ DropCode(r)
    \/ RequestFails(r)

VerifyCode(v) ==
    \/ ReadCode(v) \/ Compare(v)
    \/ Consume(v) \/ Burn(v) \/ Count(v)
    \/ SignedIn(v) \/ VerifyFails(v)

Next ==
    \/ \E r \in Requests : RequestCode(r)
    \/ \E v \in Verifies : VerifyCode(v)
    \/ Tick

Spec == Init /\ [][Next]_vars

----------------------------------------------------------------------------
(* Properties.                                                             *)

\* Requests that got past all throttles.
Admitted == {r \in Requests : req[r].pc \in {"save", "sms", "drop", "sent"}}

\* The throttles hold for any interleaving of calls: two codes for a phone
\* are at least a cooldown apart, and no phone and no address gets more than
\* its limit for every hour that has begun, with windows that start at the
\* first use (customer_service.go:121-137, Allow).
SendsThrottled ==
    /\ \A q, r \in Admitted :
          (q # r /\ req[q].phone = req[r].phone) =>
              \/ req[q].at >= req[r].at + Cooldown
              \/ req[r].at >= req[q].at + Cooldown
    /\ \A p \in Phones :
          Cardinality({r \in Admitted : req[r].phone = p})
              <= PhoneLimit * (1 + now \div Hour)
    /\ \A i \in IPs :
          Cardinality({r \in Admitted : req[r].ip = i}) <= IPLimit * (1 + now \div Hour)

\* Until when a code lives at least: each guess it is charged with may cost it
\* half a second, as it is written back with a TTL in whole seconds.
Deadline(r) == (req[r].saved + CodeTTL) - wrong[r] * HalfSecond

\* The code of the last SMS, not used, not charged with its last guess, and
\* left alone by the calls about other codes that delete or write by phone.
Assured(r) ==
    /\ req[r].pc = "sent"
    /\ now < Deadline(r)
    /\ used[r] = 0
    /\ wrong[r] < MaxAttempts
    /\ r \notin disturbed
    /\ \A q \in Requests :
          (q # r /\ req[q].phone = req[r].phone) =>
              q \in Older(r) \/ req[q].pc \in {"idle", "hour", "ip", "save", "refused"}

\* The code of the last SMS works until it expires, is used or has been
\* charged with MaxAttempts guesses, also while other calls run; what may take
\* it away is a call about another code that deletes or writes by phone
\* (customer_service.go:147, :178-192).
SentCodeUsable ==
    \A r \in Requests :
        Assured(r) => code[req[r].phone] # NoCode /\ code[req[r].phone].by = r

\* A code is charged with at most MaxAttempts wrong guesses and signs in
\* once, unless guesses overlapped or a write failed: the code and its counter
\* are read, then written or deleted (customer_service.go:178-190). Guesses
\* that read a TTL of 0 are spared (:184) and nothing bounds their number, but
\* they come in the last half second of a code's life, never before.
GuessesBounded ==
    \A r \in Requests :
        /\ r \in lax \/ (wrong[r] <= MaxAttempts /\ used[r] <= 1)
        /\ Assured(r) /\ free[r] > 0 => Deadline(r) <= now + HalfSecond

\* What README.md:135 says of a code, "5 attempts": with the guesses of its
\* last half second it is not so, also when calls come one after the other.
AttemptsAsDocumented ==
    \A r \in Requests : r \in lax \/ wrong[r] + free[r] <= MaxAttempts
=============================================================================
