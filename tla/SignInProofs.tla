--------------------------- MODULE SignInProofs ----------------------------
(***************************************************************************)
(* Proofs about SignIn, for any number of phones, addresses, calls, limits *)
(* and failures: however the Redis commands of the calls interleave.       *)
(***************************************************************************)
EXTENDS SignIn, FiniteSetTheorems, TLAPS

ReqRecs == [pc : ReqPC, phone : Phones, ip : IPs, at : Nat, saved : Nat]
VerRecs == [pc : VerPC, phone : Phones, guess : Guesses,
            stored : LoginCode \cup {NoCode}, ttl : Nat]

----------------------------------------------------------------------------
(* What the operators of the model do, field by field.                     *)

\* A call of RequestCode moves to another state and changes nothing else.
LEMMA ReqAtEffect ==
    ASSUME req \in [Requests -> ReqRecs], NEW r \in Requests, NEW pc \in ReqPC, ReqAt(r, pc)
    PROVE  /\ req' \in [Requests -> ReqRecs]
           /\ req'[r] = [req[r] EXCEPT !.pc = pc]
           /\ \A q \in Requests \ {r} : req'[q] = req[q]
BY DEF ReqAt, ReqRecs

\* A record of ver is replaced.
LEMMA VerUpdate ==
    ASSUME ver \in [Verifies -> VerRecs], NEW v \in Verifies, NEW rec \in VerRecs,
           ver' = [ver EXCEPT ![v] = rec]
    PROVE  /\ ver' \in [Verifies -> VerRecs]
           /\ ver'[v] = rec
           /\ \A u \in Verifies \ {v} : ver'[u] = ver[u]
OBVIOUS

\* A call of VerifyCode moves to another state and keeps what it has read.
LEMMA VerAtEffect ==
    ASSUME ver \in [Verifies -> VerRecs], NEW v \in Verifies, NEW pc \in VerPC, VerAt(v, pc)
    PROVE  /\ ver' \in [Verifies -> VerRecs]
           /\ ver'[v] = [ver[v] EXCEPT !.pc = pc]
           /\ \A u \in Verifies \ {v} : ver'[u] = ver[u]
<1> DEFINE rec == [ver[v] EXCEPT !.pc = pc]
<1>1. rec \in VerRecs
    BY DEF VerRecs
<1>2. ver' = [ver EXCEPT ![v] = rec]
    BY DEF VerAt
<1> QED
    BY <1>1, <1>2, VerUpdate

\* A call that ends keeps its phone.
LEMMA EndEffect ==
    ASSUME ver \in [Verifies -> VerRecs], NEW v \in Verifies, EndVerify(v)
    PROVE  /\ ver' \in [Verifies -> VerRecs]
           /\ ver'[v].pc = "done" /\ ver'[v].phone = ver[v].phone
           /\ \A u \in Verifies \ {v} : ver'[u] = ver[u]
<1>1. Ended(v) \in VerRecs /\ Ended(v).pc = "done" /\ Ended(v).phone = ver[v].phone
    BY DEF VerRecs, VerPC, Guesses, Ended
<1>2. ver' = [ver EXCEPT ![v] = Ended(v)]
    BY DEF EndVerify
<1> QED
    BY <1>1, <1>2, VerUpdate

\* A write of a phone's key.
LEMMA StoreEffect ==
    ASSUME code \in [Phones -> LoginCode \cup {NoCode}], disturbed \subseteq Requests,
           NEW p \in Phones, NEW c \in LoginCode \cup {NoCode}, NEW mine, Store(p, c, mine)
    PROVE  /\ code' \in [Phones -> LoginCode \cup {NoCode}]
           /\ disturbed' \subseteq Requests /\ disturbed \subseteq disturbed'
           /\ code'[p] = c
           /\ \A k \in Phones \ {p} : code'[k] = code[k]
           /\ code[p] # NoCode => code[p].by \in mine \cup disturbed'
BY DEF Store, LoginCode

\* A use of a throttle.
LEMMA AllowEffect ==
    ASSUME window \in [Keys -> [n : Nat, until : Nat]], now \in Nat,
           NEW key \in Keys, NEW len \in Nat, Allow(key, len)
    PROVE  /\ window' \in [Keys -> [n : Nat, until : Nat]]
           /\ window'[key].n = window[key].n + 1
           /\ window'[key].until = IF window[key].n = 0 THEN now + len ELSE window[key].until
           /\ \A k \in Keys \ {key} : window'[k] = window[k]
BY DEF Allow

----------------------------------------------------------------------------
(* Types.                                                                  *)

\* Before the first call nothing is stored and every call is idle.
LEMMA InitType == Init => TypeOK
BY NoCodeAssumption, ConstantsAssumption DEF Init, TypeOK, Unused, ReqPC, VerPC, Guesses

\* What a step of RequestCode does to the calls and to what is stored.
Early == {"idle", "hour", "ip"}
ReqMoves(r) ==
    /\ req' \in [Requests -> ReqRecs]
    /\ req'[r].phone = req[r].phone /\ req'[r].ip = req[r].ip
    /\ \A q \in Requests \ {r} : req'[q] = req[q]
    /\ UNCHANGED <<now, ver, wrong, free, used, lax>>
    /\ faults' \in 0 .. MaxFaults
    /\ window' \in [Keys -> [n : Nat, until : Nat]]
    /\ req[r].pc # "save" => req'[r].saved = req[r].saved
    /\ req[r].pc # "idle" => req'[r].at = req[r].at
NewCode(r) == [by |-> r, attempts |-> 0, until |-> now + CodeTTL]
Moves(r) ==
    \/ /\ req[r].pc \in Early
       /\ req'[r].pc \in {"hour", "ip", "save", "refused", "failed"}
       /\ UNCHANGED <<code, disturbed>>
    \/ /\ req[r].pc = "save" /\ req'[r].pc \in {"sms", "failed"}
       /\ req'[r].pc = "sms" => req'[r].saved = now
       /\ Store(req[r].phone, NewCode(r), Older(r))
    \/ /\ req[r].pc = "save" /\ req'[r].pc = "failed"
       /\ UNCHANGED <<code, disturbed>>
    \/ /\ req[r].pc = "sms" /\ req'[r].pc \in {"sent", "drop"}
       /\ UNCHANGED <<code, disturbed>>
    \/ /\ req[r].pc = "drop" /\ req'[r].pc = "failed"
       /\ Store(req[r].phone, NoCode, {r}) \/ UNCHANGED <<code, disturbed>>

\* The keys of the three throttles that RequestCode uses.
LEMMA KeyType ==
    ASSUME NEW p \in Phones, NEW i \in IPs
    PROVE  <<"send", p>> \in Keys /\ <<"send-hour", p>> \in Keys /\ <<"send-ip", i>> \in Keys
BY DEF Keys

\* Every step of RequestCode, failures included, is one of these.
LEMMA RequestMoves ==
    ASSUME TypeOK, NEW r \in Requests, RequestCode(r)
    PROVE  ReqMoves(r) /\ Moves(r)
<1>0. /\ req \in [Requests -> ReqRecs] /\ window \in [Keys -> [n : Nat, until : Nat]]
      /\ now \in Nat /\ faults \in 0 .. MaxFaults /\ MaxFaults \in Nat
      /\ Cooldown \in Nat /\ Hour \in Nat
    BY ConstantsAssumption DEF TypeOK, ReqRecs
<1>k. /\ req[r].phone \in Phones /\ req[r].ip \in IPs
      /\ <<"send", req[r].phone>> \in Keys /\ <<"send-hour", req[r].phone>> \in Keys
      /\ <<"send-ip", req[r].ip>> \in Keys
    BY <1>0, KeyType DEF ReqRecs
<1>f. Fault => faults' \in 0 .. MaxFaults
    BY <1>0 DEF Fault
<1>1. CASE AllowSend(r)
    <2> DEFINE pc == IF Within(<<"send", req[r].phone>>, 1) THEN "hour" ELSE "refused"
    <2>1. /\ req[r].pc = "idle"
          /\ Allow(<<"send", req[r].phone>>, Cooldown)
          /\ req' = [req EXCEPT ![r].pc = pc, ![r].at = now]
          /\ UNCHANGED <<now, code, ver, faults, wrong, free, used, lax, disturbed>>
        BY <1>1 DEF AllowSend
    <2>2. window' \in [Keys -> [n : Nat, until : Nat]]
        BY <1>0, <1>k, <2>1, AllowEffect
    <2>3. pc \in ReqPC /\ pc \in {"hour", "refused"}
        BY DEF ReqPC
    <2> HIDE DEF pc
    <2>4. /\ req' \in [Requests -> ReqRecs]
          /\ req'[r] = [req[r] EXCEPT !.pc = pc, !.at = now]
          /\ \A q \in Requests \ {r} : req'[q] = req[q]
        BY <1>0, <2>1, <2>3 DEF ReqRecs
    <2>5. /\ req'[r].pc = pc /\ req'[r].phone = req[r].phone /\ req'[r].ip = req[r].ip
          /\ req'[r].saved = req[r].saved
        BY <1>0, <2>4 DEF ReqRecs
    <2> QED
        BY <1>0, <2>1, <2>2, <2>3, <2>4, <2>5 DEF ReqMoves, Moves, Early
<1>2. ASSUME NEW pc \in ReqPC, ReqAt(r, pc)
      PROVE  /\ req' \in [Requests -> ReqRecs]
             /\ \A q \in Requests \ {r} : req'[q] = req[q]
             /\ req'[r].pc = pc /\ req'[r].phone = req[r].phone /\ req'[r].ip = req[r].ip
             /\ req'[r].at = req[r].at /\ req'[r].saved = req[r].saved
    <2>1. /\ req' \in [Requests -> ReqRecs]
          /\ req'[r] = [req[r] EXCEPT !.pc = pc]
          /\ \A q \in Requests \ {r} : req'[q] = req[q]
        BY <1>0, <1>2, ReqAtEffect
    <2> QED
        BY <1>0, <2>1 DEF ReqRecs
<1>3. CASE AllowHour(r)
    <2> DEFINE pc == IF Within(<<"send-hour", req[r].phone>>, PhoneLimit) THEN "ip" ELSE "refused"
    <2>1. /\ req[r].pc = "hour" /\ Allow(<<"send-hour", req[r].phone>>, Hour) /\ ReqAt(r, pc)
          /\ UNCHANGED <<now, code, ver, faults, wrong, free, used, lax, disturbed>>
        BY <1>3 DEF AllowHour
    <2>2. window' \in [Keys -> [n : Nat, until : Nat]]
        BY <1>0, <1>k, <2>1, AllowEffect
    <2>3. pc \in ReqPC /\ pc \in {"ip", "refused"}
        BY DEF ReqPC
    <2> HIDE DEF pc
    <2> QED
        BY <1>0, <1>2, <2>1, <2>2, <2>3 DEF ReqMoves, Moves, Early
<1>4. CASE AllowIP(r)
    <2> DEFINE pc == IF Within(<<"send-ip", req[r].ip>>, IPLimit) THEN "save" ELSE "refused"
    <2>1. /\ req[r].pc = "ip" /\ Allow(<<"send-ip", req[r].ip>>, Hour) /\ ReqAt(r, pc)
          /\ UNCHANGED <<now, code, ver, faults, wrong, free, used, lax, disturbed>>
        BY <1>4 DEF AllowIP
    <2>2. window' \in [Keys -> [n : Nat, until : Nat]]
        BY <1>0, <1>k, <2>1, AllowEffect
    <2>3. pc \in ReqPC /\ pc \in {"save", "refused"}
        BY DEF ReqPC
    <2> HIDE DEF pc
    <2> QED
        BY <1>0, <1>2, <2>1, <2>2, <2>3 DEF ReqMoves, Moves, Early
<1>5. CASE SaveCode(r)
    <2>1. /\ req[r].pc = "save"
          /\ Store(req[r].phone, NewCode(r), Older(r))
          /\ req' = [req EXCEPT ![r].pc = "sms", ![r].saved = now]
          /\ UNCHANGED <<now, window, ver, faults, wrong, free, used, lax>>
        BY <1>5 DEF SaveCode, NewCode
    <2>2. /\ req' \in [Requests -> ReqRecs]
          /\ req'[r] = [req[r] EXCEPT !.pc = "sms", !.saved = now]
          /\ \A q \in Requests \ {r} : req'[q] = req[q]
        BY <1>0, <2>1 DEF ReqRecs, ReqPC
    <2>3. /\ req'[r].pc = "sms" /\ req'[r].phone = req[r].phone /\ req'[r].ip = req[r].ip
          /\ req'[r].at = req[r].at /\ req'[r].saved = now
        BY <1>0, <2>2 DEF ReqRecs
    <2> QED
        BY <1>0, <2>1, <2>2, <2>3 DEF ReqMoves, Moves
<1>6. CASE SmsSent(r)
    <2>1. "sent" \in ReqPC
        BY DEF ReqPC
    <2> QED
        BY <1>0, <1>2, <1>6, <2>1 DEF SmsSent, ReqMoves, Moves
<1>7. CASE SmsFails(r)
    <2>1. "drop" \in ReqPC
        BY DEF ReqPC
    <2> QED
        BY <1>0, <1>2, <1>f, <1>7, <2>1 DEF SmsFails, ReqMoves, Moves
<1>8. CASE DropCode(r)
    <2>1. "failed" \in ReqPC
        BY DEF ReqPC
    <2>2. req[r].pc = "drop" /\ ReqAt(r, "failed") /\ UNCHANGED <<now, window, ver, wrong, free, used, lax>>
        BY <1>8 DEF DropCode
    <2>3. /\ Store(req[r].phone, NoCode, {r}) \/ UNCHANGED <<code, disturbed>>
          /\ faults' \in 0 .. MaxFaults
        BY <1>0, <1>f, <1>8 DEF DropCode
    <2> QED
        BY <1>0, <1>2, <2>1, <2>2, <2>3 DEF ReqMoves, Moves
<1>9. CASE RequestFails(r)
    <2>1. "failed" \in ReqPC
        BY DEF ReqPC
    <2>2. Fault /\ ReqAt(r, "failed") /\ UNCHANGED <<now, ver, wrong, free, used, lax>>
        BY <1>9 DEF RequestFails
    <2>3. window' \in [Keys -> [n : Nat, until : Nat]]
        BY <1>0, <1>k, <1>9, AllowEffect DEF RequestFails
    <2>4. \/ req[r].pc \in Early /\ UNCHANGED <<code, disturbed>>
          \/ req[r].pc = "save" /\ Store(req[r].phone, NewCode(r), Older(r))
          \/ req[r].pc = "save" /\ UNCHANGED <<code, disturbed>>
        BY <1>9 DEF RequestFails, NewCode, Early
    <2>5. /\ req' \in [Requests -> ReqRecs]
          /\ \A q \in Requests \ {r} : req'[q] = req[q]
          /\ req'[r].pc = "failed" /\ req'[r].phone = req[r].phone /\ req'[r].ip = req[r].ip
          /\ req'[r].at = req[r].at /\ req'[r].saved = req[r].saved
        BY <1>2, <2>1, <2>2
    <2> QED
        BY <1>0, <1>f, <2>2, <2>3, <2>4, <2>5 DEF ReqMoves, Moves
<1> QED
    BY <1>1, <1>3, <1>4, <1>5, <1>6, <1>7, <1>8, <1>9 DEF RequestCode

\* A call that holds a code it has read has one, and it counts a guess only
\* on a code that lives on and can take it.
Holding == {"ttl", "consume", "burn", "count"}
HeldInv ==
    \A v \in Verifies :
        /\ ver[v].pc \in Holding => ver[v].stored # NoCode
        /\ ver[v].pc = "count" => ver[v].ttl > 0 /\ ~Exhausted(ver[v].stored)

\* What is stored has not expired.
LiveInv == \A p \in Phones : code[p] # NoCode => now < code[p].until

Base == TypeOK /\ HeldInv /\ LiveInv

\* What a step of VerifyCode does to the calls and to what is stored.
VerMoves(v) ==
    /\ ver' \in [Verifies -> VerRecs]
    /\ ver'[v].phone = ver[v].phone
    /\ \A u \in Verifies \ {v} : ver'[u] = ver[u]
    /\ UNCHANGED <<now, window, req>>
    /\ faults' \in 0 .. MaxFaults
    /\ lax \subseteq lax' /\ lax' \subseteq Requests
    /\ free' \in [Requests -> Nat]

Reads(v) ==
    /\ ver[v].pc = "idle" /\ code[ver[v].phone] # NoCode
    /\ ver'[v].pc = "ttl" /\ ver'[v].stored = code[ver[v].phone]
    /\ Holders(code[ver[v].phone]) # {} => code[ver[v].phone].by \in lax'
    /\ UNCHANGED <<code, disturbed, wrong, free, used>>

Left(v) == IF code[ver[v].phone] = NoCode THEN 0
           ELSE Rounded(code[ver[v].phone].until - now)
Gone(v) == code[ver[v].phone] = NoCode \/ code[ver[v].phone].by # ver[v].stored.by
FindsRight(v) ==
    /\ ver[v].pc = "ttl" /\ ver'[v].pc = "consume" /\ ver'[v].stored = ver[v].stored
    /\ used' = [used EXCEPT ![ver[v].stored.by] = @ + 1]
    /\ UNCHANGED <<code, disturbed, wrong, free, lax>>
FindsWrong(v) ==
    /\ ver[v].pc = "ttl"
    /\ \/ /\ ver'[v].pc = "burn" /\ ver'[v].stored = ver[v].stored
          /\ Exhausted(ver[v].stored)
       \/ /\ ver'[v].pc = "count" /\ ver'[v].stored = ver[v].stored
          /\ ~Exhausted(ver[v].stored)
          /\ ver'[v].ttl = Left(v) /\ Left(v) > 0
       \/ ver'[v].pc = "done" /\ Gone(v)
    /\ wrong' = [wrong EXCEPT ![ver[v].stored.by] = @ + 1]
    /\ UNCHANGED <<code, disturbed, free, used, lax>>

Deals(v) ==
    /\ ver[v].pc \in {"consume", "burn", "count"}
    /\ ver'[v].pc \in {"upsert", "done"}
    /\ \/ /\ ver[v].pc # "count" /\ Store(ver[v].phone, NoCode, {ver[v].stored.by})
          /\ UNCHANGED lax
       \/ /\ ver[v].pc = "count" /\ Store(ver[v].phone, Counted(v), {ver[v].stored.by})
          /\ UNCHANGED lax
       \/ ver[v].stored.by \in lax' /\ UNCHANGED <<code, disturbed>>
    /\ UNCHANGED <<wrong, free, used>>

\* The call ends: a wrong guess that is not charged is one of these.
Spares(v) ==
    /\ ver[v].pc = "ttl" /\ ~Gone(v) /\ Left(v) = 0
    /\ \A r \in Requests \ {ver[v].stored.by} : free'[r] = free[r]
Ends(v) ==
    /\ ver[v].pc \in {"idle", "ttl", "upsert"} /\ ver'[v].pc = "done"
    /\ UNCHANGED free \/ Spares(v)
    /\ UNCHANGED <<code, disturbed, wrong, used, lax>>

\* What is left by a division is less than the divisor.
LEMMA Remainder ==
    ASSUME NEW m \in Nat, NEW s \in Nat \ {0}
    PROVE  m \div s \in Nat /\ m < (m \div s) * s + s
OBVIOUS

\* A tally goes up by one, or stays.
LEMMA TallyUp ==
    ASSUME NEW f \in [Requests -> Nat], NEW r \in Requests
    PROVE  /\ [f EXCEPT ![r] = @ + 1] \in [Requests -> Nat]
           /\ \A q \in Requests \ {r} : [f EXCEPT ![r] = @ + 1][q] = f[q]
OBVIOUS

LEMMA TallyStays ==
    ASSUME NEW f \in [Requests -> Nat], NEW r \in Requests, NEW happens, ~happens
    PROVE  Tally(f, r, happens) = f
BY DEF Tally

\* Rounding to whole seconds costs half a second at most.
LEMMA RoundedBound ==
    ASSUME NEW n \in Nat
    PROVE  /\ HalfSecond \in Nat /\ Rounded(n) \in Nat
           /\ n <= Rounded(n) + HalfSecond
<1>1. Second \in Nat \ {0}
    BY ConstantsAssumption
<1>2. /\ HalfSecond \in Nat /\ Second <= 2 * HalfSecond + 1
    BY <1>1 DEF HalfSecond
<1> DEFINE m == n + HalfSecond
           q == m \div Second
<1>3. m \in Nat
    BY <1>2
<1>4. q \in Nat /\ m < q * Second + Second
    BY <1>1, <1>3, Remainder
<1>5. q * Second \in Nat
    BY <1>1, <1>4
<1>6. Rounded(n) = q * Second
    BY DEF Rounded
<1> HIDE DEF q
<1> QED
    BY <1>1, <1>2, <1>4, <1>5, <1>6

\* The TTL that VerifyCode reads is the rest of the lifetime of what is
\* stored, but for half a second.
LEMMA LeftType ==
    ASSUME Base, NEW v \in Verifies
    PROVE  /\ Left(v) \in Nat
           /\ code[ver[v].phone] # NoCode =>
                 code[ver[v].phone].until <= now + Left(v) + HalfSecond
<1>1. ver[v].phone \in Phones /\ now \in Nat
    BY DEF Base, TypeOK
<1>2. code[ver[v].phone] \in LoginCode \cup {NoCode}
    BY <1>1 DEF Base, TypeOK
<1>3. CASE code[ver[v].phone] = NoCode
    BY <1>3 DEF Left
<1>4. CASE code[ver[v].phone] # NoCode
    <2>1. code[ver[v].phone].until \in Nat /\ now < code[ver[v].phone].until
        BY <1>1, <1>2, <1>4 DEF Base, LiveInv, LoginCode
    <2> DEFINE n == code[ver[v].phone].until - now
    <2>2. n \in Nat /\ code[ver[v].phone].until = now + n
        BY <1>1, <2>1
    <2>3. Left(v) = Rounded(n)
        BY <1>4 DEF Left
    <2> HIDE DEF n
    <2>4. /\ HalfSecond \in Nat /\ Rounded(n) \in Nat /\ n <= Rounded(n) + HalfSecond
        BY <2>2, RoundedBound
    <2> QED
        BY <1>1, <2>2, <2>3, <2>4
<1> QED
    BY <1>3, <1>4

\* A code with one attempt more, as long as that is not the last.
LEMMA OneMore ==
    ASSUME NEW c \in LoginCode, NEW t \in Nat, c.attempts + 1 \in 0 .. MaxAttempts - 1
    PROVE  LET d == [c EXCEPT !.attempts = @ + 1, !.until = t]
           IN  d \in LoginCode /\ d.by = c.by /\ d.attempts = c.attempts + 1 /\ d.until = t
BY DEF LoginCode

\* What VerifyCode writes back after a wrong guess is a code again: Exhausted
\* was false, and the lifetime it read was not over.
LEMMA CountedType ==
    ASSUME Base, NEW v \in Verifies, ver[v].pc = "count"
    PROVE  /\ Counted(v) \in LoginCode
           /\ Counted(v).by = ver[v].stored.by
           /\ Counted(v).attempts = ver[v].stored.attempts + 1
           /\ Counted(v).until = now + ver[v].ttl
           /\ now < Counted(v).until
<1>1. ver[v].stored \in LoginCode /\ ver[v].ttl \in Nat /\ ver[v].ttl > 0 /\ now \in Nat
    BY DEF Base, TypeOK, HeldInv, Holding
<1>2. ver[v].stored.attempts + 1 < MaxAttempts
    BY <1>1, ConstantsAssumption DEF Base, HeldInv, Exhausted, LoginCode
<1>3. ver[v].stored.by \in Requests /\ ver[v].stored.attempts \in Nat /\ ver[v].stored.until \in Nat
    BY <1>1, ConstantsAssumption DEF LoginCode
<1>4. ver[v].stored.attempts + 1 \in 0 .. MaxAttempts - 1
    BY <1>2, <1>3, ConstantsAssumption
<1>5. now + ver[v].ttl \in Nat /\ now < now + ver[v].ttl
    BY <1>1
<1> QED
    BY <1>1, <1>4, <1>5, OneMore DEF Counted

\* Every step of VerifyCode, failures included, is one of these.
LEMMA VerifyMoves ==
    ASSUME Base, NEW v \in Verifies, VerifyCode(v)
    PROVE  /\ VerMoves(v)
           /\ Reads(v) \/ FindsRight(v) \/ FindsWrong(v) \/ Deals(v) \/ Ends(v)
<1>0. /\ ver \in [Verifies -> VerRecs] /\ code \in [Phones -> LoginCode \cup {NoCode}]
      /\ ver[v] \in VerRecs /\ lax \subseteq Requests /\ disturbed \subseteq Requests
      /\ faults \in 0 .. MaxFaults /\ MaxFaults \in Nat
      /\ free \in [Requests -> Nat] /\ wrong \in [Requests -> Nat] /\ used \in [Requests -> Nat]
    BY ConstantsAssumption DEF Base, TypeOK, VerRecs
<1>1. ver[v].phone \in Phones /\ code[ver[v].phone] \in LoginCode \cup {NoCode}
    BY <1>0 DEF VerRecs
<1>2. ver[v].pc \in Holding => ver[v].stored \in LoginCode /\ ver[v].stored.by \in Requests
    BY <1>0 DEF Base, HeldInv, VerRecs, LoginCode
<1>3. Fault => faults' \in 0 .. MaxFaults
    BY <1>0 DEF Fault
<1>4. ASSUME EndVerify(v)
      PROVE  /\ ver' \in [Verifies -> VerRecs]
             /\ ver'[v].pc = "done" /\ ver'[v].phone = ver[v].phone
             /\ \A u \in Verifies \ {v} : ver'[u] = ver[u]
    BY <1>0, <1>4, EndEffect
<1>5. ASSUME NEW pc \in VerPC, VerAt(v, pc)
      PROVE  /\ ver' \in [Verifies -> VerRecs]
             /\ ver'[v].pc = pc /\ ver'[v].phone = ver[v].phone /\ ver'[v].stored = ver[v].stored
             /\ \A u \in Verifies \ {v} : ver'[u] = ver[u]
    <2>1. /\ ver' \in [Verifies -> VerRecs]
          /\ ver'[v] = [ver[v] EXCEPT !.pc = pc]
          /\ \A u \in Verifies \ {v} : ver'[u] = ver[u]
        BY <1>0, <1>5, VerAtEffect
    <2> QED
        BY <1>0, <2>1 DEF VerRecs
<1>6. CASE ReadCode(v)
    <2>1. CASE code[ver[v].phone] = NoCode
        <3>1. ver[v].pc = "idle" /\ EndVerify(v)
              /\ UNCHANGED <<now, code, window, req, faults, wrong, free, used, disturbed, lax>>
            BY <1>6, <2>1 DEF ReadCode
        <3> QED
            BY <1>0, <1>4, <3>1 DEF VerMoves, Ends
    <2>2. CASE code[ver[v].phone] # NoCode
        <3>1. PICK g \in {code[ver[v].phone].by, Wrong} :
                  ver' = [ver EXCEPT ![v].pc = "ttl", ![v].guess = g,
                                     ![v].stored = code[ver[v].phone]]
            BY <1>6, <2>2 DEF ReadCode
        <3>2. /\ ver[v].pc = "idle"
              /\ lax' = IF Holders(code[ver[v].phone]) = {} THEN lax
                        ELSE lax \cup {code[ver[v].phone].by}
              /\ UNCHANGED <<now, code, window, req, faults, wrong, free, used, disturbed>>
            BY <1>6, <2>2 DEF ReadCode
        <3>3. g \in Guesses
            BY <1>1, <2>2 DEF Guesses, LoginCode
        <3> DEFINE rec == [ver[v] EXCEPT !.pc = "ttl", !.guess = g, !.stored = code[ver[v].phone]]
        <3>4. /\ rec \in VerRecs /\ rec.pc = "ttl" /\ rec.stored = code[ver[v].phone]
              /\ rec.phone = ver[v].phone
            BY <1>0, <1>1, <3>3 DEF VerRecs, VerPC
        <3>5. ver' = [ver EXCEPT ![v] = rec]
            BY <1>0, <3>1
        <3> HIDE DEF rec
        <3>6. /\ ver' \in [Verifies -> VerRecs] /\ ver'[v] = rec
              /\ \A u \in Verifies \ {v} : ver'[u] = ver[u]
            BY <1>0, <3>4, <3>5, VerUpdate
        <3>7. code[ver[v].phone].by \in Requests
            BY <1>1, <2>2 DEF LoginCode
        <3>8. lax \subseteq lax' /\ lax' \subseteq Requests
            BY <1>0, <3>2, <3>7
        <3> QED
            BY <1>0, <2>2, <3>2, <3>4, <3>6, <3>8 DEF VerMoves, Reads
    <2> QED
        BY <2>1, <2>2
<1>7. CASE Compare(v)
    <2> DEFINE c == ver[v].stored
               next == IF ver[v].guess = c.by THEN "consume"
                       ELSE IF Exhausted(c) THEN "burn"
                       ELSE IF Left(v) > 0 THEN "count" ELSE "done"
               spared == next = "done" /\ ~Gone(v)
    <2>1. /\ ver[v].pc = "ttl"
          /\ IF next = "done" THEN EndVerify(v)
             ELSE ver' = [ver EXCEPT ![v].pc = next, ![v].ttl = Left(v)]
          /\ used' = Tally(used, c.by, next = "consume")
          /\ free' = Tally(free, c.by, spared)
          /\ wrong' = Tally(wrong, c.by, next # "consume" /\ ~spared)
          /\ UNCHANGED <<now, code, window, req, faults, lax, disturbed>>
        BY <1>7 DEF Compare, Left, Gone
    <2>2. next \in VerPC /\ next \in {"consume", "burn", "count", "done"}
        BY DEF VerPC
    <2>3. /\ next = "burn" => Exhausted(c)
          /\ next = "count" => ~Exhausted(c) /\ Left(v) > 0
          /\ next = "done" => Left(v) = 0
        BY LeftType
    <2>4. c.by \in Requests
        BY <1>2, <2>1 DEF Holding
    <2> HIDE DEF next
    <2>5. /\ free' \in [Requests -> Nat]
          /\ \A r \in Requests \ {c.by} : free'[r] = free[r]
          /\ ~spared => free' = free
        <3>1. CASE spared
            <4>1. free' = [free EXCEPT ![c.by] = @ + 1]
                BY <2>1, <3>1 DEF Tally
            <4> QED
                BY <1>0, <2>4, <3>1, <4>1, TallyUp
        <3>2. CASE ~spared
            BY <1>0, <2>1, <2>4, <3>2, TallyStays
        <3> QED
            BY <3>1, <3>2
    <2>6. /\ next # "consume" => used' = used
          /\ next = "consume" => used' = [used EXCEPT ![c.by] = @ + 1]
        <3>1. CASE next = "consume"
            BY <2>1, <3>1 DEF Tally
        <3>2. CASE next # "consume"
            BY <1>0, <2>1, <2>4, <3>2, TallyStays
        <3> QED
            BY <3>1, <3>2
    <2>7. /\ next = "consume" \/ spared => wrong' = wrong
          /\ ~(next = "consume" \/ spared) => wrong' = [wrong EXCEPT ![c.by] = @ + 1]
        <3>1. CASE next # "consume" /\ ~spared
            BY <2>1, <3>1 DEF Tally
        <3>2. CASE ~(next # "consume" /\ ~spared)
            BY <1>0, <2>1, <2>4, <3>2, TallyStays
        <3> QED
            BY <3>1, <3>2
    <2>8. CASE next = "done"
        <3>1. /\ VerMoves(v) /\ ver'[v].pc = "done"
            BY <1>0, <1>4, <2>1, <2>5, <2>8 DEF VerMoves
        <3>2. CASE spared
            <4>1. Spares(v)
                BY <2>1, <2>3, <2>5, <2>8, <3>2 DEF Spares
            <4>2. used' = used /\ wrong' = wrong
                BY <2>6, <2>7, <2>8, <3>2
            <4> QED
                BY <2>1, <3>1, <4>1, <4>2 DEF Ends
        <3>3. CASE ~spared
            BY <2>1, <2>5, <2>6, <2>7, <2>8, <3>1, <3>3 DEF FindsWrong
        <3> QED
            BY <3>1, <3>2, <3>3
    <2>9. CASE next # "done"
        <3> DEFINE rec == [ver[v] EXCEPT !.pc = next, !.ttl = Left(v)]
        <3>1. /\ rec \in VerRecs /\ rec.pc = next /\ rec.stored = c /\ rec.ttl = Left(v)
              /\ rec.phone = ver[v].phone
            BY <1>0, <2>2, LeftType DEF VerRecs
        <3>2. ver' = [ver EXCEPT ![v] = rec]
            BY <1>0, <2>1, <2>9
        <3> HIDE DEF rec
        <3>3. /\ ver' \in [Verifies -> VerRecs] /\ ver'[v] = rec
              /\ \A u \in Verifies \ {v} : ver'[u] = ver[u]
            BY <1>0, <3>1, <3>2, VerUpdate
        <3>4. VerMoves(v)
            BY <1>0, <2>1, <2>5, <3>1, <3>3 DEF VerMoves
        <3>5. free' = free
            BY <2>5, <2>9
        <3>6. FindsRight(v) \/ FindsWrong(v)
            BY <2>1, <2>2, <2>3, <2>6, <2>7, <2>9, <3>1, <3>3, <3>5 DEF FindsRight, FindsWrong
        <3> QED
            BY <3>4, <3>6
    <2> QED
        BY <2>8, <2>9
<1>8. Skipped(v) /\ ver[v].pc \in Holding =>
          /\ faults' \in 0 .. MaxFaults /\ lax \subseteq lax' /\ lax' \subseteq Requests
          /\ ver[v].stored.by \in lax' /\ UNCHANGED <<code, disturbed>>
    BY <1>0, <1>2, <1>3 DEF Skipped
<1>9. CASE Consume(v)
    <2>1. /\ ver[v].pc = "consume" /\ VerAt(v, "upsert")
          /\ UNCHANGED <<now, window, req, wrong, free, used>>
        BY <1>9 DEF Consume
    <2>2. \/ /\ Store(ver[v].phone, NoCode, {ver[v].stored.by})
             /\ UNCHANGED <<faults, lax>>
          \/ Skipped(v)
        BY <1>9 DEF Consume
    <2>3. "upsert" \in VerPC
        BY DEF VerPC
    <2> QED
        BY <1>0, <1>5, <1>8, <2>1, <2>2, <2>3 DEF VerMoves, Deals, Holding
<1>10. CASE Burn(v)
    <2>1. /\ ver[v].pc = "burn" /\ EndVerify(v)
          /\ UNCHANGED <<now, window, req, wrong, free, used>>
        BY <1>10 DEF Burn
    <2>2. \/ /\ Store(ver[v].phone, NoCode, {ver[v].stored.by})
             /\ UNCHANGED <<faults, lax>>
          \/ Skipped(v)
        BY <1>10 DEF Burn
    <2> QED
        BY <1>0, <1>4, <1>8, <2>1, <2>2 DEF VerMoves, Deals, Holding
<1>11. CASE Count(v)
    <2>1. /\ ver[v].pc = "count" /\ EndVerify(v)
          /\ UNCHANGED <<now, window, req, wrong, free, used>>
        BY <1>11 DEF Count
    <2>2. \/ /\ Store(ver[v].phone, Counted(v), {ver[v].stored.by})
             /\ UNCHANGED <<faults, lax>>
          \/ Skipped(v)
        BY <1>11 DEF Count
    <2> QED
        BY <1>0, <1>4, <1>8, <2>1, <2>2 DEF VerMoves, Deals, Holding
<1>12. CASE SignedIn(v)
    BY <1>0, <1>4, <1>12 DEF SignedIn, VerMoves, Ends
<1>13. CASE VerifyFails(v)
    BY <1>0, <1>3, <1>4, <1>13 DEF VerifyFails, VerMoves, Ends
<1> QED
    BY <1>6, <1>7, <1>9, <1>10, <1>11, <1>12, <1>13 DEF VerifyCode

\* Time passes: what has expired is gone, the rest stands.
LEMMA TickEffect ==
    ASSUME TypeOK, Tick
    PROVE  /\ now' \in Nat /\ now' = now + 1
           /\ code' \in [Phones -> LoginCode \cup {NoCode}]
           /\ \A p \in Phones :
                 /\ code'[p] # NoCode => code'[p] = code[p] /\ now' < code[p].until
                 /\ code[p] # NoCode /\ now' < code[p].until => code'[p] = code[p]
           /\ window' \in [Keys -> [n : Nat, until : Nat]]
           /\ \A k \in Keys : IF window[k].until <= now' THEN window'[k] = Unused
                              ELSE window'[k] = window[k]
           /\ UNCHANGED <<req, ver, faults, wrong, free, used, lax, disturbed>>
<1>1. /\ now' \in Nat /\ now' = now + 1
      /\ UNCHANGED <<req, ver, faults, wrong, free, used, lax, disturbed>>
    BY DEF Tick, TypeOK
<1>2. \A p \in Phones :
          code'[p] = IF code[p] # NoCode /\ code[p].until <= now' THEN NoCode ELSE code[p]
    BY DEF Tick
<1>3. code' \in [Phones -> LoginCode \cup {NoCode}]
    <2>1. code' = [p \in Phones |-> IF code[p] # NoCode /\ code[p].until <= now'
                                    THEN NoCode ELSE code[p]]
        BY DEF Tick
    <2> QED
        BY <2>1 DEF TypeOK
<1>4. \A p \in Phones : code[p] # NoCode => code[p].until \in Nat
    BY DEF TypeOK, LoginCode
<1>5. \A p \in Phones :
          /\ code'[p] # NoCode => code'[p] = code[p] /\ now' < code[p].until
          /\ code[p] # NoCode /\ now' < code[p].until => code'[p] = code[p]
    BY <1>1, <1>2, <1>4
<1>6. \A k \in Keys : window'[k] = IF window[k].until <= now' THEN Unused ELSE window[k]
    BY DEF Tick
<1>7. window' \in [Keys -> [n : Nat, until : Nat]]
    <2>1. window' = [k \in Keys |-> IF window[k].until <= now' THEN Unused ELSE window[k]]
        BY DEF Tick
    <2> QED
        BY <2>1 DEF TypeOK, Unused
<1> QED
    BY <1>1, <1>3, <1>5, <1>6, <1>7

\* What RequestCode saves is a code that lives.
LEMMA NewCodeType ==
    ASSUME NEW r \in Requests, now \in Nat
    PROVE  /\ NewCode(r) \in LoginCode /\ now < NewCode(r).until
           /\ NewCode(r).by = r /\ NewCode(r).attempts = 0
           /\ NewCode(r).until = now + CodeTTL
<1>1. 0 \in 0 .. MaxAttempts - 1 /\ now + CodeTTL \in Nat /\ now < now + CodeTTL
    BY ConstantsAssumption
<1> QED
    BY <1>1 DEF NewCode, LoginCode

\* A write of a phone's key leaves nothing that has expired.
LEMMA StoreLive ==
    ASSUME TypeOK, LiveInv, NEW p \in Phones, NEW c \in LoginCode \cup {NoCode}, NEW mine,
           Store(p, c, mine), c # NoCode => now < c.until, now' = now
    PROVE  /\ code' \in [Phones -> LoginCode \cup {NoCode}]
           /\ disturbed' \subseteq Requests
           /\ LiveInv'
<1>1. /\ code' \in [Phones -> LoginCode \cup {NoCode}]
      /\ disturbed' \subseteq Requests
      /\ code'[p] = c
      /\ \A k \in Phones \ {p} : code'[k] = code[k]
    BY StoreEffect DEF TypeOK
<1> QED
    BY <1>1 DEF LiveInv

\* A step keeps the types, and what the calls hold is a code.
LEMMA BaseStep == Base /\ [Next]_vars => Base'
<1> SUFFICES ASSUME Base, [Next]_vars PROVE Base'
    OBVIOUS
<1>0. TypeOK /\ HeldInv /\ LiveInv
    BY DEF Base
<1>1. ASSUME NEW r \in Requests, RequestCode(r) PROVE Base'
    <2>1. ReqMoves(r) /\ Moves(r)
        BY <1>0, <1>1, RequestMoves
    <2>2. now \in Nat /\ req[r].phone \in Phones /\ now' = now /\ ver' = ver
        BY <1>0, <2>1 DEF TypeOK, ReqMoves
    <2>3. /\ code' \in [Phones -> LoginCode \cup {NoCode}]
          /\ disturbed' \subseteq Requests /\ LiveInv'
        <3>1. CASE UNCHANGED <<code, disturbed>>
            BY <1>0, <2>2, <3>1 DEF TypeOK, LiveInv
        <3>2. CASE Store(req[r].phone, NewCode(r), Older(r))
            BY <1>0, <2>2, <3>2, NewCodeType, StoreLive
        <3>3. CASE Store(req[r].phone, NoCode, {r})
            BY <1>0, <2>2, <3>3, StoreLive
        <3> QED
            BY <2>1, <3>1, <3>2, <3>3 DEF Moves
    <2>4. TypeOK'
        BY <1>0, <2>1, <2>3 DEF TypeOK, ReqMoves, ReqRecs
    <2>5. HeldInv'
        BY <1>0, <2>2 DEF HeldInv, Exhausted
    <2> QED
        BY <2>3, <2>4, <2>5 DEF Base
<1>2. ASSUME NEW v \in Verifies, VerifyCode(v) PROVE Base'
    <2>1. VerMoves(v) /\ (Reads(v) \/ FindsRight(v) \/ FindsWrong(v) \/ Deals(v) \/ Ends(v))
        BY <1>2, VerifyMoves
    <2>2. now \in Nat /\ ver[v].phone \in Phones /\ now' = now /\ MaxAttempts \in Nat
        BY <1>0, <2>1, ConstantsAssumption DEF TypeOK, VerMoves
    <2>3. /\ code' \in [Phones -> LoginCode \cup {NoCode}]
          /\ disturbed' \subseteq Requests /\ LiveInv'
        <3>1. CASE UNCHANGED <<code, disturbed>>
            BY <1>0, <2>2, <3>1 DEF TypeOK, LiveInv
        <3>2. CASE Store(ver[v].phone, NoCode, {ver[v].stored.by})
            BY <1>0, <2>2, <3>2, StoreLive
        <3>3. CASE ver[v].pc = "count" /\ Store(ver[v].phone, Counted(v), {ver[v].stored.by})
            BY <1>0, <2>2, <3>3, CountedType, StoreLive
        <3> QED
            BY <2>1, <3>1, <3>2, <3>3 DEF Reads, FindsRight, FindsWrong, Deals, Ends
    <2>4. wrong' \in [Requests -> Nat] /\ used' \in [Requests -> Nat]
        BY <1>0, <2>1 DEF TypeOK, Reads, FindsRight, FindsWrong, Deals, Ends
    <2>5. TypeOK'
        BY <1>0, <2>1, <2>2, <2>3, <2>4 DEF TypeOK, VerMoves, VerRecs
    <2>6. HeldInv'
        <3>1. /\ ver'[v].pc \in Holding => ver'[v].stored # NoCode
              /\ ver'[v].pc = "count" => ver'[v].ttl > 0 /\ ~Exhausted(ver'[v].stored)
            <4>1. CASE Reads(v)
                BY <4>1 DEF Reads
            <4>2. CASE FindsRight(v)
                BY <1>0, <4>2 DEF FindsRight, HeldInv, Holding
            <4>3. CASE FindsWrong(v)
                BY <1>0, <4>3 DEF FindsWrong, HeldInv, Holding
            <4>4. CASE Deals(v) \/ Ends(v)
                BY <4>4 DEF Deals, Ends, Holding
            <4> QED
                BY <2>1, <4>1, <4>2, <4>3, <4>4
        <3>2. \A u \in Verifies \ {v} : ver'[u] = ver[u]
            BY <2>1 DEF VerMoves
        <3> QED
            BY <1>0, <3>1, <3>2 DEF HeldInv, Exhausted
    <2> QED
        BY <2>3, <2>5, <2>6 DEF Base
<1>3. CASE Tick
    <2>1. TypeOK' /\ LiveInv'
        BY <1>0, <1>3, TickEffect DEF TypeOK, LiveInv
    <2>2. HeldInv'
        BY <1>0, <1>3, TickEffect DEF HeldInv, Exhausted
    <2> QED
        BY <2>1, <2>2 DEF Base
<1>4. CASE UNCHANGED vars
    <2>1. TypeOK' /\ LiveInv'
        BY <1>0, <1>4 DEF TypeOK, LiveInv, vars
    <2>2. HeldInv'
        BY <1>0, <1>4 DEF HeldInv, Exhausted, vars
    <2> QED
        BY <2>1, <2>2 DEF Base
<1> QED
    BY <1>1, <1>2, <1>3, <1>4 DEF Next

\* Types, held codes and lifetimes are right in every reachable state.
LEMMA BaseCorrect == Spec => []Base
<1>1. Init => Base
    BY InitType DEF Init, Base, HeldInv, LiveInv, Holding
<1> QED
    BY <1>1, BaseStep, PTL DEF Spec

\* Type correctness: a counter that is written back has room for its attempt,
\* and no key is written with a lifetime that is over.
THEOREM TypeCorrect == Spec => []TypeOK
<1>1. Base => TypeOK
    BY DEF Base
<1> QED
    BY <1>1, BaseCorrect, PTL

----------------------------------------------------------------------------
(* Where a code comes from.                                                *)

\* The request that drew a code has saved it under its phone, and nobody
\* guesses at a code before that.
Unsaved == {"idle", "hour", "ip", "save", "refused"}
SavedBy(r, p) == req[r].phone = p /\ req[r].pc \notin Unsaved
OriginInv ==
    /\ \A p \in Phones : code[p] # NoCode => SavedBy(code[p].by, p)
    /\ \A v \in Verifies : ver[v].pc \in Holding => SavedBy(ver[v].stored.by, ver[v].phone)
    /\ \A r \in Requests : req[r].pc \in Unsaved => wrong[r] = 0 /\ free[r] = 0 /\ used[r] = 0

\* The code that a step is about.
LEMMA Held ==
    ASSUME Base, NEW v \in Verifies, ver[v].pc \in Holding
    PROVE  /\ ver[v].stored \in LoginCode /\ ver[v].stored.by \in Requests
           /\ ver[v].stored.attempts \in Nat /\ ver[v].stored.attempts + 1 <= MaxAttempts
           /\ ver[v].phone \in Phones
<1>1. ver[v].stored \in LoginCode /\ ver[v].phone \in Phones
    BY DEF Base, HeldInv, TypeOK
<1> QED
    BY <1>1, ConstantsAssumption DEF LoginCode

\* The code that a phone's key holds.
LEMMA Kept ==
    ASSUME Base, NEW p \in Phones, code[p] # NoCode
    PROVE  /\ code[p] \in LoginCode /\ code[p].by \in Requests
           /\ code[p].attempts \in Nat /\ code[p].attempts + 1 <= MaxAttempts
           /\ code[p].until \in Nat
<1>1. code[p] \in LoginCode
    BY DEF Base, TypeOK
<1> QED
    BY <1>1, ConstantsAssumption DEF LoginCode

\* The guess is counted for the code it was compared with, and no other.
LEMMA Tallies ==
    ASSUME Base, NEW v \in Verifies
    PROVE  /\ FindsRight(v) =>
                 /\ used'[ver[v].stored.by] = used[ver[v].stored.by] + 1
                 /\ \A r \in Requests \ {ver[v].stored.by} : used'[r] = used[r]
           /\ FindsWrong(v) =>
                 /\ wrong'[ver[v].stored.by] = wrong[ver[v].stored.by] + 1
                 /\ \A r \in Requests \ {ver[v].stored.by} : wrong'[r] = wrong[r]
<1>1. ver[v].pc = "ttl" => ver[v].stored.by \in Requests
    BY Held DEF Holding
<1> QED
    BY <1>1 DEF Base, TypeOK, FindsRight, FindsWrong

\* A request that has saved its code has saved it for good.
LEMMA SavedStays ==
    ASSUME Base, NEW r \in Requests, ReqMoves(r), Moves(r)
    PROVE  /\ \A q \in Requests, p \in Phones : SavedBy(q, p) => SavedBy(q, p)'
           /\ \A q \in Requests : req'[q].pc \in Unsaved => req[q].pc \in Unsaved
<1>1. req[r].pc \notin Unsaved => req'[r].pc \notin Unsaved
    BY DEF Moves, Early, Unsaved
<1> QED
    BY <1>1 DEF ReqMoves, SavedBy

\* A step keeps codes with the requests they come from.
LEMMA OriginStep == Base /\ OriginInv /\ [Next]_vars => OriginInv'
<1> SUFFICES ASSUME Base, OriginInv, [Next]_vars PROVE OriginInv'
    OBVIOUS
<1>0. TypeOK
    BY DEF Base
<1>s. /\ code \in [Phones -> LoginCode \cup {NoCode}] /\ disturbed \subseteq Requests
      /\ NoCode \in LoginCode \cup {NoCode}
    BY <1>0 DEF TypeOK
<1>1. ASSUME NEW r \in Requests, RequestCode(r) PROVE OriginInv'
    <2>1. ReqMoves(r) /\ Moves(r)
        BY <1>0, <1>1, RequestMoves
    <2>2. /\ \A q \in Requests, p \in Phones : SavedBy(q, p) => SavedBy(q, p)'
          /\ \A q \in Requests : req'[q].pc \in Unsaved => req[q].pc \in Unsaved
        BY <2>1, SavedStays
    <2>3. req[r].phone \in Phones /\ req'[r].phone = req[r].phone
          /\ UNCHANGED <<ver, wrong, free, used>> /\ now \in Nat
        BY <1>0, <2>1 DEF TypeOK, ReqMoves
    <2>4. \A p \in Phones : code'[p] # NoCode => SavedBy(code[p].by, p)'
        <3> SUFFICES ASSUME NEW p \in Phones, code'[p] # NoCode
                     PROVE  req'[code'[p].by].phone = p /\ req'[code'[p].by].pc \notin Unsaved
            BY DEF SavedBy
        <3>1. code[p] # NoCode => SavedBy(code[p].by, p) /\ code[p].by \in Requests
            BY Kept DEF OriginInv
        <3>2. CASE code'[p] = code[p]
            <4>1. code[p].by \in Requests /\ SavedBy(code[p].by, p)'
                BY <2>2, <3>1, <3>2
            <4> QED
                BY <3>2, <4>1 DEF SavedBy
        <3>3. CASE code'[p] # code[p]
            <4>1. CASE Store(req[r].phone, NewCode(r), Older(r))
                <5>1. code'[req[r].phone] = NewCode(r) /\ \A k \in Phones \ {req[r].phone} : code'[k] = code[k]
                    BY <1>s, <2>3, <4>1, NewCodeType, StoreEffect
                <5>2. p = req[r].phone /\ code'[p].by = r
                    BY <2>3, <3>3, <5>1, NewCodeType
                <5>3. req[r].pc = "save" /\ req'[r].pc \in {"sms", "failed"}
                    BY <2>1, <3>3, <4>1, <5>1, NewCodeType DEF Moves, Early, Store
                <5> QED
                    BY <2>3, <5>2, <5>3 DEF SavedBy, Unsaved
            <4>2. CASE Store(req[r].phone, NoCode, {r})
                <5>1. code'[req[r].phone] = NoCode /\ \A k \in Phones \ {req[r].phone} : code'[k] = code[k]
                    BY <1>s, <2>3, <4>2, StoreEffect
                <5> QED
                    BY <3>3, <5>1
            <4> QED
                BY <2>1, <3>3, <4>1, <4>2 DEF Moves
        <3> QED
            BY <3>2, <3>3
    <2>5. \A v \in Verifies : ver'[v].pc \in Holding => SavedBy(ver[v].stored.by, ver[v].phone)'
        BY <2>2, <2>3, Held DEF OriginInv
    <2>6. \A q \in Requests :
              req'[q].pc \in Unsaved => wrong'[q] = 0 /\ free'[q] = 0 /\ used'[q] = 0
        BY <2>2, <2>3 DEF OriginInv
    <2> QED
        BY <2>4, <2>5, <2>6 DEF OriginInv
<1>2. ASSUME NEW v \in Verifies, VerifyCode(v) PROVE OriginInv'
    <2>1. VerMoves(v) /\ (Reads(v) \/ FindsRight(v) \/ FindsWrong(v) \/ Deals(v) \/ Ends(v))
        BY <1>2, VerifyMoves
    <2>2. UNCHANGED req /\ ver'[v].phone = ver[v].phone /\ ver[v].phone \in Phones /\ now' = now
        BY <1>0, <2>1 DEF TypeOK, VerMoves
    <2>3. \A p \in Phones : code'[p] # NoCode => SavedBy(code'[p].by, p)
        <3>1. CASE UNCHANGED <<code, disturbed>>
            BY <3>1 DEF OriginInv
        <3>2. CASE Store(ver[v].phone, NoCode, {ver[v].stored.by})
            <4>1. code'[ver[v].phone] = NoCode /\ \A k \in Phones \ {ver[v].phone} : code'[k] = code[k]
                BY <1>s, <2>2, <3>2, StoreEffect
            <4> QED
                BY <4>1 DEF OriginInv
        <3>3. CASE ver[v].pc = "count" /\ Store(ver[v].phone, Counted(v), {ver[v].stored.by})
            <4>1. code'[ver[v].phone] = Counted(v) /\ \A k \in Phones \ {ver[v].phone} : code'[k] = code[k]
                BY <1>s, <2>2, <3>3, CountedType, StoreEffect
            <4>2. SavedBy(ver[v].stored.by, ver[v].phone)
                BY <3>3 DEF OriginInv, Holding
            <4> QED
                BY <3>3, <4>1, <4>2, CountedType DEF OriginInv
        <3> QED
            BY <2>1, <3>1, <3>2, <3>3 DEF Reads, FindsRight, FindsWrong, Deals, Ends
    <2>4. \A u \in Verifies : ver'[u].pc \in Holding => SavedBy(ver'[u].stored.by, ver'[u].phone)
        <3>1. ver'[v].pc \in Holding => SavedBy(ver'[v].stored.by, ver[v].phone)
            <4>1. CASE Reads(v)
                BY <2>2, <4>1 DEF Reads, OriginInv
            <4>2. CASE FindsRight(v)
                BY <4>2 DEF FindsRight, OriginInv, Holding
            <4>3. CASE FindsWrong(v)
                BY <4>3 DEF FindsWrong, OriginInv, Holding
            <4>4. CASE Deals(v) \/ Ends(v)
                BY <4>4 DEF Deals, Ends, Holding
            <4> QED
                BY <2>1, <4>1, <4>2, <4>3, <4>4
        <3>2. \A u \in Verifies \ {v} : ver'[u] = ver[u]
            BY <2>1 DEF VerMoves
        <3> QED
            BY <2>2, <3>1, <3>2 DEF OriginInv
    <2>5. \A r \in Requests :
              req[r].pc \in Unsaved => wrong'[r] = 0 /\ free'[r] = 0 /\ used'[r] = 0
        <3> SUFFICES ASSUME NEW r \in Requests, req[r].pc \in Unsaved
                     PROVE  wrong'[r] = 0 /\ free'[r] = 0 /\ used'[r] = 0
            OBVIOUS
        <3>1. wrong[r] = 0 /\ free[r] = 0 /\ used[r] = 0
            BY DEF OriginInv
        <3>2. ver[v].pc = "ttl" => ver[v].stored.by # r
            BY DEF OriginInv, SavedBy, Holding
        <3>3. CASE FindsRight(v)
            BY <3>1, <3>2, <3>3, Tallies DEF FindsRight
        <3>4. CASE FindsWrong(v)
            BY <3>1, <3>2, <3>4, Tallies DEF FindsWrong
        <3>5. CASE Reads(v) \/ Deals(v)
            BY <3>1, <3>5 DEF Reads, Deals
        <3>6. CASE Ends(v)
            BY <3>1, <3>2, <3>6 DEF Ends, Spares
        <3> QED
            BY <2>1, <3>3, <3>4, <3>5, <3>6
    <2> QED
        BY <2>2, <2>3, <2>4, <2>5 DEF OriginInv, SavedBy
<1>3. CASE Tick
    <2>1. /\ \A p \in Phones : code'[p] # NoCode => code'[p] = code[p]
          /\ UNCHANGED <<req, ver, wrong, free, used>>
        BY <1>0, <1>3, TickEffect
    <2> QED
        BY <2>1 DEF OriginInv, SavedBy
<1>4. CASE UNCHANGED vars
    BY <1>4 DEF OriginInv, SavedBy, vars
<1> QED
    BY <1>1, <1>2, <1>3, <1>4 DEF Next

----------------------------------------------------------------------------
(* Guesses.                                                                *)

Holds(v, r) == ver[v].pc \in Holding /\ ver[v].stored.by = r
HasCode(p, r) == code[p] # NoCode /\ code[p].by = r

\* The counter of a code that calls did not overlap on is up to date, in the
\* store or in the hands of the one call that is about to write it.
CounterOK(r) ==
    /\ wrong[r] <= MaxAttempts /\ used[r] <= 1
    /\ \A u, v \in Verifies : Holds(u, r) /\ Holds(v, r) => u = v
    /\ \A p \in Phones : HasCode(p, r) =>
          \/ wrong[r] <= code[p].attempts /\ used[r] = 0
          \/ \E v \in Verifies : Holds(v, r) /\ ver[v].pc # "ttl"
    /\ \A v \in Verifies : Holds(v, r) =>
          /\ ver[v].pc = "ttl" => wrong[r] <= ver[v].stored.attempts /\ used[r] = 0
          /\ ver[v].pc = "count" => wrong[r] <= ver[v].stored.attempts + 1 /\ used[r] = 0
CounterInv == \A r \in Requests \ lax : CounterOK(r)

\* A step that only takes stored codes away, or that stores one nobody has
\* guessed at, keeps a counter up to date.
LEMMA CounterKept ==
    ASSUME Base, NEW r \in Requests, CounterOK(r),
           UNCHANGED <<ver, wrong, used>>,
           \A p \in Phones : HasCode(p, r)' =>
               code'[p] = code[p] \/ (code'[p].attempts = 0 /\ wrong[r] = 0 /\ used[r] = 0)
    PROVE  CounterOK(r)'
<1>1. MaxAttempts \in Nat /\ wrong[r] \in Nat /\ used[r] \in Nat
    BY ConstantsAssumption DEF Base, TypeOK
<1>2. \A u \in Verifies : Holds(u, r)' <=> Holds(u, r)
    BY DEF Holds
<1>3. \A p \in Phones : HasCode(p, r)' =>
          \/ wrong[r] <= code'[p].attempts /\ used[r] = 0
          \/ \E v \in Verifies : Holds(v, r) /\ ver[v].pc # "ttl"
    <2> SUFFICES ASSUME NEW p \in Phones, HasCode(p, r)'
                 PROVE  \/ wrong[r] <= code'[p].attempts /\ used[r] = 0
                        \/ \E v \in Verifies : Holds(v, r) /\ ver[v].pc # "ttl"
        OBVIOUS
    <2>1. CASE code'[p] = code[p]
        BY <2>1 DEF CounterOK, HasCode
    <2>2. CASE code'[p].attempts = 0 /\ wrong[r] = 0 /\ used[r] = 0
        BY <2>2
    <2> QED
        BY <2>1, <2>2
<1> QED
    BY <1>1, <1>2, <1>3 DEF CounterOK

\* A step of a call about another code changes nothing for this one.
LEMMA CounterOther ==
    ASSUME Base, NEW r \in Requests, CounterOK(r), NEW v \in Verifies,
           ~Holds(v, r), ~Holds(v, r)',
           \A u \in Verifies \ {v} : ver'[u] = ver[u],
           wrong'[r] = wrong[r], used'[r] = used[r],
           \A p \in Phones : HasCode(p, r)' => code'[p] = code[p]
    PROVE  CounterOK(r)'
<1>1. \A u \in Verifies : Holds(u, r)' <=> Holds(u, r)
    BY DEF Holds
<1>2. \A u \in Verifies : Holds(u, r) => ver'[u] = ver[u]
    OBVIOUS
<1>3. \A p \in Phones : HasCode(p, r)' => HasCode(p, r) /\ code'[p].attempts = code[p].attempts
    BY DEF HasCode
<1> QED
    BY <1>1, <1>2, <1>3 DEF CounterOK

\* What is left of the counter after the one call that holds the code.
LEMMA CounterOne ==
    ASSUME NEW r \in Requests, CounterOK(r), NEW v \in Verifies, Holds(v, r),
           \A u \in Verifies \ {v} : ver'[u] = ver[u]
    PROVE  /\ \A u \in Verifies : Holds(u, r) => u = v
           /\ \A u \in Verifies \ {v} : ~Holds(u, r)'
           /\ \A u, w \in Verifies : Holds(u, r)' /\ Holds(w, r)' => u = w
<1>1. \A u \in Verifies : Holds(u, r) => u = v
    BY DEF CounterOK
<1>2. \A u \in Verifies \ {v} : Holds(u, r)' <=> Holds(u, r)
    BY DEF Holds
<1> QED
    BY <1>1, <1>2

\* A step of VerifyCode keeps the counters of codes without overlaps.
LEMMA CounterVerify ==
    ASSUME Base, OriginInv, CounterInv, NEW v \in Verifies, VerMoves(v),
           Reads(v) \/ FindsRight(v) \/ FindsWrong(v) \/ Deals(v) \/ Ends(v),
           NEW r \in Requests, r \notin lax'
    PROVE  CounterOK(r)'
<1>0. /\ CounterOK(r) /\ MaxAttempts \in Nat \ {0} /\ wrong[r] \in Nat /\ used[r] \in Nat
      /\ ver[v].phone \in Phones
    BY ConstantsAssumption DEF CounterInv, VerMoves, Base, TypeOK
<1>1. \A u \in Verifies \ {v} : ver'[u] = ver[u]
    BY DEF VerMoves
<1>s. /\ code \in [Phones -> LoginCode \cup {NoCode}] /\ disturbed \subseteq Requests
      /\ NoCode \in LoginCode \cup {NoCode}
    BY DEF Base, TypeOK
<1>2. CASE Reads(v)
    <2>1. /\ code[ver[v].phone] # NoCode /\ ver[v].pc = "idle"
          /\ ver'[v].pc = "ttl" /\ ver'[v].stored = code[ver[v].phone]
          /\ UNCHANGED <<code, wrong, used>>
          /\ Holders(code[ver[v].phone]) # {} => code[ver[v].phone].by \in lax'
        BY <1>2 DEF Reads
    <2>2. ~Holds(v, r)
        BY <2>1 DEF Holds, Holding
    <2>3. CASE code[ver[v].phone].by # r
        <3>1. ~Holds(v, r)'
            BY <2>1, <2>3 DEF Holds
        <3> QED
            BY <1>0, <1>1, <2>1, <2>2, <3>1, CounterOther
    <2>4. CASE code[ver[v].phone].by = r
        <3>1. \A u \in Verifies : ~Holds(u, r)
            BY <2>1, <2>4 DEF Holders, Holds, Holding
        <3>2. \A u \in Verifies : Holds(u, r)' <=> u = v
            BY <1>1, <2>1, <2>4, <3>1 DEF Holds, Holding
        <3>3. \A p \in Phones : HasCode(p, r)' => wrong[r] <= code[p].attempts /\ used[r] = 0
            BY <1>0, <2>1, <3>1 DEF CounterOK, HasCode
        <3>4. wrong[r] <= ver'[v].stored.attempts /\ used[r] = 0
            BY <1>0, <2>1, <2>4, <3>3 DEF HasCode
        <3> QED
            BY <1>0, <2>1, <3>2, <3>3, <3>4 DEF CounterOK
    <2> QED
        BY <2>3, <2>4
<1>3. CASE FindsRight(v) /\ Holds(v, r)
    <2>1. /\ ver[v].pc = "ttl" /\ ver'[v].pc = "consume" /\ ver'[v].stored = ver[v].stored
          /\ UNCHANGED <<code, wrong>> /\ ver[v].stored.by = r
        BY <1>3 DEF FindsRight, Holds
    <2>2. /\ \A u \in Verifies \ {v} : ~Holds(u, r)'
          /\ \A u, w \in Verifies : Holds(u, r)' /\ Holds(w, r)' => u = w
        BY <1>0, <1>1, <1>3, CounterOne
    <2>3. used'[r] = used[r] + 1 /\ used[r] = 0
        BY <1>0, <1>3, <2>1, Tallies DEF CounterOK
    <2>4. Holds(v, r)' /\ ver'[v].pc # "ttl"
        BY <2>1 DEF Holds, Holding
    <2> QED
        BY <1>0, <2>1, <2>2, <2>3, <2>4 DEF CounterOK
<1>4. CASE FindsRight(v) /\ ~Holds(v, r)
    <2>1. /\ ver[v].pc = "ttl" /\ ver'[v].stored = ver[v].stored
          /\ UNCHANGED <<code, wrong>> /\ ver[v].stored.by # r
        BY <1>4 DEF FindsRight, Holds, Holding
    <2>2. ~Holds(v, r)' /\ used'[r] = used[r]
        BY <1>4, <2>1, Tallies DEF Holds
    <2> QED
        BY <1>0, <1>1, <1>4, <2>1, <2>2, CounterOther
<1>5. CASE FindsWrong(v) /\ Holds(v, r)
    <2>1. ver[v].pc = "ttl" /\ ver[v].stored.by = r /\ UNCHANGED <<code, used>>
        BY <1>5 DEF FindsWrong, Holds
    <2>2. /\ \A u \in Verifies \ {v} : ~Holds(u, r)'
          /\ \A u, w \in Verifies : Holds(u, r)' /\ Holds(w, r)' => u = w
        BY <1>0, <1>1, <1>5, CounterOne
    <2>3. /\ wrong'[r] = wrong[r] + 1 /\ used[r] = 0
          /\ wrong[r] <= ver[v].stored.attempts
        BY <1>0, <1>5, <2>1, Tallies DEF CounterOK
    <2>4. ver[v].stored.attempts \in Nat /\ ver[v].stored.attempts + 1 <= MaxAttempts
        BY <2>1, Held DEF Holding
    <2>5. wrong'[r] <= ver[v].stored.attempts + 1 /\ wrong'[r] <= MaxAttempts
        BY <1>0, <2>3, <2>4
    <2>6. CASE ver'[v].pc \in {"burn", "count"} /\ ver'[v].stored = ver[v].stored
        <3>1. Holds(v, r)' /\ ver'[v].pc # "ttl"
            BY <2>1, <2>6 DEF Holds, Holding
        <3> QED
            BY <1>0, <2>1, <2>2, <2>3, <2>5, <2>6, <3>1 DEF CounterOK
    <2>7. CASE ver'[v].pc = "done" /\ Gone(v)
        <3>1. \A p \in Phones : ~HasCode(p, r)'
            BY <2>1, <2>7 DEF Gone, OriginInv, SavedBy, HasCode, Holding
        <3>2. ~Holds(v, r)'
            BY <2>7 DEF Holds, Holding
        <3> QED
            BY <1>0, <2>1, <2>2, <2>3, <2>5, <3>1, <3>2 DEF CounterOK
    <2> QED
        BY <1>5, <2>6, <2>7 DEF FindsWrong
<1>6. CASE FindsWrong(v) /\ ~Holds(v, r)
    <2>1. /\ ver[v].pc = "ttl" /\ UNCHANGED <<code, used>> /\ ver[v].stored.by # r
          /\ ver'[v].stored = ver[v].stored \/ ver'[v].pc = "done"
        BY <1>6 DEF FindsWrong, Holds, Holding
    <2>2. ~Holds(v, r)' /\ wrong'[r] = wrong[r]
        BY <1>6, <2>1, Tallies DEF Holds, Holding
    <2> QED
        BY <1>0, <1>1, <1>6, <2>1, <2>2, CounterOther
<1>7. CASE Deals(v)
    <2>1. /\ ver[v].pc \in {"consume", "burn", "count"} /\ ver[v].pc \in Holding
          /\ ver'[v].pc \notin Holding /\ UNCHANGED <<wrong, used>>
        BY <1>7 DEF Deals, Holding
    <2>2. ~Holds(v, r)'
        BY <2>1 DEF Holds
    <2>3. /\ ver[v].stored.by \in Requests
          /\ req[ver[v].stored.by].phone = ver[v].phone
        BY <2>1, Held DEF OriginInv, SavedBy
    <2>4. CASE ver[v].stored.by # r
        <3>1. ~Holds(v, r)
            BY <2>4 DEF Holds
        <3>2. \A p \in Phones : HasCode(p, r)' => code'[p] = code[p]
            <4>1. CASE Store(ver[v].phone, NoCode, {ver[v].stored.by})
                <5>1. code'[ver[v].phone] = NoCode /\ \A k \in Phones \ {ver[v].phone} : code'[k] = code[k]
                    BY <1>0, <1>s, <4>1, StoreEffect
                <5> QED
                    BY <5>1 DEF HasCode
            <4>2. CASE ver[v].pc = "count" /\ Store(ver[v].phone, Counted(v), {ver[v].stored.by})
                <5>1. code'[ver[v].phone] = Counted(v) /\ \A k \in Phones \ {ver[v].phone} : code'[k] = code[k]
                    BY <1>0, <1>s, <4>2, CountedType, StoreEffect
                <5> QED
                    BY <2>4, <4>2, <5>1, CountedType DEF HasCode
            <4>3. CASE UNCHANGED <<code, disturbed>>
                BY <4>3
            <4> QED
                BY <1>7, <4>1, <4>2, <4>3 DEF Deals
        <3> QED
            BY <1>0, <1>1, <2>1, <2>2, <3>1, <3>2, CounterOther
    <2>5. CASE ver[v].stored.by = r
        <3>1. Holds(v, r)
            BY <2>1, <2>5 DEF Holds
        <3>2. \A u \in Verifies : ~Holds(u, r)'
            BY <1>0, <1>1, <2>2, <3>1, CounterOne
        <3>3. \A p \in Phones : HasCode(p, r)' => wrong[r] <= code'[p].attempts /\ used[r] = 0
            <4>0. \A p \in Phones \ {ver[v].phone} : ~HasCode(p, r)
                BY <2>3, <2>5 DEF OriginInv, SavedBy, HasCode
            <4>1. CASE Store(ver[v].phone, NoCode, {ver[v].stored.by})
                <5>1. code'[ver[v].phone] = NoCode /\ \A k \in Phones \ {ver[v].phone} : code'[k] = code[k]
                    BY <1>0, <1>s, <4>1, StoreEffect
                <5> QED
                    BY <4>0, <5>1 DEF HasCode
            <4>2. CASE ver[v].pc = "count" /\ Store(ver[v].phone, Counted(v), {ver[v].stored.by})
                <5>1. code'[ver[v].phone] = Counted(v) /\ \A k \in Phones \ {ver[v].phone} : code'[k] = code[k]
                    BY <1>0, <1>s, <4>2, CountedType, StoreEffect
                <5>2. wrong[r] <= Counted(v).attempts /\ used[r] = 0
                    BY <1>0, <3>1, <4>2, CountedType DEF CounterOK
                <5> QED
                    BY <4>0, <5>1, <5>2 DEF HasCode
            <4> QED
                BY <1>7, <2>5, <4>1, <4>2 DEF Deals
        <3> QED
            BY <1>0, <2>1, <3>2, <3>3 DEF CounterOK
    <2> QED
        BY <2>4, <2>5
<1>8. CASE Ends(v)
    <2>1. /\ ver[v].pc \in {"idle", "ttl", "upsert"} /\ ver'[v].pc = "done"
          /\ UNCHANGED <<code, wrong, used>>
        BY <1>8 DEF Ends
    <2>2. ~Holds(v, r)'
        BY <2>1 DEF Holds, Holding
    <2>3. CASE ~Holds(v, r)
        BY <1>0, <1>1, <2>1, <2>2, <2>3, CounterOther
    <2>4. CASE Holds(v, r)
        <3>1. \A u \in Verifies : ~Holds(u, r)'
            BY <1>0, <1>1, <2>2, <2>4, CounterOne
        <3>2. ver[v].pc = "ttl"
            BY <2>1, <2>4 DEF Holds, Holding
        <3>3. \A p \in Phones : HasCode(p, r)' => wrong[r] <= code[p].attempts /\ used[r] = 0
            BY <1>0, <2>1, <2>4, <3>2 DEF CounterOK, HasCode
        <3> QED
            BY <1>0, <2>1, <3>1, <3>3 DEF CounterOK
    <2> QED
        BY <2>3, <2>4
<1> QED
    BY <1>2, <1>3, <1>4, <1>5, <1>6, <1>7, <1>8

\* A step keeps the counters of codes without overlaps.
LEMMA CounterStep == Base /\ OriginInv /\ CounterInv /\ [Next]_vars => CounterInv'
<1> SUFFICES ASSUME Base, OriginInv, CounterInv, [Next]_vars PROVE CounterInv'
    OBVIOUS
<1>0. TypeOK
    BY DEF Base
<1>s. /\ code \in [Phones -> LoginCode \cup {NoCode}] /\ disturbed \subseteq Requests
      /\ NoCode \in LoginCode \cup {NoCode}
    BY <1>0 DEF TypeOK
<1>1. ASSUME NEW q \in Requests, RequestCode(q), NEW r \in Requests, r \notin lax'
      PROVE  CounterOK(r)'
    <2>1. ReqMoves(q) /\ Moves(q)
        BY <1>0, <1>1, RequestMoves
    <2>2. UNCHANGED <<ver, wrong, used, lax>> /\ req[q].phone \in Phones /\ now \in Nat
        BY <1>0, <2>1 DEF ReqMoves, TypeOK
    <2>3. CounterOK(r)
        BY <1>1, <2>2 DEF CounterInv
    <2>4. CASE UNCHANGED <<code, disturbed>>
        BY <2>2, <2>3, <2>4, CounterKept
    <2>5. CASE req[q].pc = "save" /\ Store(req[q].phone, NewCode(q), Older(q))
        <3>1. code'[req[q].phone] = NewCode(q) /\ \A k \in Phones \ {req[q].phone} : code'[k] = code[k]
            BY <1>s, <2>2, <2>5, NewCodeType, StoreEffect
        <3>2. wrong[q] = 0 /\ used[q] = 0
            BY <2>5 DEF OriginInv, Unsaved
        <3>3. \A p \in Phones : HasCode(p, r)' =>
                  code'[p] = code[p] \/ (code'[p].attempts = 0 /\ wrong[r] = 0 /\ used[r] = 0)
            BY <2>2, <3>1, <3>2, NewCodeType DEF HasCode
        <3> QED
            BY <2>2, <2>3, <3>3, CounterKept
    <2>6. CASE Store(req[q].phone, NoCode, {q})
        <3>1. code'[req[q].phone] = NoCode /\ \A k \in Phones \ {req[q].phone} : code'[k] = code[k]
            BY <1>s, <2>2, <2>6, StoreEffect
        <3>2. \A p \in Phones : HasCode(p, r)' => code'[p] = code[p]
            BY <3>1 DEF HasCode
        <3> QED
            BY <2>2, <2>3, <3>2, CounterKept
    <2> QED
        BY <2>1, <2>4, <2>5, <2>6 DEF Moves
<1>2. ASSUME NEW v \in Verifies, VerifyCode(v), NEW r \in Requests, r \notin lax'
      PROVE  CounterOK(r)'
    BY <1>2, VerifyMoves, CounterVerify
<1>3. ASSUME Tick \/ UNCHANGED vars, NEW r \in Requests, r \notin lax'
      PROVE  CounterOK(r)'
    <2>1. /\ \A p \in Phones : code'[p] # NoCode => code'[p] = code[p]
          /\ UNCHANGED <<ver, wrong, used, lax>>
        BY <1>0, <1>3, TickEffect DEF vars
    <2>2. \A p \in Phones : HasCode(p, r)' => code'[p] = code[p]
        BY <2>1 DEF HasCode
    <2> QED
        BY <1>3, <2>1, <2>2, CounterKept DEF CounterInv
<1> QED
    BY <1>1, <1>2, <1>3 DEF Next, CounterInv

----------------------------------------------------------------------------
(* The cooldown.                                                           *)

\* What a step of RequestCode does to the throttles.
Uses(key, len) ==
    /\ window'[key].n = window[key].n + 1
    /\ window'[key].until = IF window[key].n = 0 THEN now + len ELSE window[key].until
    /\ \A k \in Keys \ {key} : window'[k] = window[k]
Throttles(r) ==
    LET send == <<"send", req[r].phone>>
        hour == <<"send-hour", req[r].phone>>
        ip == <<"send-ip", req[r].ip>>
    IN  \/ /\ UNCHANGED window
           /\ req[r].pc \in Early => req'[r].pc = "failed"
        \/ /\ req[r].pc = "idle" /\ Uses(send, Cooldown)
           /\ \/ req'[r].pc = "hour" /\ Within(send, 1) /\ req'[r].at = now
              \/ req'[r].pc \in {"refused", "failed"}
        \/ /\ req[r].pc = "hour" /\ Uses(hour, Hour)
           /\ \/ req'[r].pc = "ip" /\ Within(hour, PhoneLimit)
              \/ req'[r].pc \in {"refused", "failed"}
        \/ /\ req[r].pc = "ip" /\ Uses(ip, Hour)
           /\ \/ req'[r].pc = "save" /\ Within(ip, IPLimit)
              \/ req'[r].pc \in {"refused", "failed"}

\* Every step of RequestCode uses at most the throttle it is at, and gets past
\* it only within the limit.
LEMMA RequestThrottles ==
    ASSUME TypeOK, NEW r \in Requests, RequestCode(r)
    PROVE  Throttles(r)
<1>0. /\ window \in [Keys -> [n : Nat, until : Nat]] /\ now \in Nat
      /\ Cooldown \in Nat /\ Hour \in Nat
      /\ req \in [Requests -> ReqRecs] /\ req[r] \in ReqRecs
    BY ConstantsAssumption DEF TypeOK, ReqRecs
<1>k. /\ <<"send", req[r].phone>> \in Keys /\ <<"send-hour", req[r].phone>> \in Keys
      /\ <<"send-ip", req[r].ip>> \in Keys
    BY <1>0, KeyType DEF ReqRecs
<1>1. ASSUME NEW pc \in ReqPC, ReqAt(r, pc) PROVE req'[r].pc = pc
    <2>1. req'[r] = [req[r] EXCEPT !.pc = pc]
        BY <1>0, <1>1, ReqAtEffect
    <2> QED
        BY <1>0, <2>1 DEF ReqRecs
<1>p. {"hour", "ip", "save", "refused", "failed", "sms", "sent", "drop"} \subseteq ReqPC
    BY DEF ReqPC
<1>2. CASE AllowSend(r)
    <2>1. /\ req[r].pc = "idle" /\ Allow(<<"send", req[r].phone>>, Cooldown)
          /\ req'[r].pc = IF Within(<<"send", req[r].phone>>, 1) THEN "hour" ELSE "refused"
          /\ req'[r].at = now
        BY <1>0, <1>2 DEF AllowSend, ReqRecs
    <2>2. Uses(<<"send", req[r].phone>>, Cooldown)
        BY <1>0, <1>k, <2>1, AllowEffect DEF Uses
    <2> QED
        BY <2>1, <2>2 DEF Throttles
<1>3. CASE AllowHour(r)
    <2> DEFINE pc == IF Within(<<"send-hour", req[r].phone>>, PhoneLimit) THEN "ip" ELSE "refused"
    <2>1. /\ req[r].pc = "hour" /\ Allow(<<"send-hour", req[r].phone>>, Hour) /\ ReqAt(r, pc)
        BY <1>3 DEF AllowHour
    <2>2. Uses(<<"send-hour", req[r].phone>>, Hour)
        BY <1>0, <1>k, <2>1, AllowEffect DEF Uses
    <2>3. req'[r].pc = pc
        BY <1>1, <1>p, <2>1
    <2> QED
        BY <2>1, <2>2, <2>3 DEF Throttles
<1>4. CASE AllowIP(r)
    <2> DEFINE pc == IF Within(<<"send-ip", req[r].ip>>, IPLimit) THEN "save" ELSE "refused"
    <2>1. /\ req[r].pc = "ip" /\ Allow(<<"send-ip", req[r].ip>>, Hour) /\ ReqAt(r, pc)
        BY <1>4 DEF AllowIP
    <2>2. Uses(<<"send-ip", req[r].ip>>, Hour)
        BY <1>0, <1>k, <2>1, AllowEffect DEF Uses
    <2>3. req'[r].pc = pc
        BY <1>1, <1>p, <2>1
    <2> QED
        BY <2>1, <2>2, <2>3 DEF Throttles
<1>5. CASE SaveCode(r) \/ SmsSent(r) \/ SmsFails(r) \/ DropCode(r)
    <2>1. UNCHANGED window /\ req[r].pc \notin Early
        BY <1>5 DEF SaveCode, SmsSent, SmsFails, DropCode, Early
    <2> QED
        BY <2>1 DEF Throttles
<1>6. CASE RequestFails(r)
    <2>1. req'[r].pc = "failed"
        BY <1>1, <1>p, <1>6 DEF RequestFails
    <2>2. \/ UNCHANGED window
          \/ req[r].pc = "idle" /\ Allow(<<"send", req[r].phone>>, Cooldown)
          \/ req[r].pc = "hour" /\ Allow(<<"send-hour", req[r].phone>>, Hour)
          \/ req[r].pc = "ip" /\ Allow(<<"send-ip", req[r].ip>>, Hour)
        BY <1>6 DEF RequestFails
    <2>3. CASE UNCHANGED window
        BY <2>1, <2>3 DEF Throttles
    <2>4. CASE req[r].pc = "idle" /\ Allow(<<"send", req[r].phone>>, Cooldown)
        <3>1. Uses(<<"send", req[r].phone>>, Cooldown)
            BY <1>0, <1>k, <2>4, AllowEffect DEF Uses
        <3> QED
            BY <2>1, <2>4, <3>1 DEF Throttles
    <2>5. CASE req[r].pc = "hour" /\ Allow(<<"send-hour", req[r].phone>>, Hour)
        <3>1. Uses(<<"send-hour", req[r].phone>>, Hour)
            BY <1>0, <1>k, <2>5, AllowEffect DEF Uses
        <3> QED
            BY <2>1, <2>5, <3>1 DEF Throttles
    <2>6. CASE req[r].pc = "ip" /\ Allow(<<"send-ip", req[r].ip>>, Hour)
        <3>1. Uses(<<"send-ip", req[r].ip>>, Hour)
            BY <1>0, <1>k, <2>6, AllowEffect DEF Uses
        <3> QED
            BY <2>1, <2>6, <3>1 DEF Throttles
    <2> QED
        BY <2>2, <2>3, <2>4, <2>5, <2>6
<1> QED
    BY <1>2, <1>3, <1>4, <1>5, <1>6 DEF RequestCode

\* The requests that the first throttle has let through. While the cooldown
\* of one of them runs, the window of its phone is in use.
Passed == {r \in Requests : req[r].pc \in {"hour", "ip", "save", "sms", "drop", "sent"}}
Cooling(r) ==
    LET w == window[<<"send", req[r].phone>>]
    IN  /\ req[r].at <= now
        /\ \/ w.n > 0 /\ req[r].at + Cooldown <= w.until
           \/ req[r].at + Cooldown <= now
Apart(q, r) ==
    req[q].at >= req[r].at + Cooldown \/ req[r].at >= req[q].at + Cooldown
SpacedInv ==
    /\ \A r \in Passed : Cooling(r)
    /\ \A q, r \in Passed : q # r /\ req[q].phone = req[r].phone => Apart(q, r)

\* A step keeps the requests that passed a cooldown apart.
LEMMA SpacedStep == Base /\ SpacedInv /\ [Next]_vars => SpacedInv'
<1> SUFFICES ASSUME Base, SpacedInv, [Next]_vars PROVE SpacedInv'
    OBVIOUS
<1>0. /\ TypeOK /\ now \in Nat /\ Cooldown \in Nat
      /\ \A q \in Requests : req[q].at \in Nat /\ <<"send", req[q].phone>> \in Keys
      /\ \A k \in Keys : window[k].n \in Nat /\ window[k].until \in Nat
    BY ConstantsAssumption, KeyType DEF Base, TypeOK
<1>1. ASSUME NEW r \in Requests, RequestCode(r) PROVE SpacedInv'
    <2>1. ReqMoves(r) /\ Moves(r) /\ Throttles(r)
        BY <1>0, <1>1, RequestMoves, RequestThrottles
    <2>2. /\ now' = now /\ req'[r].phone = req[r].phone
          /\ \A q \in Requests \ {r} : req'[q] = req[q]
          /\ req[r].pc # "idle" => req'[r].at = req[r].at
        BY <2>1 DEF ReqMoves
    <2> DEFINE send == <<"send", req[r].phone>>
    <2>3. /\ \A p \in Phones : p # req[r].phone => window'[<<"send", p>>] = window[<<"send", p>>]
          /\ \/ window'[send] = window[send]
             \/ /\ window'[send].n = window[send].n + 1
                /\ window'[send].until = IF window[send].n = 0 THEN now + Cooldown ELSE window[send].until
        <3>1. CASE UNCHANGED window
            BY <3>1
        <3>2. CASE Uses(send, Cooldown)
            BY <3>2, KeyType DEF Uses, Keys
        <3>3. CASE Uses(<<"send-hour", req[r].phone>>, Hour)
            BY <1>0, <3>3, KeyType DEF Uses, Keys, TypeOK
        <3>4. CASE Uses(<<"send-ip", req[r].ip>>, Hour)
            BY <1>0, <3>4, KeyType DEF Uses, Keys, TypeOK
        <3> QED
            BY <2>1, <3>1, <3>2, <3>3, <3>4 DEF Throttles
    <2>4. /\ req'[r].pc = "hour" => /\ req[r].pc = "idle" /\ req'[r].at = now
                                    /\ window[send].n = 0 /\ window'[send].n = 1
                                    /\ window'[send].until = now + Cooldown
          /\ r \in Passed' /\ req'[r].pc # "hour" => r \in Passed /\ req'[r].at = req[r].at
        <3>1. req'[r].pc = "hour" => /\ req[r].pc = "idle" /\ req'[r].at = now
                                     /\ Within(send, 1) /\ Uses(send, Cooldown)
            BY <2>1 DEF Moves, Throttles, Early
        <3>2. window[send].n \in Nat
            BY <1>0
        <3>3. r \in Passed' /\ req'[r].pc # "hour" => r \in Passed /\ req[r].pc # "idle"
            BY <2>1 DEF Moves, Throttles, Passed, Early
        <3> QED
            BY <2>2, <3>1, <3>2, <3>3 DEF Within, Uses
    <2>5. \A q \in Passed' : q # r => q \in Passed /\ req'[q] = req[q]
        BY <2>2 DEF Passed
    <2>6. Passed' \subseteq Requests
        BY DEF Passed
    <2>7. \A q \in Passed' : q \in Passed /\ req'[q].at = req[q].at /\ req'[q].phone = req[q].phone
              => Cooling(q)'
        <3> SUFFICES ASSUME NEW q \in Passed', q \in Passed, req'[q].at = req[q].at,
                            req'[q].phone = req[q].phone
                     PROVE  Cooling(q)'
            OBVIOUS
        <3>1. Cooling(q) /\ q \in Requests /\ req[q].at \in Nat /\ req[q].phone \in Phones
            BY <1>0, <2>6 DEF SpacedInv, TypeOK
        <3>2. CASE req[q].phone # req[r].phone
            BY <2>2, <2>3, <3>1, <3>2 DEF Cooling
        <3>3. CASE req[q].phone = req[r].phone
            <4>1. window[send].n \in Nat /\ window[send].until \in Nat
                BY <1>0
            <4> QED
                BY <1>0, <2>2, <2>3, <3>1, <3>3, <4>1 DEF Cooling
        <3> QED
            BY <3>2, <3>3
    <2>8. CASE req'[r].pc = "hour"
        <3>1. Cooling(r)'
            BY <1>0, <2>2, <2>4, <2>8 DEF Cooling
        <3>2. \A q \in Passed' : q # r /\ req[q].phone = req[r].phone => req[q].at + Cooldown <= now
            <4>1. \A q \in Passed : req[q].phone = req[r].phone => req[q].at + Cooldown <= now
                BY <2>4, <2>8 DEF SpacedInv, Cooling
            <4> QED
                BY <2>5, <4>1
        <3>3. \A q \in Passed' : Cooling(q)'
            BY <2>5, <2>7, <3>1
        <3>4. \A q, k \in Passed' : q # k /\ req'[q].phone = req'[k].phone => Apart(q, k)'
            <4> SUFFICES ASSUME NEW q \in Passed', NEW k \in Passed', q # k,
                                req'[q].phone = req'[k].phone
                         PROVE  Apart(q, k)'
                OBVIOUS
            <4>1. CASE q = r
                BY <2>2, <2>4, <2>5, <2>8, <3>2, <4>1 DEF Apart
            <4>2. CASE k = r
                BY <2>2, <2>4, <2>5, <2>8, <3>2, <4>2 DEF Apart
            <4>3. CASE q # r /\ k # r
                BY <2>5, <4>3 DEF Apart, SpacedInv
            <4> QED
                BY <4>1, <4>2, <4>3
        <3> QED
            BY <3>3, <3>4 DEF SpacedInv
    <2>9. CASE req'[r].pc # "hour"
        <3>1. \A q \in Passed' : q \in Passed /\ req'[q].at = req[q].at /\ req'[q].phone = req[q].phone
            BY <2>2, <2>4, <2>5, <2>9
        <3>2. \A q \in Passed' : Cooling(q)'
            BY <2>7, <3>1
        <3>3. \A q, k \in Passed' : q # k /\ req'[q].phone = req'[k].phone => Apart(q, k)'
            BY <3>1 DEF Apart, SpacedInv
        <3> QED
            BY <3>2, <3>3 DEF SpacedInv
    <2> QED
        BY <2>8, <2>9
<1>2. ASSUME NEW v \in Verifies, VerifyCode(v) PROVE SpacedInv'
    <2>1. UNCHANGED <<now, window, req>>
        BY <1>2, VerifyMoves DEF VerMoves
    <2> QED
        BY <2>1 DEF SpacedInv, Passed, Cooling, Apart
<1>3. CASE Tick
    <2>1. /\ now' = now + 1 /\ UNCHANGED req
          /\ \A k \in Keys : window[k].until <= now' \/ window'[k] = window[k]
        BY <1>0, <1>3, TickEffect
    <2>2. Passed' = Passed
        BY <2>1 DEF Passed
    <2>3. ASSUME NEW r \in Passed PROVE Cooling(r)'
        <3>1. Cooling(r) /\ r \in Requests
            BY DEF SpacedInv, Passed
        <3> DEFINE k == <<"send", req[r].phone>>
        <3>2. k \in Keys /\ req[r].at \in Nat /\ window[k].until \in Nat /\ window[k].n \in Nat
            BY <1>0, <3>1
        <3>3. window[k].until <= now' \/ window'[k] = window[k]
            BY <2>1, <3>2
        <3>4. req[r].at <= now /\ (\/ window[k].n > 0 /\ req[r].at + Cooldown <= window[k].until
                                   \/ req[r].at + Cooldown <= now)
            BY <3>1 DEF Cooling
        <3>5. req[r].at <= now' /\ (\/ window'[k].n > 0 /\ req[r].at + Cooldown <= window'[k].until
                                    \/ req[r].at + Cooldown <= now')
            BY <1>0, <2>1, <3>2, <3>3, <3>4
        <3> QED
            BY <2>1, <3>5 DEF Cooling
    <2> QED
        BY <2>1, <2>2, <2>3 DEF SpacedInv, Apart
<1>4. CASE UNCHANGED vars
    BY <1>4 DEF SpacedInv, Passed, Cooling, Apart, vars
<1> QED
    BY <1>1, <1>2, <1>3, <1>4 DEF Next

----------------------------------------------------------------------------
(* The code of the last SMS.                                               *)

\* Whatever calls overlap, no counter runs ahead of the guesses it stands for,
\* and a call that is about to delete a code has a reason to.
TallyInv ==
    /\ \A p \in Phones : code[p] # NoCode => code[p].attempts <= wrong[code[p].by]
    /\ \A v \in Verifies : ver[v].pc \in Holding =>
          /\ ver[v].stored.attempts <= wrong[ver[v].stored.by]
          /\ ver[v].pc \in {"burn", "count"} =>
                 ver[v].stored.attempts + 1 <= wrong[ver[v].stored.by]
          /\ ver[v].pc = "burn" => Exhausted(ver[v].stored)
          /\ ver[v].pc = "consume" => used[ver[v].stored.by] > 0

\* Guesses are counted up.
LEMMA TalliesGrow ==
    ASSUME Base, NEW v \in Verifies,
           Reads(v) \/ FindsRight(v) \/ FindsWrong(v) \/ Deals(v) \/ Ends(v),
           NEW r \in Requests
    PROVE  /\ wrong[r] \in Nat /\ wrong'[r] \in Nat /\ wrong[r] <= wrong'[r]
           /\ used[r] \in Nat /\ used'[r] \in Nat /\ used[r] <= used'[r]
<1>0. wrong[r] \in Nat /\ used[r] \in Nat
    BY DEF Base, TypeOK
<1>1. CASE FindsRight(v)
    <2>1. used'[r] = used[r] \/ used'[r] = used[r] + 1
        BY <1>1, Tallies
    <2> QED
        BY <1>0, <1>1, <2>1 DEF FindsRight
<1>2. CASE FindsWrong(v)
    <2>1. wrong'[r] = wrong[r] \/ wrong'[r] = wrong[r] + 1
        BY <1>2, Tallies
    <2> QED
        BY <1>0, <1>2, <2>1 DEF FindsWrong
<1>3. CASE Reads(v) \/ Deals(v) \/ Ends(v)
    BY <1>0, <1>3 DEF Reads, Deals, Ends
<1> QED
    BY <1>1, <1>2, <1>3

\* A step of any call keeps the counters behind the guesses.
LEMMA TallyStep == Base /\ TallyInv /\ [Next]_vars => TallyInv'
<1> SUFFICES ASSUME Base, TallyInv, [Next]_vars PROVE TallyInv'
    OBVIOUS
<1>0. TypeOK
    BY DEF Base
<1>s. /\ code \in [Phones -> LoginCode \cup {NoCode}] /\ disturbed \subseteq Requests
      /\ NoCode \in LoginCode \cup {NoCode}
    BY <1>0 DEF TypeOK
<1>1. ASSUME NEW r \in Requests, RequestCode(r) PROVE TallyInv'
    <2>1. ReqMoves(r) /\ Moves(r)
        BY <1>0, <1>1, RequestMoves
    <2>2. /\ UNCHANGED <<ver, wrong, used>> /\ req[r].phone \in Phones /\ now \in Nat
          /\ wrong[r] \in Nat
        BY <1>0, <2>1 DEF ReqMoves, TypeOK
    <2>3. \A p \in Phones : code'[p] # NoCode => code'[p] = code[p] \/ code'[p] = NewCode(r)
        <3>1. CASE UNCHANGED <<code, disturbed>>
            BY <3>1
        <3>2. CASE Store(req[r].phone, NewCode(r), Older(r))
            BY <1>s, <2>2, <3>2, NewCodeType, StoreEffect
        <3>3. CASE Store(req[r].phone, NoCode, {r})
            BY <1>s, <2>2, <3>3, StoreEffect
        <3> QED
            BY <2>1, <3>1, <3>2, <3>3 DEF Moves
    <2>4. NewCode(r).attempts <= wrong[NewCode(r).by]
        BY <2>2, NewCodeType
    <2>5. \A p \in Phones : code'[p] # NoCode => code'[p].attempts <= wrong[code'[p].by]
        BY <2>3, <2>4 DEF TallyInv
    <2> QED
        BY <2>2, <2>5 DEF TallyInv, Exhausted
<1>2. ASSUME NEW v \in Verifies, VerifyCode(v) PROVE TallyInv'
    <2>1. VerMoves(v) /\ (Reads(v) \/ FindsRight(v) \/ FindsWrong(v) \/ Deals(v) \/ Ends(v))
        BY <1>2, VerifyMoves
    <2>2. /\ \A u \in Verifies \ {v} : ver'[u] = ver[u]
          /\ ver[v].phone \in Phones
        BY <1>0, <2>1 DEF VerMoves, TypeOK
    <2>3. \A r \in Requests : /\ wrong[r] \in Nat /\ wrong'[r] \in Nat /\ wrong[r] <= wrong'[r]
                              /\ used[r] \in Nat /\ used'[r] \in Nat /\ used[r] <= used'[r]
        BY <2>1, TalliesGrow
    <2>4. \A p \in Phones : code'[p] # NoCode =>
              code'[p] = code[p] \/ (ver[v].pc = "count" /\ code'[p] = Counted(v))
        <3>1. CASE UNCHANGED <<code, disturbed>>
            BY <3>1
        <3>2. CASE Store(ver[v].phone, NoCode, {ver[v].stored.by})
            BY <1>s, <2>2, <3>2, StoreEffect
        <3>3. CASE ver[v].pc = "count" /\ Store(ver[v].phone, Counted(v), {ver[v].stored.by})
            BY <1>s, <2>2, <3>3, CountedType, StoreEffect
        <3> QED
            BY <2>1, <3>1, <3>2, <3>3 DEF Reads, FindsRight, FindsWrong, Deals, Ends
    <2>5. \A p \in Phones : code'[p] # NoCode => code'[p].attempts <= wrong'[code'[p].by]
        <3> SUFFICES ASSUME NEW p \in Phones, code'[p] # NoCode
                     PROVE  code'[p].attempts <= wrong'[code'[p].by]
            OBVIOUS
        <3>1. CASE code'[p] = code[p]
            <4>1. /\ code[p].attempts \in Nat /\ code[p].by \in Requests
                  /\ code[p].attempts <= wrong[code[p].by]
                BY <3>1, Kept DEF TallyInv
            <4> QED
                BY <2>3, <3>1, <4>1
        <3>2. CASE ver[v].pc = "count" /\ code'[p] = Counted(v)
            <4>1. /\ ver[v].stored.attempts \in Nat /\ ver[v].stored.by \in Requests
                  /\ ver[v].stored.attempts + 1 <= wrong[ver[v].stored.by]
                BY <3>2, Held DEF TallyInv, Holding
            <4>2. code'[p].attempts = ver[v].stored.attempts + 1 /\ code'[p].by = ver[v].stored.by
                BY <3>2, CountedType
            <4> QED
                BY <2>3, <4>1, <4>2
        <3> QED
            BY <2>4, <3>1, <3>2
    <2> DEFINE OK(u) == /\ ver[u].stored.attempts <= wrong[ver[u].stored.by]
                        /\ ver[u].pc \in {"burn", "count"} =>
                               ver[u].stored.attempts + 1 <= wrong[ver[u].stored.by]
                        /\ ver[u].pc = "burn" => Exhausted(ver[u].stored)
                        /\ ver[u].pc = "consume" => used[ver[u].stored.by] > 0
    <2>6. ASSUME NEW u \in Verifies, u # v, ver'[u].pc \in Holding PROVE OK(u)'
        <3>1. ver[u].pc \in Holding /\ ver'[u] = ver[u]
            BY <2>2, <2>6
        <3>2. /\ ver[u].stored.attempts \in Nat /\ ver[u].stored.by \in Requests
            BY <3>1, Held
        <3>3. OK(u)
            BY <3>1 DEF TallyInv
        <3> QED
            BY <2>3, <3>1, <3>2, <3>3 DEF Exhausted
    <2>7. ver'[v].pc \in Holding => OK(v)'
        <3>1. CASE Reads(v)
            BY <2>2, <3>1 DEF Reads, TallyInv
        <3>2. CASE FindsRight(v)
            <4>1. /\ ver[v].pc = "ttl" /\ ver'[v].pc = "consume" /\ ver'[v].stored = ver[v].stored
                  /\ UNCHANGED wrong
                BY <3>2 DEF FindsRight
            <4>2. /\ ver[v].stored.by \in Requests
                  /\ ver[v].stored.attempts <= wrong[ver[v].stored.by]
                BY <4>1, Held DEF TallyInv, Holding
            <4>3. used'[ver[v].stored.by] > 0
                BY <2>3, <3>2, <4>2, Tallies
            <4> QED
                BY <4>1, <4>2, <4>3
        <3>3. CASE FindsWrong(v)
            <4>1. ver[v].pc = "ttl"
                BY <3>3 DEF FindsWrong
            <4>2. /\ ver[v].stored.by \in Requests /\ ver[v].stored.attempts \in Nat
                  /\ ver[v].stored.attempts <= wrong[ver[v].stored.by]
                BY <4>1, Held DEF TallyInv, Holding
            <4>3. /\ wrong'[ver[v].stored.by] = wrong[ver[v].stored.by] + 1
                  /\ wrong[ver[v].stored.by] \in Nat
                BY <2>3, <3>3, <4>2, Tallies
            <4>4. /\ ver[v].stored.attempts <= wrong'[ver[v].stored.by]
                  /\ ver[v].stored.attempts + 1 <= wrong'[ver[v].stored.by]
                BY <4>2, <4>3
            <4>5. ver'[v].pc \in Holding =>
                      /\ ver'[v].stored = ver[v].stored /\ ver'[v].pc \in {"burn", "count"}
                      /\ ver'[v].pc = "burn" => Exhausted(ver[v].stored)
                BY <3>3 DEF FindsWrong, Holding
            <4> QED
                BY <4>4, <4>5 DEF Exhausted
        <3>4. CASE Deals(v) \/ Ends(v)
            BY <3>4 DEF Deals, Ends, Holding
        <3> QED
            BY <2>1, <3>1, <3>2, <3>3, <3>4
    <2>8. \A u \in Verifies : ver'[u].pc \in Holding => OK(u)'
        BY <2>6, <2>7
    <2> QED
        BY <2>5, <2>8 DEF TallyInv
<1>3. CASE Tick \/ UNCHANGED vars
    <2>1. /\ \A p \in Phones : code'[p] # NoCode => code'[p] = code[p]
          /\ UNCHANGED <<ver, wrong, used>>
        BY <1>0, <1>3, TickEffect DEF vars
    <2> QED
        BY <2>1 DEF TallyInv, Exhausted
<1> QED
    BY <1>1, <1>2, <1>3 DEF Next

\* A code that has been saved and that nothing legitimate has ended yet.
NoneNewer(r) ==
    \A q \in Requests : q # r /\ req[q].phone = req[r].phone =>
        q \in Older(r) \/ req[q].pc \in Unsaved
Protected(r) ==
    /\ req[r].pc \in {"sms", "sent"}
    /\ now < Deadline(r) /\ used[r] = 0 /\ wrong[r] < MaxAttempts
    /\ r \notin disturbed
    /\ NoneNewer(r)

\* Such a code is stored for as long as it lives, also after a call that is
\* about to count a guess has written it back, and it spares no guess before
\* its last half second.
UsableOK(r) ==
    /\ HasCode(req[r].phone, r)
    /\ Deadline(r) <= code[req[r].phone].until
    /\ \A v \in Verifies : Holds(v, r) /\ ver[v].pc = "count" => Deadline(r) <= now + ver[v].ttl
    /\ free[r] > 0 => Deadline(r) <= now + HalfSecond
UsableInv == \A r \in Requests : Protected(r) => UsableOK(r)

\* Arithmetic about tallies, hours and limits.
LEMMA Distributes ==
    \A a, b \in Nat : /\ a * b \in Nat /\ a * b = b * a /\ a * (b + 1) = a * b + a
                      /\ (b + 1) * a = b * a + a
OBVIOUS

\* More hours let more through.
LEMMA Monotone == \A a, b, c \in Nat : b <= c => a * b <= a * c
OBVIOUS

\* Each guess that is charged takes half a second from the deadline.
LEMMA DeadlineFalls ==
    ASSUME Base, NEW r \in Requests, wrong'[r] \in Nat, wrong[r] <= wrong'[r], req'[r] = req[r]
    PROVE  /\ Deadline(r) \in Int /\ Deadline(r)' \in Int
           /\ Deadline(r)' <= Deadline(r)
           /\ wrong'[r] = wrong[r] + 1 => Deadline(r)' = Deadline(r) - HalfSecond
<1> DEFINE life == req[r].saved + CodeTTL
<1>1. life \in Nat /\ wrong[r] \in Nat
    BY ConstantsAssumption DEF Base, TypeOK
<1>2. HalfSecond \in Nat /\ HalfSecond' = HalfSecond
    BY ConstantsAssumption DEF HalfSecond
<1>3. Deadline(r) = life - wrong[r] * HalfSecond /\ Deadline(r)' = life - wrong'[r] * HalfSecond
    BY DEF Deadline, HalfSecond
<1> HIDE DEF life
<1>4. /\ wrong[r] * HalfSecond \in Nat /\ wrong'[r] * HalfSecond \in Nat
      /\ wrong[r] * HalfSecond <= wrong'[r] * HalfSecond
    BY <1>1, <1>2, Distributes, Monotone
<1>5. (wrong[r] + 1) * HalfSecond = wrong[r] * HalfSecond + HalfSecond
    BY <1>1, <1>2, Distributes
<1> QED
    BY <1>1, <1>2, <1>3, <1>4, <1>5

\* A step of another call leaves the code alone.
LEMMA UsableOther ==
    ASSUME Base, OriginInv, SpacedInv, UsableInv,
           NEW q \in Requests, ReqMoves(q), Moves(q),
           NEW r \in Requests, q # r, Protected(r)'
    PROVE  UsableOK(r)'
<1>0. /\ req'[r] = req[r] /\ UNCHANGED <<now, ver, wrong, free, used, lax>>
      /\ req'[q].phone = req[q].phone /\ req[q].phone \in Phones /\ req[r].phone \in Phones
      /\ now \in Nat /\ req[r].at \in Nat /\ req[q].at \in Nat
    BY DEF ReqMoves, Base, TypeOK
<1>d. Deadline(r)' = Deadline(r) /\ HalfSecond' = HalfSecond
    BY <1>0 DEF Deadline, HalfSecond
<1>1. req[r].pc \in {"sms", "sent"} /\ r \notin disturbed'
    BY <1>0 DEF Protected
<1>s. /\ code \in [Phones -> LoginCode \cup {NoCode}] /\ disturbed \subseteq Requests
      /\ NoCode \in LoginCode \cup {NoCode}
    BY DEF Base, TypeOK
<1>2. disturbed \subseteq disturbed'
    <2>1. CASE UNCHANGED <<code, disturbed>>
        BY <2>1
    <2>2. CASE Store(req[q].phone, NewCode(q), Older(q))
        BY <1>s, <1>0, <2>2, NewCodeType, StoreEffect
    <2>3. CASE Store(req[q].phone, NoCode, {q})
        BY <1>s, <1>0, <2>3, StoreEffect
    <2> QED
        BY <2>1, <2>2, <2>3 DEF Moves
<1>3. NoneNewer(r)' => NoneNewer(r)
    <2> SUFFICES ASSUME NoneNewer(r)', NEW k \in Requests, k # r, req[k].phone = req[r].phone
                 PROVE  k \in Older(r) \/ req[k].pc \in Unsaved
        BY DEF NoneNewer
    <2>1. k \in Older(r)' \/ req'[k].pc \in Unsaved
        <3>1. req'[k].phone = req'[r].phone
            BY <1>0 DEF ReqMoves
        <3> QED
            BY <3>1 DEF NoneNewer
    <2>2. req'[k].pc \in Unsaved => req[k].pc \in Unsaved
        BY SavedStays
    <2>3. CASE req[k].pc = "idle"
        BY <2>3 DEF Unsaved
    <2>4. CASE req[k].pc # "idle"
        <3>1. req'[k].at = req[k].at /\ req'[r].at = req[r].at
            BY <1>0, <2>4 DEF ReqMoves
        <3> QED
            BY <2>1, <2>2, <3>1 DEF Older
    <2> QED
        BY <2>3, <2>4
<1>4. UsableOK(r)
    <2>1. Protected(r)
        BY <1>0, <1>d, <1>1, <1>2, <1>3 DEF Protected
    <2> QED
        BY <2>1 DEF UsableInv
<1>5. code[req[r].phone] # NoCode /\ code[req[r].phone].by = r
    BY <1>4 DEF UsableOK, HasCode
<1>6. code'[req[r].phone] = code[req[r].phone]
    <2>1. CASE UNCHANGED <<code, disturbed>>
        BY <2>1
    <2>2. CASE req[q].pc = "save" /\ req'[q].pc \in {"sms", "failed"}
               /\ Store(req[q].phone, NewCode(q), Older(q))
        <3>1. /\ \A p \in Phones \ {req[q].phone} : code'[p] = code[p]
              /\ code[req[q].phone] # NoCode => code[req[q].phone].by \in Older(q) \cup disturbed'
            BY <1>s, <1>0, <2>2, NewCodeType, StoreEffect
        <3>2. CASE req[q].phone # req[r].phone
            BY <1>0, <3>1, <3>2
        <3>3. CASE req[q].phone = req[r].phone
            <4>1. req[r].at <= req[q].at
                BY <1>1, <1>5, <3>1, <3>3 DEF Older
            <4>2. q \in Older(r)' \/ req'[q].pc \in Unsaved
                BY <1>0, <3>3 DEF Protected, NoneNewer
            <4>3. req[q].at <= req[r].at
                <5>1. req'[q].at = req[q].at
                    BY <2>2 DEF ReqMoves
                <5> QED
                    BY <1>0, <2>2, <4>2, <5>1 DEF Older, Unsaved
            <4>4. Apart(q, r)
                BY <1>1, <2>2, <3>3 DEF SpacedInv, Passed
            <4> QED
                BY <1>0, <4>1, <4>3, <4>4, ConstantsAssumption DEF Apart
        <3> QED
            BY <3>2, <3>3
    <2>3. CASE Store(req[q].phone, NoCode, {q})
        <3>1. /\ \A p \in Phones \ {req[q].phone} : code'[p] = code[p]
              /\ code[req[q].phone] # NoCode => code[req[q].phone].by \in {q} \cup disturbed'
            BY <1>s, <1>0, <2>3, StoreEffect
        <3> QED
            BY <1>0, <1>1, <1>5, <3>1
    <2> QED
        BY <2>1, <2>2, <2>3 DEF Moves
<1> QED
    BY <1>0, <1>d, <1>4, <1>6 DEF UsableOK, HasCode, Holds

\* A step of the request itself stores its code, or sends it.
LEMMA UsableOwn ==
    ASSUME Base, OriginInv, UsableInv,
           NEW r \in Requests, ReqMoves(r), Moves(r), Protected(r)'
    PROVE  UsableOK(r)'
<1>0. /\ UNCHANGED <<now, ver, wrong, free, used, lax>>
      /\ req'[r].phone = req[r].phone /\ req[r].phone \in Phones
      /\ now \in Nat /\ req'[r].pc \in {"sms", "sent"}
    BY DEF ReqMoves, Base, TypeOK, Protected
<1>s. /\ code \in [Phones -> LoginCode \cup {NoCode}] /\ disturbed \subseteq Requests
    BY DEF Base, TypeOK
<1>1. CASE req[r].pc = "save" /\ req'[r].saved = now /\ Store(req[r].phone, NewCode(r), Older(r))
    <2>1. code'[req[r].phone] = NewCode(r)
        BY <1>s, <1>0, <1>1, NewCodeType, StoreEffect
    <2>2. NewCode(r) \in LoginCode /\ NewCode(r).by = r /\ NewCode(r).until = now + CodeTTL
        BY <1>0, NewCodeType
    <2>3. \A v \in Verifies : ~Holds(v, r)
        BY <1>1 DEF Holds, OriginInv, SavedBy, Unsaved
    <2>4. wrong'[r] = 0 /\ free'[r] = 0
        BY <1>0, <1>1 DEF OriginInv, Unsaved
    <2>5. now + CodeTTL \in Nat /\ HalfSecond \in Nat
        BY <1>0, ConstantsAssumption DEF HalfSecond
    <2>6. Deadline(r)' = now + CodeTTL
        <3>1. Deadline(r)' = (now + CodeTTL) - 0 * HalfSecond
            BY <1>1, <2>4 DEF Deadline, HalfSecond
        <3>2. 0 * HalfSecond = 0
            BY <2>5
        <3> QED
            BY <2>5, <3>1, <3>2
    <2> QED
        BY <1>0, <1>1, <2>1, <2>2, <2>3, <2>4, <2>5, <2>6, NoCodeAssumption
           DEF UsableOK, HasCode, Holds
<1>2. CASE req[r].pc = "sms" /\ UNCHANGED <<code, disturbed>>
    <2>1. req'[r].at = req[r].at /\ req'[r].saved = req[r].saved
          /\ \A q \in Requests \ {r} : req'[q] = req[q]
        BY <1>2 DEF ReqMoves
    <2>d. Deadline(r)' = Deadline(r) /\ HalfSecond' = HalfSecond
        BY <1>0, <2>1 DEF Deadline, HalfSecond
    <2>2. NoneNewer(r)
        <3>1. \A q \in Requests : q # r => (q \in Older(r)' <=> q \in Older(r))
            BY <2>1 DEF Older
        <3> QED
            BY <1>0, <2>1, <3>1 DEF Protected, NoneNewer
    <2>3. UsableOK(r)
        BY <1>0, <1>2, <2>1, <2>2, <2>d DEF UsableInv, Protected
    <2> QED
        BY <1>0, <1>2, <2>1, <2>3, <2>d DEF UsableOK, HasCode, Holds
<1> QED
    BY <1>0, <1>1, <1>2 DEF Moves

\* Guessing takes a code away only when it is right or the last guess.
LEMMA UsableVerify ==
    ASSUME Base, OriginInv, TallyInv, UsableInv, NEW v \in Verifies, VerMoves(v),
           Reads(v) \/ FindsRight(v) \/ FindsWrong(v) \/ Deals(v) \/ Ends(v),
           NEW r \in Requests, Protected(r)'
    PROVE  UsableOK(r)'
<1>0. /\ UNCHANGED <<now, window, req>> /\ req[r].phone \in Phones /\ ver[v].phone \in Phones
      /\ now \in Nat /\ ver'[v].phone = ver[v].phone
      /\ \A u \in Verifies \ {v} : ver'[u] = ver[u]
      /\ MaxAttempts \in Nat /\ HalfSecond \in Nat /\ HalfSecond' = HalfSecond
    BY ConstantsAssumption DEF VerMoves, Base, TypeOK, HalfSecond
<1>s. /\ code \in [Phones -> LoginCode \cup {NoCode}] /\ disturbed \subseteq Requests
      /\ NoCode \in LoginCode \cup {NoCode}
    BY DEF Base, TypeOK
<1>1. /\ wrong[r] \in Nat /\ wrong'[r] \in Nat /\ wrong[r] <= wrong'[r]
      /\ used[r] \in Nat /\ used'[r] \in Nat /\ used[r] <= used'[r]
    BY TalliesGrow
<1>d. /\ Deadline(r) \in Int /\ Deadline(r)' \in Int /\ Deadline(r)' <= Deadline(r)
      /\ wrong'[r] = wrong[r] + 1 => Deadline(r)' = Deadline(r) - HalfSecond
    BY <1>0, <1>1, DeadlineFalls
<1>2. disturbed \subseteq disturbed'
    <2>1. CASE UNCHANGED <<code, disturbed>>
        BY <2>1
    <2>2. CASE Store(ver[v].phone, NoCode, {ver[v].stored.by})
        BY <1>s, <1>0, <2>2, StoreEffect
    <2>3. CASE ver[v].pc = "count" /\ Store(ver[v].phone, Counted(v), {ver[v].stored.by})
        BY <1>s, <1>0, <2>3, CountedType, StoreEffect
    <2> QED
        BY <2>1, <2>2, <2>3 DEF Reads, FindsRight, FindsWrong, Deals, Ends
<1>3. /\ req[r].pc \in {"sms", "sent"} /\ now < Deadline(r) /\ used'[r] = 0
      /\ wrong'[r] < MaxAttempts /\ r \notin disturbed' /\ NoneNewer(r)
    BY <1>0, <1>d DEF Protected, NoneNewer, Older
<1>4. UsableOK(r)
    <2>1. Protected(r)
        BY <1>0, <1>1, <1>2, <1>3 DEF Protected
    <2> QED
        BY <2>1 DEF UsableInv
<1>5. /\ code[req[r].phone] # NoCode /\ code[req[r].phone].by = r
      /\ Deadline(r) <= code[req[r].phone].until
    BY <1>4 DEF UsableOK, HasCode
<1>6. code[req[r].phone].until \in Nat
    BY <1>0, <1>5, Kept
<1>7. /\ code'[req[r].phone] # NoCode /\ code'[req[r].phone].by = r
      /\ Deadline(r) <= code'[req[r].phone].until /\ code'[req[r].phone].until \in Nat
    <2>1. CASE UNCHANGED <<code, disturbed>>
        BY <1>5, <1>6, <2>1
    <2>2. CASE Deals(v) /\ ver[v].pc # "count" /\ Store(ver[v].phone, NoCode, {ver[v].stored.by})
        <3>1. /\ \A p \in Phones \ {ver[v].phone} : code'[p] = code[p]
              /\ code[ver[v].phone] # NoCode => code[ver[v].phone].by \in {ver[v].stored.by} \cup disturbed'
            BY <1>s, <1>0, <2>2, StoreEffect
        <3>2. CASE ver[v].phone # req[r].phone
            BY <1>0, <1>5, <1>6, <3>1, <3>2
        <3>3. CASE ver[v].phone = req[r].phone
            <4>1. ver[v].stored.by = r /\ UNCHANGED <<wrong, used>>
                BY <1>3, <1>5, <2>2, <3>1, <3>3 DEF Deals
            <4>2. CASE ver[v].pc = "consume"
                BY <1>3, <4>1, <4>2 DEF TallyInv, Holding
            <4>3. CASE ver[v].pc = "burn"
                <5>1. ver[v].stored.attempts + 1 <= wrong[r] /\ Exhausted(ver[v].stored)
                    BY <4>1, <4>3 DEF TallyInv, Holding
                <5>2. ver[v].stored.attempts \in Nat
                    BY <4>3, Held DEF Holding
                <5> QED
                    BY <1>0, <1>1, <1>3, <4>1, <5>1, <5>2 DEF Exhausted
            <4> QED
                BY <2>2, <4>2, <4>3 DEF Deals
        <3> QED
            BY <3>2, <3>3
    <2>3. CASE ver[v].pc = "count" /\ Store(ver[v].phone, Counted(v), {ver[v].stored.by})
        <3>1. /\ \A p \in Phones \ {ver[v].phone} : code'[p] = code[p]
              /\ code[ver[v].phone] # NoCode => code[ver[v].phone].by \in {ver[v].stored.by} \cup disturbed'
              /\ code'[ver[v].phone] = Counted(v)
            BY <1>s, <1>0, <2>3, CountedType, StoreEffect
        <3>2. CASE ver[v].phone # req[r].phone
            BY <1>0, <1>5, <1>6, <3>1, <3>2
        <3>3. CASE ver[v].phone = req[r].phone
            <4>1. ver[v].stored.by = r
                BY <1>3, <1>5, <3>1, <3>3
            <4>2. Deadline(r) <= now + ver[v].ttl
                BY <1>4, <2>3, <4>1 DEF UsableOK, Holds, Holding
            <4>3. /\ Counted(v) # NoCode /\ Counted(v).by = r
                  /\ Counted(v).until = now + ver[v].ttl /\ ver[v].ttl \in Nat
                BY <2>3, <4>1, CountedType, NoCodeAssumption DEF Base, TypeOK
            <4> QED
                BY <1>0, <3>1, <3>3, <4>2, <4>3
        <3> QED
            BY <3>2, <3>3
    <2> QED
        BY <2>1, <2>2, <2>3 DEF Reads, FindsRight, FindsWrong, Deals, Ends
<1>8. \A u \in Verifies :
          Holds(u, r)' /\ ver'[u].pc = "count" => Deadline(r)' <= now + ver'[u].ttl
    <2> SUFFICES ASSUME NEW u \in Verifies, Holds(u, r)', ver'[u].pc = "count"
                 PROVE  Deadline(r)' <= now + ver'[u].ttl
        OBVIOUS
    <2>1. CASE u # v
        <3>1. Deadline(r) <= now + ver'[u].ttl /\ ver'[u].ttl \in Nat
            BY <1>0, <1>4, <2>1 DEF UsableOK, Holds, Base, TypeOK
        <3> QED
            BY <1>0, <1>d, <3>1
    <2>2. CASE u = v
        <3>1. /\ ver[v].pc = "ttl" /\ ver'[v].stored = ver[v].stored /\ ver'[v].ttl = Left(v)
              /\ FindsWrong(v)
            BY <2>2 DEF Reads, FindsRight, FindsWrong, Deals, Ends
        <3>2. ver[v].stored.by = r /\ ver[v].phone = req[r].phone
            BY <2>2, <3>1 DEF Holds, OriginInv, SavedBy, Holding
        <3>3. code[req[r].phone].until <= now + Left(v) + HalfSecond /\ Left(v) \in Nat
            BY <1>5, <3>2, LeftType
        <3>4. Deadline(r)' = Deadline(r) - HalfSecond
            BY <1>d, <3>1, <3>2, Tallies
        <3> QED
            BY <1>0, <1>d, <1>5, <1>6, <2>2, <3>1, <3>3, <3>4
    <2> QED
        BY <2>1, <2>2
<1>9. free'[r] > 0 => Deadline(r)' <= now + HalfSecond
    <2>1. CASE free'[r] = free[r]
        <3>1. free[r] > 0 => Deadline(r) <= now + HalfSecond
            BY <1>4 DEF UsableOK
        <3> QED
            BY <1>0, <1>d, <2>1, <3>1
    <2>2. CASE free'[r] # free[r]
        <3>1. Spares(v) /\ ver[v].stored.by = r
            BY <2>2 DEF Reads, FindsRight, FindsWrong, Deals, Ends, Spares
        <3>2. ver[v].phone = req[r].phone /\ Left(v) = 0
            BY <3>1 DEF Spares, OriginInv, SavedBy, Holding
        <3>3. code[req[r].phone].until <= now + HalfSecond
            BY <1>0, <1>5, <1>6, <3>2, LeftType
        <3> QED
            BY <1>0, <1>d, <1>5, <1>6, <3>3
    <2> QED
        BY <2>1, <2>2
<1>10. Deadline(r)' <= code'[req[r].phone].until
    BY <1>d, <1>7
<1> QED
    BY <1>0, <1>7, <1>8, <1>9, <1>10 DEF UsableOK, HasCode

\* A step of any call leaves the code of the last SMS in place.
LEMMA UsableStep ==
    Base /\ OriginInv /\ SpacedInv /\ TallyInv /\ UsableInv /\ [Next]_vars => UsableInv'
<1> SUFFICES ASSUME Base, OriginInv, SpacedInv, TallyInv, UsableInv, [Next]_vars,
                    NEW r \in Requests, Protected(r)'
             PROVE  UsableOK(r)'
    BY DEF UsableInv
<1>0. TypeOK
    BY DEF Base
<1>1. ASSUME NEW q \in Requests, RequestCode(q) PROVE UsableOK(r)'
    <2>1. ReqMoves(q) /\ Moves(q)
        BY <1>0, <1>1, RequestMoves
    <2> QED
        BY <2>1, UsableOther, UsableOwn
<1>2. ASSUME NEW v \in Verifies, VerifyCode(v) PROVE UsableOK(r)'
    BY <1>2, VerifyMoves, UsableVerify
<1>3. CASE Tick
    <2>1. /\ now' = now + 1 /\ UNCHANGED <<req, ver, wrong, free, used, disturbed>>
          /\ \A p \in Phones : code[p] # NoCode /\ now' < code[p].until => code'[p] = code[p]
        BY <1>0, <1>3, TickEffect
    <2>2. /\ now \in Nat /\ req[r].phone \in Phones /\ HalfSecond \in Nat
          /\ wrong[r] \in Nat /\ \A v \in Verifies : ver[v].ttl \in Nat
        BY <1>0, ConstantsAssumption DEF TypeOK, HalfSecond
    <2>d. Deadline(r)' = Deadline(r) /\ Deadline(r) \in Int /\ HalfSecond' = HalfSecond
        <3>1. Deadline(r) \in Int
            BY <2>1, <2>2, DeadlineFalls
        <3> QED
            BY <2>1, <3>1 DEF Deadline, HalfSecond
    <2>3. now' < Deadline(r)
        BY <2>d DEF Protected
    <2>4. Protected(r)
        BY <2>1, <2>2, <2>3, <2>d DEF Protected, NoneNewer, Older
    <2>5. UsableOK(r)
        BY <2>4 DEF UsableInv
    <2>6. code[req[r].phone] # NoCode /\ code[req[r].phone].until \in Nat
          /\ Deadline(r) <= code[req[r].phone].until
        BY <2>2, <2>5, Kept DEF UsableOK, HasCode
    <2>7. code'[req[r].phone] = code[req[r].phone]
        BY <2>1, <2>2, <2>3, <2>d, <2>6
    <2>8. \A v \in Verifies : Holds(v, r) /\ ver[v].pc = "count" => Deadline(r) <= now' + ver[v].ttl
        BY <2>1, <2>2, <2>d, <2>5 DEF UsableOK
    <2>9. free[r] > 0 => Deadline(r) <= now' + HalfSecond
        BY <2>1, <2>2, <2>d, <2>5 DEF UsableOK
    <2> QED
        BY <2>1, <2>5, <2>7, <2>8, <2>9, <2>d DEF UsableOK, HasCode, Holds
<1>4. CASE UNCHANGED vars
    <2>d. Deadline(r)' = Deadline(r) /\ HalfSecond' = HalfSecond
        BY <1>4 DEF Deadline, HalfSecond, vars
    <2>1. Protected(r)
        BY <1>4, <2>d DEF Protected, NoneNewer, Older, vars
    <2>2. UsableOK(r)
        BY <2>1 DEF UsableInv
    <2> QED
        BY <1>4, <2>2, <2>d DEF UsableOK, HasCode, Holds, vars
<1> QED
    BY <1>1, <1>2, <1>3, <1>4 DEF Next

----------------------------------------------------------------------------
(* The hourly throttles.                                                   *)

\* Hours that have passed whole are no more than the hours that have begun.
LEMMA Quotient ==
    ASSUME NEW n \in Nat, NEW h \in Nat \ {0}, NEW m \in Nat, m * h <= n
    PROVE  n \div h \in Nat /\ m <= n \div h
OBVIOUS

\* m windows of an hour have ended by time t, and each, like the one that is
\* running, has let through at most `limit' requests.
Windows == [n : Nat, until : Nat]
Let(n, limit) == IF n <= limit THEN n ELSE limit
HourOK(w, t, S, limit) ==
    /\ IsFiniteSet(S)
    /\ w.n > 0 => t < w.until /\ w.until <= t + Hour
    /\ \E m \in Nat : /\ IF w.n > 0 THEN m * Hour + Hour <= w.until ELSE m * Hour <= t
                      /\ Cardinality(S) <= limit * m + Let(w.n, limit)

\* Nobody uses the throttle.
LEMMA HourKept ==
    ASSUME NEW w \in Windows, NEW t \in Nat, NEW limit \in Nat,
           NEW S, NEW T \in SUBSET S, HourOK(w, t, S, limit)
    PROVE  HourOK(w, t, T, limit)
<1>1. IsFiniteSet(S)
    BY DEF HourOK
<1>2. /\ IsFiniteSet(T) /\ Cardinality(T) <= Cardinality(S)
      /\ Cardinality(T) \in Nat /\ Cardinality(S) \in Nat
    BY <1>1, FS_Subset, FS_CardinalityType
<1>3. PICK m \in Nat : /\ IF w.n > 0 THEN m * Hour + Hour <= w.until ELSE m * Hour <= t
                       /\ Cardinality(S) <= limit * m + Let(w.n, limit)
    BY DEF HourOK
<1>4. limit * m \in Nat /\ Let(w.n, limit) \in Nat
    BY Distributes DEF Let, Windows
<1>5. Cardinality(T) <= limit * m + Let(w.n, limit)
    BY <1>2, <1>3, <1>4
<1> QED
    BY <1>2, <1>3, <1>5 DEF HourOK

\* One more use: the request it lets through is within the limit.
LEMMA HourUsed ==
    ASSUME NEW w \in Windows, NEW u \in Windows, NEW t \in Nat, NEW limit \in Nat,
           NEW S, NEW r, NEW T \in SUBSET (S \cup {r}), HourOK(w, t, S, limit),
           u.n = w.n + 1, u.until = IF w.n = 0 THEN t + Hour ELSE w.until,
           T \subseteq S \/ w.n + 1 <= limit
    PROVE  HourOK(u, t, T, limit)
<1>h. Hour \in Nat \ {0} /\ w.n \in Nat /\ w.until \in Nat
    BY ConstantsAssumption DEF Windows
<1>1. IsFiniteSet(S) /\ Cardinality(S) \in Nat
    BY FS_CardinalityType DEF HourOK
<1>2. PICK m \in Nat : /\ IF w.n > 0 THEN m * Hour + Hour <= w.until ELSE m * Hour <= t
                       /\ Cardinality(S) <= limit * m + Let(w.n, limit)
    BY DEF HourOK
<1>3. limit * m \in Nat /\ m * Hour \in Nat
    BY <1>h, Distributes
<1>4. IsFiniteSet(T) /\ Cardinality(T) \in Nat /\ Cardinality(T) <= limit * m + Let(u.n, limit)
    <2>1. CASE T \subseteq S
        <3>1. IsFiniteSet(T) /\ Cardinality(T) <= Cardinality(S)
            BY <1>1, <2>1, FS_Subset
        <3>2. Cardinality(T) \in Nat
            BY <3>1, FS_CardinalityType
        <3>3. Let(w.n, limit) <= Let(u.n, limit) /\ Let(w.n, limit) \in Nat /\ Let(u.n, limit) \in Nat
            BY <1>h DEF Let
        <3> QED
            BY <1>1, <1>2, <1>3, <3>1, <3>2, <3>3
    <2>2. CASE w.n + 1 <= limit
        <3>1. IsFiniteSet(S \cup {r}) /\ Cardinality(S \cup {r}) <= Cardinality(S) + 1
            <4>1. CASE r \in S
                <5>1. S \cup {r} = S
                    BY <4>1
                <5> QED
                    BY <1>1, <5>1
            <4>2. CASE r \notin S
                <5>1. /\ IsFiniteSet(S \cup {r})
                      /\ Cardinality(S \cup {r}) = IF r \in S THEN Cardinality(S) ELSE Cardinality(S) + 1
                    BY <1>1, FS_AddElement, Zenon
                <5>2. Cardinality(S \cup {r}) = Cardinality(S) + 1
                    BY <4>2, <5>1
                <5> QED
                    BY <1>1, <5>1, <5>2
            <4> QED
                BY <4>1, <4>2
        <3>2. Cardinality(S \cup {r}) \in Nat
            BY <3>1, FS_CardinalityType
        <3>3. IsFiniteSet(T) /\ Cardinality(T) <= Cardinality(S \cup {r})
            BY <3>1, FS_Subset
        <3>4. Cardinality(T) \in Nat
            BY <3>3, FS_CardinalityType
        <3>5. Let(w.n, limit) = w.n /\ Let(u.n, limit) = w.n + 1
            BY <1>h, <2>2 DEF Let
        <3> QED
            BY <1>h, <1>1, <1>2, <1>3, <3>1, <3>2, <3>3, <3>4, <3>5
    <2> QED
        BY <2>1, <2>2
<1>5. u.n > 0 /\ t < u.until /\ u.until <= t + Hour /\ m * Hour + Hour <= u.until
    BY <1>h, <1>2, <1>3 DEF HourOK
<1> QED
    BY <1>4, <1>5 DEF HourOK

\* A window ends when its hour is over, and makes room for the next one.
LEMMA HourTick ==
    ASSUME NEW w \in Windows, NEW t \in Nat, NEW limit \in Nat, NEW S,
           HourOK(w, t, S, limit), NEW u,
           u = IF w.until <= t + 1 THEN Unused ELSE w
    PROVE  HourOK(u, t + 1, S, limit)
<1>h. Hour \in Nat \ {0} /\ w.n \in Nat /\ w.until \in Nat
    BY ConstantsAssumption DEF Windows
<1>1. IsFiniteSet(S) /\ Cardinality(S) \in Nat
    BY FS_CardinalityType DEF HourOK
<1>2. PICK m \in Nat : /\ IF w.n > 0 THEN m * Hour + Hour <= w.until ELSE m * Hour <= t
                       /\ Cardinality(S) <= limit * m + Let(w.n, limit)
    BY DEF HourOK
<1>3. limit * m \in Nat /\ m * Hour \in Nat /\ (m + 1) * Hour = m * Hour + Hour
      /\ limit * (m + 1) = limit * m + limit
    BY <1>h, Distributes
<1>4. CASE w.n > 0 /\ w.until <= t + 1
    <2>1. u.n = 0
        BY <1>4 DEF Unused
    <2>2. (m + 1) * Hour <= t + 1
        BY <1>h, <1>2, <1>3, <1>4
    <2>3. Let(w.n, limit) <= limit /\ Let(w.n, limit) \in Nat /\ Let(0, limit) = 0
        BY <1>h DEF Let
    <2>4. Cardinality(S) <= limit * (m + 1) + Let(0, limit)
        BY <1>1, <1>2, <1>3, <2>3
    <2>5. m + 1 \in Nat
        OBVIOUS
    <2> QED
        BY <1>1, <2>1, <2>2, <2>4, <2>5 DEF HourOK
<1>5. CASE w.n = 0
    <2>1. u.n = 0
        BY <1>5 DEF Unused
    <2>2. m * Hour <= t + 1
        BY <1>h, <1>2, <1>3, <1>5
    <2> QED
        BY <1>1, <1>2, <1>5, <2>1, <2>2 DEF HourOK
<1>6. CASE w.n > 0 /\ ~(w.until <= t + 1)
    <2>1. u = w
        BY <1>6
    <2>2. t + 1 < w.until /\ w.until <= t + 1 + Hour
        BY <1>h, <1>6 DEF HourOK
    <2> QED
        BY <1>1, <1>2, <1>6, <2>1, <2>2 DEF HourOK
<1> QED
    BY <1>h, <1>4, <1>5, <1>6

\* The limit counts for every hour that has begun.
LEMMA HourBounds ==
    ASSUME NEW w \in Windows, NEW t \in Nat, NEW limit \in Nat, NEW S,
           HourOK(w, t, S, limit)
    PROVE  Cardinality(S) <= limit * (1 + t \div Hour)
<1>h. Hour \in Nat \ {0} /\ w.n \in Nat /\ w.until \in Nat
    BY ConstantsAssumption DEF Windows
<1>1. Cardinality(S) \in Nat
    BY FS_CardinalityType DEF HourOK
<1>2. PICK m \in Nat : /\ IF w.n > 0 THEN m * Hour + Hour <= w.until ELSE m * Hour <= t
                       /\ Cardinality(S) <= limit * m + Let(w.n, limit)
    BY DEF HourOK
<1>3. m * Hour \in Nat
    BY <1>h, Distributes
<1>4. m * Hour <= t
    BY <1>h, <1>2, <1>3 DEF HourOK
<1>5. t \div Hour \in Nat /\ m <= t \div Hour
    BY <1>h, <1>4, Quotient
<1>6. m + 1 <= 1 + t \div Hour /\ m + 1 \in Nat /\ 1 + t \div Hour \in Nat
    BY <1>5
<1>7. limit * (m + 1) <= limit * (1 + t \div Hour)
    BY <1>6, Monotone
<1>8. limit * m \in Nat /\ limit * (m + 1) = limit * m + limit /\ limit * (1 + t \div Hour) \in Nat
    BY <1>6, Distributes
<1>9. Let(w.n, limit) <= limit /\ Let(w.n, limit) \in Nat
    BY <1>h DEF Let
<1> QED
    BY <1>1, <1>2, <1>7, <1>8, <1>9

\* The requests that a phone's hourly throttle, and an address's, let through.
Through == {r \in Requests : req[r].pc \in {"ip", "save", "sms", "drop", "sent"}}
OfPhone(p) == {r \in Through : req[r].phone = p}
OfIP(i) == {r \in Admitted : req[r].ip = i}
HourInv ==
    /\ \A p \in Phones : HourOK(window[<<"send-hour", p>>], now, OfPhone(p), PhoneLimit)
    /\ \A i \in IPs : HourOK(window[<<"send-ip", i>>], now, OfIP(i), IPLimit)

\* What a step of RequestCode does to the hourly window of a phone.
LEMMA PhoneHour ==
    ASSUME Base, NEW r \in Requests, RequestCode(r), NEW p \in Phones,
           HourOK(window[<<"send-hour", p>>], now, OfPhone(p), PhoneLimit)
    PROVE  HourOK(window'[<<"send-hour", p>>], now, OfPhone(p)', PhoneLimit)
<1> DEFINE k == <<"send-hour", p>>
<1>0. /\ TypeOK /\ now \in Nat /\ Hour \in Nat /\ PhoneLimit \in Nat
      /\ k \in Keys /\ window[k] \in Windows
      /\ <<"send", req[r].phone>> \in Keys /\ <<"send-ip", req[r].ip>> \in Keys
      /\ <<"send-hour", req[r].phone>> \in Keys
    BY ConstantsAssumption, KeyType DEF Base, TypeOK, Windows
<1>1. ReqMoves(r) /\ Moves(r) /\ Throttles(r)
    BY <1>0, RequestMoves, RequestThrottles
<1>2. /\ window'[k] \in Windows /\ req'[r].phone = req[r].phone
      /\ \A q \in Requests \ {r} : req'[q] = req[q]
    BY <1>0, <1>1 DEF ReqMoves, Windows
<1>3. \A q \in OfPhone(p)' : q # r => q \in OfPhone(p)
    BY <1>2 DEF OfPhone, Through
<1>4. CASE window'[k] = window[k] /\ ~(req[r].pc = "hour" /\ req'[r].pc = "ip")
    <2>1. r \in OfPhone(p)' => r \in OfPhone(p)
        BY <1>1, <1>2, <1>4 DEF OfPhone, Through, Moves, Throttles, Early
    <2>2. OfPhone(p)' \subseteq OfPhone(p)
        BY <1>3, <2>1
    <2> QED
        BY <1>0, <1>4, <2>2, HourKept
<1>5. CASE Uses(k, Hour)
    <2>1. /\ window'[k].n = window[k].n + 1
          /\ window'[k].until = IF window[k].n = 0 THEN now + Hour ELSE window[k].until
        BY <1>5 DEF Uses
    <2>2. OfPhone(p)' \subseteq OfPhone(p) \cup {r}
        BY <1>3
    <2>3. r \in OfPhone(p)' /\ r \notin OfPhone(p) => /\ req[r].pc = "hour" /\ req'[r].pc = "ip"
                                                      /\ req[r].phone = p
        BY <1>1, <1>2 DEF OfPhone, Through, Moves, Throttles, Early
    <2>4. req[r].pc = "hour" /\ req'[r].pc = "ip" /\ req[r].phone = p => window[k].n + 1 <= PhoneLimit
        BY <1>1 DEF Throttles, Within, Early
    <2>5. OfPhone(p)' \subseteq OfPhone(p) \/ window[k].n + 1 <= PhoneLimit
        BY <1>3, <2>3, <2>4
    <2> QED
        BY <1>0, <1>2, <2>1, <2>2, <2>5, HourUsed
<1>6. \/ window'[k] = window[k] /\ ~(req[r].pc = "hour" /\ req'[r].pc = "ip")
      \/ Uses(k, Hour)
      \/ /\ req[r].pc = "hour" /\ Uses(<<"send-hour", req[r].phone>>, Hour)
         /\ window'[k] = window[k] /\ p # req[r].phone
    <2>1. CASE UNCHANGED window /\ (req[r].pc \in Early => req'[r].pc = "failed")
        BY <2>1 DEF Early
    <2>2. CASE req[r].pc = "idle" /\ Uses(<<"send", req[r].phone>>, Cooldown)
        BY <1>0, <2>2 DEF Uses
    <2>3. CASE req[r].pc = "hour" /\ Uses(<<"send-hour", req[r].phone>>, Hour)
        BY <1>0, <2>3 DEF Uses
    <2>4. CASE req[r].pc = "ip" /\ Uses(<<"send-ip", req[r].ip>>, Hour)
        BY <1>0, <2>4 DEF Uses
    <2> QED
        BY <1>1, <2>1, <2>2, <2>3, <2>4 DEF Throttles
<1>7. CASE window'[k] = window[k] /\ p # req[r].phone
    <2>1. OfPhone(p)' \subseteq OfPhone(p)
        BY <1>2, <1>3, <1>7 DEF OfPhone
    <2> QED
        BY <1>0, <1>7, <2>1, HourKept
<1> QED
    BY <1>4, <1>5, <1>6, <1>7

\* What it does to the window of an address.
LEMMA AddressHour ==
    ASSUME Base, NEW r \in Requests, RequestCode(r), NEW i \in IPs,
           HourOK(window[<<"send-ip", i>>], now, OfIP(i), IPLimit)
    PROVE  HourOK(window'[<<"send-ip", i>>], now, OfIP(i)', IPLimit)
<1> DEFINE k == <<"send-ip", i>>
<1>0. /\ TypeOK /\ now \in Nat /\ Hour \in Nat /\ IPLimit \in Nat
      /\ k \in Keys /\ window[k] \in Windows
      /\ <<"send", req[r].phone>> \in Keys /\ <<"send-ip", req[r].ip>> \in Keys
      /\ <<"send-hour", req[r].phone>> \in Keys
    BY ConstantsAssumption, KeyType DEF Base, TypeOK, Windows
<1>1. ReqMoves(r) /\ Moves(r) /\ Throttles(r)
    BY <1>0, RequestMoves, RequestThrottles
<1>2. /\ window'[k] \in Windows /\ req'[r].ip = req[r].ip
      /\ \A q \in Requests \ {r} : req'[q] = req[q]
    BY <1>0, <1>1 DEF ReqMoves, Windows
<1>3. \A q \in OfIP(i)' : q # r => q \in OfIP(i)
    BY <1>2 DEF OfIP, Admitted
<1>4. CASE window'[k] = window[k] /\ ~(req[r].pc = "ip" /\ req'[r].pc = "save")
    <2>1. r \in OfIP(i)' => r \in OfIP(i)
        BY <1>1, <1>2, <1>4 DEF OfIP, Admitted, Moves, Throttles, Early
    <2>2. OfIP(i)' \subseteq OfIP(i)
        BY <1>3, <2>1
    <2> QED
        BY <1>0, <1>4, <2>2, HourKept
<1>5. CASE Uses(k, Hour)
    <2>1. /\ window'[k].n = window[k].n + 1
          /\ window'[k].until = IF window[k].n = 0 THEN now + Hour ELSE window[k].until
        BY <1>5 DEF Uses
    <2>2. OfIP(i)' \subseteq OfIP(i) \cup {r}
        BY <1>3
    <2>3. r \in OfIP(i)' /\ r \notin OfIP(i) => /\ req[r].pc = "ip" /\ req'[r].pc = "save"
                                                /\ req[r].ip = i
        BY <1>1, <1>2 DEF OfIP, Admitted, Moves, Throttles, Early
    <2>4. req[r].pc = "ip" /\ req'[r].pc = "save" /\ req[r].ip = i => window[k].n + 1 <= IPLimit
        BY <1>1 DEF Throttles, Within, Early
    <2>5. OfIP(i)' \subseteq OfIP(i) \/ window[k].n + 1 <= IPLimit
        BY <1>3, <2>3, <2>4
    <2> QED
        BY <1>0, <1>2, <2>1, <2>2, <2>5, HourUsed
<1>6. \/ window'[k] = window[k] /\ ~(req[r].pc = "ip" /\ req'[r].pc = "save")
      \/ Uses(k, Hour)
      \/ /\ req[r].pc = "ip" /\ Uses(<<"send-ip", req[r].ip>>, Hour)
         /\ window'[k] = window[k] /\ i # req[r].ip
    <2>1. CASE UNCHANGED window /\ (req[r].pc \in Early => req'[r].pc = "failed")
        BY <2>1 DEF Early
    <2>2. CASE req[r].pc = "idle" /\ Uses(<<"send", req[r].phone>>, Cooldown)
        BY <1>0, <2>2 DEF Uses
    <2>3. CASE req[r].pc = "hour" /\ Uses(<<"send-hour", req[r].phone>>, Hour)
        BY <1>0, <2>3 DEF Uses
    <2>4. CASE req[r].pc = "ip" /\ Uses(<<"send-ip", req[r].ip>>, Hour)
        BY <1>0, <2>4 DEF Uses
    <2> QED
        BY <1>1, <2>1, <2>2, <2>3, <2>4 DEF Throttles
<1>7. CASE window'[k] = window[k] /\ i # req[r].ip
    <2>1. OfIP(i)' \subseteq OfIP(i)
        BY <1>2, <1>3, <1>7 DEF OfIP
    <2> QED
        BY <1>0, <1>7, <2>1, HourKept
<1> QED
    BY <1>4, <1>5, <1>6, <1>7

\* A step keeps the hourly throttles.
LEMMA HourStep == Base /\ HourInv /\ [Next]_vars => HourInv'
<1> SUFFICES ASSUME Base, HourInv, [Next]_vars PROVE HourInv'
    OBVIOUS
<1>0. /\ TypeOK /\ now \in Nat /\ PhoneLimit \in Nat /\ IPLimit \in Nat
      /\ \A k \in Keys : window[k] \in Windows
      /\ \A p \in Phones : <<"send-hour", p>> \in Keys
      /\ \A i \in IPs : <<"send-ip", i>> \in Keys
    BY ConstantsAssumption DEF Base, TypeOK, Windows, Keys
<1>1. ASSUME NEW r \in Requests, RequestCode(r) PROVE HourInv'
    <2>1. now' = now
        BY <1>0, <1>1, RequestMoves DEF ReqMoves
    <2>2. \A p \in Phones : HourOK(window'[<<"send-hour", p>>], now, OfPhone(p)', PhoneLimit)
        BY <1>1, PhoneHour DEF HourInv
    <2>3. \A i \in IPs : HourOK(window'[<<"send-ip", i>>], now, OfIP(i)', IPLimit)
        BY <1>1, AddressHour DEF HourInv
    <2> QED
        BY <2>1, <2>2, <2>3 DEF HourInv
<1>2. ASSUME NEW v \in Verifies, VerifyCode(v) PROVE HourInv'
    <2>1. UNCHANGED <<now, window, req>>
        BY <1>2, VerifyMoves DEF VerMoves
    <2> QED
        BY <2>1 DEF HourInv, OfPhone, OfIP, Through, Admitted
<1>3. CASE Tick
    <2>1. /\ now' = now + 1 /\ UNCHANGED req
          /\ \A k \in Keys : window'[k] = IF window[k].until <= now + 1 THEN Unused ELSE window[k]
        BY <1>0, <1>3, TickEffect
    <2>2. \A p \in Phones : OfPhone(p)' = OfPhone(p)
        BY <2>1 DEF OfPhone, Through
    <2>3. \A i \in IPs : OfIP(i)' = OfIP(i)
        BY <2>1 DEF OfIP, Admitted
    <2>4. \A p \in Phones : HourOK(window'[<<"send-hour", p>>], now + 1, OfPhone(p), PhoneLimit)
        BY <1>0, <2>1, HourTick DEF HourInv
    <2>5. \A i \in IPs : HourOK(window'[<<"send-ip", i>>], now + 1, OfIP(i), IPLimit)
        BY <1>0, <2>1, HourTick DEF HourInv
    <2> QED
        BY <2>1, <2>2, <2>3, <2>4, <2>5 DEF HourInv
<1>4. CASE UNCHANGED vars
    BY <1>4 DEF HourInv, OfPhone, OfIP, Through, Admitted, vars
<1> QED
    BY <1>1, <1>2, <1>3, <1>4 DEF Next

----------------------------------------------------------------------------
(* The theorems.                                                           *)

\* At the start nothing has been asked for, guessed or counted.
LEMMA InitInvs == Init => OriginInv /\ SpacedInv /\ TallyInv /\ UsableInv /\ HourInv
<1> SUFFICES ASSUME Init PROVE OriginInv /\ SpacedInv /\ TallyInv /\ UsableInv /\ HourInv
    OBVIOUS
<1>1. /\ now = 0
      /\ \A p \in Phones : code[p] = NoCode
      /\ \A v \in Verifies : ver[v].pc = "idle"
      /\ \A r \in Requests : wrong[r] = 0 /\ free[r] = 0 /\ used[r] = 0 /\ req[r].pc = "idle"
    BY DEF Init
<1>2. OriginInv /\ SpacedInv /\ TallyInv /\ UsableInv
    BY <1>1 DEF OriginInv, SpacedInv, TallyInv, UsableInv, Protected, Passed, Holding
<1>3. /\ \A p \in Phones : OfPhone(p) = {}
      /\ \A i \in IPs : OfIP(i) = {}
    BY <1>1 DEF OfPhone, OfIP, Through, Admitted
<1>4. \A k \in Keys : window[k] = Unused
    BY DEF Init
<1>5. ASSUME NEW limit \in Nat \ {0} PROVE HourOK(Unused, 0, {}, limit)
    <2>1. IsFiniteSet({}) /\ Cardinality({}) = 0
        BY FS_EmptySet
    <2>2. limit * 0 = 0 /\ 0 * Hour = 0 /\ Let(0, limit) = 0
        BY <1>5, ConstantsAssumption DEF Let
    <2>3. Unused.n = 0
        BY DEF Unused
    <2>4. \E m \in Nat : m * Hour <= 0 /\ Cardinality({}) <= limit * m + Let(0, limit)
        <3>1. 0 \in Nat /\ 0 * Hour <= 0 /\ Cardinality({}) <= limit * 0 + Let(0, limit)
            BY <2>1, <2>2
        <3> QED
            BY <3>1, Zenon
    <2> QED
        BY <2>1, <2>3, <2>4 DEF HourOK
<1>6. HourInv
    BY <1>1, <1>3, <1>4, <1>5, ConstantsAssumption DEF HourInv, Keys
<1> QED
    BY <1>2, <1>6

\* SentCodeUsable for every instance: whatever the calls of other customers,
\* replicas and retries do in between, the code of the last SMS stays stored
\* with its lifetime, less half a second for each guess charged, as long as its guesses last and no call about
\* another code of the phone deletes or writes by phone.
THEOREM SentCodeStaysUsable == Spec => []SentCodeUsable
<1> DEFINE All == OriginInv /\ SpacedInv /\ TallyInv /\ UsableInv
<1>1. Init => All
    BY InitInvs
<1>2. All /\ Base /\ [Next]_vars => All'
    BY OriginStep, SpacedStep, TallyStep, UsableStep
<1>3. All => SentCodeUsable
    <2> SUFFICES ASSUME UsableInv PROVE SentCodeUsable
        OBVIOUS
    <2> QED
        BY DEF UsableInv, UsableOK, HasCode, SentCodeUsable, Assured, Protected, NoneNewer, Unsaved
<1> HIDE DEF All
<1> QED
    BY <1>1, <1>2, <1>3, BaseCorrect, PTL DEF Spec

\* GuessesBounded for every instance: MaxAttempts bounds the wrong guesses that
\* a code is charged with, and a code signs in once, as long as VerifyCode's
\* calls on it do not overlap and its writes are executed; and whatever calls
\* do, the code of the last SMS spares no wrong guess before its last half
\* second.
THEOREM GuessesAreBounded == Spec => []GuessesBounded
<1> DEFINE All == OriginInv /\ SpacedInv /\ TallyInv /\ UsableInv
<1>1. Init => All /\ CounterInv
    <2> SUFFICES ASSUME Init PROVE CounterInv
        BY InitInvs
    <2>1. /\ \A p \in Phones : code[p] = NoCode
          /\ \A v \in Verifies : ver[v].pc = "idle"
          /\ \A r \in Requests : wrong[r] = 0 /\ used[r] = 0
        BY DEF Init
    <2> QED
        BY <2>1, ConstantsAssumption DEF CounterInv, CounterOK, Holds, HasCode, Holding
<1>2. All /\ CounterInv /\ Base /\ [Next]_vars => (All /\ CounterInv)'
    BY OriginStep, SpacedStep, TallyStep, UsableStep, CounterStep
<1>3. UsableInv /\ CounterInv => GuessesBounded
    <2> SUFFICES ASSUME UsableInv, CounterInv, NEW r \in Requests
                 PROVE  /\ r \in lax \/ (wrong[r] <= MaxAttempts /\ used[r] <= 1)
                        /\ Assured(r) /\ free[r] > 0 => Deadline(r) <= now + HalfSecond
        BY DEF GuessesBounded
    <2>1. r \in lax \/ (wrong[r] <= MaxAttempts /\ used[r] <= 1)
        BY DEF CounterInv, CounterOK
    <2>2. Assured(r) => UsableOK(r)
        BY DEF UsableInv, Assured, Protected, NoneNewer, Unsaved
    <2> QED
        BY <2>1, <2>2 DEF UsableOK
<1> QED
    BY <1>1, <1>2, <1>3, BaseCorrect, PTL DEF Spec

\* SendsThrottled for every instance: calls that race through the throttles
\* of RequestCode get no more codes than one per phone and cooldown, and the
\* limits of the phone and of the address for every hour that has begun.
THEOREM SendsAreThrottled == Spec => []SendsThrottled
<1>1. Init => SpacedInv /\ HourInv
    BY InitInvs
<1>2. SpacedInv /\ HourInv /\ Base /\ [Next]_vars => (SpacedInv /\ HourInv)'
    BY SpacedStep, HourStep
<1>3. SpacedInv /\ HourInv /\ Base => SendsThrottled
    <2> SUFFICES ASSUME SpacedInv, HourInv, Base PROVE SendsThrottled
        OBVIOUS
    <2>0. /\ now \in Nat /\ PhoneLimit \in Nat /\ IPLimit \in Nat /\ Hour \in Nat \ {0}
          /\ \A p \in Phones : window[<<"send-hour", p>>] \in Windows
          /\ \A i \in IPs : window[<<"send-ip", i>>] \in Windows
        BY ConstantsAssumption DEF Base, TypeOK, Windows, Keys
    <2>1. \A q, r \in Admitted :
              (q # r /\ req[q].phone = req[r].phone) =>
                  \/ req[q].at >= req[r].at + Cooldown
                  \/ req[r].at >= req[q].at + Cooldown
        BY DEF SpacedInv, Apart, Passed, Admitted
    <2>2. ASSUME NEW p \in Phones
          PROVE  Cardinality({r \in Admitted : req[r].phone = p}) <= PhoneLimit * (1 + now \div Hour)
        <3>1. /\ Cardinality(OfPhone(p)) <= PhoneLimit * (1 + now \div Hour)
              /\ IsFiniteSet(OfPhone(p))
            BY <2>0, HourBounds DEF HourInv, HourOK
        <3>2. {r \in Admitted : req[r].phone = p} \subseteq OfPhone(p)
            BY DEF OfPhone, Through, Admitted
        <3>3. /\ Cardinality({r \in Admitted : req[r].phone = p}) <= Cardinality(OfPhone(p))
              /\ IsFiniteSet({r \in Admitted : req[r].phone = p})
            BY <3>1, <3>2, FS_Subset
        <3>4. /\ Cardinality({r \in Admitted : req[r].phone = p}) \in Nat
              /\ Cardinality(OfPhone(p)) \in Nat
            BY <3>1, <3>3, FS_CardinalityType
        <3>5. PhoneLimit * (1 + now \div Hour) \in Nat
            <4>1. 1 + now \div Hour \in Nat
                BY <2>0
            <4> QED
                BY <2>0, <4>1, Distributes
        <3> QED
            BY <3>1, <3>3, <3>4, <3>5
    <2>3. \A i \in IPs : Cardinality({r \in Admitted : req[r].ip = i}) <= IPLimit * (1 + now \div Hour)
        BY <2>0, HourBounds DEF HourInv, OfIP
    <2> QED
        BY <2>1, <2>2, <2>3 DEF SendsThrottled
<1> QED
    BY <1>1, <1>2, <1>3, BaseCorrect, PTL DEF Spec
=============================================================================
