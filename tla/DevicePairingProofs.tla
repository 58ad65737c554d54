------------------------ MODULE DevicePairingProofs ------------------------
(***************************************************************************)
(* Proofs about DevicePairing, for any number of devices, calls, codes and *)
(* failures.                                                               *)
(***************************************************************************)
EXTENDS DevicePairing, TLAPS

\* What a call works on, in each of its states.
CallInv ==
    \A p \in Calls :
        /\ p \in Pairs => call[p].pc \in {"idle", "lookup", "get", "srem", "del", "issue"}
        /\ p \in CrmCalls => call[p].pc \in States \ {"lookup", "issue"}
        /\ call[p].pc \in {"meta", "lookup", "get", "srem", "del", "issue"}
               => call[p].serial \in Serials
        /\ call[p].pc \in {"smembers", "clear", "code", "meta", "delset", "sadd",
                           "expire", "srem"}
               => call[p].rest \in Restaurants
        /\ call[p].pc \in {"smembers", "clear", "code", "meta", "delset", "sadd", "expire"}
               => call[p].id > 0
        /\ call[p].pc \in {"idle", "get", "srem", "del"} /\ p \in CrmCalls => call[p].id = 0

\* CRM's calls number their codes, and no two of them alike.
IdInv ==
    /\ \A p \in Calls : call[p].id <= Len(cached)
    /\ \A s \in Serials : code[s] # None => code[s].id <= Len(cached)
    /\ \A i \in 1..Len(tokens) : tokens[i].id <= Len(cached)
    /\ \A p, q \in CrmCalls : call[p].id > 0 /\ call[p].id = call[q].id => p = q

\* The codes that CRM's call p has not written yet.
Unwritten(p) ==
    IF call[p].pc \in {"smembers", "clear", "code"} THEN call[p].todo
    ELSE IF call[p].pc = "meta" THEN call[p].todo \ {call[p].serial} ELSE {}

\* A code is written once: before that nobody has it.
WriteInv ==
    \A p \in CrmCalls : \A s \in Unwritten(p) :
        /\ code[s] # None => code[s].id # call[p].id
        /\ ~HasToken(s, call[p].id)
        /\ \A q \in Pairs : call[q].pc # "idle" /\ call[q].serial = s => call[q].id # call[p].id

\* A code that has brought a token, or is about to, is gone.
UsedInv ==
    /\ \A s \in Serials : code[s] # None => ~HasToken(s, code[s].id)
    /\ \A q \in Pairs : call[q].pc = "issue" /\ code[call[q].serial] # None
           => code[call[q].serial].id # call[q].id
    /\ \A q \in Calls : ~call[q].late

\* The entry of a revoked device outlives its tokens.
OutliveInv ==
    \A i \in 1..Len(tokens) :
        /\ tokens[i].exp <= now + TokenTTL
        /\ tokens[i].revoked /\ now < tokens[i].exp => tokens[i].exp <= revoked[tokens[i].serial]

\* Together they are inductive.
IInv ==
    /\ TypeOK /\ CallInv /\ IdInv /\ WriteInv /\ UsedInv /\ OutliveInv
    /\ ConsumedStaysConsumed

----------------------------------------------------------------------------
(* The types, variable by variable.                                        *)
Metas == [rest : Restaurants, expires : Nat]
CallRecs == [pc : States, serial : Serials \union {None}, rest : Restaurants \union {None},
             id : Nat, serials : SUBSET Serials, todo : SUBSET Serials,
             batch : BOOLEAN, late : BOOLEAN]
CallType == call \in [Calls -> CallRecs]
CodeType == code \in [Serials -> CodeKeys \union {None}]
MetaType == meta \in [Serials -> Metas \union {None}]
IndexType == index \in [Restaurants -> [serials : SUBSET Serials, expires : Nat]]
TokensType == tokens \in Seq(Tokens)
CachedType == cached \in Seq([rest : Restaurants, batch : BOOLEAN,
                              ended : {"no", "ok", "failed"}, before : SUBSET (1..MaxCached)])
ClockType == now \in Nat /\ revoked \in [Serials -> Nat] /\ faults \in 0..MaxFaults
StraysType == strays \subseteq Nat

(* TypeOK is their conjunction. *)
LEMMA TypeParts ==
    TypeOK <=> /\ CallType /\ CodeType /\ MetaType /\ IndexType
               /\ TokensType /\ CachedType /\ ClockType /\ StraysType
BY DEF TypeOK, CallType, CodeType, MetaType, IndexType, TokensType, CachedType,
       ClockType, StraysType, Metas, CallRecs

(* A call whose record is replaced by another. *)
LEMMA CallUpdate ==
    ASSUME CallType, NEW p \in Calls, NEW r \in CallRecs, call' = [call EXCEPT
           ![p] = r]
    PROVE  CallType'
BY DEF CallType

Cacheds == [rest : Restaurants, batch : BOOLEAN,
            ended : {"no", "ok", "failed"}, before : SUBSET (1..MaxCached)]

(* One of CRM's calls ends. *)
LEMMA EndUpdate ==
    ASSUME CachedType, NEW k \in 1..Len(cached), NEW how \in {"no", "ok", "failed"}
    PROVE  /\ [cached EXCEPT ![k].ended = how] \in Seq(Cacheds)
           /\ Len([cached EXCEPT ![k].ended = how]) = Len(cached)
<1> DEFINE c == [cached EXCEPT ![k].ended = how]
<1>1. cached \in Seq(Cacheds) /\ Len(cached) \in Nat
    BY DEF CachedType, Cacheds
<1>2. cached \in [1..Len(cached) -> Cacheds] /\ cached[k] \in Cacheds
    BY <1>1
<1>3. [cached[k] EXCEPT !.ended = how] \in Cacheds
    BY <1>2 DEF Cacheds
<1>4. c = [cached EXCEPT ![k] = [cached[k] EXCEPT !.ended = how]]
    BY <1>2
<1>5. c \in [1..Len(cached) -> Cacheds]
    BY <1>2, <1>3, <1>4
<1> QED
    BY <1>1, <1>5

(* Revoking a device marks its tokens and changes nothing else of them. *)
LEMMA RevokeMarks ==
    ASSUME TokensType, NEW s \in Serials, RevokeDevice(s)
    PROVE  /\ TokensType'
           /\ Len(tokens') = Len(tokens)
           /\ \A i \in 1..Len(tokens) :
                 /\ tokens'[i].serial = tokens[i].serial
                 /\ tokens'[i].id = tokens[i].id
                 /\ tokens'[i].exp = tokens[i].exp
                 /\ tokens'[i].late = tokens[i].late
                 /\ tokens'[i].revoked = (tokens[i].revoked \/ tokens[i].serial = s)
<1>1. tokens \in Seq(Tokens) /\ Len(tokens) \in Nat
    BY DEF TokensType
<1>2. \A i \in 1..Len(tokens) : tokens[i] \in Tokens
    BY <1>1
<1>3. tokens' = [i \in 1..Len(tokens) |->
                    IF tokens[i].serial = s THEN [tokens[i] EXCEPT !.revoked = TRUE]
                    ELSE tokens[i]]
    BY DEF RevokeDevice
<1>4. \A i \in 1..Len(tokens) : [tokens[i] EXCEPT !.revoked = TRUE] \in Tokens
    BY <1>2 DEF Tokens
<1>5. tokens' \in [1..Len(tokens) -> Tokens]
    BY <1>2, <1>3, <1>4
<1>6. tokens' \in Seq(Tokens) /\ Len(tokens') = Len(tokens)
    BY <1>1, <1>5
<1>7. ASSUME NEW i \in 1..Len(tokens)
      PROVE  /\ tokens'[i].serial = tokens[i].serial
             /\ tokens'[i].id = tokens[i].id
             /\ tokens'[i].exp = tokens[i].exp
             /\ tokens'[i].late = tokens[i].late
             /\ tokens'[i].revoked = (tokens[i].revoked \/ tokens[i].serial = s)
    BY <1>2, <1>3 DEF Tokens
<1> QED
    BY <1>6, <1>7 DEF TokensType

(* A new token is the last one. *)
LEMMA IssueAppends ==
    ASSUME TokensType, ClockType, NEW p \in Pairs, Issue(p)
    PROVE  /\ Len(tokens') = Len(tokens) + 1
           /\ \A i \in 1..Len(tokens) : tokens'[i] = tokens[i]
           /\ tokens'[Len(tokens) + 1] =
                 [serial |-> call[p].serial, id |-> call[p].id, exp |-> now + TokenTTL,
                  late |-> call[p].late, revoked |-> FALSE,
                  blocked |-> revoked[call[p].serial] > 0]
           /\ tokens'[Len(tokens) + 1].serial = call[p].serial
           /\ tokens'[Len(tokens) + 1].id = call[p].id
           /\ tokens'[Len(tokens) + 1].exp = now + TokenTTL
           /\ tokens'[Len(tokens) + 1].late = call[p].late
           /\ tokens'[Len(tokens) + 1].revoked = FALSE
BY DEF TokensType, Issue

(* A step keeps the type of call. *)
LEMMA CallTypeStep ==
    ASSUME CallType, CodeType, MetaType, IndexType, TokensType, CachedType,
           ClockType, CallInv, IdInv, [Next]_vars
    PROVE  CallType'
<1> USE ConstantsAssumption, NoneAssumption DEF CallType, CallRecs, States,
        Calls, ClockType, store, CallInv, CodeType, CodeKeys, MetaType, Metas,
        IndexType
<1>1. ASSUME Tick PROVE CallType'
    BY <1>1 DEF Tick, Drop
<1>2. ASSUME NEW p \in CrmCalls, NEW r \in Restaurants, NEW S \in SUBSET
             Serials, NEW b \in BOOLEAN, Begin(p, r, S, b)
      PROVE  CallType'
    <2> DEFINE n == [Idle EXCEPT !.pc = IF b THEN "smembers" ELSE "code",
                       !.rest = r, !.id = Len(cached) + 1, !.serials = S, !.todo = S, !.batch = b]
    <2>1. call[p] \in CallRecs /\ p \in Calls
        OBVIOUS
    <2>2. Len(cached) + 1 \in Nat
        BY DEF CachedType
    <2>3. n \in CallRecs
        BY <1>2, <2>1, <2>2 DEF Begin, Idle
    <2>4. call' = [call EXCEPT ![p] = n]
        BY <1>2, <2>1 DEF Begin, Idle, CachedType
    <2> QED
        BY <2>1, <2>3, <2>4, CallUpdate
<1>3. ASSUME NEW p \in CrmCalls, SMembers(p) PROVE CallType'
    <2>1. call[p] \in CallRecs /\ p \in Calls
        OBVIOUS
    <2> DEFINE old == index[call[p].rest].serials
    <2>2. old \in SUBSET Serials
        BY <1>3 DEF SMembers
    <2>3. CASE old = {}
        <3> DEFINE r == [call[p] EXCEPT !.pc = "code"]
        <3>1. r \in CallRecs
            BY <2>1
        <3>2. call' = [call EXCEPT ![p].pc = "code", ![p].serials = call[p].serials]
            BY <1>3, <2>3 DEF SMembers
        <3>3. call' = [call EXCEPT ![p] = r]
            BY <2>1, <3>2
        <3> QED
            BY <2>1, <3>1, <3>3, CallUpdate
    <2>4. CASE old # {}
        <3> DEFINE r == [call[p] EXCEPT !.pc = "clear", !.serials = old]
        <3>1. r \in CallRecs
            BY <2>1, <2>2
        <3>2. call' = [call EXCEPT ![p].pc = "clear", ![p].serials = old]
            BY <1>3, <2>4 DEF SMembers
        <3>3. call' = [call EXCEPT ![p] = r]
            BY <2>1, <3>2
        <3> QED
            BY <2>1, <3>1, <3>3, CallUpdate
    <2> QED
        BY <2>3, <2>4
<1>4. ASSUME NEW p \in CrmCalls, Clear(p) PROVE CallType'
    <2> DEFINE r == [call[p] EXCEPT !.pc = "code", !.serials = call[p].todo]
    <2>1. call[p] \in CallRecs /\ p \in Calls
        OBVIOUS
    <2>2. r \in CallRecs
        BY <1>4, <2>1 DEF Clear
    <2>3. call' = [call EXCEPT ![p] = r]
        BY <1>4, <2>1 DEF Clear
    <2> QED
        BY <2>1, <2>2, <2>3, CallUpdate
<1>5. ASSUME NEW p \in CrmCalls, NEW s \in Serials, SetCode(p, s) PROVE CallType'
    <2> DEFINE r == [call[p] EXCEPT !.pc = "meta", !.serial = s]
    <2>1. call[p] \in CallRecs /\ p \in Calls
        OBVIOUS
    <2>2. r \in CallRecs
        BY <1>5, <2>1 DEF SetCode
    <2>3. call' = [call EXCEPT ![p] = r]
        BY <1>5, <2>1 DEF SetCode
    <2> QED
        BY <2>1, <2>2, <2>3, CallUpdate
<1>6. ASSUME NEW p \in CrmCalls, SetMeta(p) PROVE CallType'
    <2> DEFINE r == [call[p] EXCEPT !.todo = call[p].todo \ {call[p].serial},
                       !.pc = IF call[p].todo \ {call[p].serial} # {} THEN "code"
                              ELSE IF call[p].batch THEN "delset" ELSE "sadd"]
    <2>1. call[p] \in CallRecs /\ p \in Calls
        OBVIOUS
    <2>2. r \in CallRecs
        BY <1>6, <2>1 DEF SetMeta
    <2>3. call' = [call EXCEPT ![p] = r]
        BY <1>6, <2>1 DEF SetMeta
    <2> QED
        BY <2>1, <2>2, <2>3, CallUpdate
<1>7. ASSUME NEW p \in CrmCalls, DelSet(p) PROVE CallType'
    <2> DEFINE r == [call[p] EXCEPT !.pc = "sadd"]
    <2>1. call[p] \in CallRecs /\ p \in Calls
        OBVIOUS
    <2>2. r \in CallRecs
        BY <1>7, <2>1 DEF DelSet, Goto
    <2>3. call' = [call EXCEPT ![p] = r]
        BY <1>7, <2>1 DEF DelSet, Goto
    <2> QED
        BY <2>1, <2>2, <2>3, CallUpdate
<1>8. ASSUME NEW p \in CrmCalls, SAdd(p) PROVE CallType'
    <2> DEFINE r == [call[p] EXCEPT !.pc = "expire"]
    <2>1. call[p] \in CallRecs /\ p \in Calls
        OBVIOUS
    <2>2. r \in CallRecs
        BY <1>8, <2>1 DEF SAdd, Goto
    <2>3. call' = [call EXCEPT ![p] = r]
        BY <1>8, <2>1 DEF SAdd, Goto
    <2> QED
        BY <2>1, <2>2, <2>3, CallUpdate
<1>9. ASSUME NEW p \in CrmCalls, Expire(p) PROVE CallType'
    BY <1>9 DEF Expire, End, Idle
<1>10. ASSUME NEW p \in CrmCalls, NEW s \in Serials, RevokeCode(p, s)
       PROVE  CallType'
    BY <1>10 DEF RevokeCode, Idle
<1>11. ASSUME NEW p \in Pairs, NEW s \in Serials, Pair(p, s) PROVE CallType'
    <2> DEFINE r == [Idle EXCEPT !.pc = "lookup", !.serial = s, !.id = code[s].id,
                    !.late = HasToken(s, code[s].id)]
    <2>1. call[p] \in CallRecs /\ p \in Calls
        OBVIOUS
    <2>2. r \in CallRecs
        BY <1>11, <2>1 DEF Pair, Idle, HasToken
    <2>3. call' = [call EXCEPT ![p] = r]
        BY <1>11, <2>1 DEF Pair, Idle, HasToken
    <2> QED
        BY <2>1, <2>2, <2>3, CallUpdate
<1>12. ASSUME NEW p \in Pairs, Lookup(p) PROVE CallType'
    BY <1>12 DEF Lookup, Idle
<1>13. ASSUME NEW p \in Pairs, Issue(p) PROVE CallType'
    BY <1>13 DEF Issue, End, Idle
<1>14. ASSUME NEW p \in Calls, GetMeta(p) PROVE CallType'
    <2> DEFINE r == IF meta[call[p].serial] = None THEN [call[p] EXCEPT !.pc = "del"]
                   ELSE [call[p] EXCEPT !.pc = "srem", !.rest = meta[call[p].serial].rest]
    <2>1. call[p] \in CallRecs /\ p \in Calls
        OBVIOUS
    <2>2. r \in CallRecs
        BY <1>14, <2>1 DEF GetMeta
    <2>3. call' = [call EXCEPT ![p] = r]
        BY <1>14, <2>1 DEF GetMeta
    <2> QED
        BY <2>1, <2>2, <2>3, CallUpdate
<1>15. ASSUME NEW p \in Calls, SRem(p) PROVE CallType'
    <2> DEFINE r == [call[p] EXCEPT !.pc = "del"]
    <2>1. call[p] \in CallRecs /\ p \in Calls
        OBVIOUS
    <2>2. r \in CallRecs
        BY <1>15, <2>1 DEF SRem, Goto
    <2>3. call' = [call EXCEPT ![p] = r]
        BY <1>15, <2>1 DEF SRem, Goto
    <2> QED
        BY <2>1, <2>2, <2>3, CallUpdate
<1>16. ASSUME NEW p \in Calls, Del(p) PROVE CallType'
    <2> DEFINE r == IF p \in Pairs THEN [call[p] EXCEPT !.pc = "issue"] ELSE Idle
    <2>1. call[p] \in CallRecs /\ p \in Calls
        OBVIOUS
    <2>2. r \in CallRecs
        BY <1>16, <2>1 DEF Del, Goto, End, Idle
    <2>3. call' = [call EXCEPT ![p] = r]
        BY <1>16, <2>1 DEF Del, Goto, End, Idle
    <2> QED
        BY <2>1, <2>2, <2>3, CallUpdate
<1>17. ASSUME NEW p \in Calls, Fails(p) PROVE CallType'
    BY <1>17 DEF Fails, End, Idle
<1>18. ASSUME NEW s \in Serials, RevokeDevice(s) PROVE CallType'
    BY <1>18 DEF RevokeDevice, RevocationTTL
<1>19. CASE UNCHANGED vars
    BY <1>19 DEF vars, store

<1> QED
    BY <1>1, <1>2, <1>3, <1>4, <1>5, <1>6, <1>7, <1>8, <1>9, <1>10, <1>11,
       <1>12, <1>13, <1>14, <1>15, <1>16, <1>17, <1>18, <1>19 DEF Next, CrmStep,
       PairStep, CacheCode, CacheCodes

(* A step keeps the types of code and meta. *)
LEMMA CodeTypeStep ==
    ASSUME CallType, CodeType, MetaType, IndexType, TokensType, CachedType,
           ClockType, CallInv, IdInv, [Next]_vars
    PROVE  CodeType' /\ MetaType'
<1> USE ConstantsAssumption, NoneAssumption DEF CodeType, MetaType, CodeKeys,
        Metas, CallInv, CallType, CallRecs, ClockType, Calls, store
<1>1. ASSUME Tick PROVE CodeType' /\ MetaType'
    BY <1>1 DEF Tick, Drop
<1>2. ASSUME NEW p \in CrmCalls, Clear(p) PROVE CodeType' /\ MetaType'
    BY <1>2 DEF Clear, Drop
<1>3. ASSUME NEW p \in CrmCalls, NEW s \in Serials, SetCode(p, s)
      PROVE  CodeType' /\ MetaType'
    BY <1>3 DEF SetCode
<1>4. ASSUME NEW p \in CrmCalls, SetMeta(p) PROVE CodeType' /\ MetaType'
    BY <1>4 DEF SetMeta
<1>5. ASSUME NEW p \in Calls, Del(p) PROVE CodeType' /\ MetaType'
    BY <1>5 DEF Del, Goto, End, Idle, Drop
<1>6. ASSUME UNCHANGED <<code, meta>> PROVE CodeType' /\ MetaType'
    BY <1>6
<1> QED
    BY <1>1, <1>2, <1>3, <1>4, <1>5, <1>6 DEF Next, CrmStep, PairStep,
       CacheCode, CacheCodes, vars, Begin, SMembers, DelSet, SAdd, Expire,
       RevokeCode, Pair, Lookup, Issue, GetMeta, SRem, Fails, RevokeDevice,
       Goto

(* A step keeps the type of index. *)
LEMMA IndexTypeStep ==
    ASSUME CallType, CodeType, MetaType, IndexType, TokensType, CachedType,
           ClockType, CallInv, IdInv, [Next]_vars
    PROVE  IndexType'
<1> USE ConstantsAssumption, NoneAssumption DEF IndexType, CallInv, CallType,
        CallRecs, ClockType, Calls, store, NoIndex
<1>1. ASSUME Tick PROVE IndexType'
    BY <1>1 DEF Tick, Drop
<1>2. ASSUME NEW p \in CrmCalls, DelSet(p) PROVE IndexType'
    BY <1>2 DEF DelSet, Goto, NoIndex
<1>3. ASSUME NEW p \in CrmCalls, SAdd(p) PROVE IndexType'
    BY <1>3 DEF SAdd, Goto, Never
<1>4. ASSUME NEW p \in CrmCalls, Expire(p) PROVE IndexType'
    BY <1>4 DEF Expire, End, Idle
<1>5. ASSUME NEW p \in Calls, SRem(p) PROVE IndexType'
    BY <1>5 DEF SRem, Goto, NoIndex
<1>6. ASSUME UNCHANGED index PROVE IndexType'
    BY <1>6
<1> QED
    BY <1>1, <1>2, <1>3, <1>4, <1>5, <1>6 DEF Next, CrmStep, PairStep,
       CacheCode, CacheCodes, vars, Begin, SMembers, Clear, SetCode,
       SetMeta, RevokeCode, Pair, Lookup, Issue, GetMeta, Del, Fails,
       RevokeDevice, Goto

(* A step keeps the type of tokens. *)
LEMMA TokensTypeStep ==
    ASSUME CallType, CodeType, MetaType, IndexType, TokensType, CachedType,
           ClockType, CallInv, IdInv, [Next]_vars
    PROVE  TokensType'
<1> USE ConstantsAssumption, NoneAssumption DEF TokensType, Tokens, CallInv,
        CallType, CallRecs, ClockType, Calls, store
<1>1. ASSUME NEW p \in Pairs, Issue(p) PROVE TokensType'
    BY <1>1 DEF Issue, End, Idle
<1>2. ASSUME NEW s \in Serials, RevokeDevice(s) PROVE TokensType'
    BY <1>2, RevokeMarks
<1>3. ASSUME UNCHANGED tokens PROVE TokensType'
    BY <1>3
<1> QED
    BY <1>1, <1>2, <1>3 DEF Next, CrmStep, PairStep, CacheCode, CacheCodes,
       vars, Tick, Begin, SMembers, Clear, SetCode, SetMeta, DelSet, SAdd,
       Expire, RevokeCode, Pair, Lookup, GetMeta, SRem, Del, Fails, Goto

(* A step keeps the type of cached. *)
LEMMA CachedTypeStep ==
    ASSUME CallType, CodeType, MetaType, IndexType, TokensType, CachedType,
           ClockType, CallInv, IdInv, [Next]_vars
    PROVE  CachedType'
<1> USE ConstantsAssumption, NoneAssumption DEF CachedType, CallType, CallRecs,
        Calls, IdInv
<1>1. ASSUME NEW p \in CrmCalls, NEW r \in Restaurants, NEW S \in SUBSET
             Serials, NEW b \in BOOLEAN, Begin(p, r, S, b)
      PROVE  CachedType'
    BY <1>1 DEF Begin, Idle
<1>2. ASSUME NEW p \in CrmCalls, Expire(p) PROVE CachedType'
    <2>1. call[p] \in CallRecs /\ p \in Calls
        OBVIOUS
    <2>2. CASE call[p].id > 0 /\ p \in CrmCalls
        <3>1. call[p].id \in 1..Len(cached)
            BY <2>1, <2>2 DEF CachedType
        <3>2. cached' = [cached EXCEPT ![call[p].id].ended = "ok"] \/ cached' = cached
            BY <1>2, <2>2 DEF Expire, End
        <3> QED
            BY <3>1, <3>2, EndUpdate DEF Cacheds, CachedType
    <2>3. CASE ~(call[p].id > 0 /\ p \in CrmCalls)
        BY <1>2, <2>3 DEF Expire, End, CachedType
    <2> QED
        BY <2>2, <2>3
<1>3. ASSUME NEW p \in Pairs, Issue(p) PROVE CachedType'
    BY <1>3 DEF Issue, End, Idle
<1>4. ASSUME NEW p \in Calls, Del(p) PROVE CachedType'
    <2>1. call[p] \in CallRecs /\ p \in Calls
        OBVIOUS
    <2>2. CASE call[p].id > 0 /\ p \in CrmCalls
        <3>1. call[p].id \in 1..Len(cached)
            BY <2>1, <2>2 DEF CachedType
        <3>2. cached' = [cached EXCEPT ![call[p].id].ended = "ok"] \/ cached' = cached
            BY <1>4, <2>2 DEF Del, End
        <3> QED
            BY <3>1, <3>2, EndUpdate DEF Cacheds, CachedType
    <2>3. CASE ~(call[p].id > 0 /\ p \in CrmCalls)
        BY <1>4, <2>3 DEF Del, End, CachedType
    <2> QED
        BY <2>2, <2>3
<1>5. ASSUME NEW p \in Calls, Fails(p) PROVE CachedType'
    <2>1. call[p] \in CallRecs /\ p \in Calls
        OBVIOUS
    <2>2. CASE call[p].id > 0 /\ p \in CrmCalls
        <3>1. call[p].id \in 1..Len(cached)
            BY <2>1, <2>2 DEF CachedType
        <3>2. cached' = [cached EXCEPT ![call[p].id].ended = "failed"] \/ cached' = cached
            BY <1>5, <2>2 DEF Fails, End
        <3> QED
            BY <3>1, <3>2, EndUpdate DEF Cacheds, CachedType
    <2>3. CASE ~(call[p].id > 0 /\ p \in CrmCalls)
        BY <1>5, <2>3 DEF Fails, End, CachedType
    <2> QED
        BY <2>2, <2>3
<1>6. ASSUME UNCHANGED cached PROVE CachedType'
    BY <1>6
<1> QED
    BY <1>1, <1>2, <1>3, <1>4, <1>5, <1>6 DEF Next, CrmStep, PairStep,
       CacheCode, CacheCodes, vars, store, Tick, SMembers, Clear, SetCode,
       SetMeta, DelSet, SAdd, RevokeCode, Pair, Lookup, GetMeta, SRem,
       RevokeDevice, Goto

(* A step keeps the types of now, revoked and faults. *)
LEMMA ClockTypeStep ==
    ASSUME CallType, CodeType, MetaType, IndexType, TokensType, CachedType,
           ClockType, CallInv, IdInv, [Next]_vars
    PROVE  ClockType'
<1> USE ConstantsAssumption, NoneAssumption DEF ClockType, store
<1>1. ASSUME Tick PROVE ClockType'
    BY <1>1 DEF Tick, Drop
<1>2. ASSUME NEW p \in Calls, SRem(p) PROVE ClockType'
    BY <1>2 DEF SRem, Goto, NoIndex
<1>3. ASSUME NEW p \in Calls, Fails(p) PROVE ClockType'
    BY <1>3 DEF Fails, End, Idle
<1>4. ASSUME NEW s \in Serials, RevokeDevice(s) PROVE ClockType'
    BY <1>4 DEF RevokeDevice, RevocationTTL
<1>5. ASSUME UNCHANGED <<now, revoked, faults>> PROVE ClockType'
    BY <1>5
<1> QED
    BY <1>1, <1>2, <1>3, <1>4, <1>5 DEF Next, CrmStep, PairStep, CacheCode,
       CacheCodes, vars, Begin, SMembers, Clear, SetCode, SetMeta, DelSet,
       SAdd, Expire, RevokeCode, Pair, Lookup, Issue, GetMeta, Del, Goto

(* A step keeps the type of strays: they are numbers of calls and codes. *)
LEMMA StraysTypeStep ==
    ASSUME CallType, CodeType, CachedType, StraysType, CallInv, [Next]_vars
    PROVE  StraysType'
<1> USE NoneAssumption DEF StraysType, Calls
<1>1. /\ \A p \in Calls : call[p].id \in Nat
      /\ \A s \in Serials : code[s] # None => code[s].id \in Nat
      /\ Len(cached) \in Nat
    BY DEF CallType, CallRecs, CodeType, CodeKeys, CachedType
<1>2. ASSUME Tick PROVE StraysType'
    BY <1>1, <1>2 DEF Tick
<1>3. ASSUME NEW p, NEW r, NEW S, NEW b, Begin(p, r, S, b) PROVE StraysType'
    BY <1>1, <1>3 DEF Begin
<1>4. ASSUME NEW p \in Calls, Fails(p) PROVE StraysType'
    <2>1. call[p].pc = "del" => call[p].serial \in Serials
        BY DEF CallInv
    <2> QED
        BY <1>1, <1>4, <2>1 DEF Fails, Leaves
<1>5. ASSUME UNCHANGED strays PROVE StraysType'
    BY <1>5
<1> QED
    BY <1>2, <1>3, <1>4, <1>5 DEF Next, CrmStep, PairStep, CacheCode, CacheCodes, vars,
       SMembers, Clear, SetCode, SetMeta, DelSet, SAdd, Expire, RevokeCode, Pair, Lookup,
       Issue, GetMeta, SRem, Del, RevokeDevice

(* The numbers of calls and tokens are numbers. *)
LEMMA Ids ==
    ASSUME CallType, TokensType
    PROVE  /\ \A q \in Calls : call[q].id \in Nat
           /\ Len(tokens) \in Nat
           /\ \A i \in 1..Len(tokens) : tokens[i] \in Tokens /\ tokens[i].id \in Nat
<1>1. Len(tokens) \in Nat /\ tokens \in [1..Len(tokens) -> Tokens]
    BY DEF TokensType
<1>2. \A i \in 1..Len(tokens) : tokens[i] \in Tokens /\ tokens[i].id \in Nat
    BY <1>1 DEF Tokens
<1> QED
    BY <1>1, <1>2 DEF CallType, CallRecs

(* The end of a call adds nothing to cached. *)
LEMMA EndLen ==
    ASSUME CallType, CachedType, IdInv, NEW p \in Calls, NEW how \in {"no",
           "ok", "failed"},
           End(p, how)
    PROVE  Len(cached') = Len(cached)
<1>1. call[p].id > 0 => call[p].id \in 1..Len(cached)
    BY DEF CallType, CallRecs, IdInv, CachedType
<1> QED
    BY <1>1, EndUpdate DEF End

----------------------------------------------------------------------------
(* What calls work on, and their codes. *)

(* A step keeps what calls work on. *)
LEMMA CallStep ==
    ASSUME CallType, CodeType, MetaType, IndexType, TokensType, CachedType,
           ClockType, CallInv, [Next]_vars
    PROVE  CallInv'
<1> USE ConstantsAssumption, NoneAssumption DEF CallType, CallRecs, MetaType,
        Metas, IndexType, Calls, store, CallInv, States
<1>1. ASSUME Tick PROVE CallInv'
    BY <1>1 DEF Tick, Drop
<1>2. ASSUME NEW p \in CrmCalls, NEW r \in Restaurants, NEW S \in SUBSET
             Serials, NEW b \in BOOLEAN, Begin(p, r, S, b)
      PROVE  CallInv'
    BY <1>2 DEF Begin, Idle
<1>3. ASSUME NEW p \in CrmCalls, SMembers(p) PROVE CallInv'
    <2>1. CASE index[call[p].rest].serials = {}
        BY <1>3, <2>1 DEF SMembers
    <2>2. CASE ~(index[call[p].rest].serials = {})
        BY <1>3, <2>2 DEF SMembers
    <2> QED
        BY <2>1, <2>2
<1>4. ASSUME NEW p \in CrmCalls, Clear(p) PROVE CallInv'
    BY <1>4 DEF Clear, Drop
<1>5. ASSUME NEW p \in CrmCalls, NEW s \in Serials, SetCode(p, s) PROVE CallInv'
    BY <1>5 DEF SetCode
<1>6. ASSUME NEW p \in CrmCalls, SetMeta(p) PROVE CallInv'
    BY <1>6 DEF SetMeta
<1>7. ASSUME NEW p \in CrmCalls, DelSet(p) PROVE CallInv'
    BY <1>7 DEF DelSet, Goto, NoIndex
<1>8. ASSUME NEW p \in CrmCalls, SAdd(p) PROVE CallInv'
    BY <1>8 DEF SAdd, Goto, Never
<1>9. ASSUME NEW p \in CrmCalls, Expire(p) PROVE CallInv'
    BY <1>9 DEF Expire, End, Idle
<1>10. ASSUME NEW p \in CrmCalls, NEW s \in Serials, RevokeCode(p, s) PROVE CallInv'
    BY <1>10 DEF RevokeCode, Idle
<1>11. ASSUME NEW p \in Pairs, NEW s \in Serials, Pair(p, s) PROVE CallInv'
    BY <1>11 DEF Pair, Idle
<1>12. ASSUME NEW p \in Pairs, Lookup(p) PROVE CallInv'
    BY <1>12 DEF Lookup, Idle
<1>13. ASSUME NEW p \in Pairs, Issue(p) PROVE CallInv'
    BY <1>13 DEF Issue, End, Idle
<1>14. ASSUME NEW p \in Calls, GetMeta(p) PROVE CallInv'
    <2>1. CASE meta[call[p].serial] = None
        BY <1>14, <2>1 DEF GetMeta
    <2>2. CASE ~(meta[call[p].serial] = None)
        BY <1>14, <2>2 DEF GetMeta
    <2> QED
        BY <2>1, <2>2
<1>15. ASSUME NEW p \in Calls, SRem(p) PROVE CallInv'
    BY <1>15 DEF SRem, Goto, NoIndex
<1>16. ASSUME NEW p \in Calls, Del(p) PROVE CallInv'
    <2>1. CASE p \in Pairs
        BY <1>16, <2>1 DEF Del, Goto, End, Idle, Drop
    <2>2. CASE ~(p \in Pairs)
        BY <1>16, <2>2 DEF Del, Goto, End, Idle, Drop
    <2> QED
        BY <2>1, <2>2
<1>17. ASSUME NEW p \in Calls, Fails(p) PROVE CallInv'
    BY <1>17 DEF Fails, End, Idle
<1>18. ASSUME NEW s \in Serials, RevokeDevice(s) PROVE CallInv'
    BY <1>18 DEF RevokeDevice, RevocationTTL
<1>19. CASE UNCHANGED vars
    BY <1>19 DEF vars, store

<1> QED
    BY <1>1, <1>2, <1>3, <1>4, <1>5, <1>6, <1>7, <1>8, <1>9, <1>10, <1>11,
       <1>12, <1>13, <1>14, <1>15, <1>16, <1>17, <1>18, <1>19 DEF Next, CrmStep,
       PairStep, CacheCode, CacheCodes

(* A step that draws no number keeps the numbers of CRM's codes apart. *)
LEMMA IdKept ==
    ASSUME IdInv, Len(cached) \in Nat, Len(cached') = Len(cached),
           \A q \in Calls : call'[q].id \in {0, call[q].id},
           \A s \in Serials : code'[s] \in {None, code[s]},
           Len(tokens') = Len(tokens),
           \A i \in 1..Len(tokens) : tokens'[i].id = tokens[i].id
    PROVE  IdInv'
<1>1. \A q \in Calls : call'[q].id <= Len(cached')
    BY DEF IdInv
<1>2. \A s \in Serials : code'[s] # None => code'[s].id <= Len(cached')
    BY DEF IdInv
<1>3. \A i \in 1..Len(tokens') : tokens'[i].id <= Len(cached')
    BY DEF IdInv
<1>4. \A q1, q2 \in CrmCalls : call'[q1].id > 0 /\ call'[q1].id = call'[q2].id => q1 = q2
    BY DEF IdInv, Calls
<1> QED
    BY <1>1, <1>2, <1>3, <1>4 DEF IdInv

(* A step keeps the numbers of CRM's codes apart. *)
LEMMA IdStep ==
    ASSUME CallType, CodeType, MetaType, IndexType, TokensType, CachedType,
           ClockType, CallInv, IdInv, [Next]_vars
    PROVE  IdInv'
<1> USE ConstantsAssumption, NoneAssumption DEF CallType, CallRecs, CodeType,
        MetaType, Metas, CodeKeys, Tokens, States, IndexType, TokensType,
        CachedType, ClockType, Calls, store, CallInv, IdInv
<1>1. ASSUME Tick PROVE IdInv'
    BY <1>1 DEF Tick, Drop
<1>2. ASSUME NEW p \in CrmCalls, NEW r \in Restaurants, NEW S \in SUBSET
             Serials, NEW b \in BOOLEAN, Begin(p, r, S, b)
      PROVE  IdInv'
    <2>1. Len(cached') = Len(cached) + 1
        BY <1>2 DEF Begin
    <2>2. call'[p].id = Len(cached) + 1 /\ \A q \in Calls \ {p} : call'[q] = call[q]
        BY <1>2 DEF Begin, Idle
    <2>3. UNCHANGED <<code, tokens>> /\ Len(cached) \in Nat
        BY <1>2 DEF Begin
    <2>4. (\A q \in Calls : call[q].id \in Nat) /\ \A i \in 1..Len(tokens) : tokens[i].id \in Nat
        BY Ids
    <2> HIDE DEF CallType, CodeType, TokensType, CachedType, MetaType, IndexType, ClockType
    <2>5. \A q \in Calls : call'[q].id <= Len(cached') /\ (q # p => call'[q].id < call'[p].id)
        BY <2>1, <2>2, <2>3, <2>4
    <2>6. \A q1, q2 \in CrmCalls : call'[q1].id > 0 /\ call'[q1].id = call'[q2].id => q1 = q2
        BY <2>2, <2>4, <2>5
    <2>7. \A s \in Serials : code'[s] # None => code'[s].id <= Len(cached')
        <3> SUFFICES ASSUME NEW s \in Serials, code[s] # None PROVE code[s].id <= Len(cached')
            BY <2>3
        <3>1. code[s].id \in Nat
            BY DEF CodeType, CodeKeys
        <3> QED
            BY <2>1, <2>3, <3>1
    <2>8. \A i \in 1..Len(tokens') : tokens'[i].id <= Len(cached')
        BY <2>1, <2>3, <2>4
    <2> QED
        BY <2>5, <2>6, <2>7, <2>8
<1>3. ASSUME NEW p \in CrmCalls, SMembers(p) PROVE IdInv'
    BY <1>3 DEF SMembers
<1>4. ASSUME NEW p \in CrmCalls, Clear(p) PROVE IdInv'
    BY <1>4 DEF Clear, Drop
<1>5. ASSUME NEW p \in CrmCalls, NEW s \in Serials, SetCode(p, s) PROVE IdInv'
    <2>1. /\ UNCHANGED <<tokens, cached>>
          /\ code' = [code EXCEPT ![s] = [id |-> call[p].id, rest |-> call[p].rest,
                                         expires |-> now + CodeTTL]]
        BY <1>5 DEF SetCode
    <2>2. call'[p].id = call[p].id /\ \A q \in Calls \ {p} : call'[q] = call[q]
        BY <1>5 DEF SetCode
    <2>3. code'[s].id = call[p].id /\ \A t \in Serials \ {s} : code'[t] = code[t]
        BY <2>1
    <2> HIDE DEF CallType, CodeType, TokensType, CachedType, MetaType, IndexType, ClockType
    <2>4. \A q \in Calls : call'[q].id = call[q].id
        BY <2>2
    <2>5. \A t \in Serials : code'[t] # None => code'[t].id <= Len(cached)
        BY <2>3
    <2> QED
        BY <2>1, <2>4, <2>5
<1>6. ASSUME NEW p \in CrmCalls, SetMeta(p) PROVE IdInv'
    <2>1. UNCHANGED <<code, tokens, cached>> /\ Len(cached) \in Nat
        BY <1>6 DEF SetMeta
    <2> HIDE DEF CodeType, TokensType, CachedType, MetaType, IndexType, ClockType, CallInv, IdInv
    <2>2. call'[p].id = call[p].id /\ \A q \in Calls \ {p} : call'[q] = call[q]
        BY <1>6 DEF SetMeta
    <2> HIDE DEF CallType
    <2>3. \A q \in Calls : call'[q].id = call[q].id
        BY <2>2
    <2> QED
        BY <2>1, <2>3, IdKept
<1>7. ASSUME NEW p \in CrmCalls, DelSet(p) PROVE IdInv'
    BY <1>7 DEF DelSet, Goto, NoIndex
<1>8. ASSUME NEW p \in CrmCalls, SAdd(p) PROVE IdInv'
    BY <1>8 DEF SAdd, Goto, Never
<1>9. ASSUME NEW p \in CrmCalls, Expire(p) PROVE IdInv'
    BY <1>9 DEF Expire, End, Idle
<1>10. ASSUME NEW p \in CrmCalls, NEW s \in Serials, RevokeCode(p, s) PROVE IdInv'
    BY <1>10 DEF RevokeCode, Idle
<1>11. ASSUME NEW p \in Pairs, NEW s \in Serials, Pair(p, s) PROVE IdInv'
    BY <1>11 DEF Pair, Idle
<1>12. ASSUME NEW p \in Pairs, Lookup(p) PROVE IdInv'
    BY <1>12 DEF Lookup, Idle
<1>13. ASSUME NEW p \in Pairs, Issue(p) PROVE IdInv'
    BY <1>13 DEF Issue, End, Idle
<1>14. ASSUME NEW p \in Calls, GetMeta(p) PROVE IdInv'
    <2>1. UNCHANGED <<code, tokens, cached>> /\ Len(cached) \in Nat
        BY <1>14 DEF GetMeta
    <2>2. CASE meta[call[p].serial] = None
        <3>1. \A q \in Calls : call'[q].id = call[q].id
            BY <1>14, <2>2 DEF GetMeta
        <3> HIDE DEF CallType, CodeType, TokensType, CachedType, MetaType, IndexType, ClockType, IdInv
        <3> QED
            BY <2>1, <3>1, IdKept
    <2>3. CASE ~(meta[call[p].serial] = None)
        <3>1. call' = [call EXCEPT ![p].pc = "srem", ![p].rest = meta[call[p].serial].rest]
            BY <1>14, <2>3 DEF GetMeta
        <3>2. call'[p].id = call[p].id /\ \A q \in Calls \ {p} : call'[q] = call[q]
            BY <3>1
        <3> HIDE DEF CallType, CodeType, TokensType, CachedType, MetaType, IndexType, ClockType, IdInv
        <3>3. \A q \in Calls : call'[q].id = call[q].id
            BY <3>2
        <3> QED
            BY <2>1, <3>3, IdKept
    <2> QED
        BY <2>2, <2>3
<1>15. ASSUME NEW p \in Calls, SRem(p) PROVE IdInv'
    BY <1>15 DEF SRem, Goto, NoIndex
<1>16. ASSUME NEW p \in Calls, Del(p) PROVE IdInv'
    <2>1. Len(cached') = Len(cached) /\ Len(cached) \in Nat
        BY <1>16, EndLen DEF Del
    <2>4. call'[p].id \in {0, call[p].id} /\ \A q \in Calls \ {p} : call'[q] = call[q]
        BY <1>16 DEF Del, Goto, End, Idle
    <2>3. UNCHANGED tokens /\ \A s \in Serials : code'[s] \in {None, code[s]}
        BY <1>16 DEF Del, Drop
    <2> HIDE DEF CallType, CodeType, TokensType, CachedType, MetaType, IndexType, ClockType, IdInv
    <2>2. \A q \in Calls : call'[q].id \in {0, call[q].id}
        BY <2>4
    <2> QED
        BY <2>1, <2>2, <2>3, IdKept
<1>17. ASSUME NEW p \in Calls, Fails(p) PROVE IdInv'
    BY <1>17 DEF Fails, End, Idle
<1>18. ASSUME NEW s \in Serials, RevokeDevice(s) PROVE IdInv'
    BY <1>18 DEF RevokeDevice, RevocationTTL
<1>19. CASE UNCHANGED vars
    BY <1>19 DEF vars, store

<1> QED
    BY <1>1, <1>2, <1>3, <1>4, <1>5, <1>6, <1>7, <1>8, <1>9, <1>10, <1>11,
       <1>12, <1>13, <1>14, <1>15, <1>16, <1>17, <1>18, <1>19 DEF Next, CrmStep,
       PairStep, CacheCode, CacheCodes

----------------------------------------------------------------------------
(* What most steps do: codes are deleted but not written, the tokens stand, *)
(* a Pair that is in flight goes on with its code, and CRM's calls have no *)
(* further codes to write.                                                 *)
CodesKept == \A s \in Serials : code'[s] \in {None, code[s]}
TokensKept ==
    /\ Len(tokens') = Len(tokens)
    /\ \A i \in 1..Len(tokens) : /\ tokens'[i].serial = tokens[i].serial
                                 /\ tokens'[i].id = tokens[i].id
PairsKept ==
    \A q \in Pairs : call'[q].pc # "idle" =>
        /\ call[q].pc # "idle"
        /\ call'[q].serial = call[q].serial
        /\ call'[q].id = call[q].id
UnwrittenKept ==
    \A p \in CrmCalls : /\ Unwritten(p)' \subseteq Unwritten(p)
                        /\ Unwritten(p)' # {} => call'[p].id = call[p].id

(* A step that only does that keeps unwritten codes unknown. *)
LEMMA WriteKept ==
    ASSUME CallType, WriteInv, CodesKept, TokensKept, PairsKept, UnwrittenKept
    PROVE  WriteInv'
<1> SUFFICES ASSUME NEW p \in CrmCalls, NEW s \in Unwritten(p)'
             PROVE  /\ code'[s] # None => code'[s].id # call'[p].id
                    /\ ~HasToken(s, call[p].id)'
                    /\ \A q \in Pairs : call'[q].pc # "idle" /\ call'[q].serial = s
                                           => call'[q].id # call'[p].id
    BY DEF WriteInv
<1>1. s \in Unwritten(p) /\ call'[p].id = call[p].id
    BY DEF UnwrittenKept
<1>2. s \in Serials
    BY <1>1 DEF Unwritten, CallType, CallRecs, Calls
<1>3. /\ code[s] # None => code[s].id # call[p].id
      /\ ~HasToken(s, call[p].id)
      /\ \A q \in Pairs : call[q].pc # "idle" /\ call[q].serial = s => call[q].id # call[p].id
    BY <1>1 DEF WriteInv
<1>4. ~HasToken(s, call[p].id)'
    BY <1>1, <1>3 DEF TokensKept, HasToken
<1> QED
    BY <1>1, <1>2, <1>3, <1>4 DEF CodesKept, PairsKept

(* Issuing a token gives its device the code that was traded in. *)
LEMMA IssueGives ==
    ASSUME CallType, TokensType, ClockType, NEW p \in Pairs, Issue(p)
    PROVE  \A t \in Serials, id \in Nat : HasToken(t, id)' =>
               HasToken(t, id) \/ (t = call[p].serial /\ id = call[p].id)
<1> SUFFICES ASSUME NEW t \in Serials, NEW id \in Nat, NEW i \in 1..Len(tokens'),
                    tokens'[i].serial = t, tokens'[i].id = id
             PROVE  HasToken(t, id) \/ (t = call[p].serial /\ id = call[p].id)
    BY DEF HasToken
<1>1. Len(tokens) \in Nat /\ Len(tokens') = Len(tokens) + 1
    BY IssueAppends, Ids
<1>2. CASE i \in 1..Len(tokens)
    BY <1>2, IssueAppends DEF HasToken
<1>3. CASE i = Len(tokens) + 1
    BY <1>3, IssueAppends
<1> QED
    BY <1>1, <1>2, <1>3

(* A step keeps unwritten codes unknown. *)
LEMMA WriteStep ==
    ASSUME CallType, CodeType, MetaType, IndexType, TokensType, CachedType,
           ClockType, CallInv, IdInv, WriteInv, [Next]_vars
    PROVE  WriteInv'
<1> USE ConstantsAssumption, NoneAssumption DEF CallType, CallRecs, States,
        Calls, CodeType, CodeKeys, MetaType, Metas, ClockType, CallInv,
        Unwritten, store
<1>1. ASSUME Tick PROVE WriteInv'
    <2>1. CodesKept /\ TokensKept /\ PairsKept
        BY <1>1 DEF CodesKept, TokensKept, PairsKept, Tick, Drop
    <2>2. UnwrittenKept
        BY <1>1 DEF UnwrittenKept, Tick, Drop
    <2> QED
        BY <2>1, <2>2, WriteKept
<1>2. ASSUME NEW p \in CrmCalls, NEW r \in Restaurants, NEW S \in SUBSET
             Serials, NEW b \in BOOLEAN, Begin(p, r, S, b)
      PROVE  WriteInv'
    <2>1. /\ call'[p].id = Len(cached) + 1
          /\ \A q \in Calls \ {p} : call'[q] = call[q]
        BY <1>2 DEF Begin, Idle
    <2>2. UNCHANGED <<code, tokens>>
        BY <1>2 DEF Begin
    <2>6. \A k \in Pairs : call'[k] = call[k]
        BY <2>1 DEF Calls
    <2> SUFFICES ASSUME NEW q \in CrmCalls, NEW s \in Unwritten(q)'
                 PROVE  /\ code[s] # None => code[s].id # call'[q].id
                        /\ ~HasToken(s, call'[q].id)
                        /\ \A k \in Pairs : call[k].pc # "idle" /\ call[k].serial = s
                                              => call[k].id # call'[q].id
        <3> HIDE DEF CallType, CodeType, MetaType, ClockType, CallInv, Unwritten, Calls
        <3> QED
            BY <2>2, <2>6 DEF WriteInv, HasToken
    <2>3. s \in Serials
        BY <1>2, <2>1 DEF Begin, Idle
    <2>4. CASE q = p
        <3>1. code[s] # None => code[s].id # Len(cached) + 1
            BY <2>3 DEF IdInv, CachedType
        <3>2. ~HasToken(s, Len(cached) + 1)
            BY Ids DEF IdInv, CachedType, HasToken
        <3>3. \A k \in Pairs : call[k].id # Len(cached) + 1
            BY Ids DEF IdInv, CachedType
        <3> QED
            BY <2>1, <2>4, <3>1, <3>2, <3>3
    <2>5. CASE q # p
        <3>1. s \in Unwritten(q) /\ call'[q] = call[q]
            BY <2>1, <2>5
        <3> QED
            BY <3>1 DEF WriteInv
    <2> QED
        BY <2>4, <2>5
<1>3. ASSUME NEW p \in CrmCalls, SMembers(p) PROVE WriteInv'
    <2>1. CodesKept /\ TokensKept /\ PairsKept
        BY <1>3 DEF CodesKept, TokensKept, PairsKept, SMembers
    <2>2. call'[p].pc \in {"code", "clear"} /\ call'[p].todo = call[p].todo /\ call'[p].id = call[p].id
          /\ \A q \in Calls \ {p} : call'[q] = call[q]
        BY <1>3 DEF SMembers
    <2>3. UnwrittenKept
        BY <1>3, <2>2 DEF UnwrittenKept, SMembers
    <2> QED
        BY <2>1, <2>3, WriteKept
<1>4. ASSUME NEW p \in CrmCalls, Clear(p) PROVE WriteInv'
    <2>1. CodesKept /\ TokensKept /\ PairsKept
        BY <1>4 DEF CodesKept, TokensKept, PairsKept, Clear, Drop
    <2>2. UnwrittenKept
        BY <1>4 DEF UnwrittenKept, Clear, Drop
    <2> QED
        BY <2>1, <2>2, WriteKept
<1>5. ASSUME NEW p \in CrmCalls, NEW s \in Serials, SetCode(p, s) PROVE WriteInv'
    <2>1. /\ call'[p].pc = "meta" /\ call'[p].serial = s /\ call'[p].id = call[p].id
          /\ call'[p].todo = call[p].todo
          /\ \A q \in Calls \ {p} : call'[q] = call[q]
        BY <1>5 DEF SetCode
    <2>2. code'[s].id = call[p].id /\ \A t \in Serials \ {s} : code'[t] = code[t]
        BY <1>5 DEF SetCode
    <2>3. UNCHANGED tokens /\ call[p].pc = "code" /\ s \in call[p].todo
        BY <1>5 DEF SetCode
    <2> SUFFICES ASSUME NEW q \in CrmCalls, NEW t \in Unwritten(q)'
                 PROVE  /\ code'[t] # None => code'[t].id # call'[q].id
                        /\ ~HasToken(t, call[q].id)'
                        /\ \A k \in Pairs : call'[k].pc # "idle" /\ call'[k].serial = t
                                              => call'[k].id # call'[q].id
        BY DEF WriteInv
    <2>4. t \in Unwritten(q) /\ call'[q].id = call[q].id /\ t \in Serials
        BY <2>1, <2>3
    <2>5. t = s => call[q].id # call[p].id
        <3>1. t = s => q # p
            BY <2>1
        <3>2. call[q].id > 0 /\ call[p].id > 0
            BY <2>3, <2>4
        <3> QED
            BY <3>1, <3>2 DEF IdInv
    <2>6. \A k \in Pairs : call'[k] = call[k]
        BY <2>1
    <2>7. ~HasToken(t, call[q].id)'
        BY <2>3, <2>4 DEF WriteInv, HasToken
    <2> QED
        BY <2>2, <2>4, <2>5, <2>6, <2>7 DEF WriteInv
<1>6. ASSUME NEW p \in CrmCalls, SetMeta(p) PROVE WriteInv'
    <2>1. CodesKept /\ TokensKept /\ PairsKept
        BY <1>6 DEF CodesKept, TokensKept, PairsKept, SetMeta
    <2>2. UnwrittenKept
        BY <1>6 DEF UnwrittenKept, SetMeta
    <2> QED
        BY <2>1, <2>2, WriteKept
<1>7. ASSUME NEW p \in CrmCalls, DelSet(p) PROVE WriteInv'
    <2>1. CodesKept /\ TokensKept /\ PairsKept
        BY <1>7 DEF CodesKept, TokensKept, PairsKept, DelSet, Goto, NoIndex
    <2>2. UnwrittenKept
        BY <1>7 DEF UnwrittenKept, DelSet, Goto, NoIndex
    <2> QED
        BY <2>1, <2>2, WriteKept
<1>8. ASSUME NEW p \in CrmCalls, SAdd(p) PROVE WriteInv'
    <2>1. CodesKept /\ TokensKept /\ PairsKept
        BY <1>8 DEF CodesKept, TokensKept, PairsKept, SAdd, Goto, Never
    <2>2. UnwrittenKept
        BY <1>8 DEF UnwrittenKept, SAdd, Goto, Never
    <2> QED
        BY <2>1, <2>2, WriteKept
<1>9. ASSUME NEW p \in CrmCalls, Expire(p) PROVE WriteInv'
    <2>1. CodesKept /\ TokensKept /\ PairsKept
        BY <1>9 DEF CodesKept, TokensKept, PairsKept, Expire, End, Idle
    <2>2. UnwrittenKept
        BY <1>9 DEF UnwrittenKept, Expire, End, Idle
    <2> QED
        BY <2>1, <2>2, WriteKept
<1>10. ASSUME NEW p \in CrmCalls, NEW s \in Serials, RevokeCode(p, s)
       PROVE  WriteInv'
    <2>1. CodesKept /\ TokensKept /\ PairsKept
        BY <1>10 DEF CodesKept, TokensKept, PairsKept, RevokeCode, Idle
    <2>2. UnwrittenKept
        BY <1>10 DEF UnwrittenKept, RevokeCode, Idle
    <2> QED
        BY <2>1, <2>2, WriteKept
<1>11. ASSUME NEW p \in Pairs, NEW s \in Serials, Pair(p, s) PROVE WriteInv'
    <2>1. /\ call'[p].pc = "lookup" /\ call'[p].serial = s /\ call'[p].id = code[s].id
          /\ \A q \in Calls \ {p} : call'[q] = call[q]
        BY <1>11 DEF Pair, Idle
    <2>2. UNCHANGED <<code, tokens>> /\ code[s] # None
        BY <1>11 DEF Pair
    <2> SUFFICES ASSUME NEW q \in CrmCalls, NEW t \in Unwritten(q)'
                 PROVE  /\ code'[t] # None => code'[t].id # call'[q].id
                        /\ ~HasToken(t, call[q].id)'
                        /\ \A k \in Pairs : call'[k].pc # "idle" /\ call'[k].serial = t
                                              => call'[k].id # call'[q].id
        BY DEF WriteInv
    <2>3. t \in Unwritten(q) /\ q # p
        BY <2>1
    <2>4. ~HasToken(t, call[q].id)'
        BY <2>1, <2>2, <2>3 DEF WriteInv, HasToken
    <2> QED
        BY <2>1, <2>2, <2>3, <2>4 DEF WriteInv
<1>12. ASSUME NEW p \in Pairs, Lookup(p) PROVE WriteInv'
    <2>1. CodesKept /\ TokensKept /\ PairsKept
        BY <1>12 DEF CodesKept, TokensKept, PairsKept, Lookup, Idle
    <2>2. UnwrittenKept
        BY <1>12 DEF UnwrittenKept, Lookup, Idle
    <2> QED
        BY <2>1, <2>2, WriteKept
<1>13. ASSUME NEW p \in Pairs, Issue(p) PROVE WriteInv'
    <2>1. call' = [call EXCEPT ![p] = Idle] /\ UNCHANGED code /\ call[p].pc = "issue"
        BY <1>13 DEF Issue, End
    <2>2. \A t \in Serials, id \in Nat : HasToken(t, id)' =>
             HasToken(t, id) \/ (t = call[p].serial /\ id = call[p].id)
        BY <1>13, IssueGives
    <2>3. PairsKept /\ UnwrittenKept
        BY <2>1 DEF PairsKept, UnwrittenKept, Idle
    <2> SUFFICES ASSUME NEW q \in CrmCalls, NEW t \in Unwritten(q)'
                 PROVE  /\ code[t] # None => code[t].id # call'[q].id
                        /\ ~HasToken(t, call[q].id)'
                        /\ \A k \in Pairs : call'[k].pc # "idle" /\ call'[k].serial = t
                                              => call'[k].id # call'[q].id
        BY <2>1 DEF WriteInv
    <2>4. t \in Unwritten(q) /\ call'[q] = call[q] /\ t \in Serials /\ q # p
        BY <2>1, <2>3 DEF UnwrittenKept, Idle
    <2>5. ~(t = call[p].serial /\ call[q].id = call[p].id)
        BY <2>1, <2>4 DEF WriteInv
    <2> QED
        BY <2>2, <2>3, <2>4, <2>5 DEF WriteInv, PairsKept
<1>14. ASSUME NEW p \in Calls, GetMeta(p) PROVE WriteInv'
    <2>1. CodesKept /\ TokensKept /\ PairsKept
        BY <1>14 DEF CodesKept, TokensKept, PairsKept, GetMeta
    <2>2. UnwrittenKept
        BY <1>14 DEF UnwrittenKept, GetMeta
    <2> QED
        BY <2>1, <2>2, WriteKept
<1>15. ASSUME NEW p \in Calls, SRem(p) PROVE WriteInv'
    <2>1. CodesKept /\ TokensKept /\ PairsKept
        BY <1>15 DEF CodesKept, TokensKept, PairsKept, SRem, Goto, NoIndex
    <2>2. UnwrittenKept
        BY <1>15 DEF UnwrittenKept, SRem, Goto, NoIndex
    <2> QED
        BY <2>1, <2>2, WriteKept
<1>16. ASSUME NEW p \in Calls, Del(p) PROVE WriteInv'
    <2>1. CodesKept /\ TokensKept /\ PairsKept
        BY <1>16 DEF CodesKept, TokensKept, PairsKept, Del, Goto, End, Idle, Drop
    <2>2. UnwrittenKept
        BY <1>16 DEF UnwrittenKept, Del, Goto, End, Idle, Drop
    <2> QED
        BY <2>1, <2>2, WriteKept
<1>17. ASSUME NEW p \in Calls, Fails(p) PROVE WriteInv'
    <2>1. CodesKept /\ TokensKept /\ PairsKept
        BY <1>17 DEF CodesKept, TokensKept, PairsKept, Fails, End, Idle
    <2>2. UnwrittenKept
        BY <1>17 DEF UnwrittenKept, Fails, End, Idle
    <2> QED
        BY <2>1, <2>2, WriteKept
<1>18. ASSUME NEW s \in Serials, RevokeDevice(s) PROVE WriteInv'
    <2>1. CodesKept /\ PairsKept /\ UnwrittenKept
        BY <1>18 DEF CodesKept, PairsKept, UnwrittenKept, RevokeDevice
    <2>2. TokensKept
        BY <1>18, RevokeMarks DEF TokensKept
    <2> QED
        BY <2>1, <2>2, WriteKept
<1>19. CASE UNCHANGED vars
    <2>1. CodesKept /\ TokensKept /\ PairsKept
        BY <1>19 DEF CodesKept, TokensKept, PairsKept, vars
    <2>2. UnwrittenKept
        BY <1>19 DEF UnwrittenKept, vars
    <2> QED
        BY <2>1, <2>2, WriteKept

<1> QED
    BY <1>1, <1>2, <1>3, <1>4, <1>5, <1>6, <1>7, <1>8, <1>9, <1>10, <1>11,
       <1>12, <1>13, <1>14, <1>15, <1>16, <1>17, <1>18, <1>19 DEF Next, CrmStep,
       PairStep, CacheCode, CacheCodes

(* Nor does such a step bring a Pair to its token or let it find a used    *)
(* code.                                                                   *)
IssueKept ==
    \A q \in Pairs : call'[q].pc = "issue" =>
        /\ call[q].pc = "issue"
        /\ call'[q].serial = call[q].serial
        /\ call'[q].id = call[q].id
LateKept == \A q \in Calls : call'[q].late => call[q].late

(* A step that only does that keeps used codes gone. *)
LEMMA UsedKept ==
    ASSUME CallType, CallInv, UsedInv, CodesKept, TokensKept, IssueKept, LateKept
    PROVE  UsedInv'
<1>1. ASSUME NEW s \in Serials, code'[s] # None
      PROVE  ~HasToken(s, code[s].id)'
    <2>1. code'[s] = code[s] /\ code[s] # None
        BY <1>1 DEF CodesKept
    <2>2. ~HasToken(s, code[s].id)
        BY <2>1 DEF UsedInv
    <2> QED
        BY <2>1, <2>2 DEF HasToken, TokensKept
<1>2. ASSUME NEW q \in Pairs, call'[q].pc = "issue", code'[call'[q].serial] # None
      PROVE  code'[call'[q].serial].id # call'[q].id
    <2>1. call[q].serial \in Serials
        BY <1>2 DEF IssueKept, CallInv, Calls
    <2> QED
        BY <1>2, <2>1 DEF IssueKept, CodesKept, UsedInv
<1>3. \A q \in Calls : ~call'[q].late
    BY DEF LateKept, UsedInv
<1> QED
    BY <1>1, <1>2, <1>3 DEF UsedInv

(* A step keeps used codes gone. *)
LEMMA UsedStep ==
    ASSUME CallType, CodeType, MetaType, IndexType, TokensType, CachedType,
           ClockType, CallInv, WriteInv, UsedInv, [Next]_vars
    PROVE  UsedInv'
<1> USE ConstantsAssumption, NoneAssumption DEF CallType, CallRecs, States,
        Calls, CodeType, CodeKeys, ClockType, CallInv, store
<1>1. ASSUME Tick PROVE UsedInv'
    <2>1. CodesKept /\ TokensKept
        BY <1>1 DEF CodesKept, TokensKept, Tick, Drop
    <2>2. IssueKept /\ LateKept
        BY <1>1 DEF IssueKept, LateKept, Tick, Drop
    <2> QED
        BY <2>1, <2>2, UsedKept
<1>2. ASSUME NEW p \in CrmCalls, NEW r \in Restaurants, NEW S \in SUBSET
             Serials, NEW b \in BOOLEAN, Begin(p, r, S, b)
      PROVE  UsedInv'
    <2>1. CodesKept /\ TokensKept
        BY <1>2 DEF CodesKept, TokensKept, Begin, Idle
    <2>2. IssueKept /\ LateKept
        BY <1>2 DEF IssueKept, LateKept, Begin, Idle
    <2> QED
        BY <2>1, <2>2, UsedKept
<1>3. ASSUME NEW p \in CrmCalls, SMembers(p) PROVE UsedInv'
    <2>1. CodesKept /\ TokensKept
        BY <1>3 DEF CodesKept, TokensKept, SMembers
    <2>2. IssueKept /\ LateKept
        BY <1>3 DEF IssueKept, LateKept, SMembers
    <2> QED
        BY <2>1, <2>2, UsedKept
<1>4. ASSUME NEW p \in CrmCalls, Clear(p) PROVE UsedInv'
    <2>1. CodesKept /\ TokensKept
        BY <1>4 DEF CodesKept, TokensKept, Clear, Drop
    <2>2. IssueKept /\ LateKept
        BY <1>4 DEF IssueKept, LateKept, Clear, Drop
    <2> QED
        BY <2>1, <2>2, UsedKept
<1>5. ASSUME NEW p \in CrmCalls, NEW s \in Serials, SetCode(p, s) PROVE UsedInv'
    <2>1. /\ call'[p].pc = "meta" /\ ~call'[p].late
          /\ \A q \in Calls \ {p} : call'[q] = call[q]
        BY <1>5 DEF SetCode, UsedInv
    <2>2. /\ code'[s].id = call[p].id /\ \A t \in Serials \ {s} : code'[t] = code[t]
          /\ UNCHANGED tokens
        BY <1>5 DEF SetCode
    <2>3. s \in Unwritten(p)
        BY <1>5 DEF SetCode, Unwritten
    <2>4. ASSUME NEW t \in Serials, code'[t] # None
          PROVE  ~HasToken(t, code[t].id)'
        <3>1. CASE t = s
            BY <2>2, <2>3, <3>1 DEF WriteInv, HasToken
        <3>2. CASE t # s
            BY <2>2, <2>4, <3>2 DEF UsedInv, HasToken
        <3> QED
            BY <3>1, <3>2
    <2>5. ASSUME NEW q \in Pairs, call'[q].pc = "issue", code'[call'[q].serial] # None
          PROVE  code'[call'[q].serial].id # call'[q].id
        <3>1. call'[q] = call[q] /\ call[q].serial \in Serials
            BY <2>1, <2>5
        <3>2. CASE call[q].serial = s
            BY <2>2, <2>3, <2>5, <3>1, <3>2 DEF WriteInv
        <3>3. CASE call[q].serial # s
            BY <2>2, <2>5, <3>1, <3>3 DEF UsedInv
        <3> QED
            BY <3>2, <3>3
    <2>6. \A q \in Calls : ~call'[q].late
        BY <2>1 DEF UsedInv
    <2> QED
        BY <2>4, <2>5, <2>6 DEF UsedInv
<1>6. ASSUME NEW p \in CrmCalls, SetMeta(p) PROVE UsedInv'
    <2>1. CodesKept /\ TokensKept
        BY <1>6 DEF CodesKept, TokensKept, SetMeta
    <2>2. IssueKept /\ LateKept
        BY <1>6 DEF IssueKept, LateKept, SetMeta
    <2> QED
        BY <2>1, <2>2, UsedKept
<1>7. ASSUME NEW p \in CrmCalls, DelSet(p) PROVE UsedInv'
    <2>1. CodesKept /\ TokensKept
        BY <1>7 DEF CodesKept, TokensKept, DelSet, Goto, NoIndex
    <2>2. IssueKept /\ LateKept
        BY <1>7 DEF IssueKept, LateKept, DelSet, Goto, NoIndex
    <2> QED
        BY <2>1, <2>2, UsedKept
<1>8. ASSUME NEW p \in CrmCalls, SAdd(p) PROVE UsedInv'
    <2>1. CodesKept /\ TokensKept
        BY <1>8 DEF CodesKept, TokensKept, SAdd, Goto, Never
    <2>2. IssueKept /\ LateKept
        BY <1>8 DEF IssueKept, LateKept, SAdd, Goto, Never
    <2> QED
        BY <2>1, <2>2, UsedKept
<1>9. ASSUME NEW p \in CrmCalls, Expire(p) PROVE UsedInv'
    <2>1. CodesKept /\ TokensKept
        BY <1>9 DEF CodesKept, TokensKept, Expire, End, Idle
    <2>2. IssueKept /\ LateKept
        BY <1>9 DEF IssueKept, LateKept, Expire, End, Idle
    <2> QED
        BY <2>1, <2>2, UsedKept
<1>10. ASSUME NEW p \in CrmCalls, NEW s \in Serials, RevokeCode(p, s) PROVE UsedInv'
    <2>1. CodesKept /\ TokensKept
        BY <1>10 DEF CodesKept, TokensKept, RevokeCode, Idle
    <2>2. IssueKept /\ LateKept
        BY <1>10 DEF IssueKept, LateKept, RevokeCode, Idle
    <2> QED
        BY <2>1, <2>2, UsedKept
<1>11. ASSUME NEW p \in Pairs, NEW s \in Serials, Pair(p, s) PROVE UsedInv'
    <2>1. code[s] # None /\ CodesKept /\ TokensKept /\ IssueKept
        BY <1>11 DEF Pair, Idle, CodesKept, TokensKept, IssueKept
    <2>2. ~HasToken(s, code[s].id)
        BY <2>1 DEF UsedInv
    <2>3. LateKept
        BY <1>11, <2>2 DEF Pair, Idle, LateKept
    <2> QED
        BY <2>1, <2>3, UsedKept
<1>12. ASSUME NEW p \in Pairs, Lookup(p) PROVE UsedInv'
    <2>1. CodesKept /\ TokensKept
        BY <1>12 DEF CodesKept, TokensKept, Lookup, Idle
    <2>2. IssueKept /\ LateKept
        BY <1>12 DEF IssueKept, LateKept, Lookup, Idle
    <2> QED
        BY <2>1, <2>2, UsedKept
<1>13. ASSUME NEW p \in Pairs, Issue(p) PROVE UsedInv'
    <2>1. call' = [call EXCEPT ![p] = Idle] /\ UNCHANGED code /\ call[p].pc = "issue"
        BY <1>13 DEF Issue, End
    <2>2. \A t \in Serials, id \in Nat : HasToken(t, id)' =>
             HasToken(t, id) \/ (t = call[p].serial /\ id = call[p].id)
        BY <1>13, IssueGives
    <2>3. IssueKept /\ LateKept
        BY <2>1 DEF IssueKept, LateKept, Idle
    <2>4. ASSUME NEW t \in Serials, code[t] # None
          PROVE  ~HasToken(t, code[t].id)'
        <3>1. code[t].id \in Nat /\ ~HasToken(t, code[t].id)
            BY <2>4 DEF UsedInv
        <3>2. ~(t = call[p].serial /\ code[t].id = call[p].id)
            BY <2>1, <2>4 DEF UsedInv
        <3> QED
            BY <2>1, <2>2, <3>1, <3>2
    <2>5. ASSUME NEW q \in Pairs, call'[q].pc = "issue", code'[call'[q].serial] # None
          PROVE  code'[call'[q].serial].id # call'[q].id
        BY <2>1, <2>3, <2>5 DEF IssueKept, UsedInv
    <2>6. \A q \in Calls : ~call'[q].late
        BY <2>3 DEF LateKept, UsedInv
    <2>7. \A t \in Serials : code'[t] # None => ~HasToken(t, code[t].id)'
        BY <2>1, <2>4
    <2> QED
        BY <2>5, <2>6, <2>7 DEF UsedInv
<1>14. ASSUME NEW p \in Calls, GetMeta(p) PROVE UsedInv'
    <2>1. CodesKept /\ TokensKept
        BY <1>14 DEF CodesKept, TokensKept, GetMeta
    <2>2. IssueKept /\ LateKept
        BY <1>14 DEF IssueKept, LateKept, GetMeta
    <2> QED
        BY <2>1, <2>2, UsedKept
<1>15. ASSUME NEW p \in Calls, SRem(p) PROVE UsedInv'
    <2>1. CodesKept /\ TokensKept
        BY <1>15 DEF CodesKept, TokensKept, SRem, Goto, NoIndex
    <2>2. IssueKept /\ LateKept
        BY <1>15 DEF IssueKept, LateKept, SRem, Goto, NoIndex
    <2> QED
        BY <2>1, <2>2, UsedKept
<1>16. ASSUME NEW p \in Calls, Del(p) PROVE UsedInv'
    <2>1. CodesKept /\ TokensKept /\ code'[call[p].serial] = None
        BY <1>16 DEF CodesKept, TokensKept, Del, Drop
    <2>2. CASE p \in Pairs
        <3>1. call' = [call EXCEPT ![p].pc = "issue"]
            BY <1>16, <2>2 DEF Del, Goto
        <3>2. ASSUME NEW t \in Serials, code'[t] # None
              PROVE  ~HasToken(t, code[t].id)'
            <4>1. code'[t] = code[t] /\ ~HasToken(t, code[t].id)
                BY <2>1, <3>2 DEF CodesKept, UsedInv
            <4> QED
                BY <2>1, <4>1 DEF HasToken, TokensKept
        <3>3. ASSUME NEW q \in Pairs, call'[q].pc = "issue", code'[call'[q].serial] # None
              PROVE  code'[call'[q].serial].id # call'[q].id
            <4>1. q # p
                BY <2>1, <3>1, <3>3
            <4>2. call'[q] = call[q] /\ call[q].serial \in Serials
                BY <3>1, <3>3, <4>1
            <4> QED
                BY <2>1, <3>3, <4>2 DEF CodesKept, UsedInv
        <3>4. \A q \in Calls : ~call'[q].late
            BY <3>1 DEF UsedInv
        <3> QED
            BY <3>2, <3>3, <3>4 DEF UsedInv
    <2>3. CASE p \notin Pairs
        <3>1. call' = [call EXCEPT ![p] = Idle]
            BY <1>16, <2>3 DEF Del, End
        <3>2. IssueKept /\ LateKept
            BY <3>1 DEF IssueKept, LateKept, Idle
        <3> QED
            BY <2>1, <3>2, UsedKept
    <2> QED
        BY <2>2, <2>3
<1>17. ASSUME NEW p \in Calls, Fails(p) PROVE UsedInv'
    <2>1. CodesKept /\ TokensKept
        BY <1>17 DEF CodesKept, TokensKept, Fails, End, Idle
    <2>2. IssueKept /\ LateKept
        BY <1>17 DEF IssueKept, LateKept, Fails, End, Idle
    <2> QED
        BY <2>1, <2>2, UsedKept
<1>18. ASSUME NEW s \in Serials, RevokeDevice(s) PROVE UsedInv'
    <2>1. CodesKept /\ IssueKept /\ LateKept
        BY <1>18 DEF CodesKept, IssueKept, LateKept, RevokeDevice
    <2>2. TokensKept
        BY <1>18, RevokeMarks DEF TokensKept
    <2> QED
        BY <2>1, <2>2, UsedKept
<1>19. CASE UNCHANGED vars
    <2>1. CodesKept /\ TokensKept
        BY <1>19 DEF CodesKept, TokensKept, vars
    <2>2. IssueKept /\ LateKept
        BY <1>19 DEF IssueKept, LateKept, vars
    <2> QED
        BY <2>1, <2>2, UsedKept

<1> QED
    BY <1>1, <1>2, <1>3, <1>4, <1>5, <1>6, <1>7, <1>8, <1>9, <1>10, <1>11,
       <1>12, <1>13, <1>14, <1>15, <1>16, <1>17, <1>18, <1>19 DEF Next, CrmStep,
       PairStep, CacheCode, CacheCodes

----------------------------------------------------------------------------
(* A step keeps the entries of revoked devices beyond their tokens. *)
LEMMA OutliveStep ==
    ASSUME CallType, CodeType, MetaType, IndexType, TokensType, CachedType,
           ClockType, OutliveInv, [Next]_vars
    PROVE  OutliveInv'
<1> USE ConstantsAssumption, NoneAssumption DEF OutliveInv, store
<1>1. ASSUME Tick PROVE OutliveInv'
    <2> SUFFICES ASSUME NEW i \in 1..Len(tokens)
                 PROVE  /\ tokens[i].exp <= now' + TokenTTL
                        /\ tokens[i].revoked /\ now' < tokens[i].exp
                              => tokens[i].exp <= revoked'[tokens[i].serial]
        BY <1>1 DEF Tick
    <2>1. tokens[i] \in Tokens
        BY Ids
    <2>2. /\ now' = now + 1
          /\ revoked' = [s \in Serials |-> IF revoked[s] <= now' THEN 0 ELSE revoked[s]]
        BY <1>1 DEF Tick
    <2>3. now \in Nat /\ tokens[i].exp \in Nat /\ tokens[i].serial \in Serials
          /\ revoked[tokens[i].serial] \in Nat
        BY <2>1 DEF Tokens, ClockType
    <2> QED
        BY <2>2, <2>3
<1>2. ASSUME NEW p \in Pairs, Issue(p) PROVE OutliveInv'
    <2>1. Len(tokens) \in Nat /\ Len(tokens') = Len(tokens) + 1 /\ UNCHANGED <<now, revoked>>
        BY <1>2, IssueAppends, Ids DEF Issue, ClockType
    <2> SUFFICES ASSUME NEW i \in 1..Len(tokens')
                 PROVE  /\ tokens'[i].exp <= now + TokenTTL
                        /\ tokens'[i].revoked /\ now < tokens'[i].exp
                              => tokens'[i].exp <= revoked[tokens'[i].serial]
        BY <2>1
    <2>2. CASE i \in 1..Len(tokens)
        BY <1>2, <2>2, IssueAppends DEF ClockType
    <2>3. CASE i = Len(tokens) + 1
        <3>1. tokens'[i].exp = now + TokenTTL /\ ~tokens'[i].revoked
            BY <1>2, <2>3, IssueAppends DEF ClockType
        <3>2. now + TokenTTL \in Nat
            BY DEF ClockType
        <3> QED
            BY <3>1, <3>2
    <2> QED
        BY <2>1, <2>2, <2>3
<1>3. ASSUME NEW s \in Serials, RevokeDevice(s) PROVE OutliveInv'
    <2>1. /\ Len(tokens') = Len(tokens) /\ UNCHANGED now
          /\ revoked' = [revoked EXCEPT ![s] = now + TokenTTL]
        BY <1>3, RevokeMarks DEF RevokeDevice, RevocationTTL
    <2> SUFFICES ASSUME NEW i \in 1..Len(tokens)
                 PROVE  /\ tokens'[i].exp <= now + TokenTTL
                        /\ tokens'[i].revoked /\ now < tokens'[i].exp
                              => tokens'[i].exp <= revoked'[tokens'[i].serial]
        BY <2>1
    <2>2. /\ tokens'[i].serial = tokens[i].serial
          /\ tokens'[i].exp = tokens[i].exp
          /\ tokens'[i].revoked = (tokens[i].revoked \/ tokens[i].serial = s)
        BY <1>3, RevokeMarks
    <2>3. tokens[i].serial \in Serials
        BY Ids DEF Tokens
    <2>4. CASE tokens[i].serial = s
        BY <2>1, <2>2, <2>4 DEF ClockType
    <2>5. CASE tokens[i].serial # s
        BY <2>1, <2>2, <2>3, <2>5 DEF ClockType
    <2> QED
        BY <2>4, <2>5
<1>4. ASSUME UNCHANGED <<now, revoked, tokens>> PROVE OutliveInv'
    BY <1>4
<1> QED
    BY <1>1, <1>2, <1>3, <1>4 DEF Next, CrmStep, PairStep, CacheCode,
       CacheCodes, vars, Begin, SMembers, Clear, SetCode, SetMeta, DelSet,
       SAdd, Expire, RevokeCode, Pair, Lookup, GetMeta, SRem, Del, Fails,
       Goto

(* A step lets nobody trade in a used code. *)
LEMMA ConsumedStep ==
    ASSUME CallType, CodeType, MetaType, IndexType, TokensType, CachedType,
           ClockType, UsedInv, ConsumedStaysConsumed, [Next]_vars
    PROVE  ConsumedStaysConsumed'
<1> USE ConstantsAssumption, NoneAssumption DEF ConsumedStaysConsumed, store
<1>1. ASSUME NEW p \in Pairs, Issue(p) PROVE ConsumedStaysConsumed'
    <2>1. ~call[p].late
        BY DEF Calls, UsedInv
    <2>2. Len(tokens') = Len(tokens) + 1 /\ tokens'[Len(tokens) + 1].late = call[p].late
          /\ \A i \in 1..Len(tokens) : tokens'[i] = tokens[i]
        BY <1>1, IssueAppends
    <2> QED
        BY <2>1, <2>2, Ids
<1>2. ASSUME NEW s \in Serials, RevokeDevice(s) PROVE ConsumedStaysConsumed'
    BY <1>2, RevokeMarks
<1>3. ASSUME UNCHANGED tokens PROVE ConsumedStaysConsumed'
    BY <1>3
<1> QED
    BY <1>1, <1>2, <1>3 DEF Next, CrmStep, PairStep, CacheCode, CacheCodes,
       vars, Tick, Begin, SMembers, Clear, SetCode, SetMeta, DelSet, SAdd,
       Expire, RevokeCode, Pair, Lookup, GetMeta, SRem, Del, Fails, Goto

----------------------------------------------------------------------------
(* A step keeps the types. *)
LEMMA TypeStep ==
    ASSUME TypeOK, CallInv, IdInv, [Next]_vars
    PROVE  TypeOK'
<1>1. /\ CallType /\ CodeType /\ MetaType /\ IndexType
      /\ TokensType /\ CachedType /\ ClockType /\ StraysType
    BY TypeParts
<1>2. /\ CallType' /\ CodeType' /\ MetaType' /\ IndexType'
      /\ TokensType' /\ CachedType' /\ ClockType' /\ StraysType'
    BY <1>1, CallTypeStep, CodeTypeStep, IndexTypeStep, TokensTypeStep,
       CachedTypeStep, ClockTypeStep, StraysTypeStep
<1>3. TypeOK' <=> /\ CallType' /\ CodeType' /\ MetaType' /\ IndexType'
                  /\ TokensType' /\ CachedType' /\ ClockType' /\ StraysType'
    BY DEF TypeOK, CallType, CodeType, MetaType, IndexType, TokensType, CachedType,
           ClockType, StraysType, Metas, CallRecs
<1> QED
    BY <1>2, <1>3

(* The invariant holds at the start ... *)
LEMMA InitInv == Init => IInv
<1> SUFFICES ASSUME Init PROVE IInv
    OBVIOUS
<1> USE ConstantsAssumption DEF Init, Idle, Calls
<1>1. TypeOK
    <2>1. CallType
        BY DEF CallType, CallRecs, States
    <2>2. CodeType /\ MetaType /\ IndexType /\ ClockType
        BY DEF CodeType, MetaType, IndexType, ClockType, NoIndex
    <2>3. TokensType /\ CachedType /\ StraysType
        BY DEF TokensType, CachedType, StraysType
    <2> QED
        BY <2>1, <2>2, <2>3, TypeParts
<1>2. CallInv
    BY DEF CallInv, States
<1>3. IdInv
    BY DEF IdInv
<1>4. WriteInv
    BY DEF WriteInv, Unwritten
<1>5. UsedInv /\ OutliveInv /\ ConsumedStaysConsumed
    BY DEF UsedInv, OutliveInv, ConsumedStaysConsumed
<1> QED
    BY <1>1, <1>2, <1>3, <1>4, <1>5 DEF IInv

(* ... and after every step. *)
LEMMA NextInv == IInv /\ [Next]_vars => IInv'
<1> SUFFICES ASSUME IInv, [Next]_vars PROVE IInv'
    OBVIOUS
<1>1. /\ TypeOK /\ CallInv /\ IdInv /\ WriteInv /\ UsedInv /\ OutliveInv
      /\ ConsumedStaysConsumed
    BY DEF IInv
<1>2. /\ CallType /\ CodeType /\ MetaType /\ IndexType
      /\ TokensType /\ CachedType /\ ClockType
    BY <1>1, TypeParts
<1>3. TypeOK'
    BY <1>1, TypeStep
<1>4. CallInv' /\ IdInv'
    BY <1>1, <1>2, CallStep, IdStep
<1>5. WriteInv' /\ UsedInv'
    BY <1>1, <1>2, WriteStep, UsedStep
<1>6. OutliveInv' /\ ConsumedStaysConsumed'
    BY <1>1, <1>2, OutliveStep, ConsumedStep
<1> QED
    BY <1>3, <1>4, <1>5, <1>6 DEF IInv

(* Calls work on what their state says, the numbers of codes are unique, a *)
(* code is unknown before it is written and gone once it is used, and the  *)
(* entry of a revoked device outlives its tokens: together this is         *)
(* inductive, for any number of devices, calls, codes and failures.        *)
THEOREM InductiveInvariant == Spec => []IInv
<1>1. Init => IInv
    BY InitInv
<1>2. IInv /\ [Next]_vars => IInv'
    BY NextInv
<1> QED
    BY <1>1, <1>2, PTL DEF Spec

(* Every variable keeps its type. *)
THEOREM TypeCorrect == Spec => []TypeOK
<1>1. IInv => TypeOK
    BY DEF IInv
<1> QED
    BY <1>1, InductiveInvariant, PTL

(* Pair deletes the code before it signs a token, and signs none if the    *)
(* DEL failed: whatever fails and whoever asks at the same time, a code    *)
(* that has brought a token is never found again.                          *)
THEOREM ConsumedCodes == Spec => []ConsumedStaysConsumed
<1>1. IInv => ConsumedStaysConsumed
    BY DEF IInv
<1> QED
    BY <1>1, InductiveInvariant, PTL

(* RevokeDevice keeps its entry for as long as a token lives: DeviceAuth   *)
(* lets no token in that was issued before, until it has expired.          *)
THEOREM RevocationHolds == Spec => []RevokedShutOut
<1>1. IInv => RevokedShutOut
    <2> SUFFICES ASSUME IInv, NEW i \in 1..Len(tokens), tokens[i].revoked,
                        now < tokens[i].exp, revoked[tokens[i].serial] = 0
                 PROVE  FALSE
        BY DEF RevokedShutOut, Accepts
    <2>1. CallType /\ TokensType /\ ClockType
        BY TypeParts DEF IInv
    <2>2. tokens[i].exp \in Nat
        BY <2>1, Ids DEF Tokens
    <2>3. tokens[i].exp <= 0 /\ now \in Nat
        BY <2>1 DEF IInv, OutliveInv, ClockType
    <2> QED
        BY <2>2, <2>3
<1> QED
    BY <1>1, InductiveInvariant, PTL

----------------------------------------------------------------------------
(* A batch supersedes the codes before it, but for the strays.             *)

\* A code that is there, that nobody is about to delete and that batches know.
Deleting(s) == \E p \in Calls : call[p].pc = "del" /\ call[p].serial = s
Live(s) == code[s] # None /\ code[s].id \notin strays /\ ~Deleting(s)

\* The states in which a call has codes to write, or to put in the set.
Writing == {"code", "meta", "delset", "sadd"}
Writes(p, s) == call[p].id = code[s].id /\ call[p].pc \in Writing

\* A batch came after the calls it knows of, and those had ended; CRM's call
\* in flight has not.
HistoryInv ==
    /\ \A b \in 1..Len(cached) : \A i \in cached[b].before :
          i \in 1..Len(cached) /\ cached[i].ended # "no"
    /\ \A p \in CrmCalls : call[p].id > 0 =>
          /\ cached[call[p].id].ended = "no"
          /\ cached[call[p].id].rest = call[p].rest
          /\ cached[call[p].id].batch = call[p].batch

\* The serials of a request, and which of the steps are those of a batch.
RequestInv ==
    \A p \in CrmCalls :
        /\ call[p].pc \in {"smembers", "code", "meta"} => call[p].todo \subseteq call[p].serials
        /\ call[p].pc \in {"smembers", "clear", "delset"} => call[p].batch

\* Where a code came from: while that call runs, the serial is one of its own.
OriginInv ==
    \A s \in Serials : code[s] # None =>
        /\ code[s].id > 0
        /\ code[s].rest = cached[code[s].id].rest
        /\ code[s].expires <= now + CodeTTL
        /\ \A p \in CrmCalls : call[p].id = code[s].id =>
              call[p].pc \notin {"smembers", "clear"} /\ s \in call[p].serials

\* What a batch in flight does not know of for its restaurant is a stray.
OverlapInv ==
    \A q \in CrmCalls : call[q].id > 0 /\ call[q].batch =>
        \A i \in 1..Len(cached) :
            i # call[q].id /\ cached[i].rest = call[q].rest
                => i \in cached[call[q].id].before \union strays

\* A live code is in its restaurant's set, or the call that wrote it will put
\* it there ...
ListedInv ==
    \A s \in Serials : Live(s) =>
        s \in index[code[s].rest].serials \/ \E p \in CrmCalls : Writes(p, s)

\* ... and the set outlives it, or has no expiry, or that call will extend it.
LastingInv ==
    \A s \in Serials : Live(s) =>
        \/ code[s].expires <= index[code[s].rest].expires
        \/ index[code[s].rest].expires > MaxNow
        \/ \E p \in CrmCalls : call[p].id = code[s].id

\* From its SMEMBERS on, a batch knows every live code it is to supersede, and
\* from the DEL on there is none.
ClearedInv ==
    \A q \in CrmCalls, s \in Serials :
        /\ call[q].id > 0 /\ call[q].batch /\ Live(s)
        /\ code[s].rest = call[q].rest /\ code[s].id \in cached[call[q].id].before
        => call[q].pc = "smembers" \/ (call[q].pc = "clear" /\ s \in call[q].serials)

BooksInv == HistoryInv /\ RequestInv /\ OriginInv /\ OverlapInv
BatchInv == BooksInv /\ ListedInv /\ LastingInv /\ ClearedInv /\ BatchSupersedes

\* The types and what calls work on, as the lemmas below need them.
Typed == /\ CallType /\ CodeType /\ MetaType /\ IndexType /\ CachedType /\ ClockType
         /\ CallInv /\ IdInv

(* Numbers of calls are numbers, and a call that caches codes has one that *)
(* cached knows.                                                           *)
LEMMA Numbers ==
    ASSUME Typed
    PROVE  /\ Len(cached) \in Nat
           /\ \A p \in Calls : call[p].id \in Nat
           /\ \A p \in CrmCalls : /\ p \in Calls
                                  /\ call[p].id > 0 => call[p].id \in 1..Len(cached)
                                  /\ call[p].id > 0 <=> call[p].pc \in
                                        Writing \union {"smembers", "clear", "expire"}
<1> USE DEF Typed
<1>1. Len(cached) \in Nat
    BY DEF CachedType
<1>2. \A p \in Calls : call[p].id \in Nat /\ call[p].id <= Len(cached) /\ call[p].pc \in States
    BY DEF CallType, CallRecs, IdInv
<1>3. ASSUME NEW p \in CrmCalls
      PROVE  call[p].id > 0 <=> call[p].pc \in Writing \union {"smembers", "clear", "expire"}
    <2>1. /\ p \in Calls /\ call[p].pc \in States \ {"lookup", "issue"}
          /\ call[p].pc \in {"smembers", "clear", "code", "meta", "delset", "sadd", "expire"}
                => call[p].id > 0
          /\ call[p].pc \in {"idle", "get", "srem", "del"} => call[p].id = 0
        BY DEF CallInv, Calls
    <2> QED
        BY <2>1 DEF States, Writing
<1> QED
    BY <1>1, <1>2, <1>3 DEF Calls

----------------------------------------------------------------------------
(* What a step does to the calls, the history and the codes.               *)

\* The writing call p goes from one state to the next.
Passes(p) ==
    /\ call[p].pc \in Writing /\ call'[p].serials = call[p].serials
    /\ call'[p].pc \in Writing \/ (SAdd(p) /\ call'[p].pc = "expire")
    /\ call'[p].pc \in {"code", "meta"} =>
          call[p].pc \in {"code", "meta"} /\ call'[p].todo \subseteq call[p].todo
    /\ call'[p].pc = "delset" => call'[p].batch

\* A step of the pipelines, of a pairing or of the clock leaves the books as
\* they are.
Keeps ==
    /\ UNCHANGED cached
    /\ \A p \in CrmCalls :
        /\ call'[p].id = call[p].id
        /\ call[p].id > 0 =>
              /\ call'[p].rest = call[p].rest /\ call'[p].batch = call[p].batch
              /\ \/ call'[p] = call[p]
                 \/ SMembers(p) /\ call[p].pc = "smembers"
                 \/ Clear(p) /\ call[p].pc = "clear"
                 \/ Passes(p)

\* One of CRM's calls begins to cache codes, or ends.
Starts(p, r, S, b) ==
    /\ Begin(p, r, S, b)
    /\ call[p].id = 0 /\ call'[p].id = Len(cached) + 1 /\ call'[p].rest = r /\ call'[p].batch = b
    /\ call'[p].pc = (IF b THEN "smembers" ELSE "code")
    /\ call'[p].todo = S /\ call'[p].serials = S
    /\ \A q \in Calls \ {p} : call'[q] = call[q]
    /\ Len(cached') = Len(cached) + 1
    /\ \A i \in 1..Len(cached) : cached'[i] = cached[i]
    /\ cached'[Len(cached) + 1] = [rest |-> r, batch |-> b, ended |-> "no",
           before |-> {i \in 1..Len(cached) : cached[i].ended # "no"}]

Stops(p, how) ==
    /\ call[p].id > 0 /\ call'[p].id = 0 /\ call'[p].pc = "idle"
    /\ \A q \in Calls \ {p} : call'[q] = call[q]
    /\ Len(cached') = Len(cached)
    /\ \A i \in 1..Len(cached) \ {call[p].id} : cached'[i] = cached[i]
    /\ cached'[call[p].id] = [cached[call[p].id] EXCEPT !.ended = how]

\* Every step does one of these.
Moves ==
    \/ \E p \in CrmCalls, r \in Restaurants, S \in SUBSET Serials, b \in BOOLEAN : Starts(p, r, S, b)
    \/ \E p \in CrmCalls : Expire(p) /\ Stops(p, "ok")
    \/ \E p \in CrmCalls : Fails(p) /\ Stops(p, "failed") /\ call[p].id \in strays'
    \/ Keeps

(* Begin does that ...                                                     *)
LEMMA BeginStarts ==
    ASSUME Typed, NEW p \in CrmCalls, NEW r \in Restaurants, NEW S \in SUBSET Serials,
           NEW b \in BOOLEAN, Begin(p, r, S, b)
    PROVE  Starts(p, r, S, b) /\ strays \subseteq strays'
<1> DEFINE e == [rest |-> r, batch |-> b, ended |-> "no",
                 before |-> {i \in 1..Len(cached) : cached[i].ended # "no"}]
<1>1. /\ p \in Calls /\ CallType /\ CachedType /\ call[p].pc = "idle"
      /\ cached' = Append(cached, e) /\ strays \subseteq strays'
    BY DEF Begin, Typed, Calls
<1>2. call[p].id = 0
    BY <1>1 DEF Typed, CallInv
<1>3. /\ call'[p].id = Len(cached) + 1 /\ call'[p].rest = r /\ call'[p].batch = b
      /\ call'[p].pc = (IF b THEN "smembers" ELSE "code")
      /\ call'[p].todo = S /\ call'[p].serials = S
      /\ \A q \in Calls \ {p} : call'[q] = call[q]
    BY <1>1 DEF Begin, Idle, CallType
<1> HIDE DEF e
<1>4. /\ Len(cached') = Len(cached) + 1 /\ \A i \in 1..Len(cached) : cached'[i] = cached[i]
      /\ cached'[Len(cached) + 1] = e
    BY <1>1 DEF CachedType
<1> QED
    BY <1>1, <1>2, <1>3, <1>4 DEF Starts, e

(* ... and so does the end of a call.                                      *)
LEMMA EndStops ==
    ASSUME Typed, NEW p \in CrmCalls, call[p].id > 0, NEW how \in {"ok", "failed"}, End(p, how)
    PROVE  Stops(p, how)
<1>1. p \in Calls /\ CallType /\ CachedType /\ call[p].id \in 1..Len(cached)
    BY Numbers DEF Typed
<1>2. /\ call'[p].id = 0 /\ call'[p].pc = "idle"
      /\ \A q \in Calls \ {p} : call'[q] = call[q]
    BY <1>1 DEF End, Idle, CallType
<1>3. cached' = [cached EXCEPT ![call[p].id].ended = how]
    BY DEF End
<1>4. Len(cached') = Len(cached)
    BY <1>1, <1>3, EndUpdate
<1>5. cached \in [1..Len(cached) -> Cacheds]
    <2>1. cached \in Seq(Cacheds)
        BY <1>1 DEF CachedType, Cacheds
    <2> QED
        BY <2>1
<1> QED
    BY <1>1, <1>2, <1>3, <1>4, <1>5 DEF Stops

(* A step of another call, or one that changes no call, keeps the books.   *)
LEMMA OthersKeep ==
    ASSUME \A p \in CrmCalls : call'[p] = call[p], UNCHANGED cached
    PROVE  Keeps
BY DEF Keeps

(* A step of a call that is not caching codes does, too.                   *)
LEMMA IdlersKeep ==
    ASSUME NEW p \in CrmCalls, call[p].id = 0, call'[p].id = 0,
           \A q \in CrmCalls \ {p} : call'[q] = call[q], UNCHANGED cached
    PROVE  Keeps
BY DEF Keeps

(* And a step within a pipeline.                                           *)
LEMMA PipelineKeeps ==
    ASSUME Typed, RequestInv, NEW p \in CrmCalls,
           \/ SMembers(p) \/ Clear(p) \/ \E t \in Serials : SetCode(p, t)
           \/ SetMeta(p) \/ DelSet(p) \/ SAdd(p)
    PROVE  Keeps /\ \A q \in Calls \ {p} : call'[q] = call[q]
<1>1. p \in Calls /\ CallType
    BY DEF Calls, Typed
<1> USE <1>1 DEF CallType, CallRecs
<1>2. ASSUME /\ call'[p].id = call[p].id /\ call'[p].rest = call[p].rest
             /\ call'[p].batch = call[p].batch
             /\ \A q \in Calls \ {p} : call'[q] = call[q]
             /\ UNCHANGED cached
             /\ \/ SMembers(p) /\ call[p].pc = "smembers"
                \/ Clear(p) /\ call[p].pc = "clear"
                \/ Passes(p)
      PROVE  Keeps /\ \A q \in Calls \ {p} : call'[q] = call[q]
    BY <1>2 DEF Keeps, Calls
<1>3. CASE SMembers(p)
    BY <1>2, <1>3 DEF SMembers
<1>4. CASE Clear(p)
    BY <1>2, <1>4 DEF Clear
<1>5. ASSUME NEW s \in Serials, SetCode(p, s)
      PROVE  Keeps /\ \A q \in Calls \ {p} : call'[q] = call[q]
    <2>1. /\ call[p].pc = "code" /\ UNCHANGED cached
          /\ call' = [call EXCEPT ![p].pc = "meta", ![p].serial = s]
        BY <1>5 DEF SetCode
    <2>2. /\ call'[p].pc = "meta" /\ call'[p].id = call[p].id /\ call'[p].rest = call[p].rest
          /\ call'[p].batch = call[p].batch /\ call'[p].serials = call[p].serials
          /\ call'[p].todo = call[p].todo
          /\ \A q \in Calls \ {p} : call'[q] = call[q]
        BY <2>1
    <2> QED
        BY <1>2, <2>1, <2>2 DEF Passes, Writing
<1>6. CASE SetMeta(p)
    BY <1>2, <1>6 DEF SetMeta, Passes, Writing
<1>7. CASE DelSet(p)
    BY <1>2, <1>7 DEF DelSet, Goto, Passes, Writing
<1>8. CASE SAdd(p)
    BY <1>2, <1>8 DEF SAdd, Goto, Passes, Writing
<1> QED
    BY <1>3, <1>4, <1>5, <1>6, <1>7, <1>8

(* Strays stay strays, and every step begins, ends or keeps.               *)
LEMMA CallsStep ==
    ASSUME Typed, RequestInv, [Next]_vars
    PROVE  strays \subseteq strays' /\ Moves
<1> DEFINE Goal == strays \subseteq strays' /\ Moves
<1>0. CallType /\ CallInv /\ CrmCalls \intersect Pairs = {}
    BY ConstantsAssumption DEF Typed
<1>1. CASE Tick \/ UNCHANGED vars \/ \E s \in Serials : RevokeDevice(s)
    <2>1. strays \subseteq strays' /\ UNCHANGED <<call, cached>>
        BY <1>1 DEF Tick, vars, RevokeDevice
    <2> QED
        BY <2>1, OthersKeep DEF Moves
<1>2. ASSUME NEW p \in Pairs,
             PairStep(p) \/ GetMeta(p) \/ SRem(p) \/ Del(p) \/ Fails(p)
      PROVE  Goal
    <2>1. p \in Calls /\ p \notin CrmCalls
        BY <1>0 DEF Calls
    <2>2. ASSUME NEW how, End(p, how) PROVE UNCHANGED cached /\ \A q \in CrmCalls : call'[q] = call[q]
        BY <1>0, <2>1, <2>2 DEF End, CallType, Calls
    <2>3. strays \subseteq strays' /\ UNCHANGED cached
        <3>1. CASE PairStep(p)
            BY <2>2, <3>1 DEF PairStep, Pair, Lookup, Issue
        <3>2. CASE GetMeta(p) \/ SRem(p)
            BY <3>2 DEF GetMeta, SRem
        <3>3. CASE Del(p)
            BY <3>3 DEF Del
        <3>4. CASE Fails(p)
            BY <2>2, <3>4 DEF Fails
        <3> QED
            BY <1>2, <3>1, <3>2, <3>3, <3>4
    <2>4. \A q \in CrmCalls : call'[q] = call[q]
        <3>1. CASE PairStep(p)
            BY <1>0, <2>1, <2>2, <3>1 DEF PairStep, Pair, Lookup, Issue, CallType, Calls
        <3>2. CASE GetMeta(p)
            BY <1>0, <2>1, <3>2 DEF GetMeta, CallType, Calls
        <3>3. CASE SRem(p) \/ Del(p)
            BY <1>0, <1>2, <2>1, <3>3 DEF SRem, Del, Goto, CallType, Calls
        <3>4. CASE Fails(p)
            BY <2>2, <3>4 DEF Fails
        <3> QED
            BY <1>2, <3>1, <3>2, <3>3, <3>4
    <2> QED
        BY <2>3, <2>4, OthersKeep DEF Moves
<1>3. ASSUME NEW p \in CrmCalls,
             (\E t \in Serials : RevokeCode(p, t)) \/ GetMeta(p) \/ SRem(p) \/ Del(p)
      PROVE  Goal
    <2>1. /\ p \in Calls /\ p \notin Pairs
          /\ call[p].pc \in {"idle", "get", "srem", "del"} => call[p].id = 0
        BY <1>0 DEF Calls, CallInv
    <2>2. ASSUME NEW t \in Serials, RevokeCode(p, t)
          PROVE  /\ call[p].pc = "idle" /\ call'[p].id = 0 /\ UNCHANGED <<cached, strays>>
                 /\ \A q \in CrmCalls \ {p} : call'[q] = call[q]
        BY <1>0, <2>1, <2>2 DEF RevokeCode, Idle, CallType, Calls
    <2>3. CASE GetMeta(p)
        <3>1. /\ call[p].pc = "get" /\ UNCHANGED <<cached, strays>>
              /\ \A q \in CrmCalls \ {p} : call'[q] = call[q]
            BY <1>0, <2>1, <2>3 DEF GetMeta, CallType, Calls
        <3>2. call'[p].id = call[p].id
            BY <1>0, <2>1, <2>3 DEF GetMeta, CallType, CallRecs
        <3> QED
            BY <2>1, <3>1, <3>2, IdlersKeep DEF Moves
    <2>4. CASE SRem(p)
        <3>1. /\ call[p].pc = "srem" /\ call'[p].id = call[p].id /\ UNCHANGED <<cached, strays>>
              /\ \A q \in CrmCalls \ {p} : call'[q] = call[q]
            BY <1>0, <2>1, <2>4 DEF SRem, Goto, CallType, CallRecs, Calls
        <3> QED
            BY <2>1, <3>1, IdlersKeep DEF Moves
    <2>5. CASE Del(p)
        <3>1. call[p].pc = "del" /\ End(p, "ok") /\ UNCHANGED strays
            BY <2>1, <2>5 DEF Del
        <3>2. /\ call'[p].id = 0 /\ UNCHANGED cached
              /\ \A q \in CrmCalls \ {p} : call'[q] = call[q]
            BY <1>0, <2>1, <3>1 DEF End, Idle, CallType, Calls
        <3> QED
            BY <2>1, <3>1, <3>2, IdlersKeep DEF Moves
    <2>6. ASSUME NEW t \in Serials, RevokeCode(p, t) PROVE Goal
        BY <2>1, <2>2, <2>6, IdlersKeep DEF Moves
    <2> QED
        BY <1>3, <2>3, <2>4, <2>5, <2>6
<1>4. ASSUME NEW p \in CrmCalls, Fails(p) PROVE Goal
    <2>1. End(p, "failed") /\ strays \subseteq strays' /\ Leaves(p) \subseteq strays'
        BY <1>4 DEF Fails
    <2>2. CASE call[p].id > 0
        <3>1. call[p].pc # "del" /\ call[p].id \in Nat
            BY <1>0, <2>2, Numbers DEF Writing
        <3>2. call[p].id \in strays'
            BY <2>1, <2>2, <3>1 DEF Leaves
        <3>3. Stops(p, "failed")
            BY <2>1, <2>2, EndStops
        <3> QED
            BY <1>4, <2>1, <3>2, <3>3 DEF Moves
    <2>3. CASE ~(call[p].id > 0)
        <3>1. call[p].id = 0 /\ p \in Calls
            BY <2>3, Numbers
        <3>2. /\ call'[p].id = 0 /\ UNCHANGED cached
              /\ \A q \in CrmCalls \ {p} : call'[q] = call[q]
            BY <1>0, <2>1, <3>1 DEF End, Idle, CallType, Calls
        <3> QED
            BY <2>1, <3>1, <3>2, IdlersKeep DEF Moves
    <2> QED
        BY <2>2, <2>3
<1>5. ASSUME NEW p \in CrmCalls, CrmStep(p) PROVE Goal
    <2>1. ASSUME NEW s \in Serials, NEW r \in Restaurants, CacheCode(p, s, r) PROVE Goal
        <3>1. Begin(p, r, {s}, FALSE) /\ {s} \in SUBSET Serials
            BY <2>1 DEF CacheCode
        <3> QED
            BY <3>1, BeginStarts DEF Moves
    <2>2. ASSUME NEW S \in SUBSET Serials, NEW r \in Restaurants, CacheCodes(p, S, r) PROVE Goal
        <3>1. Begin(p, r, S, TRUE)
            BY <2>2 DEF CacheCodes
        <3> QED
            BY <3>1, BeginStarts DEF Moves
    <2>3. ASSUME SMembers(p) \/ Clear(p) \/ (\E t \in Serials : SetCode(p, t))
                 \/ SetMeta(p) \/ DelSet(p) \/ SAdd(p)
          PROVE  Goal
        <3>1. UNCHANGED strays
            BY <2>3 DEF SMembers, Clear, SetCode, SetMeta, DelSet, SAdd
        <3> QED
            BY <2>3, <3>1, PipelineKeeps DEF Moves
    <2>4. ASSUME Expire(p) PROVE Goal
        <3>1. End(p, "ok") /\ call[p].pc = "expire" /\ UNCHANGED strays
            BY <2>4 DEF Expire
        <3>2. call[p].id > 0
            BY <3>1, Numbers
        <3> QED
            BY <2>4, <3>1, <3>2, EndStops DEF Moves
    <2> QED
        BY <1>3, <1>5, <2>1, <2>2, <2>3, <2>4 DEF CrmStep
<1> QED
    BY <1>1, <1>2, <1>3, <1>4, <1>5 DEF Next, Calls

(* The clock, the codes, and who is about to delete them: what is live     *)
(* after a step was so before, but for the code that a step writes.        *)
LEMMA LiveStep ==
    ASSUME Typed, [Next]_vars, NEW s \in Serials, Live(s)', strays \subseteq strays'
    PROVE  \/ Live(s) /\ code'[s] = code[s]
           \/ \E p \in CrmCalls : SetCode(p, s)
<1>0. CallType /\ CodeType /\ CrmCalls \intersect Pairs = {}
    BY ConstantsAssumption DEF Typed
<1> DEFINE Goal == (Live(s) /\ code'[s] = code[s]) \/ \E p \in CrmCalls : SetCode(p, s)
<1>1. code'[s] # None /\ code'[s].id \notin strays' /\ ~Deleting(s)'
    BY DEF Live
<1>2. ASSUME code'[s] = code[s], NEW p \in Calls, \A q \in Calls \ {p} : call'[q] = call[q],
             call[p].pc # "del"
      PROVE  Goal
    BY <1>1, <1>2 DEF Live, Deleting
<1>3. ASSUME code'[s] = code[s], UNCHANGED call PROVE Goal
    BY <1>1, <1>3 DEF Live, Deleting
<1>4. CASE Tick \/ UNCHANGED vars \/ \E t \in Serials : RevokeDevice(t)
    <2>1. UNCHANGED call /\ code'[s] \in {None, code[s]}
        BY <1>4 DEF Tick, Drop, vars, store, RevokeDevice
    <2> QED
        BY <1>1, <1>3, <2>1
<1>5. ASSUME NEW p \in Calls, Del(p) PROVE Goal
    <2>1. /\ code'[s] = (IF s = call[p].serial THEN None ELSE code[s])
          /\ \A q \in Calls \ {p} : call'[q] = call[q]
        BY <1>0, <1>5 DEF Del, Drop, Goto, End, CallType
    <2>2. s # call[p].serial /\ code'[s] = code[s]
        BY <1>1, <2>1
    <2> QED
        BY <1>1, <2>1, <2>2 DEF Live, Deleting
<1>6. ASSUME NEW p \in Calls, Fails(p) PROVE Goal
    <2>1. /\ UNCHANGED code /\ Leaves(p) \subseteq strays'
          /\ \A q \in Calls \ {p} : call'[q] = call[q]
        BY <1>0, <1>6 DEF Fails, End, store, CallType
    <2>2. ~(call[p].pc = "del" /\ call[p].serial = s)
        <3> SUFFICES ASSUME call[p].pc = "del", call[p].serial = s, code[s] # None
                     PROVE  code[s].id \in strays'
            BY <1>1, <2>1
        <3>1. code[s].id \in Leaves(p)
            BY DEF Leaves
        <3> QED
            BY <2>1, <3>1
    <2> QED
        BY <1>1, <2>1, <2>2 DEF Live, Deleting
<1>7. ASSUME NEW p \in Calls, GetMeta(p) \/ SRem(p) PROVE Goal
    <2>1. UNCHANGED code /\ call[p].pc # "del"
        BY <1>7 DEF GetMeta, SRem, store
    <2>2. \A q \in Calls \ {p} : call'[q] = call[q]
        BY <1>0, <1>7 DEF GetMeta, SRem, Goto, CallType
    <2> QED
        BY <1>2, <2>1, <2>2
<1>8. ASSUME NEW p \in Pairs, PairStep(p) PROVE Goal
    <2>1. UNCHANGED code /\ call[p].pc # "del" /\ p \in Calls
        BY <1>8 DEF PairStep, Pair, Lookup, Issue, store, Calls
    <2>2. \A q \in Calls \ {p} : call'[q] = call[q]
        BY <1>0, <1>8 DEF PairStep, Pair, Lookup, Issue, End, CallType
    <2> QED
        BY <1>2, <2>1, <2>2
<1>9. ASSUME NEW p \in CrmCalls, CrmStep(p) PROVE Goal
    <2>0. p \in Calls
        BY DEF Calls
    <2>1. ASSUME NEW r, NEW S, NEW b, Begin(p, r, S, b) PROVE Goal
        <3>1. UNCHANGED code /\ call[p].pc # "del" /\ \A q \in Calls \ {p} : call'[q] = call[q]
            BY <1>0, <2>0, <2>1 DEF Begin, store, CallType
        <3> QED
            BY <1>2, <2>0, <3>1
    <2>2. ASSUME NEW t \in Serials, SetCode(p, t) PROVE Goal
        <3>1. call[p].pc # "del" /\ \A q \in Calls \ {p} : call'[q] = call[q]
            BY <1>0, <2>0, <2>2 DEF SetCode, CallType
        <3>2. t # s => code'[s] = code[s]
            BY <1>0, <2>2 DEF SetCode, CodeType
        <3> QED
            BY <1>2, <2>0, <2>2, <3>1, <3>2
    <2>3. CASE Clear(p)
        <3>1. call[p].pc # "del" /\ \A q \in Calls \ {p} : call'[q] = call[q]
            BY <1>0, <2>0, <2>3 DEF Clear, CallType
        <3>2. code'[s] \in {None, code[s]}
            BY <2>3 DEF Clear, Drop
        <3> QED
            BY <1>1, <1>2, <2>0, <3>1, <3>2
    <2>4. ASSUME \/ SMembers(p) \/ SetMeta(p) \/ DelSet(p) \/ SAdd(p) \/ Expire(p)
                 \/ \E t \in Serials : RevokeCode(p, t)
          PROVE  Goal
        <3>1. UNCHANGED code /\ call[p].pc # "del"
            BY <2>4 DEF SMembers, SetMeta, DelSet, SAdd, Expire, RevokeCode, store
        <3>2. CASE SMembers(p) \/ SetMeta(p) \/ DelSet(p) \/ SAdd(p)
            BY <1>0, <1>2, <2>0, <3>1, <3>2 DEF SMembers, SetMeta, DelSet, SAdd, Goto, CallType
        <3>3. CASE Expire(p) \/ \E t \in Serials : RevokeCode(p, t)
            BY <1>0, <1>2, <2>0, <3>1, <3>3 DEF Expire, End, RevokeCode, CallType
        <3> QED
            BY <2>4, <3>2, <3>3
    <2> QED
        BY <1>9, <2>1, <2>2, <2>3, <2>4 DEF CrmStep, CacheCode, CacheCodes
<1> QED
    BY <1>4, <1>5, <1>6, <1>7, <1>8, <1>9 DEF Next

----------------------------------------------------------------------------
(* The history, the requests and where codes come from.                    *)

(* What is in the history stays, but that calls end.                       *)
LEMMA Past ==
    ASSUME Typed, Moves
    PROVE  /\ Len(cached) \in Nat /\ Len(cached') \in Nat /\ Len(cached) <= Len(cached')
           /\ \A i \in 1..Len(cached) :
                 /\ i \in 1..Len(cached')
                 /\ cached'[i].rest = cached[i].rest /\ cached'[i].batch = cached[i].batch
                 /\ cached'[i].before = cached[i].before
                 /\ cached[i].ended # "no" => cached'[i].ended # "no"
<1>1. /\ Len(cached) \in Nat /\ \A p \in CrmCalls : call[p].id > 0 => call[p].id \in 1..Len(cached)
      /\ cached \in [1..Len(cached) -> Cacheds]
    <2>1. cached \in Seq(Cacheds)
        BY DEF Typed, CachedType, Cacheds
    <2> QED
        BY <2>1, Numbers
<1>2. ASSUME NEW p \in CrmCalls, NEW r \in Restaurants, NEW S \in SUBSET Serials,
             NEW b \in BOOLEAN, Starts(p, r, S, b)
      PROVE  /\ Len(cached') = Len(cached) + 1
             /\ \A i \in 1..Len(cached) : cached'[i] = cached[i]
    BY <1>2 DEF Starts
<1>3. ASSUME NEW p \in CrmCalls, NEW how \in {"ok", "failed"}, Stops(p, how)
      PROVE  /\ Len(cached') = Len(cached)
             /\ \A i \in 1..Len(cached) :
                   /\ cached'[i].rest = cached[i].rest /\ cached'[i].batch = cached[i].batch
                   /\ cached'[i].before = cached[i].before
                   /\ cached[i].ended # "no" => cached'[i].ended # "no"
    <2>1. /\ Len(cached') = Len(cached) /\ call[p].id \in 1..Len(cached)
          /\ \A i \in 1..Len(cached) \ {call[p].id} : cached'[i] = cached[i]
          /\ cached'[call[p].id] = [cached[call[p].id] EXCEPT !.ended = how]
          /\ cached[call[p].id] \in Cacheds
        BY <1>1, <1>3 DEF Stops
    <2> QED
        BY <2>1 DEF Cacheds
<1>4. CASE Keeps
    BY <1>1, <1>4 DEF Keeps
<1>5. CASE \E p \in CrmCalls, r \in Restaurants, S \in SUBSET Serials, b \in BOOLEAN :
              Starts(p, r, S, b)
    BY <1>1, <1>2, <1>5
<1>6. CASE \E p \in CrmCalls : Stops(p, "ok") \/ Stops(p, "failed")
    BY <1>1, <1>3, <1>6
<1> QED
    BY <1>4, <1>5, <1>6 DEF Moves

(* A call in flight was so before, or it has just begun.                   *)
LEMMA InFlight ==
    ASSUME Typed, Moves, NEW q \in CrmCalls, call'[q].id > 0
    PROVE  \/ /\ call[q].id > 0 /\ call'[q].id = call[q].id
              /\ call'[q].rest = call[q].rest /\ call'[q].batch = call[q].batch
              /\ \/ call'[q] = call[q]
                 \/ SMembers(q) /\ call[q].pc = "smembers"
                 \/ Clear(q) /\ call[q].pc = "clear"
                 \/ Passes(q)
              /\ cached'[call[q].id].ended = cached[call[q].id].ended
           \/ \E r \in Restaurants, S \in SUBSET Serials, b \in BOOLEAN : Starts(q, r, S, b)
<1>1. q \in Calls /\ (call[q].id > 0 => call[q].id \in 1..Len(cached)) /\ call[q].id \in Nat
    BY Numbers
<1>2. ASSUME NEW p \in CrmCalls, NEW r \in Restaurants, NEW S \in SUBSET Serials,
             NEW b \in BOOLEAN, Starts(p, r, S, b), q # p
      PROVE  call'[q] = call[q] /\ \A i \in 1..Len(cached) : cached'[i] = cached[i]
    BY <1>1, <1>2 DEF Starts
<1>3. ASSUME NEW p \in CrmCalls, NEW how \in {"ok", "failed"}, Stops(p, how)
      PROVE  call'[q] = call[q] /\ cached'[call[q].id] = cached[call[q].id]
    <2>1. /\ call'[p].id = 0 /\ call[p].id > 0 /\ \A o \in Calls \ {p} : call'[o] = call[o]
          /\ \A i \in 1..Len(cached) \ {call[p].id} : cached'[i] = cached[i]
        BY <1>3 DEF Stops
    <2>2. q # p /\ call'[q] = call[q] /\ call[q].id > 0
        BY <1>1, <2>1
    <2>3. call[q].id # call[p].id
        BY <2>1, <2>2 DEF Typed, IdInv
    <2> QED
        BY <1>1, <2>1, <2>2, <2>3
<1>4. CASE Keeps
    BY <1>4 DEF Keeps
<1>5. CASE \E p \in CrmCalls, r \in Restaurants, S \in SUBSET Serials, b \in BOOLEAN :
              Starts(p, r, S, b)
    BY <1>1, <1>2, <1>5
<1>6. CASE \E p \in CrmCalls : Stops(p, "ok") \/ Stops(p, "failed")
    BY <1>3, <1>6
<1> QED
    BY <1>4, <1>5, <1>6 DEF Moves

(* A batch begins after the calls it knows of have ended.                  *)
LEMMA HistoryStep ==
    ASSUME Typed, HistoryInv, Moves
    PROVE  HistoryInv'
<1>1. \A i \in 1..Len(cached) : /\ i \in 1..Len(cached')
                                /\ cached'[i].before = cached[i].before
                                /\ cached[i].ended # "no" => cached'[i].ended # "no"
    BY Past
<1>2. ASSUME NEW b \in 1..Len(cached'), NEW i \in cached'[b].before
      PROVE  i \in 1..Len(cached) /\ cached[i].ended # "no"
    <2>1. CASE b \in 1..Len(cached)
        BY <1>1, <1>2, <2>1 DEF HistoryInv
    <2>2. CASE b \notin 1..Len(cached)
        <3>1. PICK p \in CrmCalls, r \in Restaurants, S \in SUBSET Serials, d \in BOOLEAN :
                  Starts(p, r, S, d)
            BY <2>2 DEF Moves, Stops, Keeps
        <3>2. b = Len(cached) + 1
            BY <2>2, <3>1, Past DEF Starts
        <3>3. cached'[b].before = {j \in 1..Len(cached) : cached[j].ended # "no"}
            BY <3>1, <3>2 DEF Starts
        <3> QED
            BY <1>2, <3>3
    <2> QED
        BY <2>1, <2>2
<1>3. ASSUME NEW q \in CrmCalls, call'[q].id > 0
      PROVE  /\ cached'[call'[q].id].ended = "no"
             /\ cached'[call'[q].id].rest = call'[q].rest
             /\ cached'[call'[q].id].batch = call'[q].batch
    <2>1. ASSUME NEW r \in Restaurants, NEW S \in SUBSET Serials, NEW b \in BOOLEAN,
                 Starts(q, r, S, b)
          PROVE  /\ cached'[call'[q].id].ended = "no"
                 /\ cached'[call'[q].id].rest = call'[q].rest
                 /\ cached'[call'[q].id].batch = call'[q].batch
        BY <2>1 DEF Starts
    <2>2. CASE /\ call[q].id > 0 /\ call'[q].id = call[q].id
               /\ call'[q].rest = call[q].rest /\ call'[q].batch = call[q].batch
               /\ cached'[call[q].id].ended = cached[call[q].id].ended
        <3>1. call[q].id \in 1..Len(cached)
            BY <2>2, Numbers
        <3> QED
            BY <2>2, <3>1, Past DEF HistoryInv
    <2> QED
        BY <1>3, <2>1, <2>2, InFlight
<1> QED
    BY <1>1, <1>2, <1>3 DEF HistoryInv

(* A request keeps the serials it still has to write among its own.        *)
LEMMA RequestStep ==
    ASSUME Typed, Typed', RequestInv, Moves
    PROVE  RequestInv'
<1> SUFFICES ASSUME NEW q \in CrmCalls, call'[q].id > 0
             PROVE  /\ call'[q].pc \in {"smembers", "code", "meta"} => call'[q].todo \subseteq call'[q].serials
                    /\ call'[q].pc \in {"smembers", "clear", "delset"} => call'[q].batch
    <2>1. \A q \in CrmCalls :
            call'[q].pc \in {"smembers", "code", "meta", "clear", "delset"} => call'[q].id > 0
        BY DEF Typed, CallInv, Calls
    <2> QED
        BY <2>1 DEF RequestInv
<1>1. ASSUME NEW r \in Restaurants, NEW S \in SUBSET Serials, NEW b \in BOOLEAN,
             Starts(q, r, S, b)
      PROVE  /\ call'[q].pc \in {"smembers", "code", "meta"} => call'[q].todo \subseteq call'[q].serials
             /\ call'[q].pc \in {"smembers", "clear", "delset"} => call'[q].batch
    BY <1>1 DEF Starts
<1>2. q \in Calls /\ CallType
    BY DEF Calls, Typed
<1>3. CASE SMembers(q)
    <2>1. /\ call[q].todo \subseteq call[q].serials /\ call[q].batch
          /\ call'[q].todo = call[q].todo /\ call'[q].batch = call[q].batch
          /\ call'[q].pc \in {"code", "clear"}
          /\ call'[q].pc = "code" => call'[q].serials = call[q].serials
        BY <1>2, <1>3 DEF SMembers, RequestInv, CallType, CallRecs
    <2> QED
        BY <2>1
<1>4. CASE Clear(q)
    BY <1>2, <1>4 DEF Clear, RequestInv, CallType, CallRecs
<1>5. CASE Passes(q)
    BY <1>5 DEF Passes, RequestInv, Writing
<1>6. CASE call'[q] = call[q]
    BY <1>6 DEF RequestInv
<1> QED
    BY <1>1, <1>3, <1>4, <1>5, <1>6, InFlight

(* The clock does not run back, and codes are only written by SetCode.     *)
LEMMA CodesStep ==
    ASSUME Typed, [Next]_vars
    PROVE  /\ now \in Nat /\ now' \in Nat /\ now <= now'
           /\ \A s \in Serials : \/ code'[s] \in {None, code[s]}
                                 \/ \E p \in CrmCalls : SetCode(p, s)
<1>0. CodeType /\ now \in Nat
    BY DEF Typed, ClockType
<1>1. CASE Tick
    BY <1>0, <1>1 DEF Tick, Drop
<1>2. ASSUME NEW p \in CrmCalls, NEW t \in Serials, SetCode(p, t)
      PROVE  now' = now /\ \A s \in Serials : code'[s] = code[s] \/ SetCode(p, s)
    <2>1. now' = now /\ \A s \in Serials : s # t => code'[s] = code[s]
        BY <1>0, <1>2 DEF SetCode, CodeType
    <2> QED
        BY <1>2, <2>1
<1>3. ASSUME now' = now, \A s \in Serials : code'[s] \in {None, code[s]}
      PROVE  /\ now \in Nat /\ now' \in Nat /\ now <= now'
             /\ \A s \in Serials : \/ code'[s] \in {None, code[s]}
                                   \/ \E p \in CrmCalls : SetCode(p, s)
    BY <1>0, <1>3
<1>4. ASSUME NEW p \in CrmCalls, Clear(p)
      PROVE  now' = now /\ \A s \in Serials : code'[s] \in {None, code[s]}
    BY <1>4 DEF Clear, Drop
<1>5. ASSUME NEW p \in Calls, Del(p)
      PROVE  now' = now /\ \A s \in Serials : code'[s] \in {None, code[s]}
    BY <1>5 DEF Del, Drop
<1>6. ASSUME UNCHANGED <<now, code>>
      PROVE  now' = now /\ \A s \in Serials : code'[s] \in {None, code[s]}
    BY <1>6
<1>7. ASSUME NEW p \in CrmCalls, CrmStep(p)
      PROVE  \/ \E t \in Serials : SetCode(p, t)
             \/ Clear(p) \/ UNCHANGED <<now, code>>
    BY <1>7 DEF CrmStep, CacheCode, CacheCodes, Begin, SMembers, SetMeta, DelSet, SAdd, Expire,
       RevokeCode, store
<1>8. ASSUME NEW p \in Pairs, PairStep(p) PROVE UNCHANGED <<now, code>>
    BY <1>8 DEF PairStep, Pair, Lookup, Issue, store
<1>9. ASSUME NEW p \in Calls, GetMeta(p) \/ SRem(p) \/ Fails(p) PROVE UNCHANGED <<now, code>>
    BY <1>9 DEF GetMeta, SRem, Fails, store
<1>10. ASSUME UNCHANGED vars \/ \E s \in Serials : RevokeDevice(s) PROVE UNCHANGED <<now, code>>
    BY <1>10 DEF vars, store, RevokeDevice
<1>11. ASSUME NEW p \in CrmCalls, NEW t \in Serials, SetCode(p, t)
       PROVE  /\ now \in Nat /\ now' \in Nat /\ now <= now'
              /\ \A s \in Serials : \/ code'[s] \in {None, code[s]}
                                    \/ \E q \in CrmCalls : SetCode(q, s)
    BY <1>0, <1>2, <1>11
<1>12. Tick \/ (\E p \in CrmCalls, t \in Serials : SetCode(p, t))
            \/ (\E p \in CrmCalls : Clear(p)) \/ (\E p \in Calls : Del(p)) \/ UNCHANGED <<now, code>>
    BY <1>7, <1>8, <1>9, <1>10 DEF Next
<1> QED
    BY <1>1, <1>3, <1>4, <1>5, <1>6, <1>11, <1>12

(* A code belongs to the call that wrote it for as long as that runs.      *)
LEMMA OriginStep ==
    ASSUME Typed, Typed', HistoryInv, RequestInv, OriginInv, Moves, [Next]_vars
    PROVE  OriginInv'
<1> SUFFICES ASSUME NEW s \in Serials, code'[s] # None
             PROVE  /\ code'[s].id > 0
                    /\ code'[s].rest = cached'[code'[s].id].rest
                    /\ code'[s].expires <= now' + CodeTTL
                    /\ \A p \in CrmCalls : call'[p].id = code'[s].id =>
                          call'[p].pc \notin {"smembers", "clear"} /\ s \in call'[p].serials
    BY DEF OriginInv
<1>0. /\ CodeType /\ CallType /\ now \in Nat /\ now' \in Nat /\ now <= now' /\ CodeTTL \in Nat
      /\ Len(cached) \in Nat
    BY CodesStep, Numbers, ConstantsAssumption DEF Typed
<1>1. CASE code'[s] = code[s]
    <2>1. /\ code[s].id > 0 /\ code[s].rest = cached[code[s].id].rest
          /\ code[s].expires <= now + CodeTTL /\ code[s].id \in Nat /\ code[s].expires \in Nat
          /\ code[s].id <= Len(cached)
        BY <1>0, <1>1 DEF OriginInv, CodeType, CodeKeys, Typed, IdInv
    <2>2. cached'[code[s].id].rest = cached[code[s].id].rest
        BY <1>0, <2>1, Past
    <2>3. ASSUME NEW p \in CrmCalls, call'[p].id = code[s].id
          PROVE  call'[p].pc \notin {"smembers", "clear"} /\ s \in call'[p].serials
        <3>1. ASSUME NEW r \in Restaurants, NEW S \in SUBSET Serials, NEW b \in BOOLEAN,
                     Starts(p, r, S, b)
              PROVE  FALSE
            <4>1. call'[p].id = Len(cached) + 1
                BY <3>1 DEF Starts
            <4> QED
                BY <1>0, <2>1, <2>3, <4>1
        <3>2. /\ call'[p].id = call[p].id
              /\ \/ call'[p] = call[p]
                 \/ call[p].pc \in {"smembers", "clear"}
                 \/ Passes(p)
            BY <2>1, <2>3, <3>1, InFlight
        <3>3. call[p].pc \notin {"smembers", "clear"} /\ s \in call[p].serials
            BY <1>1, <2>3, <3>2 DEF OriginInv
        <3> QED
            BY <3>2, <3>3 DEF Passes, Writing
    <2> QED
        BY <1>0, <1>1, <2>1, <2>2, <2>3
<1>2. ASSUME NEW p \in CrmCalls, SetCode(p, s)
      PROVE  /\ code'[s].id > 0
             /\ code'[s].rest = cached'[code'[s].id].rest
             /\ code'[s].expires <= now' + CodeTTL
             /\ \A q \in CrmCalls : call'[q].id = code'[s].id =>
                   call'[q].pc \notin {"smembers", "clear"} /\ s \in call'[q].serials
    <2>1. /\ p \in Calls /\ call[p].pc = "code" /\ s \in call[p].todo
          /\ UNCHANGED <<now, cached>>
          /\ code'[s] = [id |-> call[p].id, rest |-> call[p].rest, expires |-> now + CodeTTL]
        BY <1>0, <1>2 DEF SetCode, CodeType, Calls
    <2>2. /\ call'[p].pc = "meta" /\ call'[p].serials = call[p].serials
          /\ call'[p].id = call[p].id
          /\ \A q \in Calls \ {p} : call'[q] = call[q]
        BY <1>0, <1>2, <2>1 DEF SetCode, CallType, CallRecs
    <2>3. call[p].id > 0 /\ s \in call[p].serials
        BY <2>1, Numbers DEF Writing, RequestInv
    <2>4. call[p].rest = cached[call[p].id].rest
        BY <2>3 DEF HistoryInv
    <2>5. \A q \in CrmCalls : call'[q].id = call[p].id => q = p
        BY <2>2, <2>3 DEF Typed, IdInv, Calls
    <2> QED
        BY <1>0, <2>1, <2>2, <2>3, <2>4, <2>5
<1> QED
    BY <1>1, <1>2, CodesStep

(* What runs when a batch begins, or begins while it runs, is a stray.     *)
LEMMA OverlapStep ==
    ASSUME Typed, HistoryInv, OverlapInv, Moves, strays \subseteq strays'
    PROVE  OverlapInv'
<1> SUFFICES ASSUME NEW q \in CrmCalls, call'[q].id > 0, call'[q].batch, NEW i \in 1..Len(cached'),
                    i # call'[q].id, cached'[i].rest = call'[q].rest
             PROVE  i \in cached'[call'[q].id].before \union strays'
    BY DEF OverlapInv
<1>0. Len(cached) \in Nat
    BY Numbers
<1>1. ASSUME NEW r \in Restaurants, NEW S \in SUBSET Serials, NEW b \in BOOLEAN, Starts(q, r, S, b)
      PROVE  i \in cached'[call'[q].id].before \union strays'
    <2>1. /\ i \in 1..Len(cached) /\ cached[i].rest = r /\ b = TRUE
          /\ cached'[call'[q].id].before = {j \in 1..Len(cached) : cached[j].ended # "no"}
        BY <1>0, <1>1 DEF Starts
    <2>2. {j \in 1..Len(cached) : cached[j].ended = "no" /\ cached[j].rest = r} \subseteq strays'
        BY <1>1, <2>1 DEF Starts, Begin
    <2> QED
        BY <2>1, <2>2
<1>2. CASE /\ call[q].id > 0 /\ call'[q].id = call[q].id
           /\ call'[q].rest = call[q].rest /\ call'[q].batch = call[q].batch
    <2>1. /\ call[q].id \in 1..Len(cached) /\ cached'[call[q].id].before = cached[call[q].id].before
        BY <1>2, Numbers, Past
    <2>2. CASE i \in 1..Len(cached)
        <3>1. cached[i].rest = call[q].rest
            BY <1>2, <2>2, Past
        <3> QED
            BY <1>2, <2>1, <2>2, <3>1 DEF OverlapInv
    <2>3. CASE i \notin 1..Len(cached)
        <3>1. PICK p \in CrmCalls, r \in Restaurants, S \in SUBSET Serials, d \in BOOLEAN :
                  Starts(p, r, S, d)
            BY <2>3 DEF Moves, Stops, Keeps
        <3>2. i = Len(cached) + 1 /\ cached'[i].rest = r
            BY <1>0, <2>3, <3>1 DEF Starts
        <3>3. /\ cached[call[q].id].ended = "no" /\ cached[call[q].id].rest = r
              /\ cached[call[q].id].batch
            BY <1>2, <3>2 DEF HistoryInv
        <3>4. i \in strays'
            BY <2>1, <3>1, <3>2, <3>3 DEF Starts, Begin
        <3> QED
            BY <3>4
    <2> QED
        BY <2>2, <2>3
<1> QED
    BY <1>1, <1>2, InFlight

----------------------------------------------------------------------------
(* The sets, and what a batch finds in them.                               *)

(* A call that has a live code to put in its set still has, until it does, *)
LEMMA WritesKept ==
    ASSUME Typed, OriginInv, Moves, NEW s \in Serials, Live(s)', code'[s] = code[s],
           NEW p \in CrmCalls, Writes(p, s)
    PROVE  Writes(p, s)' \/ SAdd(p)
<1>1. /\ code[s].id \notin strays' /\ code[s] # None /\ code[s].id > 0
      /\ call[p].id = code[s].id /\ call[p].pc \in Writing /\ p \in Calls
    BY DEF Live, Writes, OriginInv, Calls
<1>2. ASSUME NEW q \in CrmCalls, NEW r \in Restaurants, NEW S \in SUBSET Serials,
             NEW b \in BOOLEAN, Starts(q, r, S, b)
      PROVE  call'[p] = call[p]
    BY <1>1, <1>2 DEF Starts
<1>3. ASSUME NEW q \in CrmCalls, Expire(q), Stops(q, "ok")
      PROVE  call'[p] = call[p]
    BY <1>1, <1>3 DEF Expire, Stops, Writing
<1>4. ASSUME NEW q \in CrmCalls, Stops(q, "failed"), call[q].id \in strays'
      PROVE  call'[p] = call[p]
    BY <1>1, <1>4 DEF Stops
<1>5. CASE Keeps
    BY <1>1, <1>5 DEF Keeps, Passes, Writes, Writing
<1> QED
    BY <1>1, <1>2, <1>3, <1>4, <1>5 DEF Moves, Writes

(* and it runs on until its EXPIRE.                                        *)
LEMMA HolderKept ==
    ASSUME Typed, OriginInv, Moves, NEW s \in Serials, Live(s)', code'[s] = code[s],
           NEW p \in CrmCalls, call[p].id = code[s].id
    PROVE  call'[p].id = code'[s].id \/ Expire(p)
<1>1. code[s].id \notin strays' /\ code[s].id > 0 /\ p \in Calls
    BY DEF Live, OriginInv, Calls
<1>2. ASSUME NEW q \in CrmCalls, NEW r \in Restaurants, NEW S \in SUBSET Serials,
             NEW b \in BOOLEAN, Starts(q, r, S, b)
      PROVE  call'[p] = call[p]
    BY <1>1, <1>2 DEF Starts
<1>3. ASSUME NEW q \in CrmCalls, Expire(q), Stops(q, "ok")
      PROVE  call'[p] = call[p] \/ Expire(p)
    BY <1>1, <1>3 DEF Stops
<1>4. ASSUME NEW q \in CrmCalls, Stops(q, "failed"), call[q].id \in strays'
      PROVE  call'[p] = call[p]
    BY <1>1, <1>4 DEF Stops
<1>5. CASE Keeps
    BY <1>5 DEF Keeps
<1> QED
    BY <1>2, <1>3, <1>4, <1>5 DEF Moves

(* The steps that write to the sets.                                       *)
LEMMA IndexStep ==
    ASSUME [Next]_vars
    PROVE  \/ Tick \/ UNCHANGED index
           \/ \E p \in CrmCalls : DelSet(p) \/ SAdd(p) \/ Expire(p)
           \/ \E p \in Calls : SRem(p)
<1>1. ASSUME NEW p \in CrmCalls, CrmStep(p)
      PROVE  UNCHANGED index \/ DelSet(p) \/ SAdd(p) \/ Expire(p)
    BY <1>1 DEF CrmStep, CacheCode, CacheCodes, Begin, SMembers, Clear, SetCode, SetMeta,
       RevokeCode, store
<1>2. ASSUME NEW p \in Pairs, PairStep(p) PROVE UNCHANGED index
    BY <1>2 DEF PairStep, Pair, Lookup, Issue, store
<1>3. ASSUME NEW p \in Calls, GetMeta(p) \/ Del(p) \/ Fails(p) PROVE UNCHANGED index
    BY <1>3 DEF GetMeta, Del, Fails, store
<1>4. ASSUME UNCHANGED vars \/ \E s \in Serials : RevokeDevice(s) PROVE UNCHANGED index
    BY <1>4 DEF vars, store, RevokeDevice
<1> QED
    BY <1>1, <1>2, <1>3, <1>4 DEF Next

\* What ListedInv and LastingInv say of a serial.
Listed(s) == s \in index[code[s].rest].serials \/ \E p \in CrmCalls : Writes(p, s)
Lasting(s) ==
    \/ code[s].expires <= index[code[s].rest].expires
    \/ index[code[s].rest].expires > MaxNow
    \/ \E p \in CrmCalls : call[p].id = code[s].id

\* A live code before and after a step.
Stays(s) ==
    /\ s \in Serials /\ Live(s) /\ Live(s)' /\ code'[s] = code[s]
    /\ code[s] \in CodeKeys /\ Listed(s) /\ Lasting(s)

(* Its set goes when it expires: then the code goes too, or its call is    *)
(* still to write the set, or is too late with EXPIRE and the code strays. *)
LEMMA TickSets ==
    ASSUME Typed, OriginInv, HistoryInv, NEW s, Stays(s), Tick
    PROVE  Listed(s)' /\ Lasting(s)'
<1>1. /\ code'[s] = code[s] /\ code[s] # None /\ code[s] \in CodeKeys /\ s \in Serials
      /\ code'[s] # None /\ code[s].id \notin strays'
      /\ UNCHANGED call /\ IndexType /\ now' \in Nat /\ now' <= MaxNow /\ MaxNow \in Nat
    BY ConstantsAssumption, NoneAssumption DEF Stays, Live, Tick, Typed, ClockType
<1>2. code[s].rest \in Restaurants /\ code[s].expires \in Nat /\ index[code[s].rest].expires \in Nat
    BY <1>1 DEF CodeKeys, IndexType
<1>3. ~(code[s].expires <= now')
    BY <1>1 DEF Tick, Drop
<1>4. CASE ~(index[code[s].rest].expires <= now')
    <2>1. index'[code[s].rest] = index[code[s].rest]
        BY <1>2, <1>4 DEF Tick
    <2> QED
        BY <1>1, <2>1 DEF Stays, Listed, Lasting, Writes
<1>5. CASE index[code[s].rest].expires <= now'
    <2>1. PICK p \in CrmCalls : call[p].id = code[s].id
        BY <1>1, <1>2, <1>3, <1>5 DEF Stays, Lasting
    <2>2. /\ call[p].id > 0 /\ call[p].pc \notin {"smembers", "clear"}
          /\ call[p].rest = code[s].rest
        BY <1>1, <2>1 DEF OriginInv, HistoryInv
    <2>3. call[p].pc # "expire"
        <3> SUFFICES ASSUME call[p].pc = "expire" PROVE code[s].id \in strays'
            BY <1>1
        <3>1. \A q \in CrmCalls : ~Writes(q, s)
            BY <2>1, <2>2 DEF Writes, Writing, Typed, IdInv
        <3>2. index[code[s].rest].serials # {}
            BY <3>1 DEF Stays, Listed
        <3> QED
            BY <1>2, <1>5, <2>1, <2>2, <3>2 DEF Tick
    <2>4. Writes(p, s)
        BY <2>1, <2>2, <2>3, Numbers DEF Writes
    <2> QED
        BY <1>1, <2>1, <2>4 DEF Listed, Lasting, Writes
<1> QED
    BY <1>4, <1>5

(* SADD puts the code in the set, and a new set has no expiry yet.         *)
LEMMA SAddSets ==
    ASSUME Typed, OriginInv, HistoryInv, RequestInv, Moves, NEW s, Stays(s),
           NEW p \in CrmCalls, SAdd(p)
    PROVE  Listed(s)' /\ Lasting(s)'
<1>1. /\ s \in Serials /\ code'[s] = code[s] /\ code[s] # None /\ Live(s)'
      /\ code[s].rest \in Restaurants /\ IndexType /\ code[s].id > 0
    BY DEF Stays, Live, CodeKeys, Typed, OriginInv
<1> DEFINE r == code[s].rest
<1>2. ASSUME NEW q \in CrmCalls, SAdd(q)
      PROVE  /\ index[r].serials \subseteq index'[r].serials
             /\ call[q].rest = r => /\ call[q].serials \subseteq index'[r].serials
             /\ index'[r].expires = index[r].expires \/ index'[r].expires = Never
    BY <1>1, <1>2 DEF SAdd, IndexType
<1>3. Never > MaxNow
    BY ConstantsAssumption DEF Never
<1>4. Listed(s)'
    <2>1. CASE s \in index[r].serials
        BY <1>1, <1>2, <2>1 DEF Listed
    <2>2. ASSUME NEW q \in CrmCalls, Writes(q, s) PROVE Listed(s)'
        <3>1. Writes(q, s)' \/ SAdd(q)
            BY <1>1, <2>2, WritesKept
        <3>2. s \in call[q].serials /\ call[q].rest = r
            BY <1>1, <2>2 DEF Writes, OriginInv, HistoryInv
        <3> QED
            BY <1>1, <1>2, <3>1, <3>2 DEF Listed
    <2> QED
        BY <2>1, <2>2 DEF Stays, Listed
<1>5. Lasting(s)'
    <2>1. ASSUME NEW q \in CrmCalls, call[q].id = code[s].id PROVE call'[q].id = code[s].id
        <3>1. call'[q].id = code[s].id \/ Expire(q)
            BY <1>1, <2>1, HolderKept
        <3>2. ~Expire(q)
            <4>1. p \in Calls /\ q \in Calls /\ CallType
                BY DEF Calls, Typed
            <4>2. call'[p].pc = "expire" /\ call[p].pc = "sadd"
                BY <4>1 DEF SAdd, Goto, CallType, CallRecs
            <4>3. \A o \in Calls \ {p} : call'[o] = call[o]
                BY <4>1 DEF SAdd, Goto, CallType
            <4> SUFFICES ASSUME Expire(q) PROVE FALSE
                OBVIOUS
            <4>4. call[q].pc = "expire" /\ call'[q].pc = "idle"
                BY <4>1 DEF Expire, End, Idle, CallType
            <4> QED
                BY <4>1, <4>2, <4>3, <4>4
        <3> QED
            BY <3>1, <3>2
    <2>2. index'[r].expires = index[r].expires \/ index'[r].expires > MaxNow
        BY <1>2, <1>3
    <2> QED
        BY <1>1, <2>1, <2>2 DEF Stays, Lasting
<1> QED
    BY <1>4, <1>5

(* EXPIRE lets the set live as long as any code that is written by now.    *)
LEMMA ExpireSets ==
    ASSUME Typed, OriginInv, HistoryInv, NEW s, Stays(s), NEW p \in CrmCalls, Expire(p)
    PROVE  Listed(s)' /\ Lasting(s)'
<1>1. /\ s \in Serials /\ code'[s] = code[s] /\ code[s] # None /\ p \in Calls
      /\ code[s].rest \in Restaurants /\ code[s].expires \in Nat /\ IndexType /\ CallType
      /\ code[s].expires <= now + CodeTTL /\ now \in Nat /\ CodeTTL \in Nat
    BY ConstantsAssumption DEF Stays, Live, CodeKeys, Typed, OriginInv, ClockType, Calls
<1> DEFINE r == code[s].rest
<1>2. /\ index'[r].serials = index[r].serials
      /\ \/ index'[r] = index[r]
         \/ index'[r].expires = now + CodeTTL
      /\ call[p].rest = r /\ index[r].serials # {} => index'[r].expires = now + CodeTTL
    BY <1>1 DEF Expire, IndexType
<1>3. call[p].pc = "expire" /\ \A q \in CrmCalls \ {p} : call'[q] = call[q]
    BY <1>1 DEF Expire, End, CallType, Calls
<1>4. \A q \in CrmCalls : Writes(q, s) => q # p /\ Writes(q, s)'
    BY <1>1, <1>3 DEF Writes, Writing
<1>5. Listed(s)'
    BY <1>1, <1>2, <1>4 DEF Stays, Listed
<1>6. Lasting(s)'
    <2>1. CASE index'[r].expires = now + CodeTTL
        BY <1>1, <2>1 DEF Lasting
    <2>2. CASE index'[r] = index[r] /\ index'[r].expires # now + CodeTTL
        <3>1. ASSUME NEW q \in CrmCalls, call[q].id = code[s].id PROVE Lasting(s)'
            <4>1. CASE q # p
                BY <1>1, <1>3, <3>1, <4>1 DEF Lasting
            <4>2. CASE q = p
                <5>0. call[p].rest = r
                    BY <1>1, <3>1, <4>2 DEF OriginInv, HistoryInv
                <5>1. ~(s \in index[r].serials)
                    BY <1>2, <2>2, <5>0
                <5>2. PICK o \in CrmCalls : Writes(o, s)
                    BY <5>1 DEF Stays, Listed
                <5> QED
                    BY <1>1, <1>4, <5>2 DEF Lasting, Writes
            <4> QED
                BY <4>1, <4>2
        <3> QED
            BY <1>1, <2>2, <3>1 DEF Stays, Lasting
    <2> QED
        BY <1>2, <2>1, <2>2
<1> QED
    BY <1>5, <1>6

(* A batch that deletes the set leaves no live code out: those of its own  *)
(* it has yet to put in, the others are superseded or stray.               *)
LEMMA DelSetSets ==
    ASSUME Typed, BooksInv, ClearedInv, Moves, NEW s, Stays(s), NEW p \in CrmCalls, DelSet(p)
    PROVE  Listed(s)' /\ Lasting(s)'
<1>1. /\ s \in Serials /\ code'[s] = code[s] /\ code[s] # None /\ Live(s) /\ Live(s)'
      /\ code[s].rest \in Restaurants /\ code[s].id \in Nat /\ IndexType /\ CallType
      /\ HistoryInv /\ RequestInv /\ OriginInv /\ OverlapInv /\ p \in Calls
    BY DEF Stays, Live, CodeKeys, Typed, BooksInv, Calls
<1>2. call[p].pc = "delset" /\ call'[p].pc = "sadd" /\ \A q \in Calls \ {p} : call'[q] = call[q]
    BY <1>1 DEF DelSet, Goto, CallType, CallRecs
<1>3. ASSUME NEW q \in CrmCalls, Writes(q, s) PROVE Writes(q, s)'
    <2>1. ~SAdd(q)
        <3> SUFFICES ASSUME SAdd(q) PROVE FALSE
            OBVIOUS
        <3>1. call[q].pc = "sadd" /\ call'[q].pc = "expire" /\ q \in Calls
            BY <1>1 DEF SAdd, Goto, CallType, CallRecs, Calls
        <3> QED
            BY <1>2, <3>1
    <2> QED
        BY <1>1, <1>3, <2>1, WritesKept
<1>4. ASSUME NEW q \in CrmCalls, call[q].id = code[s].id PROVE call'[q].id = code'[s].id
    <2>1. ~Expire(q)
        <3> SUFFICES ASSUME Expire(q) PROVE FALSE
            OBVIOUS
        <3>1. call[q].pc = "expire" /\ call'[q].pc = "idle" /\ q \in Calls
            BY <1>1 DEF Expire, End, Idle, CallType, Calls
        <3> QED
            BY <1>2, <3>1
    <2> QED
        BY <1>1, <1>4, <2>1, HolderKept
<1>5. CASE code[s].rest # call[p].rest
    <2>1. index'[code[s].rest] = index[code[s].rest]
        BY <1>1, <1>5 DEF DelSet, IndexType
    <2> QED
        BY <1>1, <1>3, <1>4, <2>1 DEF Stays, Listed, Lasting
<1>6. CASE code[s].rest = call[p].rest
    <2>1. call[p].batch /\ call[p].id > 0
        BY <1>1, <1>2, Numbers DEF RequestInv, Writing
    <2>2. code[s].id \in 1..Len(cached) /\ cached[code[s].id].rest = call[p].rest
        BY <1>1, <1>6, Numbers DEF OriginInv, Typed, IdInv
    <2>3. code[s].id \notin cached[call[p].id].before
        BY <1>1, <1>2, <1>6, <2>1 DEF ClearedInv
    <2>4. code[s].id = call[p].id
        BY <1>1, <2>1, <2>2, <2>3 DEF OverlapInv, Live
    <2>5. Writes(p, s)
        BY <1>2, <2>4 DEF Writes, Writing
    <2> QED
        BY <1>3, <2>5 DEF Listed, Lasting, Writes
<1> QED
    BY <1>5, <1>6

(* SREM takes a serial out that is about to be deleted.                    *)
LEMMA SRemSets ==
    ASSUME Typed, OriginInv, Moves, NEW s, Stays(s), NEW p \in Calls, SRem(p)
    PROVE  Listed(s)' /\ Lasting(s)'
<1>1. /\ s \in Serials /\ code'[s] = code[s] /\ code[s] # None /\ Live(s) /\ Live(s)'
      /\ code[s].rest \in Restaurants /\ IndexType /\ CallType
    BY DEF Stays, Live, CodeKeys, Typed
<1>2. /\ call[p].pc = "srem" /\ call'[p].pc = "del" /\ call'[p].serial = call[p].serial
      /\ call'[p].id = call[p].id
      /\ \A q \in Calls \ {p} : call'[q] = call[q]
    BY <1>1 DEF SRem, Goto, CallType, CallRecs
<1>3. s # call[p].serial
    BY <1>1, <1>2 DEF Live, Deleting
<1>4. \A q \in CrmCalls : /\ call'[q].id = call[q].id
                          /\ Writes(q, s) => Writes(q, s)'
    BY <1>1, <1>2 DEF Writes, Writing, Calls
<1> DEFINE r == code[s].rest
           left == index[call[p].rest].serials \ {call[p].serial}
<1>5. \/ index'[r] = index[r]
      \/ r = call[p].rest /\ left = {}
      \/ index'[r].serials = left /\ index'[r].expires = index[r].expires /\ r = call[p].rest
    BY <1>1 DEF SRem, IndexType
<1>6. CASE index'[r] = index[r]
    BY <1>1, <1>4, <1>6 DEF Stays, Listed, Lasting
<1>7. CASE r = call[p].rest /\ left = {}
    <2>1. s \notin index[r].serials
        BY <1>3, <1>7
    <2>2. PICK q \in CrmCalls : Writes(q, s)
        BY <2>1 DEF Stays, Listed
    <2> QED
        BY <1>4, <2>2 DEF Listed, Lasting, Writes
<1>8. CASE index'[r].serials = left /\ index'[r].expires = index[r].expires /\ r = call[p].rest
    BY <1>1, <1>3, <1>4, <1>8 DEF Stays, Listed, Lasting
<1> QED
    BY <1>5, <1>6, <1>7, <1>8

(* The other steps leave the sets alone.                                   *)
LEMMA OtherSets ==
    ASSUME Typed, OriginInv, Moves, NEW s, Stays(s), UNCHANGED index,
           \A p \in CrmCalls : ~SAdd(p) /\ ~Expire(p)
    PROVE  Listed(s)' /\ Lasting(s)'
<1>1. s \in Serials /\ code'[s] = code[s] /\ Live(s)'
    BY DEF Stays
<1>2. \A q \in CrmCalls : Writes(q, s) => Writes(q, s)'
    BY <1>1, WritesKept
<1>3. \A q \in CrmCalls : call[q].id = code[s].id => call'[q].id = code'[s].id
    BY <1>1, HolderKept
<1> QED
    BY <1>1, <1>2, <1>3 DEF Stays, Listed, Lasting

(* A code that is just written is its call's to put in the set.            *)
LEMMA WrittenSets ==
    ASSUME Typed, NEW s \in Serials, NEW p \in CrmCalls, SetCode(p, s)
    PROVE  Listed(s)' /\ Lasting(s)'
<1>1. p \in Calls /\ CallType /\ CodeType
    BY DEF Calls, Typed
<1>2. call'[p].pc = "meta" /\ call'[p].id = call[p].id /\ code'[s].id = call[p].id
    BY <1>1 DEF SetCode, CallType, CallRecs, CodeType
<1> QED
    BY <1>2 DEF Listed, Lasting, Writes, Writing

(* So a live code is listed, by a set that lasts, or will be.              *)
LEMMA SetsStep ==
    ASSUME Typed, BooksInv, ListedInv, LastingInv, ClearedInv, Moves, strays \subseteq strays',
           [Next]_vars
    PROVE  ListedInv' /\ LastingInv'
<1> SUFFICES ASSUME NEW s \in Serials, Live(s)' PROVE Listed(s)' /\ Lasting(s)'
    BY DEF ListedInv, LastingInv, Listed, Lasting
<1>1. CASE \E p \in CrmCalls : SetCode(p, s)
    BY <1>1, WrittenSets
<1>2. CASE Live(s) /\ code'[s] = code[s]
    <2>1. Stays(s)
        BY <1>2 DEF Stays, Live, Typed, CodeType, ListedInv, Listed, LastingInv, Lasting
    <2>2. OriginInv /\ HistoryInv /\ RequestInv
        BY DEF BooksInv
    <2> QED
        BY <2>1, <2>2, IndexStep, TickSets, SAddSets, ExpireSets, DelSetSets, SRemSets, OtherSets
<1> QED
    BY <1>1, <1>2, LiveStep

(* SetCode writes no code that a batch knows to be there before.           *)
LEMMA WrittenIsNew ==
    ASSUME Typed, HistoryInv, NEW s \in Serials, NEW p \in CrmCalls, SetCode(p, s),
           NEW b \in 1..Len(cached), code'[s].id \in cached[b].before
    PROVE  FALSE
<1>1. call[p].pc = "code" /\ code'[s].id = call[p].id
    BY DEF SetCode, Typed, CodeType
<1>2. call[p].id > 0
    BY <1>1, Numbers DEF Writing
<1> QED
    BY <1>1, <1>2 DEF HistoryInv

(* SMEMBERS finds the live codes it knows of, DEL leaves none of them.     *)
LEMMA ClearedStep ==
    ASSUME Typed, BooksInv, ListedInv, ClearedInv, Moves, strays \subseteq strays', [Next]_vars
    PROVE  ClearedInv'
<1> SUFFICES ASSUME NEW q \in CrmCalls, NEW s \in Serials, call'[q].id > 0, call'[q].batch,
                    Live(s)', code'[s].rest = call'[q].rest,
                    code'[s].id \in cached'[call'[q].id].before
             PROVE  call'[q].pc = "smembers" \/ (call'[q].pc = "clear" /\ s \in call'[q].serials)
    BY DEF ClearedInv
<1>0. HistoryInv /\ OriginInv /\ CallType /\ CodeType /\ IndexType /\ q \in Calls
    BY DEF BooksInv, Typed, Calls
<1>1. ASSUME NEW r \in Restaurants, NEW S \in SUBSET Serials, NEW b \in BOOLEAN, Starts(q, r, S, b)
      PROVE  call'[q].pc = "smembers"
    BY <1>1 DEF Starts
<1>2. CASE /\ call[q].id > 0 /\ call'[q].id = call[q].id
           /\ call'[q].rest = call[q].rest /\ call'[q].batch = call[q].batch
           /\ \/ call'[q] = call[q]
              \/ SMembers(q) /\ call[q].pc = "smembers"
              \/ Clear(q) /\ call[q].pc = "clear"
              \/ Passes(q)
    <2>1. call[q].id \in 1..Len(cached) /\ code'[s].id \in cached[call[q].id].before
        BY <1>2, Numbers, Past
    <2>2. Live(s) /\ code'[s] = code[s] /\ code[s] # None
        BY <1>0, <2>1, LiveStep, WrittenIsNew DEF Live
    <2>3. call[q].pc = "smembers" \/ (call[q].pc = "clear" /\ s \in call[q].serials)
        BY <1>2, <2>1, <2>2 DEF ClearedInv
    <2>4. CASE SMembers(q)
        <3>1. ~ \E p \in CrmCalls : Writes(p, s)
            <4> SUFFICES ASSUME NEW p \in CrmCalls, Writes(p, s) PROVE FALSE
                OBVIOUS
            <4>1. call[p].id = code[s].id /\ call[p].id > 0
                BY Numbers DEF Writes
            <4> QED
                BY <1>0, <2>1, <2>2, <4>1 DEF HistoryInv
        <3>2. s \in index[call[q].rest].serials
            BY <1>2, <2>2, <3>1 DEF ListedInv
        <3>3. call'[q].pc = "clear" /\ call'[q].serials = index[call[q].rest].serials
            BY <1>0, <2>4, <3>2 DEF SMembers, CallType, CallRecs
        <3> QED
            BY <3>2, <3>3
    <2>5. CASE Clear(q) /\ call[q].pc = "clear"
        <3>1. code'[s] = None
            BY <2>3, <2>5 DEF Clear, Drop
        <3> QED
            BY <2>2, <3>1
    <2>6. CASE Passes(q)
        BY <2>3, <2>6 DEF Passes, Writing
    <2>7. CASE call'[q] = call[q]
        BY <2>3, <2>7
    <2> QED
        BY <1>2, <2>4, <2>5, <2>6, <2>7
<1> QED
    BY <1>1, <1>2, InFlight

(* So a batch ends with none of them left.                                 *)
LEMMA SupersedesStep ==
    ASSUME Typed, BooksInv, ClearedInv, BatchSupersedes, Moves, strays \subseteq strays', [Next]_vars
    PROVE  BatchSupersedes'
<1> SUFFICES ASSUME NEW s \in Serials, NEW b \in 1..Len(cached'),
                    cached'[b].batch, cached'[b].ended = "ok",
                    Live(s)', code'[s].rest = cached'[b].rest, code'[s].id \in cached'[b].before
             PROVE  FALSE
    BY DEF BatchSupersedes, Live, Deleting
<1>0. HistoryInv /\ Len(cached) \in Nat
    BY Numbers DEF BooksInv
<1>1. b \in 1..Len(cached)
    <2> SUFFICES ASSUME b \notin 1..Len(cached) PROVE FALSE
        OBVIOUS
    <2>1. PICK p \in CrmCalls, r \in Restaurants, S \in SUBSET Serials, d \in BOOLEAN :
              Starts(p, r, S, d)
        BY DEF Moves, Stops, Keeps
    <2>2. b = Len(cached) + 1
        BY <1>0, <2>1 DEF Starts
    <2> QED
        BY <2>1, <2>2 DEF Starts
<1>2. /\ cached[b].batch /\ code'[s].rest = cached[b].rest /\ code'[s].id \in cached[b].before
    BY <1>1, Past
<1>3. Live(s) /\ code'[s] = code[s]
    BY <1>0, <1>1, <1>2, LiveStep, WrittenIsNew
<1>4. cached[b].ended # "ok"
    BY <1>1, <1>2, <1>3 DEF BatchSupersedes, Live, Deleting
<1>5. PICK p \in CrmCalls : Expire(p) /\ call[p].id > 0 /\ b = call[p].id
    <2>1. ASSUME NEW p \in CrmCalls, NEW r \in Restaurants, NEW S \in SUBSET Serials,
                 NEW d \in BOOLEAN, Starts(p, r, S, d)
          PROVE  FALSE
        BY <1>1, <1>4, <2>1 DEF Starts
    <2>2. ASSUME NEW p \in CrmCalls, Stops(p, "failed") PROVE FALSE
        <3>1. CASE b = call[p].id
            <4>1. cached[b] \in Cacheds
                <5>1. cached \in Seq(Cacheds)
                    BY DEF Typed, CachedType, Cacheds
                <5> QED
                    BY <1>1, <5>1
            <4>2. cached'[b].ended = "failed"
                BY <2>2, <3>1, <4>1 DEF Stops, Cacheds
            <4> QED
                BY <4>2
        <3>2. CASE b # call[p].id
            BY <1>1, <1>4, <2>2, <3>2 DEF Stops
        <3> QED
            BY <3>1, <3>2
    <2>3. ~Keeps
        BY <1>4 DEF Keeps
    <2>4. PICK p \in CrmCalls : Expire(p) /\ Stops(p, "ok")
        BY <2>1, <2>2, <2>3 DEF Moves
    <2>5. b = call[p].id /\ call[p].id > 0
        BY <1>1, <1>4, <2>4 DEF Stops
    <2> QED
        BY <2>4, <2>5
<1>6. call[p].pc = "expire" /\ call[p].batch /\ code[s].rest = call[p].rest
    BY <1>0, <1>2, <1>3, <1>5 DEF Expire, HistoryInv
<1> QED
    BY <1>2, <1>3, <1>5, <1>6 DEF ClearedInv

(* The invariant holds at the start, when nothing is cached ...            *)
LEMMA BatchInit == Init => BatchInv
<1> SUFFICES ASSUME Init PROVE BatchInv
    OBVIOUS
<1>1. Len(cached) = 0 /\ \A s \in Serials : code[s] = None
    BY DEF Init
<1>2. \A p \in CrmCalls : call[p].pc = "idle" /\ call[p].id = 0
    BY DEF Init, Idle, Calls
<1>3. BooksInv
    BY <1>1, <1>2 DEF BooksInv, HistoryInv, RequestInv, OriginInv, OverlapInv
<1> QED
    BY <1>1, <1>2, <1>3
       DEF BatchInv, ListedInv, LastingInv, ClearedInv, BatchSupersedes, Live

(* ... and after every step.                                               *)
LEMMA BatchStep ==
    ASSUME IInv, IInv', BatchInv, [Next]_vars
    PROVE  BatchInv'
<1>1. Typed
    BY TypeParts DEF IInv, Typed
<1>2. Typed'
    <2>1. TypeOK' /\ CallInv' /\ IdInv'
        BY DEF IInv
    <2>2. CallType' /\ CodeType' /\ MetaType' /\ IndexType' /\ CachedType' /\ ClockType'
        BY <2>1 DEF TypeOK, CallType, CodeType, MetaType, IndexType, CachedType, ClockType,
           Metas, CallRecs
    <2> QED
        BY <2>1, <2>2 DEF Typed
<1>3. /\ BooksInv /\ ListedInv /\ LastingInv /\ ClearedInv /\ BatchSupersedes
      /\ HistoryInv /\ RequestInv /\ OriginInv /\ OverlapInv
    BY DEF BatchInv, BooksInv
<1>4. strays \subseteq strays' /\ Moves
    BY <1>1, <1>3, CallsStep
<1>5. BooksInv'
    BY <1>1, <1>2, <1>3, <1>4, HistoryStep, RequestStep, OriginStep, OverlapStep DEF BooksInv
<1>6. ListedInv' /\ LastingInv' /\ ClearedInv' /\ BatchSupersedes'
    BY <1>1, <1>3, <1>4, SetsStep, ClearedStep, SupersedesStep
<1> QED
    BY <1>5, <1>6 DEF BatchInv

(* CachePairingCodes replaces what was cached for its restaurant: once a   *)
(* batch is through, a code from before it is gone, or a Pair or a         *)
(* revocation is about to delete it, or the code is a stray: for any       *)
(* number of calls at the same time, of devices, restaurants and failures, *)
(* however the clock runs.                                                 *)
THEOREM BatchesSupersede == Spec => []BatchSupersedes
<1>1. Init => IInv /\ BatchInv
    BY InitInv, BatchInit
<1>2. IInv /\ BatchInv /\ [Next]_vars => IInv' /\ BatchInv'
    BY NextInv, BatchStep
<1>3. BatchInv => BatchSupersedes
    BY DEF BatchInv
<1> QED
    BY <1>1, <1>2, <1>3, PTL DEF Spec

----------------------------------------------------------------------------
(* Strays come of overlapping calls, failures and expired sets alone.      *)

\* One call of CRM at a time, none of which fails, within the life of a code.
Undisturbed ==
    /\ \A p, q \in CrmCalls : p = q
    /\ MaxFaults = 0
    /\ MaxNow <= CodeTTL

\* No call has ended in failure, and no set that is there expires.
QuietInv ==
    /\ strays = {}
    /\ now >= 1
    /\ \A i \in 1..Len(cached) : cached[i].ended = "no" => \E p \in CrmCalls : call[p].id = i
    /\ \A r \in Restaurants : index[r].serials # {} => index[r].expires > MaxNow

(* A step keeps the sets from expiring.                                    *)
LEMMA QuietSets ==
    ASSUME Undisturbed, Typed, QuietInv, [Next]_vars
    PROVE  /\ now' >= 1
           /\ \A r \in Restaurants : index'[r].serials # {} => index'[r].expires > MaxNow
<1>0. /\ IndexType /\ now \in Nat /\ now' \in Nat /\ now' >= 1
      /\ MaxNow \in Nat /\ CodeTTL \in Nat /\ MaxNow <= CodeTTL /\ now >= 1
    BY ConstantsAssumption, CodesStep DEF Typed, QuietInv, Undisturbed
<1> DEFINE Last == \A r \in Restaurants : index'[r].serials # {} => index'[r].expires > MaxNow
<1>1. CASE Tick
    <2>1. \A r \in Restaurants : index'[r] = index[r] \/ index'[r].serials = {}
        BY <1>1 DEF Tick, NoIndex
    <2> QED
        BY <1>0, <2>1 DEF QuietInv
<1>2. ASSUME NEW p \in CrmCalls, DelSet(p) PROVE Last
    BY <1>0, <1>2 DEF DelSet, NoIndex, QuietInv, IndexType
<1>3. ASSUME NEW p \in CrmCalls, SAdd(p) PROVE Last
    <2>1. index' = [index EXCEPT ![call[p].rest] =
                    [serials |-> index[call[p].rest].serials \union call[p].serials,
                     expires |-> IF index[call[p].rest].serials = {} THEN Never
                                 ELSE index[call[p].rest].expires]]
        BY <1>3 DEF SAdd
    <2>2. Never > MaxNow
        BY <1>0 DEF Never
    <2> QED
        BY <1>0, <2>1, <2>2 DEF QuietInv, IndexType
<1>4. ASSUME NEW p \in CrmCalls, Expire(p) PROVE Last
    <2>1. index' = [index EXCEPT ![call[p].rest] =
                          IF index[call[p].rest].serials = {} THEN index[call[p].rest]
                          ELSE [index[call[p].rest] EXCEPT !.expires = now + CodeTTL]]
        BY <1>4 DEF Expire
    <2>2. now + CodeTTL > MaxNow
        BY <1>0
    <2> QED
        BY <1>0, <2>1, <2>2 DEF QuietInv, IndexType
<1>5. ASSUME NEW p \in Calls, SRem(p) PROVE Last
    <2>1. \A r \in Restaurants : \/ index'[r] = index[r] \/ index'[r].serials = {}
                                 \/ /\ index[r].serials # {}
                                    /\ index'[r].expires = index[r].expires
        BY <1>0, <1>5 DEF SRem, NoIndex, IndexType
    <2> QED
        BY <2>1 DEF QuietInv
<1> QED
    BY <1>0, <1>1, <1>2, <1>3, <1>4, <1>5, IndexStep DEF QuietInv

(* A step makes no strays.                                                 *)
LEMMA QuietStrays ==
    ASSUME Undisturbed, Typed, QuietInv, [Next]_vars
    PROVE  strays' = {}
<1>1. CASE Tick
    <2>1. now' \in Nat /\ now' <= MaxNow /\ MaxNow \in Nat /\ IndexType
        BY <1>1, ConstantsAssumption DEF Tick, Typed, ClockType
    <2>2. \A r \in Restaurants : ~(index[r].serials # {} /\ index[r].expires <= now')
        BY <2>1 DEF QuietInv, IndexType
    <2> QED
        BY <1>1, <2>2 DEF Tick, QuietInv
<1>2. ASSUME NEW p \in CrmCalls, NEW r, NEW S, NEW b, Begin(p, r, S, b)
      PROVE  strays' = {}
    <2>1. call[p].id = 0 /\ \A q \in CrmCalls : q = p
        BY <1>2 DEF Begin, Typed, CallInv, Calls, Undisturbed
    <2>2. {i \in 1..Len(cached) : cached[i].ended = "no" /\ cached[i].rest = r} = {}
        BY <2>1 DEF QuietInv
    <2> QED
        BY <1>2, <2>2 DEF Begin, QuietInv
<1>3. \A p \in Calls : ~Fails(p)
    BY ConstantsAssumption DEF Undisturbed, Fails, Typed, ClockType
<1>4. ASSUME UNCHANGED strays PROVE strays' = {}
    BY <1>4 DEF QuietInv
<1> QED
    BY <1>1, <1>2, <1>3, <1>4 DEF Next, CrmStep, PairStep, CacheCode, CacheCodes, vars,
       SMembers, Clear, SetCode, SetMeta, DelSet, SAdd, Expire, RevokeCode, Pair, Lookup,
       Issue, GetMeta, SRem, Del, RevokeDevice

(* A step keeps a call in flight for what has not ended.                   *)
LEMMA QuietHistory ==
    ASSUME Typed, QuietInv, Moves
    PROVE  \A i \in 1..Len(cached') : cached'[i].ended = "no" => \E p \in CrmCalls : call'[p].id = i
<1> SUFFICES ASSUME NEW i \in 1..Len(cached'), cached'[i].ended = "no"
             PROVE  \E p \in CrmCalls : call'[p].id = i
    OBVIOUS
<1>0. Len(cached) \in Nat /\ cached \in [1..Len(cached) -> Cacheds] /\ CrmCalls \subseteq Calls
    <2>1. cached \in Seq(Cacheds)
        BY DEF Typed, CachedType, Cacheds
    <2> QED
        BY <2>1 DEF Calls
<1>1. ASSUME i \in 1..Len(cached), cached[i].ended = "no"
      PROVE  \E p \in CrmCalls : call[p].id = i
    BY <1>1 DEF QuietInv
<1>2. ASSUME NEW p \in CrmCalls, NEW r \in Restaurants, NEW S \in SUBSET Serials,
             NEW b \in BOOLEAN, Starts(p, r, S, b)
      PROVE  \E q \in CrmCalls : call'[q].id = i
    <2>1. CASE i = Len(cached) + 1
        BY <1>2, <2>1 DEF Starts
    <2>2. CASE i # Len(cached) + 1
        <3>1. i \in 1..Len(cached) /\ cached[i].ended = "no"
            BY <1>0, <1>2, <2>2 DEF Starts
        <3>2. PICK q \in CrmCalls : call[q].id = i
            BY <1>1, <3>1
        <3>3. q # p
            BY <1>2, <3>1, <3>2 DEF Starts
        <3> QED
            BY <1>0, <1>2, <3>2, <3>3 DEF Starts
    <2> QED
        BY <2>1, <2>2
<1>3. ASSUME NEW p \in CrmCalls, NEW how \in {"ok", "failed"}, Stops(p, how)
      PROVE  \E q \in CrmCalls : call'[q].id = i
    <2>1. i \in 1..Len(cached) /\ call[p].id \in 1..Len(cached)
        BY <1>3, Numbers DEF Stops
    <2>2. i # call[p].id
        BY <1>0, <1>3, <2>1 DEF Stops, Cacheds
    <2>3. PICK q \in CrmCalls : call[q].id = i
        BY <1>1, <1>3, <2>1, <2>2 DEF Stops
    <2> QED
        BY <1>0, <1>3, <2>2, <2>3 DEF Stops
<1>4. CASE Keeps
    BY <1>1, <1>4 DEF Keeps
<1> QED
    BY <1>2, <1>3, <1>4 DEF Moves

(* While CRM calls one at a time, nothing fails and no set expires, there  *)
(* are no strays: a batch then supersedes every code from before it.       *)
THEOREM UndisturbedBatches ==
    ASSUME Undisturbed
    PROVE  Spec => [](strays = {} /\ BatchSupersedes)
<1>1. Init => QuietInv
    BY DEF Init, QuietInv, NoIndex
<1>2. IInv /\ BatchInv /\ QuietInv /\ [Next]_vars => QuietInv'
    <2> SUFFICES ASSUME IInv, BatchInv, QuietInv, [Next]_vars PROVE QuietInv'
        OBVIOUS
    <2>1. Typed /\ RequestInv
        BY TypeParts DEF IInv, Typed, BatchInv, BooksInv
    <2>2. Moves
        BY <2>1, CallsStep
    <2> QED
        BY <2>1, <2>2, QuietSets, QuietStrays, QuietHistory DEF QuietInv
<1>3. Init => IInv /\ BatchInv
    BY InitInv, BatchInit
<1>4. IInv /\ BatchInv /\ [Next]_vars => IInv' /\ BatchInv'
    BY NextInv, BatchStep
<1>5. BatchInv /\ QuietInv => strays = {} /\ BatchSupersedes
    BY DEF BatchInv, QuietInv
<1> QED
    BY <1>1, <1>2, <1>3, <1>4, <1>5, PTL DEF Spec
=============================================================================
