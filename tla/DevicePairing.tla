--------------------------- MODULE DevicePairing ---------------------------
(***************************************************************************)
(* Pairing codes and device tokens: CRM caches codes over gRPC             *)
(* (pairingService, pairingRepo), a device trades a code for a token       *)
(* (deviceAuthService.Pair), CRM revokes a device (Revoke, revocationRepo) *)
(* and every device request is checked against that (middleware            *)
(* DeviceAuth).                                                            *)
(*                                                                         *)
(* A Redis command is one step; pipelines are not transactions, so their   *)
(* commands may mix with those of other calls.  A code is named by the CRM *)
(* call that brought it and its serial; its hash compares equal to the     *)
(* code alone, so hashing is left out.  A serial stands for its device.    *)
(***************************************************************************)
EXTENDS Naturals, Sequences, FiniteSets

CONSTANTS
    Serials,        \* serial numbers, one device each
    Restaurants,
    CrmCalls,       \* gRPC calls of CRM that may be in flight together
    Pairs,          \* POST /devices/pair requests that may be
    CodeTTL,        \* how long a code lives (ExpiresAt - now)
    TokenTTL,       \* JWT_DEVICE_TTL
    None,           \* an absent key
    MaxNow,         \* bound: how far the clock runs
    MaxCached,      \* bound: how many times CRM caches codes
    MaxTokens,      \* bound: tokens that are issued
    MaxFaults       \* bound: Redis calls that fail

ASSUME ConstantsAssumption ==
    /\ CrmCalls \intersect Pairs = {}
    /\ CodeTTL \in Nat \ {0}
    /\ TokenTTL \in Nat \ {0}
    /\ MaxNow \in Nat /\ MaxCached \in Nat /\ MaxTokens \in Nat /\ MaxFaults \in Nat

Calls == CrmCalls \union Pairs

\* pair:code:{serial}.  The value is the hash of code id; rest is history:
\* the restaurant it was issued for.
CodeKeys == [id : Nat, rest : Restaurants, expires : Nat]
ASSUME NoneAssumption == None \notin CodeKeys \union [rest : Restaurants, expires : Nat]

\* late, revoked and blocked are history: the code had already brought a
\* token when it was looked up, the device was revoked after the token was
\* issued, and it was blocked when the token was issued.
Tokens == [serial : Serials, id : Nat, exp : Nat,
           late : BOOLEAN, revoked : BOOLEAN, blocked : BOOLEAN]

\* A call in flight: todo are the serials it still has to write or the one
\* it has to delete, serials those of the whole request.
States == {"idle", "smembers", "clear", "code", "meta", "delset", "sadd", "expire",
           "lookup", "get", "srem", "del", "issue"}

VARIABLES
    now,
    code,       \* the keys pair:code:{serial}
    meta,       \* the keys pair:meta:{serial}
    index,      \* the sets pair:restaurant:{id}, with their expiry
    revoked,    \* when the keys revoked:device:{id} expire (0: no such key)
    call,       \* the calls in flight
    tokens,     \* the tokens issued so far
    cached,     \* history: CRM's calls that cache codes
    strays,     \* history: codes that a batch may miss
    faults

store == <<code, meta, index, revoked>>
vars == <<now, store, call, tokens, cached, strays, faults>>

Idle == [pc |-> "idle", serial |-> None, rest |-> None, id |-> 0, serials |-> {},
         todo |-> {}, batch |-> FALSE, late |-> FALSE]

NoIndex == [serials |-> {}, expires |-> 0]

Init ==
    /\ now = 1
    /\ code = [s \in Serials |-> None]
    /\ meta = [s \in Serials |-> None]
    /\ index = [r \in Restaurants |-> NoIndex]
    /\ revoked = [s \in Serials |-> 0]
    /\ call = [p \in Calls |-> Idle]
    /\ tokens = <<>>
    /\ cached = <<>>
    /\ strays = {}
    /\ faults = 0

Goto(p, pc) == call' = [call EXCEPT ![p].pc = pc]

Drop(keys, S) == [s \in Serials |-> IF s \in S THEN None ELSE keys[s]]

\* Redis removes what has expired.
Tick ==
    /\ now < MaxNow
    /\ now' = now + 1
    /\ LET Expired(keys) == {s \in Serials : keys[s] # None /\ keys[s].expires <= now'}
       IN  code' = Drop(code, Expired(code)) /\ meta' = Drop(meta, Expired(meta))
    /\ index' = [r \in Restaurants |->
                    IF index[r].expires <= now' THEN NoIndex ELSE index[r]]
    /\ revoked' = [s \in Serials |-> IF revoked[s] <= now' THEN 0 ELSE revoked[s]]
    /\ LET Gone == {r \in Restaurants : index[r].serials # {} /\ index[r].expires <= now'}
           Late == {p \in CrmCalls : call[p].pc = "expire" /\ call[p].rest \in Gone}
       IN  strays' = strays \union {call[p].id : p \in Late}
    /\ UNCHANGED <<call, tokens, cached, faults>>

----------------------------------------------------------------------------
(* CachePairingCode and CachePairingCodes.                                 *)

\* A call with new codes for S begins.  before is history: the calls that had
\* ended by then.
Begin(p, r, S, batch) ==
    LET id == Len(cached) + 1
        running == {i \in 1..Len(cached) : cached[i].ended = "no" /\ cached[i].rest = r}
    IN  /\ call[p].pc = "idle"
        /\ id <= MaxCached
        /\ call' = [call EXCEPT ![p] = [Idle EXCEPT
                        !.pc = IF batch THEN "smembers" ELSE "code",
                        !.rest = r, !.id = id, !.serials = S, !.todo = S, !.batch = batch]]
        /\ cached' = Append(cached, [rest |-> r, batch |-> batch, ended |-> "no",
                        before |-> {i \in 1..Len(cached) : cached[i].ended # "no"}])
        /\ strays' = strays \union (IF batch THEN running ELSE {})
                             \union {i \in {id} : \E k \in running : cached[k].batch}
        /\ UNCHANGED <<now, store, tokens, faults>>

CacheCode(p, s, r) == Begin(p, r, {s}, FALSE)

CacheCodes(p, S, r) == S # {} /\ Begin(p, r, S, TRUE)

\* ReplaceRestaurantCodes reads the serials of the batch before ...
SMembers(p) ==
    LET old == index[call[p].rest].serials
    IN  /\ call[p].pc = "smembers"
        /\ call' = [call EXCEPT ![p].pc = IF old = {} THEN "code" ELSE "clear",
                                ![p].serials = IF old = {} THEN @ ELSE old]
        /\ UNCHANGED <<now, store, tokens, cached, strays, faults>>

\* Mutant: the hashes of the old codes are left behind.
ClearForgetsCodes(p) ==
    /\ call[p].pc = "clear"
    /\ meta' = Drop(meta, call[p].serials)
    /\ call' = [call EXCEPT ![p].pc = "code", ![p].serials = call[p].todo]
    /\ UNCHANGED <<now, code, index, revoked, tokens, cached, strays, faults>>

\* ... and deletes their codes with one DEL.
Clear(p) ==
    /\ call[p].pc = "clear"
    /\ code' = Drop(code, call[p].serials)
    /\ meta' = Drop(meta, call[p].serials)
    /\ call' = [call EXCEPT ![p].pc = "code", ![p].serials = call[p].todo]
    /\ UNCHANGED <<now, index, revoked, tokens, cached, strays, faults>>

\* The pipeline: SET of a code, SET of its metadata, for each serial ...
SetCode(p, s) ==
    /\ call[p].pc = "code"
    /\ s \in call[p].todo
    /\ code' = [code EXCEPT ![s] = [id |-> call[p].id, rest |-> call[p].rest,
                                    expires |-> now + CodeTTL]]
    /\ call' = [call EXCEPT ![p].pc = "meta", ![p].serial = s]
    /\ UNCHANGED <<now, meta, index, revoked, tokens, cached, strays, faults>>

SetMeta(p) ==
    LET s == call[p].serial
        left == call[p].todo \ {s}
    IN  /\ call[p].pc = "meta"
        /\ meta' = [meta EXCEPT ![s] = [rest |-> call[p].rest, expires |-> now + CodeTTL]]
        /\ call' = [call EXCEPT ![p].todo = left,
                        ![p].pc = IF left # {} THEN "code"
                                  ELSE IF call[p].batch THEN "delset" ELSE "sadd"]
        /\ UNCHANGED <<now, code, index, revoked, tokens, cached, strays, faults>>

\* ... then the restaurant's set of serials: DEL for a batch, SADD, EXPIRE.
DelSet(p) ==
    /\ call[p].pc = "delset"
    /\ index' = [index EXCEPT ![call[p].rest] = NoIndex]
    /\ Goto(p, "sadd")
    /\ UNCHANGED <<now, code, meta, revoked, tokens, cached, strays, faults>>

\* A set that SADD creates has no expiry yet.
Never == MaxNow + 1

\* Mutant: the restaurant is added to the set, not the serials.
SAddSwapped(p) ==
    /\ call[p].pc = "sadd"
    /\ index' = [index EXCEPT ![call[p].rest] =
                    [serials |-> @.serials \union {call[p].rest}, expires |-> Never]]
    /\ Goto(p, "expire")
    /\ UNCHANGED <<now, code, meta, revoked, tokens, cached, strays, faults>>

SAdd(p) ==
    /\ call[p].pc = "sadd"
    /\ index' = [index EXCEPT ![call[p].rest] =
                    [serials |-> @.serials \union call[p].serials,
                     expires |-> IF @.serials = {} THEN Never ELSE @.expires]]
    /\ Goto(p, "expire")
    /\ UNCHANGED <<now, code, meta, revoked, tokens, cached, strays, faults>>

End(p, how) ==
    /\ call' = [call EXCEPT ![p] = Idle]
    /\ cached' = IF call[p].id > 0 /\ p \in CrmCalls
                 THEN [cached EXCEPT ![call[p].id].ended = how] ELSE cached

Expire(p) ==
    /\ call[p].pc = "expire"
    /\ index' = [index EXCEPT ![call[p].rest] =
                    IF @.serials = {} THEN @ ELSE [@ EXCEPT !.expires = now + CodeTTL]]
    /\ End(p, "ok")
    /\ UNCHANGED <<now, code, meta, revoked, tokens, strays, faults>>

----------------------------------------------------------------------------
(* DeleteCode, for RevokePairingCode and for Pair.                         *)

RevokeCode(p, s) ==
    /\ call[p].pc = "idle"
    /\ call' = [call EXCEPT ![p] = [Idle EXCEPT !.pc = "get", !.serial = s]]
    /\ UNCHANGED <<now, store, tokens, cached, strays, faults>>

\* The metadata says which restaurant's set the serial is in.
GetMeta(p) ==
    LET m == meta[call[p].serial]
    IN  /\ call[p].pc = "get"
        /\ call' = IF m = None THEN [call EXCEPT ![p].pc = "del"]
                   ELSE [call EXCEPT ![p].pc = "srem", ![p].rest = m.rest]
        /\ UNCHANGED <<now, store, tokens, cached, strays, faults>>

\* The error of SREM is ignored.
SRem(p) ==
    LET left == index[call[p].rest].serials \ {call[p].serial}
    IN  /\ call[p].pc = "srem"
        /\ \/ /\ index' = [index EXCEPT ![call[p].rest] =
                              IF left = {} THEN NoIndex ELSE [@ EXCEPT !.serials = left]]
              /\ UNCHANGED faults
           \/ faults < MaxFaults /\ faults' = faults + 1 /\ UNCHANGED index
        /\ Goto(p, "del")
        /\ UNCHANGED <<now, code, meta, revoked, tokens, cached, strays>>

Del(p) ==
    /\ call[p].pc = "del"
    /\ code' = Drop(code, {call[p].serial})
    /\ meta' = Drop(meta, {call[p].serial})
    /\ IF p \in Pairs THEN Goto(p, "issue") /\ UNCHANGED cached ELSE End(p, "ok")
    /\ UNCHANGED <<now, index, revoked, tokens, strays, faults>>

----------------------------------------------------------------------------
(* Pair.                                                                   *)

HasToken(s, id) == \E i \in 1..Len(tokens) : tokens[i].serial = s /\ tokens[i].id = id

\* GetCode finds a code, and it is the one that was submitted.  Without one,
\* or with another, Pair ends here.
Pair(p, s) ==
    /\ call[p].pc = "idle"
    /\ code[s] # None
    /\ Len(tokens) < MaxTokens
    /\ call' = [call EXCEPT ![p] = [Idle EXCEPT !.pc = "lookup", !.serial = s,
                    !.id = code[s].id, !.late = HasToken(s, code[s].id)]]
    /\ UNCHANGED <<now, store, tokens, cached, strays, faults>>

\* The second GET of GetCode's pipeline: the metadata, or an error.
Lookup(p) ==
    /\ call[p].pc = "lookup"
    /\ call' = [call EXCEPT ![p] =
                    IF meta[@.serial] = None THEN Idle ELSE [@ EXCEPT !.pc = "get"]]
    /\ UNCHANGED <<now, store, tokens, cached, strays, faults>>

\* The code is deleted: issue the token.
Issue(p) ==
    LET s == call[p].serial
    IN  /\ call[p].pc = "issue"
        /\ Len(tokens) < MaxTokens
        /\ tokens' = Append(tokens, [serial |-> s, id |-> call[p].id, exp |-> now + TokenTTL,
                        late |-> call[p].late, revoked |-> FALSE,
                        blocked |-> revoked[s] > 0])
        /\ End(p, "ok")
        /\ UNCHANGED <<now, store, strays, faults>>

\* What a call that fails leaves behind for batches to miss: the codes it was
\* caching, or the one it has not deleted.
Leaves(p) ==
    LET s == call[p].serial
    IN  IF call[p].pc = "del" THEN {c.id : c \in {code[s]} \ {None}}
        ELSE IF p \in CrmCalls THEN {call[p].id} \ {0} ELSE {}

\* Mutant: Pair goes on when the code could not be deleted.
FailsButPairs(p) ==
    /\ call[p].pc # "idle"
    /\ faults < MaxFaults
    /\ faults' = faults + 1
    /\ IF call[p].pc = "del" /\ p \in Pairs THEN Goto(p, "issue") /\ UNCHANGED cached
       ELSE End(p, "failed")
    /\ strays' = strays \union Leaves(p)
    /\ UNCHANGED <<now, store, tokens>>

\* A Redis call or the signing fails, or the replica dies: the call is over,
\* and what it has done stays done.
Fails(p) ==
    /\ call[p].pc # "idle"
    /\ faults < MaxFaults
    /\ faults' = faults + 1
    /\ End(p, "failed")
    /\ strays' = strays \union Leaves(p)
    /\ UNCHANGED <<now, store, tokens>>

----------------------------------------------------------------------------
(* Revocation.                                                             *)

\* Mutant: the entry lives as long as a pairing code.
RevocationForCodeTTL == CodeTTL

\* "The same duration as a token."
RevocationTTL == TokenTTL

\* RevokeDevice is one SET.
RevokeDevice(s) ==
    /\ revoked' = [revoked EXCEPT ![s] = now + RevocationTTL]
    /\ tokens' = [i \in 1..Len(tokens) |->
                    IF tokens[i].serial = s THEN [tokens[i] EXCEPT !.revoked = TRUE]
                    ELSE tokens[i]]
    /\ UNCHANGED <<now, code, meta, index, call, cached, strays, faults>>

\* DeviceAuth lets a request with token t through.
Accepts(t) == now < t.exp /\ revoked[t.serial] = 0

----------------------------------------------------------------------------
CrmStep(p) ==
    \/ \E s \in Serials, r \in Restaurants : CacheCode(p, s, r)
    \/ \E S \in SUBSET Serials, r \in Restaurants : CacheCodes(p, S, r)
    \/ SMembers(p) \/ Clear(p) \/ (\E s \in Serials : SetCode(p, s)) \/ SetMeta(p)
    \/ DelSet(p) \/ SAdd(p) \/ Expire(p)
    \/ \E s \in Serials : RevokeCode(p, s)

PairStep(p) == (\E s \in Serials : Pair(p, s)) \/ Lookup(p) \/ Issue(p)

Next ==
    \/ Tick
    \/ \E p \in CrmCalls : CrmStep(p)
    \/ \E p \in Pairs : PairStep(p)
    \/ \E p \in Calls : GetMeta(p) \/ SRem(p) \/ Del(p) \/ Fails(p)
    \/ \E s \in Serials : RevokeDevice(s)

Spec == Init /\ [][Next]_vars

----------------------------------------------------------------------------
TypeOK ==
    /\ now \in Nat
    /\ code \in [Serials -> CodeKeys \union {None}]
    /\ meta \in [Serials -> [rest : Restaurants, expires : Nat] \union {None}]
    /\ index \in [Restaurants -> [serials : SUBSET Serials, expires : Nat]]
    /\ revoked \in [Serials -> Nat]
    /\ call \in [Calls -> [pc : States, serial : Serials \union {None},
                           rest : Restaurants \union {None}, id : Nat,
                           serials : SUBSET Serials, todo : SUBSET Serials,
                           batch : BOOLEAN, late : BOOLEAN]]
    /\ tokens \in Seq(Tokens)
    /\ cached \in Seq([rest : Restaurants, batch : BOOLEAN, ended : {"no", "ok", "failed"},
                       before : SUBSET (1..MaxCached)])
    /\ strays \subseteq Nat
    /\ faults \in 0..MaxFaults

\* Pair deletes the code before it issues the token, and only issues it if
\* the delete went through: whoever looks a code up after it has brought a
\* token gets nothing for it, whatever fails.
ConsumedStaysConsumed == \A i \in 1..Len(tokens) : ~tokens[i].late

\* README: a revoked device gets 401 "immediately, not after their token
\* expires".  Every token issued before the revocation stays shut out until
\* it has expired: the entry outlives it.
RevokedShutOut ==
    \A i \in 1..Len(tokens) : tokens[i].revoked => ~Accepts(tokens[i])

\* A batch supersedes what was cached for its restaurant before it began: a
\* code that is still there afterwards is one that a Pair or a revocation has
\* half deleted, or a stray.  Stray is a code whose caching failed or overlapped
\* with a batch for the restaurant, one whose restaurant's set expired between
\* its SADD and its EXPIRE, and one whose deletion failed.
BatchSupersedes ==
    \A s \in Serials, b \in 1..Len(cached) :
        /\ cached[b].batch /\ cached[b].ended = "ok"
        /\ code[s] # None
        /\ code[s].rest = cached[b].rest /\ code[s].id \in cached[b].before \ strays
        => \E p \in Calls : call[p].pc = "del" /\ call[p].serial = s

----------------------------------------------------------------------------
(* What docs and comments say, which the code does not keep.               *)

\* README.md:81: "The code is deleted (single-use)."
SingleUse ==
    \A i, j \in 1..Len(tokens) :
        tokens[i].serial = tokens[j].serial /\ tokens[i].id = tokens[j].id => i = j

\* device_auth_service.go:168: the revocation entry lives as long as a token,
\* "after that, every token for the device has expired anyway": so a token
\* issued while the device was blocked is not let in either.
BlockedStaysOut ==
    \A i \in 1..Len(tokens) : tokens[i].blocked => ~Accepts(tokens[i])
=============================================================================
