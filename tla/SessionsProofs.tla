--------------------------- MODULE SessionsProofs ---------------------------
(***************************************************************************)
(* Proofs about Sessions, for any number of browsers, sign-ins, calls and  *)
(* failures: whoever refreshes or logs out, however their steps interleave.*)
(***************************************************************************)
EXTENDS Sessions, TLAPS

\* The browser that the chain of a token belongs to.
Owner(t) == call[t.chain].browser

\* The states each kind of call goes through, and which carry a token.
KindInv ==
    \A c \in Calls :
        /\ c \in SignIns =>
               call[c].pc \in {"idle", "save", "set", "keep", "done"} /\ call[c].token = NoToken
        /\ c \in Refreshes =>
               /\ call[c].pc \in {"idle", "take", "member", "save", "set", "clear", "done"}
               /\ call[c].pc \in {"take", "member", "save"} => call[c].token # NoToken
        /\ c \in Logouts => call[c].pc \in {"idle", "delete", "clear", "done"}
        /\ call[c].pc = "idle" => call[c].token = NoToken
        /\ call[c].pc = "set" => call[c].new # NoToken
        /\ call[c].new # NoToken => call[c].pc \in {"set", "clear", "keep", "done"}

\* No token is ahead of its chain, and a chain begins with its sign-in.
FreshInv ==
    /\ \A s \in SignIns :
           /\ call[s].pc \in {"idle", "save"} => given[s] = 0
           /\ given[s] = 0 => Carriers(s) = {} /\ \A t \in stored : t.chain # s
    /\ \A t \in stored : t.gen <= given[t.chain]
    /\ \A b \in Browsers : cookie[b] # NoToken => cookie[b].gen <= given[cookie[b].chain]
    /\ \A c \in Calls :
           /\ call[c].token # NoToken => call[c].token.gen <= given[call[c].token.chain]
           /\ call[c].new # NoToken => call[c].new.gen <= given[call[c].new.chain]

\* A chain stays in the browser that signed in.
OwnerInv ==
    /\ \A b \in Browsers : cookie[b] # NoToken => Owner(cookie[b]) = b
    /\ \A c \in Calls :
           /\ call[c].token # NoToken => Owner(call[c].token) = call[c].browser
           /\ call[c].new # NoToken => Owner(call[c].new) = call[c].browser
    /\ \A t \in stored : \E c \in Calls : call[c].new = t

\* Nobody has a new token before its answer arrives.
NewInv ==
    \A c \in Calls : call[c].pc = "set" =>
        /\ call[c].new \in stored \cup expired
        /\ \A b \in Browsers : cookie[b] # call[c].new
        /\ \A d \in Calls : call[d].token # call[c].new
        /\ \A d \in Calls \ {c} : call[d].new # call[c].new

\* The calls of a browser that are under way, and that it has signed in.
Mine(b) == {c \in Calls : InFlight(c) /\ call[c].browser = b}
SignedIn(b) == \E c \in SignIns : call[c].browser = b /\ call[c].pc = "done"

\* A browser nothing has happened to: one call at a time, and the cookie, or
\* the call that exchanges it, carries what is accepted.
SettledInv ==
    \A b \in Browsers \ unsettled :
        /\ \A c, d \in Mine(b) : c = d
        /\ \/ cookie[b] \in stored
           \/ Mine(b) \cap Refreshes # {}
           \/ cookie[b] = NoToken /\ ~SignedIn(b)
        /\ \A c \in Mine(b) :
               /\ c \notin Logouts
               /\ call[c].pc # "keep"
               /\ call[c].pc = "take" => call[c].token \in stored
               /\ call[c].pc = "set" => call[c].new \in stored
               /\ call[c].pc = "clear" => ~SignedIn(b)

IInv ==
    /\ TypeOK /\ KindInv /\ FreshInv /\ ChainLinear
    /\ OwnerInv /\ NewInv /\ NoDeadCookie /\ SettledInv
 /\ KindInv /\ FreshInv /\ ChainLinear /\ OwnerInv /\ NewInv /\ NoDeadCookie

----------------------------------------------------------------------------
(* What a call that starts, or that saves a token, leaves of all others.    *)
LEMMA SendEffect ==
    ASSUME TypeOK, NEW c \in Calls, NEW pc \in PCs, Send(c, pc)
    PROVE  /\ call[c].pc = "idle" /\ call'[c].pc = pc
           /\ call'[c].token = IF c \in SignIns THEN NoToken ELSE cookie[call[c].browser]
           /\ call'[c].new = call[c].new /\ call'[c].browser = call[c].browser
           /\ \A d \in Calls \ {c} : call'[d] = call[d]
           /\ UNCHANGED <<stored, given, cookie, faults, expired, unheard>>
BY DEF TypeOK, Send

LEMMA SaveEffect ==
    ASSUME TypeOK, NEW c \in Calls, NEW pc \in PCs, SaveRefresh(c, pc), Chain(c) \in SignIns
    PROVE  /\ call'[c].pc = pc /\ call'[c].token = call[c].token
           /\ call'[c].new = [chain |-> Chain(c), gen |-> given[Chain(c)] + 1]
           /\ call'[c].browser = call[c].browser
           /\ \A d \in Calls \ {c} : call'[d] = call[d]
           /\ stored' = stored \cup {call'[c].new}
           /\ given'[Chain(c)] = given[Chain(c)] + 1
           /\ \A s \in SignIns \ {Chain(c)} : given'[s] = given[s]
BY DEF TypeOK, SaveRefresh

(* A call that starts carries nothing or a token.                           *)
LEMMA SendType ==
    ASSUME TypeOK, NEW c \in Calls, NEW pc \in PCs, Send(c, pc)
    PROVE  TypeOK'
<1> USE DEF TypeOK
<1> DEFINE t == IF c \in SignIns THEN NoToken ELSE cookie[call[c].browser]
<1>1. call[c].browser \in Browsers /\ t \in Tokens \cup {NoToken}
    OBVIOUS
<1>2. call' = [call EXCEPT ![c].pc = pc, ![c].token = t]
    BY DEF Send
<1> HIDE DEF t
<1>3. call' \in [Calls -> [pc : PCs, browser : Browsers, token : Tokens \cup {NoToken},
                          new : Tokens \cup {NoToken}]]
    <2>1. [call[c] EXCEPT !.pc = pc, !.token = t] \in
              [pc : PCs, browser : Browsers, token : Tokens \cup {NoToken}, new : Tokens \cup {NoToken}]
        BY <1>1
    <2>2. call' = [call EXCEPT ![c] = [call[c] EXCEPT !.pc = pc, !.token = t]]
        BY <1>2
    <2> QED
        BY <2>1, <2>2
<1>4. unsettled' \subseteq Browsers
    BY <1>1 DEF Send
<1> QED
    BY <1>3, <1>4 DEF Send

(* A step keeps the types and the states of each kind of call.              *)
LEMMA TypeKindStep ==
    ASSUME TypeOK, KindInv, [Next]_vars
    PROVE  TypeOK' /\ KindInv'
<1> USE ConstantsAssumption
<1>1. ASSUME NEW c \in Calls, Step(c) PROVE TypeOK' /\ KindInv'
    <2>1. CASE SignIn(c)
        <3>1. TypeOK'
            BY SendType, <2>1 DEF SignIn, PCs
        <3>2. KindInv'
            BY <2>1 DEF SignIn, Send, TypeOK, KindInv, Calls, Tokens, PCs
        <3> QED
            BY <3>1, <3>2
    <2>2. CASE Refresh(c)
        <3>1. TypeOK'
            BY SendType, <2>2 DEF Refresh, PCs
        <3>2. KindInv'
            BY <2>2 DEF Refresh, Send, TypeOK, KindInv, Calls, Tokens, PCs
        <3> QED
            BY <3>1, <3>2
    <2>3. CASE Logout(c)
        <3>1. TypeOK'
            BY SendType, <2>3 DEF Logout, PCs
        <3>2. KindInv'
            BY <2>3 DEF Logout, Send, TypeOK, KindInv, Calls, Tokens, PCs
        <3> QED
            BY <3>1, <3>2
    <2>4. CASE Take(c)
        BY <2>4 DEF Take, At, TypeOK, KindInv, Calls, Tokens, PCs
    <2>5. CASE TakeFails(c)
        BY <2>5 DEF TakeFails, At, Fault, TypeOK, KindInv, Calls, Tokens, PCs
    <2>6. CASE GetMember(c)
        BY <2>6 DEF GetMember, At, TypeOK, KindInv, Calls, Tokens, PCs
    <2>7. CASE GetMemberFails(c)
        BY <2>7 DEF GetMemberFails, At, Fault, TypeOK, KindInv, Calls, Tokens, PCs
    <2>8. CASE Save(c)
        BY <2>8 DEF Save, SaveRefresh, Chain, TypeOK, KindInv, Calls, Tokens, PCs
    <2>9. CASE SaveFails(c)
        <3>1. CASE SaveRefresh(c, OnError(c))
            BY <2>9, <3>1 DEF SaveFails, SaveRefresh, Chain, OnError, Fault, TypeOK, KindInv, Calls, Tokens, PCs
        <3>2. CASE At(c, OnError(c)) /\ UNCHANGED <<given, stored>>
            BY <2>9, <3>2 DEF SaveFails, OnError, At, Fault, TypeOK, KindInv, Calls, Tokens, PCs
        <3> QED
            BY <2>9, <3>1, <3>2 DEF SaveFails
    <2>10. CASE Delete(c)
        BY <2>10 DEF Delete, At, Fault, TypeOK, KindInv, Calls, Tokens, PCs
    <2>11. CASE Respond(c)
        BY <2>11 DEF Respond, At, TypeOK, KindInv, Calls, Tokens, PCs
    <2>12. CASE LoseAnswer(c)
        BY <2>12 DEF LoseAnswer, At, Fault, TypeOK, KindInv, Calls, Tokens, PCs
    <2> QED
        BY <1>1, <2>1, <2>2, <2>3, <2>4, <2>5, <2>6, <2>7, <2>8, <2>9, <2>10, <2>11, <2>12 DEF Step
<1>2. ASSUME NEW t \in stored, Expire(t) PROVE TypeOK' /\ KindInv'
    BY <1>2 DEF Expire, TypeOK, KindInv, Calls, Tokens, PCs
<1>3. CASE UNCHANGED vars
    BY <1>3 DEF vars, TypeOK, KindInv, Calls, Tokens, PCs
<1> QED
    BY <1>1, <1>2, <1>3 DEF Next

(* New tokens are ahead of all others of their chain.                        *)
LEMMA FreshStep ==
    ASSUME TypeOK, KindInv, FreshInv, ChainLinear, [Next]_vars
    PROVE  FreshInv'
<1> USE ConstantsAssumption DEF TypeOK, KindInv, Calls, Tokens, PCs, FreshInv, ChainLinear, Carriers, Chain
<1>1. ASSUME NEW c \in Calls, Step(c) PROVE FreshInv'
    <2>0. ASSUME NEW pc \in {"save", "take", "delete", "clear"}, Send(c, pc), pc = "save" => c \in SignIns
          PROVE  FreshInv'
        <3> HIDE DEF TypeOK, KindInv, FreshInv, ChainLinear, Carriers, Chain
        <3>1. call[c].pc = "idle" /\ call'[c].pc = pc /\ call'[c].new = call[c].new
              /\ call'[c].browser = call[c].browser
              /\ call'[c].token = IF c \in SignIns THEN NoToken ELSE cookie[call[c].browser]
            BY <2>0, SendEffect
        <3>2. \A d \in Calls \ {c} : call'[d] = call[d]
            BY <2>0, SendEffect
        <3>3. UNCHANGED <<stored, given, cookie>>
            BY <2>0, SendEffect
        <3> QED
            BY <2>0, <3>1, <3>2, <3>3 DEF TypeOK, KindInv, FreshInv, ChainLinear, Carriers, Chain
    <2>1. CASE SignIn(c)
        BY <2>0, <2>1 DEF SignIn
    <2>2. CASE Refresh(c)
        BY <2>0, <2>2 DEF Refresh
    <2>3. CASE Logout(c)
        BY <2>0, <2>3 DEF Logout
    <2>4. CASE Take(c)
        BY <2>4 DEF Take, At
    <2>5. CASE TakeFails(c)
        BY <2>5 DEF TakeFails, At, Fault
    <2>6. CASE GetMember(c)
        BY <2>6 DEF GetMember, At
    <2>7. CASE GetMemberFails(c)
        BY <2>7 DEF GetMemberFails, At, Fault
    <2>20. ASSUME NEW pc \in {"set", "keep", "clear"}, call[c].pc = "save", SaveRefresh(c, pc),
                 UNCHANGED cookie
          PROVE  FreshInv'
        <3>0. Chain(c) \in SignIns
            BY <2>20 DEF Chain
        <3> HIDE DEF TypeOK, KindInv, FreshInv, ChainLinear, Carriers, Chain
        <3>1. call'[c].pc = pc /\ call'[c].token = call[c].token
              /\ call'[c].new = [chain |-> Chain(c), gen |-> given[Chain(c)] + 1]
              /\ call'[c].browser = call[c].browser
            BY <2>20, <3>0, SaveEffect
        <3>2. \A d \in Calls \ {c} : call'[d] = call[d]
            BY <2>20, <3>0, SaveEffect
        <3>3. stored' = stored \cup {call'[c].new}
            BY <2>20, <3>0, SaveEffect
        <3>4. given'[Chain(c)] = given[Chain(c)] + 1 /\ \A s \in SignIns \ {Chain(c)} : given'[s] = given[s]
            BY <2>20, <3>0, SaveEffect
        <3>5. \A s \in SignIns : given[s] \in Nat /\ given'[s] \in Nat /\ given[s] <= given'[s]
            BY <3>0, <3>4 DEF TypeOK
        <3>6. \A s \in SignIns : /\ call'[s].pc \in {"idle", "save"} => given'[s] = 0
                                 /\ given'[s] = 0 => Carriers(s)' = {} /\ \A t \in stored' : t.chain # s
            <4> SUFFICES ASSUME NEW s \in SignIns
                         PROVE  /\ call'[s].pc \in {"idle", "save"} => given'[s] = 0
                                /\ given'[s] = 0 => Carriers(s)' = {} /\ \A t \in stored' : t.chain # s
                OBVIOUS
            <4>1. CASE s = Chain(c)
                BY <2>20, <3>1, <3>2, <3>4, <3>5, <4>1 DEF TypeOK, FreshInv, KindInv, Chain, Carriers, Calls
            <4>2. CASE s # Chain(c)
                BY <2>20, <3>1, <3>2, <3>3, <3>4, <4>2 DEF TypeOK, FreshInv, KindInv, Chain, Carriers, Calls
            <4> QED
                BY <4>1, <4>2
        <3>7. \A t \in stored' : t.gen <= given'[t.chain]
            BY <3>0, <3>1, <3>3, <3>4, <3>5 DEF TypeOK, FreshInv, Tokens
        <3>8. \A b \in Browsers : cookie'[b] # NoToken => cookie'[b].gen <= given'[cookie'[b].chain]
            BY <2>20, <3>5 DEF TypeOK, FreshInv, Tokens
        <3>9. \A d \in Calls : /\ call'[d].token # NoToken => call'[d].token.gen <= given'[call'[d].token.chain]
                               /\ call'[d].new # NoToken => call'[d].new.gen <= given'[call'[d].new.chain]
            BY <3>0, <3>1, <3>2, <3>4, <3>5 DEF TypeOK, FreshInv, Tokens
        <3> QED
            BY <3>6, <3>7, <3>8, <3>9 DEF FreshInv, Carriers
    <2>8. CASE Save(c)
        BY <2>8, <2>20 DEF Save
    <2>9. CASE SaveFails(c)
        <3>1. CASE SaveRefresh(c, OnError(c))
            BY <2>9, <2>20, <3>1 DEF SaveFails, OnError
        <3>2. CASE At(c, OnError(c)) /\ UNCHANGED <<given, stored>>
            BY <2>9, <3>2 DEF SaveFails, OnError, At, Fault
        <3> QED
            BY <2>9, <3>1, <3>2 DEF SaveFails
    <2>10. CASE Delete(c)
        BY <2>10 DEF Delete, At, Fault
    <2>11. CASE Respond(c)
        BY <2>11 DEF Respond, At
    <2>12. CASE LoseAnswer(c)
        BY <2>12 DEF LoseAnswer, At, Fault
    <2> QED
        BY <1>1, <2>1, <2>2, <2>3, <2>4, <2>5, <2>6, <2>7, <2>8, <2>9, <2>10, <2>11, <2>12 DEF Step
<1>2. ASSUME NEW t \in stored, Expire(t) PROVE FreshInv'
    BY <1>2 DEF Expire
<1>3. CASE UNCHANGED vars
    BY <1>3 DEF vars
<1> QED
    BY <1>1, <1>2, <1>3 DEF Next

(* Whoever takes the token of a chain is the only one to exchange it.        *)
LEMMA LinearStep ==
    ASSUME TypeOK, KindInv, FreshInv, ChainLinear, [Next]_vars
    PROVE  ChainLinear'
<1> USE ConstantsAssumption DEF TypeOK, KindInv, Calls, Tokens, PCs, FreshInv, ChainLinear, Carriers, Chain
<1>1. ASSUME NEW c \in Calls, Step(c) PROVE ChainLinear'
    <2>1. CASE SignIn(c)
        BY <2>1 DEF SignIn, Send
    <2>2. CASE Refresh(c)
        BY <2>2 DEF Refresh, Send
    <2>3. CASE Logout(c)
        BY <2>3 DEF Logout, Send
    <2>4. CASE Take(c)
        BY <2>4 DEF Take, At
    <2>5. CASE TakeFails(c)
        BY <2>5 DEF TakeFails, At, Fault
    <2>6. CASE GetMember(c)
        BY <2>6 DEF GetMember, At
    <2>7. CASE GetMemberFails(c)
        BY <2>7 DEF GetMemberFails, At, Fault
    <2>8. CASE Save(c)
        BY <2>8 DEF Save, SaveRefresh, Chain
    <2>9. CASE SaveFails(c)
        <3>1. CASE SaveRefresh(c, OnError(c))
            BY <2>9, <3>1 DEF SaveFails, SaveRefresh, Chain, OnError, Fault
        <3>2. CASE At(c, OnError(c)) /\ UNCHANGED <<given, stored>>
            BY <2>9, <3>2 DEF SaveFails, OnError, At, Fault
        <3> QED
            BY <2>9, <3>1, <3>2 DEF SaveFails
    <2>10. CASE Delete(c)
        BY <2>10 DEF Delete, At, Fault
    <2>11. CASE Respond(c)
        BY <2>11 DEF Respond, At
    <2>12. CASE LoseAnswer(c)
        BY <2>12 DEF LoseAnswer, At, Fault
    <2> QED
        BY <1>1, <2>1, <2>2, <2>3, <2>4, <2>5, <2>6, <2>7, <2>8, <2>9, <2>10, <2>11, <2>12 DEF Step
<1>2. ASSUME NEW t \in stored, Expire(t) PROVE ChainLinear'
    BY <1>2 DEF Expire
<1>3. CASE UNCHANGED vars
    BY <1>3 DEF vars
<1> QED
    BY <1>1, <1>2, <1>3 DEF Next

(* Tokens go from a browser to its calls and back.                           *)
LEMMA OwnerStep ==
    ASSUME TypeOK, KindInv, FreshInv, OwnerInv, [Next]_vars
    PROVE  OwnerInv'
<1> USE ConstantsAssumption DEF TypeOK, KindInv, Calls, Tokens, PCs, OwnerInv, Owner
<1>1. ASSUME NEW c \in Calls, Step(c) PROVE OwnerInv'
    <2>0. ASSUME NEW pc \in PCs, Send(c, pc) PROVE OwnerInv'
        <3> HIDE DEF TypeOK, KindInv, FreshInv, OwnerInv, Owner, Chain
        <3>1. call[c].pc = "idle" /\ call'[c].pc = pc /\ call'[c].new = call[c].new
              /\ call'[c].browser = call[c].browser
              /\ call'[c].token = IF c \in SignIns THEN NoToken ELSE cookie[call[c].browser]
            BY <2>0, SendEffect
        <3>2. \A d \in Calls \ {c} : call'[d] = call[d]
            BY <2>0, SendEffect
        <3>3. UNCHANGED <<stored, given, cookie>>
            BY <2>0, SendEffect
        <3>4. \A t \in Tokens : Owner(t)' = Owner(t)
            BY <3>1, <3>2 DEF Owner, Tokens, Calls
        <3>5. \A b \in Browsers : cookie'[b] # NoToken => Owner(cookie[b])' = b
            BY <3>3, <3>4 DEF TypeOK, OwnerInv
        <3>6. \A d \in Calls : /\ call'[d].token # NoToken => Owner(call[d].token)' = call'[d].browser
                               /\ call'[d].new # NoToken => Owner(call[d].new)' = call'[d].browser
            BY <3>1, <3>2, <3>4 DEF TypeOK, OwnerInv
        <3>7. \A t \in stored' : \E d \in Calls : call'[d].new = t
            BY <3>1, <3>2, <3>3 DEF OwnerInv
        <3> QED
            BY <3>5, <3>6, <3>7 DEF OwnerInv, Owner
    <2>1. CASE SignIn(c)
        BY <2>0, <2>1 DEF SignIn
    <2>2. CASE Refresh(c)
        BY <2>0, <2>2 DEF Refresh
    <2>3. CASE Logout(c)
        BY <2>0, <2>3 DEF Logout
    <2>4. CASE Take(c)
        BY <2>4 DEF Take, At
    <2>5. CASE TakeFails(c)
        BY <2>5 DEF TakeFails, At, Fault
    <2>6. CASE GetMember(c)
        BY <2>6 DEF GetMember, At
    <2>7. CASE GetMemberFails(c)
        BY <2>7 DEF GetMemberFails, At, Fault
    <2>20. ASSUME NEW pc \in {"set", "keep", "clear"}, call[c].pc = "save", SaveRefresh(c, pc),
                 UNCHANGED cookie
          PROVE  OwnerInv'
        <3>0. Chain(c) \in SignIns
            BY <2>20 DEF Chain
        <3> HIDE DEF TypeOK, KindInv, FreshInv, OwnerInv, Owner, Chain
        <3>1. call'[c].pc = pc /\ call'[c].token = call[c].token
              /\ call'[c].new = [chain |-> Chain(c), gen |-> given[Chain(c)] + 1]
              /\ call'[c].browser = call[c].browser
            BY <2>20, <3>0, SaveEffect
        <3>2. \A d \in Calls \ {c} : call'[d] = call[d]
            BY <2>20, <3>0, SaveEffect
        <3>3. stored' = stored \cup {call'[c].new}
            BY <2>20, <3>0, SaveEffect
        <3>4. given'[Chain(c)] = given[Chain(c)] + 1 /\ \A s \in SignIns \ {Chain(c)} : given'[s] = given[s]
            BY <2>20, <3>0, SaveEffect
        <3> QED
            BY <2>20, <3>0, <3>1, <3>2, <3>3, <3>4 DEF TypeOK, KindInv, FreshInv, OwnerInv, Owner, Chain
    <2>8. CASE Save(c)
        BY <2>8, <2>20 DEF Save
    <2>9. CASE SaveFails(c)
        <3>1. CASE SaveRefresh(c, OnError(c))
            BY <2>9, <2>20, <3>1 DEF SaveFails, OnError
        <3>2. CASE At(c, OnError(c)) /\ UNCHANGED <<given, stored>>
            BY <2>9, <3>2 DEF SaveFails, OnError, At, Fault
        <3> QED
            BY <2>9, <3>1, <3>2 DEF SaveFails
    <2>10. CASE Delete(c)
        BY <2>10 DEF Delete, At, Fault
    <2>11. CASE Respond(c)
        BY <2>11 DEF Respond, At
    <2>12. CASE LoseAnswer(c)
        BY <2>12 DEF LoseAnswer, At, Fault
    <2> QED
        BY <1>1, <2>1, <2>2, <2>3, <2>4, <2>5, <2>6, <2>7, <2>8, <2>9, <2>10, <2>11, <2>12 DEF Step
<1>2. ASSUME NEW t \in stored, Expire(t) PROVE OwnerInv'
    BY <1>2 DEF Expire
<1>3. CASE UNCHANGED vars
    BY <1>3 DEF vars
<1> QED
    BY <1>1, <1>2, <1>3 DEF Next

(* A token that is saved is new, and nobody can take it before the answer.    *)
LEMMA NewStep ==
    ASSUME TypeOK, KindInv, FreshInv, OwnerInv, NewInv, [Next]_vars
    PROVE  NewInv'
<1> USE ConstantsAssumption DEF TypeOK, KindInv, Calls, Tokens, PCs, FreshInv, NewInv
<1>1. ASSUME NEW c \in Calls, Step(c) PROVE NewInv'
    <2>1. CASE SignIn(c)
        BY <2>1 DEF SignIn, Send
    <2>2. CASE Refresh(c)
        BY <2>2 DEF Refresh, Send
    <2>3. CASE Logout(c)
        BY <2>3 DEF Logout, Send
    <2>4. CASE Take(c)
        BY <2>4 DEF Take, At
    <2>5. CASE TakeFails(c)
        BY <2>5 DEF TakeFails, At, Fault
    <2>6. CASE GetMember(c)
        BY <2>6 DEF GetMember, At
    <2>7. CASE GetMemberFails(c)
        BY <2>7 DEF GetMemberFails, At, Fault
    <2>8. CASE Save(c)
        BY <2>8 DEF Save, SaveRefresh, Chain
    <2>9. CASE SaveFails(c)
        <3>1. CASE SaveRefresh(c, OnError(c))
            BY <2>9, <3>1 DEF SaveFails, SaveRefresh, Chain, OnError, Fault
        <3>2. CASE At(c, OnError(c)) /\ UNCHANGED <<given, stored>>
            BY <2>9, <3>2 DEF SaveFails, OnError, At, Fault
        <3> QED
            BY <2>9, <3>1, <3>2 DEF SaveFails
    <2>10. CASE Delete(c)
        BY <2>10 DEF Delete, At, Fault
    <2>11. CASE Respond(c)
        BY <2>11 DEF Respond, At
    <2>12. CASE LoseAnswer(c)
        BY <2>12 DEF LoseAnswer, At, Fault
    <2> QED
        BY <1>1, <2>1, <2>2, <2>3, <2>4, <2>5, <2>6, <2>7, <2>8, <2>9, <2>10, <2>11, <2>12 DEF Step
<1>2. ASSUME NEW t \in stored, Expire(t) PROVE NewInv'
    BY <1>2 DEF Expire
<1>3. CASE UNCHANGED vars
    BY <1>3 DEF vars
<1> QED
    BY <1>1, <1>2, <1>3 DEF Next

(* The call that takes a token is one of the browser that holds it.          *)
LEMMA CookieStep ==
    ASSUME TypeOK, KindInv, OwnerInv, NewInv, NoDeadCookie, [Next]_vars
    PROVE  NoDeadCookie'
<1> USE ConstantsAssumption DEF TypeOK, KindInv, Calls, Tokens, PCs, OwnerInv, Owner, NewInv, NoDeadCookie, InFlight
<1>1. ASSUME NEW c \in Calls, Step(c) PROVE NoDeadCookie'
    <2>1. CASE SignIn(c)
        BY <2>1 DEF SignIn, Send
    <2>2. CASE Refresh(c)
        BY <2>2 DEF Refresh, Send
    <2>3. CASE Logout(c)
        BY <2>3 DEF Logout, Send
    <2>4. CASE Take(c)
        BY <2>4 DEF Take, At
    <2>5. CASE TakeFails(c)
        BY <2>5 DEF TakeFails, At, Fault
    <2>6. CASE GetMember(c)
        BY <2>6 DEF GetMember, At
    <2>7. CASE GetMemberFails(c)
        BY <2>7 DEF GetMemberFails, At, Fault
    <2>8. CASE Save(c)
        BY <2>8 DEF Save, SaveRefresh, Chain
    <2>9. CASE SaveFails(c)
        <3>1. CASE SaveRefresh(c, OnError(c))
            BY <2>9, <3>1 DEF SaveFails, SaveRefresh, Chain, OnError, Fault
        <3>2. CASE At(c, OnError(c)) /\ UNCHANGED <<given, stored>>
            BY <2>9, <3>2 DEF SaveFails, OnError, At, Fault
        <3> QED
            BY <2>9, <3>1, <3>2 DEF SaveFails
    <2>10. CASE Delete(c)
        BY <2>10 DEF Delete, At, Fault
    <2>11. CASE Respond(c)
        BY <2>11 DEF Respond, At
    <2>12. CASE LoseAnswer(c)
        BY <2>12 DEF LoseAnswer, At, Fault
    <2> QED
        BY <1>1, <2>1, <2>2, <2>3, <2>4, <2>5, <2>6, <2>7, <2>8, <2>9, <2>10, <2>11, <2>12 DEF Step
<1>2. ASSUME NEW t \in stored, Expire(t) PROVE NoDeadCookie'
    BY <1>2 DEF Expire
<1>3. CASE UNCHANGED vars
    BY <1>3 DEF vars
<1> QED
    BY <1>1, <1>2, <1>3 DEF Next

(* What settles a browser: its calls one after the other, without failures.  *)
LEMMA SettledStep ==
    ASSUME TypeOK, KindInv, OwnerInv, SettledInv, [Next]_vars
    PROVE  SettledInv'
<1> USE ConstantsAssumption DEF TypeOK, KindInv, Calls, Tokens, PCs, OwnerInv, Owner, SettledInv, Mine, SignedIn, InFlight
<1>1. ASSUME NEW c \in Calls, Step(c) PROVE SettledInv'
    <2>0. ASSUME NEW pc \in {"clear", "take", "delete"}, Send(c, pc), c \notin SignIns,
                 (pc = "clear") = (cookie[call[c].browser] = NoToken), (pc = "take") => c \notin Logouts
          PROVE  SettledInv'
        <3>1. CASE pc = "clear"
            BY <2>0, <3>1 DEF Send
        <3>2. CASE pc = "take"
            BY <2>0, <3>2 DEF Send
        <3>3. CASE pc = "delete"
            BY <2>0, <3>3 DEF Send
        <3> QED
            BY <3>1, <3>2, <3>3
    <2>1. CASE SignIn(c)
        BY <2>1 DEF SignIn, Send
    <2>2. CASE Refresh(c)
        BY <2>0, <2>2 DEF Refresh
    <2>3. CASE Logout(c)
        BY <2>0, <2>3 DEF Logout
    <2>4. CASE Take(c)
        BY <2>4 DEF Take, At
    <2>5. CASE TakeFails(c)
        BY <2>5 DEF TakeFails, At, Fault
    <2>6. CASE GetMember(c)
        BY <2>6 DEF GetMember, At
    <2>7. CASE GetMemberFails(c)
        BY <2>7 DEF GetMemberFails, At, Fault
    <2>8. CASE Save(c)
        BY <2>8 DEF Save, SaveRefresh, Chain
    <2>9. CASE SaveFails(c)
        <3>1. CASE SaveRefresh(c, OnError(c))
            BY <2>9, <3>1 DEF SaveFails, SaveRefresh, Chain, OnError, Fault
        <3>2. CASE At(c, OnError(c)) /\ UNCHANGED <<given, stored>>
            BY <2>9, <3>2 DEF SaveFails, OnError, At, Fault
        <3> QED
            BY <2>9, <3>1, <3>2 DEF SaveFails
    <2>10. CASE Delete(c)
        BY <2>10 DEF Delete, At, Fault
    <2>11. CASE Respond(c)
        BY <2>11 DEF Respond, At
    <2>12. CASE LoseAnswer(c)
        BY <2>12 DEF LoseAnswer, At, Fault
    <2> QED
        BY <1>1, <2>1, <2>2, <2>3, <2>4, <2>5, <2>6, <2>7, <2>8, <2>9, <2>10, <2>11, <2>12 DEF Step
<1>2. ASSUME NEW t \in stored, Expire(t) PROVE SettledInv'
    BY <1>2 DEF Expire
<1>3. CASE UNCHANGED vars
    BY <1>3 DEF vars
<1> QED
    BY <1>1, <1>2, <1>3 DEF Next

----------------------------------------------------------------------------
(* The invariants together, from the initial states on.                    *)
LEMMA InitInv ==
    Init => IInv
<1> SUFFICES ASSUME Init PROVE IInv
    OBVIOUS
<1> USE ConstantsAssumption DEF Init, Calls
<1>1. TypeOK
    BY DEF TypeOK, PCs
<1>2. KindInv /\ FreshInv /\ ChainLinear
    BY DEF KindInv, FreshInv, ChainLinear, Carriers
<1>3. OwnerInv /\ NewInv /\ NoDeadCookie /\ SettledInv
    BY DEF OwnerInv, NewInv, NoDeadCookie, SettledInv, Mine, SignedIn, InFlight
<1> QED
    BY <1>1, <1>2, <1>3 DEF IInv

(* What holds of the calls, tokens and cookies of every reachable state.   *)
THEOREM InductiveInvariant == Spec => []IInv
<1>1. IInv /\ [Next]_vars => IInv'
    BY TypeKindStep, FreshStep, LinearStep, OwnerStep, NewStep, CookieStep, SettledStep DEF IInv
<1> QED
    BY InitInv, <1>1, PTL DEF Spec

(* Type correctness of every reachable state.                              *)
THEOREM TypeCorrect == Spec => []TypeOK
<1>1. IInv => TypeOK
    BY DEF IInv
<1> QED
    BY InductiveInvariant, <1>1, PTL

(* GETDEL: however many tabs refresh at the same time, a sign-in has one    *)
(* token that is accepted or one call that exchanges it.                    *)
THEOREM LinearChains == Spec => []ChainLinear
<1>1. IInv => ChainLinear
    BY DEF IInv
<1> QED
    BY InductiveInvariant, <1>1, PTL

(* The handlers clear or replace every cookie that has been taken.          *)
THEOREM NoCookieDies == Spec => []NoDeadCookie
<1>1. IInv => NoDeadCookie
    BY DEF IInv
<1> QED
    BY InductiveInvariant, <1>1, PTL

(* The rotation of tokens alone signs nobody out.                           *)
THEOREM RotationKeeps == Spec => []StaysSignedIn
<1>1. IInv => StaysSignedIn
    BY DEF IInv, SettledInv, Mine, SignedIn, StaysSignedIn, TypeOK
<1> QED
    BY InductiveInvariant, <1>1, PTL

----------------------------------------------------------------------------
(* Sessions implements TokenChain.                                          *)

\* The refinement mapping of Sessions, by name.
Good == [s \in SignIns |-> {t.gen : t \in {u \in stored : u.chain = s}}]
Turning == {s \in SignIns : Carriers(s) # {}}

(* The token of a chain is taken, deleted or expires.                       *)
LEMMA GoodLoses ==
    ASSUME TypeOK, ChainLinear, NEW t \in stored, stored' = stored \ {t}
    PROVE  /\ t.chain \in SignIns
           /\ Good[t.chain] # {}
           /\ Good' = [Good EXCEPT ![t.chain] = {}]
<1>1. t.chain \in SignIns /\ t.gen \in Good[t.chain]
    BY DEF Good, TypeOK, Tokens
<1>2. \A u \in stored : u.chain = t.chain => u = t
    BY <1>1 DEF ChainLinear
<1>3. ASSUME NEW s \in SignIns
      PROVE  {u.gen : u \in {v \in stored' : v.chain = s}}
                 = IF s = t.chain THEN {} ELSE {u.gen : u \in {v \in stored : v.chain = s}}
    <2>1. CASE s = t.chain
        BY <1>2, <2>1
    <2>2. CASE s # t.chain
        BY <2>2
    <2> QED
        BY <2>1, <2>2
<1>4. Good' = [s \in SignIns |-> {u.gen : u \in {v \in stored' : v.chain = s}}]
    BY DEF Good
<1>5. Good' = [Good EXCEPT ![t.chain] = {}]
    BY <1>3, <1>4 DEF Good
<1> QED
    BY <1>1, <1>5

(* A chain without a token is given its next one.                           *)
LEMMA GoodGains ==
    ASSUME TypeOK, NEW s \in SignIns, \A t \in stored : t.chain # s,
           given' = [given EXCEPT ![s] = @ + 1],
           stored' = stored \cup {[chain |-> s, gen |-> given[s] + 1]}
    PROVE  Chains!Give(s)
<1>1. ASSUME NEW r \in SignIns
      PROVE  {u.gen : u \in {v \in stored' : v.chain = r}}
                 = IF r = s THEN {given[s] + 1} ELSE {u.gen : u \in {v \in stored : v.chain = r}}
    <2>1. CASE r = s
        <3>1. {v \in stored' : v.chain = s} = {[chain |-> s, gen |-> given[s] + 1]}
            OBVIOUS
        <3>2. {u.gen : u \in {[chain |-> s, gen |-> given[s] + 1]}} = {given[s] + 1}
            OBVIOUS
        <3> QED
            BY <2>1, <3>1, <3>2
    <2>2. CASE r # s
        BY <2>2
    <2> QED
        BY <2>1, <2>2
<1>2. Good' = [r \in SignIns |-> {u.gen : u \in {v \in stored' : v.chain = r}}]
    BY DEF Good
<1>3. Good' = [Good EXCEPT ![s] = {given[s] + 1}]
    BY <1>1, <1>2 DEF Good
<1> QED
    BY <1>3 DEF Chains!Give, Good

(* Whoever does not begin or end an exchange turns no chain.                *)
LEMMA TurningStays ==
    ASSUME \A d \in Refreshes :
               /\ call[d].pc \in {"member", "save"} <=> call'[d].pc \in {"member", "save"}
               /\ call[d].pc \in {"member", "save"} => call'[d].token = call[d].token
    PROVE  Turning' = Turning
<1>1. \A s \in SignIns : Carriers(s)' = Carriers(s)
    BY ConstantsAssumption DEF Carriers, Chain
<1> QED
    BY <1>1 DEF Turning

(* The call that exchanges the token of a chain is the only one.            *)
LEMMA TurningEnds ==
    ASSUME NEW c \in Refreshes, TypeOK, ChainLinear, call[c].pc \in {"member", "save"},
           Chain(c) \in SignIns,
           \A d \in Refreshes \ {c} : call'[d] = call[d],
           call'[c].pc \notin {"member", "save"}
    PROVE  /\ Chain(c) \in Turning
           /\ Turning' = Turning \ {Chain(c)}
           /\ \A t \in stored : t.chain # Chain(c)
<1>1. c \in Carriers(Chain(c)) /\ Carriers(Chain(c)) = {c}
    BY DEF Carriers, ChainLinear
<1>2. \A s \in SignIns : Carriers(s)' = Carriers(s) \ {c}
    BY ConstantsAssumption DEF Carriers, Chain
<1>3. \A s \in SignIns \ {Chain(c)} : c \notin Carriers(s)
    BY DEF Carriers
<1>4. \A s \in SignIns : Carriers(s)' # {} <=> Carriers(s) # {} /\ s # Chain(c)
    BY <1>1, <1>2, <1>3
<1> QED
    BY <1>1, <1>4 DEF Turning, ChainLinear

(* A call that finds its token begins to exchange it.                       *)
LEMMA TurningBegins ==
    ASSUME NEW c \in Calls, TypeOK, KindInv, Take(c), call[c].token \in stored
    PROVE  Turning' = Turning \cup {call[c].token.chain}
<1> USE ConstantsAssumption
<1>1. c \in Refreshes
    BY DEF KindInv, Take, Calls
<1>2. call' = [call EXCEPT ![c].pc = "member"]
    BY DEF Take, At
<1>3. /\ call'[c].pc = "member" /\ call'[c].token = call[c].token
      /\ \A d \in Refreshes \ {c} : call'[d] = call[d]
      /\ call[c].pc = "take"
    BY <1>2 DEF TypeOK, Calls, Take
<1>4. \A s \in SignIns : Carriers(s)' = Carriers(s) \cup (IF s = call[c].token.chain THEN {c} ELSE {})
    BY <1>1, <1>3 DEF Carriers, Chain
<1>5. \A s \in SignIns : Carriers(s)' # {} <=> Carriers(s) # {} \/ s = call[c].token.chain
    BY <1>4
<1>6. call[c].token.chain \in SignIns
    BY DEF TypeOK, Tokens
<1> QED
    BY <1>5, <1>6 DEF Turning

(* Every step of Sessions is a step of TokenChain or changes nothing of it. *)
LEMMA ChainStep ==
    ASSUME IInv, [Next]_vars
    PROVE  [Chains!Next]_Chains!vars
<1> USE ConstantsAssumption DEF IInv
<1>a. ASSUME Good' = Good, given' = given, Turning' = Turning
      PROVE  [Chains!Next]_Chains!vars
    BY <1>a DEF Chains!vars, Good, Turning
<1>b. ASSUME stored' = stored PROVE Good' = Good
    BY <1>b DEF Good
<1>c. ASSUME NEW t, stored' = stored \ {t}, given' = given, Turning' = Turning
      PROVE  [Chains!Next]_Chains!vars
    <2>1. CASE t \in stored
        <3>1. Chains!End(t.chain) /\ t.chain \in SignIns
            BY <1>c, <2>1, GoodLoses DEF Chains!End, Good, Turning
        <3> QED
            BY <3>1 DEF Chains!Next
    <2>2. CASE t \notin stored
        BY <1>a, <1>b, <1>c, <2>2
    <2> QED
        BY <2>1, <2>2
<1>d. ASSUME NEW c \in Calls, call[c].pc = "save", NEW pc \in {"set", "keep", "clear"},
             SaveRefresh(c, pc)
      PROVE  [Chains!Next]_Chains!vars
    <2>1. CASE c \in SignIns
        <3>1. given[c] = 0 /\ \A t \in stored : t.chain # c
            BY <1>d, <2>1 DEF FreshInv
        <3>2. Chains!Give(c)
            BY <1>d, <2>1, <3>1, GoodGains DEF SaveRefresh, Chain
        <3>3. Turning' = Turning
            BY <1>d, <2>1, TurningStays DEF SaveRefresh, TypeOK, Calls
        <3> QED
            BY <2>1, <3>1, <3>2, <3>3 DEF Chains!Open, Chains!Next, Turning
    <2>2. CASE c \notin SignIns
        <3>1. c \in Refreshes /\ Chain(c) \in SignIns
            BY <1>d, <2>2 DEF KindInv, Calls, TypeOK, Tokens, Chain
        <3>2. /\ call'[c].pc \notin {"member", "save"}
              /\ \A d \in Refreshes \ {c} : call'[d] = call[d]
            BY <1>d, <3>1 DEF SaveRefresh, TypeOK, Calls
        <3>3. /\ Chain(c) \in Turning /\ Turning' = Turning \ {Chain(c)}
              /\ \A t \in stored : t.chain # Chain(c)
            BY <1>d, <3>1, <3>2, TurningEnds
        <3>4. PICK s \in SignIns : s = Chain(c)
            BY <3>1
        <3>5. /\ given' = [given EXCEPT ![s] = @ + 1]
              /\ stored' = stored \cup {[chain |-> s, gen |-> given[s] + 1]}
            BY <1>d, <3>4 DEF SaveRefresh
        <3>6. Chains!Give(s)
            BY <3>3, <3>4, <3>5, GoodGains
        <3>7. s \in Turning /\ Turning' = Turning \ {s}
            BY <3>3, <3>4
        <3> QED
            BY <3>6, <3>7 DEF Chains!Turned, Chains!Next, Turning
    <2> QED
        BY <2>1, <2>2
<1>e. ASSUME NEW c \in Calls, call[c].pc \in {"member", "save"}, NEW pc \in {"clear", "keep"},
             At(c, pc), stored' = stored, given' = given
      PROVE  [Chains!Next]_Chains!vars
    <2>1. CASE c \in SignIns
        <3>1. Turning' = Turning
            BY <1>e, <2>1, TurningStays DEF At, TypeOK, Calls
        <3> QED
            BY <1>a, <1>b, <1>e, <3>1
    <2>2. CASE c \notin SignIns
        <3>1. c \in Refreshes /\ Chain(c) \in SignIns
            BY <1>e, <2>2 DEF KindInv, Calls, TypeOK, Tokens, Chain
        <3>2. /\ call'[c].pc \notin {"member", "save"}
              /\ \A d \in Refreshes \ {c} : call'[d] = call[d]
            BY <1>e, <3>1 DEF At, TypeOK, Calls
        <3>3. Chain(c) \in Turning /\ Turning' = Turning \ {Chain(c)}
            BY <1>e, <3>1, <3>2, TurningEnds
        <3> QED
            BY <1>b, <1>e, <3>1, <3>3 DEF Chains!Break, Chains!Next, Turning, Good
    <2> QED
        BY <2>1, <2>2
<1>1. ASSUME NEW c \in Calls, Step(c) PROVE [Chains!Next]_Chains!vars
    <2>1. CASE SignIn(c)
        <3>1. \A d \in Refreshes :
                  /\ call[d].pc \in {"member", "save"} <=> call'[d].pc \in {"member", "save"}
                  /\ call[d].pc \in {"member", "save"} => call'[d].token = call[d].token
            BY <2>1 DEF SignIn, Send, TypeOK, Calls
        <3> QED
            BY <1>a, <1>b, <2>1, <3>1, TurningStays DEF SignIn, Send
    <2>2. CASE Refresh(c)
        <3>1. \A d \in Refreshes :
                  /\ call[d].pc \in {"member", "save"} <=> call'[d].pc \in {"member", "save"}
                  /\ call[d].pc \in {"member", "save"} => call'[d].token = call[d].token
            BY <2>2 DEF Refresh, Send, TypeOK, Calls
        <3> QED
            BY <1>a, <1>b, <2>2, <3>1, TurningStays DEF Refresh, Send
    <2>3. CASE Logout(c)
        <3>1. \A d \in Refreshes :
                  /\ call[d].pc \in {"member", "save"} <=> call'[d].pc \in {"member", "save"}
                  /\ call[d].pc \in {"member", "save"} => call'[d].token = call[d].token
            BY <2>3 DEF Logout, Send, TypeOK, Calls
        <3> QED
            BY <1>a, <1>b, <2>3, <3>1, TurningStays DEF Logout, Send
    <2>4. CASE GetMember(c)
        <3>1. \A d \in Refreshes :
                  /\ call[d].pc \in {"member", "save"} <=> call'[d].pc \in {"member", "save"}
                  /\ call[d].pc \in {"member", "save"} => call'[d].token = call[d].token
            BY <2>4 DEF GetMember, At, TypeOK, Calls
        <3> QED
            BY <1>a, <1>b, <2>4, <3>1, TurningStays DEF GetMember, At
    <2>5. CASE Respond(c)
        <3>1. \A d \in Refreshes :
                  /\ call[d].pc \in {"member", "save"} <=> call'[d].pc \in {"member", "save"}
                  /\ call[d].pc \in {"member", "save"} => call'[d].token = call[d].token
            BY <2>5 DEF Respond, At, TypeOK, Calls
        <3> QED
            BY <1>a, <1>b, <2>5, <3>1, TurningStays DEF Respond, At
    <2>6. CASE LoseAnswer(c)
        <3>1. \A d \in Refreshes :
                  /\ call[d].pc \in {"member", "save"} <=> call'[d].pc \in {"member", "save"}
                  /\ call[d].pc \in {"member", "save"} => call'[d].token = call[d].token
            BY <2>6 DEF LoseAnswer, At, Fault, TypeOK, Calls
        <3> QED
            BY <1>a, <1>b, <2>6, <3>1, TurningStays DEF LoseAnswer, At, Fault
    <2>7. CASE Take(c)
        <3>1. CASE call[c].token \in stored
            <4>1. Turning' = Turning \cup {call[c].token.chain}
                BY <2>7, <3>1, TurningBegins
            <4>2. /\ call[c].token.chain \in SignIns /\ Good[call[c].token.chain] # {}
                  /\ Good' = [Good EXCEPT ![call[c].token.chain] = {}]
                BY <2>7, <3>1, GoodLoses DEF Take
            <4>3. PICK s \in SignIns : s = call[c].token.chain
                BY <4>2
            <4>4. /\ Good[s] # {} /\ Good' = [Good EXCEPT ![s] = {}]
                  /\ Turning' = Turning \cup {s}
                BY <4>1, <4>2, <4>3
            <4>5. Chains!Turn(s)
                BY <2>7, <4>4 DEF Chains!Turn, Take, Good, Turning
            <4> QED
                BY <4>5 DEF Chains!Next
        <3>2. CASE call[c].token \notin stored
            <4>1. stored' = stored /\ given' = given
                BY <2>7, <3>2 DEF Take
            <4>2. Turning' = Turning
                BY <2>7, <3>2, TurningStays DEF Take, At, TypeOK, Calls
            <4> QED
                BY <1>a, <1>b, <4>1, <4>2
        <3> QED
            BY <3>1, <3>2
    <2>8. CASE TakeFails(c)
        <3>1. Turning' = Turning
            BY <2>8, TurningStays DEF TakeFails, At, TypeOK, Calls
        <3> QED
            BY <1>a, <1>b, <1>c, <2>8, <3>1 DEF TakeFails
    <2>9. CASE GetMemberFails(c)
        BY <1>e, <2>9 DEF GetMemberFails
    <2>10. CASE Save(c)
        BY <1>d, <2>10 DEF Save
    <2>11. CASE SaveFails(c)
        <3>1. CASE SaveRefresh(c, OnError(c))
            BY <1>d, <2>11, <3>1 DEF SaveFails, OnError
        <3>2. CASE At(c, OnError(c)) /\ UNCHANGED <<given, stored>>
            BY <1>e, <2>11, <3>2 DEF SaveFails, OnError
        <3> QED
            BY <2>11, <3>1, <3>2 DEF SaveFails
    <2>12. CASE Delete(c)
        <3>1. Turning' = Turning
            BY <2>12, TurningStays DEF Delete, At, TypeOK, Calls
        <3> QED
            BY <1>a, <1>b, <1>c, <2>12, <3>1 DEF Delete
    <2> QED
        BY <1>1, <2>1, <2>2, <2>3, <2>4, <2>5, <2>6, <2>7, <2>8, <2>9, <2>10, <2>11, <2>12 DEF Step
<1>2. ASSUME NEW t \in stored, Expire(t) PROVE [Chains!Next]_Chains!vars
    <2>1. Turning' = Turning
        BY <1>2, TurningStays DEF Expire
    <2> QED
        BY <1>2, <1>c, <2>1 DEF Expire
<1>3. CASE UNCHANGED vars
    <2>1. Turning' = Turning
        BY <1>3, TurningStays DEF vars
    <2> QED
        BY <1>3, <1>a, <1>b, <2>1 DEF vars
<1> QED
    BY <1>1, <1>2, <1>3 DEF Next

(* The tokens of Redis keep the promise of TokenChain.                      *)
THEOREM Refinement == Spec => ImplementsTokenChain
<1>1. Init => Chains!Init
    BY ConstantsAssumption DEF Init, Chains!Init, Carriers, Calls
<1>2. IInv /\ [Next]_vars => [Chains!Next]_Chains!vars
    BY ChainStep
<1> QED
    BY InductiveInvariant, <1>1, <1>2, PTL DEF Spec, Chains!Spec, ImplementsTokenChain
=============================================================================
