------------------------------ MODULE Sessions ------------------------------
(* Customer sessions: refresh tokens in Redis and the cookie that carries  *)
(* them. Refresh, Logout and newSession of customer_service.go behind the  *)
(* handlers of customer_handler.go; the tabs of a browser share its cookie *)
(* and call at the same time, commands fail with or without effect, and    *)
(* answers are lost or overtake each other.                                *)
(* The n-th token of a sign-in stands for the random token of that step.   *)
EXTENDS Naturals

CONSTANTS
    Browsers,
    SignIns,     \* calls of VerifyCode that have consumed the right code
    Refreshes,   \* calls of Refresh
    Logouts,     \* calls of Logout
    MaxFaults,   \* bound of the commands, calls and answers that fail
    NoToken      \* no cookie

Calls == SignIns \cup Refreshes \cup Logouts

Tokens == [chain : SignIns, gen : Nat]

ASSUME ConstantsAssumption ==
    /\ SignIns \cap Refreshes = {}
    /\ SignIns \cap Logouts = {}
    /\ Refreshes \cap Logouts = {}
    /\ MaxFaults \in Nat
    /\ NoToken \notin Tokens

VARIABLES
    stored,     \* cust:refresh:{hash}: the tokens in Redis
    given,      \* tokens saved so far in each chain
    cookie,     \* kfc_rt of each browser
    call,       \* the calls
    faults,     \* failures so far
    expired,    \* history: tokens that Redis expired
    unheard,    \* history: tokens whose last call's answer was lost
    unsettled   \* history: browsers that had overlapping calls, failures, expiry or a logout

vars == <<stored, given, cookie, call, faults, expired, unheard, unsettled>>

PCs == {"idle", "take", "member", "save", "delete", "set", "clear", "keep", "done"}

TypeOK ==
    /\ stored \subseteq Tokens
    /\ given \in [SignIns -> Nat]
    /\ cookie \in [Browsers -> Tokens \cup {NoToken}]
    /\ call \in [Calls -> [pc : PCs, browser : Browsers, token : Tokens \cup {NoToken},
                           new : Tokens \cup {NoToken}]]
    /\ faults \in 0 .. MaxFaults
    /\ expired \subseteq Tokens
    /\ unheard \subseteq Tokens
    /\ unsettled \subseteq Browsers

Init ==
    /\ stored = {}
    /\ given = [s \in SignIns |-> 0]
    /\ cookie = [b \in Browsers |-> NoToken]
    /\ call \in [Calls -> [pc : {"idle"}, browser : Browsers, token : {NoToken}, new : {NoToken}]]
    /\ faults = 0
    /\ expired = {}
    /\ unheard = {}
    /\ unsettled = {}

InFlight(c) == call[c].pc \notin {"idle", "done"}

At(c, pc) == call' = [call EXCEPT ![c].pc = pc]

Fault(c) ==
    /\ faults < MaxFaults
    /\ faults' = faults + 1
    /\ unsettled' = unsettled \cup {call[c].browser}

----------------------------------------------------------------------------

\* A call starts. Every call but a sign-in carries the browser's cookie.
Send(c, pc) ==
    LET b == call[c].browser
        t == IF c \in SignIns THEN NoToken ELSE cookie[b]
    IN  /\ call[c].pc = "idle"
        /\ call' = [call EXCEPT ![c].pc = pc, ![c].token = t]
        /\ unsettled' = IF (\E d \in Calls : InFlight(d) /\ call[d].browser = b)
                            \/ c \in Logouts
                        THEN unsettled \cup {b} ELSE unsettled
        /\ UNCHANGED <<stored, given, cookie, faults, expired, unheard>>

\* VerifyCode has consumed the code and found the member.
SignIn(c) == c \in SignIns /\ Send(c, "save")

\* Without a cookie Refresh fails and Logout does nothing: both answer with
\* a cleared cookie.
Refresh(c) ==
    /\ c \in Refreshes
    /\ Send(c, IF cookie[call[c].browser] = NoToken THEN "clear" ELSE "take")

Logout(c) ==
    /\ c \in Logouts
    /\ Send(c, IF cookie[call[c].browser] = NoToken THEN "clear" ELSE "delete")

\* Mutants: GET in place of GETDEL; a token that is not there is accepted.
TakeKeeps(c) ==
    /\ call[c].pc = "take"
    /\ At(c, IF call[c].token \in stored THEN "member" ELSE "clear")
    /\ UNCHANGED <<stored, given, cookie, faults, expired, unheard, unsettled>>

TakeAcceptsAny(c) ==
    /\ call[c].pc = "take"
    /\ At(c, "member")
    /\ stored' = stored \ {call[c].token}
    /\ UNCHANGED <<given, cookie, faults, expired, unheard, unsettled>>

\* GETDEL: who finds the token has taken it from everybody else.
Take(c) ==
    /\ call[c].pc = "take"
    /\ At(c, IF call[c].token \in stored THEN "member" ELSE "clear")
    /\ stored' = stored \ {call[c].token}
    /\ UNCHANGED <<given, cookie, faults, expired, unheard, unsettled>>

\* The command fails, executed or not.
TakeFails(c) ==
    /\ call[c].pc = "take"
    /\ Fault(c)
    /\ At(c, "clear")
    /\ stored' \in {stored, stored \ {call[c].token}}
    /\ UNCHANGED <<given, cookie, expired, unheard>>

\* kfc-loyalty knows the member ...
GetMember(c) ==
    /\ call[c].pc = "member"
    /\ At(c, "save")
    /\ UNCHANGED <<stored, given, cookie, faults, expired, unheard, unsettled>>

\* ... or answers with an error. The token has been taken.
GetMemberFails(c) ==
    /\ call[c].pc = "member"
    /\ Fault(c)
    /\ At(c, "clear")
    /\ UNCHANGED <<stored, given, cookie, expired, unheard>>

Chain(c) == IF c \in SignIns THEN c ELSE call[c].token.chain

\* Mutant: the token that was sent is saved again.
SaveRefreshSent(c, pc) ==
    /\ given' = [given EXCEPT ![Chain(c)] = @ + 1]
    /\ stored' = stored \cup {call[c].token}
    /\ call' = [call EXCEPT ![c].pc = pc, ![c].new = call[c].token]

\* newSession draws a token and saves it; the caller is told as `pc' says.
SaveRefresh(c, pc) ==
    LET s == Chain(c)
        t == [chain |-> s, gen |-> given[s] + 1]
    IN  /\ given' = [given EXCEPT ![s] = @ + 1]
        /\ stored' = stored \cup {t}
        /\ call' = [call EXCEPT ![c].pc = pc, ![c].new = t]

Save(c) ==
    /\ call[c].pc = "save"
    /\ SaveRefresh(c, "set")
    /\ UNCHANGED <<cookie, faults, expired, unheard, unsettled>>

\* Refresh answers an error with a cleared cookie, VerifyCode leaves it.
OnError(c) == IF c \in SignIns THEN "keep" ELSE "clear"

\* The SET fails, executed or not.
SaveFails(c) ==
    /\ call[c].pc = "save"
    /\ Fault(c)
    /\ \/ SaveRefresh(c, OnError(c))
       \/ /\ At(c, OnError(c))
          /\ UNCHANGED <<given, stored>>
    /\ UNCHANGED <<cookie, expired, unheard>>

\* DEL. The handler ignores an error.
Delete(c) ==
    /\ call[c].pc = "delete"
    /\ \/ /\ stored' = stored \ {call[c].token}
          /\ UNCHANGED <<faults, unsettled>>
       \/ Fault(c) /\ UNCHANGED stored
    /\ At(c, "clear")
    /\ UNCHANGED <<given, cookie, expired, unheard>>

\* Mutant: only a refresh that succeeds touches the cookie.
RespondKeeps(c) ==
    /\ call[c].pc \in {"set", "clear", "keep"}
    /\ At(c, "done")
    /\ cookie' = [cookie EXCEPT ![call[c].browser] = IF call[c].pc = "set" THEN call[c].new ELSE @]
    /\ UNCHANGED <<stored, given, faults, expired, unheard, unsettled>>

\* Mutant: the answer of a refresh does not carry the new token.
RespondOld(c) ==
    /\ call[c].pc \in {"set", "clear", "keep"}
    /\ At(c, "done")
    /\ cookie' = [cookie EXCEPT ![call[c].browser] =
                     CASE call[c].pc = "set" -> IF c \in SignIns THEN call[c].new ELSE call[c].token
                       [] call[c].pc = "clear" -> NoToken
                       [] OTHER -> @]
    /\ UNCHANGED <<stored, given, faults, expired, unheard, unsettled>>

\* The browser gets the answer, also one that later answers have overtaken.
Respond(c) ==
    /\ call[c].pc \in {"set", "clear", "keep"}
    /\ At(c, "done")
    /\ cookie' = [cookie EXCEPT ![call[c].browser] =
                     CASE call[c].pc = "set" -> call[c].new
                       [] call[c].pc = "clear" -> NoToken
                       [] OTHER -> @]
    /\ UNCHANGED <<stored, given, faults, expired, unheard, unsettled>>

\* The answer is lost on the way.
LoseAnswer(c) ==
    /\ call[c].pc \in {"set", "clear", "keep"}
    /\ Fault(c)
    /\ At(c, "done")
    /\ unheard' = unheard \cup ({call[c].token} \ {NoToken})
    /\ UNCHANGED <<stored, given, cookie, expired>>

\* RefreshTTL has passed.
Expire(t) ==
    /\ t \in stored
    /\ stored' = stored \ {t}
    /\ expired' = expired \cup {t}
    /\ unsettled' = unsettled \cup {call[c].browser : c \in {d \in Calls : call[d].new = t}}
    /\ UNCHANGED <<given, cookie, call, faults, unheard>>

Step(c) ==
    \/ SignIn(c) \/ Refresh(c) \/ Logout(c)
    \/ Take(c) \/ TakeFails(c) \/ GetMember(c) \/ GetMemberFails(c)
    \/ Save(c) \/ SaveFails(c) \/ Delete(c)
    \/ Respond(c) \/ LoseAnswer(c)

Next == (\E c \in Calls : Step(c)) \/ (\E t \in stored : Expire(t))

Spec == Init /\ [][Next]_vars

----------------------------------------------------------------------------
(* Properties.                                                             *)

\* Calls that have taken the token of chain s and not saved the next one.
Carriers(s) == {c \in Refreshes : call[c].pc \in {"member", "save"} /\ Chain(c) = s}

\* "A token works once" (customer_auth_repo.go:34) also when tabs refresh at
\* the same time: a chain has one token that is accepted, or one call that
\* is exchanging it, never two of either.
ChainLinear ==
    \A s \in SignIns :
        /\ \A t, u \in stored : (t.chain = s /\ u.chain = s) => t = u
        /\ \A c, d \in Carriers(s) : c = d
        /\ (\E t \in stored : t.chain = s) => Carriers(s) = {}

\* A browser never keeps a token that is refused: whatever takes, deletes or
\* fails clears or replaces the cookie (customer_handler.go:73-87), unless
\* the token expired or the answer was lost.
NoDeadCookie ==
    \A b \in Browsers :
        cookie[b] \notin {NoToken} \cup stored \cup expired \cup unheard
        => \E c \in Calls : InFlight(c) /\ call[c].browser = b /\ call[c].token = cookie[b]

\* The rotation itself signs nobody out: a browser that has signed in and
\* whose calls neither overlapped nor failed holds a token that is accepted.
StaysSignedIn ==
    \A b \in Browsers :
        (/\ b \notin unsettled
         /\ \A c \in Calls : call[c].browser = b => ~InFlight(c)
         /\ \E c \in SignIns : call[c].browser = b /\ call[c].pc = "done")
        => cookie[b] \in stored

\* Refresh tokens keep the promise of TokenChain: a session that has ended,
\* by a logout that found its token, by expiry or by a failure, never
\* accepts a token again (customer_service.go:208-232).
Chains == INSTANCE TokenChain
    WITH good <- [s \in SignIns |-> {t.gen : t \in {u \in stored : u.chain = s}}],
         turning <- {s \in SignIns : Carriers(s) # {}}

ImplementsTokenChain == Chains!Spec
=============================================================================
