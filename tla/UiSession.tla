----------------------------- MODULE UiSession -----------------------------
(***************************************************************************)
(* The sign-in state of the UI's tabs against the session server: the      *)
(* axios interceptors with their one refresh in flight (src/ui/src/lib/    *)
(* api.ts), the token store each tab keeps in memory and copies to the one *)
(* localStorage (store/auth-store.ts), and the sign-in and sign-out hooks  *)
(* (hooks/api.ts).                                                         *)
(*                                                                         *)
(* A tab runs one callback at a time: what follows an await in the same    *)
(* callback, such as the continuations of all calls that wait for one      *)
(* refresh, is one step.  Requests and answers of the tabs interleave.     *)
(* Both tokens of a session come and go together, so a session stands for  *)
(* its pair.  The server selects the row of a refresh in one step and      *)
(* commits its rotation in another, so that refreshes overlap there; it    *)
(* handles any other request in one step (AuthSessions has all its         *)
(* interleavings).  The network loses requests and answers.                *)
(***************************************************************************)
EXTENDS Naturals

CONSTANTS
    Tabs,          \* tabs of one browser
    Calls,         \* API calls a tab may have in flight
    Users,         \* accounts signed in from this browser
    None,          \* null
    Layouts,       \* bound: the calls, accounts and operations in use and the number
                   \* of sessions issued; a run has one of them
    MaxSessions    \* bound on the sessions of all layouts; numbered as they are issued

Sids == 1 .. MaxSessions

ASSUME NoneAssumption == None \notin Users /\ None \notin Nat
VARIABLES
    layout,     \* the calls of each tab and the other bounds of this run
    memory,     \* useAuthStore of each tab
    storage,    \* localStorage["sep.auth"]
    call,       \* the API calls of each tab
    refresh,    \* refreshPromise of each tab, with the request it stands for
    orphans,    \* refreshes on their way, or at the server, of which no page waits
                \* for the answer
    status, family, owner,   \* rows of refresh_sessions
    rotated,    \* sessions whose row names a successor
    expired,    \* sessions whose access token has expired
    refused,    \* sessions with a marker auth:revoked_session
    locked,     \* users with a marker auth:revoked_all; it outlives the run
    strays,     \* history: sessions two tabs have held, or whose refresh answer no
                \* page has received
    overtaken   \* history: an answer was stored over another sign-in or a sign-out

client == <<layout, memory, storage, call, refresh>>
server == <<status, family, owner, rotated, expired, refused, locked>>
history == <<strays, overtaken>>
vars == <<layout, memory, storage, call, refresh, orphans, status, family, owner,
          rotated, expired, refused, locked, strays, overtaken>>

Store == [tokens: Sids \cup {None}, user: Users \cup {None}]

\* "me" is the query of AppLayout, "login_me" the one inside useLogin.
Acts == {"query", "me", "login", "logout", "logout_all", "change_password"}
Operations == Acts \cup {"login_me", "none"}

ASSUME BoundAssumption ==
    /\ MaxSessions \in Nat
    /\ Layouts \subseteq [calls: SUBSET (Tabs \X Calls), users: SUBSET Users,
                          acts: SUBSET Acts, sessions: 0 .. MaxSessions]

\* result: the user a profile answer names; new: the session a login has opened;
\* crossed: the tab's tokens changed under a sign-out.
Call == [op: Operations, pc: {"idle", "sent", "ok", "unauthorized", "waiting"},
         token: Sids \cup {None}, retry: BOOLEAN, result: Users \cup {None},
         new: Sids \cup {None}, crossed: BOOLEAN]

\* "selected": the server has found the row live, and goes on to rotate the session.
Refresh == [token: Sids, pc: {"sent", "selected", "ok", "failed"},
            new: Sids \cup {None}]
Orphan == [token: Sids, pc: {"sent", "selected"}]

ASSUME NoRefreshAssumption == None \notin Refresh

Idle == [op |-> "none", pc |-> "idle", token |-> None, retry |-> FALSE,
         result |-> None, new |-> None, crossed |-> FALSE]
Empty == [tokens |-> None, user |-> None]

TypeOK ==
    /\ layout \in Layouts
    /\ memory \in [Tabs -> Store] /\ storage \in Store
    /\ call \in [Tabs -> [Calls -> Call]]
    /\ refresh \in [Tabs -> Refresh \cup {None}]
    /\ orphans \subseteq Orphan
    /\ status \in [Sids -> {"unissued", "live", "revoked", "deleted"}]
    /\ family \in [Sids -> Sids \cup {None}]
    /\ owner \in [Sids -> Users \cup {None}]
    /\ rotated \subseteq Sids
    /\ expired \subseteq Sids /\ refused \subseteq Sids /\ locked \subseteq Users
    /\ strays \subseteq Sids
    /\ overtaken \in BOOLEAN

Init ==
    /\ layout \in Layouts
    /\ memory = [t \in Tabs |-> Empty] /\ storage = Empty
    /\ call = [t \in Tabs |-> [c \in Calls |-> Idle]]
    /\ refresh = [t \in Tabs |-> None]
    /\ orphans = {}
    /\ status = [s \in Sids |-> "unissued"]
    /\ family = [s \in Sids |-> None]
    /\ owner = [s \in Sids |-> None]
    /\ rotated = {} /\ expired = {} /\ refused = {} /\ locked = {}
    /\ strays = {} /\ overtaken = FALSE

-----------------------------------------------------------------------------
(***************************************************************************)
(* The store.                                                              *)
(***************************************************************************)
Tokens(t) == memory[t].tokens

\* Every set() of the store is copied to localStorage as a whole.
Set(t, state) ==
    /\ memory' = [memory EXCEPT ![t] = state]
    /\ storage' = state

SetTokens(t, s) == Set(t, [memory[t] EXCEPT !.tokens = s])
SetUser(t, u) == Set(t, [memory[t] EXCEPT !.user = u])

\* mutation: the user is left behind
Clear_KeepsUser(t) == Set(t, [memory[t] EXCEPT !.tokens = None])

Clear(t) == Set(t, Empty)

\* The tab no longer holds the sign-in for which session s was handed out.
Replaced(t, s) == Tokens(t) = None \/ family[Tokens(t)] # family[s]

-----------------------------------------------------------------------------
(***************************************************************************)
(* Pages: opening, reloading, and the calls they begin.                    *)
(***************************************************************************)
\* The refresh of tab t that the server has not answered.
Pending(t) ==
    IF refresh[t] # None /\ refresh[t].pc \in {"sent", "selected"}
    THEN {[token |-> refresh[t].token, pc |-> refresh[t].pc]} ELSE {}

\* A page load reads the store from localStorage; the calls of the page before
\* are gone, a refresh it had sent may still reach the server.
Load(t) ==
    /\ \E c \in Calls : <<t, c>> \in layout.calls
    /\ memory' = [memory EXCEPT ![t] = storage]
    /\ call' = [call EXCEPT ![t] = [c \in Calls |-> Idle]]
    /\ refresh' = [refresh EXCEPT ![t] = None]
    /\ orphans' = orphans \cup Pending(t)
    /\ strays' = strays \cup {s \in Sids :
           \/ refresh[t] # None /\ s = refresh[t].token
           \/ s = storage.tokens /\ \E o \in Tabs \ {t} : Tokens(o) = s}
    /\ UNCHANGED <<layout, storage, server, overtaken>>

\* The request interceptor attaches the token of the store.
Send(t, c, op) ==
    /\ <<t, c>> \in layout.calls /\ op \in layout.acts
    /\ call[t][c].pc = "idle"
    /\ call' = [call EXCEPT ![t][c] = [Idle EXCEPT !.op = op, !.pc = "sent",
                                             !.token = Tokens(t)]]
    /\ UNCHANGED <<layout, memory, storage, refresh, orphans, server, history>>

\* AppLayout asks who the user is while it does not know; the pages and the
\* sign-out buttons are there once it does.
Me(t, c) == Tokens(t) # None /\ memory[t].user = None /\ Send(t, c, "me")

Query(t, c) == Tokens(t) # None /\ memory[t].user # None /\ Send(t, c, "query")

Logout(t, c) == Tokens(t) # None /\ memory[t].user # None /\ Send(t, c, "logout")

LogoutAll(t, c) == Tokens(t) # None /\ memory[t].user # None /\ Send(t, c, "logout_all")

ChangePassword(t, c) ==
    Tokens(t) # None /\ memory[t].user # None /\ Send(t, c, "change_password")

\* The login page is left as soon as there is a token, and its button is disabled
\* while a login is pending.  The register page, reached by its URL, can sign in
\* over a sign-in: UiShell has that.
Login(t, c) ==
    /\ Tokens(t) = None
    /\ \A d \in Calls : call[t][d].op \notin {"login", "login_me"}
    /\ Send(t, c, "login")

-----------------------------------------------------------------------------
(***************************************************************************)
(* The server.                                                             *)
(***************************************************************************)
Unissued(s) ==
    /\ s <= layout.sessions /\ status[s] = "unissued"
    /\ \A r \in Sids : r < s => status[r] # "unissued"

\* get_current_user
Accepted(s) ==
    s # None /\ s \notin expired /\ s \notin refused /\ owner[s] \notin locked

Answered(t, c, pc) == call' = [call EXCEPT ![t][c].pc = pc]

AnswerLogin(t, c) ==
    /\ call[t][c].op = "login" /\ call[t][c].pc = "sent"
    /\ \E s \in Sids, u \in Users :
          /\ u \in layout.users /\ Unissued(s)
          /\ status' = [status EXCEPT ![s] = "live"]
          /\ family' = [family EXCEPT ![s] = s]
          /\ owner' = [owner EXCEPT ![s] = u]
          /\ call' = [call EXCEPT ![t][c] = [@ EXCEPT !.pc = "ok", !.new = s]]
    /\ UNCHANGED <<layout, memory, storage, refresh, orphans, rotated, expired, refused,
                   locked, history>>

ProfileOf(s) == owner[s]

AnswerMe(t, c) ==
    /\ call[t][c].op \in {"me", "login_me"} /\ call[t][c].pc = "sent"
    /\ Accepted(call[t][c].token)
    /\ call' = [call EXCEPT ![t][c] = [@ EXCEPT !.pc = "ok",
                                                 !.result = ProfileOf(call[t][c].token)]]
    /\ UNCHANGED <<layout, memory, storage, refresh, orphans, server, history>>

\* Nothing here depends on the data of any other query, nor on when they arrive.
AnswerQuery(t, c) ==
    /\ call[t][c].op = "query" /\ call[t][c].pc = "sent"
    /\ Accepted(call[t][c].token)
    /\ call' = [call EXCEPT ![t][c] = Idle]
    /\ UNCHANGED <<layout, memory, storage, refresh, orphans, server, history>>

\* The rows of sessions ss, those of them that are not revoked, are revoked.
Revoking(ss) ==
    [r \in Sids |-> IF r \in ss /\ status[r] = "live" THEN "revoked" ELSE status[r]]

\* logout checks the token itself only; it closes the session the token names.
AnswerLogout(t, c) ==
    LET s == call[t][c].token IN
    /\ call[t][c].op = "logout" /\ call[t][c].pc = "sent"
    /\ s # None /\ s \notin expired
    /\ status' = Revoking({s})
    /\ refused' = refused \cup {s}
    /\ Answered(t, c, "ok")
    /\ UNCHANGED <<layout, memory, storage, refresh, orphans, family, owner, rotated,
                   expired, locked, history>>

AnswerLogoutAll(t, c) ==
    LET s == call[t][c].token IN
    /\ call[t][c].op = "logout_all" /\ call[t][c].pc = "sent"
    /\ Accepted(s)
    /\ status' = Revoking({r \in Sids : owner[r] = owner[s]})
    /\ locked' = locked \cup {owner[s]}
    /\ Answered(t, c, "ok")
    /\ UNCHANGED <<layout, memory, storage, refresh, orphans, family, owner, rotated,
                   expired, refused, history>>

\* The sessions of the user are deleted, this one too, while their access tokens stay
\* good.
AnswerChangePassword(t, c) ==
    LET s == call[t][c].token IN
    /\ call[t][c].op = "change_password" /\ call[t][c].pc = "sent"
    /\ Accepted(s)
    /\ status' = [r \in Sids |-> IF owner[r] = owner[s] THEN "deleted" ELSE status[r]]
    /\ call' = [call EXCEPT ![t][c] = Idle]
    /\ UNCHANGED <<layout, memory, storage, refresh, orphans, family, owner, rotated,
                   expired, refused, locked, history>>

\* 401: a token that is missing, expired or revoked, or a wrong password.
AnswerUnauthorized(t, c) ==
    /\ call[t][c].pc = "sent"
    /\ \/ call[t][c].op = "login"
       \/ call[t][c].op = "logout" /\ call[t][c].token \in expired
       \/ call[t][c].op \notin {"login", "logout"} /\ ~ Accepted(call[t][c].token)
    /\ Answered(t, c, "unauthorized")
    /\ UNCHANGED <<layout, memory, storage, refresh, orphans, server, history>>

\* refresh_tokens: the session's row is selected, without a lock.
Found(s) == status[s] = "live"

\* What follows the SELECT goes by what it found: the row is rotated though it may
\* have been revoked or rotated meanwhile.
Rotate(s, new) ==
    /\ status[s] \in {"live", "revoked"}
    /\ Unissued(new)
    /\ status' = [status EXCEPT ![s] = "revoked", ![new] = "live"]
    /\ family' = [family EXCEPT ![new] = family[s]]
    /\ owner' = [owner EXCEPT ![new] = owner[s]]
    /\ rotated' = rotated \cup {s}
    /\ UNCHANGED <<expired, refused, locked>>

\* A session that is closed counts as replayed: its family is closed.
Replay(s) ==
    LET live == {r \in Sids : status[r] = "live" /\ family[r] = family[s]} IN
    /\ status[s] = "revoked"
    /\ status' = Revoking(live)
    /\ refused' = refused \cup live
    /\ UNCHANGED <<family, owner, rotated, expired, locked>>

\* There is no such row, or there is none any more when it is to be rotated.
Missing(s) == status[s] = "deleted" /\ UNCHANGED server

Refuse(s, pc) == (pc = "sent" /\ Replay(s)) \/ Missing(s)

SelectRefresh(t) ==
    /\ refresh[t] # None /\ refresh[t].pc = "sent"
    /\ Found(refresh[t].token)
    /\ refresh' = [refresh EXCEPT ![t].pc = "selected"]
    /\ UNCHANGED <<layout, memory, storage, call, orphans, server, history>>

AnswerRefresh(t) ==
    /\ refresh[t] # None
    /\ \/ \E new \in Sids :
             /\ refresh[t].pc = "selected"
             /\ Rotate(refresh[t].token, new)
             /\ refresh' = [refresh EXCEPT ![t] = [@ EXCEPT !.pc = "ok", !.new = new]]
       \/ /\ refresh[t].pc \in {"sent", "selected"}
          /\ Refuse(refresh[t].token, refresh[t].pc)
          /\ refresh' = [refresh EXCEPT ![t].pc = "failed"]
    /\ UNCHANGED <<layout, memory, storage, call, orphans, history>>

\* An orphan stands for any number of such requests, for a page can be reloaded
\* again and again: it stays when one of them has gone on.
SelectOrphan(o) ==
    /\ o \in orphans /\ o.pc = "sent"
    /\ Found(o.token)
    /\ orphans' = orphans \cup {[o EXCEPT !.pc = "selected"]}
    /\ UNCHANGED <<client, server, history>>

AnswerOrphan(o) ==
    /\ o \in orphans
    /\ \/ o.pc = "selected" /\ \E new \in Sids : Rotate(o.token, new)
       \/ Refuse(o.token, o.pc)
    /\ UNCHANGED <<client, orphans, history>>

AccessExpires(s) ==
    /\ status[s] # "unissued" /\ s \notin expired
    /\ expired' = expired \cup {s}
    /\ UNCHANGED <<client, orphans, status, family, owner, rotated, refused, locked,
                   history>>

-----------------------------------------------------------------------------
(***************************************************************************)
(* The response interceptor.                                               *)
(***************************************************************************)

\* mutation: each 401 begins a refresh of its own
PerformRefresh_Always(t) ==
    /\ refresh' = [refresh EXCEPT ![t] =
                       [token |-> Tokens(t), pc |-> "sent", new |-> None]]
    /\ orphans' = orphans \cup Pending(t)

\* if (!refreshPromise) refreshPromise = performRefresh()
PerformRefresh(t) ==
    /\ refresh' = IF refresh[t] # None THEN refresh
                  ELSE [refresh EXCEPT ![t] =
                            [token |-> Tokens(t), pc |-> "sent", new |-> None]]
    /\ UNCHANGED orphans

\* mutation: performRefresh posts whatever the store holds
Unauthorized_Unchecked(t, c) ==
    /\ call[t][c].pc = "unauthorized" /\ ~ call[t][c].retry
    /\ call' = [call EXCEPT ![t][c] = [@ EXCEPT !.retry = TRUE, !.pc = "waiting"]]
    /\ PerformRefresh(t)
    /\ UNCHANGED <<layout, memory, storage, server, history>>

\* The first 401 of a call makes it wait for the refresh in flight, or for one it
\* begins.
Unauthorized(t, c) ==
    /\ call[t][c].pc = "unauthorized" /\ ~ call[t][c].retry
    /\ Tokens(t) # None \/ refresh[t] # None
    /\ call' = [call EXCEPT ![t][c] = [@ EXCEPT !.retry = TRUE, !.pc = "waiting"]]
    /\ PerformRefresh(t)
    /\ UNCHANGED <<layout, memory, storage, server, history>>

\* Nothing to refresh with: performRefresh gives null, the tab goes to /login.
NoRefreshToken(t, c) ==
    /\ call[t][c].pc = "unauthorized" /\ ~ call[t][c].retry
    /\ Tokens(t) = None /\ refresh[t] = None
    /\ Load(t)

\* mutation: the repeated call keeps the token it was made with
RetriedWith_Old(k, new) == k.token

RetriedWith(k, new) == new

\* performRefresh has its answer: the tokens are stored, and every call that waits
\* is made again; or the store is cleared and the tab goes to /login.
Refreshed(t) ==
    LET new == refresh[t].new IN
    /\ refresh[t] # None /\ refresh[t].pc = "ok"
    /\ SetTokens(t, new)
    /\ call' = [call EXCEPT ![t] = [c \in Calls |->
           LET k == call[t][c] IN
           IF k.pc = "waiting"
           THEN [k EXCEPT !.pc = "sent", !.token = RetriedWith(k, new)]
           ELSE [k EXCEPT !.crossed = k.op = "logout"]]]
    /\ refresh' = [refresh EXCEPT ![t] = None]
    /\ overtaken' = (overtaken \/ Replaced(t, new))
    /\ UNCHANGED <<layout, orphans, server, strays>>

\* The refresh is refused; or a network error, a 429 or a 5xx comes for an answer,
\* whether the server has rotated the session, will rotate it yet, or never does.
NotRefreshed(t) ==
    /\ refresh[t] # None
    /\ Clear(t)
    /\ call' = [call EXCEPT ![t] = [c \in Calls |-> Idle]]
    /\ refresh' = [refresh EXCEPT ![t] = None]
    /\ orphans' \in {orphans, orphans \cup Pending(t)}
    /\ strays' = IF refresh[t].pc = "failed" THEN strays
                 ELSE strays \cup {refresh[t].token}
    /\ UNCHANGED <<layout, server, overtaken>>

-----------------------------------------------------------------------------
(***************************************************************************)
(* What the hooks do with answers and errors.                              *)
(***************************************************************************)
Settled(t, c) == call' = [call EXCEPT ![t][c] = Idle]

\* qc.clear() drops the queries: a profile still on its way is not stored.
Forgotten(t, c) ==
    call' = [call EXCEPT ![t] = [d \in Calls |->
        IF d = c THEN Idle
        ELSE IF call[t][d].op = "me" THEN [call[t][d] EXCEPT !.op = "query"]
        ELSE call[t][d]]]

ProfileDone(t, c) ==
    /\ call[t][c].op \in {"me", "login_me"} /\ call[t][c].pc = "ok"
    /\ SetUser(t, call[t][c].result)
    /\ Settled(t, c)
    /\ overtaken' = (overtaken \/ Replaced(t, call[t][c].token))
    /\ UNCHANGED <<layout, refresh, orphans, server, strays>>

\* useLogin goes on to ask for the profile with the new token.
LoginDone(t, c) ==
    LET s == call[t][c].new IN
    /\ call[t][c].op = "login" /\ call[t][c].pc = "ok"
    /\ SetTokens(t, s)
    /\ call' = [call EXCEPT ![t] = [d \in Calls |->
           IF d = c THEN [Idle EXCEPT !.op = "login_me", !.pc = "sent", !.token = s]
           ELSE [call[t][d] EXCEPT !.crossed = call[t][d].op = "logout"]]]
    /\ overtaken' = (overtaken \/ Tokens(t) # None)
    /\ UNCHANGED <<layout, refresh, orphans, server, strays>>

\* No answer, from a server that has handled the request or not; or a second 401.
Fails(t, c) ==
    \/ call[t][c].pc \in {"sent", "ok"}
    \/ call[t][c].pc = "unauthorized" /\ call[t][c].retry

\* useLogout clears whatever the answer, useLogoutAll only after a good one.
SignedOut(t, c) ==
    /\ \/ call[t][c].op = "logout" /\ (call[t][c].pc = "ok" \/ Fails(t, c))
       \/ call[t][c].op = "logout_all" /\ call[t][c].pc = "ok"
    /\ Clear(t)
    /\ Forgotten(t, c)
    /\ UNCHANGED <<layout, refresh, orphans, server, history>>

Rejected(t, c) ==
    /\ call[t][c].op # "logout"
    /\ Fails(t, c)
    /\ Settled(t, c)
    /\ UNCHANGED <<layout, memory, storage, refresh, orphans, server, history>>

-----------------------------------------------------------------------------
UserActs(t, c) ==
    \/ Me(t, c) \/ Query(t, c) \/ Logout(t, c) \/ LogoutAll(t, c)
    \/ ChangePassword(t, c) \/ Login(t, c)

ServerAnswers(t, c) ==
    \/ AnswerLogin(t, c) \/ AnswerMe(t, c) \/ AnswerQuery(t, c) \/ AnswerLogout(t, c)
    \/ AnswerLogoutAll(t, c) \/ AnswerChangePassword(t, c) \/ AnswerUnauthorized(t, c)

TabContinues(t, c) ==
    \/ Unauthorized(t, c) \/ NoRefreshToken(t, c)
    \/ ProfileDone(t, c) \/ LoginDone(t, c)
    \/ SignedOut(t, c) \/ Rejected(t, c)

RefreshSettles(t) ==
    SelectRefresh(t) \/ AnswerRefresh(t) \/ Refreshed(t) \/ NotRefreshed(t)

Next ==
    \/ \E t \in Tabs :
          \/ Load(t)
          \/ RefreshSettles(t)
          \/ \E c \in Calls : UserActs(t, c) \/ ServerAnswers(t, c) \/ TabContinues(t, c)
    \/ \E o \in orphans : SelectOrphan(o) \/ AnswerOrphan(o)
    \/ \E s \in Sids : AccessExpires(s)

Spec == Init /\ [][Next]_vars

-----------------------------------------------------------------------------
\* The server treats a tab's session as a replay because it has rotated it, or
\* rotates it a second time, only if no page got the answer of that rotation or two
\* tabs held the session: one tab whose answers arrive never sets off replay
\* detection and never forks its family, however many of its calls fail at a time.
HonestReplays ==
    [][\A t \in Tabs : AnswerRefresh(t) /\ refresh[t].token \in rotated
                       => refresh[t].token \in strays]_vars

\* The name a tab shows is the owner of the tokens it uses, and no name is left
\* without tokens, unless an answer was stored over another sign-in or a sign-out.
IdentityMatches ==
    overtaken \/ \A t \in Tabs : memory[t].user # None =>
                     Tokens(t) # None /\ owner[Tokens(t)] = memory[t].user

\* A sign-out that the network does not fail closes the session of the tab, also
\* when the access token had expired: then it is refreshed first.  The exceptions
\* are tokens that change under the sign-out (a refresh for another call, or a
\* second sign-in that a repeated sign-out wipes) and a token that expires again.
SignOutClosesSession ==
    [][\A t \in Tabs, c \in Calls :
          /\ SignedOut(t, c) /\ call[t][c].op = "logout"
          /\ call[t][c].pc # "sent" /\ ~ call[t][c].crossed
          /\ Tokens(t) # None /\ status[Tokens(t)] = "live"
          => Tokens(t) \in expired]_vars

=============================================================================
