-------------------------- MODULE UiSessionProofs --------------------------
(***************************************************************************)
(* Proofs about UiSession, for any tabs, calls, users and layouts and any  *)
(* bound on the sessions issued.                                           *)
(***************************************************************************)
EXTENDS UiSession, TLAPS

-----------------------------------------------------------------------------
(***************************************************************************)
(* The rows of the server.                                                 *)
(***************************************************************************)
Issued(s) == status[s] # "unissued"

Statuses == {"unissued", "live", "revoked", "deleted"}
Closed == {"revoked", "deleted"}

RowsTyped ==
    /\ status \in [Sids -> Statuses]
    /\ family \in [Sids -> Sids \cup {None}]
    /\ owner \in [Sids -> Users \cup {None}]
    /\ rotated \subseteq Sids

\* Sessions are issued in order; each names an older or equal one as its family and
\* has an owner.  Only issued ones are rotated.
RowsRooted ==
    \A s \in Sids :
        IF Issued(s)
        THEN /\ family[s] \in Sids /\ family[s] <= s /\ owner[s] \in Users
             /\ \A r \in Sids : r < s => Issued(r)
        ELSE family[s] = None /\ owner[s] = None /\ s \notin rotated

\* A family has one owner.
FamiliesOwned ==
    \A r, s \in Sids :
        Issued(r) /\ Issued(s) /\ family[r] = family[s] => owner[r] = owner[s]

RowInv == RowsTyped /\ RowsRooted /\ FamiliesOwned

\* What no step undoes.
RowsKept ==
    \A s \in Sids :
        /\ Issued(s) => Issued(s)' /\ family'[s] = family[s] /\ owner'[s] = owner[s]
        /\ status[s] \in Closed => status'[s] \in Closed

\* Two accounts for the same set of sessions issued.
SameFamilies == family' = family /\ owner' = owner /\ rotated' = rotated

\* The rows are as before but for some that were revoked or deleted.
RowsClosed ==
    /\ SameFamilies
    /\ status' \in [Sids -> Statuses]
    /\ \A s \in Sids :
          status'[s] = status[s] \/ (Issued(s) /\ status'[s] \in Closed)

LEMMA ClosingKeepsRows == ASSUME RowInv, RowsClosed PROVE RowInv' /\ RowsKept
  <1> USE NoneAssumption DEF RowsClosed, SameFamilies, RowInv, Issued, Sids, Closed
  <1>1. RowsTyped' /\ RowsRooted' /\ FamiliesOwned'
    BY DEF RowsTyped, RowsRooted, FamiliesOwned
  <1>2. RowsKept
    BY DEF RowsKept
  <1>3. QED
    BY <1>1, <1>2

LEMMA RevokingCloses ==
    ASSUME RowInv, NEW S, status' = Revoking(S), SameFamilies PROVE RowsClosed
  BY DEF Revoking, RowsClosed, RowInv, RowsTyped, Statuses, Closed, Issued

\* Rows that have an owner are issued, so that deleting those of an owner closes them.
LEMMA DeletingCloses ==
    ASSUME RowInv, NEW u \in Users, SameFamilies,
           status' = [r \in Sids |-> IF owner[r] = u THEN "deleted" ELSE status[r]]
    PROVE  RowsClosed
  BY NoneAssumption
     DEF RowsClosed, RowInv, RowsTyped, RowsRooted, Statuses, Closed, Issued

\* A new session is newer than every issued one, and no family is named after it.
LEMMA UnissuedIsNew ==
    ASSUME RowInv, NEW n \in Sids, Unissued(n), NEW s \in Sids, Issued(s)
    PROVE  s < n /\ family[s] # n /\ family[s] \in Sids /\ owner[s] \in Users
  <1> USE DEF RowInv, Issued, Sids, Unissued, RowsRooted
  <1>1. s # n
    OBVIOUS
  <1>2. ~ (n < s)
    OBVIOUS
  <1>3. family[s] \in Sids /\ family[s] <= s /\ owner[s] \in Users
    OBVIOUS
  <1>4. QED
    BY <1>1, <1>2, <1>3

\* What a login does to the rows.
Opened(n, u) ==
    /\ Unissued(n)
    /\ status' = [status EXCEPT ![n] = "live"]
    /\ family' = [family EXCEPT ![n] = n]
    /\ owner' = [owner EXCEPT ![n] = u]
    /\ rotated' = rotated

LEMMA OpeningKeepsRows ==
    ASSUME RowInv, NEW n \in Sids, NEW u \in Users, Opened(n, u)
    PROVE  /\ RowInv' /\ RowsKept
           /\ Issued(n)' /\ ~ Issued(n) /\ n \notin rotated
  <1> USE NoneAssumption DEF Statuses, Closed
  <1>1. \A s \in Sids : Issued(s) =>
            s < n /\ family[s] # n /\ family[s] \in Sids /\ owner[s] \in Users
    BY UnissuedIsNew DEF Opened
  <1>2. RowsTyped'
    BY DEF RowInv, RowsTyped, Opened
  <1>3. RowsKept /\ Issued(n)' /\ ~ Issued(n) /\ n \notin rotated
    BY <1>1 DEF RowsKept, Issued, Opened, RowInv, RowsTyped, RowsRooted, Unissued, Sids
  <1>4. \A s \in Sids : Issued(s)' <=> s = n \/ Issued(s)
    BY DEF Issued, Opened, RowInv, RowsTyped, Unissued
  <1>5. RowsRooted'
    BY <1>1, <1>4 DEF RowsRooted, Opened, RowInv, RowsTyped, Issued, Unissued, Sids
  <1>6. FamiliesOwned'
    BY <1>1, <1>4 DEF FamiliesOwned, Opened, RowInv, RowsTyped
  <1>7. QED
    BY <1>2, <1>3, <1>5, <1>6 DEF RowInv

\* What a rotation does to the rows.
LEMMA RotatingKeepsRows ==
    ASSUME RowInv, NEW s \in Sids, NEW n \in Sids, Rotate(s, n)
    PROVE  /\ RowInv' /\ RowsKept
           /\ Issued(s) /\ Issued(n)' /\ ~ Issued(n) /\ n \notin rotated'
           /\ family'[n] = family[s]
  <1> USE NoneAssumption DEF Statuses, Closed
  <1>0. Issued(s) /\ Unissued(n) /\ s # n
    BY DEF Rotate, Issued, RowInv, Unissued
  <1>1. \A r \in Sids : Issued(r) =>
            r < n /\ family[r] # n /\ family[r] \in Sids /\ owner[r] \in Users
    BY <1>0, UnissuedIsNew
  <1>2. RowsTyped'
    BY <1>0, <1>1 DEF RowInv, RowsTyped, Rotate
  <1>3. RowsKept /\ Issued(n)' /\ ~ Issued(n)
    BY <1>0, <1>1 DEF RowsKept, Issued, Rotate, RowInv, RowsTyped, Unissued, Sids
  <1>4. \A r \in Sids : Issued(r)' <=> r = n \/ Issued(r)
    BY <1>0 DEF Issued, Rotate, RowInv, RowsTyped, Unissued
  <1>5. RowsRooted'
    BY <1>0, <1>1, <1>4 DEF RowsRooted, Rotate, RowInv, RowsTyped, Issued, Unissued, Sids
  <1>6. FamiliesOwned'
    BY <1>0, <1>1, <1>4 DEF FamiliesOwned, Rotate, RowInv, RowsTyped
  <1>7. family'[n] = family[s] /\ n \notin rotated'
    BY <1>0, <1>3 DEF Rotate, RowInv, RowsTyped, RowsRooted
  <1>8. QED
    BY <1>0, <1>2, <1>3, <1>5, <1>6, <1>7 DEF RowInv

-----------------------------------------------------------------------------
(***************************************************************************)
(* The tabs: every session they name is issued, answers fit the calls.     *)
(***************************************************************************)
\* st, fam and ow stand for the rows: status, family and owner.
CallFits(k, st, ow) ==
    /\ k \in Call
    /\ k.token # None => st[k.token] # "unissued"
    /\ k.new # None => st[k.new] # "unissued" /\ k.op = "login" /\ k.pc = "ok"
    /\ k.op = "login" /\ k.pc = "ok" => k.new # None
    /\ k.op \in {"me", "login_me"} /\ k.pc = "ok" =>
          k.token # None /\ k.result = ow[k.token]

CallsInv ==
    /\ call \in [Tabs -> [Calls -> Call]]
    /\ \A t \in Tabs, c \in Calls : CallFits(call[t][c], status, owner)

RefreshFits(x, st, fam) ==
    /\ x \in Refresh /\ st[x.token] # "unissued"
    /\ x.pc = "failed" => st[x.token] # "live"
    /\ IF x.pc = "ok"
       THEN x.new # None /\ st[x.new] # "unissued" /\ fam[x.new] = fam[x.token]
       ELSE x.new = None

RefreshInv ==
    /\ refresh \in [Tabs -> Refresh \cup {None}]
    /\ \A t \in Tabs : refresh[t] # None => RefreshFits(refresh[t], status, family)

Named(x, ow) == x.user # None => x.tokens # None /\ ow[x.tokens] = x.user

StoreInv ==
    /\ memory \in [Tabs -> Store] /\ storage \in Store
    /\ \A t \in Tabs : memory[t].tokens # None => status[memory[t].tokens] # "unissued"
    /\ storage.tokens # None => status[storage.tokens] # "unissued"
    /\ overtaken \/ (Named(storage, owner) /\ \A t \in Tabs : Named(memory[t], owner))

RestInv ==
    /\ layout \in Layouts
    /\ expired \subseteq Sids /\ refused \subseteq Sids /\ locked \subseteq Users
    /\ orphans \subseteq Orphan /\ \A o \in orphans : status[o.token] # "unissued"
    /\ strays \subseteq Sids /\ overtaken \in BOOLEAN

ClientInv == CallsInv /\ RefreshInv /\ StoreInv /\ RestInv

Inv == RowInv /\ ClientInv

LEMMA NoneIsNoSession == None \notin Sids /\ None \notin Users
  BY NoneAssumption DEF Sids

\* Rows only grow and close, so what was said of them stays true.
LEMMA CallStays ==
    ASSUME RowsKept, NEW k, CallFits(k, status, owner) PROVE CallFits(k, status', owner')
  BY DEF CallFits, RowsKept, Call, Issued

LEMMA RefreshStays ==
    ASSUME RowInv, RowsKept, NEW x, RefreshFits(x, status, family)
    PROVE  RefreshFits(x, status', family')
  <1>1. x.token \in Sids
    BY DEF RefreshFits, Refresh
  <1>2. x.pc = "failed" => status'[x.token] # "live"
    BY <1>1 DEF RefreshFits, RowsKept, Issued, Closed, RowInv, RowsTyped, Statuses
  <1>3. QED
    BY <1>1, <1>2 DEF RefreshFits, RowsKept, Refresh, Issued

LEMMA CallsUpdated ==
    ASSUME RowsKept, CallsInv, NEW t \in Tabs, NEW c \in Calls, NEW x,
           CallFits(x, status', owner'), call' = [call EXCEPT ![t][c] = x]
    PROVE  CallsInv'
  <1>1. x \in Call
    BY DEF CallFits
  <1>2. call' \in [Tabs -> [Calls -> Call]]
    BY <1>1 DEF CallsInv
  <1>3. ASSUME NEW u \in Tabs, NEW d \in Calls
        PROVE  CallFits(call'[u][d], status', owner')
    <2>1. CallFits(call[u][d], status', owner')
      BY CallStays DEF CallsInv
    <2>2. call'[u][d] = IF u = t /\ d = c THEN x ELSE call[u][d]
      BY DEF CallsInv
    <2>3. QED
      BY <2>1, <2>2
  <1>4. QED
    BY <1>2, <1>3 DEF CallsInv

LEMMA CallsUnchanged == ASSUME RowsKept, CallsInv, call' = call PROVE CallsInv'
  BY CallStays DEF CallsInv

LEMMA RefreshUpdated ==
    ASSUME RowInv, RowsKept, RefreshInv, NEW t \in Tabs, NEW x,
           x = None \/ RefreshFits(x, status', family'),
           refresh' = [refresh EXCEPT ![t] = x]
    PROVE  RefreshInv'
  <1>1. x \in Refresh \cup {None}
    BY DEF RefreshFits
  <1>2. refresh' \in [Tabs -> Refresh \cup {None}]
    BY <1>1 DEF RefreshInv
  <1>3. ASSUME NEW u \in Tabs, refresh'[u] # None
        PROVE  RefreshFits(refresh'[u], status', family')
    <2>1. refresh[u] # None => RefreshFits(refresh[u], status', family')
      BY RefreshStays DEF RefreshInv
    <2>2. refresh'[u] = IF u = t THEN x ELSE refresh[u]
      BY DEF RefreshInv
    <2>3. QED
      BY <1>3, <2>1, <2>2
  <1>4. QED
    BY <1>2, <1>3 DEF RefreshInv

LEMMA RefreshUnchanged ==
    ASSUME RowInv, RowsKept, RefreshInv, refresh' = refresh PROVE RefreshInv'
  BY RefreshStays DEF RefreshInv

LEMMA StoresUnchanged ==
    ASSUME RowsKept, StoreInv, UNCHANGED <<memory, storage, overtaken>> PROVE StoreInv'
  BY DEF StoreInv, RowsKept, Named, Store, Issued

\* One tab writes its store.
LEMMA StoreWritten ==
    ASSUME RowsKept, StoreInv, NEW t \in Tabs, NEW x \in Store, Set(t, x),
           x.tokens # None => status'[x.tokens] # "unissued",
           overtaken => overtaken', overtaken' \/ Named(x, owner')
    PROVE  StoreInv'
  <1>1. memory' \in [Tabs -> Store] /\ storage' = x
    BY DEF StoreInv, Set
  <1>2. \A u \in Tabs : memory'[u] = IF u = t THEN x ELSE memory[u]
    BY DEF StoreInv, Set
  <1>3. \A u \in Tabs : memory'[u].tokens # None => status'[memory'[u].tokens] # "unissued"
    BY <1>2 DEF StoreInv, RowsKept, Store, Issued
  <1>4. overtaken' \/ \A u \in Tabs : Named(memory'[u], owner')
    BY <1>2 DEF StoreInv, RowsKept, Store, Named, Issued
  <1>5. QED
    BY <1>1, <1>3, <1>4 DEF StoreInv

-----------------------------------------------------------------------------
(***************************************************************************)
(* Each step keeps these invariants.                                       *)
(***************************************************************************)
\* What a step may do to the rows.
RowStep ==
    \/ RowsClosed
    \/ \E n \in Sids, u \in Users : Opened(n, u)
    \/ \E s, n \in Sids : Rotate(s, n)

LEMMA RowStepKeeps == ASSUME RowInv, RowStep PROVE RowInv' /\ RowsKept
  <1>1. CASE RowsClosed
    BY <1>1, ClosingKeepsRows
  <1>2. ASSUME NEW n \in Sids, NEW u \in Users, Opened(n, u) PROVE RowInv' /\ RowsKept
    BY <1>2, OpeningKeepsRows
  <1>3. ASSUME NEW s \in Sids, NEW n \in Sids, Rotate(s, n) PROVE RowInv' /\ RowsKept
    BY <1>3, RotatingKeepsRows
  <1>4. QED
    BY <1>1, <1>2, <1>3 DEF RowStep

LEMMA UnchangedRows ==
    ASSUME RowInv, UNCHANGED <<status, family, owner, rotated>> PROVE RowsClosed
  BY DEF RowsClosed, SameFamilies, RowInv, RowsTyped

LEMMA IdleFits == CallFits(Idle, status', owner')
  BY NoneIsNoSession DEF CallFits, Idle, Call, Operations, Acts

LEMMA InitInv == Init => Inv
  <1> SUFFICES ASSUME Init PROVE Inv
    OBVIOUS
  <1> USE NoneAssumption, BoundAssumption DEF Init
  <1>1. RowInv
    BY DEF RowInv, RowsTyped, RowsRooted, FamiliesOwned, Issued, Statuses
  <1>2. CallsInv
    BY DEF CallsInv, CallFits, Idle, Call, Operations, Acts
  <1>3. RefreshInv /\ StoreInv /\ RestInv
    BY DEF RefreshInv, StoreInv, RestInv, Named, Empty, Store
  <1>4. QED
    BY <1>1, <1>2, <1>3 DEF Inv, ClientInv

\* A refresh no page waits for any more joins the orphans.
LEMMA PendingFits ==
    ASSUME RefreshInv, NEW t \in Tabs
    PROVE  /\ Pending(t) \subseteq Orphan
           /\ \A o \in Pending(t) : refresh[t] # None /\ o.token = refresh[t].token
                                    /\ status[o.token] # "unissued"
  BY DEF Pending, RefreshInv, RefreshFits, Refresh, Orphan

\* The browser loads a page (NoRefreshToken also does).
LEMMA LoadKeeps ==
    ASSUME Inv, NEW t \in Tabs, Load(t) PROVE RowStep /\ Inv'
  <1> USE DEF Inv, ClientInv, Load, server
  <1>1. RowStep /\ RowInv' /\ RowsKept
    BY UnchangedRows, RowStepKeeps DEF RowStep
  <1>2. CallsInv'
    <2>1. call' \in [Tabs -> [Calls -> Call]]
      BY IdleFits DEF CallsInv, CallFits
    <2>2. \A u \in Tabs, c \in Calls : call'[u][c] = IF u = t THEN Idle ELSE call[u][c]
      BY DEF CallsInv
    <2>3. QED
      BY <1>1, <2>1, <2>2, IdleFits, CallStays DEF CallsInv
  <1>3. RefreshInv'
    BY <1>1, RefreshUpdated
  <1>4. StoreInv'
    BY <1>1 DEF StoreInv, RowsKept, Issued, Store, Named
  <1>5. RestInv'
    BY PendingFits DEF RestInv
  <1>6. QED
    BY <1>1, <1>2, <1>3, <1>4, <1>5

\* Steps of one call that touch neither stores nor refreshes.
OneCall(t, c, x) ==
    /\ call' = [call EXCEPT ![t][c] = x]
    /\ UNCHANGED <<layout, memory, storage, refresh, orphans, strays, overtaken>>
    /\ expired' \subseteq Sids /\ refused' \subseteq Sids /\ locked' \subseteq Users

LEMMA OneCallKeeps ==
    ASSUME Inv, RowStep, NEW t \in Tabs, NEW c \in Calls, NEW x, OneCall(t, c, x),
           CallFits(x, status', owner')
    PROVE  Inv'
  <1> USE DEF Inv, ClientInv, OneCall
  <1>1. RowInv' /\ RowsKept
    BY RowStepKeeps
  <1>2. CallsInv'
    BY <1>1, CallsUpdated
  <1>3. RefreshInv' /\ StoreInv'
    BY <1>1, RefreshUnchanged, StoresUnchanged
  <1>4. RestInv'
    BY <1>1 DEF RestInv, RowsKept, Issued, Orphan
  <1>5. QED
    BY <1>1, <1>2, <1>3, <1>4

LEMMA SendKeeps ==
    ASSUME Inv, NEW t \in Tabs, NEW c \in Calls, NEW op \in Acts, Send(t, c, op)
    PROVE  RowStep /\ Inv'
  <1> DEFINE x == [Idle EXCEPT !.op = op, !.pc = "sent", !.token = Tokens(t)]
  <1> USE DEF Inv, ClientInv, Send, server, history
  <1>1. RowStep
    BY UnchangedRows DEF RowStep
  <1>2. CallFits(x, status', owner')
    BY NoneIsNoSession DEF CallFits, Idle, Call, Tokens, StoreInv, Store, Operations
  <1>3. OneCall(t, c, x)
    BY DEF OneCall, RestInv
  <1>4. QED
    BY <1>1, <1>2, <1>3, OneCallKeeps

\* A call gets an answer that changes no row.
LEMMA AnswersKeep ==
    ASSUME Inv, NEW t \in Tabs, NEW c \in Calls,
           \/ AnswerMe(t, c) \/ AnswerQuery(t, c) \/ AnswerUnauthorized(t, c)
           \/ Rejected(t, c)
    PROVE  RowStep /\ Inv'
  <1> USE DEF Inv, ClientInv
  <1> DEFINE k == call[t][c]
  <1>0. CallFits(k, status, owner)
    BY DEF CallsInv
  <1>1. CASE AnswerMe(t, c)
    <2> DEFINE x == [k EXCEPT !.pc = "ok", !.result = owner[k.token]]
    <2>1. RowStep
      BY <1>1, UnchangedRows DEF AnswerMe, server, RowStep
    <2>2. owner[k.token] \in Users
      BY <1>0, <1>1 DEF AnswerMe, Accepted, CallFits, Call, RowInv, RowsRooted, Issued
    <2>3. CallFits(x, status', owner')
      BY <1>0, <1>1, <2>2 DEF AnswerMe, Accepted, server, CallFits, Call
    <2>4. OneCall(t, c, x)
      BY <1>1 DEF OneCall, RestInv, AnswerMe, ProfileOf, server, history
    <2>5. QED
      BY <2>1, <2>3, <2>4, OneCallKeeps
  <1>2. CASE AnswerQuery(t, c)
    BY <1>2, UnchangedRows, IdleFits, OneCallKeeps
       DEF AnswerQuery, server, history, RowStep, OneCall, RestInv
  <1>3. CASE AnswerUnauthorized(t, c)
    <2> DEFINE x == [k EXCEPT !.pc = "unauthorized"]
    <2>1. RowStep
      BY <1>3, UnchangedRows DEF AnswerUnauthorized, server, RowStep
    <2>2. CallFits(x, status', owner')
      BY <1>0, <1>3 DEF AnswerUnauthorized, server, CallFits, Call
    <2>3. OneCall(t, c, x)
      BY <1>3 DEF OneCall, RestInv, AnswerUnauthorized, Answered, server, history
    <2>4. QED
      BY <2>1, <2>2, <2>3, OneCallKeeps
  <1>4. CASE Rejected(t, c)
    BY <1>4, UnchangedRows, IdleFits, OneCallKeeps
       DEF Rejected, Settled, server, history, RowStep, OneCall, RestInv
  <1>5. QED
    BY <1>1, <1>2, <1>3, <1>4

LEMMA AnswerLoginKeeps ==
    ASSUME Inv, NEW t \in Tabs, NEW c \in Calls, AnswerLogin(t, c)
    PROVE  RowStep /\ Inv'
  <1> USE DEF Inv, ClientInv
  <1> DEFINE k == call[t][c]
  <1>1. PICK s \in Sids, u \in Users :
            /\ Opened(s, u)
            /\ call' = [call EXCEPT ![t][c] = [@ EXCEPT !.pc = "ok", !.new = s]]
    BY DEF AnswerLogin, Opened
  <1> DEFINE x == [k EXCEPT !.pc = "ok", !.new = s]
  <1>2. RowStep /\ RowsKept /\ Issued(s)'
    BY <1>1, OpeningKeepsRows DEF RowStep
  <1>3. CallFits(k, status', owner')
    BY <1>2, CallStays DEF CallsInv
  <1>4. CallFits(x, status', owner')
    BY <1>2, <1>3, NoneIsNoSession DEF AnswerLogin, CallFits, Call, Issued
  <1>5. call' = [call EXCEPT ![t][c] = x]
    BY <1>1 DEF CallsInv
  <1>6. OneCall(t, c, x)
    BY <1>5 DEF OneCall, RestInv, AnswerLogin, history
  <1>7. QED
    BY <1>2, <1>4, <1>6, OneCallKeeps

\* Signing out, everywhere or not, and a change of the password close sessions.
LEMMA AnswerClosingKeeps ==
    ASSUME Inv, NEW t \in Tabs, NEW c \in Calls,
           AnswerLogout(t, c) \/ AnswerLogoutAll(t, c) \/ AnswerChangePassword(t, c)
    PROVE  RowStep /\ Inv'
  <1> USE DEF Inv, ClientInv
  <1> DEFINE k == call[t][c]
             s == k.token
  <1>0. s \in Sids /\ owner[s] \in Users
    BY DEF AnswerLogout, AnswerLogoutAll, AnswerChangePassword, Accepted, CallsInv,
           CallFits, Call, RowInv, RowsRooted, Issued
  <1>1. RowStep
    <2>1. CASE AnswerLogout(t, c) \/ AnswerLogoutAll(t, c)
      BY <2>1, RevokingCloses DEF AnswerLogout, AnswerLogoutAll, RowStep, SameFamilies
    <2>2. CASE AnswerChangePassword(t, c)
      BY <1>0, <2>2, DeletingCloses DEF AnswerChangePassword, RowStep, SameFamilies
    <2>3. QED
      BY <2>1, <2>2
  <1>2. RowsKept
    BY <1>1, RowStepKeeps
  <1>3. CallFits(k, status', owner')
    BY <1>2, CallStays DEF CallsInv
  <1>5. CASE AnswerLogout(t, c) \/ AnswerLogoutAll(t, c)
    <2> DEFINE x == [k EXCEPT !.pc = "ok"]
    <2>1. CallFits(x, status', owner')
      BY <1>3, <1>5 DEF AnswerLogout, AnswerLogoutAll, CallFits, Call
    <2>2. OneCall(t, c, x)
      BY <1>0, <1>5 DEF OneCall, RestInv, AnswerLogout, AnswerLogoutAll, Answered, history
    <2>3. QED
      BY <1>1, <2>1, <2>2, OneCallKeeps
  <1>6. CASE AnswerChangePassword(t, c)
    BY <1>1, <1>6, IdleFits, OneCallKeeps
       DEF OneCall, RestInv, AnswerChangePassword, history
  <1>7. QED
    BY <1>5, <1>6

\* A refusal closes rows, or none.
LEMMA RefusalCloses ==
    ASSUME Inv, NEW s \in Sids, NEW pc, Refuse(s, pc)
    PROVE  /\ RowsClosed /\ status[s] # "live" /\ UNCHANGED locked
           /\ expired' \subseteq Sids /\ refused' \subseteq Sids
  <1>1. CASE Replay(s)
    BY <1>1, RevokingCloses DEF Replay, SameFamilies, Inv, ClientInv, RestInv
  <1>2. CASE Missing(s)
    BY <1>2, UnchangedRows DEF Missing, server, Inv, ClientInv, RestInv
  <1>3. QED
    BY <1>1, <1>2 DEF Refuse

LEMMA SelectRefreshKeeps ==
    ASSUME Inv, NEW t \in Tabs, SelectRefresh(t) PROVE RowStep /\ Inv'
  <1> USE DEF Inv, ClientInv, SelectRefresh, server, history
  <1> DEFINE y == [refresh[t] EXCEPT !.pc = "selected"]
  <1>1. RowStep /\ RowInv' /\ RowsKept
    BY UnchangedRows, RowStepKeeps DEF RowStep
  <1>2. RefreshFits(y, status', family')
    BY DEF RefreshInv, RefreshFits, Refresh
  <1>3. RefreshInv'
    BY <1>1, <1>2, RefreshUpdated
  <1>4. CallsInv' /\ StoreInv' /\ RestInv'
    BY <1>1, CallsUnchanged, StoresUnchanged DEF RestInv
  <1>5. QED
    BY <1>1, <1>3, <1>4

LEMMA AnswerRefreshKeeps ==
    ASSUME Inv, NEW t \in Tabs, AnswerRefresh(t) PROVE RowStep /\ Inv'
  <1> USE DEF Inv, ClientInv
  <1> DEFINE x == refresh[t]
             s == refresh[t].token
  <1>0. x \in Refresh /\ RefreshFits(x, status, family) /\ s \in Sids
    BY DEF AnswerRefresh, RefreshInv, Refresh
  <1>1. ASSUME NEW n \in Sids, Rotate(s, n),
               refresh' = [refresh EXCEPT ![t] = [@ EXCEPT !.pc = "ok", !.new = n]]
        PROVE  RowStep /\ Inv'
    <2> DEFINE y == [x EXCEPT !.pc = "ok", !.new = n]
    <2>1. RowStep
      BY <1>0, <1>1 DEF RowStep
    <2>2. RowInv' /\ RowsKept /\ Issued(n)' /\ family'[n] = family[s] /\ Issued(s)
      BY <1>0, <1>1, RotatingKeepsRows
    <2>3. RefreshFits(y, status', family')
      BY <1>0, <2>2, NoneIsNoSession DEF RefreshFits, Refresh, RowsKept, Issued
    <2>4. RefreshInv'
      BY <1>1, <2>2, <2>3, RefreshUpdated
    <2>5. CallsInv' /\ StoreInv' /\ RestInv'
      BY <1>1, <2>2, CallsUnchanged, StoresUnchanged
         DEF AnswerRefresh, history, RestInv, RowsKept, Rotate, Issued, Orphan
    <2>6. QED
      BY <2>1, <2>2, <2>4, <2>5
  <1>2. ASSUME Refuse(s, x.pc), x.pc \in {"sent", "selected"},
               refresh' = [refresh EXCEPT ![t].pc = "failed"]
        PROVE  RowStep /\ Inv'
    <2> DEFINE y == [x EXCEPT !.pc = "failed"]
    <2>1. /\ RowsClosed /\ status[s] # "live" /\ UNCHANGED locked
          /\ expired' \subseteq Sids /\ refused' \subseteq Sids
      BY <1>0, <1>2, RefusalCloses
    <2>2. RowStep /\ RowInv' /\ RowsKept
      BY <2>1, RowStepKeeps DEF RowStep
    <2>3. RefreshFits(y, status', family')
      BY <1>0, <1>2, <2>1, <2>2 DEF RefreshFits, Refresh, RowsKept, RowsClosed, Closed, Issued
    <2>4. RefreshInv'
      BY <1>2, <2>2, <2>3, RefreshUpdated
    <2>5. CallsInv' /\ StoreInv' /\ RestInv'
      BY <2>1, <2>2, CallsUnchanged, StoresUnchanged
         DEF AnswerRefresh, history, RestInv, RowsKept, Issued, Orphan
    <2>6. QED
      BY <2>2, <2>4, <2>5
  <1>3. QED
    BY <1>1, <1>2 DEF AnswerRefresh

LEMMA SelectOrphanKeeps ==
    ASSUME Inv, NEW o \in orphans, SelectOrphan(o) PROVE RowStep /\ Inv'
  <1> USE DEF Inv, ClientInv, SelectOrphan, client, server, history
  <1>1. RowStep /\ RowInv' /\ RowsKept
    BY UnchangedRows, RowStepKeeps DEF RowStep
  <1>2. CallsInv' /\ RefreshInv' /\ StoreInv'
    BY <1>1, CallsUnchanged, RefreshUnchanged, StoresUnchanged
  <1>3. RestInv'
    BY DEF RestInv, Orphan
  <1>4. QED
    BY <1>1, <1>2, <1>3

LEMMA AnswerOrphanKeeps ==
    ASSUME Inv, NEW o \in orphans, AnswerOrphan(o) PROVE RowStep /\ Inv'
  <1> USE DEF Inv, ClientInv
  <1> DEFINE s == o.token
  <1>0. s \in Sids
    BY DEF RestInv, Orphan
  <1>1. /\ RowStep /\ locked' \subseteq Users
        /\ expired' \subseteq Sids /\ refused' \subseteq Sids
    <2>1. ASSUME NEW n \in Sids, Rotate(s, n)
          PROVE  RowStep /\ UNCHANGED <<locked, expired, refused>>
      BY <1>0, <2>1 DEF RowStep, Rotate
    <2>2. CASE Refuse(s, o.pc)
      BY <1>0, <2>2, RefusalCloses DEF RowStep, RestInv
    <2>3. QED
      BY <2>1, <2>2 DEF AnswerOrphan, RestInv
  <1>2. RowInv' /\ RowsKept
    BY <1>1, RowStepKeeps
  <1>3. CallsInv' /\ RefreshInv' /\ StoreInv'
    BY <1>2, CallsUnchanged, RefreshUnchanged, StoresUnchanged
       DEF AnswerOrphan, client, history
  <1>4. RestInv'
    BY <1>1, <1>2 DEF AnswerOrphan, client, history, RestInv, RowsKept, Issued, Orphan
  <1>5. QED
    BY <1>1, <1>2, <1>3, <1>4

LEMMA AccessExpiresKeeps ==
    ASSUME Inv, NEW s \in Sids, AccessExpires(s) PROVE RowStep /\ Inv'
  <1> USE DEF Inv, ClientInv, AccessExpires, client, history
  <1>1. RowStep /\ RowInv' /\ RowsKept
    BY UnchangedRows, RowStepKeeps DEF RowStep
  <1>2. CallsInv' /\ RefreshInv' /\ StoreInv' /\ RestInv'
    BY <1>1, CallsUnchanged, RefreshUnchanged, StoresUnchanged DEF RestInv
  <1>3. QED
    BY <1>1, <1>2

LEMMA UnauthorizedKeeps ==
    ASSUME Inv, NEW t \in Tabs, NEW c \in Calls, Unauthorized(t, c)
    PROVE  RowStep /\ Inv'
  <1> USE DEF Inv, ClientInv, Unauthorized, server, history
  <1> DEFINE k == call[t][c]
             x == [k EXCEPT !.retry = TRUE, !.pc = "waiting"]
             y == [token |-> Tokens(t), pc |-> "sent", new |-> None]
  <1>1. RowStep /\ RowInv' /\ RowsKept
    BY UnchangedRows, RowStepKeeps DEF RowStep
  <1>2. CallsInv'
    <2>1. CallFits(k, status, owner)
      BY DEF CallsInv
    <2>2. CallFits(x, status', owner')
      BY <2>1 DEF CallFits, Call
    <2>3. call' = [call EXCEPT ![t][c] = x]
      BY DEF CallsInv
    <2>4. QED
      BY <1>1, <2>2, <2>3, CallsUpdated
  <1>3. RefreshInv'
    <2>1. CASE refresh[t] # None
      BY <1>1, <2>1, RefreshUnchanged DEF PerformRefresh
    <2>2. CASE refresh[t] = None
      <3>1. RefreshFits(y, status', family')
        BY <2>2, NoneIsNoSession DEF RefreshFits, Refresh, StoreInv, Store, Tokens
      <3>2. QED
        BY <1>1, <2>2, <3>1, RefreshUpdated DEF PerformRefresh
    <2>3. QED
      BY <2>1, <2>2
  <1>4. StoreInv' /\ RestInv'
    BY <1>1, StoresUnchanged DEF RestInv, PerformRefresh
  <1>5. QED
    BY <1>1, <1>2, <1>3, <1>4

\* The answer of a refresh, good or not, is stored.
LEMMA RefreshedKeeps ==
    ASSUME Inv, NEW t \in Tabs, Refreshed(t) PROVE RowStep /\ Inv'
  <1> USE DEF Inv, ClientInv, Refreshed, server
  <1> DEFINE n == refresh[t].new
             m == [memory[t] EXCEPT !.tokens = n]
  <1>0. n \in Sids /\ Issued(n) /\ memory[t] \in Store
    BY DEF RefreshInv, RefreshFits, Refresh, StoreInv, Issued
  <1>1. RowStep /\ RowInv' /\ RowsKept
    BY UnchangedRows, RowStepKeeps DEF RowStep
  <1>2. CallsInv'
    <2>1. \A c \in Calls : CallFits(call[t][c], status, owner)
      BY DEF CallsInv
    <2>2. ASSUME NEW c \in Calls PROVE CallFits(call'[t][c], status', owner')
      <3> DEFINE k == call[t][c]
      <3>1. CallFits(k, status, owner)
        BY <2>1
      <3>2. k.pc = "waiting" => CallFits([k EXCEPT !.pc = "sent", !.token = n], status', owner')
        BY <1>0, <3>1 DEF CallFits, Call, Issued
      <3>3. CallFits([k EXCEPT !.crossed = k.op = "logout"], status', owner')
        BY <3>1 DEF CallFits, Call
      <3>4. call'[t][c] = IF k.pc = "waiting" THEN [k EXCEPT !.pc = "sent", !.token = n]
                          ELSE [k EXCEPT !.crossed = k.op = "logout"]
        BY DEF CallsInv, RetriedWith
      <3>5. QED
        BY <3>2, <3>3, <3>4
    <2>3. \A u \in Tabs \ {t}, c \in Calls : call'[u][c] = call[u][c]
      BY DEF CallsInv
    <2>4. call' \in [Tabs -> [Calls -> Call]]
      <3>1. call'[t] \in [Calls -> Call]
        BY <2>2 DEF CallsInv, CallFits
      <3>2. QED
        BY <3>1 DEF CallsInv
    <2>5. QED
      BY <2>2, <2>3, <2>4 DEF CallsInv
  <1>3. RefreshInv'
    BY <1>1, RefreshUpdated
  <1>4. StoreInv'
    <2>1. m \in Store /\ Set(t, m) /\ m.tokens = n /\ m.user = memory[t].user
      BY <1>0 DEF SetTokens, Store
    <2>2. ASSUME ~ overtaken' PROVE Named(m, owner')
      <3>1. Tokens(t) # None /\ family[Tokens(t)] = family[n] /\ Named(memory[t], owner)
        BY <2>2 DEF StoreInv, Replaced
      <3>2. Tokens(t) \in Sids /\ Issued(Tokens(t))
        BY <1>0, <3>1 DEF StoreInv, Tokens, Store, Issued
      <3>3. owner[Tokens(t)] = owner[n]
        BY <1>0, <3>1, <3>2 DEF RowInv, FamiliesOwned
      <3>4. QED
        BY <1>0, <2>1, <3>1, <3>3, NoneIsNoSession DEF Named, Tokens
    <2>3. QED
      BY <1>0, <1>1, <2>1, <2>2, StoreWritten DEF Issued
  <1>5. RestInv'
    BY DEF RestInv, Replaced
  <1>6. QED
    BY <1>1, <1>2, <1>3, <1>4, <1>5

LEMMA EmptyNamed == Empty \in Store /\ Empty.tokens = None /\ Named(Empty, owner')
  BY DEF Empty, Store, Named

LEMMA NotRefreshedKeeps ==
    ASSUME Inv, NEW t \in Tabs, NotRefreshed(t) PROVE RowStep /\ Inv'
  <1> USE DEF Inv, ClientInv, NotRefreshed, server
  <1>1. RowStep /\ RowInv' /\ RowsKept
    BY UnchangedRows, RowStepKeeps DEF RowStep
  <1>2. CallsInv'
    <2>1. call' \in [Tabs -> [Calls -> Call]]
      BY IdleFits DEF CallsInv, CallFits
    <2>2. \A u \in Tabs, c \in Calls : call'[u][c] = IF u = t THEN Idle ELSE call[u][c]
      BY DEF CallsInv
    <2>3. QED
      BY <1>1, <2>1, <2>2, IdleFits, CallStays DEF CallsInv
  <1>3. RefreshInv'
    BY <1>1, RefreshUpdated
  <1>4. StoreInv'
    BY <1>1, EmptyNamed, StoreWritten DEF Clear
  <1>5. RestInv'
    BY PendingFits DEF RestInv, RefreshInv, RefreshFits, Refresh
  <1>6. QED
    BY <1>1, <1>2, <1>3, <1>4, <1>5

LEMMA ProfileDoneKeeps ==
    ASSUME Inv, NEW t \in Tabs, NEW c \in Calls, ProfileDone(t, c)
    PROVE  RowStep /\ Inv'
  <1> USE DEF Inv, ClientInv, ProfileDone, server
  <1> DEFINE k == call[t][c]
             m == [memory[t] EXCEPT !.user = k.result]
  <1>0. /\ k \in Call /\ k.token \in Sids /\ Issued(k.token) /\ k.result = owner[k.token]
        /\ memory[t] \in Store /\ k.result \in Users
    BY DEF CallsInv, CallFits, Call, StoreInv, Issued, RowInv, RowsRooted
  <1>1. RowStep /\ RowInv' /\ RowsKept
    BY UnchangedRows, RowStepKeeps DEF RowStep
  <1>2. CallsInv'
    BY <1>1, IdleFits, CallsUpdated DEF Settled
  <1>3. RefreshInv'
    BY <1>1, RefreshUnchanged
  <1>4. StoreInv'
    <2>1. m \in Store /\ Set(t, m) /\ m.tokens = memory[t].tokens /\ m.user = k.result
      BY <1>0 DEF SetUser, Store
    <2>2. overtaken' \/ Named(m, owner')
      BY <1>0, <2>1 DEF Named, StoreInv, Replaced, Tokens, RowInv, FamiliesOwned, Issued,
         Store
    <2>3. QED
      BY <1>0, <1>1, <2>1, <2>2, StoreWritten DEF StoreInv
  <1>5. RestInv'
    BY DEF RestInv, Replaced
  <1>6. QED
    BY <1>1, <1>2, <1>3, <1>4, <1>5

LEMMA LoginDoneKeeps ==
    ASSUME Inv, NEW t \in Tabs, NEW c \in Calls, LoginDone(t, c)
    PROVE  RowStep /\ Inv'
  <1> USE DEF Inv, ClientInv, LoginDone, server
  <1> DEFINE s == call[t][c].new
             m == [memory[t] EXCEPT !.tokens = s]
             x == [Idle EXCEPT !.op = "login_me", !.pc = "sent", !.token = s]
  <1>0. s \in Sids /\ Issued(s) /\ memory[t] \in Store
    BY DEF CallsInv, CallFits, Call, StoreInv, Issued
  <1>1. RowStep /\ RowInv' /\ RowsKept
    BY UnchangedRows, RowStepKeeps DEF RowStep
  <1>2. CallsInv'
    <2>1. CallFits(x, status', owner')
      BY <1>0, NoneIsNoSession DEF CallFits, Idle, Call, Operations, Acts, Issued
    <2>2. ASSUME NEW d \in Calls PROVE CallFits(call'[t][d], status', owner')
      <3> DEFINE k == call[t][d]
      <3>1. call'[t][d] = IF d = c THEN x ELSE [k EXCEPT !.crossed = k.op = "logout"]
        BY DEF CallsInv
      <3>2. CallFits(k, status, owner)
        BY DEF CallsInv
      <3>3. CallFits([k EXCEPT !.crossed = k.op = "logout"], status', owner')
        BY <3>2 DEF CallFits, Call
      <3>4. QED
        BY <2>1, <3>1, <3>3
    <2>3. \A u \in Tabs \ {t}, d \in Calls : call'[u][d] = call[u][d]
      BY DEF CallsInv
    <2>4. call' \in [Tabs -> [Calls -> Call]]
      <3>1. call'[t] \in [Calls -> Call]
        BY <2>2 DEF CallsInv, CallFits
      <3>2. QED
        BY <3>1 DEF CallsInv
    <2>5. QED
      BY <2>2, <2>3, <2>4 DEF CallsInv
  <1>3. RefreshInv'
    BY <1>1, RefreshUnchanged
  <1>4. StoreInv'
    <2>1. m \in Store /\ Set(t, m) /\ m.tokens = s /\ m.user = memory[t].user
      BY <1>0 DEF SetTokens, Store
    <2>2. overtaken' \/ Named(m, owner')
      BY <1>0, <2>1 DEF Named, StoreInv, Tokens, Store
    <2>3. QED
      BY <1>0, <1>1, <2>1, <2>2, StoreWritten DEF Issued
  <1>5. RestInv'
    BY DEF RestInv
  <1>6. QED
    BY <1>1, <1>2, <1>3, <1>4, <1>5

LEMMA SignedOutKeeps ==
    ASSUME Inv, NEW t \in Tabs, NEW c \in Calls, SignedOut(t, c)
    PROVE  RowStep /\ Inv'
  <1> USE DEF Inv, ClientInv, SignedOut, server, history
  <1>1. RowStep /\ RowInv' /\ RowsKept
    BY UnchangedRows, RowStepKeeps DEF RowStep
  <1>2. CallsInv'
    <2>1. ASSUME NEW d \in Calls PROVE CallFits(call'[t][d], status', owner')
      <3> DEFINE k == call[t][d]
      <3>1. CallFits(k, status, owner)
        BY DEF CallsInv
      <3>2. call'[t][d] = IF d = c THEN Idle
                          ELSE IF k.op = "me" THEN [k EXCEPT !.op = "query"] ELSE k
        BY DEF CallsInv, Forgotten
      <3>3. CallFits([k EXCEPT !.op = "query"], status', owner') \/ k.op # "me"
        BY <3>1 DEF CallFits, Call, Operations, Acts
      <3>4. QED
        BY <3>1, <3>2, <3>3, IdleFits
    <2>2. \A u \in Tabs \ {t}, d \in Calls : call'[u][d] = call[u][d]
      BY DEF CallsInv, Forgotten
    <2>3. call' \in [Tabs -> [Calls -> Call]]
      <3>1. call'[t] \in [Calls -> Call]
        BY <2>1 DEF CallsInv, CallFits, Forgotten
      <3>2. QED
        BY <3>1 DEF CallsInv, Forgotten
    <2>4. QED
      BY <2>1, <2>2, <2>3 DEF CallsInv
  <1>3. RefreshInv'
    BY <1>1, RefreshUnchanged
  <1>4. StoreInv'
    BY <1>1, EmptyNamed, StoreWritten DEF Clear
  <1>5. RestInv'
    BY DEF RestInv
  <1>6. QED
    BY <1>1, <1>2, <1>3, <1>4, <1>5

LEMMA StutterKeeps == ASSUME Inv, UNCHANGED vars PROVE RowStep /\ Inv'
  <1> USE DEF Inv, ClientInv, vars
  <1>1. RowStep /\ RowInv' /\ RowsKept
    BY UnchangedRows, RowStepKeeps DEF RowStep
  <1>2. CallsInv' /\ RefreshInv' /\ StoreInv' /\ RestInv'
    BY <1>1, CallsUnchanged, RefreshUnchanged, StoresUnchanged DEF RestInv
  <1>3. QED
    BY <1>1, <1>2

LEMMA StepKeeps == ASSUME Inv, [Next]_vars PROVE RowStep /\ Inv'
  <1>1. ASSUME NEW t \in Tabs, NEW c \in Calls, UserActs(t, c) PROVE RowStep /\ Inv'
    BY <1>1, SendKeeps
       DEF UserActs, Me, Query, Logout, LogoutAll, ChangePassword, Login, Acts
  <1>2. ASSUME NEW t \in Tabs, NEW c \in Calls, ServerAnswers(t, c) PROVE RowStep /\ Inv'
    BY <1>2, AnswerLoginKeeps, AnswersKeep, AnswerClosingKeeps DEF ServerAnswers
  <1>3. ASSUME NEW t \in Tabs, NEW c \in Calls, TabContinues(t, c) PROVE RowStep /\ Inv'
    BY <1>3, UnauthorizedKeeps, LoadKeeps, ProfileDoneKeeps, LoginDoneKeeps,
       SignedOutKeeps, AnswersKeep DEF TabContinues, NoRefreshToken
  <1>4. ASSUME NEW t \in Tabs, Load(t) \/ RefreshSettles(t) PROVE RowStep /\ Inv'
    BY <1>4, LoadKeeps, SelectRefreshKeeps, AnswerRefreshKeeps, RefreshedKeeps,
       NotRefreshedKeeps DEF RefreshSettles
  <1>5. ASSUME NEW o \in orphans, SelectOrphan(o) \/ AnswerOrphan(o) PROVE RowStep /\ Inv'
    BY <1>5, SelectOrphanKeeps, AnswerOrphanKeeps
  <1>6. CASE UNCHANGED vars
    BY <1>6, StutterKeeps
  <1>7. QED
    BY <1>1, <1>2, <1>3, <1>4, <1>5, <1>6, AccessExpiresKeeps DEF Next

\* The invariant is inductive: the rows, the calls, the refreshes and the stores.
THEOREM Invariant == Spec => []Inv
  <1>1. Inv /\ [Next]_vars => Inv'
    BY StepKeeps
  <1>2. QED
    BY InitInv, <1>1, PTL DEF Spec

\* Every reachable state of the tabs and the server is type correct.
THEOREM TypeCorrect == Spec => []TypeOK
  <1>1. Inv => TypeOK
    BY DEF Inv, RowInv, RowsTyped, Statuses, ClientInv, CallsInv, RefreshInv, StoreInv, RestInv,
       TypeOK
  <1>2. QED
    BY Invariant, <1>1, PTL

\* The name a tab shows is the owner of the tokens it uses, unless an answer was
\* stored over another sign-in or a sign-out (auth-store.ts, performRefresh, useLogin).
THEOREM IdentityCorrect == Spec => []IdentityMatches
  <1>1. Inv => IdentityMatches
    BY DEF Inv, ClientInv, StoreInv, Named, IdentityMatches, Tokens
  <1>2. QED
    BY Invariant, <1>1, PTL

-----------------------------------------------------------------------------
(***************************************************************************)
(* No replay without a stray: who holds which session.                     *)
(***************************************************************************)
\* Session s is in the store of tab t, or the tab has sent it to be refreshed.
Held(t, s) == memory[t].tokens = s \/ (refresh[t] # None /\ refresh[t].token = s)

\* The answer of tab t's refresh brings session s.
Renews(t, s) == refresh[t] # None /\ refresh[t].new = s

\* Tab t has seen session s rotated, and will store the answer.
Knows(t, s) == refresh[t] # None /\ refresh[t].token = s /\ refresh[t].pc = "ok"

\* No one has used session s yet.
Untouched(s) ==
    /\ s \notin rotated /\ storage.tokens # s
    /\ \A o \in orphans : o.token # s
    /\ \A t \in Tabs : ~ Held(t, s)

\* A session on its way to a tab is on its way to that one only.
LoginsInv ==
    \A s \in Sids, t \in Tabs, c \in Calls : call[t][c].new = s =>
        /\ Untouched(s)
        /\ \A u \in Tabs, d \in Calls : call[u][d].new = s => u = t /\ d = c

RenewalsInv ==
    \A s \in Sids, t \in Tabs : Renews(t, s) =>
        /\ Untouched(s)
        /\ \A u \in Tabs : Renews(u, s) => u = t
        /\ \A u \in Tabs, d \in Calls : call[u][d].new # s

\* One tab holds a session that is no stray.
OneHolder ==
    \A s \in Sids \ strays : \A t, u \in Tabs : Held(t, s) /\ Held(u, s) => t = u

\* While the storage names a session in flight, so does the tab that refreshes it.
StorageHeld ==
    \A s \in Sids \ strays : \A t \in Tabs :
        refresh[t] # None /\ refresh[t].token = s /\ storage.tokens = s
        => memory[t].tokens = s

\* Whoever holds a rotated session that is no stray knows it, and so does someone if
\* the storage has it.
RotatedKnown ==
    \A s \in Sids \ strays : s \in rotated =>
        /\ \A t \in Tabs : Held(t, s) => Knows(t, s)
        /\ storage.tokens = s => \E t \in Tabs : Knows(t, s)

\* What is refreshed for no page is a stray.
OrphansStray == \A o \in orphans : o.token \in strays

HoldersInv == OneHolder /\ StorageHeld /\ RotatedKnown /\ OrphansStray

HonestInv == LoginsInv /\ RenewalsInv /\ HoldersInv

\* The sessions calls bring are those they brought, less some.
CallsBring ==
    \A t \in Tabs, c \in Calls : call'[t][c].new \in {call[t][c].new, None}

LEMMA HonestInit == Init => HonestInv
  <1> SUFFICES ASSUME Init PROVE HonestInv
    OBVIOUS
  <1> USE NoneIsNoSession DEF Init, Empty, Idle
  <1>1. LoginsInv /\ RenewalsInv
    BY DEF LoginsInv, RenewalsInv, Renews
  <1>2. HoldersInv
    BY DEF HoldersInv, OneHolder, StorageHeld, RotatedKnown, OrphansStray, Held
  <1>3. QED
    BY <1>1, <1>2 DEF HonestInv

LEMMA BringingKept ==
    ASSUME LoginsInv, RenewalsInv, CallsBring,
           \A s \in Sids : Untouched(s) => Untouched(s)',
           \A u \in Tabs, s \in Sids : Renews(u, s)' => Renews(u, s)
    PROVE  LoginsInv' /\ RenewalsInv'
  <1> USE NoneIsNoSession DEF CallsBring
  <1>1. LoginsInv'
    BY DEF LoginsInv
  <1>2. RenewalsInv'
    BY DEF RenewalsInv
  <1>3. QED
    BY <1>1, <1>2

\* Nothing but the calls, and the state of rows, changes.
LEMMA HonestKept ==
    ASSUME HonestInv, CallsBring,
           UNCHANGED <<memory, storage, refresh, orphans, strays, rotated>>
    PROVE  HonestInv'
  <1> USE NoneIsNoSession DEF HonestInv, CallsBring
  <1>1. \A s \in Sids : Untouched(s)' <=> Untouched(s)
    BY DEF Untouched, Held
  <1>2. LoginsInv' /\ RenewalsInv'
    BY <1>1, BringingKept DEF Renews
  <1>3. HoldersInv'
    BY DEF HoldersInv, OneHolder, StorageHeld, RotatedKnown, OrphansStray, Held, Knows
  <1>4. QED
    BY <1>2, <1>3

LEMMA CallBrings ==
    ASSUME CallsInv, NEW t \in Tabs, NEW c \in Calls, NEW x,
           x.new = call[t][c].new \/ x.new = None, call' = [call EXCEPT ![t][c] = x]
    PROVE  CallsBring
  BY DEF CallsInv, CallsBring

LEMMA LoadHonest ==
    ASSUME Inv, HonestInv, NEW t \in Tabs, Load(t) PROVE HonestInv'
  <1> USE NoneIsNoSession DEF Inv, ClientInv, HonestInv, Load, server
  <1>1. \A o \in orphans' : o \in orphans \/ (refresh[t] # None /\ o.token = refresh[t].token)
    BY PendingFits
  <1>2. CallsBring
    BY DEF CallsBring, CallsInv, Idle
  <1>3. \A u \in Tabs, s \in Sids :
            Held(u, s)' <=> IF u = t THEN storage.tokens = s ELSE Held(u, s)
    BY DEF Held, StoreInv, RefreshInv
  <1>4. \A s \in Sids : Untouched(s) => Untouched(s)'
    BY <1>1, <1>3 DEF Untouched, Held
  <1>5. \A u \in Tabs, s \in Sids : Renews(u, s)' => Renews(u, s)
    BY DEF Renews, RefreshInv
  <1>6. LoginsInv' /\ RenewalsInv'
    BY <1>2, <1>4, <1>5, BringingKept
  <1>7. ASSUME NEW s \in Sids \ strays', storage.tokens = s, NEW u \in Tabs, Held(u, s)
        PROVE  u = t /\ ~ (refresh[t] # None /\ refresh[t].token = s)
    BY <1>7 DEF Held, HoldersInv, StorageHeld, Tokens
  <1>8. OneHolder'
    BY <1>3, <1>7 DEF OneHolder, HoldersInv
  <1>9. StorageHeld'
    BY DEF StorageHeld, HoldersInv, RefreshInv, StoreInv
  <1>10. RotatedKnown'
    <2> SUFFICES ASSUME NEW s \in Sids \ strays', s \in rotated
                 PROVE  /\ \A u \in Tabs : Held(u, s)' => Knows(u, s)'
                        /\ storage.tokens = s => FALSE
      BY DEF RotatedKnown
    <2>1. storage.tokens # s
      BY <1>7 DEF HoldersInv, RotatedKnown, Knows, Held
    <2>2. ASSUME NEW u \in Tabs, Held(u, s)' PROVE Knows(u, s)'
      <3>1. u # t /\ Held(u, s)
        BY <1>3, <2>1, <2>2
      <3>2. Knows(u, s)
        BY <3>1 DEF HoldersInv, RotatedKnown
      <3>3. QED
        BY <3>1, <3>2 DEF Knows, RefreshInv
    <2>3. QED
      BY <2>1, <2>2
  <1>11. OrphansStray'
    BY <1>1 DEF HoldersInv, OrphansStray, RefreshInv, Refresh
  <1>12. QED
    BY <1>6, <1>8, <1>9, <1>10, <1>11 DEF HoldersInv

\* A session that no one had is issued: it is rotated by no one, and held by no one.
LEMMA NewIsUntouched ==
    ASSUME Inv, NEW n \in Sids, ~ Issued(n)
    PROVE  /\ n \notin rotated /\ storage.tokens # n /\ \A t \in Tabs : ~ Held(t, n)
           /\ \A o \in orphans : o.token # n
           /\ \A t \in Tabs, c \in Calls : call[t][c].new # n
           /\ \A t \in Tabs : ~ Renews(t, n)
  <1> USE NoneIsNoSession DEF Inv, ClientInv, Issued
  <1>0. n \notin rotated /\ \A o \in orphans : o.token # n
    BY DEF RowInv, RowsRooted, RestInv
  <1>1. storage.tokens # n /\ \A t \in Tabs : ~ Held(t, n)
    BY DEF StoreInv, RefreshInv, RefreshFits, Held
  <1>2. \A t \in Tabs, c \in Calls : call[t][c].new # n
    BY DEF CallsInv, CallFits
  <1>3. \A t \in Tabs : ~ Renews(t, n)
    BY DEF RefreshInv, RefreshFits, Renews
  <1>4. QED
    BY <1>0, <1>1, <1>2, <1>3

\* The sessions of which HonestInv speaks are issued.
LEMMA OnesAreIssued ==
    ASSUME Inv, NEW s \in Sids
    PROVE  /\ \A t \in Tabs, c \in Calls : call[t][c].new = s => Issued(s)
           /\ \A t \in Tabs : Held(t, s) \/ Renews(t, s) => Issued(s)
           /\ storage.tokens = s => Issued(s)
  BY NewIsUntouched

LEMMA AnswerLoginHonest ==
    ASSUME Inv, HonestInv, NEW t \in Tabs, NEW c \in Calls, AnswerLogin(t, c)
    PROVE  HonestInv'
  <1> USE NoneIsNoSession DEF HonestInv
  <1>1. PICK n \in Sids, v \in Users :
            /\ Opened(n, v)
            /\ call' = [call EXCEPT ![t][c] = [@ EXCEPT !.pc = "ok", !.new = n]]
    BY DEF AnswerLogin, Opened
  <1>2. UNCHANGED <<memory, storage, refresh, orphans, strays, rotated>>
    BY DEF AnswerLogin, history
  <1>3. ~ Issued(n)
    BY <1>1, OpeningKeepsRows DEF Inv
  <1>4. \A s \in Sids : Untouched(s) => Untouched(s)'
    BY <1>2 DEF Untouched, Held
  <1>5. Untouched(n)'
    BY <1>2, <1>3, NewIsUntouched DEF Untouched, Held
  <1>6. \A u \in Tabs, d \in Calls :
            call'[u][d].new = IF u = t /\ d = c THEN n ELSE call[u][d].new
    BY <1>1 DEF Inv, ClientInv, CallsInv, Call
  <1>7. LoginsInv'
    BY <1>3, <1>4, <1>5, <1>6, NewIsUntouched, OnesAreIssued DEF LoginsInv
  <1>8. RenewalsInv'
    BY <1>2, <1>3, <1>4, <1>6, NewIsUntouched, OnesAreIssued DEF RenewalsInv, Renews
  <1>9. HoldersInv'
    BY <1>2 DEF HoldersInv, OneHolder, StorageHeld, RotatedKnown, OrphansStray, Held, Knows
  <1>10. QED
    BY <1>7, <1>8, <1>9

\* A refresh that has no answer yet is selected, or fails.
LEMMA RefreshGoesOn ==
    ASSUME Inv, HonestInv, NEW t \in Tabs, NEW pc \in {"selected", "failed"},
           refresh[t] # None, refresh[t].pc # "ok",
           refresh' = [refresh EXCEPT ![t].pc = pc],
           UNCHANGED <<memory, storage, call, orphans, strays, rotated>>
    PROVE  HonestInv'
  <1> USE NoneIsNoSession DEF HonestInv
  <1>1. refresh[t] \in Refresh /\ refresh \in [Tabs -> Refresh \cup {None}]
    BY DEF Inv, ClientInv, RefreshInv
  <1>2. [refresh[t] EXCEPT !.pc = pc] # None
    BY <1>1, NoRefreshAssumption DEF Refresh
  <1>3. /\ \A u \in Tabs, s \in Sids : Held(u, s)' <=> Held(u, s)
        /\ \A u \in Tabs, s \in Sids : Renews(u, s)' <=> Renews(u, s)
        /\ \A u \in Tabs, s \in Sids : Knows(u, s) => Knows(u, s)'
        /\ \A u \in Tabs, s \in Sids :
              refresh'[u] # None /\ refresh'[u].token = s
              <=> refresh[u] # None /\ refresh[u].token = s
    BY <1>1, <1>2 DEF Held, Renews, Knows, Refresh
  <1>4. \A s \in Sids : Untouched(s) <=> Untouched(s)'
    BY <1>3 DEF Untouched
  <1>5. LoginsInv' /\ RenewalsInv'
    BY <1>3, <1>4 DEF LoginsInv, RenewalsInv
  <1>6. HoldersInv'
    BY <1>3 DEF HoldersInv, OneHolder, StorageHeld, RotatedKnown, OrphansStray
  <1>7. QED
    BY <1>5, <1>6

LEMMA SelectRefreshHonest ==
    ASSUME Inv, HonestInv, NEW t \in Tabs, SelectRefresh(t) PROVE HonestInv'
  BY RefreshGoesOn DEF SelectRefresh, server, history

LEMMA AnswerRefreshHonest ==
    ASSUME Inv, HonestInv, NEW t \in Tabs, AnswerRefresh(t) PROVE HonestInv'
  <1> USE NoneIsNoSession DEF HonestInv
  <1> DEFINE r == refresh[t].token
  <1>1. UNCHANGED <<memory, storage, call, orphans, strays>>
    BY DEF AnswerRefresh, history
  <1>2. /\ refresh[t] \in Refresh /\ r \in Sids /\ refresh[t] # None
        /\ refresh[t].pc # "ok" => refresh[t].new = None
        /\ refresh \in [Tabs -> Refresh \cup {None}]
    BY DEF AnswerRefresh, Inv, ClientInv, RefreshInv, Refresh, RefreshFits
  <1>3. ASSUME NEW n \in Sids, refresh[t].pc = "selected", Rotate(r, n),
               refresh' = [refresh EXCEPT ![t] = [@ EXCEPT !.pc = "ok", !.new = n]]
        PROVE  HonestInv'
    <2>1. [refresh[t] EXCEPT !.pc = "ok", !.new = n] # None
      BY <1>2, NoRefreshAssumption DEF Refresh
    <2>2. ~ Issued(n) /\ n \notin rotated' /\ rotated' = rotated \cup {r}
      BY <1>2, <1>3, RotatingKeepsRows DEF Inv, Rotate
    <2>3. /\ \A u \in Tabs, s \in Sids : Held(u, s)' <=> Held(u, s)
          /\ \A u \in Tabs, s \in Sids :
                Renews(u, s)' <=> IF u = t THEN s = n ELSE Renews(u, s)
          /\ \A u \in Tabs, s \in Sids :
                Knows(u, s)' <=> IF u = t THEN s = r ELSE Knows(u, s)
          /\ \A u \in Tabs, s \in Sids :
                refresh'[u] # None /\ refresh'[u].token = s
                <=> refresh[u] # None /\ refresh[u].token = s
      BY <1>1, <1>2, <1>3, <2>1 DEF Held, Renews, Knows, Refresh
    <2>4. Held(t, r)
      BY <1>2 DEF Held
    <2>5. \A s \in Sids : Untouched(s) => Untouched(s)'
      BY <1>1, <2>2, <2>3, <2>4 DEF Untouched
    <2>6. Untouched(n)'
      BY <1>1, <2>2, <2>3, NewIsUntouched DEF Untouched
    <2>7. LoginsInv'
      BY <1>1, <2>5 DEF LoginsInv
    <2>8. RenewalsInv'
      <3> SUFFICES ASSUME NEW s \in Sids, NEW u \in Tabs, Renews(u, s)'
                   PROVE  /\ Untouched(s)'
                          /\ \A w \in Tabs : Renews(w, s)' => w = u
                          /\ \A w \in Tabs, d \in Calls : call[w][d].new # s
        BY <1>1 DEF RenewalsInv
      <3>1. CASE u = t
        BY <2>2, <2>3, <2>6, <3>1, NewIsUntouched
      <3>2. CASE u # t
        BY <2>2, <2>3, <2>5, <3>2, NewIsUntouched DEF RenewalsInv
      <3>3. QED
        BY <3>1, <3>2
    <2>9. OneHolder' /\ StorageHeld' /\ OrphansStray'
      BY <1>1, <2>3 DEF HoldersInv, OneHolder, StorageHeld, OrphansStray
    <2>10. RotatedKnown'
      <3> SUFFICES ASSUME NEW s \in Sids \ strays, s \in rotated'
                   PROVE  /\ \A u \in Tabs : Held(u, s) => Knows(u, s)'
                          /\ storage.tokens = s => \E u \in Tabs : Knows(u, s)'
        BY <1>1, <2>3 DEF RotatedKnown
      <3>1. CASE s = r
        BY <2>3, <2>4, <3>1 DEF HoldersInv, OneHolder
      <3>2. CASE s # r
        <4>1. s \in rotated
          BY <2>2, <3>2
        <4>2. \A u \in Tabs : Knows(u, s) => Knows(u, s)'
          BY <1>2, <1>3, <2>3, <3>2 DEF Knows
        <4>3. QED
          BY <4>1, <4>2 DEF HoldersInv, RotatedKnown
      <3>3. QED
        BY <3>1, <3>2
    <2>11. QED
      BY <2>7, <2>8, <2>9, <2>10 DEF HoldersInv
  <1>4. ASSUME refresh[t].pc \in {"sent", "selected"}, Refuse(r, refresh[t].pc),
               refresh' = [refresh EXCEPT ![t].pc = "failed"]
        PROVE  HonestInv'
    <2>1. UNCHANGED rotated
      BY <1>4 DEF Refuse, Replay, Missing, server
    <2>2. QED
      BY <1>1, <1>2, <1>4, <2>1, RefreshGoesOn
  <1>5. QED
    BY <1>3, <1>4 DEF AnswerRefresh

\* Orphans are of strays, and so are those they turn into and the rows they rotate.
LEMMA OrphansHonest ==
    ASSUME Inv, HonestInv, NEW o \in orphans, SelectOrphan(o) \/ AnswerOrphan(o)
    PROVE  HonestInv'
  <1> USE NoneIsNoSession DEF HonestInv
  <1> DEFINE r == o.token
  <1>0. o \in Orphan /\ r \in Sids /\ r \in strays
    BY DEF Inv, ClientInv, RestInv, Orphan, HoldersInv, OrphansStray
  <1>1. UNCHANGED <<memory, storage, call, refresh, strays>>
    BY DEF SelectOrphan, AnswerOrphan, client, history
  <1>2. \A p \in orphans' : \E q \in orphans : p.token = q.token
    BY <1>0 DEF SelectOrphan, AnswerOrphan, Orphan
  <1>3. rotated' \subseteq rotated \cup {r}
    BY DEF SelectOrphan, AnswerOrphan, Rotate, Refuse, Replay, Missing, server
  <1>4. \A s \in Sids : Untouched(s) => Untouched(s)'
    BY <1>1, <1>2, <1>3 DEF Untouched, Held
  <1>5. LoginsInv'
    BY <1>1, <1>4 DEF LoginsInv
  <1>6. RenewalsInv'
    BY <1>1, <1>4 DEF RenewalsInv, Renews
  <1>7. OneHolder' /\ StorageHeld' /\ OrphansStray'
    BY <1>1, <1>2 DEF HoldersInv, OneHolder, StorageHeld, OrphansStray, Held
  <1>8. RotatedKnown'
    BY <1>0, <1>1, <1>3 DEF HoldersInv, RotatedKnown, Held, Knows
  <1>9. QED
    BY <1>5, <1>6, <1>7, <1>8 DEF HoldersInv

LEMMA UnauthorizedHonest ==
    ASSUME Inv, HonestInv, NEW t \in Tabs, NEW c \in Calls, Unauthorized(t, c)
    PROVE  HonestInv'
  <1> USE NoneIsNoSession DEF HonestInv, Unauthorized, server, history, Inv, ClientInv
  <1> DEFINE x == [call[t][c] EXCEPT !.retry = TRUE, !.pc = "waiting"]
  <1>1. CallsBring
    BY DEF CallsInv, Call, CallsBring
  <1>2. CASE refresh[t] # None
    BY <1>1, <1>2, HonestKept DEF PerformRefresh
  <1>3. CASE refresh[t] = None
    <2>0. /\ refresh' = [refresh EXCEPT ![t] =
                             [token |-> Tokens(t), pc |-> "sent", new |-> None]]
          /\ Tokens(t) \in Sids /\ refresh \in [Tabs -> Refresh \cup {None}]
          /\ UNCHANGED orphans
      BY <1>3 DEF PerformRefresh, StoreInv, Store, Tokens, RefreshInv
    <2>2. [token |-> Tokens(t), pc |-> "sent", new |-> None] # None
      BY <2>0, NoRefreshAssumption DEF Refresh
    <2>3. \A u \in Tabs, s \in Sids : Held(u, s)' <=> Held(u, s)
      BY <1>3, <2>0, <2>2 DEF Held, Tokens
    <2>4. \A u \in Tabs, s \in Sids : Renews(u, s)' <=> Renews(u, s)
      BY <1>3, <2>0 DEF Renews
    <2>5. \A u \in Tabs, s \in Sids : Knows(u, s)' <=> Knows(u, s)
      BY <1>3, <2>0 DEF Knows
    <2>6. \A s \in Sids : Untouched(s)' <=> Untouched(s)
      BY <2>0, <2>3 DEF Untouched
    <2>7. LoginsInv' /\ RenewalsInv'
      BY <1>1, <2>4, <2>6, BringingKept
    <2>8. OneHolder' /\ RotatedKnown' /\ OrphansStray'
      BY <2>0, <2>3, <2>5 DEF HoldersInv, OneHolder, RotatedKnown, OrphansStray
    <2>9. StorageHeld'
      BY <2>0 DEF HoldersInv, StorageHeld, Tokens
    <2>10. QED
      BY <2>7, <2>8, <2>9 DEF HoldersInv
  <1>4. QED
    BY <1>2, <1>3

\* A tab stores a session of which it alone was told.
LEMMA StoringHonest ==
    ASSUME Inv, HonestInv, NEW t \in Tabs, NEW n \in Sids, Untouched(n),
           memory' = [memory EXCEPT ![t].tokens = n], storage'.tokens = n,
           refresh' = refresh \/ refresh' = [refresh EXCEPT ![t] = None],
           UNCHANGED <<rotated, orphans, strays>>, CallsBring,
           \A u \in Tabs, d \in Calls : call'[u][d].new # n,
           \A u \in Tabs : ~ Renews(u, n)'
    PROVE  HonestInv'
  <1> USE NoneIsNoSession DEF HonestInv, Inv, ClientInv
  <1>2. \A u \in Tabs, s \in Sids :
            /\ Held(u, s)' => Held(u, s) \/ (u = t /\ s = n)
            /\ Renews(u, s)' => Renews(u, s)
            /\ Held(u, s)' /\ Knows(u, s) => Knows(u, s)'
    <2>1. \A u \in Tabs : /\ refresh'[u] = refresh[u] \/ (u = t /\ refresh'[u] = None)
                          /\ memory'[u].tokens = IF u = t THEN n ELSE memory[u].tokens
      BY DEF RefreshInv, StoreInv, Store
    <2>2. QED
      BY <2>1 DEF Held, Renews, Knows, Untouched
  <1>3. \A s \in Sids : s # n /\ Untouched(s) => Untouched(s)'
    BY <1>2 DEF Untouched
  <1>4. LoginsInv'
    BY <1>3 DEF LoginsInv, CallsBring
  <1>5. RenewalsInv'
    BY <1>2, <1>3 DEF RenewalsInv, CallsBring
  <1>6. OneHolder'
    BY <1>2 DEF HoldersInv, OneHolder, Untouched
  <1>7. StorageHeld'
    BY DEF StorageHeld, Untouched, Held, RefreshInv
  <1>8. RotatedKnown'
    BY <1>2 DEF HoldersInv, RotatedKnown, Untouched
  <1>9. QED
    BY <1>4, <1>5, <1>6, <1>7, <1>8 DEF HoldersInv, OrphansStray

\* A tab clears its store, and with it the storage.
LEMMA ClearingHonest ==
    ASSUME Inv, HonestInv, NEW t \in Tabs, Clear(t),
           refresh' = refresh \/ refresh' = [refresh EXCEPT ![t] = None],
           UNCHANGED rotated, strays \subseteq strays', CallsBring,
           orphans' \subseteq orphans \cup Pending(t),
           \A o \in orphans' \ orphans : o.token \in strays'
    PROVE  HonestInv'
  <1> USE NoneIsNoSession DEF HonestInv, Inv, ClientInv
  <1>1. \A o \in orphans' : o \in orphans \/ Held(t, o.token)
    BY PendingFits DEF Held
  <1>2. /\ storage'.tokens = None
        /\ \A u \in Tabs :
              /\ refresh'[u] = refresh[u] \/ (u = t /\ refresh'[u] = None)
              /\ memory'[u].tokens = IF u = t THEN None ELSE memory[u].tokens
    BY DEF RefreshInv, StoreInv, Store, Clear, Set, Empty
  <1>3. \A u \in Tabs, s \in Sids :
            /\ Held(u, s)' => Held(u, s)
            /\ Renews(u, s)' => Renews(u, s)
            /\ Held(u, s)' /\ Knows(u, s) => Knows(u, s)'
    BY <1>2 DEF Held, Renews, Knows
  <1>4. \A s \in Sids : Untouched(s) => Untouched(s)'
    BY <1>1, <1>2, <1>3 DEF Untouched
  <1>5. LoginsInv' /\ RenewalsInv'
    BY <1>3, <1>4, BringingKept
  <1>6. OneHolder'
    BY <1>3 DEF HoldersInv, OneHolder
  <1>7. StorageHeld'
    BY <1>2 DEF StorageHeld
  <1>8. RotatedKnown'
    BY <1>2, <1>3 DEF HoldersInv, RotatedKnown
  <1>9. QED
    BY <1>5, <1>6, <1>7, <1>8 DEF HoldersInv, OrphansStray

LEMMA RefreshedHonest ==
    ASSUME Inv, HonestInv, NEW t \in Tabs, Refreshed(t) PROVE HonestInv'
  <1>0. refresh[t].new \in Sids
    BY DEF Refreshed, Inv, ClientInv, RefreshInv, RefreshFits, Refresh
  <1> PICK n \in Sids : n = refresh[t].new
    BY <1>0
  <1>1. Renews(t, n) /\ memory[t] \in Store
    BY DEF Refreshed, Inv, ClientInv, StoreInv, Renews
  <1>2. Untouched(n) /\ (\A u \in Tabs, d \in Calls : call[u][d].new # n)
        /\ \A u \in Tabs : Renews(u, n) => u = t
    BY <1>1 DEF HonestInv, RenewalsInv
  <1>3. CallsBring
    <2>1. \A u \in Tabs \ {t} : call'[u] = call[u]
      BY DEF Refreshed, Inv, ClientInv, CallsInv
    <2>2. ASSUME NEW c \in Calls PROVE call'[t][c].new = call[t][c].new
      <3>1. call[t][c] \in Call
        BY DEF Inv, ClientInv, CallsInv
      <3>2. \/ call'[t][c] = [call[t][c] EXCEPT !.pc = "sent", !.token = n]
            \/ call'[t][c] = [call[t][c] EXCEPT !.crossed = call[t][c].op = "logout"]
        BY DEF Refreshed, RetriedWith, Inv, ClientInv, CallsInv
      <3>3. QED
        BY <3>1, <3>2 DEF Call
    <2>3. QED
      BY <2>1, <2>2 DEF CallsBring
  <1>4. /\ memory' = [memory EXCEPT ![t].tokens = n] /\ storage'.tokens = n
        /\ refresh' = [refresh EXCEPT ![t] = None]
        /\ UNCHANGED <<rotated, orphans, strays>>
    BY <1>1 DEF Refreshed, SetTokens, Set, server, Store
  <1>5. \A u \in Tabs, d \in Calls : call'[u][d].new # n
    BY <1>1, <1>2, <1>3, NoneIsNoSession DEF CallsBring
  <1>6. \A u \in Tabs : ~ Renews(u, n)'
    BY <1>2, <1>4 DEF Renews, Inv, ClientInv, RefreshInv
  <1>7. QED
    BY <1>1, <1>2, <1>3, <1>4, <1>5, <1>6, StoringHonest

LEMMA LoginDoneHonest ==
    ASSUME Inv, HonestInv, NEW t \in Tabs, NEW c \in Calls, LoginDone(t, c)
    PROVE  HonestInv'
  <1>0. call[t][c].new \in Sids
    BY DEF LoginDone, Inv, ClientInv, CallsInv, CallFits, Call
  <1> PICK n \in Sids : n = call[t][c].new
    BY <1>0
  <1>1. memory[t] \in Store
    BY DEF Inv, ClientInv, StoreInv
  <1>2. /\ Untouched(n)
        /\ \A u \in Tabs, d \in Calls : call[u][d].new = n => u = t /\ d = c
        /\ \A u \in Tabs : ~ Renews(u, n)
    BY <1>1 DEF HonestInv, LoginsInv, RenewalsInv
  <1>3. \A u \in Tabs, d \in Calls :
            call'[u][d].new = IF u = t /\ d = c THEN None ELSE call[u][d].new
    BY DEF LoginDone, Idle, Inv, ClientInv, CallsInv, Call
  <1>4. CallsBring
    BY <1>3 DEF CallsBring
  <1>5. /\ memory' = [memory EXCEPT ![t].tokens = n] /\ storage'.tokens = n
        /\ UNCHANGED <<refresh, rotated, orphans, strays>>
    BY <1>1 DEF LoginDone, SetTokens, Set, server, Store
  <1>6. \A u \in Tabs, d \in Calls : call'[u][d].new # n
    BY <1>1, <1>2, <1>3, NoneIsNoSession
  <1>7. \A u \in Tabs : ~ Renews(u, n)'
    BY <1>2, <1>5 DEF Renews
  <1>8. QED
    BY <1>1, <1>2, <1>4, <1>5, <1>6, <1>7, StoringHonest

LEMMA ClearsHonest ==
    ASSUME Inv, HonestInv, NEW t \in Tabs,
           NotRefreshed(t) \/ \E c \in Calls : SignedOut(t, c)
    PROVE  HonestInv'
  <1>1. CallsBring
    <2>1. CASE NotRefreshed(t)
      BY <2>1 DEF NotRefreshed, Idle, CallsBring, Inv, ClientInv, CallsInv
    <2>2. ASSUME NEW c \in Calls, SignedOut(t, c) PROVE CallsBring
      <3>1. \A u \in Tabs \ {t} : call'[u] = call[u]
        BY <2>2 DEF SignedOut, Forgotten, Inv, ClientInv, CallsInv
      <3>2. \A d \in Calls : \/ call'[t][d] = Idle
                             \/ call'[t][d] = [call[t][d] EXCEPT !.op = "query"]
                             \/ call'[t][d] = call[t][d]
        BY <2>2 DEF SignedOut, Forgotten, Inv, ClientInv, CallsInv
      <3>3. ASSUME NEW d \in Calls PROVE call'[t][d].new \in {call[t][d].new, None}
        <4>1. call[t][d] \in Call
          BY DEF Inv, ClientInv, CallsInv
        <4>2. CASE call'[t][d] = Idle
          BY <4>2 DEF Idle
        <4>3. CASE call'[t][d] = [call[t][d] EXCEPT !.op = "query"]
          BY <4>1, <4>3 DEF Call
        <4>4. QED
          BY <3>2, <4>2, <4>3
      <3>4. QED
        BY <3>1, <3>3 DEF CallsBring
    <2>3. QED
      BY <2>1, <2>2
  <1>2. CASE NotRefreshed(t)
    <2>1. \A o \in Pending(t) : refresh[t].pc # "failed" /\ o.token = refresh[t].token
      BY DEF Pending
    <2>2. \A o \in orphans' \ orphans : o \in Pending(t)
      BY <1>2 DEF NotRefreshed
    <2>3. QED
      BY <1>1, <1>2, <2>1, <2>2, ClearingHonest DEF NotRefreshed, server
  <1>3. QED
    BY <1>1, <1>2, ClearingHonest DEF SignedOut, server, history

LEMMA ProfileDoneHonest ==
    ASSUME Inv, HonestInv, NEW t \in Tabs, NEW c \in Calls, ProfileDone(t, c)
    PROVE  HonestInv'
  <1> USE NoneIsNoSession DEF HonestInv, Inv, ClientInv
  <1>2. /\ storage'.tokens = memory[t].tokens
        /\ \A u \in Tabs : memory'[u].tokens = memory[u].tokens
        /\ UNCHANGED <<refresh, orphans, strays, rotated>>
    BY DEF ProfileDone, SetUser, Set, StoreInv, Store, server
  <1>3. CallsBring
    BY DEF ProfileDone, Settled, Idle, CallsBring, CallsInv, Call
  <1>4. \A u \in Tabs, s \in Sids :
            /\ Held(u, s)' <=> Held(u, s)
            /\ Renews(u, s)' <=> Renews(u, s)
            /\ Knows(u, s)' <=> Knows(u, s)
    BY <1>2 DEF Held, Renews, Knows
  <1>5. \A s \in Sids : storage'.tokens = s => Held(t, s)
    BY <1>2 DEF Held
  <1>6. \A s \in Sids : Untouched(s) => Untouched(s)'
    BY <1>2, <1>4, <1>5 DEF Untouched
  <1>7. LoginsInv' /\ RenewalsInv'
    BY <1>3, <1>4, <1>6, BringingKept
  <1>8. OneHolder'
    BY <1>2, <1>4 DEF HoldersInv, OneHolder
  <1>9. StorageHeld'
    <2> SUFFICES ASSUME NEW s \in Sids \ strays, NEW u \in Tabs, refresh[u] # None,
                        refresh[u].token = s, storage'.tokens = s
                 PROVE  memory[u].tokens = s
      BY <1>2 DEF StorageHeld
    <2>1. Held(u, s) /\ Held(t, s)
      BY <1>5 DEF Held
    <2>2. u = t
      BY <2>1 DEF HoldersInv, OneHolder
    <2>3. QED
      BY <1>2, <2>2
  <1>10. RotatedKnown'
    BY <1>2, <1>4, <1>5 DEF HoldersInv, RotatedKnown
  <1>11. QED
    BY <1>2, <1>7, <1>8, <1>9, <1>10 DEF HoldersInv, OrphansStray

\* Sends, answers that touch no refresh, rejections: none changes who holds what.
LEMMA OtherCallsHonest ==
    ASSUME Inv, HonestInv, NEW t \in Tabs, NEW c \in Calls,
           \/ UserActs(t, c) \/ Rejected(t, c)
           \/ AnswerMe(t, c) \/ AnswerQuery(t, c) \/ AnswerLogout(t, c)
           \/ AnswerLogoutAll(t, c) \/ AnswerChangePassword(t, c)
           \/ AnswerUnauthorized(t, c)
    PROVE  HonestInv'
  <1> USE DEF server, history, Inv, ClientInv
  <1>1. CASE UserActs(t, c)
    <2>1. PICK op : Send(t, c, op)
      BY <1>1 DEF UserActs, Me, Query, Logout, LogoutAll, ChangePassword, Login
    <2>2. CallsBring
      BY <2>1 DEF Send, Idle, CallsBring, CallsInv, Call
    <2>3. QED
      BY <2>1, <2>2, HonestKept DEF Send
  <1>2. CASE Rejected(t, c) \/ AnswerQuery(t, c) \/ AnswerChangePassword(t, c)
    <2>1. call' = [call EXCEPT ![t][c] = Idle] /\ (Idle.new = call[t][c].new \/ Idle.new = None)
      BY <1>2 DEF Rejected, Settled, AnswerQuery, AnswerChangePassword, Idle
    <2>2. CallsBring
      BY <2>1, CallBrings
    <2>3. QED
      BY <1>2, <2>2, HonestKept DEF Rejected, AnswerQuery, AnswerChangePassword
  <1>3. CASE \/ AnswerMe(t, c) \/ AnswerLogout(t, c) \/ AnswerLogoutAll(t, c)
             \/ AnswerUnauthorized(t, c)
    <2>1. PICK pc, result :
              call' = [call EXCEPT ![t][c] = [call[t][c] EXCEPT !.pc = pc, !.result = result]]
      <3>1. call[t][c] = [call[t][c] EXCEPT !.result = call[t][c].result]
            /\ call[t][c] \in Call /\ call \in [Tabs -> [Calls -> Call]]
        BY DEF CallsInv, Call
      <3>2. CASE AnswerMe(t, c)
        <4>1. call' = [call EXCEPT ![t][c] = [call[t][c] EXCEPT
                           !.pc = "ok", !.result = ProfileOf(call[t][c].token)]]
          BY <3>1, <3>2 DEF AnswerMe
        <4>2. QED
          BY <4>1
      <3>3. ASSUME NEW pc, Answered(t, c, pc)
            PROVE  call' = [call EXCEPT ![t][c] = [call[t][c] EXCEPT !.pc = pc,
                                                       !.result = call[t][c].result]]
        BY <3>1, <3>3 DEF Answered, Call
      <3>4. QED
        BY <1>3, <3>2, <3>3 DEF AnswerLogout, AnswerLogoutAll, AnswerUnauthorized
    <2> DEFINE x == [call[t][c] EXCEPT !.pc = pc, !.result = result]
    <2>2. x.new = call[t][c].new \/ x.new = None
      BY DEF CallsInv, Call
    <2> HIDE DEF x
    <2>3. CallsBring
      BY <2>1, <2>2, CallBrings DEF x
    <2>4. QED
      BY <1>3, <2>3, HonestKept
         DEF AnswerMe, AnswerLogout, AnswerLogoutAll, AnswerUnauthorized
  <1>4. QED
    BY <1>1, <1>2, <1>3

LEMMA StepHonest == ASSUME Inv, HonestInv, [Next]_vars PROVE HonestInv'
  <1>1. ASSUME NEW t \in Tabs, NEW c \in Calls, UserActs(t, c) \/ ServerAnswers(t, c)
        PROVE  HonestInv'
    BY <1>1, OtherCallsHonest, AnswerLoginHonest DEF ServerAnswers
  <1>2. ASSUME NEW t \in Tabs, NEW c \in Calls, TabContinues(t, c) PROVE HonestInv'
    BY <1>2, UnauthorizedHonest, LoadHonest, ProfileDoneHonest, LoginDoneHonest,
       ClearsHonest, OtherCallsHonest DEF TabContinues, NoRefreshToken
  <1>3. ASSUME NEW t \in Tabs, Load(t) \/ RefreshSettles(t) PROVE HonestInv'
    BY <1>3, LoadHonest, SelectRefreshHonest, AnswerRefreshHonest, RefreshedHonest,
       ClearsHonest DEF RefreshSettles
  <1>4. ASSUME NEW o \in orphans, SelectOrphan(o) \/ AnswerOrphan(o) PROVE HonestInv'
    BY <1>4, OrphansHonest
  <1>5. ASSUME UNCHANGED vars \/ \E s \in Sids : AccessExpires(s) PROVE HonestInv'
    <2>1. UNCHANGED <<memory, storage, call, refresh, orphans, strays, rotated>>
      BY <1>5 DEF vars, AccessExpires, client, server, history
    <2>2. CallsBring
      BY <2>1 DEF CallsBring
    <2>3. QED
      BY <2>1, <2>2, HonestKept
  <1>6. QED
    BY <1>1, <1>2, <1>3, <1>4, <1>5 DEF Next

\* A refresh is handled by the server although its session has been rotated, as a replay
\* or by a second rotation, only if no page got the answer of that rotation or two tabs
\* held the session: one tab alone sets off neither.
THEOREM HonestReplay == Spec => HonestReplays
  <1>1. Inv /\ HonestInv /\ [Next]_vars => HonestInv'
    BY StepHonest
  <1>2. ASSUME Inv, HonestInv, NEW t \in Tabs, AnswerRefresh(t), refresh[t].token \in rotated
        PROVE  refresh[t].token \in strays
    <2>1. /\ refresh[t].token \in Sids /\ Held(t, refresh[t].token)
          /\ ~ Knows(t, refresh[t].token)
      BY <1>2 DEF AnswerRefresh, Inv, ClientInv, RefreshInv, RefreshFits, Refresh, Held,
         Knows
    <2>2. QED
      BY <1>2, <2>1 DEF HonestInv, HoldersInv, RotatedKnown
  <1>3. Inv /\ HonestInv /\ [Next]_vars =>
            [\A t \in Tabs : AnswerRefresh(t) /\ refresh[t].token \in rotated
                            => refresh[t].token \in strays]_vars
    BY <1>2
  <1>4. QED
    BY HonestInit, Invariant, <1>1, <1>3, PTL DEF Spec, HonestReplays

-----------------------------------------------------------------------------
(***************************************************************************)
(* A sign-out that was answered has closed the session the tab holds.      *)
(***************************************************************************)
\* k: a call of a tab that holds tok; st and exp stand for status and expired.
SignOutFits(k, tok, st, exp) ==
    k.op = "logout" /\ ~ k.crossed =>
        /\ tok # None => k.token = tok
        /\ k.pc = "ok" => k.token # None /\ st[k.token] # "live"
        /\ k.pc = "unauthorized" => k.token \in exp

SignOutsInv ==
    \A t \in Tabs, c \in Calls :
        SignOutFits(call[t][c], memory[t].tokens, status, expired)

LEMMA SignOutStays ==
    ASSUME Inv, RowsKept, expired \subseteq expired', SignOutsInv,
           NEW t \in Tabs, NEW c \in Calls
    PROVE  SignOutFits(call[t][c], memory[t].tokens, status', expired')
  <1>1. CallFits(call[t][c], status, owner)
        /\ SignOutFits(call[t][c], memory[t].tokens, status, expired)
    BY DEF Inv, ClientInv, CallsInv, SignOutsInv
  <1>2. \A s \in Sids : status[s] \in {"unissued", "live", "revoked", "deleted"}
    BY DEF Inv, RowInv, RowsTyped, Statuses
  <1>3. QED
    BY <1>1, <1>2 DEF CallFits, Call, SignOutFits, RowsKept, Issued, Closed

\* One call changes, or none; the tabs keep their tokens.
LEMMA SignOutsUpdated ==
    ASSUME Inv, RowsKept, expired \subseteq expired', SignOutsInv,
           \A u \in Tabs : memory'[u].tokens = memory[u].tokens,
           NEW t \in Tabs, NEW c \in Calls, NEW x,
           SignOutFits(x, memory[t].tokens, status', expired'),
           call' = [call EXCEPT ![t][c] = x]
    PROVE  SignOutsInv'
  <1>1. \A u \in Tabs, d \in Calls :
            call'[u][d] = IF u = t /\ d = c THEN x ELSE call[u][d]
    BY DEF Inv, ClientInv, CallsInv
  <1>2. ASSUME NEW u \in Tabs, NEW d \in Calls
        PROVE  SignOutFits(call'[u][d], memory'[u].tokens, status', expired')
    BY <1>1, SignOutStays
  <1>3. QED
    BY <1>2 DEF SignOutsInv

LEMMA SignOutsUnchanged ==
    ASSUME Inv, RowsKept, expired \subseteq expired', SignOutsInv, UNCHANGED <<memory, call>>
    PROVE  SignOutsInv'
  BY SignOutStays DEF SignOutsInv

\* One tab changes its calls and its tokens.
LEMMA SignOutsOfTab ==
    ASSUME Inv, RowsKept, expired \subseteq expired', SignOutsInv, NEW t \in Tabs,
           \A u \in Tabs \ {t} : memory'[u] = memory[u] /\ call'[u] = call[u],
           \A c \in Calls : SignOutFits(call'[t][c], memory'[t].tokens, status', expired')
    PROVE  SignOutsInv'
  BY SignOutStays DEF SignOutsInv

LEMMA IdleSignOut == ASSUME NEW tok, NEW st, NEW exp PROVE SignOutFits(Idle, tok, st, exp)
  BY DEF SignOutFits, Idle

LEMMA SignOutsKept ==
    ASSUME Inv, SignOutsInv, RowsKept, [Next]_vars PROVE SignOutsInv'
  <1> USE DEF server, history, client
  <1>0. /\ call \in [Tabs -> [Calls -> Call]] /\ memory \in [Tabs -> Store]
        /\ \A t \in Tabs, c \in Calls : call[t][c] \in Call
    BY DEF Inv, ClientInv, CallsInv, StoreInv
  <1>1. expired \subseteq expired'
    <2>1. ASSUME NEW t \in Tabs, NEW c \in Calls, UserActs(t, c) PROVE UNCHANGED expired
      BY <2>1 DEF UserActs, Me, Query, Logout, LogoutAll, ChangePassword, Login, Send
    <2>2. ASSUME NEW t \in Tabs, NEW c \in Calls, ServerAnswers(t, c)
          PROVE  UNCHANGED expired
      BY <2>2 DEF ServerAnswers, AnswerLogin, AnswerMe, AnswerQuery, AnswerLogout,
                  AnswerLogoutAll, AnswerChangePassword, AnswerUnauthorized
    <2>3. ASSUME NEW t \in Tabs, NEW c \in Calls, TabContinues(t, c)
          PROVE  UNCHANGED expired
      BY <2>3 DEF TabContinues, Unauthorized, NoRefreshToken, Load, ProfileDone,
                  LoginDone, SignedOut, Rejected
    <2>4. ASSUME NEW t \in Tabs, Load(t) \/ RefreshSettles(t) PROVE UNCHANGED expired
      BY <2>4 DEF Load, RefreshSettles, SelectRefresh, AnswerRefresh, Rotate, Refuse,
                  Replay, Missing, Refreshed, NotRefreshed
    <2>5. ASSUME NEW o \in orphans, SelectOrphan(o) \/ AnswerOrphan(o)
          PROVE  UNCHANGED expired
      BY <2>5 DEF SelectOrphan, AnswerOrphan, Rotate, Refuse, Replay, Missing
    <2>6. ASSUME NEW s \in Sids, AccessExpires(s) PROVE expired \subseteq expired'
      BY <2>6 DEF AccessExpires
    <2>7. QED
      BY <2>1, <2>2, <2>3, <2>4, <2>5, <2>6 DEF Next, vars
  <1>2. ASSUME NEW t \in Tabs, NEW c \in Calls, UserActs(t, c) PROVE SignOutsInv'
    <2>1. PICK op : Send(t, c, op)
      BY <1>2 DEF UserActs, Me, Query, Logout, LogoutAll, ChangePassword, Login
    <2> DEFINE x == [Idle EXCEPT !.op = op, !.pc = "sent", !.token = Tokens(t)]
    <2>2. SignOutFits(x, memory[t].tokens, status', expired')
      BY DEF SignOutFits, Idle, Tokens
    <2>3. call' = [call EXCEPT ![t][c] = x] /\ UNCHANGED memory
      BY <2>1 DEF Send
    <2>4. QED
      BY <1>1, <2>2, <2>3, SignOutsUpdated
  <1>3. ASSUME NEW t \in Tabs, NEW c \in Calls, ServerAnswers(t, c) PROVE SignOutsInv'
    <2> DEFINE k == call[t][c]
    <2>1. PICK x : call' = [call EXCEPT ![t][c] = x]
                   /\ SignOutFits(x, memory[t].tokens, status', expired')
      <3>1. SignOutFits(k, memory[t].tokens, status', expired')
        BY <1>1, SignOutStays
      <3>2. CASE AnswerQuery(t, c) \/ AnswerChangePassword(t, c)
        BY <3>2, IdleSignOut DEF AnswerQuery, AnswerChangePassword
      <3>3. CASE AnswerLogin(t, c) \/ AnswerMe(t, c) \/ AnswerLogoutAll(t, c)
        <4>1. PICK pc, result, new :
                  call' = [call EXCEPT ![t][c] = [k EXCEPT !.pc = pc, !.result = result,
                                                      !.new = new]]
          <5>1. CASE AnswerLogin(t, c)
            <6>1. PICK s : call' = [call EXCEPT ![t][c] = [@ EXCEPT !.pc = "ok", !.new = s]]
              BY <5>1 DEF AnswerLogin
            <6>2. call' = [call EXCEPT ![t][c] = [k EXCEPT !.pc = "ok",
                                                      !.result = k.result, !.new = s]]
              BY ZenonT(30), <1>0, <6>1 DEF Call
            <6>3. QED
              BY <6>2
          <5>2. CASE AnswerMe(t, c)
            <6>1. call' = [call EXCEPT ![t][c] = [k EXCEPT !.pc = "ok",
                               !.result = ProfileOf(k.token), !.new = k.new]]
              BY ZenonT(30), <1>0, <5>2 DEF AnswerMe, Call
            <6>2. QED
              BY <6>1
          <5>3. CASE AnswerLogoutAll(t, c)
            <6>1. call' = [call EXCEPT ![t][c] = [k EXCEPT !.pc = "ok",
                               !.result = k.result, !.new = k.new]]
              BY <1>0, <5>3 DEF AnswerLogoutAll, Answered, Call
            <6>2. QED
              BY <6>1
          <5>4. QED
            BY <3>3, <5>1, <5>2, <5>3
        <4> DEFINE x == [k EXCEPT !.pc = pc, !.result = result, !.new = new]
        <4>2. x.op # "logout"
          BY <1>0, <3>3 DEF AnswerLogin, AnswerMe, AnswerLogoutAll, Call
        <4>3. SignOutFits(x, memory[t].tokens, status', expired')
          BY <4>2 DEF SignOutFits
        <4>4. QED
          BY <4>1, <4>3
      <3>4. CASE AnswerLogout(t, c)
        <4> DEFINE x == [k EXCEPT !.pc = "ok"]
        <4>1. call' = [call EXCEPT ![t][c] = x]
          BY <3>4 DEF AnswerLogout, Answered
        <4>2. k \in Call /\ k.token \in Sids
          BY <1>0, <3>4 DEF AnswerLogout, Call
        <4>3. status'[k.token] # "live"
          BY <4>2, <3>4 DEF AnswerLogout, Revoking
        <4>4. SignOutFits(x, memory[t].tokens, status', expired')
          BY <3>1, <4>2, <4>3, NoneIsNoSession DEF SignOutFits, Call
        <4>5. QED
          BY <4>1, <4>4
      <3>5. CASE AnswerUnauthorized(t, c)
        <4> DEFINE x == [k EXCEPT !.pc = "unauthorized"]
        <4>1. call' = [call EXCEPT ![t][c] = x]
          BY <3>5 DEF AnswerUnauthorized, Answered
        <4>2. k.op = "logout" => k.token \in expired'
          BY <1>1, <3>5 DEF AnswerUnauthorized
        <4>3. SignOutFits(x, memory[t].tokens, status', expired')
          BY <1>0, <3>1, <4>2 DEF SignOutFits, Call
        <4>4. QED
          BY <4>1, <4>3
      <3>6. QED
        BY <1>3, <3>2, <3>3, <3>4, <3>5 DEF ServerAnswers
    <2>2. UNCHANGED memory
      BY <1>3 DEF ServerAnswers, AnswerLogin, AnswerMe, AnswerQuery, AnswerLogout,
                  AnswerLogoutAll, AnswerChangePassword, AnswerUnauthorized
    <2>3. QED
      BY <1>1, <2>1, <2>2, SignOutsUpdated
  <1>4. ASSUME NEW t \in Tabs, Load(t) \/ NotRefreshed(t) PROVE SignOutsInv'
    <2>1. \A u \in Tabs \ {t} : memory'[u] = memory[u] /\ call'[u] = call[u]
      BY <1>0, <1>4 DEF Load, NotRefreshed, Clear, Set
    <2>2. \A c \in Calls : call'[t][c] = Idle
      BY <1>0, <1>4 DEF Load, NotRefreshed
    <2>3. QED
      BY <1>1, <2>1, <2>2, IdleSignOut, SignOutsOfTab
  <1>5. ASSUME NEW t \in Tabs, Refreshed(t) PROVE SignOutsInv'
    <2> DEFINE n == refresh[t].new
    <2>1. /\ \A u \in Tabs \ {t} : memory'[u] = memory[u] /\ call'[u] = call[u]
          /\ memory'[t].tokens = n
      BY <1>0, <1>5 DEF Refreshed, SetTokens, Set, Store
    <2>2. ASSUME NEW c \in Calls
          PROVE  SignOutFits(call'[t][c], memory'[t].tokens, status', expired')
      <3> DEFINE k == call[t][c]
      <3>1. call'[t][c] = IF k.pc = "waiting" THEN [k EXCEPT !.pc = "sent", !.token = n]
                          ELSE [k EXCEPT !.crossed = k.op = "logout"]
        BY <1>0, <1>5 DEF Refreshed, RetriedWith
      <3>2. SignOutFits([k EXCEPT !.pc = "sent", !.token = n], memory'[t].tokens,
                        status', expired')
        BY <1>0, <2>1 DEF SignOutFits, Call
      <3>3. SignOutFits([k EXCEPT !.crossed = k.op = "logout"], memory'[t].tokens,
                        status', expired')
        BY ZenonT(30), <1>0 DEF SignOutFits, Call
      <3>4. QED
        BY <3>1, <3>2, <3>3
    <2>3. QED
      BY <1>1, <2>1, <2>2, SignOutsOfTab
  <1>6. ASSUME NEW t \in Tabs, NEW c \in Calls, LoginDone(t, c) PROVE SignOutsInv'
    <2> DEFINE x == [Idle EXCEPT !.op = "login_me", !.pc = "sent", !.token = call[t][c].new]
    <2>1. \A u \in Tabs \ {t} : memory'[u] = memory[u] /\ call'[u] = call[u]
      BY <1>0, <1>6 DEF LoginDone, SetTokens, Set
    <2>2. ASSUME NEW d \in Calls
          PROVE  SignOutFits(call'[t][d], memory'[t].tokens, status', expired')
      <3> DEFINE k == call[t][d]
      <3>1. call'[t][d] = IF d = c THEN x ELSE [k EXCEPT !.crossed = k.op = "logout"]
        BY <1>0, <1>6 DEF LoginDone
      <3>2. SignOutFits(x, memory'[t].tokens, status', expired')
        BY DEF SignOutFits, Idle
      <3>3. SignOutFits([k EXCEPT !.crossed = k.op = "logout"], memory'[t].tokens,
                        status', expired')
        BY ZenonT(30), <1>0 DEF SignOutFits, Call
      <3>4. QED
        BY <3>1, <3>2, <3>3
    <2>3. QED
      BY <1>1, <2>1, <2>2, SignOutsOfTab
  <1>7. ASSUME NEW t \in Tabs, NEW c \in Calls, SignedOut(t, c) PROVE SignOutsInv'
    <2>1. /\ \A u \in Tabs \ {t} : memory'[u] = memory[u] /\ call'[u] = call[u]
          /\ memory'[t].tokens = None
      BY <1>0, <1>7 DEF SignedOut, Clear, Set, Empty, Forgotten
    <2>2. ASSUME NEW d \in Calls
          PROVE  SignOutFits(call'[t][d], memory'[t].tokens, status', expired')
      <3> DEFINE k == call[t][d]
      <3>1. call'[t][d] = IF d = c THEN Idle
                          ELSE IF k.op = "me" THEN [k EXCEPT !.op = "query"] ELSE k
        BY <1>0, <1>7 DEF SignedOut, Forgotten
      <3>2. SignOutFits([k EXCEPT !.op = "query"], memory'[t].tokens, status', expired')
        BY <1>0 DEF SignOutFits, Call
      <3>3. SignOutFits(k, memory[t].tokens, status', expired')
        BY <1>1, SignOutStays
      <3>4. SignOutFits(k, memory'[t].tokens, status', expired')
        BY <2>1, <3>3 DEF SignOutFits
      <3>5. QED
        BY <3>1, <3>2, <3>4, IdleSignOut
    <2>3. QED
      BY <1>1, <2>1, <2>2, SignOutsOfTab
  <1>8. ASSUME NEW t \in Tabs, NEW c \in Calls,
               Unauthorized(t, c) \/ ProfileDone(t, c) \/ Rejected(t, c)
        PROVE  SignOutsInv'
    <2>1. PICK x : call' = [call EXCEPT ![t][c] = x]
                   /\ SignOutFits(x, memory[t].tokens, status', expired')
      <3>1. CASE ProfileDone(t, c) \/ Rejected(t, c)
        BY <3>1, IdleSignOut DEF ProfileDone, Rejected, Settled
      <3>2. CASE Unauthorized(t, c)
        <4> DEFINE x == [call[t][c] EXCEPT !.retry = TRUE, !.pc = "waiting"]
        <4>1. call' = [call EXCEPT ![t][c] = x]
          BY <1>0, <3>2 DEF Unauthorized
        <4>2. SignOutFits(call[t][c], memory[t].tokens, status', expired')
          BY <1>1, SignOutStays
        <4>3. SignOutFits(x, memory[t].tokens, status', expired')
          BY <1>0, <4>2 DEF SignOutFits, Call
        <4>4. QED
          BY <4>1, <4>3
      <3>3. QED
        BY <1>8, <3>1, <3>2
    <2>2. \A u \in Tabs : memory'[u].tokens = memory[u].tokens
      <3>1. CASE Unauthorized(t, c) \/ Rejected(t, c)
        BY <3>1 DEF Unauthorized, Rejected
      <3>2. CASE ProfileDone(t, c)
        BY <1>0, <3>2 DEF ProfileDone, SetUser, Set, Store
      <3>3. QED
        BY <1>8, <3>1, <3>2
    <2>3. QED
      BY <1>1, <2>1, <2>2, SignOutsUpdated
  <1>9. ASSUME \/ UNCHANGED vars
               \/ \E o \in orphans : SelectOrphan(o) \/ AnswerOrphan(o)
               \/ \E s \in Sids : AccessExpires(s)
               \/ \E t \in Tabs : SelectRefresh(t) \/ AnswerRefresh(t)
        PROVE  SignOutsInv'
    <2>1. UNCHANGED <<memory, call>>
      BY <1>9 DEF vars, SelectOrphan, AnswerOrphan, AccessExpires, SelectRefresh,
                  AnswerRefresh
    <2>2. QED
      BY <1>1, <2>1, SignOutsUnchanged
  <1>10. QED
    BY <1>2, <1>3, <1>4, <1>5, <1>6, <1>7, <1>8, <1>9
       DEF Next, RefreshSettles, TabContinues, NoRefreshToken

\* A sign-out that gets its answer leaves no live session of the tab behind, unless its
\* tokens changed under way or its access token expired once more.
THEOREM SignOutCloses == Spec => SignOutClosesSession
  <1>1. Init => SignOutsInv
    BY DEF Init, SignOutsInv, SignOutFits, Idle
  <1>2. Inv /\ SignOutsInv /\ [Next]_vars => SignOutsInv'
    BY StepKeeps, RowStepKeeps, SignOutsKept DEF Inv
  <1>3. ASSUME Inv, SignOutsInv, NEW t \in Tabs, NEW c \in Calls,
               SignedOut(t, c), call[t][c].op = "logout", call[t][c].pc # "sent",
               ~ call[t][c].crossed, Tokens(t) # None, status[Tokens(t)] = "live"
        PROVE  Tokens(t) \in expired
    BY <1>3 DEF SignedOut, Fails, SignOutsInv, SignOutFits, Tokens
  <1>4. Inv /\ SignOutsInv /\ [Next]_vars =>
            [\A t \in Tabs, c \in Calls :
                /\ SignedOut(t, c) /\ call[t][c].op = "logout"
                /\ call[t][c].pc # "sent" /\ ~ call[t][c].crossed
                /\ Tokens(t) # None /\ status[Tokens(t)] = "live"
                => Tokens(t) \in expired]_vars
    BY <1>3
  <1>5. QED
    BY Invariant, <1>1, <1>2, <1>4, PTL DEF Spec, SignOutClosesSession
=============================================================================
