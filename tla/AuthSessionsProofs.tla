------------------------- MODULE AuthSessionsProofs -------------------------
(***************************************************************************)
(* Theorems about AuthSessions and AuthOverlaps, for every set of users,   *)
(* sessions and requests and for every lifetime of tokens.                 *)
(***************************************************************************)
EXTENDS AuthOverlaps, FiniteSetTheorems, TLAPS

\* The tuple of what an account holds is written out everywhere below.
USE DEF accounts

\* What a request x holds, besides its type: whom it runs for, which session was
\* presented, which unused id it has drawn, and committed rows it has selected.
RecordOK(x) ==
    /\ x.pc # "idle" => x.user \in Users
    /\ x.op \notin {"none", "login"} => /\ x.sid \in Issued
                                        /\ x.user = token[x.sid].user
    /\ x.op = "login" => x.pc \in {"login", "login_commit"}
    /\ x.op = "refresh" => x.pc \notin {"auth_all", "auth_session", "auth_user",
                                         "authorized"}
    /\ x.op = "none" => x.pc = "idle"
    /\ x.pc \in {"login_commit", "rotate_commit"} => x.new # None
    /\ x.new # None => row[x.new] = "unissued"
    /\ x.rows \subseteq Issued

\* Two requests never hold the same new id.
TypeInv ==
    /\ TypeOK
    /\ \A r \in Requests : RecordOK(req[r])
    /\ \A q, r \in Requests : q # r /\ req[q].new # None => req[q].new # req[r].new

\* Why a closed session stays closed: a request that began after the closing is
\* rejected or treated as a replay, the session presented with a replay is closed,
\* and a logout either still has to revoke its row or found it revoked or gone.
ClosedInv ==
    /\ ClosedSessionsStayClosed
    /\ ClosedSessionsMintNothing
    /\ \A r \in Requests :
        /\ req[r].op = "refresh" /\ req[r].barred => req[r].sid \in closed
        /\ req[r].pc \in {"reuse", "reuse_mark", "reuse_update"} =>
               row[req[r].sid] \in {"revoked", "deleted"}
        /\ req[r].op = "logout" /\ row[req[r].sid] = "live" =>
               req[r].sid \in req[r].rows

\* What is left of the protection of an invalidated session: a marker that outlives
\* one of its tokens, unless Redis has evicted one.
Covered(s) ==
    \/ AccessExp(s) <= revoked_session[s]
    \/ RefreshExp(s) <= revoked_all[token[s].user]
    \/ s \in evicted

\* A session whose access token may be accepted although it is invalidated.
Over(s) == AccessExp(s) <= now \/ RefreshExp(s) <= now \/ s \in evicted

\* No token or marker comes from the future, so writing a marker again never
\* shortens it.
ClockInv ==
    /\ \A s \in Issued : token[s].iat <= now
    /\ \A r \in Requests : req[r].iat <= now
    /\ \A s \in SessionIds : revoked_session[s] <= now + AccessTTL
    /\ \A u \in Users : revoked_all[u] <= now + RefreshTTL

\* What a request that presented an invalidated token knows after each check.
RefusedInv ==
    /\ \A s \in invalidated : s \in Issued /\ Covered(s)
    /\ \A r \in Requests :
        LET s == req[r].sid IN
        req[r].barred /\ req[r].op \notin {"none", "login", "refresh"} =>
            /\ s \in invalidated
            /\ req[r].pc = "auth_session" => Over(s) \/ AccessExp(s) <= revoked_session[s]
            /\ req[r].pc \in {"auth_user", "authorized"} => Over(s)

\* A rotation's new tokens are not older than the session they replace.
LineageInv ==
    /\ Lineage
    /\ \A r \in Requests :
           req[r].pc = "rotate_commit" => token[req[r].sid].iat <= req[r].iat

LEMMA IdleType == Idle \in Request
  BY BoundAssumption DEF Idle, Request, Time, Passwords, Operations, Steps

\* Moving a request on, with the rows it has selected.
LEMMA MoveType ==
  ASSUME NEW x \in Request, NEW pc \in Steps, NEW rows \in SUBSET SessionIds
  PROVE  [x EXCEPT !.pc = pc, !.rows = rows] \in Request
  BY DEF Request

LEMMA StepType ==
  ASSUME NEW x \in Request, NEW pc \in Steps
  PROVE  [x EXCEPT !.pc = pc] \in Request
  BY DEF Request

\* Beginning a request that presents the token of session s.
LEMMA BeginType ==
  ASSUME NEW op \in Operations, NEW pc \in Steps, NEW u \in Users,
         NEW s \in SessionIds, NEW barred \in BOOLEAN
  PROVE  [Idle EXCEPT !.op = op, !.pc = pc, !.user = u, !.sid = s,
                      !.barred = barred] \in Request
  BY IdleType DEF Idle, Request

LEMMA InitTypeInv == Init => TypeInv
  <1> SUFFICES ASSUME Init PROVE TypeInv
    OBVIOUS
  <1>1. TypeOK
    BY IdleType, BoundAssumption, TTLAssumption
    DEF Init, TypeOK, Time, Passwords, RowState, Expiry
  <1>2. QED
    BY <1>1 DEF TypeInv, Init, RecordOK, Idle

\* A step that only moves request r on to x, with the id it held or none.
LEMMA RequestStep ==
  ASSUME TypeInv, NEW r \in Requests, NEW x \in Request, RecordOK(x),
         x.new \in {None, req[r].new},
         req' = [req EXCEPT ![r] = x],
         UNCHANGED <<now, db, cache, invalidated, closed>>
  PROVE  TypeInv'
  <1>1. TypeOK'
    BY DEF TypeInv, TypeOK, db, cache
  <1>2. ASSUME NEW q \in Requests PROVE RecordOK(req[q])'
    BY DEF TypeInv, TypeOK, RecordOK, db, Issued
  <1>3. QED
    BY <1>1, <1>2 DEF TypeInv, TypeOK

\* A step of request r that moves it to pc, and it remains the request it is.
Enters(r, pc) ==
    /\ req' = [req EXCEPT ![r] = req'[r]]
    /\ req'[r].pc = pc /\ req'[r].op = req[r].op /\ req'[r].user = req[r].user
    /\ req'[r].sid = req[r].sid /\ req'[r].barred = req[r].barred

LEMMA EnteringMoves ==
  ASSUME TypeOK, NEW r \in Requests
  PROVE  /\ \A s : LoginIssue(r, s) => Enters(r, "login_commit")
         /\ \A s : RotateIssue(r, s) => Enters(r, "rotate_commit")
         /\ ReuseSelect(r) => Enters(r, "reuse_mark")
         /\ ReuseUpdate(r) =>
                Enters(r, "reuse_update") /\ req'[r].rows = req[r].rows /\ req'[r].done = {}
         /\ LogoutAllBegin(r) => Enters(r, "all_update")
  <1>1. req[r] \in Request /\ req \in [Requests -> Request]
    BY DEF TypeOK
  <1>2. ASSUME NEW x, req' = [req EXCEPT ![r] = x]
        PROVE  req'[r] = x /\ req' = [req EXCEPT ![r] = req'[r]]
    BY <1>1, <1>2
  <1>3. ASSUME NEW s, LoginIssue(r, s)
        PROVE  Enters(r, "login_commit")
    <2> DEFINE x == [req[r] EXCEPT !.pc = "login_commit", !.new = s, !.iat = now]
    <2>1. /\ x.pc = "login_commit" /\ x.op = req[r].op /\ x.user = req[r].user
          /\ x.sid = req[r].sid /\ x.barred = req[r].barred
      BY <1>1 DEF Request
    <2>2. req' = [req EXCEPT ![r] = x]
      BY <1>3 DEF LoginIssue
    <2> HIDE DEF x
    <2>3. QED
      BY <1>2, <2>1, <2>2 DEF Enters
  <1>4. ASSUME NEW s, RotateIssue(r, s)
        PROVE  Enters(r, "rotate_commit")
    <2> DEFINE x == [req[r] EXCEPT !.pc = "rotate_commit", !.new = s, !.iat = now]
    <2>1. /\ x.pc = "rotate_commit" /\ x.op = req[r].op /\ x.user = req[r].user
          /\ x.sid = req[r].sid /\ x.barred = req[r].barred
      BY <1>1 DEF Request
    <2>2. req' = [req EXCEPT ![r] = x]
      BY <1>4 DEF RotateIssue
    <2> HIDE DEF x
    <2>3. QED
      BY <1>2, <2>1, <2>2 DEF Enters
  <1>5. ASSUME ReuseSelect(r)
        PROVE  Enters(r, "reuse_mark")
    <2> DEFINE x == [req[r] EXCEPT !.pc = "reuse_mark", !.rows = Live \cap FamilyOf(req[r].sid)]
    <2>1. /\ x.pc = "reuse_mark" /\ x.op = req[r].op /\ x.user = req[r].user
          /\ x.sid = req[r].sid /\ x.barred = req[r].barred
      BY <1>1 DEF Request
    <2>2. req' = [req EXCEPT ![r] = x]
      BY <1>5 DEF ReuseSelect
    <2> HIDE DEF x
    <2>3. QED
      BY <1>2, <2>1, <2>2 DEF Enters
  <1>6. ASSUME ReuseUpdate(r)
        PROVE  Enters(r, "reuse_update") /\ req'[r].rows = req[r].rows /\ req'[r].done = {}
    <2> DEFINE x == [req[r] EXCEPT !.pc = "reuse_update", !.done = {}]
    <2>1. /\ x.pc = "reuse_update" /\ x.op = req[r].op /\ x.user = req[r].user
          /\ x.sid = req[r].sid /\ x.barred = req[r].barred
          /\ x.rows = req[r].rows /\ x.done = {}
      BY <1>1 DEF Request
    <2>2. req' = [req EXCEPT ![r] = x]
      BY <1>6 DEF ReuseUpdate
    <2> HIDE DEF x
    <2>3. QED
      BY <1>2, <2>1, <2>2 DEF Enters
  <1>7. ASSUME LogoutAllBegin(r)
        PROVE  Enters(r, "all_update")
    <2> DEFINE x == [req[r] EXCEPT !.pc = "all_update", !.rows = Live \cap RowsOf(req[r].user)]
    <2>1. /\ x.pc = "all_update" /\ x.op = req[r].op /\ x.user = req[r].user
          /\ x.sid = req[r].sid /\ x.barred = req[r].barred
      BY <1>1 DEF Request
    <2>2. req' = [req EXCEPT ![r] = x]
      BY <1>7 DEF LogoutAllBegin
    <2> HIDE DEF x
    <2>3. QED
      BY <1>2, <2>1, <2>2 DEF Enters
  <1>8. QED
    BY <1>3, <1>4, <1>5, <1>6, <1>7

\* A step that gives request r a fresh id.
LEMMA IssueStep ==
  ASSUME TypeInv, NEW r \in Requests, NEW s \in Fresh, NEW x \in Request, RecordOK(x),
         x.new = s, req' = [req EXCEPT ![r] = x],
         UNCHANGED <<now, db, cache, invalidated, closed>>
  PROVE  TypeInv'
  <1>1. TypeOK'
    BY DEF TypeInv, TypeOK, db, cache
  <1>2. ASSUME NEW q \in Requests PROVE RecordOK(req[q])'
    BY DEF TypeInv, TypeOK, RecordOK, db, Issued
  <1>3. \A q \in Requests : req[q].new # s
    BY DEF Fresh
  <1>4. QED
    BY <1>1, <1>2, <1>3 DEF TypeInv, TypeOK

\* Locking a row leaves a request where it is: the row joins those it has locked, or
\* is passed over.
LEMMA LockingMoves ==
  ASSUME TypeInv, NEW r \in Requests, NEW s \in SessionIds, LockRow(r, s)
  PROVE  \E x \in Request :
            /\ req' = [req EXCEPT ![r] = x]
            /\ x.op = req[r].op /\ x.pc = req[r].pc /\ x.user = req[r].user
            /\ x.sid = req[r].sid /\ x.new = req[r].new /\ x.iat = req[r].iat
            /\ x.pwd = req[r].pwd /\ x.barred = req[r].barred
            /\ x.rows \subseteq req[r].rows
            /\ \/ /\ x.rows = req[r].rows /\ x.done = req[r].done \cup {s}
                  /\ Matches(r, s)
               \/ /\ x.rows = req[r].rows \ {s} /\ x.done = req[r].done
                  /\ ~ Matches(r, s)
  <1>rec. req[r] \in Request /\ s \in SessionIds
    BY DEF TypeInv, TypeOK
  <1>1. CASE Matches(r, s)
    <2> DEFINE x == [req[r] EXCEPT !.done = @ \cup {s}]
    <2>1. x \in Request /\ req' = [req EXCEPT ![r] = x]
      BY <1>rec, <1>1 DEF LockRow, Request, TypeInv, TypeOK
    <2>2. QED
      BY <1>rec, <1>1, <2>1 DEF Request
  <1>2. CASE ~ Matches(r, s)
    <2> DEFINE x == [req[r] EXCEPT !.rows = @ \ {s}]
    <2>1. x \in Request /\ req' = [req EXCEPT ![r] = x]
      BY <1>rec, <1>2 DEF LockRow, Request, TypeInv, TypeOK
    <2>2. QED
      BY <1>rec, <1>2, <2>1 DEF Request
  <1>3. QED
    BY <1>1, <1>2

LEMMA TypeInvStep == TypeInv /\ [Next]_vars => TypeInv'
  <1> SUFFICES ASSUME TypeInv, [Next]_vars PROVE TypeInv'
    OBVIOUS
  <1>req. ASSUME NEW r \in Requests PROVE req[r] \in Request /\ RecordOK(req[r])
    BY DEF TypeInv, TypeOK
  <1>idle. Idle \in Request /\ RecordOK(Idle) /\ Idle.new = None
    BY IdleType DEF Idle, RecordOK
  <1>rows. /\ Issued \subseteq SessionIds
           /\ Live \subseteq Issued
           /\ \A u \in Users : /\ RowsOf(u) \subseteq Issued
                              /\ password[u] \in Passwords
           /\ \A s \in Issued : FamilyOf(s) \subseteq Issued /\ token[s].user \in Users
    BY DEF TypeInv, TypeOK, Issued, Live, RowsOf, FamilyOf, Token
  <1>finish. ASSUME NEW r \in Requests, Finish(r),
                    UNCHANGED <<now, db, cache, invalidated, closed>>
             PROVE  TypeInv'
    BY <1>idle, <1>finish, RequestStep DEF Finish
  <1>1. ASSUME NEW r \in Requests, NEW u \in Users,
               LoginSelect(r, u)
        PROVE  TypeInv'
    <2> DEFINE x == [Idle EXCEPT !.op = "login", !.pc = "login",
                           !.user = u, !.pwd = password[u]]
    <2>1. x \in Request
      BY <1>1, <1>idle, <1>rows DEF LoginSelect, Idle, Request, Operations, Steps
    <2>2. RecordOK(x) /\ x.new = None
      BY <1>1, <1>rows DEF LoginSelect, RecordOK, Idle
    <2>3. QED
      BY <1>1, <2>1, <2>2, RequestStep DEF LoginSelect
  <1>2. ASSUME NEW r \in Requests, NEW s \in SessionIds,
               RefreshDecode(r, s)
        PROVE  TypeInv'
    <2> DEFINE x == [Idle EXCEPT !.op = "refresh", !.pc = "refresh",
                           !.user = token[s].user, !.sid = s, !.barred = (s \in closed)]
    <2>1. x \in Request
      <3>1. /\ "refresh" \in Operations /\ "refresh" \in Steps
            /\ token[s].user \in Users
        BY <1>2, <1>rows DEF RefreshDecode, Operations, Steps
      <3>2. (s \in closed) \in BOOLEAN
        OBVIOUS
      <3>3. QED
        BY <3>1, <3>2, BeginType, Zenon
    <2>2. RecordOK(x) /\ x.new = None
      BY <1>2, <1>rows DEF RefreshDecode, RecordOK, Idle
    <2>3. QED
      BY <1>2, <2>1, <2>2, RequestStep DEF RefreshDecode
  <1>3. ASSUME NEW r \in Requests, NEW s \in SessionIds,
               LogoutSelect(r, s)
        PROVE  TypeInv'
    <2> DEFINE x == [Idle EXCEPT !.op = "logout", !.pc = "logout_mark",
                           !.user = token[s].user, !.sid = s, !.rows = {s} \cap Live]
    <2>1. x \in Request
      BY <1>3, <1>idle, <1>rows DEF LogoutSelect, Idle, Request, Operations, Steps
    <2>2. RecordOK(x) /\ x.new = None
      BY <1>3, <1>rows DEF LogoutSelect, RecordOK, Idle
    <2>3. QED
      BY <1>3, <2>1, <2>2, RequestStep DEF LogoutSelect
  <1>4. ASSUME NEW r \in Requests, NEW s \in SessionIds,
               NEW op \in {"me", "logout_all", "change_password"} \cap Guarded,
               Authenticate(r, s, op)
        PROVE  TypeInv'
    <2> DEFINE x == [Idle EXCEPT !.op = op, !.pc = "auth_all",
                           !.user = token[s].user, !.sid = s, !.barred = (s \in invalidated)]
    <2>1. x \in Request
      <3>1. op \in Operations /\ "auth_all" \in Steps /\ token[s].user \in Users
        BY <1>4, <1>rows DEF Authenticate, Operations, Steps
      <3>2. (s \in invalidated) \in BOOLEAN
        OBVIOUS
      <3>3. QED
        BY <3>1, <3>2, BeginType, Zenon
    <2>2. RecordOK(x) /\ x.new = None
      BY <1>4, <1>rows DEF Authenticate, RecordOK, Idle
    <2>3. QED
      BY <1>4, <2>1, <2>2, RequestStep DEF Authenticate
  <1>5. ASSUME NEW r \in Requests,
               CheckRevokedAll(r)
        PROVE  TypeInv'
    <2> DEFINE x == [req[r] EXCEPT !.pc = "auth_session"]
    <2>1. x \in Request
      BY <1>5, <1>req, <1>rows DEF CheckRevokedAll, At, RecordOK, Request, Steps
    <2>2. RecordOK(x) /\ x.new = req[r].new
      BY <1>5, <1>req, <1>rows DEF CheckRevokedAll, At, RecordOK, Request
    <2>3. Finish(r) \/ req' = [req EXCEPT ![r] = x]
      BY <1>5, <1>req DEF CheckRevokedAll, Request
    <2>4. QED
      BY <1>5, <1>finish, <2>1, <2>2, <2>3, RequestStep DEF CheckRevokedAll
  <1>6. ASSUME NEW r \in Requests,
               CheckRevokedSession(r)
        PROVE  TypeInv'
    <2> DEFINE x == [req[r] EXCEPT !.pc = "auth_user"]
    <2>1. x \in Request
      BY <1>6, <1>req, <1>rows DEF CheckRevokedSession, At, RecordOK, Request, Steps
    <2>2. RecordOK(x) /\ x.new = req[r].new
      BY <1>6, <1>req, <1>rows DEF CheckRevokedSession, At, RecordOK, Request
    <2>3. Finish(r) \/ req' = [req EXCEPT ![r] = x]
      BY <1>6, <1>req DEF CheckRevokedSession, Request
    <2>4. QED
      BY <1>6, <1>finish, <2>1, <2>2, <2>3, RequestStep DEF CheckRevokedSession
  <1>7. ASSUME NEW r \in Requests,
               LoadUser(r)
        PROVE  TypeInv'
    <2> DEFINE x == [req[r] EXCEPT !.pc = "authorized"]
    <2>1. x \in Request
      BY <1>req, StepType DEF Steps
    <2>2. RecordOK(x) /\ x.new = req[r].new
      BY <1>7, <1>req, <1>rows DEF LoadUser, At, RecordOK, Request
    <2>3. req' = [req EXCEPT ![r] = x]
      BY <1>7, <1>req DEF LoadUser, TypeInv, TypeOK, Request
    <2>4. QED
      BY <1>7, <2>1, <2>2, <2>3, RequestStep DEF LoadUser
  <1>8. ASSUME NEW r \in Requests,
               ReuseSelect(r)
        PROVE  TypeInv'
    <2> DEFINE x == [req[r] EXCEPT !.pc = "reuse_mark", !.rows = Live \cap FamilyOf(req[r].sid)]
    <2>1. Live \cap FamilyOf(req[r].sid) \in SUBSET SessionIds
      BY <1>8, <1>req, <1>rows DEF ReuseSelect, At, RecordOK, Request
    <2>2. x \in Request
      BY <1>req, <2>1, MoveType DEF Steps
    <2>3. RecordOK(x) /\ x.new = req[r].new
      BY <1>8, <1>req, <1>rows DEF ReuseSelect, At, RecordOK, Request
    <2>4. req' = [req EXCEPT ![r] = x]
      BY <1>8, <1>req DEF ReuseSelect, TypeInv, TypeOK, Request
    <2>5. QED
      BY <1>8, <2>2, <2>3, <2>4, RequestStep DEF ReuseSelect
  <1>9. ASSUME NEW r \in Requests,
               LogoutAllBegin(r)
        PROVE  TypeInv'
    <2> DEFINE x == [req[r] EXCEPT !.pc = "all_update", !.rows = Live \cap RowsOf(req[r].user)]
    <2>1. Live \cap RowsOf(req[r].user) \in SUBSET SessionIds
      BY <1>9, <1>req, <1>rows DEF LogoutAllBegin, At, RecordOK, Request
    <2>2. x \in Request
      BY <1>req, <2>1, MoveType DEF Steps
    <2>3. RecordOK(x) /\ x.new = req[r].new
      BY <1>9, <1>req, <1>rows DEF LogoutAllBegin, At, RecordOK, Request
    <2>4. req' = [req EXCEPT ![r] = x]
      BY <1>9, <1>req DEF LogoutAllBegin, TypeInv, TypeOK, Request
    <2>5. QED
      BY <1>9, <2>2, <2>3, <2>4, RequestStep DEF LogoutAllBegin
  <1>10. ASSUME NEW r \in Requests, NEW s \in SessionIds,
               LockRow(r, s)
        PROVE  TypeInv'
    <2>1. PICK x \in Request :
             /\ req' = [req EXCEPT ![r] = x]
             /\ x.op = req[r].op /\ x.pc = req[r].pc /\ x.user = req[r].user
             /\ x.sid = req[r].sid /\ x.new = req[r].new /\ x.rows \subseteq req[r].rows
      BY <1>10, LockingMoves
    <2>2. RecordOK(x)
      BY <1>req, <2>1 DEF RecordOK
    <2>3. QED
      BY <1>10, <2>1, <2>2, RequestStep DEF LockRow
  <1>11. ASSUME NEW r \in Requests, NEW v \in Passwords,
               ChangePasswordBegin(r, v)
        PROVE  TypeInv'
    <2> DEFINE x == [req[r] EXCEPT !.pc = "pwd_delete", !.pwd = v,
                                   !.rows = RowsOf(req[r].user)]
    <2>1. RowsOf(req[r].user) \in SUBSET SessionIds /\ RowsOf(req[r].user) \subseteq Issued
      BY <1>11, <1>req, <1>rows DEF ChangePasswordBegin, At, RecordOK, Request
    <2>2. x \in Request
      BY ZenonT(30), <1>req, <2>1 DEF Request, Steps
    <2>3. RecordOK(x) /\ x.new = req[r].new
      BY <1>11, <1>req, <2>1 DEF ChangePasswordBegin, At, RecordOK, Request
    <2>4. req' = [req EXCEPT ![r] = x]
      BY <1>11, <1>req DEF ChangePasswordBegin, TypeInv, TypeOK, Request
    <2>5. QED
      BY <1>11, <2>2, <2>3, <2>4, RequestStep DEF ChangePasswordBegin
  <1>12. ASSUME NEW r \in Requests,
               ReuseUpdate(r)
        PROVE  TypeInv'
    <2> DEFINE x == [req[r] EXCEPT !.pc = "reuse_update", !.done = {}]
    <2>1. x \in Request
      BY <1>req DEF Request, Steps
    <2>2. RecordOK(x) /\ x.new = req[r].new
      BY <1>12, <1>req DEF ReuseUpdate, At, RecordOK, Request
    <2>3. req' = [req EXCEPT ![r] = x]
      BY <1>12, <1>req DEF ReuseUpdate, TypeInv, TypeOK, Request
    <2>4. QED
      BY <1>12, <2>1, <2>2, <2>3, RequestStep DEF ReuseUpdate
  <1> USE DEF TypeInv, TypeOK, RecordOK
  <1>13. ASSUME NEW r \in Requests,
               RefreshReject(r)
        PROVE  TypeInv'
    BY <1>13, <1>finish DEF RefreshReject
  <1>14. ASSUME NEW r \in Requests,
               ReadProfile(r)
        PROVE  TypeInv'
    BY <1>14, <1>finish DEF ReadProfile
  <1>15. ASSUME NEW r \in Requests,
               ChangePasswordReject(r)
        PROVE  TypeInv'
    BY <1>15, <1>finish DEF ChangePasswordReject
  <1>16. ASSUME NEW r \in Requests,
               CommitRefused(r) \/ DeadlockAbort(r)
        PROVE  TypeInv'
    BY <1>16, <1>finish DEF CommitRefused, DeadlockAbort
  <1>17. ASSUME NEW r \in Requests,
               Fail(r)
        PROVE  TypeInv'
    BY <1>17, <1>finish DEF Fail
  <1>18. ASSUME NEW r \in Requests, NEW s \in SessionIds,
               RejectExpired(r, s)
        PROVE  TypeInv'
    BY <1>18 DEF RejectExpired, vars, db, cache, Issued
  <1>19. ASSUME NEW r \in Requests,
               RefreshReplayed(r)
        PROVE  TypeInv'
    BY SMTT(20), <1>19 DEF RefreshReplayed, At, Request, Steps, db, cache, Issued
  <1>20. ASSUME NEW r \in Requests,
               RefreshAccept(r)
        PROVE  TypeInv'
    BY SMTT(20), <1>20 DEF RefreshAccept, At, Request, Steps, db, cache, Issued
  <1>21. ASSUME NEW r \in Requests, NEW s \in SessionIds,
               LoginIssue(r, s)
        PROVE  TypeInv'
    <2> DEFINE x == [req[r] EXCEPT !.pc = "login_commit", !.new = s, !.iat = now]
    <2>1. req[r] \in Request /\ now \in Time /\ s \in SessionIds /\ s # None
      BY <1>21, NoneAssumption DEF TypeInv, TypeOK
    <2>2. x \in Request
      BY <2>1 DEF Request, Steps
    <2>3. RecordOK(x) /\ x.new = s
      BY <1>21, <1>req, <2>1 DEF LoginIssue, At, Fresh, Issued, RecordOK, Request
    <2>4. req' = [req EXCEPT ![r] = x]
      BY <1>21 DEF LoginIssue
    <2>5. QED
      <3>1. TypeInv
        OBVIOUS
      <3>2. s \in Fresh /\ UNCHANGED <<now, db, cache, invalidated, closed>>
        BY <1>21 DEF LoginIssue
      <3> HIDE DEF x
      <3>3. QED
        BY <1>21, <2>2, <2>3, <2>4, <3>1, <3>2, IssueStep
  <1>22. ASSUME NEW r \in Requests, NEW s \in SessionIds,
               RotateIssue(r, s)
        PROVE  TypeInv'
    <2> DEFINE x == [req[r] EXCEPT !.pc = "rotate_commit", !.new = s, !.iat = now]
    <2>1. req[r] \in Request /\ now \in Time /\ s \in SessionIds /\ s # None
      BY <1>22, NoneAssumption DEF TypeInv, TypeOK
    <2>2. x \in Request
      BY <2>1 DEF Request, Steps
    <2>3. RecordOK(x) /\ x.new = s
      BY <1>22, <1>req, <2>1 DEF RotateIssue, At, Fresh, Issued, RecordOK, Request
    <2>4. req' = [req EXCEPT ![r] = x]
      BY <1>22 DEF RotateIssue
    <2>5. QED
      <3>1. TypeInv
        OBVIOUS
      <3>2. s \in Fresh /\ UNCHANGED <<now, db, cache, invalidated, closed>>
        BY <1>22 DEF RotateIssue
      <3> HIDE DEF x
      <3>3. QED
        BY <1>22, <2>2, <2>3, <2>4, <3>1, <3>2, IssueStep
  <1>23. ASSUME NEW r \in Requests,
               NEW rehash \in BOOLEAN, LoginCommit(r, rehash)
        PROVE  TypeInv'
    BY <1>23, <1>idle, NoneAssumption DEF LoginCommit, At, Finish, Issued, Request,
       RowState, Token, Idle, cache
  <1>24. ASSUME NEW r \in Requests,
               RotateCommit(r)
        PROVE  TypeInv'
    <2> DEFINE old == req[r].sid
               new == req[r].new
    <2>1. old \in Issued /\ new \in SessionIds \ Issued /\ req[r].iat \in Time
      BY <1>24 DEF RotateCommit, At, Request, Issued
    <2>2. [token[old] EXCEPT !.iat = req[r].iat] \in Token
      BY <2>1 DEF Issued, Token
    <2>3. TypeOK'
      <3>1. token' \in [SessionIds -> Token \cup {None}]
        BY <1>24, <2>2 DEF RotateCommit
      <3>2. ASSUME NEW s \in SessionIds, row'[s] # "unissued" PROVE token'[s] \in Token
        <4>1. s # new => row[s] # "unissued"
          BY <1>24, <2>1, <3>2 DEF RotateCommit, Issued
        <4>2. QED
          BY <1>24, <2>2, <4>1 DEF RotateCommit
      <3>3. row' \in [SessionIds -> RowState]
        BY <1>24 DEF RotateCommit, RowState
      <3>4. /\ replaced_by' \in [SessionIds -> SessionIds \cup {None}]
            /\ closed' \subseteq SessionIds
        BY <1>24, <1>rows, <2>1 DEF RotateCommit
      <3>5. req' \in [Requests -> Request]
        BY <1>24, <1>idle DEF RotateCommit, Finish
      <3>6. QED
        BY <1>24, <3>1, <3>2, <3>3, <3>4, <3>5 DEF RotateCommit, cache
    <2>4. ASSUME NEW q \in Requests PROVE RecordOK(req[q])'
      BY <1>24, <1>idle, <2>1, NoneAssumption
      DEF RotateCommit, At, Finish, Issued, Request, Idle
    <2>5. ASSUME NEW q \in Requests, req'[q].new # None
          PROVE  req'[q].new = req[q].new
      BY <1>24, <1>idle, <2>5 DEF RotateCommit, Finish
    <2>6. QED
      BY <2>3, <2>4, <2>5
  <1>25. ASSUME NEW r \in Requests, NEW s \in SessionIds,
               ReuseMark(r, s)
        PROVE  TypeInv'
    BY SMTT(20), <1>25, TTLAssumption, BoundAssumption DEF ReuseMark, At, Setex, Time, Expiry,
       Issued, Request, db
  <1>26. ASSUME NEW r \in Requests,
               ReuseCommit(r)
        PROVE  TypeInv'
    BY <1>26, <1>idle, NoneAssumption DEF ReuseCommit, At, Finish, Revoke, RowState,
       Issued, Request, Idle, cache
  <1>27. ASSUME NEW r \in Requests,
               LogoutMark(r)
        PROVE  TypeInv'
    <2>1. Setex(AccessTTL) \in Expiry
      BY TTLAssumption, BoundAssumption DEF Setex, Time, Expiry
    <2>2. req[r].sid \in SessionIds
      BY <1>27, <1>req, <1>rows DEF LogoutMark, At
    <2>3. TypeOK'
      <3>1. [req[r] EXCEPT !.pc = "logout_commit"] \in Request
        <4>1. req[r] \in Request /\ "logout_commit" \in Steps
          BY <1>req DEF Steps
        <4>2. QED
          BY <4>1, StepType
      <3>2. req' \in [Requests -> Request]
        BY <1>27, <3>1 DEF LogoutMark
      <3>3. /\ revoked_session' \in [SessionIds -> Expiry]
            /\ invalidated' \subseteq SessionIds
        BY <1>27, <2>1, <2>2 DEF LogoutMark
      <3>4. QED
        BY <1>27, <3>2, <3>3 DEF LogoutMark, db
    <2>4. ASSUME NEW q \in Requests PROVE RecordOK(req[q])'
      BY <1>27 DEF LogoutMark, At, Issued, Request, db
    <2>5. ASSUME NEW q \in Requests PROVE req'[q].new = req[q].new
      BY <1>27 DEF LogoutMark, Request
    <2>6. QED
      BY <2>3, <2>4, <2>5
  <1>28. ASSUME NEW r \in Requests,
               LogoutCommit(r)
        PROVE  TypeInv'
    BY <1>28, <1>idle, NoneAssumption DEF LogoutCommit, At, Finish, Revoke, RowState,
       Issued, Request, Idle, cache
  <1>29. ASSUME NEW r \in Requests,
               LogoutAllMark(r)
        PROVE  TypeInv'
    <2> DEFINE u == req[r].user
               later == invalidated \cup {s \in Issued : token[s].user = u}
    <2>1. Setex(RefreshTTL) \in Expiry
      BY TTLAssumption, BoundAssumption DEF Setex, Time, Expiry
    <2>2. req[r] \in Request /\ "all_commit" \in Steps /\ later \subseteq SessionIds
      BY <1>req, <1>rows DEF Steps
    <2>3. [req[r] EXCEPT !.pc = "all_commit"] \in Request
      BY <2>2, StepType
    <2>4. TypeOK'
      <3>1. req' \in [Requests -> Request]
        BY <1>29, <2>3 DEF LogoutAllMark
      <3>2. revoked_all' \in [Users -> Expiry] /\ invalidated' = later
        BY <1>29, <2>1 DEF LogoutAllMark
      <3>3. QED
        BY <1>29, <2>2, <3>1, <3>2 DEF LogoutAllMark, db
    <2>5. ASSUME NEW q \in Requests PROVE RecordOK(req[q])'
      BY <1>29 DEF LogoutAllMark, At, Issued, Request, db
    <2>6. ASSUME NEW q \in Requests PROVE req'[q].new = req[q].new
      BY <1>29 DEF LogoutAllMark, Request
    <2>7. QED
      BY <2>4, <2>5, <2>6
  <1>30. ASSUME NEW r \in Requests,
               LogoutAllCommit(r)
        PROVE  TypeInv'
    BY <1>30, <1>idle, NoneAssumption DEF LogoutAllCommit, At, Finish, Revoke, RowState,
       Issued, Request, Idle, cache
  <1>31. ASSUME NEW r \in Requests, ChangePasswordCommit(r)
        PROVE  TypeInv'
    BY <1>31, <1>idle, NoneAssumption DEF ChangePasswordCommit, At, Finish, RowState,
       Issued, Request, Idle, cache
  <1>32. CASE EvictMarker
    BY <1>32, TTLAssumption, BoundAssumption DEF EvictMarker, Issued, Expiry, db
  <1>33. CASE Tick
    BY <1>33, BoundAssumption DEF Tick, Time, Issued, db, cache
  <1>34. CASE UNCHANGED vars
    BY <1>34 DEF vars, Issued
  <1>35. QED
    BY ZenonT(30), <1>1, <1>2, <1>3, <1>4, <1>5, <1>6, <1>7, <1>8, <1>9, <1>10, <1>11,
       <1>12, <1>13, <1>14, <1>15, <1>16, <1>17, <1>18, <1>19, <1>20, <1>21,
       <1>22, <1>23, <1>24, <1>25, <1>26, <1>27, <1>28, <1>29, <1>30, <1>31,
       <1>32, <1>33, <1>34 DEF Next, Begin, Continue

\* Type correctness in every reachable state.
THEOREM TypeCorrect == Spec => []TypeOK
  <1>1. TypeInv => TypeOK
    BY DEF TypeInv
  <1>2. QED
    BY <1>1, InitTypeInv, TypeInvStep, PTL DEF Spec

-----------------------------------------------------------------------------
\* Sessions that were closed.
LEMMA InitInvs == Init => ClosedInv /\ ClockInv /\ RefusedInv /\ LineageInv
  BY TTLAssumption, BoundAssumption
  DEF Init, Idle, Issued, At, ClosedInv, ClosedSessionsStayClosed,
      ClosedSessionsMintNothing, ClockInv, RefusedInv, LineageInv, Lineage, Time

LEMMA ClosedInvStep == TypeInv /\ ClosedInv /\ [Next]_vars => ClosedInv'
  <1> SUFFICES ASSUME TypeInv /\ ClosedInv, [Next]_vars PROVE ClosedInv'
    OBVIOUS
  <1> USE NoneAssumption DEF ClosedInv, ClosedSessionsStayClosed,
          ClosedSessionsMintNothing, Request, TypeInv, TypeOK, RecordOK, db,
          cache, Finish, At, Idle, Issued
  <1>ends. ASSUME NEW r \in Requests, Finish(r), UNCHANGED <<row, closed>> PROVE ClosedInv'
    <2>1. \A q \in Requests : req'[q] # Idle => req'[q] = req[q]
      BY <1>ends
    <2>2. Idle.op = "none" /\ Idle.pc = "idle"
      OBVIOUS
    <2>3. QED
      BY <1>ends, <2>1, <2>2
  <1>1. ASSUME NEW r \in Requests, NEW u \in Users, LoginSelect(r, u) PROVE ClosedInv'
    BY <1>1 DEF LoginSelect
  <1>2. ASSUME NEW r \in Requests, NEW s \in SessionIds, RefreshDecode(r, s) PROVE ClosedInv'
    BY ZenonT(30), <1>2 DEF RefreshDecode
  <1>3. ASSUME NEW r \in Requests, NEW s \in SessionIds, LogoutSelect(r, s) PROVE ClosedInv'
    BY <1>3 DEF LogoutSelect, Live
  <1>4. ASSUME NEW r \in Requests, NEW s \in SessionIds, RejectExpired(r, s) PROVE ClosedInv'
    BY <1>4 DEF RejectExpired, vars
  <1>5. ASSUME NEW r \in Requests, NEW s \in SessionIds,
               NEW op \in {"me", "logout_all", "change_password"} \cap Guarded, Authenticate(r, s, op)
        PROVE  ClosedInv'
    BY <1>5 DEF Authenticate
  <1>6. ASSUME NEW r \in Requests, NEW s \in SessionIds, LoginIssue(r, s) PROVE ClosedInv'
    BY <1>6 DEF LoginIssue, Fresh
  <1>7. ASSUME NEW r \in Requests, NEW s \in SessionIds, RotateIssue(r, s) PROVE ClosedInv'
    BY <1>7 DEF RotateIssue, Fresh
  <1>8. ASSUME NEW r \in Requests, NEW s \in SessionIds, ReuseMark(r, s) PROVE ClosedInv'
    BY <1>8 DEF ReuseMark, Setex
  <1>9. ASSUME NEW r \in Requests, NEW rehash \in BOOLEAN, LoginCommit(r, rehash) PROVE ClosedInv'
    BY <1>9 DEF LoginCommit
  <1>10. ASSUME NEW r \in Requests, RefreshReject(r) PROVE ClosedInv'
    BY <1>10, <1>ends DEF RefreshReject
  <1>11. ASSUME NEW r \in Requests, RefreshReplayed(r) PROVE ClosedInv'
    BY <1>11 DEF RefreshReplayed
  <1>12. ASSUME NEW r \in Requests, RefreshAccept(r) PROVE ClosedInv'
    BY SMTT(20), <1>12 DEF RefreshAccept
  <1>13. ASSUME NEW r \in Requests, RotateCommit(r) PROVE ClosedInv'
    BY SMTT(20), <1>13 DEF RotateCommit
  <1>14. ASSUME NEW r \in Requests, ReuseSelect(r) PROVE ClosedInv'
    <2>1. /\ req'[r].pc = "reuse_mark"
          /\ row[req[r].sid] \in {"revoked", "deleted"}
      BY <1>14 DEF ReuseSelect
    <2>2. ASSUME NEW q \in Requests
          PROVE  /\ req'[q].op = req[q].op
                 /\ req'[q].sid = req[q].sid
                 /\ req'[q].barred = req[q].barred
                 /\ q # r => req'[q] = req[q]
      BY <1>14 DEF ReuseSelect
    <2>3. QED
      BY <1>14, <2>1, <2>2 DEF ReuseSelect
  <1>15. ASSUME NEW r \in Requests, ReuseCommit(r) PROVE ClosedInv'
    BY <1>15 DEF ReuseCommit, Revoke
  <1>16. ASSUME NEW r \in Requests, LogoutMark(r) PROVE ClosedInv'
    BY <1>16 DEF LogoutMark, Setex
  <1>17. ASSUME NEW r \in Requests, LogoutCommit(r) PROVE ClosedInv'
    <2>1. /\ req[r].sid \in SessionIds
          /\ req[r].sid \in req[r].rows \/ row[req[r].sid] \in {"revoked", "deleted"}
      BY <1>17 DEF LogoutCommit, RowState
    <2>2. ClosedSessionsStayClosed'
      BY <1>17, <2>1 DEF LogoutCommit, Revoke
    <2>3. ASSUME NEW q \in Requests, req'[q] # Idle PROVE req'[q] = req[q]
      BY <1>17, <2>3 DEF LogoutCommit
    <2>4. ASSUME NEW s \in Issued
          PROVE  /\ row[s] # "live" => row'[s] # "live"
                 /\ row[s] \in {"revoked", "deleted"} => row'[s] \in {"revoked", "deleted"}
      BY <1>17 DEF LogoutCommit, Revoke
    <2>5. QED
      BY <1>17, <2>2, <2>3, <2>4 DEF LogoutCommit
  <1>18. ASSUME NEW r \in Requests, CheckRevokedAll(r) PROVE ClosedInv'
    <2>1. CASE IsSet(revoked_all[req[r].user])
      BY <1>18, <2>1, <1>ends DEF CheckRevokedAll
    <2>2. CASE ~ IsSet(revoked_all[req[r].user])
      <3>1. req' = [req EXCEPT ![r].pc = "auth_session"] /\ UNCHANGED <<row, closed>>
        BY <1>18, <2>2 DEF CheckRevokedAll
      <3>2. ASSUME NEW q \in Requests
            PROVE  /\ req'[q].op = req[q].op /\ req'[q].sid = req[q].sid
                   /\ req'[q].barred = req[q].barred /\ req'[q].rows = req[q].rows
                   /\ req'[q].pc \in {req[q].pc, "auth_session"}
        BY <3>1
      <3>3. QED
        BY <3>1, <3>2
    <2>3. QED
      BY <2>1, <2>2
  <1>19. ASSUME NEW r \in Requests, CheckRevokedSession(r) PROVE ClosedInv'
    <2>1. CASE IsSet(revoked_session[req[r].sid])
      BY <1>19, <2>1, <1>ends DEF CheckRevokedSession
    <2>2. CASE ~ IsSet(revoked_session[req[r].sid])
      <3>1. req' = [req EXCEPT ![r].pc = "auth_user"] /\ UNCHANGED <<row, closed>>
        BY <1>19, <2>2 DEF CheckRevokedSession
      <3>2. ASSUME NEW q \in Requests
            PROVE  /\ req'[q].op = req[q].op /\ req'[q].sid = req[q].sid
                   /\ req'[q].barred = req[q].barred /\ req'[q].rows = req[q].rows
                   /\ req'[q].pc \in {req[q].pc, "auth_user"}
        BY <3>1
      <3>3. QED
        BY <3>1, <3>2
    <2>3. QED
      BY <2>1, <2>2
  <1>20. ASSUME NEW r \in Requests, LoadUser(r) PROVE ClosedInv'
    BY <1>20 DEF LoadUser
  <1>21. ASSUME NEW r \in Requests, ReadProfile(r) PROVE ClosedInv'
    BY <1>21, <1>ends DEF ReadProfile
  <1>22. ASSUME NEW r \in Requests, LogoutAllBegin(r) PROVE ClosedInv'
    <2>1. req'[r].pc = "all_update" /\ req'[r].op = "logout_all" /\ req[r].op = "logout_all"
      BY <1>22 DEF LogoutAllBegin
    <2>2. ASSUME NEW q \in Requests
          PROVE  /\ req'[q].op = req[q].op
                 /\ req'[q].sid = req[q].sid
                 /\ req'[q].barred = req[q].barred
                 /\ q # r => req'[q] = req[q]
      BY <1>22 DEF LogoutAllBegin
    <2>3. QED
      BY <1>22, <2>1, <2>2 DEF LogoutAllBegin
  <1>23. ASSUME NEW r \in Requests, NEW s \in SessionIds, LockRow(r, s) PROVE ClosedInv'
    <2>1. PICK x : /\ req' = [req EXCEPT ![r] = x]
                   /\ x.op = req[r].op /\ x.pc = req[r].pc /\ x.sid = req[r].sid
                   /\ x.barred = req[r].barred /\ x.rows \subseteq req[r].rows
                   /\ \A t \in req[r].rows \ x.rows : t \in SessionIds /\ row[t] # "live"
      BY <1>23, LockingMoves DEF Matches
    <2>2. ASSUME NEW q \in Requests
          PROVE  /\ req'[q].op = req[q].op /\ req'[q].pc = req[q].pc
                 /\ req'[q].sid = req[q].sid /\ req'[q].barred = req[q].barred
                 /\ \A t \in req[q].rows : row[t] = "live" => t \in req'[q].rows
      BY <2>1
    <2>3. UNCHANGED <<row, closed>>
      BY <1>23 DEF LockRow
    <2>4. QED
      BY <2>2, <2>3
  <1>24. ASSUME NEW r \in Requests, LogoutAllMark(r) PROVE ClosedInv'
    BY <1>24 DEF LogoutAllMark, Setex
  <1>25. ASSUME NEW r \in Requests, LogoutAllCommit(r) PROVE ClosedInv'
    BY <1>25 DEF LogoutAllCommit, Revoke
  <1>26. ASSUME NEW r \in Requests, NEW v \in Passwords, ChangePasswordBegin(r, v) PROVE ClosedInv'
    BY SMTT(20), <1>26 DEF ChangePasswordBegin
  <1>27. ASSUME NEW r \in Requests, ChangePasswordReject(r) PROVE ClosedInv'
    BY <1>27, <1>ends DEF ChangePasswordReject
  <1>28. ASSUME NEW r \in Requests, ReuseUpdate(r) PROVE ClosedInv'
    BY <1>28 DEF ReuseUpdate
  <1>29. ASSUME NEW r \in Requests, ChangePasswordCommit(r) PROVE ClosedInv'
    BY SMTT(20), <1>29 DEF ChangePasswordCommit
  <1>30. ASSUME NEW r \in Requests, CommitRefused(r) \/ DeadlockAbort(r) PROVE ClosedInv'
    BY <1>30, <1>ends DEF CommitRefused, DeadlockAbort
  <1>31. ASSUME NEW r \in Requests, Fail(r) PROVE ClosedInv'
    BY <1>31, <1>ends DEF Fail
  <1>32. CASE EvictMarker
    BY <1>32 DEF EvictMarker
  <1>33. CASE Tick
    BY <1>33 DEF Tick
  <1>34. CASE UNCHANGED vars
    BY <1>34 DEF vars
  <1> HIDE DEF ClosedInv
  <1>35. QED
    BY <1>1, <1>2, <1>3, <1>4, <1>5, <1>6, <1>7, <1>8, <1>9, <1>10, <1>11,
       <1>12, <1>13, <1>14, <1>15, <1>16, <1>17, <1>18, <1>19, <1>20, <1>21,
       <1>22, <1>23, <1>24, <1>25, <1>26, <1>27, <1>28, <1>29, <1>30, <1>31,
       <1>32, <1>33, <1>34 DEF Next, Begin, Continue

\* However requests interleave, a session closed by a committed rotation, logout,
\* logout-all, replay detection or password change is never live again.
THEOREM ClosedStaysClosed == Spec => []ClosedSessionsStayClosed
  <1>1. ClosedInv => ClosedSessionsStayClosed
    BY DEF ClosedInv
  <1>2. QED
    BY <1>1, InitTypeInv, InitInvs, TypeInvStep, ClosedInvStep, PTL DEF Spec

\* A refresh that begins after its session was closed never makes tokens.
THEOREM ClosedMintsNothing == Spec => []ClosedSessionsMintNothing
  <1>1. ClosedInv => ClosedSessionsMintNothing
    BY DEF ClosedInv
  <1>2. QED
    BY <1>1, InitTypeInv, InitInvs, TypeInvStep, ClosedInvStep, PTL DEF Spec

-----------------------------------------------------------------------------
\* Time stamps and the lineage of sessions.
LEMMA ClockInvStep == TypeInv /\ ClockInv /\ [Next]_vars => ClockInv'
  <1> SUFFICES ASSUME TypeInv /\ ClockInv, [Next]_vars PROVE ClockInv'
    OBVIOUS
  <1> USE TTLAssumption, BoundAssumption, NoneAssumption DEF ClockInv, Time,
          Expiry, Token, Request, TypeInv, TypeOK, RecordOK, db, cache,
          Finish, At, Idle, Issued
  <1>1. ASSUME NEW r \in Requests, NEW u \in Users, LoginSelect(r, u) PROVE ClockInv'
    BY <1>1 DEF LoginSelect
  <1>2. ASSUME NEW r \in Requests, NEW s \in SessionIds, RefreshDecode(r, s) PROVE ClockInv'
    BY <1>2 DEF RefreshDecode
  <1>3. ASSUME NEW r \in Requests, NEW s \in SessionIds, LogoutSelect(r, s) PROVE ClockInv'
    BY <1>3 DEF LogoutSelect, Live
  <1>4. ASSUME NEW r \in Requests, NEW s \in SessionIds, RejectExpired(r, s) PROVE ClockInv'
    BY <1>4 DEF RejectExpired, vars
  <1>5. ASSUME NEW r \in Requests, NEW s \in SessionIds,
               NEW op \in {"me", "logout_all", "change_password"} \cap Guarded, Authenticate(r, s, op)
        PROVE  ClockInv'
    BY <1>5 DEF Authenticate
  <1>6. ASSUME NEW r \in Requests, NEW s \in SessionIds, LoginIssue(r, s) PROVE ClockInv'
    BY <1>6 DEF LoginIssue, Fresh
  <1>7. ASSUME NEW r \in Requests, NEW s \in SessionIds, RotateIssue(r, s) PROVE ClockInv'
    BY <1>7 DEF RotateIssue, Fresh
  <1>8. ASSUME NEW r \in Requests, NEW s \in SessionIds, ReuseMark(r, s) PROVE ClockInv'
    BY <1>8 DEF ReuseMark, Setex
  <1>9. ASSUME NEW r \in Requests, NEW rehash \in BOOLEAN, LoginCommit(r, rehash) PROVE ClockInv'
    BY <1>9 DEF LoginCommit
  <1>10. ASSUME NEW r \in Requests, RefreshReject(r) PROVE ClockInv'
    BY <1>10 DEF RefreshReject
  <1>11. ASSUME NEW r \in Requests, RefreshReplayed(r) PROVE ClockInv'
    BY <1>11 DEF RefreshReplayed
  <1>12. ASSUME NEW r \in Requests, RefreshAccept(r) PROVE ClockInv'
    BY <1>12 DEF RefreshAccept
  <1>13. ASSUME NEW r \in Requests, RotateCommit(r) PROVE ClockInv'
    BY <1>13 DEF RotateCommit
  <1>14. ASSUME NEW r \in Requests, ReuseSelect(r) PROVE ClockInv'
    BY <1>14 DEF ReuseSelect
  <1>15. ASSUME NEW r \in Requests, ReuseCommit(r) PROVE ClockInv'
    BY <1>15 DEF ReuseCommit, Revoke
  <1>16. ASSUME NEW r \in Requests, LogoutMark(r) PROVE ClockInv'
    BY <1>16 DEF LogoutMark, Setex
  <1>17. ASSUME NEW r \in Requests, LogoutCommit(r) PROVE ClockInv'
    BY <1>17 DEF LogoutCommit, Revoke
  <1>18. ASSUME NEW r \in Requests, CheckRevokedAll(r) PROVE ClockInv'
    BY <1>18 DEF CheckRevokedAll
  <1>19. ASSUME NEW r \in Requests, CheckRevokedSession(r) PROVE ClockInv'
    BY <1>19 DEF CheckRevokedSession
  <1>20. ASSUME NEW r \in Requests, LoadUser(r) PROVE ClockInv'
    BY <1>20 DEF LoadUser
  <1>21. ASSUME NEW r \in Requests, ReadProfile(r) PROVE ClockInv'
    BY <1>21 DEF ReadProfile
  <1>22. ASSUME NEW r \in Requests, LogoutAllBegin(r) PROVE ClockInv'
    BY <1>22 DEF LogoutAllBegin
  <1>23. ASSUME NEW r \in Requests, NEW s \in SessionIds, LockRow(r, s) PROVE ClockInv'
    BY <1>23, LockingMoves DEF LockRow
  <1>24. ASSUME NEW r \in Requests, LogoutAllMark(r) PROVE ClockInv'
    BY <1>24 DEF LogoutAllMark, Setex
  <1>25. ASSUME NEW r \in Requests, LogoutAllCommit(r) PROVE ClockInv'
    BY <1>25 DEF LogoutAllCommit, Revoke
  <1>26. ASSUME NEW r \in Requests, NEW v \in Passwords, ChangePasswordBegin(r, v) PROVE ClockInv'
    BY <1>26 DEF ChangePasswordBegin
  <1>27. ASSUME NEW r \in Requests, ChangePasswordReject(r) PROVE ClockInv'
    BY <1>27 DEF ChangePasswordReject
  <1>28. ASSUME NEW r \in Requests, ReuseUpdate(r) PROVE ClockInv'
    BY <1>28 DEF ReuseUpdate
  <1>29. ASSUME NEW r \in Requests, ChangePasswordCommit(r) PROVE ClockInv'
    BY <1>29 DEF ChangePasswordCommit
  <1>30. ASSUME NEW r \in Requests, CommitRefused(r) \/ DeadlockAbort(r) PROVE ClockInv'
    BY <1>30 DEF CommitRefused, DeadlockAbort
  <1>31. ASSUME NEW r \in Requests, Fail(r) PROVE ClockInv'
    BY <1>31 DEF Fail
  <1>32. CASE EvictMarker
    BY <1>32 DEF EvictMarker
  <1>33. CASE Tick
    BY <1>33 DEF Tick
  <1>34. CASE UNCHANGED vars
    BY <1>34 DEF vars
  <1> HIDE DEF ClockInv
  <1>35. QED
    BY <1>1, <1>2, <1>3, <1>4, <1>5, <1>6, <1>7, <1>8, <1>9, <1>10, <1>11,
       <1>12, <1>13, <1>14, <1>15, <1>16, <1>17, <1>18, <1>19, <1>20, <1>21,
       <1>22, <1>23, <1>24, <1>25, <1>26, <1>27, <1>28, <1>29, <1>30, <1>31,
       <1>32, <1>33, <1>34 DEF Next, Begin, Continue

LEMMA LineageInvStep == TypeInv /\ ClockInv /\ LineageInv /\ [Next]_vars => LineageInv'
  <1> SUFFICES ASSUME TypeInv /\ ClockInv /\ LineageInv, [Next]_vars PROVE LineageInv'
    OBVIOUS
  <1> USE NoneAssumption DEF LineageInv, Lineage, ClockInv, Time, Token,
          Request, TypeInv, TypeOK, RecordOK, db, cache, Finish, At, Idle,
          Issued
  <1>1. ASSUME NEW r \in Requests, NEW u \in Users, LoginSelect(r, u) PROVE LineageInv'
    BY <1>1 DEF LoginSelect
  <1>2. ASSUME NEW r \in Requests, NEW s \in SessionIds, RefreshDecode(r, s) PROVE LineageInv'
    BY <1>2 DEF RefreshDecode
  <1>3. ASSUME NEW r \in Requests, NEW s \in SessionIds, LogoutSelect(r, s) PROVE LineageInv'
    BY <1>3 DEF LogoutSelect, Live
  <1>4. ASSUME NEW r \in Requests, NEW s \in SessionIds, RejectExpired(r, s) PROVE LineageInv'
    BY <1>4 DEF RejectExpired, vars
  <1>5. ASSUME NEW r \in Requests, NEW s \in SessionIds,
               NEW op \in {"me", "logout_all", "change_password"} \cap Guarded, Authenticate(r, s, op)
        PROVE  LineageInv'
    BY <1>5 DEF Authenticate
  <1>6. ASSUME NEW r \in Requests, NEW s \in SessionIds, LoginIssue(r, s) PROVE LineageInv'
    BY <1>6 DEF LoginIssue, Fresh
  <1>7. ASSUME NEW r \in Requests, NEW s \in SessionIds, RotateIssue(r, s) PROVE LineageInv'
    BY <1>7 DEF RotateIssue, Fresh
  <1>8. ASSUME NEW r \in Requests, NEW s \in SessionIds, ReuseMark(r, s) PROVE LineageInv'
    BY <1>8 DEF ReuseMark, Setex
  <1>9. ASSUME NEW r \in Requests, NEW rehash \in BOOLEAN, LoginCommit(r, rehash) PROVE LineageInv'
    BY <1>9 DEF LoginCommit
  <1>10. ASSUME NEW r \in Requests, RefreshReject(r) PROVE LineageInv'
    BY <1>10 DEF RefreshReject
  <1>11. ASSUME NEW r \in Requests, RefreshReplayed(r) PROVE LineageInv'
    BY <1>11 DEF RefreshReplayed
  <1>12. ASSUME NEW r \in Requests, RefreshAccept(r) PROVE LineageInv'
    BY <1>12 DEF RefreshAccept
  <1>13. ASSUME NEW r \in Requests, RotateCommit(r) PROVE LineageInv'
    <2> DEFINE old == req[r].sid
               new == req[r].new
    <2>1. /\ old \in Issued /\ new \in SessionIds \ Issued
          /\ token[old].iat <= req[r].iat
      BY <1>13 DEF RotateCommit
    <2>2. token'[new] = [token[old] EXCEPT !.iat = req[r].iat] /\ token[old] \in Token
      BY <1>13, <2>1 DEF RotateCommit
    <2>3. ASSUME NEW s \in Issued
          PROVE  /\ token'[s] = token[s]
                 /\ row'[s] = IF s = old THEN "revoked" ELSE row[s]
                 /\ replaced_by'[s] = IF s = old THEN new ELSE replaced_by[s]
      BY <1>13, <2>1 DEF RotateCommit
    <2>4. replaced_by[new] = None /\ replaced_by'[new] = None
      BY <1>13, <2>1 DEF RotateCommit
    <2>5. row'[new] = "live"
      BY <1>13, <2>1 DEF RotateCommit
    <2>6. Lineage'
      <3> SUFFICES ASSUME NEW s \in SessionIds, replaced_by'[s] # None
                   PROVE  LET t == replaced_by'[s] IN
                          /\ row'[s] = "revoked"
                          /\ row'[t] \in {"live", "revoked"}
                          /\ token'[t].user = token'[s].user
                          /\ token'[t].family = token'[s].family
                          /\ token'[t].pwd = token'[s].pwd
                          /\ token'[s].iat <= token'[t].iat
        OBVIOUS
      <3>1. CASE s = old
        BY <3>1, <2>1, <2>2, <2>3, <2>5
      <3>2. CASE s # old
        <4>1. s \in Issued /\ replaced_by[s] \in Issued
          BY <1>13, <3>2, <2>1, <2>4 DEF RotateCommit
        <4>2. QED
          BY <3>2, <4>1, <2>3
      <3>3. QED
        BY <3>1, <3>2
    <2>7. ASSUME NEW q \in Requests, req'[q].pc = "rotate_commit"
          PROVE  token'[req'[q].sid].iat <= req'[q].iat
      BY <1>13, <2>3, <2>7 DEF RotateCommit
    <2>8. QED
      BY <2>6, <2>7
  <1>14. ASSUME NEW r \in Requests, ReuseSelect(r) PROVE LineageInv'
    BY <1>14 DEF ReuseSelect
  <1>15. ASSUME NEW r \in Requests, ReuseCommit(r) PROVE LineageInv'
    BY <1>15 DEF ReuseCommit, Revoke
  <1>16. ASSUME NEW r \in Requests, LogoutMark(r) PROVE LineageInv'
    BY <1>16 DEF LogoutMark, Setex
  <1>17. ASSUME NEW r \in Requests, LogoutCommit(r) PROVE LineageInv'
    BY <1>17 DEF LogoutCommit, Revoke
  <1>18. ASSUME NEW r \in Requests, CheckRevokedAll(r) PROVE LineageInv'
    BY <1>18 DEF CheckRevokedAll
  <1>19. ASSUME NEW r \in Requests, CheckRevokedSession(r) PROVE LineageInv'
    BY <1>19 DEF CheckRevokedSession
  <1>20. ASSUME NEW r \in Requests, LoadUser(r) PROVE LineageInv'
    BY <1>20 DEF LoadUser
  <1>21. ASSUME NEW r \in Requests, ReadProfile(r) PROVE LineageInv'
    BY <1>21 DEF ReadProfile
  <1>22. ASSUME NEW r \in Requests, LogoutAllBegin(r) PROVE LineageInv'
    BY <1>22 DEF LogoutAllBegin
  <1>23. ASSUME NEW r \in Requests, NEW s \in SessionIds, LockRow(r, s) PROVE LineageInv'
    BY <1>23, LockingMoves DEF LockRow
  <1>24. ASSUME NEW r \in Requests, LogoutAllMark(r) PROVE LineageInv'
    BY <1>24 DEF LogoutAllMark, Setex
  <1>25. ASSUME NEW r \in Requests, LogoutAllCommit(r) PROVE LineageInv'
    BY <1>25 DEF LogoutAllCommit, Revoke
  <1>26. ASSUME NEW r \in Requests, NEW v \in Passwords, ChangePasswordBegin(r, v) PROVE LineageInv'
    BY <1>26 DEF ChangePasswordBegin
  <1>27. ASSUME NEW r \in Requests, ChangePasswordReject(r) PROVE LineageInv'
    BY <1>27 DEF ChangePasswordReject
  <1>28. ASSUME NEW r \in Requests, ReuseUpdate(r) PROVE LineageInv'
    BY <1>28 DEF ReuseUpdate
  <1>29. ASSUME NEW r \in Requests, ChangePasswordCommit(r) PROVE LineageInv'
    BY <1>29 DEF ChangePasswordCommit
  <1>30. ASSUME NEW r \in Requests, CommitRefused(r) \/ DeadlockAbort(r) PROVE LineageInv'
    BY <1>30 DEF CommitRefused, DeadlockAbort
  <1>31. ASSUME NEW r \in Requests, Fail(r) PROVE LineageInv'
    BY <1>31 DEF Fail
  <1>32. CASE EvictMarker
    BY <1>32 DEF EvictMarker
  <1>33. CASE Tick
    BY <1>33 DEF Tick
  <1>34. CASE UNCHANGED vars
    BY <1>34 DEF vars
  <1> HIDE DEF LineageInv
  <1>35. QED
    BY <1>1, <1>2, <1>3, <1>4, <1>5, <1>6, <1>7, <1>8, <1>9, <1>10, <1>11,
       <1>12, <1>13, <1>14, <1>15, <1>16, <1>17, <1>18, <1>19, <1>20, <1>21,
       <1>22, <1>23, <1>24, <1>25, <1>26, <1>27, <1>28, <1>29, <1>30, <1>31,
       <1>32, <1>33, <1>34 DEF Next, Begin, Continue

\* Rotation keeps user, family and password, and a successor's row exists.
THEOREM LineageCorrect == Spec => []Lineage
  <1>1. LineageInv => Lineage
    BY DEF LineageInv
  <1>2. QED
    BY <1>1, InitTypeInv, InitInvs, TypeInvStep, ClockInvStep, LineageInvStep, PTL
    DEF Spec

-----------------------------------------------------------------------------
\* Invalidated access tokens, whatever the lifetimes of the two tokens and of the
\* markers that Redis keeps.
LEMMA RefusedInvStep ==
  TypeInv /\ ClockInv /\ RefusedInv /\ [Next]_vars => RefusedInv'
  <1> SUFFICES ASSUME TypeInv /\ ClockInv /\ RefusedInv, [Next]_vars PROVE RefusedInv'
    OBVIOUS
  <1> USE NoneAssumption, TTLAssumption, BoundAssumption DEF RefusedInv,
          Covered, Over, ClockInv, AccessExp, RefreshExp, Time, Expiry, Token, Request, TypeInv,
          TypeOK, RecordOK, db, cache, Finish, At, Idle, Issued
  <1>1. ASSUME NEW r \in Requests, NEW u \in Users, LoginSelect(r, u) PROVE RefusedInv'
    BY <1>1 DEF LoginSelect
  <1>2. ASSUME NEW r \in Requests, NEW s \in SessionIds, RefreshDecode(r, s) PROVE RefusedInv'
    BY <1>2 DEF RefreshDecode
  <1>3. ASSUME NEW r \in Requests, NEW s \in SessionIds, LogoutSelect(r, s) PROVE RefusedInv'
    BY <1>3 DEF LogoutSelect, Live
  <1>4. ASSUME NEW r \in Requests, NEW s \in SessionIds, RejectExpired(r, s) PROVE RefusedInv'
    BY <1>4 DEF RejectExpired, vars
  <1>5. ASSUME NEW r \in Requests, NEW s \in SessionIds,
               NEW op \in {"me", "logout_all", "change_password"} \cap Guarded, Authenticate(r, s, op)
        PROVE  RefusedInv'
    BY <1>5 DEF Authenticate
  <1>6. ASSUME NEW r \in Requests, NEW s \in SessionIds, LoginIssue(r, s) PROVE RefusedInv'
    BY <1>6 DEF LoginIssue, Fresh
  <1>7. ASSUME NEW r \in Requests, NEW s \in SessionIds, RotateIssue(r, s) PROVE RefusedInv'
    BY SMTT(20), <1>7 DEF RotateIssue, Fresh
  <1>8. ASSUME NEW r \in Requests, NEW s \in SessionIds, ReuseMark(r, s) PROVE RefusedInv'
    BY <1>8 DEF ReuseMark, Setex
  <1>9. ASSUME NEW r \in Requests, NEW rehash \in BOOLEAN, LoginCommit(r, rehash) PROVE RefusedInv'
    BY <1>9 DEF LoginCommit
  <1>10. ASSUME NEW r \in Requests, RefreshReject(r) PROVE RefusedInv'
    BY <1>10 DEF RefreshReject
  <1>11. ASSUME NEW r \in Requests, RefreshReplayed(r) PROVE RefusedInv'
    BY <1>11 DEF RefreshReplayed
  <1>12. ASSUME NEW r \in Requests, RefreshAccept(r) PROVE RefusedInv'
    BY <1>12 DEF RefreshAccept
  <1>13. ASSUME NEW r \in Requests, RotateCommit(r) PROVE RefusedInv'
    BY <1>13 DEF RotateCommit
  <1>14. ASSUME NEW r \in Requests, ReuseSelect(r) PROVE RefusedInv'
    BY <1>14 DEF ReuseSelect
  <1>15. ASSUME NEW r \in Requests, ReuseCommit(r) PROVE RefusedInv'
    BY <1>15 DEF ReuseCommit, Revoke
  <1>16. ASSUME NEW r \in Requests, LogoutMark(r) PROVE RefusedInv'
    BY <1>16 DEF LogoutMark, Setex
  <1>17. ASSUME NEW r \in Requests, LogoutCommit(r) PROVE RefusedInv'
    BY <1>17 DEF LogoutCommit, Revoke
  <1>18. ASSUME NEW r \in Requests, CheckRevokedAll(r) PROVE RefusedInv'
    <2>1. ASSUME NEW q \in Requests, req'[q] # Idle, q # r PROVE req'[q] = req[q]
      BY <1>18, <2>1 DEF CheckRevokedAll
    <2>2. CASE IsSet(revoked_all[req[r].user])
      BY <1>18, <2>1, <2>2 DEF CheckRevokedAll
    <2>3. CASE ~ IsSet(revoked_all[req[r].user])
      BY SMTT(20), <1>18, <2>1, <2>3 DEF CheckRevokedAll, IsSet
    <2>4. QED
      BY <2>2, <2>3
  <1>19. ASSUME NEW r \in Requests, CheckRevokedSession(r) PROVE RefusedInv'
    <2>1. ASSUME NEW q \in Requests, req'[q] # Idle, q # r PROVE req'[q] = req[q]
      BY <1>19, <2>1 DEF CheckRevokedSession
    <2>2. CASE IsSet(revoked_session[req[r].sid])
      BY <1>19, <2>1, <2>2 DEF CheckRevokedSession
    <2>3. CASE ~ IsSet(revoked_session[req[r].sid])
      BY <1>19, <2>1, <2>3 DEF CheckRevokedSession, IsSet
    <2>4. QED
      BY <2>2, <2>3
  <1>20. ASSUME NEW r \in Requests, LoadUser(r) PROVE RefusedInv'
    BY <1>20 DEF LoadUser
  <1>21. ASSUME NEW r \in Requests, ReadProfile(r) PROVE RefusedInv'
    BY <1>21 DEF ReadProfile
  <1>22. ASSUME NEW r \in Requests, LogoutAllBegin(r) PROVE RefusedInv'
    BY <1>22 DEF LogoutAllBegin
  <1>23. ASSUME NEW r \in Requests, NEW s \in SessionIds, LockRow(r, s) PROVE RefusedInv'
    BY <1>23, LockingMoves DEF LockRow
  <1>24. ASSUME NEW r \in Requests, LogoutAllMark(r) PROVE RefusedInv'
    BY <1>24 DEF LogoutAllMark, Setex
  <1>25. ASSUME NEW r \in Requests, LogoutAllCommit(r) PROVE RefusedInv'
    BY <1>25 DEF LogoutAllCommit, Revoke
  <1>26. ASSUME NEW r \in Requests, NEW v \in Passwords, ChangePasswordBegin(r, v) PROVE RefusedInv'
    BY <1>26 DEF ChangePasswordBegin
  <1>27. ASSUME NEW r \in Requests, ChangePasswordReject(r) PROVE RefusedInv'
    BY <1>27 DEF ChangePasswordReject
  <1>28. ASSUME NEW r \in Requests, ReuseUpdate(r) PROVE RefusedInv'
    BY <1>28 DEF ReuseUpdate
  <1>29. ASSUME NEW r \in Requests, ChangePasswordCommit(r) PROVE RefusedInv'
    BY <1>29 DEF ChangePasswordCommit
  <1>30. ASSUME NEW r \in Requests, CommitRefused(r) \/ DeadlockAbort(r) PROVE RefusedInv'
    BY <1>30 DEF CommitRefused, DeadlockAbort
  <1>31. ASSUME NEW r \in Requests, Fail(r) PROVE RefusedInv'
    BY <1>31 DEF Fail
  <1>32. CASE EvictMarker
    BY <1>32 DEF EvictMarker
  <1>33. CASE Tick
    BY <1>33 DEF Tick
  <1>34. CASE UNCHANGED vars
    BY <1>34 DEF vars
  <1> HIDE DEF RefusedInv
  <1>35. QED
    BY <1>1, <1>2, <1>3, <1>4, <1>5, <1>6, <1>7, <1>8, <1>9, <1>10, <1>11,
       <1>12, <1>13, <1>14, <1>15, <1>16, <1>17, <1>18, <1>19, <1>20, <1>21,
       <1>22, <1>23, <1>24, <1>25, <1>26, <1>27, <1>28, <1>29, <1>30, <1>31,
       <1>32, <1>33, <1>34 DEF Next, Begin, Continue

\* Once a marker is written for the session or the user of an access token, no
\* request that begins later is authorized with it before one of the session's
\* tokens expires, but for the sessions a marker of which Redis has evicted.
THEOREM InvalidatedRefused == Spec => []InvalidatedTokensRefused
  <1>1. TypeInv /\ RefusedInv => InvalidatedTokensRefused
    <2> SUFFICES ASSUME TypeInv, RefusedInv, NEW r \in Requests,
                        req[r].pc = "authorized", req[r].barred
                 PROVE  /\ Over(req[r].sid)
                        /\ req[r].sid \in SessionIds /\ token[req[r].sid] \in Token
      BY TTLAssumption, BoundAssumption
      DEF InvalidatedTokensRefused, Over, AccessExp, RefreshExp, Token, Time, TypeInv, TypeOK
    <2>1. req[r].op \notin {"none", "login", "refresh"}
      BY DEF TypeInv, RecordOK
    <2>2. req[r].sid \in Issued
      BY <2>1 DEF TypeInv, RecordOK
    <2>3. QED
      BY <2>1, <2>2 DEF RefusedInv, TypeInv, TypeOK, Issued
  <1>2. QED
    BY <1>1, InitTypeInv, InitInvs, TypeInvStep, ClockInvStep, RefusedInvStep, PTL DEF Spec

-----------------------------------------------------------------------------
(***************************************************************************)
(* The ledger.  With any number of requests in flight, what a commit does  *)
(* to the sessions is a step of the ledger, but for one: a rotation that   *)
(* is committed over a session that another request has revoked since it   *)
(* was selected opens a successor next to what is live.                    *)
(***************************************************************************)
\* Revoking or deleting rows closes those of them that are live.
LEMMA ClosingRows ==
  ASSUME TypeInv, NEW rows \in SUBSET Issued, NEW gone \in {"revoked", "deleted"},
         row' = [s \in SessionIds |-> IF s \in rows THEN gone ELSE row[s]],
         UNCHANGED token
  PROVE  Ledger!Next
  <1>1. row \in [SessionIds -> RowState]
    BY DEF TypeInv, TypeOK
  <1>2. Issued' = Issued
    BY <1>1 DEF Issued, RowState
  <1>3. \A s \in SessionIds :
           (IF row'[s] \in {"revoked", "deleted"} THEN "closed" ELSE row'[s]) =
              IF s \in rows \cap Live THEN "closed"
              ELSE IF row[s] \in {"revoked", "deleted"} THEN "closed" ELSE row[s]
    BY <1>1 DEF Issued, Live, RowState
  <1>4. \A s \in rows \cap Live : s \in SessionIds /\ row[s] = "live"
    BY DEF Live
  <1>5. [s \in SessionIds |-> IF s \in Issued' THEN token'[s].family ELSE None] =
           [s \in SessionIds |-> IF s \in Issued THEN token[s].family ELSE None]
    BY <1>2
  <1>6. PICK S \in SUBSET SessionIds : S = rows \cap Live
    BY DEF Live
  <1>7. Ledger!Close(S)
    BY <1>3, <1>4, <1>5, <1>6 DEF Ledger!Close
  <1>8. QED
    BY <1>7 DEF Ledger!Next

\* Every other step of the system is a step of the ledger or leaves it alone.
LEMMA LedgerStep ==
  ASSUME TypeInv, [Next]_vars, \A r \in Requests : ~ StaleRotation(r)
  PROVE  [Ledger!Next]_(Ledger!vars)
  <1>rec. ASSUME NEW r \in Requests PROVE RecordOK(req[r]) /\ req[r] \in Request
    BY DEF TypeInv, TypeOK
  <1>type. /\ row \in [SessionIds -> RowState]
           /\ token \in [SessionIds -> Token \cup {None}]
           /\ \A s \in Issued : token[s] \in Token
    BY DEF TypeInv, TypeOK, Issued
  <1>same. ASSUME UNCHANGED <<row, token>> PROVE UNCHANGED Ledger!vars
    BY <1>same DEF Ledger!vars, Issued
  <1>1. ASSUME NEW r \in Requests, NEW rehash \in BOOLEAN, LoginCommit(r, rehash) PROVE Ledger!Next
    <2>1. PICK s \in SessionIds : s = req[r].new /\ row[s] = "unissued"
      BY <1>1, <1>rec, NoneAssumption DEF LoginCommit, At, RecordOK, Request
    <2>2. \A t \in SessionIds : row'[t] = IF t = s THEN "live" ELSE row[t]
      BY <1>1, <1>type, <2>1 DEF LoginCommit
    <2>3. /\ token'[s].family = s
          /\ \A t \in SessionIds : t # s => token'[t] = token[t]
      BY <1>1, <1>type, <2>1 DEF LoginCommit
    <2>4. Issued' = Issued \cup {s}
      BY <2>1, <2>2 DEF Issued
    <2>5. Ledger!Open(s)
      BY ZenonT(30), <2>1, <2>2, <2>3, <2>4 DEF Ledger!Open
    <2>6. QED
      BY <2>5 DEF Ledger!Next
  <1>2. ASSUME NEW r \in Requests, RotateCommit(r)
        PROVE  Ledger!Next
    <2>1. PICK old \in SessionIds, new \in SessionIds :
             /\ old = req[r].sid /\ new = req[r].new
             /\ row[new] = "unissued" /\ old \in Issued
      BY <1>2, <1>rec, NoneAssumption DEF RotateCommit, At, RecordOK, Request, Issued
    <2>2. row[old] = "live" /\ old # new
      BY <1>2, <1>type, <2>1 DEF RotateCommit, StaleRotation, RowState, Issued
    <2>3. \A t \in SessionIds : row'[t] = IF t = new THEN "live"
                                          ELSE IF t = old THEN "revoked" ELSE row[t]
      BY <1>2, <1>type, <2>1, <2>2 DEF RotateCommit
    <2>4. /\ token'[new].family = token[old].family
          /\ \A t \in SessionIds : t # new => token'[t] = token[t]
      BY <1>2, <1>type, <2>1 DEF RotateCommit, Token
    <2>5. Issued' = Issued \cup {new}
      BY <2>1, <2>2, <2>3 DEF Issued
    <2>6. Ledger!Rotate(old, new)
      BY <2>1, <2>2, <2>3, <2>4, <2>5 DEF Ledger!Rotate
    <2>7. QED
      BY <2>6 DEF Ledger!Next
  <1>3. ASSUME NEW r \in Requests, ReuseCommit(r) \/ LogoutCommit(r) \/ LogoutAllCommit(r)
        PROVE  Ledger!Next
    <2>1. req[r].rows \in SUBSET Issued
      BY <1>rec DEF RecordOK
    <2>2. /\ row' = [s \in SessionIds |-> IF s \in req[r].rows THEN "revoked" ELSE row[s]]
          /\ UNCHANGED token
      BY <1>3 DEF ReuseCommit, LogoutCommit, LogoutAllCommit, Revoke
    <2>3. QED
      BY <2>1, <2>2, ClosingRows
  <1>4. ASSUME NEW r \in Requests, ChangePasswordCommit(r)
        PROVE  Ledger!Next
    <2>1. req[r].rows \in SUBSET Issued
      BY <1>rec DEF RecordOK
    <2>2. /\ row' = [s \in SessionIds |-> IF s \in req[r].rows THEN "deleted" ELSE row[s]]
          /\ UNCHANGED token
      BY <1>4 DEF ChangePasswordCommit
    <2>3. QED
      BY <2>1, <2>2, ClosingRows
  <1>5. ASSUME NEW r \in Requests, Begin(r) PROVE UNCHANGED <<row, token>>
    BY <1>5 DEF Begin, LoginSelect, RefreshDecode, LogoutSelect, RejectExpired,
                Authenticate, vars, db
  <1>6. ASSUME NEW r \in Requests, Continue(r)
        PROVE  \/ UNCHANGED <<row, token>> \/ RotateCommit(r)
               \/ (\E rehash \in BOOLEAN : LoginCommit(r, rehash))
               \/ ReuseCommit(r) \/ LogoutCommit(r) \/ LogoutAllCommit(r)
               \/ ChangePasswordCommit(r)
    BY <1>6 DEF Continue, LoginIssue, RotateIssue, ReuseMark, RefreshReject,
                RefreshReplayed, RefreshAccept, ReuseSelect, LogoutMark,
                CheckRevokedAll, CheckRevokedSession, LoadUser, ReadProfile,
                LogoutAllBegin, LockRow, LogoutAllMark, ChangePasswordBegin,
                ChangePasswordReject, ReuseUpdate, CommitRefused, DeadlockAbort, db
  <1>7. \/ UNCHANGED <<row, token>>
        \/ \E r \in Requests : Begin(r) \/ Continue(r)
    BY DEF Next, Fail, EvictMarker, Tick, vars, db
  <1>8. QED
    BY <1>same, <1>1, <1>2, <1>3, <1>4, <1>5, <1>6, <1>7

\* With any number of requests in flight, a rotation committed over a session that
\* was revoked after the request selected it is the only step that is not one of
\* the ledger: every other commit opens a new family or closes sessions.
THEOREM LedgerButForStaleRotation ==
  Spec => [][\/ Ledger!Next \/ UNCHANGED Ledger!vars
             \/ \E r \in Requests : StaleRotation(r)]_vars
  <1>1. TypeInv /\ [Next]_vars =>
           [\/ Ledger!Next \/ UNCHANGED Ledger!vars
            \/ \E r \in Requests : StaleRotation(r)]_vars
    BY LedgerStep
  <1>2. QED
    BY <1>1, InitTypeInv, TypeInvStep, PTL DEF Spec

-----------------------------------------------------------------------------
(***************************************************************************)
(* Requests that run one at a time.  Then what a request has read is still *)
(* so when it commits: the password it verified or loaded, the session it  *)
(* rotates, and the rows it is about to revoke or delete.                  *)
(***************************************************************************)
Serial == \A q, r \in Requests : q = r

Current(r) ==
    LET x == req[r] IN
    /\ x.op = "login" => x.pwd = password[x.user]
    /\ x.pc \in {"rotate", "rotate_commit"} => row[x.sid] = "live"
    /\ x.pc \in {"reuse_mark", "reuse_update"} => x.rows = Live \cap FamilyOf(x.sid)
    /\ x.pc \in {"all_update", "all_commit"} => x.rows = Live \cap RowsOf(x.user)
    /\ x.pc = "pwd_delete" => x.rows = RowsOf(x.user)

SerialInv == LiveSessionsMatchPassword /\ \A r \in Requests : Current(r)

\* A step that commits nothing keeps the invariant if the request keeps current.
LEMMA CurrentKept ==
  ASSUME SerialInv, UNCHANGED <<password, row, token>>, \A r \in Requests : Current(r)'
  PROVE  SerialInv'
  BY DEF SerialInv, LiveSessionsMatchPassword, Live

\* The only request ends, with a commit that keeps passwords of live sessions.
LEMMA CurrentEnds ==
  ASSUME TypeInv, Serial, NEW r \in Requests, Finish(r), LiveSessionsMatchPassword'
  PROVE  SerialInv'
  <1>1. \A q \in Requests : req'[q] = Idle
    BY DEF Serial, Finish, TypeInv, TypeOK
  <1>2. QED
    BY <1>1 DEF SerialInv, Current, Idle

\* Revoking rows leaves no new session live.
LEMMA RevokingMatches ==
  ASSUME LiveSessionsMatchPassword, NEW rows, Revoke(rows), UNCHANGED <<password, token>>
  PROVE  LiveSessionsMatchPassword'
  <1>1. Live' \subseteq Live
    BY DEF Live, Revoke
  <1>2. QED
    BY <1>1 DEF LiveSessionsMatchPassword

LEMMA SerialStep ==
  ASSUME TypeInv, SerialInv, Serial, [Next]_vars
  PROVE  SerialInv'
  <1>type. /\ req \in [Requests -> Request]
           /\ row \in [SessionIds -> RowState]
           /\ token \in [SessionIds -> Token \cup {None}]
           /\ password \in [Users -> Passwords]
           /\ \A s \in Issued : s \in SessionIds /\ token[s] \in Token
    BY DEF TypeInv, TypeOK, Issued
  <1>rec. ASSUME NEW r \in Requests PROVE req[r] \in Request /\ RecordOK(req[r])
    BY DEF TypeInv, TypeOK
  <1>cur. ASSUME NEW r \in Requests PROVE Current(r)
    BY DEF SerialInv
  <1>only. \A q, r \in Requests : q = r
    BY DEF Serial
  <1>match. LiveSessionsMatchPassword
    BY DEF SerialInv
  <1>ends. ASSUME NEW r \in Requests, Finish(r), UNCHANGED <<password, row, token>>
           PROVE  SerialInv'
    <2>1. LiveSessionsMatchPassword'
      BY <1>ends, <1>match DEF LiveSessionsMatchPassword, Live
    <2>2. QED
      BY <1>ends, <2>1, CurrentEnds
  <1>moves. ASSUME NEW r \in Requests, NEW x, req' = [req EXCEPT ![r] = x],
                   UNCHANGED <<password, row, token>>,
                   /\ x.op = "login" => x.pwd = password[x.user]
                   /\ x.pc \in {"rotate", "rotate_commit"} => row[x.sid] = "live"
                   /\ x.pc \in {"reuse_mark", "reuse_update"} =>
                          x.rows = Live \cap FamilyOf(x.sid)
                   /\ x.pc \in {"all_update", "all_commit"} => x.rows = Live \cap RowsOf(x.user)
                   /\ x.pc = "pwd_delete" => x.rows = RowsOf(x.user)
            PROVE  SerialInv'
    <2>1. \A q \in Requests : req'[q] = x
      BY <1>moves, <1>only, <1>type
    <2>2. Issued' = Issued /\ Live' = Live
      BY <1>moves DEF Issued, Live
    <2>3. /\ \A s : FamilyOf(s)' = FamilyOf(s)
          /\ \A u : RowsOf(u)' = RowsOf(u)
      BY <1>moves, <2>2 DEF FamilyOf, RowsOf
    <2>4. \A q \in Requests : Current(q)'
      BY <1>moves, <2>1, <2>2, <2>3 DEF Current
    <2>5. QED
      BY <1>moves, <2>4, CurrentKept
  <1>1. ASSUME NEW r \in Requests, Begin(r) PROVE SerialInv'
    <2>1. ASSUME NEW u \in Users, LoginSelect(r, u) PROVE SerialInv'
      <3>1. PICK x : /\ x = [Idle EXCEPT !.op = "login", !.pc = "login",
                                         !.user = u, !.pwd = password[u]]
                     /\ req' = [req EXCEPT ![r] = x]
        BY <2>1 DEF LoginSelect
      <3>2. UNCHANGED <<password, row, token>>
        BY <2>1 DEF LoginSelect, db
      <3>3. x.op = "login" /\ x.pc = "login" /\ x.user = u /\ x.pwd = password[u]
        BY <3>1 DEF Idle
      <3>4. QED
        BY <3>1, <3>2, <3>3, <1>moves
    <2>2. ASSUME NEW s \in SessionIds,
                 \/ RefreshDecode(r, s) \/ LogoutSelect(r, s)
                 \/ \E op \in {"me", "logout_all", "change_password"} \cap Guarded : Authenticate(r, s, op)
          PROVE  SerialInv'
      <3>1. PICK x : /\ x.op # "login" /\ x.pc \in {"refresh", "logout_mark", "auth_all"}
                     /\ req' = [req EXCEPT ![r] = x]
        BY <2>2 DEF RefreshDecode, LogoutSelect, Authenticate, Idle
      <3>2. UNCHANGED <<password, row, token>>
        BY <2>2 DEF RefreshDecode, LogoutSelect, Authenticate, db
      <3>3. QED
        BY <3>1, <3>2, <1>moves
    <2>3. ASSUME NEW s \in SessionIds, RejectExpired(r, s) PROVE SerialInv'
      BY <2>3 DEF RejectExpired, vars, SerialInv, LiveSessionsMatchPassword, Live, Current,
                  FamilyOf, RowsOf, Issued
    <2>4. QED
      BY <1>1, <2>1, <2>2, <2>3 DEF Begin
  <1>2. ASSUME NEW r \in Requests, NEW s \in SessionIds, LoginIssue(r, s) PROVE SerialInv'
    <2>1. PICK x : /\ x = [req[r] EXCEPT !.pc = "login_commit", !.new = s, !.iat = now]
                   /\ req' = [req EXCEPT ![r] = x]
      BY <1>2, <1>type DEF LoginIssue, Request
    <2>2. x.op = "login" /\ x.pc = "login_commit" /\ x.pwd = req[r].pwd /\ x.user = req[r].user
      BY <1>2, <1>rec, <2>1 DEF LoginIssue, At, Request
    <2>3. x.pwd = password[x.user]
      BY <1>2, <1>cur, <2>2 DEF LoginIssue, At, Current
    <2>4. UNCHANGED <<password, row, token>>
      BY <1>2 DEF LoginIssue, db
    <2>5. QED
      BY <1>moves, <2>1, <2>2, <2>3, <2>4
  <1>3. ASSUME NEW r \in Requests, NEW s \in SessionIds, RotateIssue(r, s) PROVE SerialInv'
    <2>1. PICK x : /\ x = [req[r] EXCEPT !.pc = "rotate_commit", !.new = s, !.iat = now]
                   /\ req' = [req EXCEPT ![r] = x]
      BY <1>3, <1>type DEF RotateIssue, Request
    <2>2. x.op = "refresh" /\ x.pc = "rotate_commit" /\ x.sid = req[r].sid
      BY <1>3, <1>rec, <2>1 DEF RotateIssue, At, Request
    <2>3. row[x.sid] = "live"
      BY <1>3, <1>cur, <2>2 DEF RotateIssue, At, Current
    <2>4. UNCHANGED <<password, row, token>>
      BY <1>3 DEF RotateIssue, db
    <2>5. QED
      BY <1>moves, <2>1, <2>2, <2>3, <2>4
  <1>4. ASSUME NEW r \in Requests, NEW s \in SessionIds, ReuseMark(r, s) PROVE SerialInv'
    <2>1. PICK x : /\ x = [req[r] EXCEPT !.done = @ \cup {s}]
                   /\ req' = [req EXCEPT ![r] = x]
      BY <1>4, <1>type DEF ReuseMark, Request
    <2>2. x.op = "refresh" /\ x.pc = "reuse_mark" /\ x.sid = req[r].sid /\ x.rows = req[r].rows
      BY <1>4, <1>rec, <2>1 DEF ReuseMark, At, Request
    <2>3. x.rows = Live \cap FamilyOf(x.sid)
      BY <1>4, <1>cur, <2>2 DEF ReuseMark, At, Current
    <2>4. UNCHANGED <<password, row, token>>
      BY <1>4 DEF ReuseMark, db
    <2>5. QED
      BY <1>moves, <2>1, <2>2, <2>3, <2>4
  <1>5. ASSUME NEW r \in Requests, NEW rehash \in BOOLEAN, LoginCommit(r, rehash) PROVE SerialInv'
    <2> DEFINE s == req[r].new
    <2>1. /\ s \in SessionIds /\ req[r].user \in Users
          /\ req[r].pwd = password[req[r].user]
      BY <1>5, <1>rec, <1>cur, NoneAssumption DEF LoginCommit, At, RecordOK, Request,
         Current
    <2>2. /\ token'[s].user = req[r].user /\ token'[s].pwd = req[r].pwd
          /\ \A t \in SessionIds : t # s => token'[t] = token[t] /\ row'[t] = row[t]
      BY <1>5, <1>type, <2>1 DEF LoginCommit
    <2>pwd. password' = password
      <3>1. [password EXCEPT ![req[r].user] = req[r].pwd] = password
        BY <1>type, <2>1
      <3>2. QED
        BY <1>5, <3>1 DEF LoginCommit
    <2>3. LiveSessionsMatchPassword'
      BY <1>match, <2>1, <2>2, <2>pwd DEF LiveSessionsMatchPassword, Live
    <2>4. QED
      BY <1>5, <2>3, CurrentEnds DEF LoginCommit
  <1>6. ASSUME NEW r \in Requests, RotateCommit(r) PROVE SerialInv'
    <2> DEFINE old == req[r].sid
               new == req[r].new
    <2>1. new \in SessionIds /\ old \in SessionIds /\ row[old] = "live" /\ token[old] \in Token
      BY <1>6, <1>rec, <1>cur, <1>type, NoneAssumption
      DEF RotateCommit, At, RecordOK, Request, Current, Issued
    <2>2. /\ token'[new].user = token[old].user /\ token'[new].pwd = token[old].pwd
          /\ \A t \in SessionIds : t # new => token'[t] = token[t]
          /\ \A t \in SessionIds : t # new /\ row'[t] = "live" => row[t] = "live"
          /\ UNCHANGED password
      BY <1>6, <1>type, <2>1 DEF RotateCommit, Token
    <2>3. LiveSessionsMatchPassword'
      BY <1>match, <2>1, <2>2 DEF LiveSessionsMatchPassword, Live
    <2>4. QED
      BY <1>6, <2>3, CurrentEnds DEF RotateCommit
  <1>7. ASSUME NEW r \in Requests, ReuseCommit(r) \/ LogoutCommit(r) \/ LogoutAllCommit(r)
        PROVE  SerialInv'
    <2>1. Revoke(req[r].rows) /\ Finish(r) /\ UNCHANGED <<password, token>>
      BY <1>7 DEF ReuseCommit, LogoutCommit, LogoutAllCommit
    <2>2. QED
      BY <1>match, <2>1, RevokingMatches, CurrentEnds
  <1>8. ASSUME NEW r \in Requests, ChangePasswordCommit(r)
        PROVE  SerialInv'
    <2> DEFINE u == req[r].user
    <2>1. u \in Users /\ req[r].rows = RowsOf(u)
      BY <1>8, <1>rec, <1>cur DEF ChangePasswordCommit, At, RecordOK, Current
    <2>2. /\ \A w \in Users : w # u => password'[w] = password[w]
          /\ \A s \in SessionIds : row'[s] = "live" => row[s] = "live" /\ s \notin RowsOf(u)
          /\ UNCHANGED token
      BY <1>8, <1>type, <2>1 DEF ChangePasswordCommit
    <2>3. LiveSessionsMatchPassword'
      <3> SUFFICES ASSUME NEW s \in Live' PROVE token'[s].pwd = password'[token'[s].user]
        BY DEF LiveSessionsMatchPassword
      <3>1. s \in Live /\ s \in Issued /\ s \notin RowsOf(u)
        BY <2>2 DEF Live, Issued
      <3>2. token[s].user # u /\ token[s].user \in Users
        BY <1>type, <3>1 DEF RowsOf, Live, Token
      <3>3. QED
        BY <1>match, <2>2, <3>1, <3>2 DEF LiveSessionsMatchPassword
    <2>4. QED
      BY <1>8, <2>3, CurrentEnds DEF ChangePasswordCommit
  <1>9. ASSUME NEW r \in Requests, ReuseSelect(r) PROVE SerialInv'
    <2>1. PICK x : /\ x = [req[r] EXCEPT !.pc = "reuse_mark",
                                         !.rows = Live \cap FamilyOf(req[r].sid)]
                   /\ req' = [req EXCEPT ![r] = x]
      BY <1>9, <1>type DEF ReuseSelect, Request
    <2>2. /\ x.op = "refresh" /\ x.pc = "reuse_mark" /\ x.sid = req[r].sid
          /\ x.rows = Live \cap FamilyOf(req[r].sid)
      BY <1>9, <1>rec, <2>1 DEF ReuseSelect, At, Request
    <2>3. QED
      BY ZenonT(60), <1>9, <1>moves, <2>1, <2>2 DEF ReuseSelect, db
  <1>10. ASSUME NEW r \in Requests, LogoutAllBegin(r) PROVE SerialInv'
    <2>1. PICK x : /\ x = [req[r] EXCEPT !.pc = "all_update",
                                         !.rows = Live \cap RowsOf(req[r].user)]
                   /\ req' = [req EXCEPT ![r] = x]
      BY <1>10, <1>type DEF LogoutAllBegin, Request
    <2>2. /\ x.op = "logout_all" /\ x.pc = "all_update" /\ x.user = req[r].user
          /\ x.rows = Live \cap RowsOf(req[r].user)
      BY <1>10, <1>rec, <2>1 DEF LogoutAllBegin, At, Request
    <2>3. QED
      BY ZenonT(30), <1>10, <1>moves, <2>1, <2>2 DEF LogoutAllBegin, db
  <1>11. ASSUME NEW r \in Requests, NEW s \in SessionIds, LockRow(r, s) PROVE SerialInv'
    <2>1. PICK x : /\ req' = [req EXCEPT ![r] = x]
                   /\ x.op = req[r].op /\ x.pc = req[r].pc /\ x.user = req[r].user
                   /\ x.sid = req[r].sid /\ x.pwd = req[r].pwd
                   /\ Matches(r, s) => x.rows = req[r].rows
      BY <1>11, LockingMoves
    <2>2. Matches(r, s)
      BY <1>11, <1>cur DEF LockRow, Locking, Matches, Current, Live, RowsOf
    <2>3. UNCHANGED <<password, row, token>>
      BY <1>11 DEF LockRow, db
    <2>4. x.rows = req[r].rows /\ Current(r)
      BY <1>cur, <2>1, <2>2
    <2>5. QED
      BY <1>moves, <2>1, <2>3, <2>4 DEF Current
  <1>12. ASSUME NEW r \in Requests, LogoutAllMark(r) PROVE SerialInv'
    <2>1. PICK x : /\ x = [req[r] EXCEPT !.pc = "all_commit"]
                   /\ req' = [req EXCEPT ![r] = x]
      BY <1>12, <1>type DEF LogoutAllMark, Request
    <2>2. /\ x.op = "logout_all" /\ x.pc = "all_commit" /\ x.user = req[r].user
          /\ x.rows = req[r].rows
      BY <1>12, <1>rec, <2>1 DEF LogoutAllMark, At, Request
    <2>3. x.rows = Live \cap RowsOf(x.user)
      BY <1>12, <1>cur, <2>2 DEF LogoutAllMark, At, Current
    <2>4. QED
      BY <1>12, <1>moves, <2>1, <2>2, <2>3 DEF LogoutAllMark, db
  <1>13. ASSUME NEW r \in Requests, NEW v \in Passwords, ChangePasswordBegin(r, v)
         PROVE  SerialInv'
    <2>1. PICK x : /\ x = [req[r] EXCEPT !.pc = "pwd_delete", !.pwd = v,
                                         !.rows = RowsOf(req[r].user)]
                   /\ req' = [req EXCEPT ![r] = x]
      BY <1>13, <1>type DEF ChangePasswordBegin, Request
    <2>2. /\ x.op = "change_password" /\ x.pc = "pwd_delete" /\ x.user = req[r].user
          /\ x.rows = RowsOf(req[r].user)
      BY <1>13, <1>rec, <2>1 DEF ChangePasswordBegin, At, Request
    <2>3. UNCHANGED <<password, row, token>>
      BY <1>13 DEF ChangePasswordBegin, db
    <2>4. QED
      BY <1>moves, <2>1, <2>2, <2>3
  <1>14. ASSUME NEW r \in Requests, ReuseUpdate(r) PROVE SerialInv'
    <2>1. PICK x : /\ x = [req[r] EXCEPT !.pc = "reuse_update", !.done = {}]
                   /\ req' = [req EXCEPT ![r] = x]
      BY <1>14, <1>type DEF ReuseUpdate, Request
    <2>2. /\ x.op = "refresh" /\ x.pc = "reuse_update" /\ x.sid = req[r].sid
          /\ x.rows = req[r].rows
      BY <1>14, <1>rec, <2>1 DEF ReuseUpdate, At, Request
    <2>3. x.rows = Live \cap FamilyOf(x.sid)
      BY <1>14, <1>cur, <2>2 DEF ReuseUpdate, At, Current
    <2>4. UNCHANGED <<password, row, token>>
      BY <1>14 DEF ReuseUpdate, db
    <2>5. QED
      BY <1>moves, <2>1, <2>2, <2>3, <2>4
  <1>15. ASSUME NEW r \in Requests, RefreshAccept(r) PROVE SerialInv'
    <2>1. PICK x : x = [req[r] EXCEPT !.pc = "rotate"] /\ req' = [req EXCEPT ![r] = x]
      BY <1>15, <1>type DEF RefreshAccept, Request
    <2>2. x.op = "refresh" /\ x.pc = "rotate" /\ x.sid = req[r].sid
      BY <1>15, <1>rec, <2>1 DEF RefreshAccept, At, Request
    <2>3. UNCHANGED <<password, row, token>>
      BY <1>15 DEF RefreshAccept, db
    <2>4. row[req[r].sid] = "live"
      BY <1>15 DEF RefreshAccept
    <2>5. QED
      BY <1>moves, <2>1, <2>2, <2>3, <2>4
  <1>16. ASSUME NEW r \in Requests, NEW pc \in {"reuse", "logout_commit", "auth_session",
                                                "auth_user", "authorized"},
                req[r].op # "login", req' = [req EXCEPT ![r] = [req[r] EXCEPT !.pc = pc]],
                UNCHANGED db
         PROVE  SerialInv'
    <2>1. PICK x : x = [req[r] EXCEPT !.pc = pc] /\ req' = [req EXCEPT ![r] = x]
      BY <1>16
    <2>2. x.op # "login" /\ x.pc = pc
      BY <1>16, <1>rec, <2>1 DEF Request
    <2>3. QED
      BY <1>16, <1>moves, <2>1, <2>2 DEF db
  <1>17. ASSUME NEW r \in Requests,
                \/ RefreshReplayed(r) \/ LogoutMark(r) \/ LoadUser(r)
                \/ CheckRevokedAll(r) \/ CheckRevokedSession(r)
         PROVE  SerialInv'
    <2>1. req[r].op # "login" /\ UNCHANGED db
      BY <1>17, <1>rec DEF RefreshReplayed, LogoutMark, LoadUser, CheckRevokedAll,
                           CheckRevokedSession, At, RecordOK
    <2>2. \/ Finish(r)
          \/ \E pc \in {"reuse", "logout_commit", "auth_session", "auth_user", "authorized"} :
                req' = [req EXCEPT ![r] = [req[r] EXCEPT !.pc = pc]]
      <3>1. CASE RefreshReplayed(r)
        BY <1>type, <3>1 DEF RefreshReplayed, Request
      <3>2. CASE LogoutMark(r)
        BY <1>type, <3>2 DEF LogoutMark, Request
      <3>3. CASE LoadUser(r)
        BY <1>type, <3>3 DEF LoadUser, Request
      <3>4. CASE CheckRevokedAll(r)
        BY ZenonT(30), <1>type, <3>4 DEF CheckRevokedAll, Request
      <3>5. CASE CheckRevokedSession(r)
        BY ZenonT(30), <1>type, <3>5 DEF CheckRevokedSession, Request
      <3>6. QED
        BY <1>17, <3>1, <3>2, <3>3, <3>4, <3>5
    <2>3. QED
      BY <1>16, <1>ends, <2>1, <2>2 DEF db
  <1>18. ASSUME NEW r \in Requests,
                \/ RefreshReject(r) \/ ReadProfile(r) \/ ChangePasswordReject(r)
                \/ CommitRefused(r) \/ DeadlockAbort(r) \/ Fail(r)
         PROVE  SerialInv'
    BY <1>18, <1>ends DEF RefreshReject, ReadProfile, ChangePasswordReject, CommitRefused, DeadlockAbort,
       Fail, db
  <1>19. CASE EvictMarker \/ Tick \/ UNCHANGED vars
    <2>1. UNCHANGED <<password, row, token, req>>
      BY <1>19 DEF EvictMarker, Tick, vars, db
    <2>2. QED
      BY <2>1 DEF SerialInv, LiveSessionsMatchPassword, Live, Current, FamilyOf, RowsOf,
         Issued
  <1>20. QED
    BY <1>1, <1>2, <1>3, <1>4, <1>5, <1>6, <1>7, <1>8, <1>9, <1>10, <1>11, <1>12,
       <1>13, <1>14, <1>15, <1>17, <1>18, <1>19 DEF Next, Continue

LEMMA SerialInvariant ==
  ASSUME Serial
  PROVE  Spec => [](TypeInv /\ SerialInv)
  <1>1. Init => SerialInv
    BY DEF Init, SerialInv, LiveSessionsMatchPassword, Live, Current, Idle
  <1>2. TypeInv /\ SerialInv /\ [Next]_vars => SerialInv'
    BY SerialStep
  <1>3. QED
    BY <1>1, <1>2, InitTypeInv, TypeInvStep, PTL DEF Spec

\* One request at a time, a live session was opened with the current password: a
\* password change deletes all sessions of the user in its one commit.
THEOREM PasswordsMatch ==
  ASSUME Serial
  PROVE  Spec => []LiveSessionsMatchPassword
  <1>1. SerialInv => LiveSessionsMatchPassword
    BY DEF SerialInv
  <1>2. QED
    BY <1>1, SerialInvariant, PTL

\* One request at a time, the sessions are those of the ledger, step by step.
THEOREM LedgerImplemented ==
  ASSUME Serial
  PROVE  Spec => ImplementsLedger
  <1>1. Init => Ledger!Init
    BY DEF Init, Issued, Ledger!Init
  <1>2. TypeInv /\ SerialInv /\ [Next]_vars => [Ledger!Next]_(Ledger!vars)
    <2> SUFFICES ASSUME TypeInv, SerialInv, [Next]_vars PROVE [Ledger!Next]_(Ledger!vars)
      OBVIOUS
    <2>1. \A r \in Requests : ~ StaleRotation(r)
      BY DEF SerialInv, Current, StaleRotation, RotateCommit, At
    <2>2. QED
      BY <2>1, LedgerStep
  <1>3. QED
    BY <1>1, <1>2, SerialInvariant, PTL DEF Spec, ImplementsLedger, Ledger!Spec

\* One request at a time, a replayed refresh token closes its whole family.
THEOREM ReplayCloses ==
  ASSUME Serial
  PROVE  Spec => ReplayClosesFamily
  <1>1. ASSUME TypeInv, SerialInv, NEW r \in Requests, ReuseCommit(r), NEW s \in Live'
        PROVE  token'[s].family # token[req[r].sid].family
    <2>1. req[r].rows = Live \cap FamilyOf(req[r].sid)
      BY <1>1 DEF SerialInv, Current, ReuseCommit, At
    <2>2. s \in Live /\ s \notin req[r].rows /\ s \in Issued /\ UNCHANGED token
      BY <1>1 DEF ReuseCommit, Revoke, Live, Issued
    <2>3. QED
      BY <2>1, <2>2 DEF FamilyOf
  <1>2. TypeInv /\ SerialInv /\ [Next]_vars =>
           [\A r \in Requests : ReuseCommit(r) =>
               \A s \in Live' : token'[s].family # token[req[r].sid].family]_vars
    BY <1>1
  <1>3. QED
    BY <1>2, SerialInvariant, PTL DEF Spec, ReplayClosesFamily

\* One request at a time, logout-all leaves the user no live session at all.
THEOREM LogoutAllCloses ==
  ASSUME Serial
  PROVE  Spec => LogoutAllClosesFamilies
  <1>1. ASSUME TypeInv, SerialInv, NEW r \in Requests, LogoutAllCommit(r), NEW s \in Live'
        PROVE  token'[s].user # req[r].user
    <2>1. req[r].rows = Live \cap RowsOf(req[r].user)
      BY <1>1 DEF SerialInv, Current, LogoutAllCommit, At
    <2>2. s \in Live /\ s \notin req[r].rows /\ s \in Issued /\ UNCHANGED token
      BY <1>1 DEF LogoutAllCommit, Revoke, Live, Issued
    <2>3. QED
      BY <2>1, <2>2 DEF RowsOf, Live
  <1>2. TypeInv /\ SerialInv /\ [Next]_vars =>
           [\A r \in Requests : LogoutAllCommit(r) =>
               \A s \in Live' : token'[s].user = req[r].user =>
                                    token'[s].family \notin invalidated]_vars
    BY <1>1
  <1>3. QED
    BY <1>2, SerialInvariant, PTL DEF Spec, LogoutAllClosesFamilies

\* One request at a time, at most one session of a family is live: what the ledger
\* guarantees, carried over by the refinement.
THEOREM OneLiveInFamily ==
  ASSUME Serial
  PROVE  Spec => []OneLiveSessionPerFamily
  <1>1. Ledger!Spec => []Ledger!OneLivePerFamily
    BY Ledger!LedgerSafe
  <1>2. TypeInv /\ Ledger!OneLivePerFamily => OneLiveSessionPerFamily
    BY DEF Ledger!OneLivePerFamily, OneLiveSessionPerFamily, Live, Issued, TypeInv, TypeOK
  <1>3. QED
    BY <1>1, <1>2, LedgerImplemented, SerialInvariant, PTL DEF ImplementsLedger

-----------------------------------------------------------------------------
(***************************************************************************)
(* Waiting.  What a request does next waits for nothing but the conditions *)
(* below, an id is left for every request that may create a session, and   *)
(* where requests wait for each other in a circle PostgreSQL breaks it.    *)
(***************************************************************************)

\* The guards of the steps in Continue.
CanContinue(r) ==
    LET x == req[r] IN
    \/ x.pc = "login" /\ Fresh # {} /\ UserUnlocked(x.user)
    \/ x.pc = "rotate" /\ Fresh # {}
    \/ x.pc = "refresh" /\ \/ row[x.sid] \in {"revoked", "deleted"}
                           \/ /\ row[x.sid] = "live"
                              /\ now <= RefreshExp(x.sid) \/ RefreshExp(x.sid) < now
    \/ /\ x.pc = "rotate_commit"
       /\ KeyCheckedAtOnce \/ Unlocked(r, {x.sid}) \/ row[x.sid] = "deleted"
    \/ x.pc = "reuse_mark" /\ (x.rows \ x.done # {} \/ x.done = x.rows)
    \/ /\ x.pc = "logout_commit"
       /\ Unlocked(r, x.rows) \/ \E s \in x.rows : row[s] = "deleted"
    \/ /\ x.pc \in Locking
       /\ \/ \E s \in x.rows \ x.done : \/ Unlocked(r, {s})
                                        \/ x.pc = "reuse_update" /\ row[s] = "deleted"
          \/ x.done = x.rows /\ (x.pc = "pwd_delete" => UserUnlocked(x.user))
          \/ Deadlocked(r)
    \/ x.pc \in {"login_commit", "reuse", "logout_mark", "auth_all", "auth_session",
                 "auth_user", "authorized", "all_commit"}

\* CanContinue is what the steps of a request ask for, no less.
LEMMA GuardsKept == ASSUME TypeOK, NEW r \in Requests, Continue(r) PROVE CanContinue(r)
  <1> USE DEF At, CanContinue
  <1>1. ASSUME NEW s \in SessionIds, LoginIssue(r, s) \/ RotateIssue(r, s) PROVE CanContinue(r)
    BY <1>1 DEF LoginIssue, RotateIssue
  <1>2. ASSUME NEW s \in SessionIds, ReuseMark(r, s) PROVE CanContinue(r)
    BY <1>2 DEF ReuseMark
  <1>3. CASE RefreshReject(r) \/ RefreshReplayed(r) \/ RefreshAccept(r)
    BY <1>3 DEF RefreshReject, RefreshReplayed, RefreshAccept
  <1>4. CASE RotateCommit(r) \/ CommitRefused(r)
    BY <1>4 DEF RotateCommit, CommitRefused, Locking
  <1>5. CASE LogoutCommit(r) \/ ReuseUpdate(r)
    BY <1>5 DEF LogoutCommit, ReuseUpdate
  <1>6. ASSUME NEW s \in SessionIds, LockRow(r, s) PROVE CanContinue(r)
    BY <1>6 DEF LockRow
  <1>7. CASE ReuseCommit(r) \/ LogoutAllMark(r) \/ ChangePasswordCommit(r)
    BY <1>7 DEF ReuseCommit, LogoutAllMark, ChangePasswordCommit, Locking
  <1>8. CASE DeadlockAbort(r)
    BY <1>8 DEF DeadlockAbort, Deadlocked
  <1>9. CASE \/ \E rehash \in BOOLEAN : LoginCommit(r, rehash)
             \/ \E v \in Passwords : ChangePasswordBegin(r, v)
             \/ ReuseSelect(r) \/ LogoutMark(r) \/ ReadProfile(r)
             \/ CheckRevokedAll(r) \/ CheckRevokedSession(r) \/ LoadUser(r)
             \/ LogoutAllBegin(r) \/ LogoutAllCommit(r) \/ ChangePasswordReject(r)
    BY <1>9 DEF LoginCommit, ReuseSelect, LogoutMark, ReadProfile, CheckRevokedAll,
                CheckRevokedSession, LoadUser, LogoutAllBegin, LogoutAllCommit,
                ChangePasswordBegin, ChangePasswordReject
  <1>10. QED
    BY <1>1, <1>2, <1>3, <1>4, <1>5, <1>6, <1>7, <1>8, <1>9 DEF Continue

\* Where a request can be, by operation, and what it has marked or drawn there.
FlowOK(x) ==
    /\ x.op = "refresh" => x.pc \in {"refresh", "rotate", "rotate_commit",
                                     "reuse", "reuse_mark", "reuse_update"}
    /\ x.op = "logout" => x.pc \in {"logout_mark", "logout_commit"}
    /\ x.op = "me" => x.pc \in {"auth_all", "auth_session", "auth_user", "authorized"}
    /\ x.op = "logout_all" => x.pc \in {"auth_all", "auth_session", "auth_user", "authorized",
                                        "all_update", "all_commit"}
    /\ x.op = "change_password" => x.pc \in {"auth_all", "auth_session", "auth_user",
                                             "authorized", "pwd_delete"}
    /\ x.done \subseteq x.rows
    /\ x.pc \notin Locking \cup {"reuse_mark", "all_commit"} => x.done = {}
    /\ x.pc = "all_commit" => x.done = x.rows
    /\ x.new # None => x.pc \in {"login_commit", "rotate_commit"}

FlowInv == \A r \in Requests : FlowOK(req[r])

LEMMA FlowStep == TypeInv /\ FlowInv /\ [Next]_vars => FlowInv'
  <1> SUFFICES ASSUME TypeInv, FlowInv, [Next]_vars PROVE FlowInv'
    OBVIOUS
  <1>idle. FlowOK(Idle)
    BY DEF FlowOK, Locking, Idle
  <1>rec. ASSUME NEW r \in Requests PROVE req[r] \in Request /\ RecordOK(req[r]) /\ FlowOK(req[r])
    BY DEF TypeInv, TypeOK, FlowInv
  <1>moves. ASSUME NEW r \in Requests, NEW x, FlowOK(x), req' = [req EXCEPT ![r] = x]
            PROVE  FlowInv'
    BY <1>moves DEF FlowInv, TypeInv, TypeOK
  <1>ends. ASSUME NEW r \in Requests, Finish(r) PROVE FlowInv'
    BY <1>ends, <1>idle, <1>moves DEF Finish
  <1>1. ASSUME NEW r \in Requests, Begin(r) PROVE FlowInv'
    <2>1. ASSUME NEW u \in Users, LoginSelect(r, u) PROVE FlowInv'
      BY <2>1, <1>moves DEF LoginSelect, FlowOK, Locking, Idle
    <2>2. ASSUME NEW s \in SessionIds, RefreshDecode(r, s) PROVE FlowInv'
      BY <2>2, <1>moves DEF RefreshDecode, FlowOK, Locking, Idle
    <2>3. ASSUME NEW s \in SessionIds, LogoutSelect(r, s) PROVE FlowInv'
      BY <2>3, <1>moves DEF LogoutSelect, FlowOK, Locking, Idle
    <2>4. ASSUME NEW s \in SessionIds, NEW op \in {"me", "logout_all", "change_password"} \cap Guarded,
                 Authenticate(r, s, op)
          PROVE  FlowInv'
      BY <2>4, <1>moves DEF Authenticate, FlowOK, Locking, Idle
    <2>5. ASSUME NEW s \in SessionIds, RejectExpired(r, s) PROVE FlowInv'
      BY <2>5 DEF RejectExpired, vars, FlowInv
    <2>6. QED
      BY <1>1, <2>1, <2>2, <2>3, <2>4, <2>5 DEF Begin
  <1> USE DEF TypeInv, TypeOK, FlowInv, FlowOK, Locking, RecordOK, Request, At, db
  <1>2. ASSUME NEW r \in Requests, RefreshReject(r) PROVE FlowInv'
    BY <1>2, <1>ends DEF RefreshReject
  <1>3. ASSUME NEW r \in Requests, ReadProfile(r) PROVE FlowInv'
    BY <1>3, <1>ends DEF ReadProfile
  <1>4. ASSUME NEW r \in Requests, ChangePasswordReject(r) PROVE FlowInv'
    BY <1>4, <1>ends DEF ChangePasswordReject
  <1>5. ASSUME NEW r \in Requests, CommitRefused(r) \/ DeadlockAbort(r) PROVE FlowInv'
    BY <1>5, <1>ends DEF CommitRefused, DeadlockAbort
  <1>6. ASSUME NEW r \in Requests, Fail(r) PROVE FlowInv'
    BY <1>6, <1>ends DEF Fail
  <1>7. ASSUME NEW r \in Requests, NEW rehash \in BOOLEAN, LoginCommit(r, rehash) PROVE FlowInv'
    BY <1>7, <1>ends DEF LoginCommit
  <1>8. ASSUME NEW r \in Requests, RotateCommit(r) PROVE FlowInv'
    BY <1>8, <1>ends DEF RotateCommit
  <1>9. ASSUME NEW r \in Requests, ReuseCommit(r) PROVE FlowInv'
    BY <1>9, <1>ends DEF ReuseCommit
  <1>10. ASSUME NEW r \in Requests, LogoutCommit(r) PROVE FlowInv'
    BY <1>10, <1>ends DEF LogoutCommit
  <1>11. ASSUME NEW r \in Requests, LogoutAllCommit(r) PROVE FlowInv'
    BY <1>11, <1>ends DEF LogoutAllCommit
  <1>12. ASSUME NEW r \in Requests, ChangePasswordCommit(r) PROVE FlowInv'
    BY <1>12, <1>ends DEF ChangePasswordCommit
  <1>13. ASSUME NEW r \in Requests, NEW s \in SessionIds, LoginIssue(r, s) PROVE FlowInv'
    BY <1>13, <1>rec DEF LoginIssue
  <1>14. ASSUME NEW r \in Requests, NEW s \in SessionIds, RotateIssue(r, s) PROVE FlowInv'
    BY <1>14, <1>rec DEF RotateIssue
  <1>15. ASSUME NEW r \in Requests, NEW s \in SessionIds, ReuseMark(r, s) PROVE FlowInv'
    BY <1>15, <1>rec DEF ReuseMark
  <1>16. ASSUME NEW r \in Requests, CheckRevokedAll(r) PROVE FlowInv'
    BY SMTT(20), <1>16, <1>rec, <1>idle DEF CheckRevokedAll, Finish
  <1>17. ASSUME NEW r \in Requests, CheckRevokedSession(r) PROVE FlowInv'
    BY <1>17, <1>rec, <1>idle DEF CheckRevokedSession, Finish
  <1>18. ASSUME NEW r \in Requests, RefreshReplayed(r) PROVE FlowInv'
    BY <1>18, <1>rec DEF RefreshReplayed
  <1>19. ASSUME NEW r \in Requests, RefreshAccept(r) PROVE FlowInv'
    BY <1>19, <1>rec DEF RefreshAccept
  <1>20. ASSUME NEW r \in Requests, ReuseSelect(r) PROVE FlowInv'
    BY <1>20, <1>rec DEF ReuseSelect
  <1>21. ASSUME NEW r \in Requests, LogoutMark(r) PROVE FlowInv'
    BY <1>21, <1>rec DEF LogoutMark
  <1>22. ASSUME NEW r \in Requests, LoadUser(r) PROVE FlowInv'
    BY <1>22, <1>rec DEF LoadUser
  <1>23. ASSUME NEW r \in Requests, LogoutAllBegin(r) PROVE FlowInv'
    BY <1>23, <1>rec DEF LogoutAllBegin
  <1>24. ASSUME NEW r \in Requests, NEW s \in SessionIds, LockRow(r, s) PROVE FlowInv'
    <2>1. PICK x : /\ req' = [req EXCEPT ![r] = x]
                   /\ x.op = req[r].op /\ x.pc = req[r].pc /\ x.new = req[r].new
                   /\ \/ x.rows = req[r].rows /\ x.done = req[r].done \cup {s}
                      \/ x.rows = req[r].rows \ {s} /\ x.done = req[r].done
      BY <1>24, LockingMoves
    <2>2. s \in req[r].rows \ req[r].done /\ req[r].pc \in Locking
      BY <1>24 DEF LockRow
    <2>3. FlowOK(x)
      BY <1>rec, <2>1, <2>2
    <2>4. QED
      BY <1>moves, <2>1, <2>3
  <1>25. ASSUME NEW r \in Requests, LogoutAllMark(r) PROVE FlowInv'
    BY <1>25, <1>rec DEF LogoutAllMark
  <1>26. ASSUME NEW r \in Requests, NEW v \in Passwords, ChangePasswordBegin(r, v)
         PROVE  FlowInv'
    BY <1>26, <1>rec DEF ChangePasswordBegin
  <1>27. ASSUME NEW r \in Requests, ReuseUpdate(r) PROVE FlowInv'
    BY <1>27, <1>rec DEF ReuseUpdate
  <1>28. CASE EvictMarker \/ Tick \/ UNCHANGED vars
    BY <1>28 DEF EvictMarker, Tick, vars
  <1> HIDE DEF FlowInv
  <1>29. QED
    BY <1>1, <1>2, <1>3, <1>4, <1>5, <1>6, <1>7, <1>8, <1>9, <1>10, <1>11, <1>12, <1>13,
       <1>14, <1>15, <1>16, <1>17, <1>18, <1>19, <1>20, <1>21, <1>22, <1>23, <1>24, <1>25,
       <1>26, <1>27,
       <1>28 DEF Next, Continue

\* Sessions that may still be created have their ids.
Unused == SessionIds \ Issued

IdsInv == Cardinality(Minting) <= Cardinality(Unused)

LEMMA IdsFinite ==
  ASSUME IsFiniteSet(SessionIds), IsFiniteSet(Requests)
  PROVE  /\ IsFiniteSet(Unused) /\ IsFiniteSet(Minting)
         /\ Cardinality(Unused) \in Nat /\ Cardinality(Minting) \in Nat
  <1>1. Unused \subseteq SessionIds /\ Minting \subseteq Requests
    BY DEF Unused, Minting
  <1>2. IsFiniteSet(Unused) /\ IsFiniteSet(Minting)
    BY <1>1, FS_Subset
  <1>3. QED
    BY <1>2, FS_CardinalityType

LEMMA IdsStep ==
  ASSUME IsFiniteSet(SessionIds), IsFiniteSet(Requests), TypeInv, IdsInv, [Next]_vars
  PROVE  IdsInv'
  <1> USE IdsFinite
  <1>rec. /\ req \in [Requests -> Request]
          /\ row \in [SessionIds -> RowState]
          /\ \A r \in Requests : RecordOK(req[r]) /\ req[r].new \in SessionIds \cup {None}
    BY DEF TypeInv, TypeOK, Request
  <1>less. ASSUME Minting' \subseteq Minting, Unused' = Unused PROVE IdsInv'
    <2>1. Cardinality(Minting') <= Cardinality(Minting) /\ Cardinality(Minting') \in Nat
      BY <1>less, FS_Subset, FS_CardinalityType
    <2>2. QED
      BY <1>less, <2>1 DEF IdsInv
  <1>more. ASSUME NEW r \in Requests, IdLeft, Minting' = Minting \cup {r}, Unused' = Unused
           PROVE  IdsInv'
    <2>1. /\ IsFiniteSet(Minting \cup {r})
          /\ Cardinality(Minting \cup {r}) <= Cardinality(Minting) + 1
      <3>1. IsFiniteSet(Minting) /\ Cardinality(Minting) \in Nat
        OBVIOUS
      <3>2. /\ IsFiniteSet(Minting \cup {r})
            /\ Cardinality(Minting \cup {r}) =
                  IF r \in Minting THEN Cardinality(Minting) ELSE Cardinality(Minting) + 1
        BY <3>1, FS_AddElement
      <3>3. QED
        BY <3>1, <3>2
    <2>2. Cardinality(Minting \cup {r}) \in Nat
      BY <2>1, FS_CardinalityType
    <2>3. QED
      BY <1>more, <2>1, <2>2 DEF IdsInv, IdLeft, Unused
  <1>1. ASSUME NEW r \in Requests,
               RotateCommit(r) \/ \E rehash \in BOOLEAN : LoginCommit(r, rehash)
        PROVE  IdsInv'
    <2> DEFINE s == req[r].new
    <2>1. s \in Unused /\ r \in Minting
      BY <1>1, <1>rec, NoneAssumption
      DEF LoginCommit, RotateCommit, At, RecordOK, Unused, Issued, Minting
    <2>2. Unused' = Unused \ {s}
      <3>1. CASE \E rehash \in BOOLEAN : LoginCommit(r, rehash)
        BY <1>rec, <2>1, <3>1 DEF LoginCommit, Unused, Issued
      <3>2. CASE RotateCommit(r)
        BY <1>rec, <2>1, <3>2 DEF RotateCommit, At, RecordOK, Unused, Issued
      <3>3. QED
        BY <1>1, <3>1, <3>2
    <2>3. Minting' = Minting \ {r}
      BY <1>1, <1>rec DEF LoginCommit, RotateCommit, Finish, Minting, Idle
    <2>4. /\ Cardinality(Minting') = Cardinality(Minting) - 1
          /\ Cardinality(Unused') = Cardinality(Unused) - 1
      BY <2>1, <2>2, <2>3, FS_RemoveElement
    <2>5. QED
      BY <2>4 DEF IdsInv
  <1>2. ASSUME NEW r \in Requests, Begin(r) PROVE IdsInv'
    <2>1. Unused' = Unused
      BY <1>2 DEF Begin, LoginSelect, RefreshDecode, LogoutSelect, RejectExpired,
                  Authenticate, vars, db, Unused, Issued
    <2>2. \/ IdLeft /\ Minting' = Minting \cup {r}
          \/ Minting' \subseteq Minting
      <3>1. ASSUME NEW x, req' = [req EXCEPT ![r] = x],
                   IdLeft \/ x.op \notin {"login", "refresh"}
            PROVE  (IdLeft /\ Minting' = Minting \cup {r}) \/ Minting' \subseteq Minting
        BY <1>rec, <3>1 DEF Minting
      <3>2. ASSUME NEW u \in Users, LoginSelect(r, u)
            PROVE  (IdLeft /\ Minting' = Minting \cup {r}) \/ Minting' \subseteq Minting
        BY <3>1, <3>2 DEF LoginSelect
      <3>3. ASSUME NEW s \in SessionIds, RefreshDecode(r, s)
            PROVE  (IdLeft /\ Minting' = Minting \cup {r}) \/ Minting' \subseteq Minting
        BY <3>1, <3>3 DEF RefreshDecode
      <3>4. ASSUME NEW s \in SessionIds, LogoutSelect(r, s)
            PROVE  (IdLeft /\ Minting' = Minting \cup {r}) \/ Minting' \subseteq Minting
        BY <3>1, <3>4 DEF LogoutSelect, Idle
      <3>5. ASSUME NEW s \in SessionIds, NEW op \in {"me", "logout_all", "change_password"} \cap Guarded,
                   Authenticate(r, s, op)
            PROVE  (IdLeft /\ Minting' = Minting \cup {r}) \/ Minting' \subseteq Minting
        BY <3>1, <3>5 DEF Authenticate, Idle
      <3>6. ASSUME NEW s \in SessionIds, RejectExpired(r, s)
            PROVE  (IdLeft /\ Minting' = Minting \cup {r}) \/ Minting' \subseteq Minting
        BY <3>6 DEF RejectExpired, vars, Minting
      <3>7. QED
        BY <1>2, <3>2, <3>3, <3>4, <3>5, <3>6 DEF Begin
    <2>3. QED
      BY <1>less, <1>more, <2>1, <2>2
  <1>3. ASSUME NEW r \in Requests, Continue(r), ~ RotateCommit(r),
               \A rehash \in BOOLEAN : ~ LoginCommit(r, rehash)
        PROVE  IdsInv'
    <2>1. Minting' \subseteq Minting
      <3>1. ASSUME Finish(r) PROVE Minting' \subseteq Minting
        BY <1>rec, <3>1 DEF Finish, Idle, Minting
      <3>2. ASSUME NEW x, req' = [req EXCEPT ![r] = x], x.op = req[r].op
            PROVE  Minting' \subseteq Minting
        BY <1>rec, <3>2 DEF Minting
      <3>3. \/ Finish(r)
            \/ \E x : x.op = req[r].op /\ req' = [req EXCEPT ![r] = x]
        <4> USE <1>rec DEF Request
        <4>1. ASSUME NEW s \in SessionIds,
                     LoginIssue(r, s) \/ RotateIssue(r, s) \/ ReuseMark(r, s)
              PROVE  \E x : x.op = req[r].op /\ req' = [req EXCEPT ![r] = x]
          <5>1. CASE LoginIssue(r, s) \/ RotateIssue(r, s)
            BY <5>1, EnteringMoves DEF Enters, TypeInv
          <5>2. CASE ReuseMark(r, s)
            BY <5>2 DEF ReuseMark, TypeInv, TypeOK
          <5>3. QED
            BY <4>1, <5>1, <5>2
        <4>2. CASE RefreshReplayed(r) \/ RefreshAccept(r) \/ LogoutMark(r)
          BY <4>2 DEF RefreshReplayed, RefreshAccept, LogoutMark, TypeInv, TypeOK
        <4>3. CASE CheckRevokedAll(r) \/ CheckRevokedSession(r) \/ LoadUser(r)
          BY <4>3 DEF CheckRevokedAll, CheckRevokedSession, LoadUser, TypeInv, TypeOK
        <4>4. CASE ReuseSelect(r) \/ LogoutAllBegin(r) \/ ReuseUpdate(r) \/ LogoutAllMark(r)
          <5>1. CASE ReuseSelect(r) \/ LogoutAllBegin(r) \/ ReuseUpdate(r)
            BY <5>1, EnteringMoves DEF Enters, TypeInv
          <5>2. CASE LogoutAllMark(r)
            BY <5>2 DEF LogoutAllMark, TypeInv, TypeOK
          <5>3. QED
            BY <4>4, <5>1, <5>2
        <4>5. CASE \/ \E v \in Passwords : ChangePasswordBegin(r, v)
                   \/ \E s \in SessionIds : LockRow(r, s)
          <5>1. ASSUME NEW v \in Passwords, ChangePasswordBegin(r, v)
                PROVE  \E x : x.op = req[r].op /\ req' = [req EXCEPT ![r] = x]
            BY <5>1 DEF ChangePasswordBegin, TypeInv, TypeOK
          <5>2. ASSUME NEW s \in SessionIds, LockRow(r, s)
                PROVE  \E x : x.op = req[r].op /\ req' = [req EXCEPT ![r] = x]
            BY <5>2, LockingMoves, Zenon
          <5>3. QED
            BY <4>5, <5>1, <5>2
        <4>6. CASE \/ RefreshReject(r) \/ ReuseCommit(r) \/ LogoutCommit(r) \/ ReadProfile(r)
                   \/ LogoutAllCommit(r) \/ ChangePasswordReject(r) \/ CommitRefused(r) \/ DeadlockAbort(r)
                   \/ ChangePasswordCommit(r)
          BY <4>6 DEF RefreshReject, ReuseCommit, LogoutCommit, ReadProfile,
             LogoutAllCommit,
                      ChangePasswordReject, CommitRefused, DeadlockAbort, ChangePasswordCommit
        <4>7. QED
          BY <1>3, <4>1, <4>2, <4>3, <4>4, <4>5, <4>6 DEF Continue
      <3>4. QED
        BY <3>1, <3>2, <3>3
    <2>2. Issued' = Issued
      <3>1. CASE ReuseCommit(r) \/ LogoutCommit(r) \/ LogoutAllCommit(r)
        BY <3>1, <1>rec DEF ReuseCommit, LogoutCommit, LogoutAllCommit, Revoke, Issued,
           RecordOK
      <3>2. ASSUME ChangePasswordCommit(r) PROVE Issued' = Issued
        BY <3>2, <1>rec DEF ChangePasswordCommit, Issued, RecordOK
      <3>3. CASE UNCHANGED row
        BY <3>3 DEF Issued
      <3>4. QED
        BY <1>3, <3>1, <3>2, <3>3
        DEF Continue, LoginIssue, RotateIssue, ReuseMark, RefreshReject, RefreshReplayed,
            RefreshAccept, ReuseSelect, LogoutMark, CheckRevokedAll, CheckRevokedSession,
            LoadUser, ReadProfile, LogoutAllBegin, LockRow, LogoutAllMark,
            ChangePasswordBegin, ChangePasswordReject, ReuseUpdate, CommitRefused, DeadlockAbort, db
    <2>3. QED
      BY <1>less, <2>1, <2>2 DEF Unused
  <1>4. ASSUME NEW r \in Requests, Fail(r) PROVE IdsInv'
    <2>1. Minting' \subseteq Minting /\ Unused' = Unused
      BY <1>4, <1>rec DEF Fail, Finish, Idle, Minting, Unused, Issued, db
    <2>2. QED
      BY <1>less, <2>1
  <1>5. CASE EvictMarker \/ Tick \/ UNCHANGED vars
    <2>1. Minting' \subseteq Minting /\ Unused' = Unused
      BY <1>5 DEF EvictMarker, Tick, vars, Minting, Unused, Issued, db
    <2>2. QED
      BY <1>less, <2>1
  <1>6. QED
    BY <1>1, <1>2, <1>3, <1>4, <1>5 DEF Next

\* An id is left for a request that may create a session and has not drawn one.
LEMMA FreshLeft ==
  ASSUME IsFiniteSet(SessionIds), IsFiniteSet(Requests), TypeInv, FlowInv, IdsInv,
         NEW r \in Minting, req[r].new = None
  PROVE  Fresh # {}
  <1> DEFINE Holders == {q \in Requests : req[q].new # None}
             held == [q \in Holders |-> req[q].new]
             Held == {held[q] : q \in Holders}
  <1>1. Holders \subseteq Minting \ {r}
    BY DEF Minting, FlowInv, FlowOK, TypeInv, TypeOK, RecordOK, Request, Operations
  <1>2. /\ IsFiniteSet(Minting \ {r})
        /\ Cardinality(Minting \ {r}) = Cardinality(Minting) - 1
    BY IdsFinite, FS_RemoveElement
  <1>3. IsFiniteSet(Holders) /\ Cardinality(Holders) <= Cardinality(Minting) - 1
    BY <1>1, <1>2, FS_Subset
  <1>4. held \in Surjection(Holders, Held)
    BY DEF Surjection
  <1>5. IsFiniteSet(Held) /\ Cardinality(Held) <= Cardinality(Holders)
    BY <1>3, <1>4, FS_Surjection
  <1>6. Cardinality(Held) \in Nat /\ Cardinality(Holders) \in Nat
    BY <1>3, <1>5, FS_CardinalityType
  <1>7. Cardinality(Held) < Cardinality(Unused)
    BY <1>3, <1>5, <1>6, IdsFinite DEF IdsInv
  <1>8. ~ (Unused \subseteq Held)
    BY <1>5, <1>6, <1>7, IdsFinite, FS_Subset
  <1>9. PICK s \in Unused : s \notin Held
    BY <1>8
  <1>10. s \in Fresh
    BY <1>9, NoneAssumption DEF Fresh, Unused
  <1>11. QED
    BY <1>10

\* Request r waits for request q: for a row of the tables that q has locked.
WaitsFor(r, q) ==
    LET x == req[r] IN
    \/ /\ r # q
       /\ \/ x.pc = "rotate_commit" /\ x.sid \in Locks(q)
          \/ x.pc = "logout_commit" /\ x.rows \cap Locks(q) # {}
          \/ x.pc \in Locking /\ (x.rows \ x.done) \cap Locks(q) # {}
    \/ /\ x.pc \in {"login", "pwd_delete"}
       /\ req[q].pc = "login_commit" /\ req[q].user = x.user

\* Requests that all wait for each other: some of them have locked rows, and those
\* wait for rows of each other, which is what PostgreSQL detects.
LEMMA CirclesBreak ==
  ASSUME NEW D \in SUBSET Requests, D # {}, \A r \in D : \E q \in D : WaitsFor(r, q)
  PROVE  \E r \in D : CanContinue(r)
  <1> SUFFICES ASSUME \A r \in D : ~ CanContinue(r) PROVE FALSE
    OBVIOUS
  <1> DEFINE L == {r \in D : req[r].pc \in Locking}
  <1>1. ASSUME NEW r \in D, NEW q \in D, WaitsFor(r, q)
        PROVE  r # q /\ q \in L /\ (r \in L => (req[r].rows \ req[r].done) \cap Locks(q) # {})
    <2>1. req[q].pc \notin {"login_commit", "all_commit"}
      BY DEF CanContinue
    <2>2. Locks(q) # {} /\ r # q
      BY <1>1, <2>1 DEF WaitsFor
    <2>3. q \in L
      BY <2>1, <2>2 DEF Locks
    <2>4. ASSUME r \in L PROVE (req[r].rows \ req[r].done) \cap Locks(q) # {}
      BY <1>1, <2>1, <2>4 DEF WaitsFor, Locking
    <2>5. QED
      BY <2>2, <2>3, <2>4
  <1>2. PICK r \in L : TRUE
    BY <1>1
  <1>3. ASSUME NEW q \in L
        PROVE  /\ req[q].pc \in Locking
               /\ \E p \in L \ {q} : (req[q].rows \ req[q].done) \cap Locks(p) # {}
    BY <1>1
  <1>4. Deadlocked(r) /\ req[r].pc \in Locking
    <2>1. L \in SUBSET Requests
      OBVIOUS
    <2> HIDE DEF L
    <2>2. QED
      BY <1>2, <1>3, <2>1 DEF Deadlocked
  <1>5. CanContinue(r)
    BY <1>4 DEF CanContinue
  <1>6. QED
    BY <1>5

\* Every request that was begun can go on or waits for rows that another one has
\* locked, and none waits for an id.  In a set of requests that all wait for each other
\* one can go on: they wait in a circle only where statements lock several rows one by
\* one, and then PostgreSQL aborts one of them.
THEOREM NoCircularWait ==
  ASSUME IsFiniteSet(SessionIds), IsFiniteSet(Requests)
  PROVE  Spec => [](/\ \A r \in Requests : req[r].pc # "idle" =>
                          CanContinue(r) \/ \E q \in Requests : WaitsFor(r, q)
                    /\ \A D \in SUBSET Requests :
                          D # {} /\ (\A r \in D : \E q \in D : WaitsFor(r, q)) =>
                              \E r \in D : CanContinue(r))
  <1> DEFINE Going(r) == CanContinue(r) \/ \E q \in Requests : WaitsFor(r, q)
  <1>1. Init => FlowInv /\ IdsInv
    <2> SUFFICES ASSUME Init PROVE FlowInv /\ IdsInv
      OBVIOUS
    <2>1. Minting = {}
      BY DEF Init, Minting, Idle
    <2>2. IdsInv
      BY <2>1, IdsFinite, FS_EmptySet DEF IdsInv
    <2>3. FlowInv
      BY DEF Init, FlowInv, FlowOK, Idle
    <2>4. QED
      BY <2>2, <2>3
  <1>2. TypeInv /\ IdsInv /\ [Next]_vars => IdsInv'
    BY IdsStep
  <1>3. ASSUME TypeInv, FlowInv, IdsInv, NEW r \in Requests, req[r].pc # "idle"
        PROVE  Going(r)
    <2> DEFINE x == req[r]
    <2>rec. x \in Request /\ RecordOK(x) /\ FlowOK(x)
      BY <1>3 DEF TypeInv, TypeOK, FlowInv
    <2>wait. ASSUME NEW rows, ~ Unlocked(r, rows)
             PROVE  \E q \in Requests : q # r /\ Locks(q) \cap rows # {}
      BY <2>wait DEF Unlocked
    <2>1. CASE x.pc \in {"login", "rotate"}
      <3>1. x.op \in {"login", "refresh"} /\ x.new = None
        BY <2>1, <2>rec DEF FlowOK, RecordOK, Request, Operations
      <3>2. Fresh # {}
        BY <1>3, <3>1, FreshLeft DEF Minting
      <3>3. QED
        BY <2>1, <3>2 DEF CanContinue, UserUnlocked, WaitsFor
    <2>2. CASE x.pc = "refresh"
      <3>1. x.sid \in Issued
        BY <2>2, <2>rec DEF FlowOK, RecordOK, Request, Operations
      <3>2. row[x.sid] \in {"live", "revoked", "deleted"} /\ token[x.sid] \in Token
        BY <1>3, <3>1 DEF TypeInv, TypeOK, Issued, RowState
      <3>3. now <= RefreshExp(x.sid) \/ RefreshExp(x.sid) < now
        BY <1>3, <3>2, TTLAssumption, BoundAssumption DEF RefreshExp, Token, Time,
           TypeInv, TypeOK
      <3>4. QED
        BY <2>2, <3>2, <3>3 DEF CanContinue
    <2>3. CASE x.pc = "rotate_commit"
      <3>1. CASE Unlocked(r, {x.sid})
        BY <2>3, <3>1 DEF CanContinue
      <3>2. CASE ~ Unlocked(r, {x.sid})
        BY <2>3, <3>2, <2>wait DEF WaitsFor
      <3>3. QED
        BY <3>1, <3>2
    <2>4. CASE x.pc = "reuse_mark"
      BY <2>4, <2>rec DEF CanContinue, FlowOK
    <2>5. CASE x.pc = "logout_commit"
      <3>1. CASE Unlocked(r, x.rows)
        BY <2>5, <3>1 DEF CanContinue
      <3>2. CASE ~ Unlocked(r, x.rows)
        BY <2>5, <3>2, <2>wait DEF WaitsFor
      <3>3. QED
        BY <3>1, <3>2
    <2>6. CASE x.pc \in Locking
      <3>1. ASSUME NEW s \in x.rows \ x.done PROVE Going(r)
        <4>1. CASE Unlocked(r, {s})
          BY <2>6, <4>1 DEF CanContinue
        <4>2. CASE ~ Unlocked(r, {s})
          <5>1. PICK q \in Requests : q # r /\ s \in Locks(q)
            BY <4>2, <2>wait
          <5>2. WaitsFor(r, q)
            BY <2>6, <5>1 DEF WaitsFor
          <5>3. QED
            BY <5>2
        <4>3. QED
          BY <4>1, <4>2
      <3>2. CASE x.done = x.rows
        <4>1. CASE x.pc = "pwd_delete" => UserUnlocked(x.user)
          BY <2>6, <3>2, <4>1 DEF CanContinue
        <4>2. CASE x.pc = "pwd_delete" /\ ~ UserUnlocked(x.user)
          BY <4>2 DEF UserUnlocked, WaitsFor
        <4>3. QED
          BY <4>1, <4>2
      <3>3. x.done \subseteq x.rows
        BY <2>rec DEF FlowOK
      <3>4. QED
        BY <3>1, <3>2, <3>3
    <2>7. CASE x.pc \in {"login_commit", "reuse", "logout_mark", "auth_all", "auth_session",
                         "auth_user", "authorized", "all_commit"}
      BY <2>7 DEF CanContinue
    <2>8. x.pc \in Steps /\ x.pc # "idle"
      BY <1>3, <2>rec DEF Request
    <2> HIDE DEF x, Going
    <2>9. QED
      BY <2>1, <2>2, <2>3, <2>4, <2>5, <2>6, <2>7, <2>8 DEF Steps, Locking
  <1>4. TypeInv /\ FlowInv /\ IdsInv =>
           \A r \in Requests : req[r].pc # "idle" => Going(r)
    BY <1>3
  <1>5. \A D \in SUBSET Requests :
           D # {} /\ (\A r \in D : \E q \in D : WaitsFor(r, q)) => \E r \in D : CanContinue(r)
    BY CirclesBreak
  <1>6. QED
    BY <1>1, <1>2, <1>4, <1>5, InitTypeInv, TypeInvStep, FlowStep, PTL DEF Spec

-----------------------------------------------------------------------------
\* How many steps of its own a request has before it at most, not counting those that
\* take the rows it has selected one by one.
StepsLeft(pc) ==
    IF pc = "auth_all" THEN 6
    ELSE IF pc = "auth_session" THEN 5
    ELSE IF pc \in {"auth_user", "refresh"} THEN 4
    ELSE IF pc \in {"reuse", "authorized"} THEN 3
    ELSE IF pc \in {"login", "rotate", "reuse_mark", "logout_mark", "all_update"} THEN 2
    ELSE IF pc = "idle" THEN 0 ELSE 1

\* The rows that it has yet to mark or to lock.
RowsLeft(x) == x.rows \ x.done

Forward(r) ==
    \/ StepsLeft(req'[r].pc) < StepsLeft(req[r].pc)
    \/ /\ req'[r].pc = req[r].pc
       /\ RowsLeft(req'[r]) \subseteq RowsLeft(req[r])
       /\ RowsLeft(req'[r]) # RowsLeft(req[r])

\* A request that has begun only goes forward: each of its steps leaves it fewer, or
\* marks, locks or passes over one more of the rows that it has selected, and no step
\* of another request sets it back.  With NoCircularWait this is why every request can
\* be answered.
THEOREM RequestsGoForward ==
  Spec => [][\A r \in Requests : /\ Continue(r) => Forward(r)
                                 /\ req[r].pc # "idle" /\ req'[r] # req[r] => Forward(r)]_vars
  <1> DEFINE Others(r) == \A q \in Requests : q # r => req'[q] = req[q]
  <1>1. ASSUME TypeInv, FlowInv, NEW r \in Requests, Continue(r) \/ Fail(r)
        PROVE  Forward(r) /\ Others(r)
    <2>rec. req \in [Requests -> Request] /\ req[r] \in Request /\ FlowOK(req[r])
      BY <1>1 DEF TypeInv, TypeOK, FlowInv
    <2>moves. ASSUME NEW x, req' = [req EXCEPT ![r] = x],
                     StepsLeft(x.pc) < StepsLeft(req[r].pc)
              PROVE  Forward(r) /\ Others(r)
      BY <2>rec, <2>moves DEF Forward
    <2>ends. ASSUME Finish(r), req[r].pc # "idle" PROVE Forward(r) /\ Others(r)
      <3>1. Idle.pc = "idle"
        BY DEF Idle
      <3>2. StepsLeft(Idle.pc) < StepsLeft(req[r].pc)
        BY <2>ends, <3>1 DEF StepsLeft
      <3>3. QED
        BY <2>ends, <2>moves, <3>2 DEF Finish
    <2>1. ASSUME NEW s \in SessionIds, ReuseMark(r, s) PROVE Forward(r) /\ Others(r)
      <3>1. PICK x : /\ x = [req[r] EXCEPT !.done = @ \cup {s}] /\ s \in RowsLeft(req[r])
                     /\ req' = [req EXCEPT ![r] = x]
        BY <2>1, <2>rec DEF ReuseMark, Request, RowsLeft
      <3>2. x.pc = req[r].pc /\ RowsLeft(x) = RowsLeft(req[r]) \ {s}
        BY <2>rec, <3>1 DEF Request, RowsLeft
      <3>3. QED
        BY <2>rec, <3>1, <3>2 DEF Forward
    <2>lock. ASSUME NEW s \in SessionIds, LockRow(r, s) PROVE Forward(r) /\ Others(r)
      <3>1. PICK x : /\ req' = [req EXCEPT ![r] = x] /\ x.pc = req[r].pc
                     /\ \/ x.rows = req[r].rows /\ x.done = req[r].done \cup {s}
                        \/ x.rows = req[r].rows \ {s} /\ x.done = req[r].done
        BY <1>1, <2>lock, LockingMoves
      <3>2. s \in RowsLeft(req[r])
        BY <2>lock DEF LockRow, RowsLeft
      <3>3. RowsLeft(x) = RowsLeft(req[r]) \ {s}
        BY <3>1 DEF RowsLeft
      <3>4. QED
        BY <2>rec, <3>1, <3>2, <3>3 DEF Forward
    <2>2. ASSUME NEW s \in SessionIds, LoginIssue(r, s) PROVE Forward(r) /\ Others(r)
      <3>1. PICK x : /\ x = [req[r] EXCEPT !.pc = "login_commit", !.new = s, !.iat = now]
                     /\ req' = [req EXCEPT ![r] = x]
        BY <2>2, <2>rec DEF LoginIssue, Request
      <3>2. x.pc = "login_commit" /\ req[r].pc = "login"
        BY <2>2, <2>rec, <3>1 DEF LoginIssue, At, Request
      <3>3. StepsLeft(x.pc) < StepsLeft(req[r].pc)
        BY <3>2 DEF StepsLeft
      <3>4. QED
        BY <3>1, <3>3, <2>moves
    <2>3. ASSUME NEW s \in SessionIds, RotateIssue(r, s) PROVE Forward(r) /\ Others(r)
      <3>1. PICK x : /\ x = [req[r] EXCEPT !.pc = "rotate_commit", !.new = s, !.iat = now]
                     /\ req' = [req EXCEPT ![r] = x]
        BY <2>3, <2>rec DEF RotateIssue, Request
      <3>2. x.pc = "rotate_commit" /\ req[r].pc = "rotate"
        BY <2>3, <2>rec, <3>1 DEF RotateIssue, At, Request
      <3>3. StepsLeft(x.pc) < StepsLeft(req[r].pc)
        BY <3>2 DEF StepsLeft
      <3>4. QED
        BY <3>1, <3>3, <2>moves
    <2>4. CASE RefreshReplayed(r) \/ RefreshAccept(r)
      BY <2>4, <2>rec, <2>moves DEF RefreshReplayed, RefreshAccept, At, Request, StepsLeft
    <2>5. CASE ReuseSelect(r) \/ LogoutMark(r)
      <3>1. CASE ReuseSelect(r)
        <4>1. Enters(r, "reuse_mark") /\ req[r].pc = "reuse"
          BY <3>1, <2>rec, <1>1, EnteringMoves DEF ReuseSelect, At, TypeInv
        <4>2. req' = [req EXCEPT ![r] = req'[r]] /\ req'[r].pc = "reuse_mark"
          BY <4>1 DEF Enters
        <4>3. StepsLeft(req'[r].pc) < StepsLeft(req[r].pc)
          BY <4>1, <4>2 DEF StepsLeft
        <4>4. QED
          BY <4>2, <4>3, <2>moves
      <3>2. CASE LogoutMark(r)
        <4>1. PICK x : /\ x = [req[r] EXCEPT !.pc = "logout_commit"] /\ req[r].pc = "logout_mark"
                       /\ req' = [req EXCEPT ![r] = x]
          BY <3>2, <2>rec DEF LogoutMark, At, Request
        <4>2. x.pc = "logout_commit"
          BY <2>rec, <4>1 DEF Request
        <4>3. StepsLeft(x.pc) < StepsLeft(req[r].pc)
          BY <4>1, <4>2 DEF StepsLeft
        <4>4. QED
          BY <4>1, <4>3, <2>moves
      <3>3. QED
        BY <2>5, <3>1, <3>2
    <2>6. CASE CheckRevokedAll(r)
      BY <2>6, <2>rec, <2>moves, <2>ends DEF CheckRevokedAll, Request, StepsLeft
    <2>7. CASE CheckRevokedSession(r)
      BY <2>7, <2>rec, <2>moves, <2>ends DEF CheckRevokedSession, Request, StepsLeft
    <2>8. CASE LoadUser(r)
      <3>1. PICK x : /\ x = [req[r] EXCEPT !.pc = "authorized"]
                     /\ req' = [req EXCEPT ![r] = x]
        BY <2>8, <2>rec DEF LoadUser, Request
      <3>2. x.pc = "authorized" /\ req[r].pc = "auth_user"
        BY <2>8, <2>rec, <3>1 DEF LoadUser, At, Request
      <3>3. StepsLeft(x.pc) < StepsLeft(req[r].pc)
        BY <3>2 DEF StepsLeft
      <3>4. QED
        BY <3>1, <3>3, <2>moves
    <2>9. CASE LogoutAllBegin(r) \/ LogoutAllMark(r) \/ ReuseUpdate(r)
      <3>1. CASE LogoutAllBegin(r)
        <4>1. Enters(r, "all_update") /\ req[r].pc = "authorized"
          BY <3>1, <2>rec, <1>1, EnteringMoves DEF LogoutAllBegin, At, TypeInv
        <4>2. req' = [req EXCEPT ![r] = req'[r]] /\ req'[r].pc = "all_update"
          BY <4>1 DEF Enters
        <4>3. StepsLeft(req'[r].pc) < StepsLeft(req[r].pc)
          BY <4>1, <4>2 DEF StepsLeft
        <4>4. QED
          BY <4>2, <4>3, <2>moves
      <3>2. CASE ReuseUpdate(r)
        <4>1. Enters(r, "reuse_update") /\ req[r].pc = "reuse_mark"
          BY <3>2, <2>rec, <1>1, EnteringMoves DEF ReuseUpdate, At, TypeInv
        <4>2. req' = [req EXCEPT ![r] = req'[r]] /\ req'[r].pc = "reuse_update"
          BY <4>1 DEF Enters
        <4>3. StepsLeft(req'[r].pc) < StepsLeft(req[r].pc)
          BY <4>1, <4>2 DEF StepsLeft
        <4>4. QED
          BY <4>2, <4>3, <2>moves
      <3>3. CASE LogoutAllMark(r)
        <4>1. PICK x : /\ x = [req[r] EXCEPT !.pc = "all_commit"] /\ req[r].pc = "all_update"
                       /\ req' = [req EXCEPT ![r] = x]
          BY <3>3, <2>rec DEF LogoutAllMark, At, Request
        <4>2. x.pc = "all_commit"
          BY <2>rec, <4>1 DEF Request
        <4>3. StepsLeft(x.pc) < StepsLeft(req[r].pc)
          BY <4>1, <4>2 DEF StepsLeft
        <4>4. QED
          BY <4>1, <4>3, <2>moves
      <3>4. QED
        BY <2>9, <3>1, <3>2, <3>3
    <2>10. ASSUME NEW v \in Passwords, ChangePasswordBegin(r, v)
           PROVE  Forward(r) /\ Others(r)
      <3> DEFINE x == [req[r] EXCEPT !.pc = "pwd_delete", !.pwd = v,
                                     !.rows = RowsOf(req[r].user)]
      <3>1. req' = [req EXCEPT ![r] = x] /\ req[r].pc = "authorized"
        BY <2>10, <2>rec DEF ChangePasswordBegin, At
      <3>2. x.pc = "pwd_delete"
        BY <2>rec DEF Request
      <3> HIDE DEF x
      <3>3. StepsLeft(x.pc) < StepsLeft(req[r].pc)
        BY <3>1, <3>2 DEF StepsLeft
      <3>4. QED
        BY <2>moves, <3>1, <3>3
    <2>11. CASE \/ (\E rehash \in BOOLEAN : LoginCommit(r, rehash)) \/ RotateCommit(r) \/ RefreshReject(r) \/ ReuseCommit(r)
                \/ LogoutCommit(r) \/ ReadProfile(r) \/ LogoutAllCommit(r)
                \/ ChangePasswordReject(r) \/ CommitRefused(r) \/ DeadlockAbort(r) \/ Fail(r)
                \/ ChangePasswordCommit(r)
      <3>1. Finish(r) /\ req[r].pc # "idle"
        BY <2>11 DEF LoginCommit, RotateCommit, RefreshReject, ReuseCommit, LogoutCommit,
                     ReadProfile, LogoutAllCommit, ChangePasswordReject, CommitRefused, DeadlockAbort, Fail,
                     ChangePasswordCommit, Deadlocked, Locking, At
      <3>2. QED
        BY <2>ends, <3>1
    <2>12. QED
      BY <1>1, <2>1, <2>lock, <2>2, <2>3, <2>4, <2>5, <2>6, <2>7, <2>8, <2>9, <2>10, <2>11
         DEF Continue
  <1>2. ASSUME TypeInv, NEW r \in Requests, Begin(r)
        PROVE  Others(r) /\ (req[r].pc # "idle" => req'[r] = req[r])
    BY <1>2 DEF Begin, LoginSelect, RefreshDecode, LogoutSelect, RejectExpired,
       Authenticate,
                vars, TypeInv, TypeOK
  <1>3. TypeInv /\ FlowInv /\ [Next]_vars =>
           [\A r \in Requests : /\ Continue(r) => Forward(r)
                                /\ req[r].pc # "idle" /\ req'[r] # req[r] => Forward(r)]_vars
    BY <1>1, <1>2 DEF Next, EvictMarker, Tick
  <1>4. Init => FlowInv
    BY DEF Init, FlowInv, FlowOK, Idle
  <1>5. QED
    BY <1>3, <1>4, InitTypeInv, TypeInvStep, FlowStep, PTL DEF Spec

-----------------------------------------------------------------------------
(***************************************************************************)
(* Who moves, and what a step can do to the rows.                          *)
(***************************************************************************)

\* Each step of a request moves that request only.
LEMMA OneMoves ==
  ASSUME TypeInv, NEW q \in Requests, Begin(q) \/ Continue(q) \/ Fail(q),
         NEW r \in Requests, r # q
  PROVE  req'[r] = req[r]
  <1> USE DEF TypeInv, TypeOK
  <1>1. CASE Begin(q) \/ Fail(q)
    BY <1>1 DEF Begin, Fail, Finish, LoginSelect, RefreshDecode, LogoutSelect,
                RejectExpired, Authenticate, vars
  <1>2. CASE \E s \in SessionIds : LoginIssue(q, s) \/ RotateIssue(q, s) \/ ReuseMark(q, s)
    BY <1>2 DEF LoginIssue, RotateIssue, ReuseMark
  <1>3. CASE \/ (\E rehash \in BOOLEAN : LoginCommit(q, rehash)) \/ RotateCommit(q) \/ RefreshReject(q) \/ ReuseCommit(q)
             \/ LogoutCommit(q) \/ ReadProfile(q) \/ LogoutAllCommit(q)
             \/ ChangePasswordReject(q) \/ CommitRefused(q) \/ DeadlockAbort(q)
             \/ ChangePasswordCommit(q)
    BY <1>3 DEF LoginCommit, RotateCommit, RefreshReject, ReuseCommit, LogoutCommit,
                ReadProfile, LogoutAllCommit, ChangePasswordReject, CommitRefused, DeadlockAbort,
                ChangePasswordCommit, Finish
  <1>4. CASE \/ RefreshReplayed(q) \/ RefreshAccept(q) \/ ReuseSelect(q) \/ LogoutMark(q)
             \/ CheckRevokedAll(q) \/ CheckRevokedSession(q) \/ LoadUser(q)
    BY <1>4 DEF RefreshReplayed, RefreshAccept, ReuseSelect, LogoutMark, CheckRevokedAll,
                CheckRevokedSession, LoadUser, Finish
  <1>5. CASE \/ LogoutAllBegin(q) \/ LogoutAllMark(q) \/ ReuseUpdate(q)
             \/ (\E v \in Passwords : ChangePasswordBegin(q, v))
             \/ \E s \in SessionIds : LockRow(q, s)
    BY <1>5 DEF LogoutAllBegin, LogoutAllMark, ReuseUpdate, ChangePasswordBegin, LockRow
  <1>6. QED
    BY <1>1, <1>2, <1>3, <1>4, <1>5 DEF Continue

\* Rows, tokens and passwords are changed by commits only.
LEMMA ContinueCommits ==
  ASSUME NEW r \in Requests, Continue(r)
  PROVE  \/ UNCHANGED <<row, token, password>>
         \/ (\E rehash \in BOOLEAN : LoginCommit(r, rehash)) \/ RotateCommit(r)
         \/ ReuseCommit(r) \/ LogoutCommit(r) \/ LogoutAllCommit(r)
         \/ ChangePasswordCommit(r)
  BY DEF Continue, LoginIssue, RotateIssue, ReuseMark, RefreshReject,
         RefreshReplayed, RefreshAccept, ReuseSelect, LogoutMark,
         CheckRevokedAll, CheckRevokedSession, LoadUser, ReadProfile,
         LogoutAllBegin, LockRow, LogoutAllMark, ChangePasswordBegin,
         ChangePasswordReject, ReuseUpdate, CommitRefused, DeadlockAbort, db

LEMMA CommitsOnly ==
  ASSUME [Next]_vars
  PROVE  \/ UNCHANGED <<row, token, password>>
         \/ \E r \in Requests : \/ \E rehash \in BOOLEAN : LoginCommit(r, rehash)
                                \/ RotateCommit(r) \/ ReuseCommit(r)
                                \/ LogoutCommit(r) \/ LogoutAllCommit(r)
                                \/ ChangePasswordCommit(r)
  <1>1. ASSUME NEW r \in Requests, Begin(r) \/ Fail(r) PROVE UNCHANGED <<row, token, password>>
    BY <1>1 DEF Begin, Fail, LoginSelect, RefreshDecode, LogoutSelect, RejectExpired,
                Authenticate, vars, db
  <1>2. QED
    BY <1>1, ContinueCommits DEF Next, EvictMarker, Tick, vars, db

\* The new session of a login.
LEMMA LoginOpens ==
  ASSUME TypeInv, NEW r \in Requests, NEW rehash \in BOOLEAN, LoginCommit(r, rehash)
  PROVE  /\ req[r].new \in SessionIds /\ row[req[r].new] = "unissued"
         /\ Issued' = Issued \cup {req[r].new}
         /\ token'[req[r].new] = [user |-> req[r].user, family |-> req[r].new,
                                  iat |-> req[r].iat, pwd |-> req[r].pwd]
         /\ row'[req[r].new] = "live"
         /\ \A s \in SessionIds : s # req[r].new => token'[s] = token[s] /\ row'[s] = row[s]
         /\ \A u \in Users : u # req[r].user => password'[u] = password[u]
         /\ password' # password => rehash /\ password'[req[r].user] = req[r].pwd
         /\ req[r].user \in Users
  <1>1. req[r] \in Request /\ RecordOK(req[r])
    BY DEF TypeInv, TypeOK
  <1>2. req[r].new \in SessionIds /\ row[req[r].new] = "unissued"
    BY <1>1 DEF LoginCommit, At, RecordOK, Request
  <1>3. /\ row'[req[r].new] = "live"
        /\ \A s \in SessionIds : s # req[r].new => token'[s] = token[s] /\ row'[s] = row[s]
        /\ token'[req[r].new] = [user |-> req[r].user, family |-> req[r].new,
                                 iat |-> req[r].iat, pwd |-> req[r].pwd]
    BY <1>2 DEF LoginCommit, TypeInv, TypeOK
  <1>4. Issued' = Issued \cup {req[r].new}
    BY <1>2, <1>3 DEF Issued
  <1>5. req[r].user \in Users
    BY <1>1 DEF LoginCommit, At, RecordOK
  <1>6. /\ \A u \in Users : u # req[r].user => password'[u] = password[u]
        /\ password' # password => rehash /\ password'[req[r].user] = req[r].pwd
    BY <1>5 DEF LoginCommit, TypeInv, TypeOK
  <1>7. QED
    BY <1>2, <1>3, <1>4, <1>5, <1>6

\* The successor that a rotation opens, and the session that it revokes.
LEMMA RotationOpens ==
  ASSUME TypeInv, NEW r \in Requests, RotateCommit(r)
  PROVE  /\ req[r].new \in SessionIds /\ row[req[r].new] = "unissued"
         /\ req[r].sid \in Issued /\ row[req[r].sid] # "deleted"
         /\ Issued' = Issued \cup {req[r].new}
         /\ token'[req[r].new] = [token[req[r].sid] EXCEPT !.iat = req[r].iat]
         /\ row'[req[r].sid] = "revoked"
         /\ \A s \in SessionIds : s # req[r].new =>
               token'[s] = token[s] /\ (s # req[r].sid => row'[s] = row[s])
         /\ UNCHANGED password
  <1>1. req[r] \in Request /\ RecordOK(req[r])
    BY DEF TypeInv, TypeOK
  <1>2. req[r].new \in SessionIds /\ row[req[r].new] = "unissued" /\ req[r].sid \in Issued
    BY <1>1 DEF RotateCommit, At, RecordOK, Request
  <1>3. req[r].sid # req[r].new /\ req[r].sid \in SessionIds
    BY <1>2 DEF Issued
  <1>4. /\ row'[req[r].sid] = "revoked" /\ row'[req[r].new] = "live"
        /\ \A s \in SessionIds : s # req[r].new =>
               token'[s] = token[s] /\ (s # req[r].sid => row'[s] = row[s])
        /\ token'[req[r].new] = [token[req[r].sid] EXCEPT !.iat = req[r].iat]
        /\ row[req[r].sid] # "deleted"
        /\ UNCHANGED password
    BY <1>2, <1>3 DEF RotateCommit, TypeInv, TypeOK
  <1>5. Issued' = Issued \cup {req[r].new}
    BY <1>2, <1>3, <1>4 DEF Issued
  <1>6. QED
    BY <1>2, <1>4, <1>5

\* Every other commit revokes or deletes the rows that the request has selected.
LEMMA RevokingCommits ==
  ASSUME TypeInv, NEW r \in Requests,
         ReuseCommit(r) \/ LogoutCommit(r) \/ LogoutAllCommit(r)
  PROVE  /\ \A s \in SessionIds :
               row'[s] = IF s \in req[r].rows THEN "revoked" ELSE row[s]
         /\ Issued' = Issued /\ UNCHANGED <<token, password>>
  <1>1. /\ \A s \in SessionIds :
               row'[s] = IF s \in req[r].rows THEN "revoked" ELSE row[s]
        /\ UNCHANGED <<token, password>>
    BY DEF ReuseCommit, LogoutCommit, LogoutAllCommit, Revoke
  <1>2. req[r].rows \subseteq Issued
    BY DEF TypeInv, RecordOK
  <1>3. QED
    BY <1>1, <1>2 DEF Issued

LEMMA DeletingCommit ==
  ASSUME TypeInv, NEW r \in Requests, ChangePasswordCommit(r)
  PROVE  /\ \A s \in SessionIds :
               row'[s] = IF s \in req[r].rows THEN "deleted" ELSE row[s]
         /\ Issued' = Issued /\ UNCHANGED token
         /\ \A u \in Users : u # req[r].user => password'[u] = password[u]
         /\ req[r].pc = "pwd_delete" /\ req[r].done = req[r].rows
  <1>1. /\ \A s \in SessionIds :
               row'[s] = IF s \in req[r].rows THEN "deleted" ELSE row[s]
        /\ \A u \in Users : u # req[r].user => password'[u] = password[u]
        /\ UNCHANGED token /\ req[r].pc = "pwd_delete" /\ req[r].done = req[r].rows
    BY DEF ChangePasswordCommit, TypeInv, TypeOK, At
  <1>2. req[r].rows \subseteq Issued
    BY DEF TypeInv, RecordOK
  <1>3. QED
    BY <1>1, <1>2 DEF Issued

\* A request comes to hold rows, or keeps hold of other rows, in these steps only.
LEMMA ClosingSteps ==
  ASSUME TypeInv, [Next]_vars, NEW r \in Requests, req'[r].pc \in Closing
  PROVE  \/ req'[r] = req[r]
         \/ ReuseSelect(r) \/ LogoutAllBegin(r) \/ ReuseUpdate(r) \/ LogoutAllMark(r)
         \/ (\E v \in Passwords : ChangePasswordBegin(r, v))
         \/ \E s \in SessionIds : ReuseMark(r, s) \/ LockRow(r, s)
  <1> USE DEF TypeInv, TypeOK
  <1>1. Idle.pc \notin Closing
    BY DEF Idle, Closing
  <1>2. CASE Begin(r) \/ Fail(r)
    <2>1. CASE Fail(r)
      BY <1>1, <2>1 DEF Fail, Finish
    <2>2. ASSUME NEW u \in Users, LoginSelect(r, u) PROVE FALSE
      BY <2>2 DEF LoginSelect, Idle, Closing
    <2>moves. ASSUME NEW x, x.pc \notin Closing, req' = [req EXCEPT ![r] = x] PROVE FALSE
      BY <2>moves
    <2>3. ASSUME NEW s \in SessionIds, RefreshDecode(r, s) PROVE FALSE
      BY <2>3, <2>moves DEF RefreshDecode, Idle, Closing
    <2>4. ASSUME NEW s \in SessionIds, LogoutSelect(r, s) PROVE FALSE
      BY <2>4, <2>moves DEF LogoutSelect, Idle, Closing
    <2>auth. ASSUME NEW s \in SessionIds, NEW op, Authenticate(r, s, op) PROVE FALSE
      BY <2>auth, <2>moves DEF Authenticate, Idle, Closing
    <2>5. ASSUME NEW s \in SessionIds, RejectExpired(r, s) PROVE req'[r] = req[r]
      BY <2>5 DEF RejectExpired, vars
    <2>6. QED
      BY <1>2, <2>1, <2>2, <2>3, <2>4, <2>auth, <2>5 DEF Begin
  <1>3. ASSUME NEW s \in SessionIds, LoginIssue(r, s) \/ RotateIssue(r, s) PROVE FALSE
    BY <1>3, EnteringMoves DEF Enters, Closing
  <1>4. ASSUME \/ (\E rehash \in BOOLEAN : LoginCommit(r, rehash))
               \/ RotateCommit(r) \/ RefreshReject(r) \/ ReuseCommit(r)
               \/ LogoutCommit(r) \/ ReadProfile(r) \/ LogoutAllCommit(r)
               \/ ChangePasswordReject(r) \/ CommitRefused(r) \/ DeadlockAbort(r)
               \/ ChangePasswordCommit(r)
        PROVE  FALSE
    BY <1>1, <1>4 DEF LoginCommit, RotateCommit, RefreshReject, ReuseCommit, LogoutCommit,
                      ReadProfile, LogoutAllCommit, ChangePasswordReject, CommitRefused, DeadlockAbort,
                      ChangePasswordCommit, Finish
  <1>5. ASSUME \/ RefreshReplayed(r) \/ RefreshAccept(r) \/ LogoutMark(r)
               \/ CheckRevokedAll(r) \/ CheckRevokedSession(r) \/ LoadUser(r)
        PROVE  FALSE
    BY <1>1, <1>5 DEF RefreshReplayed, RefreshAccept, LogoutMark, CheckRevokedAll,
                      CheckRevokedSession, LoadUser, Finish, Closing, Request
  <1>6. CASE Continue(r)
    BY <1>3, <1>4, <1>5, <1>6 DEF Continue
  <1>7. ASSUME NEW q \in Requests, q # r, Begin(q) \/ Continue(q) \/ Fail(q)
        PROVE  req'[r] = req[r]
    BY <1>7, OneMoves
  <1>8. CASE EvictMarker \/ Tick \/ UNCHANGED vars
    BY <1>8 DEF EvictMarker, Tick, vars
  <1>9. QED
    BY <1>2, <1>6, <1>7, <1>8 DEF Next

\* The rows that a statement has locked: they are there and, if it is the UPDATE of a
\* logout-all, live until it commits; no two requests hold the same row.
LockInv ==
    /\ \A r \in Requests : \A s \in Locks(r) :
          IF req[r].op = "logout_all" THEN row[s] = "live" ELSE row[s] # "deleted"
    /\ \A q, r \in Requests : q # r => Locks(q) \cap Locks(r) = {}

\* A request locks one row at a time, when nobody else has it, and keeps it as it is.
LEMMA LocksStep ==
  ASSUME TypeInv, FlowInv, [Next]_vars, NEW r \in Requests
  PROVE  \/ Locks(r)' \subseteq Locks(r) /\ req'[r].op = req[r].op
         \/ Locks(r)' = {}
         \/ \E s \in SessionIds :
               /\ LockRow(r, s) /\ req'[r].op = req[r].op
               /\ \/ Locks(r)' = Locks(r)
                  \/ Locks(r)' = Locks(r) \cup {s} /\ Matches(r, s)
  <1>rec. req[r] \in Request /\ FlowOK(req[r]) /\ req \in [Requests -> Request]
    BY DEF TypeInv, TypeOK, FlowInv
  <1>1. CASE req'[r].pc \notin Closing
    BY <1>1 DEF Locks, Locking, Closing
  <1>2. CASE req'[r] = req[r]
    BY <1>2 DEF Locks
  <1>3. CASE ReuseSelect(r) \/ \E s \in SessionIds : ReuseMark(r, s)
    <2>1. req'[r].pc = "reuse_mark"
      BY <1>3, <1>rec, EnteringMoves DEF TypeInv, Enters, ReuseMark, Request, At
    <2>2. QED
      BY <2>1 DEF Locks, Locking
  <1>4. CASE ReuseUpdate(r)
    <2>1. req'[r].done = {}
      BY <1>4, EnteringMoves DEF TypeInv
    <2>2. QED
      BY <2>1 DEF Locks
  <1>5. CASE LogoutAllBegin(r) \/ \E v \in Passwords : ChangePasswordBegin(r, v)
    <2>1. ASSUME LogoutAllBegin(r)
          PROVE  req'[r].done = req[r].done /\ req[r].pc = "authorized"
      BY <2>1, <1>rec DEF LogoutAllBegin, At, Request
    <2>2. ASSUME NEW v \in Passwords, ChangePasswordBegin(r, v)
          PROVE  req'[r].done = req[r].done /\ req[r].pc = "authorized"
      BY <2>2, <1>rec DEF ChangePasswordBegin, At, Request
    <2>3. req'[r].done = req[r].done /\ req[r].pc = "authorized"
      BY <1>5, <2>1, <2>2
    <2>4. QED
      BY <1>rec, <2>3 DEF FlowOK, Locks, Locking
  <1>6. CASE LogoutAllMark(r)
    <2>1. /\ req'[r].done = req[r].done /\ req'[r].op = req[r].op
          /\ req[r].pc = "all_update" /\ req'[r].pc = "all_commit"
      BY <1>6, <1>rec DEF LogoutAllMark, At, Request
    <2>2. QED
      BY <2>1 DEF Locks, Locking
  <1>7. ASSUME NEW s \in SessionIds, LockRow(r, s)
        PROVE  /\ req'[r].op = req[r].op
               /\ \/ Locks(r)' = Locks(r)
                  \/ Locks(r)' = Locks(r) \cup {s} /\ Matches(r, s)
    <2>1. /\ req'[r].op = req[r].op /\ req'[r].pc = req[r].pc
          /\ \/ req'[r].done = req[r].done
             \/ req'[r].done = req[r].done \cup {s} /\ Matches(r, s)
      BY <1>rec, <1>7, LockingMoves
    <2>2. req[r].pc \in Locking
      BY <1>7 DEF LockRow
    <2>3. QED
      BY <2>1, <2>2 DEF Locks
  <1>8. QED
    BY <1>1, <1>2, <1>3, <1>4, <1>5, <1>6, <1>7, ClosingSteps, Zenon

\* No commit of another request touches the rows that a request has locked.
LEMMA LockedRowsKept ==
  ASSUME TypeInv, FlowInv, LockInv, [Next]_vars, NEW r \in Requests, req'[r] = req[r],
         NEW s \in Locks(r)
  PROVE  row'[s] = row[s]
  <1>1. CASE UNCHANGED <<row, token, password>>
    BY <1>1
  <1>2. s \in SessionIds /\ s \in Issued /\ req[r].pc # "idle"
    BY DEF TypeInv, RecordOK, Locks, Locking, Issued, FlowInv, FlowOK
  <1>3. ASSUME NEW q \in Requests, Finish(q), req[q].pc # "idle" PROVE q # r
    BY <1>3, <1>2 DEF Finish, Idle, TypeInv, TypeOK
  <1>4. ASSUME NEW q \in Requests, NEW rehash \in BOOLEAN, LoginCommit(q, rehash) PROVE row'[s] = row[s]
    BY <1>2, <1>4, LoginOpens DEF Issued
  <1>5. ASSUME NEW q \in Requests, RotateCommit(q) PROVE row'[s] = row[s]
    <2>1. q # r
      BY <1>3, <1>5 DEF RotateCommit, At
    <2>2. s # req[q].sid
      BY <1>5, <2>1 DEF RotateCommit, Unlocked
    <2>3. QED
      BY <1>2, <1>5, <2>2, RotationOpens DEF Issued
  <1>6. ASSUME NEW q \in Requests, ReuseCommit(q) \/ LogoutCommit(q) \/ LogoutAllCommit(q)
        PROVE  row'[s] = row[s]
    <2>1. q # r
      BY <1>3, <1>6 DEF ReuseCommit, LogoutCommit, LogoutAllCommit, At
    <2>2. s \notin req[q].rows
      <3>1. CASE LogoutCommit(q)
        BY <3>1, <2>1 DEF LogoutCommit, Unlocked
      <3>2. CASE ReuseCommit(q) \/ LogoutAllCommit(q)
        <4>1. Locks(q) = req[q].rows
          BY <3>2 DEF ReuseCommit, LogoutAllCommit, At, FlowInv, FlowOK, Locks, Locking
        <4>2. QED
          BY <2>1, <4>1 DEF LockInv
      <3>3. QED
        BY <1>6, <3>1, <3>2
    <2>3. QED
      BY <1>2, <1>6, <2>2, RevokingCommits
  <1>7. ASSUME NEW q \in Requests, ChangePasswordCommit(q)
        PROVE  row'[s] = row[s]
    <2>1. q # r
      BY <1>3, <1>7 DEF ChangePasswordCommit, At
    <2>2. s \notin req[q].rows
      BY <1>7, <2>1 DEF ChangePasswordCommit, At, LockInv, Locks, Locking
    <2>3. QED
      BY <1>2, <1>7, <2>2, DeletingCommit
  <1>8. QED
    BY <1>1, <1>4, <1>5, <1>6, <1>7, CommitsOnly

LEMMA LockInvStep == TypeInv /\ FlowInv /\ LockInv /\ [Next]_vars => LockInv'
  <1> SUFFICES ASSUME TypeInv, FlowInv, LockInv, [Next]_vars PROVE LockInv'
    OBVIOUS
  <1> DEFINE Fits(op, state) ==
          IF op = "logout_all" THEN state = "live" ELSE state # "deleted"
  <1>locking. ASSUME NEW r \in Requests, NEW s \in SessionIds, LockRow(r, s)
              PROVE  /\ row' = row /\ Locks(r) \cap {s} = {} /\ Unlocked(r, {s})
                     /\ \A q \in Requests \ {r} : req'[q] = req[q]
                     /\ Matches(r, s) => Fits(req[r].op, row[s])
    <2>1. row' = row /\ Locks(r) \cap {s} = {} /\ Unlocked(r, {s})
      BY <1>locking DEF LockRow, db, Locks
    <2>2. \A q \in Requests \ {r} : req'[q] = req[q]
      BY <1>locking, LockingMoves DEF TypeInv, TypeOK
    <2>3. req[r].op = "logout_all" => req[r].pc = "all_update" \/ req[r].pc \notin Locking
      BY DEF FlowInv, FlowOK, Locking
    <2>4. Matches(r, s) => Fits(req[r].op, row[s])
      BY <1>locking, <2>3 DEF LockRow, Matches
    <2>5. QED
      BY <2>1, <2>2, <2>4
  <1>1. ASSUME NEW r \in Requests, NEW s \in Locks(r)' PROVE Fits(req'[r].op, row'[s])
    <2>old. s \in Locks(r) => Fits(req[r].op, row[s])
      BY DEF LockInv
    <2>1. CASE req'[r] = req[r]
      <3>1. s \in Locks(r)
        BY <1>1, <2>1 DEF Locks
      <3>2. QED
        BY <2>old, <2>1, <3>1, LockedRowsKept
    <2>2. ASSUME NEW t \in SessionIds, LockRow(r, t), req'[r].op = req[r].op,
                 \/ Locks(r)' = Locks(r)
                 \/ Locks(r)' = Locks(r) \cup {t} /\ Matches(r, t)
          PROVE  Fits(req'[r].op, row'[s])
      BY <1>1, <1>locking, <2>old, <2>2
    <2>3. CASE Locks(r)' \subseteq Locks(r) /\ req'[r].op = req[r].op /\ req'[r] # req[r]
      <3>1. ASSUME NEW q \in Requests, Finish(q), req[q].pc # "idle"
            PROVE  FALSE
        <4>1. CASE q = r
          BY <1>1, <3>1, <4>1 DEF Finish, Idle, Locks, Locking, TypeInv, TypeOK
        <4>2. CASE q # r
          BY <2>3, <3>1, <4>2 DEF Finish, TypeInv, TypeOK
        <4>3. QED
          BY <4>1, <4>2
      <3>2. ASSUME NEW q \in Requests, NEW rehash \in BOOLEAN, LoginCommit(q, rehash)
            PROVE  FALSE
        BY <3>1, <3>2 DEF LoginCommit, At
      <3>3. ASSUME NEW q \in Requests,
                   \/ RotateCommit(q) \/ ReuseCommit(q) \/ LogoutCommit(q)
                   \/ LogoutAllCommit(q) \/ ChangePasswordCommit(q)
            PROVE  FALSE
        BY <3>1, <3>3 DEF RotateCommit, ReuseCommit, LogoutCommit, LogoutAllCommit,
                          ChangePasswordCommit, At
      <3>4. row' = row
        BY <3>2, <3>3, CommitsOnly
      <3>5. QED
        BY <1>1, <2>old, <2>3, <3>4
    <2>4. QED
      BY <1>1, <2>1, <2>2, <2>3, LocksStep
  <1>2. ASSUME NEW q \in Requests, NEW r \in Requests, q # r
        PROVE  Locks(q)' \cap Locks(r)' = {}
    <2>1. Locks(q) \cap Locks(r) = {}
      BY <1>2 DEF LockInv
    <2>2. ASSUME NEW p \in Requests, NEW o \in Requests, p # o, Locks(p) \cap Locks(o) = {},
                 NEW s \in SessionIds, LockRow(p, s), Locks(p)' \subseteq Locks(p) \cup {s}
          PROVE  Locks(p)' \cap Locks(o)' = {}
      <3>1. Locks(o)' = Locks(o) /\ s \notin Locks(o)
        BY <1>locking, <2>2 DEF Locks, Unlocked
      <3>2. QED
        BY <2>2, <3>1
    <2>3. CASE Locks(q)' \subseteq Locks(q) /\ Locks(r)' \subseteq Locks(r)
      BY <2>1, <2>3
    <2>4. QED
      BY <1>2, <2>1, <2>2, <2>3, LocksStep
  <1>3. QED
    BY <1>1, <1>2 DEF LockInv

\* What a session's tokens say never changes.
LEMMA TokensFinal ==
  ASSUME TypeInv, [Next]_vars, NEW s \in Issued
  PROVE  s \in Issued' /\ token'[s] = token[s]
  <1>1. CASE UNCHANGED <<row, token, password>>
    BY <1>1 DEF Issued
  <1>2. s \in SessionIds /\ row[s] # "unissued"
    BY DEF Issued
  <1>3. ASSUME NEW r \in Requests, NEW rehash \in BOOLEAN, LoginCommit(r, rehash) \/ RotateCommit(r)
        PROVE  s \in Issued' /\ token'[s] = token[s]
    BY <1>2, <1>3, LoginOpens, RotationOpens
  <1>4. ASSUME NEW r \in Requests,
               \/ ReuseCommit(r) \/ LogoutCommit(r) \/ LogoutAllCommit(r)
               \/ ChangePasswordCommit(r)
        PROVE  s \in Issued' /\ token'[s] = token[s]
    BY <1>2, <1>4, RevokingCommits, DeletingCommit
  <1>5. QED
    BY <1>1, <1>3, <1>4, CommitsOnly

\* A row that is closed is never live again, nor does one that is gone come back.
LEMMA RowsFinal ==
  ASSUME TypeInv, FlowInv, LockInv, [Next]_vars, NEW s \in Issued
  PROVE  /\ row'[s] = "live" => row[s] = "live"
         /\ row[s] = "deleted" => row'[s] = "deleted"
  <1>1. s \in SessionIds /\ row[s] # "unissued"
    BY DEF Issued
  <1>2. ASSUME NEW r \in Requests, NEW rehash \in BOOLEAN, LoginCommit(r, rehash) PROVE row'[s] = row[s]
    BY <1>1, <1>2, LoginOpens
  <1>3. ASSUME NEW r \in Requests, RotateCommit(r)
        PROVE  row'[s] = row[s] \/ (row'[s] = "revoked" /\ row[s] # "deleted")
    BY <1>1, <1>3, RotationOpens
  <1>4. ASSUME NEW r \in Requests, ReuseCommit(r) \/ LogoutCommit(r) \/ LogoutAllCommit(r)
        PROVE  row'[s] = row[s] \/ (row'[s] = "revoked" /\ row[s] # "deleted")
    <2>1. ASSUME s \in req[r].rows PROVE row[s] # "deleted"
      <3>1. CASE LogoutCommit(r)
        BY <2>1, <3>1 DEF LogoutCommit
      <3>2. CASE ReuseCommit(r) \/ LogoutAllCommit(r)
        <4>1. Locks(r) = req[r].rows
          BY <3>2 DEF ReuseCommit, LogoutAllCommit, At, FlowInv, FlowOK, Locks, Locking
        <4>2. QED
          BY <2>1, <4>1 DEF LockInv
      <3>3. QED
        BY <1>4, <3>1, <3>2
    <2>2. QED
      BY <1>1, <1>4, <2>1, RevokingCommits
  <1>5. ASSUME NEW r \in Requests, ChangePasswordCommit(r)
        PROVE  row'[s] = row[s] \/ row'[s] = "deleted"
    BY <1>1, <1>5, DeletingCommit
  <1>6. QED
    BY <1>2, <1>3, <1>4, <1>5, CommitsOnly

-----------------------------------------------------------------------------
(***************************************************************************)
(* What survives a closing.                                                *)
(***************************************************************************)

\* The sessions that request r is going to close.
Targets(r) ==
    {s \in Issued :
        \/ /\ req[r].pc \in {"reuse_mark", "reuse_update"} /\ row[s] = "live"
           /\ token[s].family = token[req[r].sid].family
        \/ /\ req[r].pc \in {"all_update", "all_commit"} /\ row[s] = "live"
           /\ token[s].user = req[r].user
        \/ /\ req[r].pc = "pwd_delete" /\ row[s] # "deleted"
           /\ token[s].user = req[r].user}

\* A request has selected all of them, but for those opened since.
SnapshotInv ==
    /\ opened \in [Requests -> SUBSET SessionIds]
    /\ \A r \in Requests : Targets(r) \subseteq req[r].rows \cup opened[r]

LEMMA OpenedGrows ==
  ASSUME SnapshotInv, [OverlapNext]_overlapVars, NEW r \in Requests,
         req[r].pc \in Closing, req'[r].pc \in Closing
  PROVE  (opened[r] \cup Opening) \ Deleted' \subseteq opened'[r]
  BY DEF SnapshotInv, OverlapNext, RecordOpened, overlapVars, Opening, Issued

LEMMA OverlapImplies ==
  ASSUME [OverlapNext]_overlapVars PROVE [Next]_vars
  BY DEF OverlapNext, overlapVars, vars

LEMMA OpenedType ==
  ASSUME SnapshotInv, [OverlapNext]_overlapVars
  PROVE  opened' \in [Requests -> SUBSET SessionIds]
  <1>1. Opening \subseteq SessionIds
    BY DEF Opening, Issued
  <1>2. CASE RecordOpened
    BY <1>1, <1>2 DEF SnapshotInv, RecordOpened
  <1>3. QED
    BY <1>2 DEF OverlapNext, overlapVars, SnapshotInv

LEMMA SnapshotStep ==
  TypeInv /\ FlowInv /\ LockInv /\ SnapshotInv /\ [OverlapNext]_overlapVars => SnapshotInv'
  <1> SUFFICES ASSUME TypeInv, FlowInv, LockInv, SnapshotInv, [OverlapNext]_overlapVars,
                      NEW r \in Requests
               PROVE  Targets(r)' \subseteq req'[r].rows \cup opened'[r]
    BY OpenedType DEF SnapshotInv
  <1>next. [Next]_vars
    BY OverlapImplies
  <1>rec. req[r] \in Request /\ RecordOK(req[r]) /\ FlowOK(req[r])
    BY DEF TypeInv, TypeOK, FlowInv
  <1>1. CASE req'[r].pc \notin Closing
    BY <1>1 DEF Targets, Closing
  <1>2. CASE req'[r].pc \in Closing /\ req'[r] = req[r]
    <2>1. (opened[r] \cup Opening) \ Deleted' \subseteq opened'[r]
      BY <1>2, OpenedGrows
    <2>2. ASSUME NEW s \in Targets(r)', s \in Issued PROVE s \in Targets(r)
      <3>1. /\ token'[s] = token[s]
            /\ row'[s] = "live" => row[s] = "live"
            /\ row'[s] # "deleted" => row[s] # "deleted"
        BY <1>next, <2>2, TokensFinal, RowsFinal
      <3>2. req[r].pc \in {"reuse_mark", "reuse_update"}
                => token'[req[r].sid] = token[req[r].sid]
        BY <1>next, <1>rec, TokensFinal DEF RecordOK, FlowOK, Request, Operations
      <3>3. QED
        BY <1>2, <2>2, <3>1, <3>2 DEF Targets
    <2>3. Targets(r)' \subseteq Issued' \ Deleted'
      BY DEF Targets, Deleted
    <2>4. QED
      BY <1>2, <2>1, <2>2, <2>3 DEF SnapshotInv, Opening
  <1>3. ASSUME UNCHANGED <<row, token>>, req[r].pc \in Closing, req'[r].pc \in Closing
        PROVE  opened[r] \ Deleted \subseteq opened'[r] /\ Issued' = Issued
    BY <1>3, OpenedGrows DEF Opening, Issued, Deleted
  <1>4. CASE ReuseSelect(r)
    BY <1>4, <1>rec DEF ReuseSelect, At, Targets, Live, FamilyOf, Issued, db, Request,
                        TypeInv, TypeOK
  <1>5. CASE LogoutAllBegin(r)
    BY <1>5, <1>rec DEF LogoutAllBegin, At, Targets, Live, RowsOf, Issued, db, Request,
                        TypeInv, TypeOK
  <1>6. ASSUME NEW v \in Passwords, ChangePasswordBegin(r, v)
        PROVE  Targets(r)' \subseteq req'[r].rows \cup opened'[r]
    BY <1>6, <1>rec DEF ChangePasswordBegin, At, Targets, RowsOf, Issued, db, Request,
                        TypeInv, TypeOK
  <1>7. ASSUME NEW s \in SessionIds, ReuseMark(r, s)
        PROVE  Targets(r)' \subseteq req'[r].rows \cup opened'[r]
    <2>1. UNCHANGED <<row, token>> /\ req'[r] = [req[r] EXCEPT !.done = @ \cup {s}]
          /\ req[r].pc = "reuse_mark"
      BY <1>7 DEF ReuseMark, At, db, TypeInv, TypeOK
    <2>2. req'[r].pc = "reuse_mark" /\ req'[r].rows = req[r].rows /\ req'[r].sid = req[r].sid
      BY <2>1, <1>rec DEF Request
    <2>3. opened[r] \ Deleted \subseteq opened'[r] /\ Issued' = Issued
      BY <1>3, <2>1, <2>2 DEF Closing
    <2>4. QED
      BY <2>1, <2>2, <2>3 DEF SnapshotInv, Targets, Deleted
  <1>8. CASE LogoutAllMark(r) \/ ReuseUpdate(r)
    <2>1. /\ UNCHANGED <<row, token>> /\ req'[r].rows = req[r].rows
          /\ \/ req[r].pc = "all_update" /\ req'[r].pc = "all_commit"
             \/ req[r].pc = "reuse_mark" /\ req'[r].pc = "reuse_update"
          /\ req'[r].user = req[r].user /\ req'[r].sid = req[r].sid
      <3>1. CASE LogoutAllMark(r)
        BY <3>1, <1>rec DEF LogoutAllMark, At, db, TypeInv, TypeOK, Request
      <3>2. CASE ReuseUpdate(r)
        BY <3>2, EnteringMoves DEF ReuseUpdate, At, db, TypeInv, Enters
      <3>3. QED
        BY <1>8, <3>1, <3>2
    <2>2. opened[r] \ Deleted \subseteq opened'[r] /\ Issued' = Issued
      BY <1>3, <2>1 DEF Closing
    <2>3. QED
      BY <2>1, <2>2 DEF SnapshotInv, Targets, Deleted
  <1>9. ASSUME NEW s \in SessionIds, LockRow(r, s)
        PROVE  Targets(r)' \subseteq req'[r].rows \cup opened'[r]
    <2>1. /\ req'[r].pc = req[r].pc /\ req'[r].user = req[r].user
          /\ req'[r].sid = req[r].sid
          /\ \/ req'[r].rows = req[r].rows
             \/ req'[r].rows = req[r].rows \ {s} /\ ~ Matches(r, s)
      BY <1>9, <1>rec, LockingMoves DEF TypeInv, TypeOK
    <2>2. UNCHANGED <<row, token>> /\ req[r].pc \in Locking
      BY <1>9 DEF LockRow, db
    <2>3. ~ Matches(r, s) => s \notin Targets(r)
      BY <2>2 DEF Matches, Targets, Locking
    <2>4. opened[r] \ Deleted \subseteq opened'[r] /\ Issued' = Issued
      BY <1>3, <2>1, <2>2 DEF Closing, Locking
    <2>5. Targets(r)' = Targets(r)
      BY <2>1, <2>2, <2>4 DEF Targets
    <2>6. Targets(r) \subseteq req'[r].rows \cup opened[r]
      BY <2>1, <2>3 DEF SnapshotInv
    <2>7. Targets(r) \cap Deleted = {}
      BY DEF Targets, Deleted
    <2>8. QED
      BY <2>4, <2>5, <2>6, <2>7
  <1>10. QED
    BY <1>next, <1>1, <1>2, <1>4, <1>5, <1>6, <1>7, <1>8, <1>9, ClosingSteps

LEMMA SurvivorsStep ==
  ASSUME TypeInv, SnapshotInv, NEW r \in Requests
  PROVE  /\ ReuseCommit(r) =>
                {s \in Live' : token'[s].family = token[req[r].sid].family} \subseteq opened[r]
         /\ LogoutAllCommit(r) \/ ChangePasswordCommit(r) =>
                {s \in Live' : token'[s].user = req[r].user} \subseteq opened[r]
  <1>1. ASSUME ReuseCommit(r) \/ LogoutAllCommit(r), NEW s \in Live'
        PROVE  s \in Issued /\ row[s] = "live" /\ s \notin req[r].rows /\ token'[s] = token[s]
    BY <1>1, RevokingCommits DEF Live, Issued
  <1>2. ASSUME ChangePasswordCommit(r), NEW s \in Live'
        PROVE  s \in Issued /\ row[s] = "live" /\ s \notin req[r].rows /\ token'[s] = token[s]
    BY <1>2, DeletingCommit DEF Live, Issued
  <1>3. Targets(r) \subseteq req[r].rows \cup opened[r]
    BY DEF SnapshotInv
  <1>4. ASSUME ReuseCommit(r), NEW s \in Live', token'[s].family = token[req[r].sid].family
        PROVE  s \in opened[r]
    <2>1. req[r].pc = "reuse_update"
      BY <1>4 DEF ReuseCommit, At
    <2>2. s \in Targets(r)
      BY <1>1, <1>4, <2>1 DEF Targets
    <2>3. QED
      BY <1>1, <1>3, <1>4, <2>2
  <1>5. ASSUME LogoutAllCommit(r), NEW s \in Live', token'[s].user = req[r].user
        PROVE  s \in opened[r]
    <2>1. req[r].pc = "all_commit"
      BY <1>5 DEF LogoutAllCommit, At
    <2>2. s \in Targets(r)
      BY <1>1, <1>5, <2>1 DEF Targets
    <2>3. QED
      BY <1>1, <1>3, <1>5, <2>2
  <1>6. ASSUME ChangePasswordCommit(r), NEW s \in Live',
               token'[s].user = req[r].user
        PROVE  s \in opened[r]
    <2>1. req[r].pc = "pwd_delete"
      BY <1>6 DEF ChangePasswordCommit, At
    <2>2. s \in Targets(r)
      BY <1>2, <1>6, <2>1 DEF Targets
    <2>3. QED
      BY <1>2, <1>3, <1>6, <2>2
  <1>7. QED
    BY <1>4, <1>5, <1>6

LEMMA OverlapInits == OverlapInit => TypeInv /\ FlowInv /\ LockInv /\ SnapshotInv
  <1> SUFFICES ASSUME OverlapInit PROVE TypeInv /\ FlowInv /\ LockInv /\ SnapshotInv
    OBVIOUS
  <1>1. TypeInv /\ FlowInv
    BY InitTypeInv DEF OverlapInit, Init, FlowInv, FlowOK, Idle
  <1>2. LockInv /\ SnapshotInv
    BY DEF OverlapInit, Init, LockInv, Locks, SnapshotInv, Targets, Issued, Idle
  <1>3. QED
    BY <1>1, <1>2

\* A closing leaves no session that existed when it began: what survives it is newer.
THEOREM OnlyNewerSurvive == OverlapSpec => SurvivorsAreNewer
  <1>1. TypeInv /\ FlowInv /\ LockInv /\ SnapshotInv /\ [OverlapNext]_overlapVars
           => (TypeInv /\ FlowInv /\ LockInv /\ SnapshotInv)'
    BY OverlapImplies, TypeInvStep, FlowStep, LockInvStep, SnapshotStep
  <1>2. TypeInv /\ SnapshotInv /\ [OverlapNext]_overlapVars =>
          [\A r \in Requests :
             /\ ReuseCommit(r) =>
                    {s \in Live' : token'[s].family = token[req[r].sid].family}
                        \subseteq opened[r]
             /\ LogoutAllCommit(r) \/ ChangePasswordCommit(r) =>
                    {s \in Live' : token'[s].user = req[r].user} \subseteq opened[r]]_overlapVars
    BY SurvivorsStep
  <1>3. QED
    BY <1>1, <1>2, OverlapInits, PTL DEF OverlapSpec, SurvivorsAreNewer

-----------------------------------------------------------------------------
(***************************************************************************)
(* Which sessions a password change leaves behind.                         *)
(***************************************************************************)

\* A login that is not outdated has verified the password that its user has.
LoginsInv ==
    \A r \in Requests :
        req[r].op = "login" => req[r].pwd = password[req[r].user] \/ r \in outdated

\* A login verifies the password when it begins and keeps what it has verified.
LEMMA LoginSteps ==
  ASSUME TypeInv, FlowInv, [Next]_vars, NEW r \in Requests, req'[r].op = "login"
  PROVE  \/ \E u \in Users : LoginSelect(r, u)
         \/ req[r].op = "login" /\ req'[r].user = req[r].user /\ req'[r].pwd = req[r].pwd
  <1>rec. req \in [Requests -> Request] /\ req[r] \in Request
          /\ RecordOK(req[r]) /\ FlowOK(req[r])
    BY DEF TypeInv, TypeOK, FlowInv
  <1>moves. ASSUME NEW x, x.op # "login", req' = [req EXCEPT ![r] = x] PROVE FALSE
    BY <1>rec, <1>moves
  <1>ends. ASSUME Finish(r) PROVE FALSE
    BY <1>moves, <1>ends DEF Finish, Idle
  <1>1. CASE Begin(r) \/ Fail(r)
    <2>1. ASSUME NEW s \in SessionIds, RefreshDecode(r, s) PROVE FALSE
      BY <2>1, <1>moves DEF RefreshDecode, Idle
    <2>2. ASSUME NEW s \in SessionIds, LogoutSelect(r, s) PROVE FALSE
      BY <2>2, <1>moves DEF LogoutSelect, Idle
    <2>3. ASSUME NEW s \in SessionIds, NEW op \in {"me", "logout_all", "change_password"} \cap Guarded,
                 Authenticate(r, s, op)
          PROVE  FALSE
      BY <2>3, <1>moves DEF Authenticate, Idle
    <2>4. ASSUME NEW s \in SessionIds, RejectExpired(r, s) PROVE req'[r] = req[r]
      BY <2>4 DEF RejectExpired, vars
    <2>5. QED
      BY <1>1, <1>ends, <2>1, <2>2, <2>3, <2>4 DEF Begin, Fail
  <1>2. CASE \E s \in SessionIds : LoginIssue(r, s) \/ RotateIssue(r, s) \/ ReuseMark(r, s)
    <2>1. ASSUME NEW s \in SessionIds, LoginIssue(r, s)
          PROVE  /\ req[r].op = "login"
                 /\ req'[r].user = req[r].user /\ req'[r].pwd = req[r].pwd
      BY <2>1, <1>rec DEF LoginIssue, At, Request
    <2>2. ASSUME NEW s \in SessionIds, RotateIssue(r, s) PROVE FALSE
      BY <2>2, <1>rec DEF RotateIssue, At, Request
    <2>3. ASSUME NEW s \in SessionIds, ReuseMark(r, s) PROVE FALSE
      BY <2>3, <1>rec DEF ReuseMark, At, Request
    <2>4. QED
      BY <1>2, <2>1, <2>2, <2>3
  <1>3. ASSUME \/ (\E rehash \in BOOLEAN : LoginCommit(r, rehash))
               \/ RotateCommit(r) \/ RefreshReject(r) \/ ReuseCommit(r)
               \/ LogoutCommit(r) \/ ReadProfile(r) \/ LogoutAllCommit(r)
               \/ ChangePasswordReject(r) \/ CommitRefused(r) \/ DeadlockAbort(r)
               \/ ChangePasswordCommit(r)
        PROVE  FALSE
    BY <1>ends, <1>3 DEF LoginCommit, RotateCommit, RefreshReject, ReuseCommit, LogoutCommit,
                         ReadProfile, LogoutAllCommit, ChangePasswordReject, CommitRefused, DeadlockAbort,
                         ChangePasswordCommit
  <1>4. CASE RefreshReplayed(r) \/ RefreshAccept(r) \/ LogoutMark(r)
    BY <1>4, <1>rec DEF RefreshReplayed, RefreshAccept, LogoutMark, Request
  <1>5. CASE CheckRevokedAll(r) \/ CheckRevokedSession(r) \/ LoadUser(r)
    <2>1. req[r].op # "login"
      BY <1>5, <1>rec DEF CheckRevokedAll, CheckRevokedSession, LoadUser, RecordOK
    <2>2. ASSUME NEW pc, req' = [req EXCEPT ![r].pc = pc]
          PROVE  FALSE
      BY <1>rec, <2>1, <2>2 DEF Request
    <2>3. QED
      BY <1>5, <1>ends, <2>2 DEF CheckRevokedAll, CheckRevokedSession, LoadUser
  <1>6. CASE ReuseSelect(r) \/ LogoutAllBegin(r) \/ ReuseUpdate(r) \/ LogoutAllMark(r)
    <2>1. ASSUME ReuseSelect(r) \/ LogoutAllBegin(r) \/ ReuseUpdate(r)
          PROVE  req'[r].op = req[r].op
      BY <2>1, EnteringMoves DEF TypeInv, Enters
    <2>2. ASSUME ReuseSelect(r) \/ LogoutAllBegin(r) \/ ReuseUpdate(r)
          PROVE  req[r].op # "login"
      BY <2>2, <1>rec DEF ReuseSelect, LogoutAllBegin, ReuseUpdate, At
    <2>3. QED
      BY <1>6, <1>rec, <2>1, <2>2 DEF LogoutAllMark, Request
  <1>7. ASSUME NEW v \in Passwords, ChangePasswordBegin(r, v) PROVE FALSE
    BY <1>7, <1>rec DEF ChangePasswordBegin, At, Request
  <1>lock. ASSUME NEW s \in SessionIds, LockRow(r, s) PROVE FALSE
    <2>1. req'[r].op = req[r].op
      BY <1>lock, <1>rec, LockingMoves
    <2>2. QED
      BY <1>lock, <1>rec, <2>1 DEF LockRow, RecordOK, Locking
  <1>8. ASSUME NEW q \in Requests, q # r, Begin(q) \/ Continue(q) \/ Fail(q)
        PROVE  req'[r] = req[r]
    BY <1>8, OneMoves
  <1>9. CASE EvictMarker \/ Tick \/ UNCHANGED vars
    BY <1>9 DEF EvictMarker, Tick, vars
  <1>10. QED
    BY <1>1, <1>2, <1>3, <1>4, <1>5, <1>6, <1>7, <1>lock, <1>8, <1>9 DEF Next, Continue

LEMMA LoginsStep ==
  TypeInv /\ FlowInv /\ LoginsInv /\ [OverlapNext]_overlapVars => LoginsInv'
  <1> SUFFICES ASSUME TypeInv, FlowInv, LoginsInv, [OverlapNext]_overlapVars,
                      NEW r \in Requests, req'[r].op = "login"
               PROVE  req'[r].pwd = password'[req'[r].user] \/ r \in outdated'
    BY DEF LoginsInv
  <1>1. ASSUME NEW u \in Users, LoginSelect(r, u)
        PROVE  req'[r].pwd = password'[req'[r].user]
    BY <1>1 DEF LoginSelect, Idle, TypeInv, TypeOK, db
  <1>2. ASSUME req[r].op = "login", req'[r].user = req[r].user, req'[r].pwd = req[r].pwd
        PROVE  req'[r].pwd = password'[req'[r].user] \/ r \in outdated'
    <2>1. req[r].pwd = password[req[r].user] \/ r \in outdated
      BY <1>2 DEF LoginsInv
    <2>2. CASE RecordOutdated
      BY <1>2, <2>1, <2>2 DEF RecordOutdated
    <2>3. CASE UNCHANGED overlapVars
      BY <1>2, <2>1, <2>3 DEF overlapVars
    <2>4. QED
      BY <2>2, <2>3 DEF OverlapNext
  <1>3. QED
    BY <1>1, <1>2, OverlapImplies, LoginSteps

LEMMA PasswordsStep ==
  ASSUME TypeInv, FlowInv, LockInv, SnapshotInv, LoginsInv, PasswordsMatchButForOverlaps,
         [OverlapNext]_overlapVars
  PROVE  PasswordsMatchButForOverlaps'
  <1> SUFFICES ASSUME NEW s \in Issued', row'[s] # "deleted"
               PROVE  token'[s].pwd = password'[token'[s].user] \/ s \in overlapped'
    BY DEF PasswordsMatchButForOverlaps
  <1>next. [Next]_vars /\ s \in SessionIds
    BY OverlapImplies DEF Issued
  <1>grows. /\ s \in overlapped => s \in overlapped'
            /\ \A r \in Requests :
                  req[r].new = s /\ s \notin Issued /\ (r \in outdated \/ req[r].sid \in overlapped)
                     => s \in overlapped'
            /\ \A r \in Requests :
                  OverlapNext /\ ChangePasswordCommit(r) /\ s \in opened[r] /\ s \in Issued
                     => (token[s].user = req[r].user => s \in overlapped')
            /\ \A r \in Requests :
                  OverlapNext /\ LoginCommit(r, TRUE) /\ s \in Issued /\ r \in outdated
                     => (token[s].user = req[r].user => s \in overlapped')
    <2>1. CASE UNCHANGED overlapVars /\ ~ OverlapNext
      BY <2>1 DEF overlapVars, Issued
    <2>undeleted. s \notin Deleted'
      BY DEF Deleted
    <2>2. CASE RecordOverlapped
      <3>1. ASSUME NEW r \in Requests, s \in Opening, req[r].new = s,
                   r \in outdated \/ req[r].sid \in overlapped
            PROVE  s \in overlapped'
        BY <2>2, <2>undeleted, <3>1 DEF RecordOverlapped
      <3>2. ASSUME NEW r \in Requests, ChangePasswordCommit(r), s \in opened[r],
                   s \in Issued, token[s].user = req[r].user
            PROVE  s \in overlapped'
        BY <2>2, <2>undeleted, <3>2 DEF RecordOverlapped
      <3>3. s \in overlapped => s \in overlapped'
        BY <2>2, <2>undeleted DEF RecordOverlapped
      <3>undone. ASSUME NEW r \in Requests, r \in outdated, LoginCommit(r, TRUE), s \in Issued,
                        token[s].user = req[r].user
                 PROVE  s \in overlapped'
        BY <2>2, <2>undeleted, <3>undone DEF RecordOverlapped
      <3>4. s \in Opening \/ s \in Issued
        BY DEF Opening
      <3>5. QED
        BY <3>1, <3>2, <3>undone, <3>3, <3>4
    <2>3. QED
      BY <2>1, <2>2 DEF OverlapNext
  <1>1. CASE s \notin Issued
    <2>1. ASSUME NEW r \in Requests, NEW rehash \in BOOLEAN, LoginCommit(r, rehash)
          PROVE  token'[s].pwd = password'[token'[s].user] \/ s \in overlapped'
      <3>new. Issued' = Issued \cup {req[r].new}
        BY <2>1, LoginOpens
      <3>1. s = req[r].new
        BY <1>1, <3>new
      <3>tok. /\ token'[s] = [user |-> req[r].user, family |-> req[r].new,
                              iat |-> req[r].iat, pwd |-> req[r].pwd]
              /\ password' # password => password'[req[r].user] = req[r].pwd
        BY <2>1, <3>1, LoginOpens, Zenon
      <3>2. /\ token'[s].pwd = req[r].pwd /\ token'[s].user = req[r].user
            /\ password' # password => password'[req[r].user] = req[r].pwd
        BY <3>tok
      <3>3. req[r].pwd = password[req[r].user] \/ r \in outdated
        BY <2>1 DEF LoginCommit, At, LoginsInv
      <3>4. QED
        BY <1>1, <1>grows, <3>1, <3>2, <3>3
    <2>2. ASSUME NEW r \in Requests, RotateCommit(r)
          PROVE  token'[s].pwd = password'[token'[s].user] \/ s \in overlapped'
      <3>new. Issued' = Issued \cup {req[r].new}
        BY <2>2, RotationOpens
      <3>1. s = req[r].new
        BY <1>1, <3>new
      <3>2. /\ req[r].sid \in Issued /\ row[req[r].sid] # "deleted"
            /\ token'[s] = [token[req[r].sid] EXCEPT !.iat = req[r].iat]
            /\ UNCHANGED password
        BY <2>2, <3>1, RotationOpens
      <3>3. token[req[r].sid] \in Token
        BY <3>2 DEF TypeInv, TypeOK, Issued
      <3>4. token'[s].pwd = token[req[r].sid].pwd /\ token'[s].user = token[req[r].sid].user
        BY <3>2, <3>3 DEF Token
      <3>5. token[req[r].sid].pwd = password[token[req[r].sid].user] \/ req[r].sid \in overlapped
        BY <3>2 DEF PasswordsMatchButForOverlaps
      <3>6. QED
        BY <1>1, <1>grows, <3>1, <3>2, <3>4, <3>5
    <2>3. ASSUME NEW r \in Requests,
                 \/ ReuseCommit(r) \/ LogoutCommit(r) \/ LogoutAllCommit(r)
                 \/ ChangePasswordCommit(r)
          PROVE  FALSE
      BY <1>1, <2>3, RevokingCommits, DeletingCommit
    <2>4. ASSUME UNCHANGED <<row, token, password>> PROVE FALSE
      BY <1>1, <2>4 DEF Issued
    <2>5. QED
      BY <1>next, <2>1, <2>2, <2>3, <2>4, CommitsOnly
  <1>2. CASE s \in Issued
    <2>1. token'[s] = token[s] /\ row[s] # "deleted"
      BY <1>next, <1>2, TokensFinal, RowsFinal
    <2>2. token[s].pwd = password[token[s].user] \/ s \in overlapped
      BY <1>2, <2>1 DEF PasswordsMatchButForOverlaps
    <2>3. CASE password'[token[s].user] = password[token[s].user]
      BY <1>grows, <2>1, <2>2, <2>3
    <2>4. CASE password'[token[s].user] # password[token[s].user]
      <3>1. token[s].user \in Users
        BY <1>2 DEF TypeInv, TypeOK, Token, Issued
      <3>2. OverlapNext
        BY <2>4 DEF overlapVars
      <3>3. ASSUME NEW r \in Requests, ChangePasswordCommit(r) PROVE s \in overlapped'
        <4>1. /\ token[s].user = req[r].user /\ req[r].pc = "pwd_delete"
              /\ s \notin req[r].rows
          BY <1>next, <2>4, <3>1, <3>3, DeletingCommit
        <4>2. s \in Targets(r)
          BY <1>2, <2>1, <4>1 DEF Targets
        <4>3. s \in opened[r]
          BY <4>1, <4>2 DEF SnapshotInv
        <4>4. QED
          BY <1>2, <1>grows, <3>2, <3>3, <4>1, <4>3
      <3>4. ASSUME NEW r \in Requests, NEW rehash \in BOOLEAN, LoginCommit(r, rehash)
            PROVE  s \in overlapped'
        <4>1. /\ token[s].user = req[r].user /\ rehash
              /\ password'[req[r].user] = req[r].pwd
          <5>1. /\ \A u \in Users : u # req[r].user => password'[u] = password[u]
                /\ password' # password => rehash /\ password'[req[r].user] = req[r].pwd
            BY <3>4, LoginOpens, Zenon
          <5>2. QED
            BY <2>4, <3>1, <5>1
        <4>2. req[r].pwd # password[req[r].user]
          BY <2>4, <4>1
        <4>3. r \in outdated
          BY <3>4, <4>2 DEF LoginCommit, At, LoginsInv
        <4>4. LoginCommit(r, TRUE)
          BY <3>4, <4>1
        <4>5. QED
          BY <1>2, <1>grows, <3>2, <4>1, <4>3, <4>4
      <3>5. QED
        BY <1>next, <2>4, <3>3, <3>4, CommitsOnly, RotationOpens, RevokingCommits
    <2>5. QED
      BY <2>3, <2>4
  <1>3. QED
    BY <1>1, <1>2

\* A password change leaves behind only sessions whose opening overlapped it, what an
\* overlapping login finds when it puts the old password back, and what has been
\* rotated from those.
THEOREM PasswordsMatchInOverlaps == OverlapSpec => []PasswordsMatchButForOverlaps
  <1>1. OverlapInit => LoginsInv /\ PasswordsMatchButForOverlaps
    BY DEF OverlapInit, Init, LoginsInv, Idle, PasswordsMatchButForOverlaps, Issued
  <1> DEFINE I == TypeInv /\ FlowInv /\ LockInv /\ SnapshotInv /\ LoginsInv
                  /\ PasswordsMatchButForOverlaps
  <1>2. I /\ [OverlapNext]_overlapVars => I'
    BY OverlapImplies, TypeInvStep, FlowStep, LockInvStep, SnapshotStep, LoginsStep,
       PasswordsStep
  <1>3. QED
    BY <1>1, <1>2, OverlapInits, PTL DEF OverlapSpec

\* The record is about requests and sessions.
THEOREM OverlapTypes == OverlapSpec => []OverlapTypeOK
  <1>1. OverlapInit => OverlapTypeOK
    BY DEF OverlapInit, OverlapTypeOK
  <1>2. ASSUME SnapshotInv, OverlapTypeOK, [OverlapNext]_overlapVars PROVE OverlapTypeOK'
    <2>1. overlapped' \subseteq SessionIds
      <3>1. \A r \in Requests : opened[r] \subseteq SessionIds
        BY <1>2 DEF OverlapTypeOK
      <3>2. CASE RecordOverlapped
        BY <1>2, <3>1, <3>2 DEF RecordOverlapped, Opening, Issued, OverlapTypeOK
      <3>3. QED
        BY <1>2, <3>2 DEF OverlapNext, overlapVars, OverlapTypeOK
    <2>2. outdated' \subseteq Requests
      BY <1>2 DEF OverlapNext, RecordOutdated, overlapVars, OverlapTypeOK
    <2>3. QED
      BY <1>2, <2>1, <2>2, OpenedType DEF OverlapTypeOK
  <1>3. TypeInv /\ FlowInv /\ LockInv /\ SnapshotInv /\ [OverlapNext]_overlapVars
           => (TypeInv /\ FlowInv /\ LockInv /\ SnapshotInv)'
    BY OverlapImplies, TypeInvStep, FlowStep, LockInvStep, SnapshotStep
  <1>4. QED
    BY <1>1, <1>2, <1>3, OverlapInits, PTL DEF OverlapSpec

-----------------------------------------------------------------------------
(***************************************************************************)
(* Whose sessions a request touches.                                       *)
(***************************************************************************)

\* A family belongs to the user of the session that it is named for, and the rows that
\* a request has selected are its user's.
OwnedInv ==
    /\ \A s \in Issued : /\ token[s].family \in Issued
                         /\ token[token[s].family].user = token[s].user
    /\ \A r \in Requests : \A s \in req[r].rows : token[s].user = req[r].user

LEMMA FamiliesOwned ==
  ASSUME TypeInv, OwnedInv, [Next]_vars, NEW s \in Issued'
  PROVE  token'[s].family \in Issued' /\ token'[token'[s].family].user = token'[s].user
  <1>1. CASE s \in Issued
    <2>1. token'[s] = token[s] /\ token[s].family \in Issued
          /\ token[token[s].family].user = token[s].user
      BY <1>1, TokensFinal DEF OwnedInv
    <2>2. token'[token[s].family] = token[token[s].family] /\ token[s].family \in Issued'
      BY <2>1, TokensFinal
    <2>3. QED
      BY <2>1, <2>2
  <1>2. CASE s \notin Issued
    <2>1. ASSUME NEW r \in Requests, NEW rehash \in BOOLEAN, LoginCommit(r, rehash)
          PROVE  token'[s].family = s
      <3>1. Issued' = Issued \cup {req[r].new}
        BY <2>1, LoginOpens
      <3>2. s = req[r].new
        BY <1>2, <3>1
      <3>3. token'[s] = [user |-> req[r].user, family |-> req[r].new,
                         iat |-> req[r].iat, pwd |-> req[r].pwd]
        BY <2>1, <3>2, LoginOpens, Zenon
      <3>4. QED
        BY <3>2, <3>3
    <2>2. ASSUME NEW r \in Requests, RotateCommit(r)
          PROVE  token'[s].family \in Issued' /\ token'[token'[s].family].user = token'[s].user
      <3>1. Issued' = Issued \cup {req[r].new} /\ req[r].sid \in Issued
        BY <2>2, RotationOpens
      <3>2. s = req[r].new
        BY <1>2, <3>1
      <3>3. token'[s] = [token[req[r].sid] EXCEPT !.iat = req[r].iat]
        BY <2>2, <3>2, RotationOpens, Zenon
      <3>4. token[req[r].sid] \in Token
        BY <3>1 DEF TypeInv, TypeOK, Issued
      <3>5. token'[s].family = token[req[r].sid].family
            /\ token'[s].user = token[req[r].sid].user
        BY <3>3, <3>4 DEF Token
      <3>6. token[req[r].sid].family \in Issued
            /\ token[token[req[r].sid].family].user = token[req[r].sid].user
        BY <3>1 DEF OwnedInv
      <3>7. QED
        BY <3>5, <3>6, TokensFinal
    <2>3. ASSUME NEW r \in Requests,
                 \/ ReuseCommit(r) \/ LogoutCommit(r) \/ LogoutAllCommit(r)
                 \/ ChangePasswordCommit(r)
          PROVE  FALSE
      BY <1>2, <2>3, RevokingCommits, DeletingCommit
    <2>4. ASSUME UNCHANGED <<row, token, password>> PROVE FALSE
      BY <1>2, <2>4 DEF Issued
    <2>5. QED
      BY <2>1, <2>2, <2>3, <2>4, CommitsOnly
  <1>3. QED
    BY <1>1, <1>2

LEMMA RowsOwned ==
  ASSUME TypeInv, FlowInv, OwnedInv, [Next]_vars, NEW r \in Requests, NEW s \in req'[r].rows
  PROVE  token'[s].user = req'[r].user
  <1>rec. req \in [Requests -> Request] /\ req[r] \in Request
          /\ RecordOK(req[r]) /\ FlowOK(req[r])
    BY DEF TypeInv, TypeOK, FlowInv
  <1>kept. ASSUME s \in Issued, token[s].user = req'[r].user PROVE token'[s].user = req'[r].user
    BY <1>kept, TokensFinal
  <1>same. ASSUME req'[r].rows \subseteq req[r].rows, req'[r].user = req[r].user
           PROVE  token'[s].user = req'[r].user
    BY <1>rec, <1>kept, <1>same DEF RecordOK, OwnedInv
  <1>none. ASSUME NEW x, x.rows = {}, req' = [req EXCEPT ![r] = x] PROVE FALSE
    BY <1>rec, <1>none
  <1>ends. ASSUME Finish(r) PROVE FALSE
    BY <1>ends, <1>none DEF Finish, Idle
  <1>1. CASE Begin(r) \/ Fail(r)
    <2>1. ASSUME NEW q \in SessionIds, RefreshDecode(r, q) PROVE FALSE
      BY <2>1, <1>none DEF RefreshDecode, Idle
    <2>2. ASSUME NEW q \in SessionIds, LogoutSelect(r, q) PROVE token'[s].user = req'[r].user
      <3>1. q \in Issued /\ req'[r].rows = {q} \cap Live /\ req'[r].user = token[q].user
        BY <2>2, <1>rec DEF LogoutSelect, Idle
      <3>2. QED
        BY <3>1, <1>kept
    <2>3. ASSUME NEW q \in SessionIds, NEW op \in {"me", "logout_all", "change_password"} \cap Guarded,
                 Authenticate(r, q, op)
          PROVE  FALSE
      BY <2>3, <1>none DEF Authenticate, Idle
    <2>4. ASSUME NEW q \in SessionIds, RejectExpired(r, q) PROVE req'[r] = req[r]
      BY <2>4 DEF RejectExpired, vars
    <2>5. ASSUME NEW u \in Users, LoginSelect(r, u) PROVE FALSE
      BY <2>5, <1>none DEF LoginSelect, Idle
    <2>6. QED
      BY <1>1, <1>ends, <1>same, <2>1, <2>2, <2>3, <2>4, <2>5 DEF Begin, Fail
  <1>2. ASSUME NEW q \in SessionIds, LoginIssue(r, q) \/ RotateIssue(r, q) \/ ReuseMark(r, q)
        PROVE  req'[r].rows = req[r].rows /\ req'[r].user = req[r].user
    BY <1>2, <1>rec DEF LoginIssue, RotateIssue, ReuseMark, Request
  <1>3. ASSUME \/ (\E rehash \in BOOLEAN : LoginCommit(r, rehash))
               \/ RotateCommit(r) \/ RefreshReject(r) \/ ReuseCommit(r)
               \/ LogoutCommit(r) \/ ReadProfile(r) \/ LogoutAllCommit(r)
               \/ ChangePasswordReject(r) \/ CommitRefused(r) \/ DeadlockAbort(r)
               \/ ChangePasswordCommit(r)
        PROVE  FALSE
    BY <1>ends, <1>3 DEF LoginCommit, RotateCommit, RefreshReject, ReuseCommit, LogoutCommit,
                         ReadProfile, LogoutAllCommit, ChangePasswordReject, CommitRefused, DeadlockAbort,
                         ChangePasswordCommit
  <1>4. CASE ReuseSelect(r)
    <2>1. /\ req'[r].rows = Live \cap FamilyOf(req[r].sid) /\ req'[r].user = req[r].user
          /\ req[r].sid \in Issued /\ req[r].user = token[req[r].sid].user
      BY <1>4, <1>rec DEF ReuseSelect, At, RecordOK, Request
    <2>2. s \in Issued /\ token[s].family = token[req[r].sid].family
      BY <2>1 DEF FamilyOf
    <2>3. token[s].user = req'[r].user
      BY <2>1, <2>2 DEF OwnedInv
    <2>4. QED
      BY <1>kept, <2>2, <2>3
  <1>5. CASE LogoutAllBegin(r) \/ \E v \in Passwords : ChangePasswordBegin(r, v)
    <2>1. ASSUME LogoutAllBegin(r)
          PROVE  req'[r].rows \subseteq RowsOf(req[r].user) /\ req'[r].user = req[r].user
      BY <2>1, <1>rec DEF LogoutAllBegin, Request
    <2>2. ASSUME NEW v \in Passwords, ChangePasswordBegin(r, v)
          PROVE  req'[r].rows \subseteq RowsOf(req[r].user) /\ req'[r].user = req[r].user
      BY <2>2, <1>rec DEF ChangePasswordBegin, Request
    <2>3. QED
      BY <1>5, <1>kept, <2>1, <2>2 DEF RowsOf
  <1>6. CASE RefreshReplayed(r) \/ RefreshAccept(r) \/ LogoutMark(r)
    BY <1>6, <1>rec, <1>same DEF RefreshReplayed, RefreshAccept, LogoutMark, Request
  <1>7. CASE CheckRevokedAll(r) \/ CheckRevokedSession(r) \/ LoadUser(r)
    <2>1. ASSUME NEW pc, req' = [req EXCEPT ![r].pc = pc]
          PROVE  token'[s].user = req'[r].user
      BY <1>rec, <1>same, <2>1 DEF Request
    <2>2. QED
      BY <1>7, <1>ends, <2>1 DEF CheckRevokedAll, CheckRevokedSession, LoadUser
  <1>8. CASE LogoutAllMark(r) \/ ReuseUpdate(r)
    BY <1>8, <1>rec, <1>same DEF LogoutAllMark, ReuseUpdate, Request
  <1>lock. ASSUME NEW q \in SessionIds, LockRow(r, q) PROVE token'[s].user = req'[r].user
    <2>1. req'[r].rows \subseteq req[r].rows /\ req'[r].user = req[r].user
      BY <1>lock, <1>rec, LockingMoves
    <2>2. QED
      BY <1>same, <2>1
  <1>9. ASSUME NEW q \in Requests, q # r, Begin(q) \/ Continue(q) \/ Fail(q)
        PROVE  req'[r] = req[r]
    BY <1>9, OneMoves
  <1>10. ASSUME EvictMarker \/ Tick \/ UNCHANGED vars PROVE req'[r] = req[r]
    BY <1>10 DEF EvictMarker, Tick, vars
  <1>11. CASE Continue(r)
    BY <1>same, <1>2, <1>3, <1>4, <1>5, <1>6, <1>7, <1>8, <1>lock, <1>11 DEF Continue
  <1>12. QED
    BY <1>same, <1>1, <1>9, <1>10, <1>11 DEF Next

\* What a step of one request changes.
LEMMA StaysInAccount ==
  ASSUME TypeInv, OwnedInv, NEW r \in Requests, Continue(r)
  PROVE  LET u == IF req[r].op = "login" THEN req[r].user ELSE token[req[r].sid].user IN
         /\ \A s \in SessionIds :
               /\ row'[s] # row[s] => token'[s].user = u
               /\ revoked_session'[s] # revoked_session[s] => token[s].user = u
         /\ \A v \in Users :
               \/ v = u
               \/ password'[v] = password[v] /\ revoked_all'[v] = revoked_all[v]
  <1>rec. req \in [Requests -> Request] /\ req[r] \in Request /\ RecordOK(req[r])
    BY DEF TypeInv, TypeOK
  <1> DEFINE u == IF req[r].op = "login" THEN req[r].user ELSE token[req[r].sid].user
  <1>pc. req[r].pc # "idle"
    BY DEF Continue, LoginIssue, RotateIssue, ReuseMark, LoginCommit, RefreshReject,
           RefreshReplayed, RefreshAccept, RotateCommit, ReuseSelect, ReuseCommit,
           LogoutMark, LogoutCommit, CheckRevokedAll, CheckRevokedSession, LoadUser,
           ReadProfile, LogoutAllBegin, LockRow, LogoutAllMark, LogoutAllCommit,
           ChangePasswordBegin, ChangePasswordReject, ReuseUpdate, Locking,
           ChangePasswordCommit, CommitRefused, DeadlockAbort, Deadlocked, At
  <1>user. u = req[r].user
    BY <1>rec, <1>pc DEF RecordOK, Request, Operations
  <1>1. ASSUME NEW s \in SessionIds, row'[s] # row[s] PROVE token'[s].user = req[r].user
    <2>1. ASSUME NEW rehash \in BOOLEAN, LoginCommit(r, rehash)
          PROVE  token'[s].user = req[r].user
      <3>1. s = req[r].new
        BY <1>1, <2>1, LoginOpens
      <3>2. token'[s] = [user |-> req[r].user, family |-> req[r].new,
                         iat |-> req[r].iat, pwd |-> req[r].pwd]
        BY <2>1, <3>1, LoginOpens, Zenon
      <3>3. QED
        BY <3>2
    <2>2. CASE RotateCommit(r)
      <3>1. s = req[r].new \/ (s = req[r].sid /\ s # req[r].new)
        BY <1>1, <2>2, RotationOpens
      <3>2. /\ s = req[r].new => token'[s] = [token[req[r].sid] EXCEPT !.iat = req[r].iat]
            /\ s # req[r].new => token'[s] = token[s]
            /\ req[r].sid \in Issued
        BY <2>2, RotationOpens, Zenon
      <3>3. token[req[r].sid] \in Token
        BY <3>2 DEF TypeInv, TypeOK, Issued
      <3>4. req[r].user = token[req[r].sid].user
        BY <1>rec, <2>2 DEF RotateCommit, At, RecordOK
      <3>5. QED
        BY <3>1, <3>2, <3>3, <3>4 DEF Token
    <2>3. CASE \/ ReuseCommit(r) \/ LogoutCommit(r) \/ LogoutAllCommit(r)
               \/ ChangePasswordCommit(r)
      <3>1. s \in req[r].rows /\ UNCHANGED token
        BY <1>1, <2>3, RevokingCommits, DeletingCommit
      <3>2. QED
        BY <3>1 DEF OwnedInv
    <2>4. QED
      BY <1>1, <2>1, <2>2, <2>3, ContinueCommits
  <1>2. ASSUME NEW s \in SessionIds, revoked_session'[s] # revoked_session[s]
        PROVE  token[s].user = req[r].user
    <2>1. ASSUME NEW t \in SessionIds, ReuseMark(r, t) PROVE token[s].user = req[r].user
      BY <1>2, <2>1 DEF ReuseMark, OwnedInv, TypeInv, TypeOK
    <2>2. CASE LogoutMark(r)
      BY <1>2, <1>rec, <2>2 DEF LogoutMark, At, RecordOK, TypeInv, TypeOK
    <2>3. QED
      BY <1>2, <2>1, <2>2
      DEF Continue, LoginIssue, RotateIssue, LoginCommit, RefreshReject,
          RefreshReplayed, RefreshAccept, RotateCommit, ReuseSelect, ReuseCommit,
          LogoutCommit, CheckRevokedAll, CheckRevokedSession, LoadUser,
          ReadProfile, LogoutAllBegin, LockRow, LogoutAllMark, LogoutAllCommit,
          ChangePasswordBegin, ChangePasswordReject, ReuseUpdate,
          ChangePasswordCommit, CommitRefused, DeadlockAbort, cache
  <1>3. ASSUME NEW v \in Users, v # req[r].user
        PROVE  password'[v] = password[v] /\ revoked_all'[v] = revoked_all[v]
    <2>1. password'[v] = password[v]
      BY <1>3, ContinueCommits, LoginOpens, RotationOpens, RevokingCommits, DeletingCommit
    <2>2. ASSUME LogoutAllMark(r) PROVE revoked_all'[v] = revoked_all[v]
      BY <1>3, <2>2 DEF LogoutAllMark, TypeInv, TypeOK
    <2>3. revoked_all'[v] = revoked_all[v]
      BY <2>2
      DEF Continue, LoginIssue, RotateIssue, ReuseMark, LoginCommit, RefreshReject,
          RefreshReplayed, RefreshAccept, RotateCommit, ReuseSelect, ReuseCommit,
          LogoutMark, LogoutCommit, CheckRevokedAll, CheckRevokedSession, LoadUser,
          ReadProfile, LogoutAllBegin, LockRow, LogoutAllCommit,
          ChangePasswordBegin, ChangePasswordReject, ReuseUpdate,
          ChangePasswordCommit, CommitRefused, DeadlockAbort, cache
    <2>4. QED
      BY <2>1, <2>3
  <1> HIDE DEF u
  <1>4. QED
    BY <1>user, <1>1, <1>2, <1>3 DEF u

\* No request touches another account, however many there are and whatever they hold.
THEOREM AccountsKeptApart == Spec => RequestsStayInAccount
  <1> DEFINE Kept(r) ==
          LET u == IF req[r].op = "login" THEN req[r].user ELSE token[req[r].sid].user IN
          /\ \A s \in SessionIds :
                /\ row'[s] # row[s] => token'[s].user = u
                /\ revoked_session'[s] # revoked_session[s] => token[s].user = u
          /\ \A v \in Users :
                \/ v = u
                \/ password'[v] = password[v] /\ revoked_all'[v] = revoked_all[v]
  <1>1. Init => FlowInv /\ OwnedInv
    BY DEF Init, FlowInv, FlowOK, OwnedInv, Issued, Idle
  <1>2. TypeInv /\ FlowInv /\ OwnedInv /\ [Next]_vars => OwnedInv'
    BY FamiliesOwned, RowsOwned DEF OwnedInv
  <1>3. ASSUME TypeInv, OwnedInv, [Next]_vars, NEW r \in Requests,
               req[r].pc # "idle", req'[r] # req[r]
        PROVE  Kept(r)
    <2>1. CASE Continue(r)
      BY <2>1, <1>3, StaysInAccount, Zenon
    <2>2. CASE Fail(r)
      BY <2>2 DEF Fail, db, cache
    <2>3. ASSUME Begin(r) PROVE FALSE
      BY <1>3, <2>3 DEF Begin, LoginSelect, RefreshDecode, LogoutSelect, RejectExpired,
                        Authenticate, vars
    <2>4. ASSUME NEW q \in Requests, q # r, Begin(q) \/ Continue(q) \/ Fail(q)
          PROVE  FALSE
      BY <1>3, <2>4, OneMoves
    <2>5. QED
      BY <1>3, <2>1, <2>2, <2>3, <2>4 DEF Next, EvictMarker, Tick, vars
  <1>4. TypeInv /\ OwnedInv /\ [Next]_vars =>
          [\A r \in Requests : req[r].pc # "idle" /\ req'[r] # req[r] => Kept(r)]_vars
    BY <1>3
  <1>5. QED
    BY <1>1, <1>2, <1>4, InitTypeInv, TypeInvStep, FlowStep, PTL
    DEF Spec, RequestsStayInAccount

\* A family forks at a stale rotation and nowhere else: while it has one live session at
\* most, no other step of any request opens a second one.
THEOREM ForksAtStaleRotations == Spec => ForksOnlyAtStaleRotations
  <1>1. ASSUME TypeInv, OwnedInv, [Next]_vars, OneLiveSessionPerFamily,
               \A r \in Requests : ~ StaleRotation(r)
        PROVE  OneLiveSessionPerFamily'
    <2> SUFFICES ASSUME NEW s \in Live', NEW t \in Live', s # t,
                        token'[s].family = token'[t].family
                 PROVE  FALSE
      BY DEF OneLiveSessionPerFamily
    <2>ids. s \in SessionIds /\ t \in SessionIds /\ row'[s] = "live" /\ row'[t] = "live"
      BY DEF Live
    <2>old. ASSUME row[s] = "live", row[t] = "live" PROVE FALSE
      <3>1. s \in Live /\ t \in Live /\ s \in Issued /\ t \in Issued
        BY <2>ids, <2>old DEF Live, Issued
      <3>2. token'[s] = token[s] /\ token'[t] = token[t]
        BY <1>1, <3>1, TokensFinal
      <3>3. QED
        BY <1>1, <3>1, <3>2 DEF OneLiveSessionPerFamily
    <2>1. ASSUME NEW r \in Requests, NEW rehash \in BOOLEAN, LoginCommit(r, rehash) PROVE FALSE
      <3> DEFINE n == req[r].new
      <3>1. /\ n \in SessionIds /\ row[n] = "unissued"
            /\ \A q \in SessionIds : q # n => token'[q] = token[q] /\ row'[q] = row[q]
        BY <2>1, <1>1, LoginOpens, Zenon
      <3>2. token'[n] = [user |-> req[r].user, family |-> n, iat |-> req[r].iat,
                         pwd |-> req[r].pwd]
        BY <2>1, <1>1, LoginOpens, Zenon
      <3>3. token'[n].family = n
        BY <3>2
      <3>4. ASSUME NEW q \in SessionIds, q # n, row'[q] = "live" PROVE token'[q].family # n
        <4>1. q \in Issued /\ token'[q] = token[q]
          BY <3>1, <3>4 DEF Issued
        <4>2. token[q].family \in Issued
          BY <1>1, <4>1 DEF OwnedInv
        <4>3. QED
          BY <3>1, <4>1, <4>2 DEF Issued
      <3> HIDE DEF n
      <3>5. QED
        BY <2>ids, <2>old, <3>1, <3>3, <3>4
    <2>2. ASSUME NEW r \in Requests, RotateCommit(r) PROVE FALSE
      <3> DEFINE n == req[r].new
                 o == req[r].sid
      <3>1. /\ n \in SessionIds /\ row[n] = "unissued" /\ o \in Issued
            /\ row[o] # "deleted" /\ row'[o] = "revoked"
            /\ \A q \in SessionIds : q # n =>
                  token'[q] = token[q] /\ (q # o => row'[q] = row[q])
        BY <2>2, <1>1, RotationOpens, Zenon
      <3>2. token'[n] = [token[o] EXCEPT !.iat = req[r].iat]
        BY <2>2, <1>1, RotationOpens, Zenon
      <3>3. token[o] \in Token /\ o \in SessionIds
        BY <1>1, <3>1 DEF TypeInv, TypeOK, Issued
      <3>4. token'[n].family = token[o].family
        BY <3>2, <3>3 DEF Token
      <3>5. row[o] = "live"
        BY <1>1, <2>2, <3>1, <3>3 DEF StaleRotation, TypeInv, TypeOK, RowState, Issued
      <3>6. ASSUME NEW q \in SessionIds, q # n, row'[q] = "live"
            PROVE  token'[q].family # token[o].family
        <4>1. q # o /\ row[q] = "live" /\ token'[q] = token[q]
          BY <3>1, <3>6
        <4>2. q \in Live /\ o \in Live
          BY <3>3, <3>5, <4>1 DEF Live
        <4>3. QED
          BY <1>1, <4>1, <4>2 DEF OneLiveSessionPerFamily
      <3> HIDE DEF n, o
      <3>7. CASE s = n \/ t = n
        BY <2>ids, <3>4, <3>6, <3>7
      <3>8. CASE s # n /\ t # n
        BY <2>ids, <2>old, <3>1, <3>8
      <3>9. QED
        BY <3>7, <3>8
    <2>3. ASSUME NEW r \in Requests,
                 \/ ReuseCommit(r) \/ LogoutCommit(r) \/ LogoutAllCommit(r)
                 \/ ChangePasswordCommit(r)
          PROVE  FALSE
      BY <2>ids, <2>old, <1>1, <2>3, RevokingCommits, DeletingCommit
    <2>4. ASSUME UNCHANGED <<row, token, password>> PROVE FALSE
      BY <2>ids, <2>old, <2>4
    <2>5. QED
      BY <1>1, <2>1, <2>2, <2>3, <2>4, CommitsOnly
  <1>2. Init => FlowInv /\ OwnedInv
    BY DEF Init, FlowInv, FlowOK, OwnedInv, Issued, Idle
  <1>3. TypeInv /\ FlowInv /\ OwnedInv /\ [Next]_vars => OwnedInv'
    BY FamiliesOwned, RowsOwned DEF OwnedInv
  <1>4. TypeInv /\ OwnedInv /\ [Next]_vars =>
          [OneLiveSessionPerFamily /\ (\A r \in Requests : ~ StaleRotation(r))
              => OneLiveSessionPerFamily']_vars
    BY <1>1
  <1>5. QED
    BY <1>2, <1>3, <1>4, InitTypeInv, TypeInvStep, FlowStep, PTL
    DEF Spec, ForksOnlyAtStaleRotations
=============================================================================
