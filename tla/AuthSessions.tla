---------------------------- MODULE AuthSessions ----------------------------
(***************************************************************************)
(* Server-side sessions of the EduHub API: login, refresh-token rotation   *)
(* with replay detection, logout, logout-all, password change, and the     *)
(* check of an access token (src/api/app/auth/service.py,                  *)
(* src/api/app/auth/dependencies.py).                                      *)
(*                                                                         *)
(* Each request is an asyncio task of some worker, so requests interleave  *)
(* at every await.  PostgreSQL runs them at READ COMMITTED: a SELECT sees  *)
(* what is committed when it starts; the ORM writes only the columns a     *)
(* request changed, by primary key, when it commits (autoflush is off); a  *)
(* statement over several rows locks one after the other, re-checks each   *)
(* once it has its lock and keeps the locks until the commit.  Redis       *)
(* writes are immediate and are not undone by a rollback.                  *)
(***************************************************************************)
EXTENDS Naturals, FiniteSets

CONSTANTS
    Users,          \* the user accounts
    Requests,       \* request slots: how many requests are in flight at once
    SessionIds,     \* the uuids that sessions draw from (bounds the sessions)
    None,           \* a null column or an argument not in use
    AccessTTL,      \* jwt_access_ttl_seconds
    RefreshTTL,     \* jwt_refresh_ttl_seconds
    MaxTime,        \* bound on the clock
    MaxPassword,    \* bound on the password versions of a user
    Guarded,        \* the operations behind get_current_user that requests are for
    Evictions,      \* whether Redis evicts markers (maxmemory-policy allkeys-lru)
    KeyCheckedAtOnce \* whether the key on replaced_by_session_id is checked at once

ASSUME NoneAssumption == None \notin SessionIds /\ None \notin Users
ASSUME TTLAssumption == AccessTTL \in Nat \ {0} /\ RefreshTTL \in Nat \ {0}
ASSUME BoundAssumption ==
    MaxTime \in Nat /\ MaxPassword \in Nat
ASSUME SettingAssumption == Evictions \in BOOLEAN /\ KeyCheckedAtOnce \in BOOLEAN

VARIABLES
    now,              \* the clock that the API and Redis read
    password,         \* version of each user's committed password hash
    password_history, \* the versions in each user's password_history rows
    row,              \* committed state of each refresh_sessions row
    token,            \* what the row and the two JWTs of a session carry
    replaced_by,      \* replaced_by_session_id
    revoked_session,  \* expiry of Redis key auth:revoked_session:{sid}
    revoked_all,      \* expiry of Redis key auth:revoked_all:{user}
    req,              \* what each request slot is doing
    invalidated,      \* history: sessions a marker was written for
    evicted,          \* history: sessions one of whose markers Redis has evicted
    closed            \* history: sessions a committed request has closed

accounts == <<password, password_history>>
db == <<accounts, row, token, replaced_by>>
cache == <<revoked_session, revoked_all, evicted>>
vars == <<now, password, password_history, row, token, replaced_by,
          revoked_session, revoked_all, req, invalidated, evicted, closed>>

Time == 0 .. MaxTime
Expiry == 0 .. MaxTime + AccessTTL + RefreshTTL
Passwords == 0 .. MaxPassword

\* "unissued": the id is not used yet.  "deleted": the row is gone, but the
\* client may still hold the tokens.  pwd is the password the login verified.
RowState == {"unissued", "live", "revoked", "deleted"}
Token == [user: Users, family: SessionIds, iat: Time, pwd: Passwords]

Operations == {"none", "login", "refresh", "logout", "me", "logout_all",
               "change_password"}
Steps == {"idle", "login", "login_commit",
          "refresh", "rotate", "rotate_commit",
          "reuse", "reuse_mark", "reuse_update",
          "logout_mark", "logout_commit",
          "auth_all", "auth_session", "auth_user", "authorized",
          "all_update", "all_commit", "pwd_delete"}

\* rows: the rows a request has selected; done: those that it has marked, or
\* that the statement under way has locked; barred: the presented token was
\* already invalid when the request began.
Request == [op: Operations, pc: Steps, user: Users \cup {None},
            sid: SessionIds \cup {None}, new: SessionIds \cup {None},
            iat: Time, pwd: Passwords, rows: SUBSET SessionIds,
            done: SUBSET SessionIds, barred: BOOLEAN]

Idle == [op |-> "none", pc |-> "idle", user |-> None, sid |-> None,
         new |-> None, iat |-> 0, pwd |-> 0, rows |-> {}, done |-> {},
         barred |-> FALSE]

TypeOK ==
    /\ now \in Time
    /\ password \in [Users -> Passwords]
    /\ password_history \in [Users -> SUBSET Passwords]
    /\ row \in [SessionIds -> RowState]
    /\ token \in [SessionIds -> Token \cup {None}]
    /\ \A s \in SessionIds : row[s] # "unissued" => token[s] \in Token
    /\ replaced_by \in [SessionIds -> SessionIds \cup {None}]
    /\ revoked_session \in [SessionIds -> Expiry]
    /\ revoked_all \in [Users -> Expiry]
    /\ req \in [Requests -> Request]
    /\ invalidated \subseteq SessionIds
    /\ evicted \subseteq SessionIds
    /\ closed \subseteq SessionIds

Init ==
    /\ now = 0
    /\ password = [u \in Users |-> 0]
    /\ password_history = [u \in Users |-> {0}]
    /\ row = [s \in SessionIds |-> "unissued"]
    /\ token = [s \in SessionIds |-> None]
    /\ replaced_by = [s \in SessionIds |-> None]
    /\ revoked_session = [s \in SessionIds |-> 0]
    /\ revoked_all = [u \in Users |-> 0]
    /\ req = [r \in Requests |-> Idle]
    /\ invalidated = {}
    /\ evicted = {}
    /\ closed = {}

-----------------------------------------------------------------------------
(***************************************************************************)
(* Helpers.                                                                *)
(***************************************************************************)
Issued == {s \in SessionIds : row[s] # "unissued"}
Live == {s \in SessionIds : row[s] = "live"}

\* mutation: the rows of every user
RowsOf_Everyone(u) == {s \in Issued : row[s] # "deleted"}

RowsOf(u) == {s \in Issued : token[s].user = u /\ row[s] # "deleted"}

\* mutation: the session itself instead of its family
FamilyOf_ItselfOnly(s) == {s}

FamilyOf(s) == {t \in Issued : token[t].family = token[s].family}

\* jwt.decode refuses a token from the second named by its exp claim on.
AccessExp(s) == token[s].iat + AccessTTL
RefreshExp(s) == token[s].iat + RefreshTTL

\* mutation: the marker lives one time unit less than the tokens
Setex_Short(ttl) == now + ttl - 1

\* Redis keys: SETEX, and GET by get_current_user.
Setex(ttl) == now + ttl
IsSet(expiry) == now < expiry

\* uuid4(): an id nobody has.  A request that may create a session begins only
\* while an id is left for it, so that the bound on ids never stops it later.
Fresh == (SessionIds \ Issued) \ {req[q].new : q \in Requests}
Minting == {q \in Requests : req[q].op \in {"login", "refresh"}}
IdLeft == Cardinality(Minting) < Cardinality(SessionIds \ Issued)

\* Rows of refresh_sessions that request q has locked, and users whose row the
\* flush of a login (it writes last_login_at) has locked until its commit.
Locking == {"reuse_update", "all_update", "pwd_delete"}
Locks(q) == IF req[q].pc \in Locking \cup {"all_commit"} THEN req[q].done ELSE {}
Unlocked(r, rows) == \A q \in Requests \ {r} : Locks(q) \cap rows = {}
UserUnlocked(u) == \A q \in Requests : ~ (req[q].pc = "login_commit" /\ req[q].user = u)

\* mutation: a password change deletes the rows that are not revoked
Matches_Live(r, s) == row[s] = "live"

\* Whether the statement of request r applies to a row once it is locked: the
\* UPDATE of logout_all to one that is not revoked, the ORM's UPDATE and the
\* DELETE of change_password to any that is there.
Matches(r, s) == IF req[r].pc = "all_update" THEN row[s] = "live" ELSE row[s] # "deleted"

\* PostgreSQL finds a circle of requests each of which may be waiting for a row
\* that another of them has locked.
Deadlocked(r) ==
    \E D \in SUBSET Requests :
        /\ r \in D
        /\ \A q \in D : /\ req[q].pc \in Locking
                        /\ \E p \in D \ {q} :
                              (req[q].rows \ req[q].done) \cap Locks(p) # {}

\* UPDATE ... SET revoked_at
Revoke(rows) ==
    row' = [s \in SessionIds |-> IF s \in rows THEN "revoked" ELSE row[s]]

At(r, op, pc) == req[r].op = op /\ req[r].pc = pc
Finish(r) == req' = [req EXCEPT ![r] = Idle]

-----------------------------------------------------------------------------
(***************************************************************************)
(* login: the user is selected and the password verified against that      *)
(* snapshot; then tokens and a row of a new family are made and committed. *)
(* A hash with outdated parameters is written again, from the password     *)
(* presented: over whatever the user's row holds by then.                  *)
(***************************************************************************)
LoginSelect(r, u) ==
    /\ req[r].pc = "idle"
    /\ IdLeft
    /\ req' = [req EXCEPT ![r] = [Idle EXCEPT !.op = "login", !.pc = "login",
                                              !.user = u, !.pwd = password[u]]]
    /\ UNCHANGED <<now, db, cache, invalidated, closed>>

LoginIssue(r, s) ==
    /\ At(r, "login", "login")
    /\ UserUnlocked(req[r].user)
    /\ s \in Fresh
    /\ req' = [req EXCEPT ![r] = [@ EXCEPT !.pc = "login_commit", !.new = s, !.iat = now]]
    /\ UNCHANGED <<now, db, cache, invalidated, closed>>

\* mutation: the family of a session presented with the request, which has none
LoginCommit_NoFamily(r, rehash) ==
    LET s == req[r].new IN
    /\ At(r, "login", "login_commit")
    /\ password' = IF rehash THEN [password EXCEPT ![req[r].user] = req[r].pwd]
                   ELSE password
    /\ row' = [row EXCEPT ![s] = "live"]
    /\ token' = [token EXCEPT ![s] = [user |-> req[r].user, family |-> req[r].sid,
                                      iat |-> req[r].iat, pwd |-> req[r].pwd]]
    /\ Finish(r)
    /\ UNCHANGED <<now, password_history, replaced_by, cache, invalidated, closed>>

LoginCommit(r, rehash) ==
    LET s == req[r].new IN
    /\ At(r, "login", "login_commit")
    /\ password' = IF rehash THEN [password EXCEPT ![req[r].user] = req[r].pwd]
                   ELSE password
    /\ row' = [row EXCEPT ![s] = "live"]
    /\ token' = [token EXCEPT ![s] = [user |-> req[r].user, family |-> s,
                                      iat |-> req[r].iat, pwd |-> req[r].pwd]]
    /\ Finish(r)
    /\ UNCHANGED <<now, password_history, replaced_by, cache, invalidated, closed>>

-----------------------------------------------------------------------------
(***************************************************************************)
(* refresh_tokens: decode, select the row, then reject, treat as a replay  *)
(* or rotate.                                                              *)
(***************************************************************************)
RefreshDecode(r, s) ==
    /\ req[r].pc = "idle"
    /\ IdLeft
    /\ s \in Issued /\ now < RefreshExp(s)
    /\ req' = [req EXCEPT ![r] = [Idle EXCEPT !.op = "refresh", !.pc = "refresh",
                                              !.user = token[s].user, !.sid = s,
                                              !.barred = (s \in closed)]]
    /\ UNCHANGED <<now, db, cache, invalidated, closed>>

\* missing_session and expired_session
RefreshReject(r) ==
    LET s == req[r].sid IN
    /\ At(r, "refresh", "refresh")
    /\ \/ row[s] = "deleted"
       \/ row[s] = "live" /\ RefreshExp(s) < now
    /\ Finish(r)
    /\ UNCHANGED <<now, db, cache, invalidated, closed>>

RefreshReplayed(r) ==
    /\ At(r, "refresh", "refresh")
    /\ row[req[r].sid] = "revoked"
    /\ req' = [req EXCEPT ![r].pc = "reuse"]
    /\ UNCHANGED <<now, db, cache, invalidated, closed>>

\* mutation: the check of revoked_at is dropped
RefreshAccept_Revoked(r) ==
    LET s == req[r].sid IN
    /\ At(r, "refresh", "refresh")
    /\ row[s] # "deleted" /\ now <= RefreshExp(s)
    /\ req' = [req EXCEPT ![r].pc = "rotate"]
    /\ UNCHANGED <<now, db, cache, invalidated, closed>>

RefreshAccept(r) ==
    LET s == req[r].sid IN
    /\ At(r, "refresh", "refresh")
    /\ row[s] = "live" /\ now <= RefreshExp(s)
    /\ req' = [req EXCEPT ![r].pc = "rotate"]
    /\ UNCHANGED <<now, db, cache, invalidated, closed>>

RotateIssue(r, s) ==
    /\ At(r, "refresh", "rotate")
    /\ s \in Fresh
    /\ req' = [req EXCEPT ![r] = [@ EXCEPT !.pc = "rotate_commit", !.new = s, !.iat = now]]
    /\ UNCHANGED <<now, db, cache, invalidated, closed>>

\* mutation: the rotated session is not revoked
RotateCommit_KeepsOld(r) ==
    LET old == req[r].sid
        new == req[r].new
    IN
    /\ At(r, "refresh", "rotate_commit")
    /\ ~ KeyCheckedAtOnce
    /\ Unlocked(r, {old})
    /\ row[old] # "deleted"
    /\ row' = [row EXCEPT ![new] = "live"]
    /\ token' = [token EXCEPT ![new] = [token[old] EXCEPT !.iat = req[r].iat]]
    /\ replaced_by' = [replaced_by EXCEPT ![old] = new]
    /\ closed' = closed \cup {old}
    /\ Finish(r)
    /\ UNCHANGED <<now, accounts, cache, invalidated>>

\* mutation: the successor gets a family of its own
RotateCommit_NewFamily(r) ==
    LET old == req[r].sid
        new == req[r].new
    IN
    /\ At(r, "refresh", "rotate_commit")
    /\ ~ KeyCheckedAtOnce
    /\ Unlocked(r, {old})
    /\ row[old] # "deleted"
    /\ row' = [row EXCEPT ![old] = "revoked", ![new] = "live"]
    /\ token' = [token EXCEPT ![new] =
                     [token[old] EXCEPT !.iat = req[r].iat, !.family = new]]
    /\ replaced_by' = [replaced_by EXCEPT ![old] = new]
    /\ closed' = closed \cup {old}
    /\ Finish(r)
    /\ UNCHANGED <<now, accounts, cache, invalidated>>

\* UPDATE of the presented session's row and INSERT of its successor, in this
\* order: a foreign key that is checked at once refuses the UPDATE, which names a
\* row that is not there yet.  Then every rotation ends in CommitRefused.  With
\* KeyCheckedAtOnce = FALSE (a deferred check, or the INSERT first) rotations commit,
\* or fail as any request may: every behaviour of the other setting is included.
RotateCommit(r) ==
    LET old == req[r].sid
        new == req[r].new
    IN
    /\ At(r, "refresh", "rotate_commit")
    /\ ~ KeyCheckedAtOnce
    /\ Unlocked(r, {old})
    /\ row[old] # "deleted"
    /\ row' = [row EXCEPT ![old] = "revoked", ![new] = "live"]
    /\ token' = [token EXCEPT ![new] = [token[old] EXCEPT !.iat = req[r].iat]]
    /\ replaced_by' = [replaced_by EXCEPT ![old] = new]
    /\ closed' = closed \cup {old}
    /\ Finish(r)
    /\ UNCHANGED <<now, accounts, cache, invalidated>>

\* _handle_refresh_reuse: _revoke_family selects the unrevoked rows, marks each
\* of them in Redis, and revokes them in the commit that also writes the audit.
ReuseSelect(r) ==
    /\ At(r, "refresh", "reuse")
    /\ req' = [req EXCEPT ![r] = [@ EXCEPT !.pc = "reuse_mark",
                                           !.rows = Live \cap FamilyOf(req[r].sid)]]
    /\ UNCHANGED <<now, db, cache, invalidated, closed>>

ReuseMark(r, s) ==
    /\ At(r, "refresh", "reuse_mark")
    /\ s \in req[r].rows \ req[r].done
    /\ revoked_session' = [revoked_session EXCEPT ![s] = Setex(AccessTTL)]
    /\ invalidated' = invalidated \cup {s}
    /\ req' = [req EXCEPT ![r].done = @ \cup {s}]
    /\ UNCHANGED <<now, db, revoked_all, evicted, closed>>

\* The flush of the commit sends the UPDATEs (LockRow).
ReuseUpdate(r) ==
    /\ At(r, "refresh", "reuse_mark")
    /\ req[r].done = req[r].rows
    /\ req' = [req EXCEPT ![r] = [@ EXCEPT !.pc = "reuse_update", !.done = {}]]
    /\ UNCHANGED <<now, db, cache, invalidated, closed>>

ReuseCommit(r) ==
    LET rows == req[r].rows IN
    /\ At(r, "refresh", "reuse_update")
    /\ req[r].done = rows
    /\ Revoke(rows)
    /\ closed' = closed \cup rows \cup {req[r].sid}
    /\ Finish(r)
    /\ UNCHANGED <<now, accounts, token, replaced_by, cache, invalidated>>

-----------------------------------------------------------------------------
(***************************************************************************)
(* logout: decodes the access token itself, without get_current_user, so   *)
(* it consults no marker.                                                  *)
(***************************************************************************)
LogoutSelect(r, s) ==
    /\ req[r].pc = "idle"
    /\ s \in Issued /\ now < AccessExp(s)
    /\ req' = [req EXCEPT ![r] = [Idle EXCEPT !.op = "logout", !.pc = "logout_mark",
                                              !.user = token[s].user, !.sid = s,
                                              !.rows = {s} \cap Live]]
    /\ UNCHANGED <<now, db, cache, invalidated, closed>>

LogoutMark(r) ==
    LET s == req[r].sid IN
    /\ At(r, "logout", "logout_mark")
    /\ revoked_session' = [revoked_session EXCEPT ![s] = Setex(AccessTTL)]
    /\ invalidated' = invalidated \cup {s}
    /\ req' = [req EXCEPT ![r].pc = "logout_commit"]
    /\ UNCHANGED <<now, db, revoked_all, evicted, closed>>

LogoutCommit(r) ==
    LET rows == req[r].rows IN
    /\ At(r, "logout", "logout_commit")
    /\ Unlocked(r, rows)
    /\ \A s \in rows : row[s] # "deleted"
    /\ Revoke(rows)
    /\ closed' = closed \cup {req[r].sid}
    /\ Finish(r)
    /\ UNCHANGED <<now, accounts, token, replaced_by, cache, invalidated>>

-----------------------------------------------------------------------------
(***************************************************************************)
(* get_current_user: decode, the two markers, the user.  It never looks at *)
(* the session's row.  /me ends here; the other two go on.                 *)
(***************************************************************************)
Authenticate(r, s, op) ==
    /\ req[r].pc = "idle"
    /\ s \in Issued /\ now < AccessExp(s)
    /\ req' = [req EXCEPT ![r] = [Idle EXCEPT !.op = op, !.pc = "auth_all",
                                              !.user = token[s].user, !.sid = s,
                                              !.barred = (s \in invalidated)]]
    /\ UNCHANGED <<now, db, cache, invalidated, closed>>

CheckRevokedAll(r) ==
    /\ req[r].pc = "auth_all"
    /\ IF IsSet(revoked_all[req[r].user])
       THEN Finish(r)
       ELSE req' = [req EXCEPT ![r].pc = "auth_session"]
    /\ UNCHANGED <<now, db, cache, invalidated, closed>>

CheckRevokedSession(r) ==
    /\ req[r].pc = "auth_session"
    /\ IF IsSet(revoked_session[req[r].sid])
       THEN Finish(r)
       ELSE req' = [req EXCEPT ![r].pc = "auth_user"]
    /\ UNCHANGED <<now, db, cache, invalidated, closed>>

LoadUser(r) ==
    /\ req[r].pc = "auth_user"
    /\ req' = [req EXCEPT ![r].pc = "authorized"]
    /\ UNCHANGED <<now, db, cache, invalidated, closed>>

ReadProfile(r) ==
    /\ At(r, "me", "authorized")
    /\ Finish(r)
    /\ UNCHANGED <<now, db, cache, invalidated, closed>>

-----------------------------------------------------------------------------
(***************************************************************************)
(* logout_all: bulk UPDATE of the user's unrevoked rows, marker, commit.   *)
(***************************************************************************)

\* mutation: only the session presented is selected
LogoutAllBegin_OneSession(r) ==
    /\ At(r, "logout_all", "authorized")
    /\ req' = [req EXCEPT ![r] = [@ EXCEPT !.pc = "all_update",
                                           !.rows = Live \cap {req[r].sid}]]
    /\ UNCHANGED <<now, db, cache, invalidated, closed>>

LogoutAllBegin(r) ==
    /\ At(r, "logout_all", "authorized")
    /\ req' = [req EXCEPT ![r] = [@ EXCEPT !.pc = "all_update",
                                           !.rows = Live \cap RowsOf(req[r].user)]]
    /\ UNCHANGED <<now, db, cache, invalidated, closed>>

\* One row of a statement over several: it is locked, once no other request has
\* it locked, and passed over if it does not match any more.
LockRow(r, s) ==
    /\ req[r].pc \in Locking
    /\ s \in req[r].rows \ req[r].done
    /\ Unlocked(r, {s})
    /\ req' = IF Matches(r, s) THEN [req EXCEPT ![r].done = @ \cup {s}]
                               ELSE [req EXCEPT ![r].rows = @ \ {s}]
    /\ UNCHANGED <<now, db, cache, invalidated, closed>>

LogoutAllMark(r) ==
    LET u == req[r].user IN
    /\ At(r, "logout_all", "all_update")
    /\ req[r].done = req[r].rows
    /\ revoked_all' = [revoked_all EXCEPT ![u] = Setex(RefreshTTL)]
    /\ invalidated' = invalidated \cup {s \in Issued : token[s].user = u}
    /\ req' = [req EXCEPT ![r].pc = "all_commit"]
    /\ UNCHANGED <<now, db, revoked_session, evicted, closed>>

LogoutAllCommit(r) ==
    LET rows == req[r].rows IN
    /\ At(r, "logout_all", "all_commit")
    /\ Revoke(rows)
    /\ closed' = closed \cup rows
    /\ Finish(r)
    /\ UNCHANGED <<now, accounts, token, replaced_by, cache, invalidated>>

-----------------------------------------------------------------------------
(***************************************************************************)
(* change_password to version v, when the current password presented       *)
(* matches the user loaded by get_current_user and v is not in the history *)
(* (longer than password_history_limit it is only with more versions):     *)
(* bulk DELETE of the user's rows, then the commit that also writes the    *)
(* hash and the history.  It sets no marker.                               *)
(***************************************************************************)
ChangePasswordBegin(r, v) ==
    /\ At(r, "change_password", "authorized")
    /\ v \notin password_history[req[r].user]
    /\ req' = [req EXCEPT ![r] = [@ EXCEPT !.pc = "pwd_delete",
                                           !.pwd = v,
                                           !.rows = RowsOf(req[r].user)]]
    /\ UNCHANGED <<now, db, cache, invalidated, closed>>

\* Wrong current password, or a new one from the history: 400.
ChangePasswordReject(r) ==
    /\ At(r, "change_password", "authorized")
    /\ Finish(r)
    /\ UNCHANGED <<now, db, cache, invalidated, closed>>

\* Deleting a row also nulls the references to it (ON DELETE SET NULL).
ChangePasswordCommit(r) ==
    LET rows == req[r].rows
        user == req[r].user
    IN
    /\ At(r, "change_password", "pwd_delete")
    /\ req[r].done = rows
    /\ UserUnlocked(user)
    /\ password' = [password EXCEPT ![user] = req[r].pwd]
    /\ password_history' = [password_history EXCEPT ![user] = @ \cup {req[r].pwd}]
    /\ row' = [s \in SessionIds |-> IF s \in rows THEN "deleted" ELSE row[s]]
    /\ replaced_by' = [s \in SessionIds |->
           IF s \in rows \/ replaced_by[s] \in rows THEN None ELSE replaced_by[s]]
    /\ closed' = closed \cup rows
    /\ Finish(r)
    /\ UNCHANGED <<now, token, cache, invalidated>>

-----------------------------------------------------------------------------
(***************************************************************************)
(* Failures, and the clock.                                                *)
(***************************************************************************)

\* mutation: a rotation that the database refuses waits instead of failing
CommitRefused_NotRotation(r) ==
    /\ \/ /\ At(r, "logout", "logout_commit")
          /\ \E s \in req[r].rows : row[s] = "deleted"
       \/ /\ At(r, "refresh", "reuse_update")
          /\ \E s \in req[r].rows \ req[r].done : row[s] = "deleted"
    /\ Finish(r)
    /\ UNCHANGED <<now, db, cache, invalidated, closed>>

\* The foreign key refuses the flush of a rotation, or the ORM's UPDATE of a row
\* that is gone matches no row (StaleDataError; not counted when it is sent for
\* several rows at once, then LockRow passes over the row): 500.
CommitRefused(r) ==
    /\ \/ /\ At(r, "refresh", "rotate_commit")
          /\ KeyCheckedAtOnce \/ row[req[r].sid] = "deleted"
       \/ /\ At(r, "logout", "logout_commit")
          /\ \E s \in req[r].rows : row[s] = "deleted"
       \/ /\ At(r, "refresh", "reuse_update")
          /\ \E s \in req[r].rows \ req[r].done : row[s] = "deleted"
    /\ Finish(r)
    /\ UNCHANGED <<now, db, cache, invalidated, closed>>

\* PostgreSQL ends a deadlock by aborting the transaction of one request: 500.
DeadlockAbort(r) ==
    /\ Deadlocked(r)
    /\ Finish(r)
    /\ UNCHANGED <<now, db, cache, invalidated, closed>>

\* The request dies at any await, or its commit is refused: the database
\* transaction is rolled back, what was written to Redis stays.
Fail(r) ==
    /\ req[r].pc # "idle"
    /\ Finish(r)
    /\ UNCHANGED <<now, db, cache, invalidated, closed>>

\* allkeys-lru: any marker may go when Redis is at maxmemory.
EvictMarker ==
    /\ Evictions
    /\ \/ \E s \in SessionIds : /\ IsSet(revoked_session[s])
                                /\ revoked_session' = [revoked_session EXCEPT ![s] = 0]
                                /\ evicted' = evicted \cup {s}
                                /\ UNCHANGED revoked_all
       \/ \E u \in Users : /\ IsSet(revoked_all[u])
                           /\ revoked_all' = [revoked_all EXCEPT ![u] = 0]
                           /\ evicted' = evicted \cup
                                  {s \in invalidated : token[s].user = u}
                           /\ UNCHANGED revoked_session
    /\ UNCHANGED <<now, db, req, invalidated, closed>>

Tick ==
    /\ now < MaxTime
    /\ now' = now + 1
    /\ UNCHANGED <<db, cache, req, invalidated, closed>>

\* decode_access_token or decode_refresh_token refuses an expired token: 401.
RejectExpired(r, s) ==
    /\ req[r].pc = "idle"
    /\ s \in Issued
    /\ AccessExp(s) <= now \/ RefreshExp(s) <= now
    /\ UNCHANGED vars

-----------------------------------------------------------------------------
Begin(r) ==
    \/ \E u \in Users : LoginSelect(r, u)
    \/ \E s \in SessionIds :
          \/ RefreshDecode(r, s)
          \/ LogoutSelect(r, s)
          \/ RejectExpired(r, s)
          \/ \E op \in {"me", "logout_all", "change_password"} \cap Guarded :
                Authenticate(r, s, op)

Continue(r) ==
    \/ \E s \in SessionIds :
          LoginIssue(r, s) \/ RotateIssue(r, s) \/ ReuseMark(r, s) \/ LockRow(r, s)
    \/ \E rehash \in BOOLEAN : LoginCommit(r, rehash)
    \/ RefreshReject(r) \/ RefreshReplayed(r) \/ RefreshAccept(r) \/ RotateCommit(r)
    \/ ReuseSelect(r) \/ ReuseUpdate(r) \/ ReuseCommit(r)
    \/ LogoutMark(r) \/ LogoutCommit(r)
    \/ CheckRevokedAll(r) \/ CheckRevokedSession(r) \/ LoadUser(r) \/ ReadProfile(r)
    \/ LogoutAllBegin(r) \/ LogoutAllMark(r) \/ LogoutAllCommit(r)
    \/ \E v \in Passwords : ChangePasswordBegin(r, v)
    \/ ChangePasswordReject(r) \/ ChangePasswordCommit(r)
    \/ CommitRefused(r) \/ DeadlockAbort(r)

Next ==
    \/ \E r \in Requests : Begin(r) \/ Continue(r) \/ Fail(r)
    \/ EvictMarker
    \/ Tick

Spec == Init /\ [][Next]_vars

\* The event loop goes on with every request it has begun, Redis and PostgreSQL
\* answer, and PostgreSQL queues those that wait for a row, so that other requests
\* cannot overtake a waiting one for ever.  Beginning a request, failing and the
\* clock are not fair.
FairSpec == Spec /\ \A r \in Requests : SF_vars(Continue(r))

-----------------------------------------------------------------------------
(***************************************************************************)
(* Properties that hold however requests interleave and fail.              *)
(***************************************************************************)

\* A session that a committed rotation, logout, logout-all, replay detection or
\* password change has closed is never live again, whatever snapshots other
\* requests hold.
ClosedSessionsStayClosed ==
    \A s \in closed : row[s] \in {"revoked", "deleted"}

\* A refresh that begins after its session was closed never gets as far as
\* making a new token pair (refresh_tokens, the checks before the rotation).
ClosedSessionsMintNothing ==
    \A r \in Requests : At(r, "refresh", "rotate") \/ At(r, "refresh", "rotate_commit")
                           => ~ req[r].barred

\* Once a marker for its session or its user is written, no request that begins
\* later gets through get_current_user with an access token issued before, as long
\* as neither token of the session has expired and Redis has not evicted a marker
\* of it.  (logout_all's marker lives as long as a refresh token: what is accepted
\* when access tokens outlive refresh tokens is named here, and what evictions do.)
InvalidatedTokensRefused ==
    \A r \in Requests :
        LET s == req[r].sid IN
        req[r].pc = "authorized" /\ req[r].barred =>
            \/ now >= AccessExp(s)
            \/ now >= RefreshExp(s)
            \/ s \in evicted

\* A session with a successor is revoked, its successor's row exists, belongs to
\* the same user and family, was verified with the same password and is not
\* older: rotation never crosses users and leaves no dangling reference, also
\* when a password change deletes rows under it.
Lineage ==
    \A s \in SessionIds :
        LET t == replaced_by[s] IN
        t # None => /\ row[s] = "revoked"
                    /\ row[t] \in {"live", "revoked"}
                    /\ token[t].user = token[s].user
                    /\ token[t].family = token[s].family
                    /\ token[t].pwd = token[s].pwd
                    /\ token[s].iat <= token[t].iat

\* No request touches an account but the one whose credentials it presented: the rows
\* it opens, revokes or deletes and the markers it writes are of that user, and so is
\* the password it changes.  A replay closes a family that it knows by name only.
RequestsStayInAccount ==
    [][\A r \in Requests : req[r].pc # "idle" /\ req'[r] # req[r] =>
          LET u == IF req[r].op = "login" THEN req[r].user ELSE token[req[r].sid].user IN
          /\ \A s \in SessionIds :
                /\ row'[s] # row[s] => token'[s].user = u
                /\ revoked_session'[s] # revoked_session[s] => token[s].user = u
          /\ \A v \in Users :
                \/ v = u
                \/ password'[v] = password[v] /\ revoked_all'[v] = revoked_all[v]]_vars

\* Every request is answered: waiting for rows that another request has locked,
\* or for rows that have vanished, never blocks one for ever.
RequestsFinish == \A r \in Requests : req[r].pc # "idle" ~> req[r].pc = "idle"

-----------------------------------------------------------------------------
(***************************************************************************)
(* Properties that hold when requests run one at a time, and what makes    *)
(* one of them fail when they overlap.                                     *)
(***************************************************************************)

\* Rotation keeps at most one session of a family live.
OneLiveSessionPerFamily ==
    \A s, t \in Live : token[s].family = token[t].family => s = t

\* A rotation of a session that was revoked after the request had selected it.
StaleRotation(r) == RotateCommit(r) /\ row[req[r].sid] = "revoked"

\* With any number of requests in flight, a family forks at such a rotation and
\* nowhere else: while it has one live session at most, no other step opens a second
\* one (refresh_tokens selects without a lock, revokes by primary key).
ForksOnlyAtStaleRotations ==
    [][OneLiveSessionPerFamily /\ (\A r \in Requests : ~ StaleRotation(r))
          => OneLiveSessionPerFamily']_vars

\* Sessions behave as the ledger says: closed is final, a rotation closes a live
\* session and opens its only successor, a login opens a family of its own.
Ledger == INSTANCE SessionLedger WITH
    status <- [s \in SessionIds |->
                  IF row[s] \in {"revoked", "deleted"} THEN "closed" ELSE row[s]],
    family <- [s \in SessionIds |-> IF s \in Issued THEN token[s].family ELSE None]

ImplementsLedger == Ledger!Spec

\* A live session was opened with the user's current password.
LiveSessionsMatchPassword ==
    \A s \in Live : token[s].pwd = password[token[s].user]

\* When the answer "Session has been invalidated." is committed, no session of
\* the replayed token's family is live.
ReplayClosesFamily ==
    [][\A r \in Requests : ReuseCommit(r) =>
          \A s \in Live' : token'[s].family # token[req[r].sid].family]_vars

\* When logout-all is committed, no family that existed when its marker was
\* written is live.
LogoutAllClosesFamilies ==
    [][\A r \in Requests : LogoutAllCommit(r) =>
          \A s \in Live' : token'[s].user = req[r].user =>
                               token'[s].family \notin invalidated]_vars

-----------------------------------------------------------------------------
(***************************************************************************)
(* What the documentation and the tests say, and the code does not do.     *)
(***************************************************************************)

\* get_current_user would accept this session's access token now.
Accepted(s) ==
    /\ s \in Issued
    /\ now < AccessExp(s)
    /\ ~ IsSet(revoked_all[token[s].user])
    /\ ~ IsSet(revoked_session[s])

\* The access token that a login returns is accepted.
LoginIsUsable ==
    [][\A r \in Requests : (\E rehash \in BOOLEAN : LoginCommit(r, rehash)) =>
          \A s \in SessionIds : s = req[r].new /\ req[r].iat = now => Accepted(s)']_vars

\* A refresh that was accepted returns its new pair, unless the row of the session
\* has been deleted meanwhile: the database refuses no other rotation.
AcceptedRotationsCommit ==
    [][\A r \in Requests : CommitRefused(r) /\ At(r, "refresh", "rotate_commit") =>
          row[req[r].sid] = "deleted"]_vars

=============================================================================
