---------------------------- MODULE AuthOverlaps ----------------------------
(***************************************************************************)
(* AuthSessions with a record of which requests have overlapped, to say    *)
(* what the guarantees of one request at a time become when any number of  *)
(* them interleave.  The record is history: it is written by every step    *)
(* and no step reads it, so the behaviours are those of AuthSessions.      *)
(* Sessions whose row is gone are dropped from it.                         *)
(***************************************************************************)
EXTENDS AuthSessions

VARIABLES
    opened,     \* per request: sessions opened since it selected the rows to close
    outdated,   \* logins whose user has got another password since it was verified
    overlapped  \* sessions that requests overlapping a password change have left

overlapVars == <<now, password, password_history, row, token, replaced_by,
                 revoked_session, revoked_all, req, invalidated, evicted, closed,
                 opened, outdated, overlapped>>

\* Where a request holds the rows that it is going to revoke or delete.
Closing == {"reuse_mark", "reuse_update", "all_update", "all_commit", "pwd_delete"}

OverlapTypeOK ==
    /\ opened \in [Requests -> SUBSET SessionIds]
    /\ outdated \subseteq Requests
    /\ overlapped \subseteq SessionIds

OverlapInit ==
    /\ Init
    /\ opened = [r \in Requests |-> {}]
    /\ outdated = {}
    /\ overlapped = {}

Opening == Issued' \ Issued

Deleted == {s \in SessionIds : row[s] = "deleted"}

RecordOpened ==
    opened' = [r \in Requests |->
        IF req[r].pc \in Closing /\ req'[r].pc \in Closing
        THEN (opened[r] \cup Opening) \ Deleted' ELSE {}]

RecordOutdated ==
    outdated' = {r \in Requests :
        /\ req[r].op = "login" /\ req'[r].op = "login"
        /\ r \in outdated \/ password'[req[r].user] # password[req[r].user]}

\* A login that was outdated when it committed, a rotation of an overlapped session,
\* what was opened while the request that changes the password was under way, and,
\* when an outdated login writes its hash back, all sessions of the user: those of
\* the password that it undoes.
RecordOverlapped ==
    overlapped' = (overlapped
        \cup {s \in Opening : \E r \in Requests :
                 /\ req[r].new = s
                 /\ r \in outdated \/ req[r].sid \in overlapped}
        \cup {s \in Issued : \E r \in Requests :
                 /\ token[s].user = req[r].user
                 /\ \/ ChangePasswordCommit(r) /\ s \in opened[r]
                    \/ LoginCommit(r, TRUE) /\ r \in outdated}) \ Deleted'

OverlapNext == Next /\ RecordOpened /\ RecordOutdated /\ RecordOverlapped

OverlapSpec == OverlapInit /\ [][OverlapNext]_overlapVars

-----------------------------------------------------------------------------
\* A replay that closes its family, a logout-all and a password change leave no
\* session live that existed when the request selected what to close: those of the
\* family or of the user that are live at the commit were opened meanwhile, whatever
\* other requests have rotated, revoked or deleted under it (_revoke_family,
\* logout_all, change_password).
SurvivorsAreNewer ==
    [][\A r \in Requests :
          /\ ReuseCommit(r) =>
                 {s \in Live' : token'[s].family = token[req[r].sid].family}
                     \subseteq opened[r]
          /\ LogoutAllCommit(r) \/ ChangePasswordCommit(r) =>
                 {s \in Live' : token'[s].user = req[r].user} \subseteq opened[r]]_overlapVars

\* The rows a user has are of the current password, but for sessions whose opening
\* overlapped a change of it, those there when a login that overlapped the change has
\* put the old password back, and their successors: login and rotation do not check
\* the password again, login may write its hash over a newer one (service.py:226-227),
\* and change_password deletes what it found when it began.
PasswordsMatchButForOverlaps ==
    \A s \in Issued : row[s] # "deleted" =>
        token[s].pwd = password[token[s].user] \/ s \in overlapped

=============================================================================
