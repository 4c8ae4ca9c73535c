# EduHub: TLA+ specifications and proofs

EduHub (`src/`) is an academic administration system: a FastAPI service over
PostgreSQL and Redis (`src/api`) and a React single-page client (`src/ui`). This
directory holds TLA+ modules translated from that code, the TLC configurations that
check small instances of them, and TLAPS proofs of what holds for every instance.
`PROJECT.json` maps every definition to the lines it models and lists the hazards.

```
tlc -config MCAuthOverlaps_rotation.cfg MCAuthOverlaps     # a run
tlapm AuthSessionsProofs.tla                               # the proofs of a module
```

## 1. The system

| Component (source under `src/`) | State | Operations | Here |
|---|---|---|---|
| Session authentication (`api/app/auth/service.py`, `dependencies.py`, `jwt.py`) | `refresh_sessions` rows; Redis markers `auth:revoked_session:*`, `auth:revoked_all:*`; the tokens clients hold | login, refresh, logout, logout-all, change-password, the check of an access token | `AuthSessions`, `AuthOverlaps`, `SessionLedger`, proofs |
| Enrolment applications (`api/app/services/application_service.py`) | `enrollment_applications`, `students` | submit, review, reject, approve | `Applications`, proofs |
| Credentials and accounts (`auth/service.py`, `auth/validators.py`, `models/user.py`) | hash, failed-login counter, lock, password history, roles | register, failed login, assign role | not modelled |
| Courses, enrolments, grades (`services/course_service.py`, `grade_service.py`, `student_service.py`, `academic/`) | `courses`, `course_enrollments`, `grades`, `grade_histories`, `students` | create and assign a course, enrol, record and correct a grade, edit a profile, GPA | `GradeBook`, proofs; not profiles and GPA |
| Permissions and access (`auth/permissions.py`, `academic/access.py`) | none (roles of a user) | who may read or change what | operators of `UiShell` and `GradeBook` |
| Rate limiting (`security/rate_limit.py`, `middleware/api_route_rate_limit.py`) | Redis counters with an expiry | count and refuse | not modelled |
| UI token client (`ui/src/lib/api.ts`, `store/auth-store.ts`, the hooks that sign in and out) | token pair in memory and in `localStorage`, one refresh in flight per tab | attach a token, refresh on 401, repeat, sign in, sign out, change the password | `UiSession`, proofs |
| UI navigation and access (`ui/src/routes/`, `routeTree.gen.ts`, `components/layout/AppLayout.tsx`, `RoleGate.tsx`) | location, the layout's state, the query of the profile, the forms that sign in and out | open, follow, redirect, register, sign in and out; which controls whom | `UiShell`, proofs |
| UI pages and their data (`ui/src/hooks/api.ts`, `ui/src/routes/_app.*.tsx`, `components/States.tsx`) | the query cache, the mutations in progress | mount, fetch, retry, write, invalidate | `UiWorkspace`, proofs |
| UI server rendering (`ui/src/server.ts`, `start.ts`, `lib/error-capture.ts`, `lib/error-page.ts`) | the import of the entry, one captured error | serve a page, catch an error, recover a swallowed one | `UiServer`, proofs |
| Input and URL gates, configuration | none | pure decisions on one input | not modelled |
| Audit trail, observability, HTTP wiring, schema and seed scripts, UI widgets, deployment | none of their own, or written with the operation they record | - | not modelled, see section 13 |

How they interact. Every protected request passes through `get_current_user`, which
decodes the access token, asks Redis for the two markers and selects the user; then
`require_permissions` compares the roles; then a service selects rows, decides, and
commits once. The client attaches the access token, and on a 401 posts the refresh
token once and repeats the request. The layout shows a page once the store has tokens
and a user; the page mounts queries, which share one cache, and its dialogs run
mutations, which invalidate parts of that cache. Redis is written by logout, logout-all and replay
detection *before* the database commits.

### What makes it hard

* **Interleaving.** A request is an asyncio task in one of several workers. It can be
  suspended at every `await`; between its SELECT and its commit others commit.
* **Stale snapshots.** Nothing is selected `FOR UPDATE` and no row has a version
  column. Decisions are made on the ORM's copy and written by primary key.
* **Two stores.** Redis is not part of the transaction: a failure between the two
  leaves a marker with a live row, or a counter without an expiry.
* **Locks.** Bulk statements and flushed updates hold row locks across awaits.
* **Time.** Tokens and markers expire by different clocks of different lengths.
* **Lost answers.** The client cannot tell a refresh that failed from one whose
  answer was lost; tabs share one `localStorage`.
* **Callbacks.** In a tab nothing runs in parallel, but an answer, an effect of React, a
  click and the unmounting of a component come in any order, and each finds the state
  the others left. On the rendering server all requests share one slot for errors.

`PROJECT.json` lists each hazard at its line with the properties that cover it.

### What makes each component correct

* Sessions: closed is final; a closed session mints nothing; rotation keeps one live
  successor in the family; revocation reaches the access tokens before they expire;
  password changes leave no session of the old password; no one touches another
  user's sessions; every request is answered.
* Applications: they follow the life cycle; at most one is open per applicant and
  program; a decision is final; who is enrolled is a student; approvals do not
  deadlock.
* Credentials: N failures lock the account, a lock always ends, recent passwords are
  refused, a user has the roles last assigned.
* Grades: at most one grade per enrolment; the history chains from each score to the
  next; only the course's teacher or a dean writes.
* Rate limits: how many requests pass in any window; a refused client is let in again.
* Token client: a tab replays no token it knows to be rotated; the name shown is the
  owner's; signing out closes the session.
* Navigation: redirections come to rest; what is offered is what the API permits.
* Pages: what a user has saved is what the page shows; reported as saved is shown; no
  form stays disabled.
* Rendering server: one import; no raw JSON error reaches a browser; a captured error is
  reported once, in time, and for the right request if nothing else failed.

## 2. Plan

| # | Module | Composes / refines | Status |
|---|---|---|---|
| 1 | `AuthSessions` | refines `SessionLedger` when requests are serial | checked, proved |
|   | `AuthOverlaps`: which requests have overlapped | history over 1 | checked, proved |
| 2 | `Applications` | | checked, proved |
| 3 | `GradeBook`: courses, enrolments, grades and their history | the snapshot-and-flush scheme of 2 | checked, proved |
| 4 | `UiServer` | | checked, proved |
| 5 | `UiSession`: tabs, interceptors, lost answers | composed with the server's sessions | checked, proved |
| 6 | `UiShell`: routes, effects, roles | compared with the permissions of the API | checked, proved |
| 7 | `UiWorkspace`: queries, mutations, invalidation | | checked, proved |
| 8 | `Credentials`: failed logins, lock, history, registration, role assignment | | open |
| 9 | `RateLimiter`: INCR and EXPIRE as two steps, crash between them; `src/api/SECURITY.md:14` calls its fixed window a sliding one | abstract limiter: at most 2 x limit in a window length | open |
| 10 | student profiles and GPA in `GradeBook` | | open |

There is one run per question, each of at most a few minutes. Every invariant, action
property and refinement of the passing runs has a theorem but `SomeoneProceeds` and the
liveness properties, for which the theorems of section 12 prove what they rest on. What
is open is modelling: rows 8 to 10.

## 3. Common modelling decisions

* **Steps.** An action is the code between two awaits at which another request can
  make a difference, so a request is a record in `req` with a program counter `pc`.
  `Begin(r)` starts one in a free slot; `Continue(r)` is any later step; `Fail(r)` ends
  one at any await with a rollback (a crash, a disconnect, a refused commit).
* **Database.** READ COMMITTED. `autoflush=False` and `expire_on_commit=False`
  (`db/session.py:32-37`), so writes reach PostgreSQL at `flush()` or `commit()`, and
  objects keep the values they were loaded with. An UPDATE by primary key writes only
  the changed columns; if the row is gone SQLAlchemy raises `StaleDataError` and the
  request ends. A bulk UPDATE or DELETE takes its snapshot in one step, then locks and
  re-checks the rows one by one, each a step of its own, in any order, and holds them
  until it commits; a request waits while another holds the row it has come to. Requests
  that wait for each other in a circle are what PostgreSQL's deadlock detection finds:
  the transaction of one of them is aborted.
* **Redis.** SETEX and GET are single steps, visible at once and never rolled back.
* **Refusals.** 4xx answers that change nothing are actions that leave the state
  unchanged. They keep deadlock checking on: a state where nothing is enabled is one
  where requests really hang.
* **Data.** Users, ids and programs are model values. A password is its version: the
  hash matches a presented password exactly when the versions are equal. Text, dates,
  notes, user agents and audit rows are left out.
* **Bounds.** `SessionIds`, `AppIds`, `MaxTime`, `MaxPassword`, `MaxHistory`,
  `MaxSessions`, `MaxWrites` and `Requests` are the bounds. A request that will need a
  new id begins only while one is left for it, so the bound never makes a begun request
  hang. In the UI modules a variable (`layout`, `scope`), chosen in `Init` and never
  changed, says which accounts, pages, roles or how many forms and mutations a behaviour
  is about; a run covers several such choices, a theorem all of them.
* **History variables** (`invalidated`, `evicted`, `closed`; `contested`, `doubled`; the
  three of `AuthOverlaps`; `strays`, `overtaken`; `firedAt`, `armed`, `disturbed`; `owed`)
  record what happened; no guard reads them. The same holds for the fields `barred`,
  `crossed` and `swallowed`.

## 4. `AuthSessions`

| Model | Code |
|---|---|
| `row[s]`: unissued, live, revoked, deleted | a `refresh_sessions` row and its `revoked_at` |
| `token[s]` (user, family, iat, pwd) | the claims of the pair and the columns that never change; `pwd` is which password the login verified |
| `replaced_by[s]` | `replaced_by_session_id` |
| `password[u]`, `password_history[u]` | `users.password_hash`; the `password_history` rows |
| `revoked_session`, `revoked_all` | the expiry of the Redis keys |
| `LoginSelect`, `LoginIssue`, `LoginCommit` | `login` and `_issue_session_tokens`, once the password has been accepted; `rehash`: whether the hash is written again |
| `RefreshDecode`, then `RefreshReject`, `RefreshReplayed` or `RefreshAccept`; `RotateIssue`, `RotateCommit` | `refresh_tokens` |
| `ReuseSelect`, `ReuseMark`, `ReuseUpdate`, `ReuseCommit` | `_handle_refresh_reuse`, `_revoke_family` |
| `LogoutSelect`, `LogoutMark`, `LogoutCommit` | `logout`, which decodes the token itself and consults no marker |
| `Authenticate`, `CheckRevokedAll`, `CheckRevokedSession`, `LoadUser`, `ReadProfile` | `get_current_user` (a decode, two GETs, a SELECT) and the endpoint behind it |
| `LogoutAll*`, `ChangePassword*` | `logout_all`, `change_password` |
| `LockRow`, `DeadlockAbort` | one row of a statement over several; PostgreSQL's deadlock detection |
| `CommitRefused`, `Fail` | a vanished row or the foreign key; any other failure |
| `EvictMarker`, `Tick` | Redis `allkeys-lru`; the clock |

Three things here are easily left out. A login whose hash has outdated parameters writes
`password_hash` again (`auth/service.py:226-227`), from the password presented and over
whatever the row holds by then, so it can undo a password change that it overlapped. A
statement over several rows locks them one by one. And a rotation sends the UPDATE that
names the successor before the successor's INSERT: with the foreign key of the schema,
which is checked at once, the database refuses it. The constant `KeyCheckedAtOnce` is that
check. TRUE is the schema as it is, and then every rotation ends in `CommitRefused`
(section 11). FALSE is a deferred check, or the INSERT first, and includes every behaviour
of the other setting, as a rotation may fail like any request; the passing runs use it, as
otherwise what the code says about replays, families and successors would never be
exercised. The theorems hold for both.

`SessionLedger` is the abstract promise: a login opens a session in a family of its
own, a rotation closes a live session and opens its successor in one step, anything
else only closes. The refinement maps revoked and deleted rows to `closed`.

`AuthOverlaps` extends `AuthSessions` with three history variables, to say what the
promises that hold for one request at a time become when requests overlap: `opened[r]`,
the sessions opened since `r` selected the rows it is going to close; `outdated`, the
logins whose user has got another password since it was verified; and `overlapped`: the
sessions opened by such a login or while a request that changed the password of their
user was under way, those rotated from them, and, when such a login writes its hash back,
those there are by then, which belong to the password that it undoes. Every step of
`AuthSessions` is a step of `AuthOverlaps` that also writes them (`OverlapNext` is `Next`
and an equation for each of them), so nothing is excluded. Sessions whose rows are deleted
are dropped from the record: nothing is claimed of them.

### Runs

| Run | Instance | Shows |
|---|---|---|
| `auth_expiry` | 2 requests, 2 sessions, 1 user, access TTL 2, refresh TTL 1, clock 0..2, evictions | `TypeOK`, `InvalidatedTokensRefused` |
| `auth_rotation` | `OverlapSpec`: 2 requests, 3 sessions, 1 user, no clock | `ClosedSessionsStayClosed`, `ClosedSessionsMintNothing`, `Lineage`, `SurvivorsAreNewer`, `PasswordsMatchButForOverlaps`, `ForksOnlyAtStaleRotations` |
| `auth_serial` | 1 request, 3 sessions, 2 users, clock 0..1 | `ImplementsLedger`, `RequestsStayInAccount` |
| `auth_liveness` | 2 requests, 2 sessions, `FairSpec` | `RequestsFinish` |
| `rotation_refused`, `login_after_logout_all` | 1 request | the divergences of section 11 |

Why the bounds are enough. Two requests exhibit every pairwise race of read, lock and
commit, and deadlock with each other; the properties relate at most one presented session,
its successor and one replay or fork, hence three sessions. `auth_expiry` takes settings
that nothing protects: access tokens that outlive refresh tokens and the marker of a
logout-all, and markers that Redis evicts; the clock passes each expiry, at the instant of
the marker's and after it. Two users matter only for isolation, so they appear in the
serial run. One password change separates old from new. `Guarded` says which operations
behind `get_current_user` the requests of a run are for.

**What holds under any settings.** `InvalidatedTokensRefused`: once a marker for its
session or its user is written, no request that begins later gets through
`get_current_user` with an access token issued before, unless the token itself or the
refresh token of its session has expired or Redis has evicted a marker of it. The two
exceptions are real: `config.py` does not compare the lifetimes, and logout-all's marker
lives as long as a refresh token; the compose file runs Redis with `allkeys-lru`.

**One request at a time, and many.** `ImplementsLedger` holds because requests do not
overlap in `auth_serial` (failures still happen); with a second slot TLC refutes it. The
promises of the endpoints below are of the same kind, and are theorems for one request at
a time:

| One request at a time | How a second one breaks it | What holds for any number |
|---|---|---|
| `ReplayClosesFamily` | a refresh of the successor commits between `ReuseSelect` and `ReuseCommit` and survives | `SurvivorsAreNewer` |
| `LogoutAllClosesFamilies` | a refresh that selected its row before logout-all commits a successor that stays live | `SurvivorsAreNewer` |
| `LiveSessionsMatchPassword` | a login that verified the old password commits after `ChangePasswordCommit`, or writes the old hash back | `PasswordsMatchButForOverlaps` |
| `OneLiveSessionPerFamily` | two refreshes of one token select its row before either commits | `ForksOnlyAtStaleRotations` |

`SurvivorsAreNewer`: of the family or the user, only sessions opened after the request
selected its rows are live when it commits; none that existed before escapes, however
other requests rotate, revoke or delete rows under it. `PasswordsMatchButForOverlaps`: a
row that is not deleted has the current password unless its opening overlapped a change
of it, or an overlapping login undid the change. `ForksOnlyAtStaleRotations`: a family
that has at most one live session gets a second one by no other step than the commit of a
rotation whose session was revoked after the request had selected it. (If the foreign key
is checked at once there is no such commit.) `RequestsStayInAccount` is of any number of
requests too; it is checked with two users and one request, and proved in general.

**Fairness.** `FairSpec` is strong fairness of `Continue(r)` for each slot: the event
loop resumes every task whose awaited call has been answered, Redis and PostgreSQL
answer, and PostgreSQL queues the transactions that wait for a row lock, so a waiter is
not overtaken for ever, and ends a deadlock by aborting one of them. Weak fairness would
not do, since other requests can take and release the lock for ever. Nothing is assumed of
arrivals, failures or the clock.

### Proofs (`AuthSessionsProofs`, `SessionLedger`)

For any sets of users, slots and sessions, any TTLs, settings and bounds:

| Theorem | Says | Rests on |
|---|---|---|
| `TypeCorrect` | `[]TypeOK` | `TypeInv`: ids drawn by two requests differ and are unissued until committed; selected rows were issued |
| `ClosedStaysClosed` | `[]ClosedSessionsStayClosed` | `ClosedInv` |
| `ClosedMintsNothing` | `[]ClosedSessionsMintNothing` | `ClosedInv`: a barred refresh presents a closed session; a replay's session is revoked or deleted; a logout that finds its row live will revoke it |
| `LineageCorrect` | `[]Lineage` | `LineageInv`, `ClockInv`: a rotation's tokens are not older than those it replaces |
| `InvalidatedRefused` | `[]InvalidatedTokensRefused` | `RefusedInv`, `ClockInv`: every invalidated session has a marker that outlives one of its tokens, or has lost one to Redis (`Covered`); writing a marker again never shortens it |
| `OnlyNewerSurvive` | `SurvivorsAreNewer` | `SnapshotInv`, `LockInv` |
| `PasswordsMatchInOverlaps` | `[]PasswordsMatchButForOverlaps` | `SnapshotInv`, `LockInv`, `LoginsInv` |
| `AccountsKeptApart` | `RequestsStayInAccount` | `OwnedInv`: a family belongs to the user of the session it is named after, and selected rows are the request's user's |
| `ForksAtStaleRotations` | `ForksOnlyAtStaleRotations` | `OwnedInv`: a login opens a family that no session has |
| `LedgerSafe` | the ledger keeps one live session per family | `FamiliesRooted`: families are named after issued sessions, so a new one never collides |

None of the properties is inductive. `ClosedSessionsStayClosed`, for instance, does not
exclude a request that drew an id already issued and makes it live again; `TypeInv`
does. Each invariant is shown to hold initially and to be preserved with one step per
action. The assumptions are those declared in `AuthSessions` (`NoneAssumption`,
`TTLAssumption`, `BoundAssumption`, `SettingAssumption`), which TLC evaluates on every run.
No theorem but those for `Serial` assumes more of the settings.

*The ledger.* `LedgerButForStaleRotation` says for any number of requests in flight that
each step is a step of `SessionLedger`, with one exception, which it names: the commit of
a rotation whose session another request has revoked since it was selected. So that is
the only way in which the sessions depart from the ledger, whatever interleaves or fails.
`ForksAtStaleRotations` says the same of a family.

*One request at a time.* `LedgerImplemented`, `PasswordsMatch`, `ReplayCloses`,
`LogoutAllCloses`, and `OneLiveInFamily`, which is `LedgerSafe` carried over by the
refinement, are proved under the hypothesis of `auth_serial`, `Serial` (there are no two
request slots), for any users, sessions, TTLs, evictions and failures. `SerialInv` says
why: what a request has in its memory is still what is committed (`Current`: the session
it will rotate is live, the rows it will revoke or delete are the user's or family's live
ones, the password it has verified is the current one), and every live session has the
current password. Under `Serial` there is no stale rotation, which is the whole of the
refinement.

*Any number.* `SnapshotInv` is what remains of `Current`: what a request is going to close
(`Targets`: the live sessions of the family or the user, the undeleted ones for a password
change) is among the rows it has selected, or was opened since. It is inductive because
rows only go from live to closed and a deleted row does not come back (`RowsFinal`), and
that needs `LockInv`: `LogoutAllCommit` revokes what it has locked without looking, so a
row deleted meanwhile would be revived as a revoked one, did its lock not keep the others
out. That two requests never hold a lock on the same row, though each takes its rows one
by one, is part of it (`LocksStep`, `LockedRowsKept`). For passwords, `LoginsInv` adds that
a login which is not outdated has verified the current password. `ClosingSteps` lists the
steps by which a request comes to hold rows; the lemmas from `OneMoves` to
`DeletingCommit` say, once for all these proofs, who moves and what each commit does to
rows and tokens.

*Waiting.* `NoCircularWait` (for finitely many slots and sessions): a request that has
begun can go on or waits for rows that another has locked (`WaitsFor`), and in every set
of requests that all wait for each other one can go on. Rows locked one by one do make
such circles; `CirclesBreak` shows that each contains what PostgreSQL detects
(`Deadlocked`), so that a request of it is aborted, or someone who holds what the others
want and waits for nothing. The guards of the steps are listed in `CanContinue`; that no
step asks for less is `GuardsKept`. It needs `FlowInv` (at which step each operation can
be, with what in its memory: otherwise a request could be where no step of its own begins)
and `IdsInv` (an id is left for every request that may create a session: the bound
`SessionIds` holds up nothing that was begun). `RequestsGoForward`: each step of a request
leaves it fewer of its own, or marks, locks or passes over one more of the rows that it has
selected, and no step of another request sets it back.

## 5. `Applications`

| Model | Code |
|---|---|
| `app[i]` | an `enrollment_applications` row: applicant, program and term, status, reviewer, resulting student |
| `student` | users who have a `students` row (`students.user_id` is unique, so the row is named by its user) |
| `req[r].loaded`, `.row` | the ORM object as selected and as changed |
| `SubmitCount`, `SubmitRefuse`, `SubmitCommit` | `submit_application`: count the open ones, insert |
| `ReviewSelect`, `ReviewRefuse` | `update_status` up to its first write: permission, existence, self-review, closed, transition |
| `ReviewSave` | the commit of UNDER_REVIEW or REJECTED |
| `ApproveFlush`, `ApproveStudent`, `ApproveInsert`, `ApproveConflict`, `ApproveCommit` | approval: flush (locks the row), look for the student, insert one (may block on the unique key, then conflict), commit ENROLLED |
| `Flushed` | the UPDATE of the changed columns over whatever is committed now |

Run `applications`: two requests, two applications of one program, an applicant, a dean,
and an administrator (who may both submit and review). Two requests on one application
give every overlap of two decisions; two applications of one applicant give the race
for the students row and the double submission.

* `EnrolledIsStudent` holds in every interleaving, contested or not.
* `LifeCycle` and `OneOpenApplication` hold with their exceptions spelled out: the only
  way an application leaves its life cycle is that two requests had it loaded at a
  time (`contested`), the only way an applicant gets two open applications for a
  program is two submissions at a time (`doubled`) or such an overlap, which can reopen
  a closed one. So the missing lock and the missing unique key are the *only* causes.
* `SomeoneProceeds`: while a request is in flight, some request has a step that is not
  a failure. Approvals hold an application's lock while they wait for a students row,
  and never the other way round.

**Proofs** (`ApplicationsProofs`), for any users, programs, applications and slots:
`TypeCorrect`, `EnrolledCorrect`, `LifeCycleCorrect`, `OneOpenCorrect`. The invariant `Inv` says what is
in a reviewer's memory (`MemoryInv`: an open row, changed in status and reviewer only;
before a commit that inserts no student there is one), that result and status agree
(`RowInv`, `ResultInv`), and that the snapshot of an uncontested application is current
(`SnapshotInv`). `EnrolledIsStudent` alone is not inductive: an overwritten decision
must not tear status and student apart, which needs that an UPDATE never removes a
resulting student. `WriteRow` is the lemma about one UPDATE that both the invariant and
`LifeCycle` use. `OneOpenApplication` needs in addition what requests in flight may still
commit: a submission that has counted no open application, unless another of the same
applicant and program counted at the same time, finds none when it inserts (`SubmitInv`),
and a review of an uncontested application opens none that was closed (`OpenInv`).

`SomeoneProceeds` contains `ENABLED`, which the provers do not handle. `NoCircularWait` is
the same claim about the guards of the steps, written out in `CanContinue` (`GuardsKept`:
no step asks for less): for finitely many slots and ids, some request can go on while any
is in flight. `IdsInv` is what it needs of the bound on ids. `RequestsGoForward`: a request
has at most four steps, each leaves it fewer and no other request sets it back.

## 6. `GradeBook`

| Model | Code |
|---|---|
| `teacher[c]` | the `courses` row with code `c` (unique) and the user behind its `teacher_id` |
| `enrolled`, `grade[p]` | `course_enrollments` and `grades` rows, both unique per student and course |
| `history[p]` | the `grade_histories` rows of a grade in order of commit |
| `CourseCreate`, `CourseInsert`, `CourseCommit`; `CourseLoad`, `CourseFlush`, `CourseSave` | `create_course`; `update_course`, whose flush locks the row when the teacher changes |
| `EnrolSelect`, `EnrolAuthorize`, `EnrolCheck`, `EnrolInsert`, `EnrolCommit` | `enroll_student` |
| `GradeAuthorize`, `GradeCheck`, `GradeInsert`, `GradeCommit` | `create_grade` |
| `UpdateSelect`, `UpdateAuthorize`, `UpdateSave` | `update_grade` |
| `MayWrite` | `_ensure_grade_authorization` and the equal condition of `enroll_student` |
| `Refused` | 400, 403, 409, or the integrity error of an INSERT that lost the race for a key |

Run `grade_book`: three requests on one student, one course and its grade, with two
teachers between whom a dean passes the course. Keys never interact, so one pair shows
every race for it; three requests are two corrections and a reassignment. Two scores
and two letters let a correction change one, both or neither; `MaxHistory` 3 is a first
record and two corrections.

* `GradesAreOfEnrolled` and `OneInitialRecord`: checks made on snapshots, and the unique
  keys, are enough to keep grades, enrolments, courses and histories in step.
* `OnlyEntitledWrite`: a request writes only if its user was entitled at some time since
  it began. (Not at the commit: the course may have passed on in between.)
* `HistoryExplainsGrade` and `UpdateTakesEffect` hold for grades that no two requests
  had loaded at a time; section 11 says what happens otherwise.

Refusals at the very first SELECT (404, and a role that is missing) are not steps here:
they change nothing, and requests can always begin.

**Proofs** (`GradeBookProofs`), for any users, students, courses, scores, letters and
slots, and any `MaxHistory`: every property the run checks (`TypeCorrect`,
`GradesCorrect`, `InitialRecordCorrect`, `HistoryCorrect`, `EntitledCorrect`,
`UpdateCorrect`). They assume that the role sets are sets of users and that `None` is no
user, student, course, score or grade. None of the properties is inductive. The
invariant `Inv` adds to them what a request knows about the committed rows at each step
(`RecordOK`: for instance that between its INSERT and its commit there is no grade, that
from `GradeCheck` on the student is enrolled, and that whoever may write to the course
now is marked as entitled), that no two requests hold the same new key (`PendingInv`:
without it two initial records could be committed), and that a request which loaded an
uncontested grade is alone with it and has it as committed (`SnapshotInv`: without it
neither the history nor the correction need fit the row). Each handler's step has its
lemma; those that only move a request on share `MoveInv`. `NoCircularWait` and
`RequestsGoForward`: a request that has begun can go on, or waits for one that holds the
uncommitted row it needs and can go on itself; and it only goes forward.

## 7. `UiServer`

| Model | Code |
|---|---|
| `entry`, `imports` | `serverEntryPromise`: none, loading, ready or failed; how often the import was begun |
| `lastCapturedError`, `events` | the one slot of `error-capture.ts`; errors whose global event is still to fire |
| `Fetch`, `ImportSettles`, `CallHandler`, `EntryRejected` | `getServerEntry` and what awaits it |
| `HandlerResolves`, `ErrorMiddleware`, `HandlerRejects` | what the framework's handler does with a request; `errorMiddleware` inside it; the catch around it |
| `EventFires`, `Record`, `Consumed`, `Emptied` | `record` and `consumeLastCapturedError` |
| `ReturnResponse`, `ReadBody`, `BodyUnreadable`, `PassBody`, `ReplaceBody` | `normalizeCatastrophicSsrResponse`, which awaits the text of the response between its checks, and the catch around it |
| `IsCatastrophic` | `isCatastrophicSsrErrorBody` |

What the handler answers is a choice: a page, the page of the middleware, or JSON with a
status of 500 or above, which the application meant or which h3 makes of an error it has
swallowed. The server cannot see which: it parses the body and tests its keys, `message`,
`unhandled` and `status`. A body is the set of what those tests can find out about it
(`JsonFacts`), and `IsCatastrophic` is the tests, in the source's form; that an error lies
behind a body (`swallowed`) is history, which they do not read. So both wrong guesses are
in the model: an application's answer that reads like a swallowed error is replaced, and a
swallowed error with another key or status is passed on as it is. The text may also not
be had (`BodyUnreadable`): the catch of `fetch` answers with the error page, and the slot
keeps what it has. An error is named after the request that raised it.

Run `ui_server`: two requests, one error raised outside requests, TTL 1 and a clock to 3;
bodies that do not parse, that are the known form, or that miss it in one respect. Two
requests overwrite, take and miss each other's errors; the third error is one that
belongs to nobody; the clock passes the TTL.

* `ImportedOnce` holds however many requests arrive before the entry is there.
* `AnswersFit`: no client gets a swallowed error in the form that the comment in `server.ts`
  quotes; an answer is replaced only if there was none, if it reads like that, or if it
  cannot be read; and who gets the error page has something logged for it. It does not
  say that an application's answer is never mistaken for a swallowed error, as it is.
* `ReportsAreSound` says what the slot does guarantee: no error is reported twice, and a
  wrong one is at most TTL old. `UndisturbedNamesItself` says when the report names the
  right error; with anything in between it need not, and the client's page is right all
  the same.
* Liveness (`RequestsAnswered`) assumes that the import and the handler settle and that
  the event loop runs what is ready; nothing is assumed of arrivals, events and the clock.
  Requests end, so deadlock is not checked.

**Proofs** (`UiServerProofs`), for any number of requests, any bodies, TTL and clock: every
safety property of the run. `IInv` adds that the error of a request which is still with
the handler is nowhere yet (`NotRaisedYet`), that an error is in one place at a time: to be
captured, in the slot, or reported (`OnePlace`; without it `ReportedOnce` is not
inductive), what has been logged at each step (`Progress`), and that the slot carries the
time of its event (`SlotDated`). Of `RequestsAnswered` the part without fairness is
proved: a request in flight can be served or waits for an import under way
(`NoneWaitsForNothing`), and goes forward only, at most five steps to its answer, while a
settled import stays settled (`RequestsGoForward`).

## 8. `UiSession`

| Model | Code |
|---|---|
| `memory[t]`, `storage` | the zustand store of a tab; its copy under `sep.auth`, read on load and written whole by every `set` |
| `call[t][c]` | an axios request: its operation, the token attached to it, `_retry` |
| `refresh[t]` | `refreshPromise` and the request behind it |
| `status`, `family`, `owner`, `rotated`, `expired`, `refused`, `locked` | the server: session rows, those that name a successor, expired access tokens, the two Redis markers |
| `Send`, `AnswerUnauthorized`, `Unauthorized`, `Refreshed`, `NotRefreshed`, `NoRefreshToken` | the interceptors and `performRefresh` |
| `Login`, `LoginDone`, `ProfileDone`; `Logout`, `LogoutAll`, `SignedOut`; `ChangePassword` | `useLogin` (tokens first, then the profile), `useLogout` (clears whatever the answer), `useLogoutAll`, `useChangePassword` |
| `SelectRefresh`, `AnswerRefresh` (`Found`, `Rotate`, `Replay`, `Missing`) | `refresh_tokens`: the SELECT without a lock, and the commit by what it has found |
| `AnswerLogin`, `AnswerLogout`, ... | the other handlers of `AuthSessions`, one request in one step |
| `Load`, `orphans`, `SelectOrphan`, `AnswerOrphan` | a page load; refreshes of which no page waits for the answer, but which the server may still handle |

What follows an `await` in one callback is one step: all calls that wait for a refresh
continue in the turn in which it settles, and each of them sets `refreshPromise` to
null before anything else can run. On the server a refresh is two steps, so two tabs with
one token, or a tab and the refresh of the page it had before, overlap there as in the
code: both find the row live, and both rotate it. As in `AuthSessions` with
`KeyCheckedAtOnce` FALSE, the rotation commits; that the database refuses it instead, as the
present schema makes it do, is one of the failures that `NotRefreshed` takes. The other
requests are one step each, as `AuthSessions` has their interleavings. So nothing is
claimed here of families or of the ledger: those are claims about the server.

Run `ui_session`: either one tab with two calls and two accounts, or two tabs with one
call each and one account; two sessions. One tab with two calls has every race for the
one refresh; two tabs have every race through `localStorage`, and what two accounts add
to those is left to the proofs; two sessions are a session and its successor, or two
sign-ins. Beside sign-in and the profile each such behaviour has some of the other
operations (queries and sign-out, logout-all, or a password change); two tabs that only
sign in and refresh get a third session, so that both can rotate one. Answers are lost,
access tokens expire and pages reload at any time. Tabs, calls and accounts are
interchangeable, and no liveness is checked. `MaxSessions` ends a run, so deadlock is not
checked.

* `HonestReplays`: the server treats a tab's session as a replay because it was rotated, or
  rotates it a second time, only if two tabs have held it or the answer of its rotation
  reached no page. The single refresh in flight does its work, also for 401s that arrive
  late.
* `IdentityMatches`: the user in the store is the owner of its tokens. The exception,
  `overtaken`, is an answer stored over a sign-out or another sign-in.
* `SignOutClosesSession`: a sign-out that meets an expired token closes the session that
  the refresh has just opened, not the one it was made with.

What the model shows besides, and no property forbids: an answer to a refresh or a
profile that arrives after the sign-out signs the tab in again (this is `overtaken`);
a late answer to a sign-out wipes a newer sign-in; logout-all makes the next sign-in
fail, as its marker refuses the new token; a transient failure of a refresh signs the
user out; a wrong password at the login page, where there is no refresh token, reloads
the page; an older tab overwrites the tokens of a newer one; two tabs that refresh at a
time fork their family; after a password change the tab works until its access token
expires and is then signed out.

**Proofs** (`UiSessionProofs`): for any numbers of tabs, calls, users and sessions and any
layouts, every property of the run. The argument has three layers, each inductive given
those before it:

* `Inv`: sessions are issued in order, families are rooted in older sessions and have
  one owner (`RowInv`); whatever a call, a refresh or a store names was issued and fits the
  answer it came with (`CallsInv`, `RefreshInv`, `StoreInv`). Each step opens a session,
  rotates one or closes some (`RowStep`) and keeps what was known of the others
  (`RowsKept`).
* `HonestInv`, for `HonestReplays`: a session on its way to a tab has been touched by no
  one (`LoginsInv`, `RenewalsInv`), one that is no stray has a single holder
  (`OneHolder`), storage names it only while its tab does (`StorageHeld`), what is
  refreshed for no page is a stray (`OrphansStray`), and whoever still holds a session
  after its rotation has the answer of that rotation (`RotatedKnown`). Without the last
  nothing excludes that a second 401 refreshes with the old token. With one holder there
  is one refresh of the session between its SELECT and its commit, which is why the two
  steps do no harm.
* `SignOutsInv`, for `SignOutClosesSession`: a sign-out that nothing crossed carries the
  tokens its tab holds, and once answered they are closed or have expired again.

## 9. `UiShell`

| Model | Code |
|---|---|
| `loc`, `target` | the route that matches, the `redirect` of the login page |
| `Parent`, `Outlets`, `Shown` | `routeTree.gen.ts`; which components render an `Outlet` |
| `hydrated`, `owner`, `user`, `ready`, `me`, `synced` | the store, the layout's state, its query `["me"]` |
| `forms`, `present` | sign-ins, registrations and sign-outs in progress: the latest, and one begun before it; whether the page that began the latest is still mounted |
| `IndexEffect`, `LoginEffect`, `LayoutRedirects`, `LayoutReady`, `Sync`, `MeBegins` | effects of React, each a step of its own |
| `Submit*`, `Registered`, `LoggedIn`, `ProfileRetried`, `ProfileArrives`, `FormFails`, `LoggedOut`, `AfterLogout` | the login and register pages and the menu; callbacks given to `mutate` run only while their component is mounted (`There`) |
| `Controls`, `NavRoles` | `hasAnyRole`, `RoleGate` and `NAV` |
| `RolePermissions`, `Required`, `Permitted` | `auth/permissions.py` and what the routers ask for |
| `SessionLost`, `RoleAssigned` | a refresh that fails anywhere; an administrator |

A request outlives its page, and `isPending` is per component, so forms overlap: once
`useLogin` has stored the tokens the app opens, and the user may sign out, and another sign
in, while the sign-in's GET `/me` is still on its way. `useLogin` then stores that profile
whatever the tokens are by now (`ProfileArrives` asks nothing of `owner`); if the GET is
answered 401 instead, it is repeated with the tokens of whoever has signed in since
(`ProfileRetried`), or, with none to refresh, the page is loaded anew (`FormFails`).

Run `ui_shell`: two accounts; students and those of one other role, for each other role
(one of them a student who also teaches), with one form at a time, and students and deans
with two; a public, a guarded and a nested location to open by URL. Two accounts tell a
stale profile from one's own; the role sets are those the rules tell apart; two forms are
the late one and the one that crosses it.

* `NameFits`: content is never shown under another account's name, unless an answer was
  stored over what it does not belong to (`overtaken`). There are two ways to that. Someone
  signs in over a sign-in at the register page, which has no guard: the profile that the
  first sign-in's query left is stored over the new one. Or the profile that a sign-in asked
  for arrives after its sign-out: the next account to sign in is shown under the old name,
  as the layout asks for no profile while it has a user.
* `AccessAgrees`: compares two tables kept in two languages. Its exceptions are real:
  everyone is offered to apply; students who are also staff see no grades of their own;
  and the detail pages never show, because their parent routes render no `Outlet`, so
  editing a student, editing a course and enrolling cannot be reached, nor can the hooks
  only they use. Roles that changed since the sign-in are stale until the next one.
* `ComesToRest`: left alone, the redirections of three components end. Two exceptions
  leave "Loading workspace": a browser that denies `localStorage`, and a profile that
  cannot be had. Effects and answers are fair (React flushes effects after each
  render, requests end or time out); users, role assignments and lost sessions are not.

**Proofs** (`UiShellProofs`), for any accounts, addresses and nonempty sets of roles:
`TypeOK`, `NameFits` and `AccessAgrees`. The name of the user in the store alone is not
inductive: the query of the profile must belong to the owner of the tokens too, as it is
copied into the store later (`UserOwned`, `QueryOwned`); a form need not, since what it
stores out of turn is recorded when it is stored. `AccessAgrees` is proved for every set of
roles where the run tries five: permissions of a set are those of its members
(`RolesPermit`, `Permitters`), and for every control but the excepted ones the navigation
leads to a page that offers it.

`ComesToRest` is proved but for its last step, from fairness to its conclusion.
`RedirectsEnd`: every effect and every answer lowers `Rank`, a natural number made of what
is left to the forms in progress, to the redirections once no form changes the account (one
at most), to the query of the profile and to the layout; a navigation begins the last two
anew and so counts for more than both. `NoDeadEnd`: where none of the guards of the effects
and answers holds (`Pending`), the tab is `AtRest`. It rests on `QueryInv`: whoever has no
tokens has no query, and what the layout has copied from an answered query is in the
store. Without it a layout that has stored its data could still be without a user.

## 10. `UiWorkspace`

| Model | Code |
|---|---|
| `server[r]` | how often a resource of the API has been written |
| `cache[k]` | a query of react-query: data, error, the request in flight and what the server has read for it |
| `writes[i]` | the mutations in progress, each with the queries it waits for and those of them that were restarted since |
| `Queries`, `Main`, `Table`, `InRow` | what each page mounts; the query whose error takes the place of the table; dialogs that live in its rows |
| `Writes`, `Invalidates`, `Awaits` | what a route writes, the key its hook invalidates, whether `onSuccess` returns that promise |
| `Visit`, `LoadGrades`, `Focus`, `Retry`, `Collect` | mounting, `refetchOnWindowFocus`, "Try again", `gcTime` |
| `Read`, `Arrives`, `Fails` | a request: the server reads, the answer comes, or it fails for good |
| `Enabled`, `Submit` and the dialogs | `isPending`, which disables the button of the component that calls the hook |
| `Apply`, `Refused`, `Succeeds` | a mutation: the server writes, then `onError` or `onSuccess` |
| `Restarted`, `WithoutWaits` | what the end or the restart of a request means to the mutations that wait for it |

The library is modelled from how the code uses it, with the semantics of the version in
the lock file: `staleTime` 0, an invalidation cancels and repeats the requests of
mounted queries that have data, and starts none for others. Three retries are one
request that reads late. Mutations overlap: a dialog can be closed, or the page left,
while its mutation is pending; each row has a dialog with a `useMutation` of its own, and
so has a page that is opened again. Whoever waits for a request that is cancelled waits
for the one that replaces it; but the version in use hands this on once, so that a second
restart tells the first waiter that the request is over (`Restarted`).

Run `ui_workspace`: a dean with two queries (the applications and the grades of a
course), every page but the students', and two writes by anyone. Two mutations at a time
on the pages of either query, and one that the pages of both may overtake. Reviews report
before their refetch and grades after it, so the two queries stand for both kinds of hook;
two writes are two own ones, or an own one and one of someone else around it.

* `OwnWritesShown`: a page at rest shows at least the user's own writes. The exceptions:
  the refetch failed (the dashboard then shows old data without a word); the request was
  left in flight by an earlier page, and the invalidation does not restart it (`late`:
  visit a page, leave it, save on another, return, and the old request is joined);
  students, whom no mutation invalidates although an approval makes one.
* `ReportedIsShown`: to whom still has the form, a course or a grade is reported as saved
  once it is on the page, whatever other mutations overlap. The further exception is a
  wait that the second restart of its request has ended: by two other mutations of the
  same list, or by "Try again", within one refetch.
* `PendingEnds`: buttons disabled by a pending mutation are enabled again, though
  refetches fail or are asked for anew and the user leaves. Requests are fair; no user is.

Not stated as properties: an error of the main query takes the table away and with it
the dialogs in its rows, so the result of a review under way is never shown; the dialog
of a row is filled once and keeps the values it was first shown with.

**Proofs** (`UiWorkspaceProofs`), for any of the queries and pages, either kind of user
and any numbers of writes and of mutations at a time: `TypeOK`, `OwnWritesShown` and
`ReportedIsShown`. `Inv` adds what is under way: an answer already read by the server
reflects the own writes, unless the request was sent before them and not restarted
(`ReadsInv`); no one owes more than was written (`OwedInv`); and a mutation whose component
is there is of the page that shows and, while it is refetching, waits for all that the page
shows (`WriteInv`), so that what ends the last wait is the answer that the page shows. Of
`PendingEnds` the part without fairness is proved: the queries that a pending mutation
waits for have a request in flight, whatever is visited, retried or collected meanwhile
(`WaitsAreInFlight`), and a mutation only goes forward: each of its steps takes it on, each
answer it waits for, good or bad, ends that wait, nothing makes it wait for more, and of
two restarts of a request the second ends the wait (`MutationsGoForward`), so that no one
waits for ever for a request that is asked for again and again.

## 11. Where the code and its documentation disagree

Two are runs that TLC ends with a counterexample; `PROJECT.json` quotes the text.

| Run | What happens |
|---|---|
| `rotation_refused` | A login and a refresh of its token. The flush of the rotation sends the UPDATE that names the successor (`auth/service.py:341-342`, 364) before the INSERT of it, as the mapper knows no relationship between the two, and the foreign key is not deferrable: PostgreSQL refuses the UPDATE, and the client gets a 500. No test calls `/refresh`. |
| `login_after_logout_all` | The logout-all marker is not compared with `iat`, so tokens of later logins are refused until it expires. |

With the key deferred, or the INSERT sent first, rotations commit, and then two refreshes
of one token that select its row before either commits both rotate it, and no replay is
noticed. `ForksOnlyAtStaleRotations` says that this is the only way to a fork.

The following can be had from the modules too:

* *Logout-all misses a refresh.* `LogoutAllClosesFamilies` with a second request (section
  4); the survivor is newer than the logout (`SurvivorsAreNewer`). The endpoint
  "invalidates all active sessions" (`api/v1/auth/router.py:147`).
* *Logout after a refresh.* With the still valid access token of a rotated session
  `LogoutCommit` closes that session only; the successor stays live, although the
  endpoint "revokes the active access/refresh token family" (`router.py:127`).
* *A login undoes a password change.* With a hash of outdated parameters, a login that
  selected the user before the change and commits after it writes the old hash back
  (`auth/service.py:226-227`); the old password is good again, the new one is not.
  `PasswordsMatchButForOverlaps` holds but for the sessions this leaves behind.
* *A closed decision is overwritten.* Two reviewers load an application under review;
  the later commit overwrites the earlier, final decision, because `ReviewSave` writes by
  primary key what it has loaded (`application_service.py:119-120`). `LifeCycle` holds but
  for this case.
* *A torn grade.* Two corrections load a grade; as only changed columns are written, the
  score of one is stored with the letter of the other (`grade_service.py:106`).
  `UpdateTakesEffect` and `HistoryExplainsGrade` hold but for this case.
* *A marker is gone before its tokens.* With access tokens that outlive refresh tokens
  (allowed by `core/config.py`), or after an eviction, tokens of closed sessions are
  accepted again: the exceptions of `InvalidatedTokensRefused`, both of which
  `auth_expiry` reaches.
* Replay detection marks unrevoked rows only; access tokens of rotated ancestors are
  accepted until they expire.
* In the UI: the exceptions of sections 8 to 10.


## 12. What is only model-checked

Every safety property, action property and refinement of the passing runs is proved:
`ImplementsLedger` for one request at a time, as the run checks it, the others for any
number. What stays with TLC:

* the liveness properties `RequestsFinish`, `RequestsAnswered`, `ComesToRest` and
  `PendingEnds`. Fairness speaks of `ENABLED`, which is out of the provers' reach. What
  they rest on is proved: that nothing waits for something that cannot come
  (`NoCircularWait`, `NoneWaitsForNothing`, `NoDeadEnd`, `WaitsAreInFlight`) and that every
  step goes forward (`RequestsGoForward`, `RedirectsEnd`, `MutationsGoForward`);
* `SomeoneProceeds`, which says with `ENABLED` what `NoCircularWait` says with the guards.
  That the guards are all a step needs can be read off the actions, whose other conjuncts
  only give the next values; `GuardsKept` proves that they are no weaker than the steps';
* the two runs of section 11 that end with a counterexample.

## 13. What is not modelled

* In `AuthSessions`: failed passwords, lockout, inactive and deleted users, the limit of
  the password history, registration, role assignment; rate limits in front of the
  endpoints. Redis losing its connection is covered by `Fail`.
* In `Applications` and `GradeBook`: the operations that only read; profile updates of a
  student and the GPA; notes, dates, audit rows.
* In the UI: what is typed into forms, filters, search and wording; toasts but for when
  they come; the widget library (shadcn/ui: markup and styles; `sidebar.tsx`,
  `carousel.tsx`, `chart.tsx` and `menubar.tsx`, its largest files, are imported by no
  page). The detail pages of a student and a course and the hooks only they use
  (`useStudent`, `useUpdateStudent`, `useCourse`, `useUpdateCourse`, `useEnrollStudent`,
  `useGradesForStudent`) appear in `UiShell` as pages that never show; `UiWorkspace` has
  no states in which they run.
* Not at all: the gates on URLs, uploads and search text and the validation of settings
  (pure decisions on one input); logging, metrics and health probes (they change no
  state); HTTP wiring and headers, error texts, OpenAPI; migrations and the seed script
  (their constraints are guards of the actions that commit); containers and CI.
