---------------------------- MODULE Applications ----------------------------
(***************************************************************************)
(* Enrolment applications of the EduHub API: an applicant submits one, a   *)
(* dean or administrator takes it under review and rejects or approves it, *)
(* and approval makes the applicant a student                              *)
(* (src/api/app/services/application_service.py).                          *)
(*                                                                         *)
(* Requests interleave at every await.  A SELECT sees what is committed;   *)
(* the ORM remembers the row as it was loaded and an UPDATE by primary key *)
(* writes only the columns whose value the request has changed.  approve   *)
(* flushes in the middle, so it holds the lock of its row until it commits.*)
(***************************************************************************)
EXTENDS Naturals, FiniteSets

CONSTANTS
    Users,
    Submitters,     \* users with the permission academic:application:submit
    Reviewers,      \* users with the permission academic:application:review
    Programs,       \* pairs of a program_code and an intake_term, stripped
    AppIds,         \* the uuids that applications draw from (bounds them)
    Requests,       \* how many requests are in flight at once
    None

ASSUME PeopleAssumption == Submitters \subseteq Users /\ Reviewers \subseteq Users
ASSUME NoneAssumption == None \notin Users /\ None \notin AppIds

VARIABLES
    app,       \* committed enrollment_applications rows, None where there is none
    student,   \* users who have a committed students row
    req,       \* what each request slot is doing
    contested, \* history: applications that two requests had loaded at a time
    doubled    \* history: applicants and programs submitted twice at a time

vars == <<app, student, req, contested, doubled>>

Status == {"PENDING", "UNDER_REVIEW", "APPROVED", "REJECTED", "ENROLLED"}
Closed == {"REJECTED", "ENROLLED"}

\* A student's id is the user's, since students.user_id is unique.
Row == [applicant: Users, program: Programs, status: Status,
        reviewer: Users \cup {None}, student: Users \cup {None}]
ASSUME RowAssumption == None \notin Row

Steps == {"idle", "submit", "save", "approve", "student", "insert", "enroll",
          "enroll_new"}

\* loaded: the row as the request selected it; row: as it has changed it.
Request == [pc: Steps, user: Users \cup {None}, program: Programs \cup {None},
            id: AppIds \cup {None}, loaded: Row \cup {None}, row: Row \cup {None}]

Idle == [pc |-> "idle", user |-> None, program |-> None, id |-> None,
         loaded |-> None, row |-> None]

TypeOK ==
    /\ app \in [AppIds -> Row \cup {None}]
    /\ student \subseteq Users
    /\ req \in [Requests -> Request]
    /\ \A r \in Requests : req[r].pc = "submit" =>
          req[r].user \in Users /\ req[r].program \in Programs
    /\ \A r \in Requests : req[r].pc \notin {"idle", "submit"} =>
          /\ req[r].id \in AppIds
          /\ app[req[r].id] \in Row
          /\ req[r].loaded \in Row /\ req[r].row \in Row
    /\ contested \subseteq AppIds
    /\ doubled \subseteq Users \X Programs

\* Whoever has registered has a students row; staff accounts have none.
Init ==
    /\ app = [i \in AppIds |-> None]
    /\ student \in SUBSET Users
    /\ req = [r \in Requests |-> Idle]
    /\ contested = {}
    /\ doubled = {}

-----------------------------------------------------------------------------
Submitted == {i \in AppIds : app[i] # None}
Finish(r) == req' = [req EXCEPT ![r] = Idle]
Submitting == {q \in Requests : req[q].pc = "submit"}

\* mutation: approved applications and those under review are not counted
OpenOf_PendingOnly(u, p) ==
    {i \in Submitted : /\ app[i].applicant = u /\ app[i].program = p
                       /\ app[i].status = "PENDING"}

\* count_open_application
OpenOf(u, p) ==
    {i \in Submitted : /\ app[i].applicant = u /\ app[i].program = p
                       /\ app[i].status \in {"PENDING", "UNDER_REVIEW", "APPROVED"}}

\* The ORM's UPDATE of a loaded row.
Flushed(current, loaded, row) ==
    [c \in DOMAIN current |-> IF row[c] # loaded[c] THEN row[c] ELSE current[c]]

\* Requests at work on an application, and those whose flush has locked it.
Holding(i) == {q \in Requests : req[q].id = i}
AppLocked(i) ==
    \E q \in Holding(i) : req[q].pc \in {"student", "insert", "enroll", "enroll_new"}

\* A students row for u is inserted, but not committed: the unique key blocks others.
InsertPending(u) ==
    \E q \in Requests : req[q].pc = "enroll_new" /\ req[q].row.applicant = u

-----------------------------------------------------------------------------
(***************************************************************************)
(* submit_application.  A request begins only while an id is left for it.  *)
(***************************************************************************)
SubmitCount(r, u, p) ==
    /\ req[r].pc = "idle"
    /\ Cardinality(Submitting) < Cardinality(AppIds \ Submitted)
    /\ u \in Submitters
    /\ OpenOf(u, p) = {}
    /\ req' = [req EXCEPT ![r] = [Idle EXCEPT !.pc = "submit", !.user = u, !.program = p]]
    /\ doubled' = IF \E q \in Submitting : req[q].user = u /\ req[q].program = p
                  THEN doubled \cup {<<u, p>>} ELSE doubled
    /\ UNCHANGED <<app, student, contested>>

\* "An open application already exists.": 409
SubmitRefuse(r, u, p) ==
    /\ req[r].pc = "idle"
    /\ u \in Submitters
    /\ OpenOf(u, p) # {}
    /\ UNCHANGED vars

\* mutation: the applicant is not set
SubmitCommit_Anonymous(r, i) ==
    /\ req[r].pc = "submit"
    /\ i \notin Submitted
    /\ app' = [app EXCEPT ![i] = [program |-> req[r].program, status |-> "PENDING",
                                  reviewer |-> None, student |-> None]]
    /\ Finish(r)
    /\ UNCHANGED <<student, contested, doubled>>

SubmitCommit(r, i) ==
    /\ req[r].pc = "submit"
    /\ i \notin Submitted
    /\ app' = [app EXCEPT ![i] = [applicant |-> req[r].user, program |-> req[r].program,
                                  status |-> "PENDING", reviewer |-> None,
                                  student |-> None]]
    /\ Finish(r)
    /\ UNCHANGED <<student, contested, doubled>>

-----------------------------------------------------------------------------
(***************************************************************************)
(* update_status: select the application, check, then save or approve.     *)
(***************************************************************************)

\* mutation: a closed application may be decided again
Allowed_Reopen(current, new) ==
    \/ current = "PENDING" /\ new = "UNDER_REVIEW"
    \/ current # "PENDING" /\ new \in {"REJECTED", "APPROVED"}

Allowed(current, new) ==
    \/ current = "PENDING" /\ new = "UNDER_REVIEW"
    \/ current = "UNDER_REVIEW" /\ new \in {"REJECTED", "APPROVED"}

ReviewSelect(r, v, i, new) ==
    /\ req[r].pc = "idle"
    /\ v \in Reviewers /\ i \in Submitted
    /\ app[i].applicant # v
    /\ Allowed(app[i].status, new)
    /\ req' = [req EXCEPT ![r] =
           [Idle EXCEPT !.pc = IF new = "APPROVED" THEN "approve" ELSE "save",
                        !.user = v, !.id = i, !.loaded = app[i],
                        !.row = [app[i] EXCEPT !.status = new, !.reviewer = v]]]
    /\ contested' = IF Holding(i) # {} THEN contested \cup {i} ELSE contested
    /\ UNCHANGED <<app, student, doubled>>

\* 403, 404, 409 or 400
ReviewRefuse(r, v, i, new) ==
    /\ req[r].pc = "idle"
    /\ \/ v \notin Reviewers
       \/ i \notin Submitted
       \/ i \in Submitted /\ (app[i].applicant = v \/ ~ Allowed(app[i].status, new))
    /\ UNCHANGED vars

ReviewSave(r) ==
    LET i == req[r].id IN
    /\ req[r].pc = "save"
    /\ ~ AppLocked(i)
    /\ app' = [app EXCEPT ![i] = Flushed(@, req[r].loaded, req[r].row)]
    /\ Finish(r)
    /\ UNCHANGED <<student, contested, doubled>>

\* Flush of status APPROVED: takes the lock; nobody else sees it.
ApproveFlush(r) ==
    /\ req[r].pc = "approve"
    /\ ~ AppLocked(req[r].id)
    /\ req' = [req EXCEPT ![r].pc = "student"]
    /\ UNCHANGED <<app, student, contested, doubled>>

\* mutation: no students row is created
ApproveStudent_Forgotten(r) ==
    /\ req[r].pc = "student"
    /\ req' = [req EXCEPT ![r].pc = "enroll"]
    /\ UNCHANGED <<app, student, contested, doubled>>

ApproveStudent(r) ==
    /\ req[r].pc = "student"
    /\ req' = [req EXCEPT ![r].pc =
                   IF req[r].row.applicant \in student THEN "enroll" ELSE "insert"]
    /\ UNCHANGED <<app, student, contested, doubled>>

ApproveInsert(r) ==
    LET u == req[r].row.applicant IN
    /\ req[r].pc = "insert"
    /\ u \notin student
    /\ ~ InsertPending(u)
    /\ req' = [req EXCEPT ![r].pc = "enroll_new"]
    /\ UNCHANGED <<app, student, contested, doubled>>

\* mutation: a conflict is noticed with a row that is not committed only
ApproveConflict_Pending(r) ==
    /\ req[r].pc = "insert"
    /\ InsertPending(req[r].row.applicant)
    /\ Finish(r)
    /\ UNCHANGED <<app, student, contested, doubled>>

\* Another request has created the students row meanwhile: IntegrityError, 500.
ApproveConflict(r) ==
    /\ req[r].pc = "insert"
    /\ req[r].row.applicant \in student
    /\ Finish(r)
    /\ UNCHANGED <<app, student, contested, doubled>>

ApproveCommit(r) ==
    LET i == req[r].id
        u == req[r].row.applicant
        enrolled == [req[r].row EXCEPT !.status = "ENROLLED", !.student = u]
    IN
    /\ req[r].pc \in {"enroll", "enroll_new"}
    /\ app' = [app EXCEPT ![i] = Flushed(@, req[r].loaded, enrolled)]
    /\ student' = IF req[r].pc = "enroll_new" THEN student \cup {u} ELSE student
    /\ Finish(r)
    /\ UNCHANGED <<contested, doubled>>

\* The request dies at any await or its commit is refused: rolled back.
Fail(r) ==
    /\ req[r].pc # "idle"
    /\ Finish(r)
    /\ UNCHANGED <<app, student, contested, doubled>>

-----------------------------------------------------------------------------
Begin(r) ==
    \/ \E u \in Users, p \in Programs : SubmitCount(r, u, p) \/ SubmitRefuse(r, u, p)
    \/ \E v \in Users, i \in AppIds, new \in Status :
          ReviewSelect(r, v, i, new) \/ ReviewRefuse(r, v, i, new)

Continue(r) ==
    \/ \E i \in AppIds : SubmitCommit(r, i)
    \/ ReviewSave(r)
    \/ ApproveFlush(r) \/ ApproveStudent(r) \/ ApproveInsert(r)
    \/ ApproveConflict(r) \/ ApproveCommit(r)

Next == \E r \in Requests : Begin(r) \/ Continue(r) \/ Fail(r)

Spec == Init /\ [][Next]_vars

-----------------------------------------------------------------------------
Moves == {<<"PENDING", "UNDER_REVIEW">>, <<"UNDER_REVIEW", "REJECTED">>,
          <<"UNDER_REVIEW", "ENROLLED">>}

\* An enrolled applicant is a student: the row that the application names as its
\* result is the applicant's and is committed, however approvals of several
\* applications of one applicant interleave and fail.
EnrolledIsStudent ==
    \A i \in Submitted : app[i].status = "ENROLLED" =>
        app[i].student = app[i].applicant /\ app[i].applicant \in student

\* Unless two reviewers had it loaded at a time, an application only moves along
\* PENDING, UNDER_REVIEW and one decision, its applicant becomes its student with
\* the decision to enrol and not without it, and who is named as reviewer is not
\* the applicant.
LifeCycle ==
    [][\A i \in Submitted \ contested' : app'[i] # app[i] =>
          /\ <<app[i].status, app'[i].status>> \in Moves
          /\ (app'[i].student # None) <=> (app'[i].status = "ENROLLED")
          /\ app'[i].reviewer \in Users \ {app'[i].applicant}]_vars

\* An applicant has one open application for a program, unless two were submitted
\* at a time or two reviews of one of them overlapped (which may reopen it).
OneOpenApplication ==
    \A i, j \in Submitted :
        /\ i # j
        /\ app[i].applicant = app[j].applicant /\ app[i].program = app[j].program
        /\ {app[i].status, app[j].status} \cap Closed = {}
        =>  \/ <<app[i].applicant, app[i].program>> \in doubled
            \/ \E k \in contested : /\ app[k].applicant = app[i].applicant
                                    /\ app[k].program = app[i].program

\* Requests never wait for each other in a circle: approvals lock an application
\* before they insert the students row that another may be inserting.
SomeoneProceeds ==
    (\E r \in Requests : req[r].pc # "idle") => \E r \in Requests : ENABLED Continue(r)

=============================================================================
