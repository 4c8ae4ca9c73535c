------------------------------ MODULE GradeBook ------------------------------
(***************************************************************************)
(* Courses, enrolments and grades of the EduHub API: deans create courses  *)
(* and assign teachers, deans and the course's teacher enrol students,     *)
(* record one grade for each and correct it, and every score written is    *)
(* kept in a history (src/api/app/services/course_service.py,              *)
(* src/api/app/services/grade_service.py).                                 *)
(*                                                                         *)
(* Requests interleave at every await, at READ COMMITTED.  An INSERT that  *)
(* meets an uncommitted row with the same unique key waits for it; an      *)
(* UPDATE by primary key writes only the columns a request has changed,    *)
(* compared with the row as it loaded it.                                  *)
(***************************************************************************)
EXTENDS Naturals, FiniteSets, Sequences

CONSTANTS
    Users,
    Deans,       \* roles DEAN or ADMIN: every permission on courses and grades
    Lecturers,   \* role TEACHER: grade:write:assigned and enrollment:manage
    Teachers,    \* users with a teachers row, to whom a course can be assigned
    Students,    \* students rows
    Courses,     \* course codes (unique), stripped
    Scores, Letters,
    Requests,    \* how many requests are in flight at once
    MaxHistory,  \* bound on the history entries of a grade
    None

ASSUME RolesAssumption ==
    Deans \subseteq Users /\ Lecturers \subseteq Users /\ Teachers \subseteq Users
ASSUME NoneAssumption == None \notin Users \cup Scores \cup Students \cup Courses
ASSUME MaxHistoryAssumption == MaxHistory \in Nat

VARIABLES
    teacher,   \* whose course it is, None while there is no committed courses row
    enrolled,  \* committed course_enrollments rows, all ACTIVE
    grade,     \* committed grades rows, named by their unique key
    history,   \* committed grade_histories rows of a grade, in order of commit
    req,       \* what each request slot is doing
    contested  \* history: grades that two requests had loaded at a time

vars == <<teacher, enrolled, grade, history, req, contested>>
rows == <<teacher, enrolled, grade, history>>

Pairs == Students \X Courses
Grade == [score: Scores, letter: Letters]
ASSUME NoGradeAssumption == None \notin Grade
Entry == [previous: Scores \cup {None}, new: Scores]

Steps == {"idle", "course_insert", "course_commit", "course_flush", "course_save",
          "enrol_auth", "enrol_check", "enrol_insert", "enrol_commit",
          "grade_check", "grade_insert", "grade_commit",
          "update_auth", "update_save"}

\* loaded: the teacher or the grade as selected; new: what the request wants it to
\* be.  entitled: since the request began there was a time when its user was
\* allowed to write to the course.
Request == [pc: Steps, user: Users \cup {None}, student: Students \cup {None},
            course: Courses \cup {None}, loaded: Teachers \cup Grade \cup {None},
            new: Teachers \cup Grade \cup {None}, entitled: BOOLEAN]

Idle == [pc |-> "idle", user |-> None, student |-> None, course |-> None,
         loaded |-> None, new |-> None, entitled |-> FALSE]

CourseSteps == {"course_insert", "course_commit", "course_flush", "course_save"}
UpdateSteps == {"update_auth", "update_save"}
GradeSteps == {"grade_check", "grade_insert", "grade_commit"}

TypeOK ==
    /\ teacher \in [Courses -> Teachers \cup {None}]
    /\ enrolled \subseteq Pairs
    /\ grade \in [Pairs -> Grade \cup {None}]
    /\ history \in [Pairs -> Seq(Entry)]
    /\ req \in [Requests -> Request]
    /\ \A r \in Requests :
          /\ req[r].pc # "idle" => req[r].user \in Users /\ req[r].course \in Courses
          /\ req[r].pc \in CourseSteps => req[r].new \in Teachers
          /\ req[r].pc \notin CourseSteps \cup {"idle"} => req[r].student \in Students
          /\ req[r].pc \in GradeSteps \cup UpdateSteps => req[r].new \in Grade
          /\ req[r].pc \in UpdateSteps => req[r].loaded \in Grade
    /\ contested \subseteq Pairs

Init ==
    /\ teacher = [c \in Courses |-> None]
    /\ enrolled = {}
    /\ grade = [p \in Pairs |-> None]
    /\ history = [p \in Pairs |-> <<>>]
    /\ req = [r \in Requests |-> Idle]
    /\ contested = {}

-----------------------------------------------------------------------------
Graded == {p \in Pairs : grade[p] # None}
PairOf(r) == <<req[r].student, req[r].course>>
Finish(r) == req' = [req EXCEPT ![r] = Idle]
Move(r, pc) == req' = [req EXCEPT ![r].pc = pc]

\* viewer_is_dean_or_admin or teacher_teaches_course; _ensure_grade_authorization
MayWrite(u, c) == u \in Deans \/ (u \in Lecturers /\ teacher[c] = u)

\* A column of a row that is written back.
Changed(current, loaded, new) == IF new # loaded THEN new ELSE current

\* mutation: the letter is kept when the score changes
Flushed_ScoreFirst(current, loaded, new) ==
    IF new.score # loaded.score THEN [current EXCEPT !.score = new.score]
    ELSE [current EXCEPT !.letter = new.letter]

\* The ORM's UPDATE of a loaded grade.
Flushed(current, loaded, new) ==
    [c \in DOMAIN current |-> Changed(current[c], loaded[c], new[c])]

\* A row with this unique key is inserted but not committed.
CoursePending(c) == \E q \in Requests : req[q].pc = "course_commit" /\ req[q].course = c
EnrolPending(p) == \E q \in Requests : req[q].pc = "enrol_commit" /\ PairOf(q) = p
GradePending(p) == \E q \in Requests : req[q].pc = "grade_commit" /\ PairOf(q) = p

\* A request's flush of another teacher has locked the course.
CourseLocked(c) ==
    \E q \in Requests : /\ req[q].pc = "course_save" /\ req[q].course = c
                        /\ req[q].new # req[q].loaded

\* Requests that have loaded a grade to change it.
Updating(p) == {q \in Requests : req[q].pc \in UpdateSteps /\ PairOf(q) = p}

-----------------------------------------------------------------------------
(***************************************************************************)
(* create_course and update_course; only the teacher of a course matters.  *)
(***************************************************************************)
CourseCreate(r, u, c, t) ==
    /\ req[r].pc = "idle"
    /\ u \in Deans
    /\ req' = [req EXCEPT ![r] = [Idle EXCEPT !.pc = "course_insert", !.user = u,
                                              !.course = c, !.new = t]]
    /\ UNCHANGED <<rows, contested>>

CourseInsert(r) ==
    LET c == req[r].course IN
    /\ req[r].pc = "course_insert"
    /\ teacher[c] = None /\ ~ CoursePending(c)
    /\ Move(r, "course_commit")
    /\ UNCHANGED <<rows, contested>>

CourseCommit(r) ==
    /\ req[r].pc = "course_commit"
    /\ teacher' = [teacher EXCEPT ![req[r].course] = req[r].new]
    /\ Finish(r)
    /\ UNCHANGED <<enrolled, grade, history, contested>>

CourseLoad(r, u, c, t) ==
    /\ req[r].pc = "idle"
    /\ u \in Deans /\ teacher[c] # None
    /\ req' = [req EXCEPT ![r] =
           [Idle EXCEPT !.pc = "course_flush", !.user = u, !.course = c,
                        !.loaded = teacher[c], !.new = t]]
    /\ UNCHANGED <<rows, contested>>

CourseFlush(r) ==
    /\ req[r].pc = "course_flush"
    /\ req[r].new # req[r].loaded => ~ CourseLocked(req[r].course)
    /\ Move(r, "course_save")
    /\ UNCHANGED <<rows, contested>>

\* Whoever gets the course is entitled to what is being written meanwhile.
CourseSave(r) ==
    LET c == req[r].course
        t == Changed(teacher[c], req[r].loaded, req[r].new)
    IN
    /\ req[r].pc = "course_save"
    /\ teacher' = [teacher EXCEPT ![c] = t]
    /\ req' = [q \in Requests |->
           IF q = r THEN Idle
           ELSE IF req[q].course = c /\ req[q].user = t /\ t \in Lecturers
                THEN [req[q] EXCEPT !.entitled = TRUE] ELSE req[q]]
    /\ UNCHANGED <<enrolled, grade, history, contested>>

-----------------------------------------------------------------------------
(***************************************************************************)
(* enroll_student.                                                         *)
(***************************************************************************)
EnrolSelect(r, u, s, c) ==
    /\ req[r].pc = "idle"
    /\ teacher[c] # None
    /\ req' = [req EXCEPT ![r] = [Idle EXCEPT !.pc = "enrol_auth", !.user = u,
                                              !.student = s, !.course = c,
                                              !.entitled = MayWrite(u, c)]]
    /\ UNCHANGED <<rows, contested>>

EnrolAuthorize(r) ==
    /\ req[r].pc = "enrol_auth"
    /\ MayWrite(req[r].user, req[r].course)
    /\ Move(r, "enrol_check")
    /\ UNCHANGED <<rows, contested>>

EnrolCheck(r) ==
    /\ req[r].pc = "enrol_check"
    /\ PairOf(r) \notin enrolled
    /\ Move(r, "enrol_insert")
    /\ UNCHANGED <<rows, contested>>

EnrolInsert(r) ==
    /\ req[r].pc = "enrol_insert"
    /\ PairOf(r) \notin enrolled /\ ~ EnrolPending(PairOf(r))
    /\ Move(r, "enrol_commit")
    /\ UNCHANGED <<rows, contested>>

EnrolCommit(r) ==
    /\ req[r].pc = "enrol_commit"
    /\ enrolled' = enrolled \cup {PairOf(r)}
    /\ Finish(r)
    /\ UNCHANGED <<teacher, grade, history, contested>>

-----------------------------------------------------------------------------
(***************************************************************************)
(* create_grade: authorize, find the enrolment and no grade, insert.       *)
(***************************************************************************)
GradeAuthorize(r, u, s, c, g) ==
    /\ req[r].pc = "idle"
    /\ MayWrite(u, c)
    /\ req' = [req EXCEPT ![r] = [Idle EXCEPT !.pc = "grade_check", !.user = u,
                                              !.student = s, !.course = c,
                                              !.new = g, !.entitled = TRUE]]
    /\ UNCHANGED <<rows, contested>>

\* mutation: the enrolment is not looked for
GradeCheck_NotEnrolled(r) ==
    /\ req[r].pc = "grade_check"
    /\ grade[PairOf(r)] = None
    /\ Move(r, "grade_insert")
    /\ UNCHANGED <<rows, contested>>

\* Two SELECTs, in one step: enrolments never vanish and neither do grades.
GradeCheck(r) ==
    /\ req[r].pc = "grade_check"
    /\ PairOf(r) \in enrolled
    /\ grade[PairOf(r)] = None
    /\ Move(r, "grade_insert")
    /\ UNCHANGED <<rows, contested>>

\* mutation: there is no unique key
GradeInsert_Twice(r) ==
    /\ req[r].pc = "grade_insert"
    /\ Move(r, "grade_commit")
    /\ UNCHANGED <<rows, contested>>

GradeInsert(r) ==
    /\ req[r].pc = "grade_insert"
    /\ grade[PairOf(r)] = None /\ ~ GradePending(PairOf(r))
    /\ Move(r, "grade_commit")
    /\ UNCHANGED <<rows, contested>>

\* mutation: the letter is not stored
GradeCommit_ScoreOnly(r) ==
    /\ req[r].pc = "grade_commit"
    /\ grade' = [grade EXCEPT ![PairOf(r)] = [score |-> req[r].new.score]]
    /\ history' = [history EXCEPT ![PairOf(r)] =
           Append(@, [previous |-> None, new |-> req[r].new.score])]
    /\ Finish(r)
    /\ UNCHANGED <<teacher, enrolled, contested>>

GradeCommit(r) ==
    /\ req[r].pc = "grade_commit"
    /\ grade' = [grade EXCEPT ![PairOf(r)] = req[r].new]
    /\ history' = [history EXCEPT ![PairOf(r)] =
           Append(@, [previous |-> None, new |-> req[r].new.score])]
    /\ Finish(r)
    /\ UNCHANGED <<teacher, enrolled, contested>>

-----------------------------------------------------------------------------
(***************************************************************************)
(* update_grade: select the grade, authorize, write score and letter back  *)
(* together with a history entry.                                          *)
(***************************************************************************)
UpdateSelect(r, u, p, g) ==
    /\ req[r].pc = "idle"
    /\ p \in Graded
    /\ Cardinality(Updating(p)) + Len(history[p]) < MaxHistory
    /\ req' = [req EXCEPT ![r] =
           [pc |-> "update_auth", user |-> u, student |-> p[1], course |-> p[2],
            loaded |-> grade[p], new |-> g, entitled |-> MayWrite(u, p[2])]]
    /\ contested' = IF Updating(p) # {} THEN contested \cup {p} ELSE contested
    /\ UNCHANGED rows

\* mutation: the role is checked, but not whose course it is
UpdateAuthorize_RoleOnly(r) ==
    /\ req[r].pc = "update_auth"
    /\ req[r].user \in Deans \cup Lecturers
    /\ Move(r, "update_save")
    /\ UNCHANGED <<rows, contested>>

UpdateAuthorize(r) ==
    /\ req[r].pc = "update_auth"
    /\ MayWrite(req[r].user, req[r].course)
    /\ Move(r, "update_save")
    /\ UNCHANGED <<rows, contested>>

\* mutation: the previous score is read after the new one is assigned
UpdateSave_PreviousLate(r) ==
    LET p == PairOf(r) IN
    /\ req[r].pc = "update_save"
    /\ grade' = [grade EXCEPT ![p] = Flushed(@, req[r].loaded, req[r].new)]
    /\ history' = [history EXCEPT ![p] =
           Append(@, [previous |-> req[r].new.score, new |-> req[r].new.score])]
    /\ Finish(r)
    /\ UNCHANGED <<teacher, enrolled, contested>>

UpdateSave(r) ==
    LET p == PairOf(r) IN
    /\ req[r].pc = "update_save"
    /\ grade' = [grade EXCEPT ![p] = Flushed(@, req[r].loaded, req[r].new)]
    /\ history' = [history EXCEPT ![p] =
           Append(@, [previous |-> req[r].loaded.score, new |-> req[r].new.score])]
    /\ Finish(r)
    /\ UNCHANGED <<teacher, enrolled, contested>>

-----------------------------------------------------------------------------
\* 403, 400 or 409, or an IntegrityError of an INSERT whose key another request has
\* committed meanwhile.
Refused(r) ==
    LET c == req[r].course IN
    /\ \/ req[r].pc \in {"enrol_auth", "update_auth"} /\ ~ MayWrite(req[r].user, c)
       \/ req[r].pc \in {"enrol_check", "enrol_insert"} /\ PairOf(r) \in enrolled
       \/ req[r].pc = "grade_check" /\ (PairOf(r) \notin enrolled \/ PairOf(r) \in Graded)
       \/ req[r].pc = "grade_insert" /\ PairOf(r) \in Graded
       \/ req[r].pc = "course_insert" /\ teacher[c] # None
    /\ Finish(r)
    /\ UNCHANGED <<rows, contested>>

\* The request dies at any await or its commit is refused: rolled back.
Fail(r) ==
    /\ req[r].pc # "idle"
    /\ Finish(r)
    /\ UNCHANGED <<rows, contested>>

Begin(r) ==
    \/ \E u \in Users, c \in Courses, t \in Teachers :
          CourseCreate(r, u, c, t) \/ CourseLoad(r, u, c, t)
    \/ \E u \in Users, s \in Students, c \in Courses : EnrolSelect(r, u, s, c)
    \/ \E u \in Users, s \in Students, c \in Courses, g \in Grade :
          GradeAuthorize(r, u, s, c, g) \/ UpdateSelect(r, u, <<s, c>>, g)

Continue(r) ==
    \/ CourseInsert(r) \/ CourseCommit(r) \/ CourseFlush(r) \/ CourseSave(r)
    \/ EnrolAuthorize(r) \/ EnrolCheck(r) \/ EnrolInsert(r) \/ EnrolCommit(r)
    \/ GradeCheck(r) \/ GradeInsert(r) \/ GradeCommit(r)
    \/ UpdateAuthorize(r) \/ UpdateSave(r)
    \/ Refused(r)

Next == \E r \in Requests : Begin(r) \/ Continue(r) \/ Fail(r)

Spec == Init /\ [][Next]_vars

-----------------------------------------------------------------------------
\* A grade is a grade of an enrolled student, whoever checked what and when, and it
\* has a history from the moment it exists.
GradesAreOfEnrolled ==
    /\ Graded \subseteq enrolled
    /\ \A p \in Pairs : p \in Graded <=> history[p] # <<>>
    /\ \A p \in enrolled : teacher[p[2]] # None

\* The history of a grade that was not changed by two requests at a time explains
\* it: one initial record, then each entry goes on from the one before, and the last
\* one is the score.
HistoryExplainsGrade ==
    \A p \in Graded \ contested :
        LET h == history[p] IN
        /\ h[1].previous = None
        /\ \A i \in 2 .. Len(h) : h[i].previous = h[i - 1].new
        /\ h[Len(h)].new = grade[p].score

\* Two requests never both record the first grade, even if neither found one.
OneInitialRecord ==
    \A p \in Pairs : \A i \in 2 .. Len(history[p]) : history[p][i].previous # None

\* Nobody writes to a course who was not allowed to at any time since the request
\* began: a teacher who lost the course before has no way in.
OnlyEntitledWrite ==
    \A r \in Requests :
        req[r].pc \in GradeSteps \cup {"enrol_check", "enrol_insert", "enrol_commit",
                                       "update_save"} => req[r].entitled

\* A correction does what it says, unless another overlapped with it.
UpdateTakesEffect ==
    [][\A r \in Requests : UpdateSave(r) /\ PairOf(r) \notin contested' =>
          grade'[PairOf(r)] = req[r].new]_vars

=============================================================================
