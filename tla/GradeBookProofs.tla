-------------------------- MODULE GradeBookProofs --------------------------
(***************************************************************************)
(* Proofs about GradeBook for any numbers of people, courses, grades and   *)
(* concurrent requests.  A request's record is judged against the          *)
(* committed rows (RecordOK); two requests never hold the same new key     *)
(* (PendingInv); and who loaded an uncontested grade has it as it is       *)
(* committed (SnapshotInv).                                                *)
(***************************************************************************)
EXTENDS GradeBook, TLAPS

EnrolSteps == {"enrol_auth", "enrol_check", "enrol_insert", "enrol_commit"}
WriteSteps == GradeSteps \cup {"enrol_check", "enrol_insert", "enrol_commit",
                               "update_save"}

\* What a request x knows of the committed rows.
RecordOK(x) ==
    LET p == <<x.student, x.course>> IN
    /\ x.pc # "idle" => x.user \in Users /\ x.course \in Courses
    /\ x.pc \in CourseSteps => x.new \in Teachers
    /\ x.pc \notin CourseSteps \cup {"idle"} => x.student \in Students
    /\ x.pc \in GradeSteps \cup UpdateSteps => x.new \in Grade
    /\ x.pc \in UpdateSteps => x.loaded \in Grade
    /\ x.pc = "course_commit" => teacher[x.course] = None
    /\ x.pc \in EnrolSteps \cup {"course_flush", "course_save"} =>
           teacher[x.course] # None
    /\ x.pc \in {"grade_insert", "grade_commit"} => p \in enrolled
    /\ x.pc = "grade_commit" => grade[p] = None
    /\ x.pc \in UpdateSteps => p \in Graded
    /\ x.pc \in {"enrol_auth", "update_auth"} /\ MayWrite(x.user, x.course) =>
           x.entitled
    /\ x.pc \in WriteSteps => x.entitled

PendingInv ==
    \A q, r \in Requests : q # r =>
        /\ req[q].pc = "course_commit" /\ req[r].pc = "course_commit" =>
               req[q].course # req[r].course
        /\ req[q].pc = "grade_commit" /\ req[r].pc = "grade_commit" =>
               PairOf(q) # PairOf(r)

SnapshotInv ==
    \A r \in Requests :
        req[r].pc \in UpdateSteps /\ PairOf(r) \notin contested =>
            /\ req[r].loaded = grade[PairOf(r)]
            /\ \A q \in Requests :
                   req[q].pc \in UpdateSteps /\ PairOf(q) = PairOf(r) => q = r

TypeInv == TypeOK /\ \A r \in Requests : RecordOK(req[r])

Inv ==
    /\ TypeInv
    /\ PendingInv
    /\ SnapshotInv
    /\ GradesAreOfEnrolled
    /\ OneInitialRecord
    /\ HistoryExplainsGrade

-----------------------------------------------------------------------------
(***************************************************************************)
(* Helpers.                                                                *)
(***************************************************************************)

LEMMA IdleType == Idle \in Request
  BY DEF Idle, Request, Steps

\* The UPDATE of a grade that is still as it was loaded stores what was asked for.
LEMMA FlushedCurrent ==
    ASSUME NEW g \in Grade, NEW new \in Grade
    PROVE  Flushed(g, g, new) = new
<1>1. DOMAIN g = {"score", "letter"} /\ DOMAIN new = {"score", "letter"}
  BY DEF Grade
<1>2. \A c \in {"score", "letter"} : Changed(g[c], g[c], new[c]) = new[c]
  BY DEF Changed
<1>3. Flushed(g, g, new) = [c \in {"score", "letter"} |-> new[c]]
  BY <1>1, <1>2 DEF Flushed
<1> QED
  BY <1>1, <1>3 DEF Grade

\* Any UPDATE of a grade stores a grade.
LEMMA FlushedType ==
    ASSUME NEW g \in Grade, NEW loaded \in Grade, NEW new \in Grade
    PROVE  Flushed(g, loaded, new) \in Grade
<1>1. Flushed(g, loaded, new) =
        [score |-> Changed(g.score, loaded.score, new.score),
         letter |-> Changed(g.letter, loaded.letter, new.letter)]
  BY DEF Grade, Flushed
<1> QED
  BY <1>1 DEF Grade, Changed

\* A step that only moves request r on to x.
LEMMA MoveInv ==
    ASSUME Inv, NEW r \in Requests, NEW x \in Request, RecordOK(x),
           req' = [req EXCEPT ![r] = x],
           x.pc = "course_commit" => ~ CoursePending(x.course),
           x.pc = "grade_commit" => ~ GradePending(<<x.student, x.course>>),
           x.pc \in UpdateSteps => /\ req[r].pc \in UpdateSteps
                                   /\ x.student = req[r].student
                                   /\ x.course = req[r].course
                                   /\ x.loaded = req[r].loaded,
           UNCHANGED <<rows, contested>>
    PROVE  Inv'
<1>1. /\ req' \in [Requests -> Request]
      /\ \A q \in Requests : req'[q] = IF q = r THEN x ELSE req[q]
  BY DEF Inv, TypeInv, TypeOK
<1>2. UNCHANGED <<teacher, enrolled, grade, history, contested>>
  BY DEF rows
<1>3. \A q \in Requests : RecordOK(req[q])'
  <2> SUFFICES ASSUME NEW q \in Requests PROVE RecordOK(req[q])'
    OBVIOUS
  <2>1. RecordOK(req'[q])
    BY <1>1 DEF Inv, TypeInv
  <2> QED
    BY <1>2, <2>1 DEF RecordOK, MayWrite, Graded
<1>4. TypeOK'
  BY <1>1, <1>2, <1>3 DEF Inv, TypeInv, TypeOK, RecordOK
<1>5. PendingInv'
  BY <1>1 DEF Inv, PendingInv, PairOf, CoursePending, GradePending
<1>6. SnapshotInv'
  BY <1>1, <1>2 DEF Inv, SnapshotInv, PairOf
<1>7. GradesAreOfEnrolled' /\ OneInitialRecord' /\ HistoryExplainsGrade'
  BY <1>2 DEF Inv, GradesAreOfEnrolled, OneInitialRecord, HistoryExplainsGrade, Graded
<1> QED
  BY <1>3, <1>4, <1>5, <1>6, <1>7 DEF Inv, TypeInv

\* A request ends and no row changes.
LEMMA FinishInv ==
    ASSUME Inv, NEW r \in Requests, Finish(r), UNCHANGED <<rows, contested>>
    PROVE  Inv'
<1>1. Idle.pc = "idle" /\ RecordOK(Idle)
  BY DEF Idle, RecordOK, CourseSteps, UpdateSteps, GradeSteps, EnrolSteps, WriteSteps
<1> QED
  BY <1>1, IdleType, MoveInv DEF Finish, UpdateSteps

-----------------------------------------------------------------------------
(***************************************************************************)
(* Steps that change no row.                                               *)
(***************************************************************************)

LEMMA InitInv == Init => Inv
<1> SUFFICES ASSUME Init PROVE Inv
  OBVIOUS
<1>1. \A r \in Requests : req[r] = Idle
  BY DEF Init
<1>2. TypeOK
  BY <1>1, IdleType DEF Init, TypeOK, Idle, CourseSteps, UpdateSteps, GradeSteps
<1>3. RecordOK(Idle)
  BY DEF Idle, RecordOK, CourseSteps, UpdateSteps, GradeSteps, EnrolSteps, WriteSteps
<1>4. PendingInv /\ SnapshotInv
  BY <1>1 DEF PendingInv, SnapshotInv, Idle, UpdateSteps
<1>5. GradesAreOfEnrolled /\ OneInitialRecord /\ HistoryExplainsGrade
  BY DEF Init, GradesAreOfEnrolled, OneInitialRecord, HistoryExplainsGrade, Graded
<1> QED
  BY <1>1, <1>2, <1>3, <1>4, <1>5 DEF Inv, TypeInv

\* The steps that begin a request without loading a grade.
LEMMA BeginInv ==
    ASSUME Inv, NEW r \in Requests, NEW x \in Request, RecordOK(x),
           x.pc \in {"course_insert", "course_flush", "enrol_auth", "grade_check"},
           req' = [req EXCEPT ![r] = x], UNCHANGED <<rows, contested>>
    PROVE  Inv'
BY MoveInv DEF UpdateSteps

LEMMA CourseCreateInv ==
    ASSUME Inv, NEW r \in Requests, NEW u \in Users, NEW c \in Courses,
           NEW t \in Teachers, CourseCreate(r, u, c, t)
    PROVE  Inv'
<1> DEFINE x == [Idle EXCEPT !.pc = "course_insert", !.user = u, !.course = c, !.new = t]
<1>1. /\ x \in Request
      /\ x.pc = "course_insert" /\ x.user = u /\ x.course = c /\ x.new = t
  BY DEF Idle, Request, Steps
<1>2. req' = [req EXCEPT ![r] = x] /\ UNCHANGED <<rows, contested>>
  BY DEF CourseCreate
<1> HIDE DEF x
<1>3. RecordOK(x)
  BY <1>1 DEF RecordOK, CourseSteps, UpdateSteps, GradeSteps, EnrolSteps, WriteSteps
<1> QED
  BY <1>1, <1>2, <1>3, BeginInv

LEMMA CourseLoadInv ==
    ASSUME Inv, NEW r \in Requests, NEW u \in Users, NEW c \in Courses,
           NEW t \in Teachers, CourseLoad(r, u, c, t)
    PROVE  Inv'
<1> DEFINE x == [Idle EXCEPT !.pc = "course_flush", !.user = u, !.course = c,
                             !.loaded = teacher[c], !.new = t]
<1>1. teacher[c] \in Teachers /\ teacher[c] # None
  BY DEF CourseLoad, Inv, TypeInv, TypeOK
<1>2. /\ x \in Request
      /\ x.pc = "course_flush" /\ x.user = u /\ x.course = c /\ x.new = t
  BY <1>1 DEF Idle, Request, Steps
<1>3. req' = [req EXCEPT ![r] = x] /\ UNCHANGED <<rows, contested>>
  BY DEF CourseLoad
<1> HIDE DEF x
<1>4. RecordOK(x)
  BY <1>1, <1>2 DEF RecordOK, CourseSteps, UpdateSteps, GradeSteps, EnrolSteps, WriteSteps
<1> QED
  BY <1>2, <1>3, <1>4, BeginInv

LEMMA EnrolSelectInv ==
    ASSUME Inv, NEW r \in Requests, NEW u \in Users, NEW s \in Students,
           NEW c \in Courses, EnrolSelect(r, u, s, c)
    PROVE  Inv'
<1> DEFINE x == [Idle EXCEPT !.pc = "enrol_auth", !.user = u, !.student = s,
                             !.course = c, !.entitled = MayWrite(u, c)]
<1>1. MayWrite(u, c) \in BOOLEAN
  BY DEF MayWrite
<1>2. /\ x \in Request
      /\ x.pc = "enrol_auth" /\ x.user = u /\ x.student = s /\ x.course = c
      /\ x.entitled = MayWrite(u, c)
  BY <1>1 DEF Idle, Request, Steps
<1>3. /\ teacher[c] # None
      /\ req' = [req EXCEPT ![r] = x] /\ UNCHANGED <<rows, contested>>
  BY DEF EnrolSelect
<1> HIDE DEF x
<1>4. RecordOK(x)
  BY <1>2, <1>3 DEF RecordOK, CourseSteps, UpdateSteps, GradeSteps, EnrolSteps, WriteSteps
<1> QED
  BY <1>2, <1>3, <1>4, BeginInv

LEMMA GradeAuthorizeInv ==
    ASSUME Inv, NEW r \in Requests, NEW u \in Users, NEW s \in Students,
           NEW c \in Courses, NEW g \in Grade, GradeAuthorize(r, u, s, c, g)
    PROVE  Inv'
<1> DEFINE x == [Idle EXCEPT !.pc = "grade_check", !.user = u, !.student = s,
                             !.course = c, !.new = g, !.entitled = TRUE]
<1>1. /\ x \in Request
      /\ x.pc = "grade_check" /\ x.user = u /\ x.student = s /\ x.course = c
      /\ x.new = g /\ x.entitled = TRUE
  BY DEF Idle, Request, Steps
<1>2. req' = [req EXCEPT ![r] = x] /\ UNCHANGED <<rows, contested>>
  BY DEF GradeAuthorize
<1> HIDE DEF x
<1>3. RecordOK(x)
  BY <1>1 DEF RecordOK, CourseSteps, UpdateSteps, GradeSteps, EnrolSteps, WriteSteps
<1> QED
  BY <1>1, <1>2, <1>3, BeginInv

\* A request goes on with the record it has.
LEMMA ContinueInv ==
    ASSUME Inv, NEW r \in Requests, NEW pc \in Steps, Move(r, pc),
           RecordOK([req[r] EXCEPT !.pc = pc]),
           pc = "course_commit" => ~ CoursePending(req[r].course),
           pc = "grade_commit" => ~ GradePending(PairOf(r)),
           pc \in UpdateSteps => req[r].pc \in UpdateSteps,
           UNCHANGED <<rows, contested>>
    PROVE  Inv'
<1> DEFINE x == [req[r] EXCEPT !.pc = pc]
<1>1. /\ x \in Request
      /\ x.pc = pc /\ x.student = req[r].student /\ x.course = req[r].course
      /\ x.loaded = req[r].loaded
  BY DEF Inv, TypeInv, TypeOK, Request
<1>2. req' = [req EXCEPT ![r] = x]
  BY DEF Move, Inv, TypeInv, TypeOK, Request
<1> HIDE DEF x
<1>3. RecordOK(x)
  BY DEF x
<1> QED
  BY <1>1, <1>2, <1>3, MoveInv DEF PairOf

LEMMA MovesInv ==
    ASSUME Inv, NEW r \in Requests,
           \/ CourseInsert(r) \/ CourseFlush(r)
           \/ EnrolAuthorize(r) \/ EnrolCheck(r) \/ EnrolInsert(r)
           \/ GradeCheck(r) \/ GradeInsert(r) \/ UpdateAuthorize(r)
    PROVE  Inv'
<1> USE DEF RecordOK, CourseSteps, UpdateSteps, GradeSteps, EnrolSteps, WriteSteps,
            PairOf, Steps
<1>r. req[r] \in Request /\ RecordOK(req[r])
  BY DEF Inv, TypeInv, TypeOK
<1> DEFINE x(pc) == [req[r] EXCEPT !.pc = pc]
<1>x. ASSUME NEW pc \in Steps
      PROVE  /\ x(pc).pc = pc
             /\ x(pc).user = req[r].user /\ x(pc).student = req[r].student
             /\ x(pc).course = req[r].course /\ x(pc).loaded = req[r].loaded
             /\ x(pc).new = req[r].new /\ x(pc).entitled = req[r].entitled
  BY <1>r DEF Request
<1> HIDE DEF x
<1>1. CASE CourseInsert(r)
  <2>1. RecordOK(x("course_commit"))
    BY <1>1, <1>r, <1>x DEF CourseInsert
  <2> QED
    BY <1>1, <2>1, ContinueInv DEF CourseInsert, x
<1>2. CASE CourseFlush(r)
  <2>1. RecordOK(x("course_save"))
    BY <1>2, <1>r, <1>x DEF CourseFlush
  <2> QED
    BY <1>2, <2>1, ContinueInv DEF CourseFlush, x
<1>3. CASE EnrolAuthorize(r)
  <2>1. RecordOK(x("enrol_check"))
    BY <1>3, <1>r, <1>x DEF EnrolAuthorize
  <2> QED
    BY <1>3, <2>1, ContinueInv DEF EnrolAuthorize, x
<1>4. CASE EnrolCheck(r)
  <2>1. RecordOK(x("enrol_insert"))
    BY <1>4, <1>r, <1>x DEF EnrolCheck
  <2> QED
    BY <1>4, <2>1, ContinueInv DEF EnrolCheck, x
<1>5. CASE EnrolInsert(r)
  <2>1. RecordOK(x("enrol_commit"))
    BY <1>5, <1>r, <1>x DEF EnrolInsert
  <2> QED
    BY <1>5, <2>1, ContinueInv DEF EnrolInsert, x
<1>6. CASE GradeCheck(r)
  <2>1. RecordOK(x("grade_insert"))
    BY <1>6, <1>r, <1>x DEF GradeCheck
  <2> QED
    BY <1>6, <2>1, ContinueInv DEF GradeCheck, x
<1>7. CASE GradeInsert(r)
  <2>1. RecordOK(x("grade_commit"))
    BY <1>7, <1>r, <1>x DEF GradeInsert
  <2> QED
    BY <1>7, <2>1, ContinueInv DEF GradeInsert, x
<1>8. CASE UpdateAuthorize(r)
  <2>1. RecordOK(x("update_save"))
    BY <1>8, <1>r, <1>x DEF UpdateAuthorize
  <2> QED
    BY <1>8, <2>1, ContinueInv DEF UpdateAuthorize, x
<1> QED
  BY <1>1, <1>2, <1>3, <1>4, <1>5, <1>6, <1>7, <1>8

-----------------------------------------------------------------------------
(***************************************************************************)
(* Steps that change a row, or load one.                                   *)
(***************************************************************************)

\* One more entry of a history.
LEMMA AppendEntry ==
    ASSUME NEW h \in Seq(Entry), NEW e \in Entry
    PROVE  /\ Append(h, e) \in Seq(Entry)
           /\ Len(h) \in Nat
           /\ Len(Append(h, e)) = Len(h) + 1
           /\ \A i \in 1 .. Len(h) : Append(h, e)[i] = h[i]
           /\ Append(h, e)[Len(h) + 1] = e
           /\ Append(h, e) # <<>>
  OBVIOUS

\* A request ends, and the records of the others stay.
LEMMA FinishOthers ==
    ASSUME Inv, NEW r \in Requests, Finish(r)
    PROVE  /\ req' \in [Requests -> Request]
           /\ \A q \in Requests : req'[q] = IF q = r THEN Idle ELSE req[q]
           /\ \A q \in Requests : req'[q].pc # "idle" => q # r /\ req'[q] = req[q]
           /\ RecordOK(Idle)'
<1>1. RecordOK(Idle)'
  BY DEF Idle, RecordOK, CourseSteps, UpdateSteps, GradeSteps, EnrolSteps, WriteSteps
<1> QED
  BY <1>1, IdleType DEF Finish, Inv, TypeInv, TypeOK, Idle

LEMMA UpdateSelectInv ==
    ASSUME Inv, NEW r \in Requests, NEW u \in Users, NEW s \in Students,
           NEW c \in Courses, NEW g \in Grade, UpdateSelect(r, u, <<s, c>>, g)
    PROVE  Inv'
<1> DEFINE p == <<s, c>>
           x == [pc |-> "update_auth", user |-> u, student |-> s, course |-> c,
                 loaded |-> grade[p], new |-> g, entitled |-> MayWrite(u, c)]
<1>1. p \in Pairs /\ p \in Graded /\ grade[p] \in Grade
  BY DEF UpdateSelect, Pairs, Graded, Inv, TypeInv, TypeOK
<1>2. MayWrite(u, c) \in BOOLEAN
  BY DEF MayWrite
<1>3. /\ x \in Request
      /\ x.pc = "update_auth" /\ x.user = u /\ x.student = s /\ x.course = c
      /\ x.loaded = grade[p] /\ x.new = g /\ x.entitled = MayWrite(u, c)
  BY <1>1, <1>2 DEF Request, Steps
<1>4. req' = [req EXCEPT ![r] = x] /\ UNCHANGED rows /\ req[r].pc = "idle"
  BY DEF UpdateSelect
<1> HIDE DEF x
<1>5. /\ req' \in [Requests -> Request]
      /\ \A q \in Requests : req'[q] = IF q = r THEN x ELSE req[q]
      /\ UNCHANGED <<teacher, enrolled, grade, history>>
  BY <1>3, <1>4 DEF Inv, TypeInv, TypeOK, rows
<1>6. RecordOK(x)
  BY <1>1, <1>3 DEF RecordOK, CourseSteps, UpdateSteps, GradeSteps, EnrolSteps, WriteSteps
<1>7. \A q \in Requests : RecordOK(req[q])'
  <2> SUFFICES ASSUME NEW q \in Requests PROVE RecordOK(req[q])'
    OBVIOUS
  <2>1. RecordOK(req'[q])
    BY <1>5, <1>6 DEF Inv, TypeInv
  <2> QED
    BY <1>5, <2>1 DEF RecordOK, MayWrite, Graded
<1>8. contested \subseteq contested' /\ contested' \subseteq Pairs
  BY <1>1 DEF UpdateSelect, Inv, TypeInv, TypeOK
<1>9. TypeOK'
  BY <1>5, <1>7, <1>8 DEF Inv, TypeInv, TypeOK, RecordOK
<1>10. PendingInv'
  BY <1>3, <1>5 DEF Inv, PendingInv, PairOf
<1>11. p \notin contested' =>
         \A q \in Requests : ~ (req[q].pc \in UpdateSteps /\ PairOf(q) = p)
  BY DEF UpdateSelect, Updating
<1>12. SnapshotInv'
  <2> SUFFICES ASSUME NEW q \in Requests, req'[q].pc \in UpdateSteps,
                      PairOf(q)' \notin contested'
               PROVE  /\ req'[q].loaded = grade[PairOf(q)']
                      /\ \A o \in Requests :
                             req'[o].pc \in UpdateSteps /\ PairOf(o)' = PairOf(q)' => o = q
    BY <1>5 DEF SnapshotInv
  <2>1. \A o \in Requests : PairOf(o)' = IF o = r THEN p ELSE PairOf(o)
    BY <1>3, <1>5 DEF PairOf
  <2>2. CASE q = r
    BY <1>3, <1>5, <1>11, <2>1, <2>2
  <2>3. CASE q # r
    BY <1>5, <1>8, <1>11, <2>1, <2>3 DEF Inv, SnapshotInv
  <2> QED
    BY <2>2, <2>3
<1>13. GradesAreOfEnrolled' /\ OneInitialRecord' /\ HistoryExplainsGrade'
  BY <1>5, <1>8 DEF Inv, GradesAreOfEnrolled, OneInitialRecord, HistoryExplainsGrade, Graded
<1> QED
  BY <1>7, <1>9, <1>10, <1>12, <1>13 DEF Inv, TypeInv

LEMMA CourseCommitInv ==
    ASSUME Inv, NEW r \in Requests, CourseCommit(r)
    PROVE  Inv'
<1> DEFINE c == req[r].course
           t == req[r].new
<1>1. c \in Courses /\ t \in Teachers /\ t # None /\ teacher[c] = None
  BY RolesAssumption, NoneAssumption
  DEF CourseCommit, Inv, TypeInv, RecordOK, CourseSteps
<1>2. /\ teacher' \in [Courses -> Teachers \cup {None}]
      /\ \A d \in Courses : teacher'[d] = IF d = c THEN t ELSE teacher[d]
      /\ UNCHANGED <<enrolled, grade, history, contested>>
  BY <1>1 DEF CourseCommit, Inv, TypeInv, TypeOK
<1>3. /\ req' \in [Requests -> Request]
      /\ \A q \in Requests : req'[q] = IF q = r THEN Idle ELSE req[q]
      /\ \A q \in Requests : req'[q].pc # "idle" => q # r /\ req'[q] = req[q]
      /\ RecordOK(Idle)'
  BY FinishOthers DEF CourseCommit
<1>4. \A q \in Requests : RecordOK(req[q])'
  <2> SUFFICES ASSUME NEW q \in Requests, q # r PROVE RecordOK(req[q])'
    BY <1>3
  <2>1. RecordOK(req[q]) /\ req'[q] = req[q]
    BY <1>3 DEF Inv, TypeInv
  <2>2. req[q].pc = "course_commit" => req[q].course # c
    BY DEF CourseCommit, Inv, PendingInv
  <2>3. req[q].pc \in UpdateSteps => teacher[req[q].course] # None
    <3>1. req[q].pc \in UpdateSteps => <<req[q].student, req[q].course>> \in enrolled
      BY <2>1 DEF RecordOK, Inv, GradesAreOfEnrolled
    <3> QED
      BY <3>1 DEF Inv, GradesAreOfEnrolled
  <2>4. req[q].pc \in {"enrol_auth", "update_auth"} => req[q].course # c
    BY <1>1, <2>1, <2>3 DEF RecordOK, EnrolSteps, UpdateSteps
  <2>5. req[q].pc # "idle" => req[q].course \in Courses
    BY <2>1 DEF RecordOK
  <2> QED
    BY <1>1, <1>2, <2>1, <2>2, <2>4, <2>5
    DEF RecordOK, MayWrite, Graded, EnrolSteps, CourseSteps, UpdateSteps, GradeSteps, WriteSteps
<1>5. TypeOK'
  BY <1>2, <1>3, <1>4 DEF Inv, TypeInv, TypeOK, RecordOK
<1>6. PendingInv'
  BY <1>3 DEF Inv, PendingInv, PairOf, Idle
<1>7. SnapshotInv'
  BY <1>2, <1>3 DEF Inv, SnapshotInv, PairOf, Idle, UpdateSteps
<1>8. GradesAreOfEnrolled'
  BY <1>1, <1>2 DEF Inv, GradesAreOfEnrolled, Graded, TypeInv, TypeOK, Pairs
<1>9. OneInitialRecord' /\ HistoryExplainsGrade'
  BY <1>2 DEF Inv, OneInitialRecord, HistoryExplainsGrade, Graded
<1> QED
  BY <1>4, <1>5, <1>6, <1>7, <1>8, <1>9 DEF Inv, TypeInv

LEMMA CourseSaveInv ==
    ASSUME Inv, NEW r \in Requests, CourseSave(r)
    PROVE  Inv'
<1> DEFINE c == req[r].course
           t == Changed(teacher[c], req[r].loaded, req[r].new)
<1>1. c \in Courses /\ t \in Teachers /\ t # None /\ teacher[c] # None
  <2>1. c \in Courses /\ req[r].new \in Teachers /\ teacher[c] # None
    BY DEF CourseSave, Inv, TypeInv, RecordOK, CourseSteps
  <2>2. teacher[c] \in Teachers
    BY <2>1 DEF Inv, TypeInv, TypeOK
  <2> QED
    BY <2>1, <2>2, RolesAssumption, NoneAssumption DEF Changed
<1> HIDE DEF t
<1>2. /\ teacher' \in [Courses -> Teachers \cup {None}]
      /\ \A d \in Courses : teacher'[d] = IF d = c THEN t ELSE teacher[d]
      /\ UNCHANGED <<enrolled, grade, history, contested>>
  BY <1>1 DEF CourseSave, Inv, TypeInv, TypeOK, t
<1>3. \A q \in Requests : req'[q] =
         IF q = r THEN Idle
         ELSE IF req[q].course = c /\ req[q].user = t /\ t \in Lecturers
              THEN [req[q] EXCEPT !.entitled = TRUE] ELSE req[q]
  BY DEF CourseSave, t
<1>4. \A q \in Requests : q # r =>
         /\ req'[q] \in Request
         /\ req'[q].pc = req[q].pc /\ req'[q].user = req[q].user
         /\ req'[q].student = req[q].student /\ req'[q].course = req[q].course
         /\ req'[q].loaded = req[q].loaded /\ req'[q].new = req[q].new
         /\ req[q].entitled => req'[q].entitled
         /\ req[q].course = c /\ req[q].user = t /\ t \in Lecturers => req'[q].entitled
  <2> SUFFICES ASSUME NEW q \in Requests, q # r
               PROVE  /\ req'[q] \in Request
                      /\ req'[q].pc = req[q].pc /\ req'[q].user = req[q].user
                      /\ req'[q].student = req[q].student
                      /\ req'[q].course = req[q].course
                      /\ req'[q].loaded = req[q].loaded /\ req'[q].new = req[q].new
                      /\ req[q].entitled => req'[q].entitled
                      /\ req[q].course = c /\ req[q].user = t /\ t \in Lecturers
                         => req'[q].entitled
    OBVIOUS
  <2> HIDE DEF c
  <2>1. req[q] \in Request
    BY DEF Inv, TypeInv, TypeOK
  <2>2. CASE req[q].course = c /\ req[q].user = t /\ t \in Lecturers
    <3>1. req'[q] = [req[q] EXCEPT !.entitled = TRUE]
      BY <1>3, <2>2
    <3> QED
      BY <2>1, <3>1 DEF Request
  <2>3. CASE ~ (req[q].course = c /\ req[q].user = t /\ t \in Lecturers)
    <3>1. req'[q] = req[q]
      BY <1>3, <2>3
    <3> QED
      BY <2>1, <2>3, <3>1
  <2> QED
    BY <2>2, <2>3
<1>5. req' \in [Requests -> Request]
  <2>1. req' = [q \in Requests |-> req'[q]]
    BY DEF CourseSave
  <2> QED
    BY <1>3, <1>4, <2>1, IdleType
<1>6. \A q \in Requests : RecordOK(req[q])'
  <2> SUFFICES ASSUME NEW q \in Requests PROVE RecordOK(req[q])'
    OBVIOUS
  <2>1. CASE q = r
    <3>1. RecordOK(Idle)'
      BY DEF Idle, RecordOK, CourseSteps, UpdateSteps, GradeSteps, EnrolSteps, WriteSteps
    <3>2. (req[q] = Idle)'
      BY <1>3, <2>1
    <3> QED
      BY <3>1, <3>2 DEF RecordOK, MayWrite, Graded
  <2>2. CASE q # r
    <3>1. RecordOK(req[q])
      BY DEF Inv, TypeInv
    <3>2. req[q].pc # "course_commit" \/ req[q].course # c
      BY <1>1, <3>1 DEF RecordOK
    <3>3. req[q].pc \in {"enrol_auth", "update_auth"}
             /\ MayWrite(req[q].user, req[q].course)' => req'[q].entitled
      <4>1. CASE req[q].course = c
        BY <1>1, <1>2, <1>4, <2>2, <3>1, <4>1 DEF RecordOK, MayWrite
      <4>2. CASE req[q].course # c
        BY <1>2, <1>4, <2>2, <3>1, <4>2
        DEF RecordOK, MayWrite, CourseSteps, UpdateSteps, EnrolSteps, GradeSteps, WriteSteps
      <4> QED
        BY <4>1, <4>2
    <3> QED
      BY <1>1, <1>2, <1>4, <2>2, <3>1, <3>2, <3>3
      DEF RecordOK, MayWrite, Graded, EnrolSteps, CourseSteps, UpdateSteps, GradeSteps,
          WriteSteps
  <2> QED
    BY <2>1, <2>2
<1>7. TypeOK'
  BY <1>2, <1>5, <1>6 DEF Inv, TypeInv, TypeOK, RecordOK
<1>8. \A q \in Requests : req'[q].pc # "idle" =>
         /\ q # r /\ req'[q].pc = req[q].pc /\ PairOf(q)' = PairOf(q)
         /\ req'[q].course = req[q].course /\ req'[q].loaded = req[q].loaded
  <2>1. req'[r] = Idle
    BY <1>3
  <2>2. Idle.pc = "idle"
    BY DEF Idle
  <2> QED
    BY <1>4, <2>1, <2>2 DEF PairOf
<1>9. PendingInv'
  BY <1>8 DEF Inv, PendingInv
<1>10. SnapshotInv'
  BY <1>2, <1>8 DEF Inv, SnapshotInv, UpdateSteps
<1>11. GradesAreOfEnrolled'
  BY <1>1, <1>2 DEF Inv, GradesAreOfEnrolled, Graded, TypeInv, TypeOK, Pairs
<1>12. OneInitialRecord' /\ HistoryExplainsGrade'
  BY <1>2 DEF Inv, OneInitialRecord, HistoryExplainsGrade, Graded
<1> QED
  BY <1>6, <1>7, <1>9, <1>10, <1>11, <1>12 DEF Inv, TypeInv

LEMMA EnrolCommitInv ==
    ASSUME Inv, NEW r \in Requests, EnrolCommit(r)
    PROVE  Inv'
<1> DEFINE p == PairOf(r)
<1>1. p \in Pairs /\ teacher[p[2]] # None
  BY DEF EnrolCommit, Inv, TypeInv, RecordOK, EnrolSteps, CourseSteps, PairOf, Pairs
<1>2. enrolled' = enrolled \cup {p} /\ UNCHANGED <<teacher, grade, history, contested>>
  BY DEF EnrolCommit
<1>3. /\ req' \in [Requests -> Request]
      /\ \A q \in Requests : req'[q] = IF q = r THEN Idle ELSE req[q]
      /\ \A q \in Requests : req'[q].pc # "idle" => q # r /\ req'[q] = req[q]
      /\ RecordOK(Idle)'
  BY FinishOthers DEF EnrolCommit
<1> HIDE DEF p
<1>4. \A q \in Requests : RecordOK(req[q])'
  <2> SUFFICES ASSUME NEW q \in Requests, q # r PROVE RecordOK(req[q])'
    BY <1>3
  <2>1. RecordOK(req[q]) /\ req'[q] = req[q]
    BY <1>3 DEF Inv, TypeInv
  <2> QED
    BY <1>2, <2>1 DEF RecordOK, MayWrite, Graded
<1>5. TypeOK'
  BY <1>1, <1>2, <1>3, <1>4 DEF Inv, TypeInv, TypeOK, RecordOK
<1>6. PendingInv'
  BY <1>3 DEF Inv, PendingInv, PairOf, Idle
<1>7. SnapshotInv'
  BY <1>2, <1>3 DEF Inv, SnapshotInv, PairOf, Idle, UpdateSteps
<1>8. GradesAreOfEnrolled'
  BY <1>1, <1>2 DEF Inv, GradesAreOfEnrolled, Graded
<1>9. OneInitialRecord' /\ HistoryExplainsGrade'
  BY <1>2 DEF Inv, OneInitialRecord, HistoryExplainsGrade, Graded
<1> QED
  BY <1>4, <1>5, <1>6, <1>7, <1>8, <1>9 DEF Inv, TypeInv

LEMMA GradeCommitInv ==
    ASSUME Inv, NEW r \in Requests, GradeCommit(r)
    PROVE  Inv'
<1> DEFINE p == PairOf(r)
           g == req[r].new
           e == [previous |-> None, new |-> g.score]
<1>1. /\ p \in Pairs /\ p \in enrolled /\ grade[p] = None
      /\ g \in Grade /\ g # None /\ g.score \in Scores /\ e \in Entry
  <2>1. RecordOK(req[r]) /\ req[r].pc = "grade_commit"
    BY DEF GradeCommit, Inv, TypeInv
  <2>2. p \in enrolled /\ grade[p] = None /\ g \in Grade
    BY <2>1 DEF RecordOK, PairOf, GradeSteps
  <2> QED
    BY <2>2, NoGradeAssumption DEF Inv, TypeInv, TypeOK, Grade, Entry
<1>2. history[p] = <<>>
  BY <1>1 DEF Inv, GradesAreOfEnrolled, Graded
<1>3. /\ grade' \in [Pairs -> Grade \cup {None}]
      /\ history' \in [Pairs -> Seq(Entry)]
      /\ \A o \in Pairs : grade'[o] = IF o = p THEN g ELSE grade[o]
      /\ \A o \in Pairs : history'[o] = IF o = p THEN <<e>> ELSE history[o]
      /\ UNCHANGED <<teacher, enrolled, contested>>
  BY <1>1, <1>2 DEF GradeCommit, Inv, TypeInv, TypeOK
<1>4. /\ req' \in [Requests -> Request]
      /\ \A q \in Requests : req'[q] = IF q = r THEN Idle ELSE req[q]
      /\ \A q \in Requests : req'[q].pc # "idle" => q # r /\ req'[q] = req[q]
      /\ RecordOK(Idle)'
  BY FinishOthers DEF GradeCommit
<1>5. \A q \in Requests : PairOf(q) = p =>
         q = r \/ req[q].pc \notin UpdateSteps \cup {"grade_commit"}
  BY <1>1 DEF GradeCommit, Inv, TypeInv, RecordOK, PendingInv, Graded, PairOf
<1>6. e.previous = None /\ e.new = g.score
  OBVIOUS
<1> HIDE DEF p, g, e
<1>7. \A q \in Requests : RecordOK(req[q])'
  <2> SUFFICES ASSUME NEW q \in Requests, q # r PROVE RecordOK(req[q])'
    BY <1>4
  <2>1. RecordOK(req[q]) /\ req'[q] = req[q]
    BY <1>4 DEF Inv, TypeInv
  <2>2. req[q].pc \in UpdateSteps => PairOf(q) \in Graded'
    BY <1>1, <1>3, <2>1 DEF RecordOK, Graded, PairOf
  <2>3. req[q].pc = "grade_commit" => PairOf(q) \in Pairs /\ grade'[PairOf(q)] = None
    <3>1. req[q].pc = "grade_commit" => PairOf(q) \in Pairs /\ PairOf(q) # p
      BY <1>5, <2>1 DEF RecordOK, PairOf, Inv, TypeInv, TypeOK
    <3> QED
      BY <1>3, <2>1, <3>1 DEF RecordOK, PairOf
  <2> QED
    BY <1>3, <2>1, <2>2, <2>3 DEF RecordOK, MayWrite, PairOf
<1>8. TypeOK'
  BY <1>3, <1>4, <1>7 DEF Inv, TypeInv, TypeOK, RecordOK
<1>9. PendingInv'
  BY <1>4 DEF Inv, PendingInv, PairOf, Idle
<1>10. SnapshotInv'
  <2> SUFFICES ASSUME NEW q \in Requests, req'[q].pc \in UpdateSteps,
                      PairOf(q)' \notin contested'
               PROVE  /\ req'[q].loaded = grade'[PairOf(q)']
                      /\ \A o \in Requests :
                             req'[o].pc \in UpdateSteps /\ PairOf(o)' = PairOf(q)' => o = q
    BY DEF SnapshotInv
  <2>1. q # r /\ req'[q] = req[q] /\ PairOf(q)' = PairOf(q)
    BY <1>4 DEF UpdateSteps, PairOf
  <2>2. PairOf(q) \in Pairs /\ PairOf(q) # p
    BY <1>5, <2>1 DEF Inv, TypeInv, RecordOK, Graded, PairOf
  <2>3. \A o \in Requests : req'[o].pc \in UpdateSteps =>
           req'[o] = req[o] /\ PairOf(o)' = PairOf(o)
    BY <1>4 DEF UpdateSteps, PairOf
  <2> QED
    BY <1>3, <2>1, <2>2, <2>3 DEF Inv, SnapshotInv
<1>11. GradesAreOfEnrolled'
  <2>1. Graded' = Graded \cup {p}
    BY <1>1, <1>3 DEF Graded
  <2>2. \A o \in Pairs : o \in Graded' <=> history'[o] # <<>>
    <3>1. <<e>> # <<>>
      OBVIOUS
    <3> QED
      BY <1>3, <2>1, <3>1 DEF Inv, GradesAreOfEnrolled
  <2> QED
    BY <1>1, <1>3, <2>1, <2>2 DEF Inv, GradesAreOfEnrolled
<1>12. OneInitialRecord'
  BY <1>3 DEF Inv, OneInitialRecord
<1>13. HistoryExplainsGrade'
  <2> SUFFICES ASSUME NEW o \in (Graded \ contested)'
               PROVE  LET h == history'[o] IN
                      /\ h[1].previous = None
                      /\ \A i \in 2 .. Len(h) : h[i].previous = h[i - 1].new
                      /\ h[Len(h)].new = grade'[o].score
    BY DEF HistoryExplainsGrade
  <2>1. CASE o = p
    <3>1. history'[o] = <<e>> /\ grade'[o] = g
      BY <1>1, <1>3, <2>1
    <3> QED
      BY <1>6, <3>1
  <2>2. CASE o # p
    <3>1. o \in Graded \ contested /\ history'[o] = history[o] /\ grade'[o] = grade[o]
      BY <1>3, <2>2 DEF Graded
    <3> QED
      BY <3>1 DEF Inv, HistoryExplainsGrade
  <2> QED
    BY <2>1, <2>2
<1> QED
  BY <1>7, <1>8, <1>9, <1>10, <1>11, <1>12, <1>13 DEF Inv, TypeInv

LEMMA UpdateSaveInv ==
    ASSUME Inv, NEW r \in Requests, UpdateSave(r)
    PROVE  Inv'
<1> DEFINE p == PairOf(r)
           g == Flushed(grade[p], req[r].loaded, req[r].new)
           h == history[p]
           e == [previous |-> req[r].loaded.score, new |-> req[r].new.score]
<1>1. /\ p \in Pairs /\ p \in Graded /\ grade[p] \in Grade
      /\ req[r].loaded \in Grade /\ req[r].new \in Grade
      /\ req[r].loaded.score \in Scores /\ e \in Entry
  <2>1. RecordOK(req[r]) /\ req[r].pc = "update_save"
    BY DEF UpdateSave, Inv, TypeInv
  <2>2. p \in Graded /\ req[r].loaded \in Grade /\ req[r].new \in Grade
    BY <2>1 DEF RecordOK, PairOf, UpdateSteps
  <2> QED
    BY <2>2 DEF Inv, TypeInv, TypeOK, Grade, Entry, Graded
<1>2. g \in Grade /\ g # None
  BY <1>1, FlushedType, NoGradeAssumption
<1>3. h \in Seq(Entry) /\ h # <<>> /\ Len(h) \in Nat \ {0}
  BY <1>1 DEF Inv, TypeInv, TypeOK, GradesAreOfEnrolled
<1>4. /\ grade' \in [Pairs -> Grade \cup {None}]
      /\ history' \in [Pairs -> Seq(Entry)]
      /\ \A o \in Pairs : grade'[o] = IF o = p THEN g ELSE grade[o]
      /\ \A o \in Pairs : history'[o] = IF o = p THEN Append(h, e) ELSE history[o]
      /\ UNCHANGED <<teacher, enrolled, contested>>
  <2>1. Append(h, e) \in Seq(Entry)
    BY <1>1, <1>3, AppendEntry
  <2> QED
    BY <1>1, <1>2, <2>1 DEF UpdateSave, Inv, TypeInv, TypeOK
<1>5. /\ req' \in [Requests -> Request]
      /\ \A q \in Requests : req'[q] = IF q = r THEN Idle ELSE req[q]
      /\ \A q \in Requests : req'[q].pc # "idle" => q # r /\ req'[q] = req[q]
      /\ RecordOK(Idle)'
  BY FinishOthers DEF UpdateSave
<1>6. p \notin contested =>
         /\ grade[p] = req[r].loaded /\ g = req[r].new
         /\ \A q \in Requests : req[q].pc \in UpdateSteps /\ PairOf(q) = p => q = r
  <2>1. req[r].pc \in UpdateSteps
    BY DEF UpdateSave, UpdateSteps
  <2>2. p \notin contested =>
           /\ grade[p] = req[r].loaded
           /\ \A q \in Requests : req[q].pc \in UpdateSteps /\ PairOf(q) = p => q = r
    BY <2>1 DEF Inv, SnapshotInv
  <2> QED
    BY <1>1, <2>2, FlushedCurrent
<1>7. e.previous = req[r].loaded.score /\ e.new = req[r].new.score /\ e.previous # None
  BY <1>1, NoneAssumption
<1> HIDE DEF p, g, e, h
<1>8. Graded' = Graded
  BY <1>1, <1>2, <1>4 DEF Graded
<1>a. /\ Append(h, e) # <<>> /\ Len(Append(h, e)) = Len(h) + 1
      /\ \A i \in 1 .. Len(h) : Append(h, e)[i] = h[i]
      /\ Append(h, e)[Len(h) + 1] = e
  BY <1>1, <1>3, AppendEntry
<1>9. \A q \in Requests : RecordOK(req[q])'
  <2> SUFFICES ASSUME NEW q \in Requests, q # r PROVE RecordOK(req[q])'
    BY <1>5
  <2>1. RecordOK(req[q]) /\ req'[q] = req[q]
    BY <1>5 DEF Inv, TypeInv
  <2>2. req[q].pc = "grade_commit" => PairOf(q) \in Pairs /\ grade'[PairOf(q)] = None
    <3>1. req[q].pc = "grade_commit" =>
             PairOf(q) \in Pairs /\ grade[PairOf(q)] = None /\ PairOf(q) # p
      BY <1>1, <2>1 DEF RecordOK, PairOf, Inv, TypeInv, TypeOK, Graded
    <3> QED
      BY <1>4, <3>1
  <2> QED
    BY <1>4, <1>8, <2>1, <2>2 DEF RecordOK, MayWrite, PairOf
<1>10. TypeOK'
  BY <1>4, <1>5, <1>9 DEF Inv, TypeInv, TypeOK, RecordOK
<1>11. PendingInv'
  BY <1>5 DEF Inv, PendingInv, PairOf, Idle
<1>12. SnapshotInv'
  <2> SUFFICES ASSUME NEW q \in Requests, req'[q].pc \in UpdateSteps,
                      PairOf(q)' \notin contested'
               PROVE  /\ req'[q].loaded = grade'[PairOf(q)']
                      /\ \A o \in Requests :
                             req'[o].pc \in UpdateSteps /\ PairOf(o)' = PairOf(q)' => o = q
    BY DEF SnapshotInv
  <2>1. q # r /\ req'[q] = req[q] /\ PairOf(q)' = PairOf(q)
    BY <1>5 DEF UpdateSteps, PairOf
  <2>2. PairOf(q) \in Pairs /\ PairOf(q) # p
    <3>1. PairOf(q) \notin contested /\ req[q].pc \in UpdateSteps
      BY <1>4, <2>1
    <3>2. PairOf(q) \in Pairs
      BY <3>1 DEF Inv, TypeInv, RecordOK, Graded, PairOf
    <3> QED
      BY <1>6, <2>1, <3>1, <3>2
  <2>3. \A o \in Requests : req'[o].pc \in UpdateSteps =>
           req'[o] = req[o] /\ PairOf(o)' = PairOf(o)
    BY <1>5 DEF UpdateSteps, PairOf
  <2>4. /\ req[q].loaded = grade[PairOf(q)]
        /\ \A o \in Requests :
               req[o].pc \in UpdateSteps /\ PairOf(o) = PairOf(q) => o = q
    <3>1. PairOf(q) \notin contested /\ req[q].pc \in UpdateSteps
      BY <1>4, <2>1
    <3> QED
      BY <3>1 DEF Inv, SnapshotInv
  <2>5. grade'[PairOf(q)'] = grade[PairOf(q)]
    BY <1>4, <2>1, <2>2
  <2> QED
    BY <2>1, <2>3, <2>4, <2>5
<1>13. GradesAreOfEnrolled'
  <2>1. \A o \in Pairs : o \in Graded' <=> history'[o] # <<>>
    BY <1>1, <1>4, <1>8, <1>a DEF Inv, GradesAreOfEnrolled
  <2> QED
    BY <1>4, <1>8, <2>1 DEF Inv, GradesAreOfEnrolled
<1>14. OneInitialRecord'
  <2> SUFFICES ASSUME NEW o \in Pairs, NEW i \in 2 .. Len(history'[o])
               PROVE  history'[o][i].previous # None
    BY DEF OneInitialRecord
  <2>1. CASE o # p
    BY <1>4, <2>1 DEF Inv, OneInitialRecord
  <2>2. CASE o = p
    <3>1. history'[o] = Append(h, e)
      BY <1>1, <1>4, <2>2
    <3>2. CASE i = Len(h) + 1
      BY <1>7, <1>a, <3>1, <3>2
    <3>3. CASE i # Len(h) + 1
      <4>1. i \in 2 .. Len(h) /\ i \in 1 .. Len(h)
        BY <1>3, <1>a, <3>1, <3>3
      <4>2. h[i].previous # None
        BY <1>1, <4>1 DEF Inv, OneInitialRecord, h
      <4> QED
        BY <1>a, <3>1, <4>1, <4>2
    <3> QED
      BY <3>2, <3>3
  <2> QED
    BY <2>1, <2>2
<1>15. HistoryExplainsGrade'
  <2> SUFFICES ASSUME NEW o \in (Graded \ contested)'
               PROVE  LET k == history'[o] IN
                      /\ k[1].previous = None
                      /\ \A i \in 2 .. Len(k) : k[i].previous = k[i - 1].new
                      /\ k[Len(k)].new = grade'[o].score
    BY DEF HistoryExplainsGrade
  <2>o. o \in Graded \ contested /\ o \in Pairs
    BY <1>4, <1>8 DEF Graded
  <2>1. CASE o # p
    <3>1. history'[o] = history[o] /\ grade'[o] = grade[o]
      BY <1>4, <2>o, <2>1
    <3> QED
      BY <2>o, <3>1 DEF Inv, HistoryExplainsGrade
  <2>2. CASE o = p
    <3>1. history'[o] = Append(h, e) /\ grade'[o] = req[r].new
      BY <1>4, <1>6, <2>o, <2>2
    <3>2. /\ h[1].previous = None
          /\ \A i \in 2 .. Len(h) : h[i].previous = h[i - 1].new
          /\ h[Len(h)].new = req[r].loaded.score
      BY <1>6, <2>o, <2>2 DEF Inv, HistoryExplainsGrade, h
    <3>3. Append(h, e)[1].previous = None
      BY <1>3, <1>a, <3>2
    <3>4. ASSUME NEW i \in 2 .. Len(Append(h, e))
          PROVE  Append(h, e)[i].previous = Append(h, e)[i - 1].new
      <4>1. i - 1 \in 1 .. Len(h) /\ Append(h, e)[i - 1] = h[i - 1]
        BY <1>3, <1>a
      <4>2. CASE i = Len(h) + 1
        <5>1. i - 1 = Len(h)
          BY <1>3, <4>2
        <5> QED
          BY <1>7, <1>a, <3>2, <4>1, <4>2, <5>1
      <4>3. CASE i # Len(h) + 1
        <5>1. i \in 2 .. Len(h) /\ i \in 1 .. Len(h)
          BY <1>3, <1>a, <4>3
        <5> QED
          BY <1>a, <3>2, <4>1, <5>1
      <4> QED
        BY <4>2, <4>3
    <3>5. Append(h, e)[Len(Append(h, e))].new = req[r].new.score
      BY <1>7, <1>a
    <3> QED
      BY <3>1, <3>3, <3>4, <3>5
  <2> QED
    BY <2>1, <2>2
<1> QED
  BY <1>9, <1>10, <1>11, <1>12, <1>13, <1>14, <1>15 DEF Inv, TypeInv

-----------------------------------------------------------------------------
(***************************************************************************)
(* The invariant and what follows from it.                                 *)
(***************************************************************************)

LEMMA StepInv == Inv /\ [Next]_vars => Inv'
<1> SUFFICES ASSUME Inv, [Next]_vars PROVE Inv'
  OBVIOUS
<1>1. CASE UNCHANGED vars
  BY <1>1
  DEF vars, Inv, TypeInv, TypeOK, RecordOK, PendingInv, SnapshotInv, GradesAreOfEnrolled,
      OneInitialRecord, HistoryExplainsGrade, MayWrite, Graded, PairOf
<1>2. ASSUME NEW r \in Requests, Begin(r) PROVE Inv'
  BY <1>2, CourseCreateInv, CourseLoadInv, EnrolSelectInv, GradeAuthorizeInv,
     UpdateSelectInv
  DEF Begin
<1>3. ASSUME NEW r \in Requests, Refused(r) \/ Fail(r) PROVE Inv'
  BY <1>3, FinishInv DEF Refused, Fail
<1>4. ASSUME NEW r \in Requests, Continue(r) PROVE Inv'
  BY <1>3, <1>4, MovesInv, CourseCommitInv, CourseSaveInv, EnrolCommitInv, GradeCommitInv,
     UpdateSaveInv
  DEF Continue
<1> QED
  BY <1>1, <1>2, <1>3, <1>4 DEF Next

LEMMA Invariance == Spec => []Inv
  BY InitInv, StepInv, PTL DEF Spec

\* Every variable has its type, and a request's record what its handler has read
\* into it by then.
THEOREM TypeCorrect == Spec => []TypeOK
  BY Invariance, PTL DEF Inv, TypeInv

\* Whatever interleaves between create_grade's look for the enrolment and its
\* commit, a committed grade is one of an enrolled student, on a course that has a
\* teacher, and its history was committed with it.
THEOREM GradesCorrect == Spec => []GradesAreOfEnrolled
  BY Invariance, PTL DEF Inv

\* The unique key on grades is what makes it true: two create_grade that both find no
\* grade never leave two initial records.
THEOREM InitialRecordCorrect == Spec => []OneInitialRecord
  BY Invariance, PTL DEF Inv

\* The history that update_grade keeps explains the score of every grade on which no
\* two update_grade overlapped.
THEOREM HistoryCorrect == Spec => []HistoryExplainsGrade
  BY Invariance, PTL DEF Inv

\* No request is past its authorization whose user was at no time since it began
\* allowed to write to the course.
THEOREM EntitledCorrect == Spec => []OnlyEntitledWrite
<1>1. Inv => OnlyEntitledWrite
  BY DEF Inv, TypeInv, RecordOK, OnlyEntitledWrite, WriteSteps
<1> QED
  BY <1>1, Invariance, PTL

\* update_grade stores the score and the letter it was asked to, on a grade on which
\* no two overlapped.
THEOREM UpdateCorrect == Spec => UpdateTakesEffect
<1>1. Inv /\ [Next]_vars =>
        [\A r \in Requests : UpdateSave(r) /\ PairOf(r) \notin contested' =>
            grade'[PairOf(r)] = req[r].new]_vars
  <2> SUFFICES ASSUME Inv, NEW r \in Requests, UpdateSave(r), PairOf(r) \notin contested'
               PROVE  grade'[PairOf(r)] = req[r].new
    OBVIOUS
  <2> DEFINE p == PairOf(r)
  <2>1. RecordOK(req[r]) /\ req[r].pc = "update_save" /\ p \notin contested
    BY DEF UpdateSave, Inv, TypeInv
  <2>2. p \in Pairs /\ grade[p] \in Grade /\ req[r].new \in Grade
    BY <2>1 DEF RecordOK, PairOf, UpdateSteps, Graded, Inv, TypeInv, TypeOK
  <2>3. grade[p] = req[r].loaded
    BY <2>1 DEF Inv, SnapshotInv, UpdateSteps
  <2>4. grade'[p] = Flushed(grade[p], req[r].loaded, req[r].new)
    BY <2>2 DEF UpdateSave, Inv, TypeInv, TypeOK
  <2> QED
    BY <2>2, <2>3, <2>4, FlushedCurrent
<1> QED
  BY <1>1, Invariance, PTL DEF Spec, UpdateTakesEffect

-----------------------------------------------------------------------------
(***************************************************************************)
(* Waiting.  Requests wait for a row that another has inserted under the   *)
(* same key, or updated, and not yet committed; whoever holds such a row   *)
(* waits for nothing, and no request goes back.                            *)
(***************************************************************************)

\* The guards of the steps in Continue.
CanContinue(r) ==
    LET x == req[r] IN
    \/ x.pc = "course_insert" /\ (teacher[x.course] # None \/ ~ CoursePending(x.course))
    \/ x.pc = "course_flush" /\ (x.new # x.loaded => ~ CourseLocked(x.course))
    \/ x.pc = "enrol_insert" /\ (PairOf(r) \in enrolled \/ ~ EnrolPending(PairOf(r)))
    \/ x.pc = "grade_insert" /\ (PairOf(r) \in Graded \/ ~ GradePending(PairOf(r)))
    \/ x.pc \in {"course_commit", "course_save", "enrol_auth", "enrol_check",
                 "enrol_commit", "grade_check", "grade_commit", "update_auth",
                 "update_save"}

\* Request r waits for q to commit or roll back.
WaitsFor(r, q) ==
    /\ req[q].course = req[r].course
    /\ \/ req[r].pc = "course_insert" /\ req[q].pc = "course_commit"
       \/ req[r].pc = "course_flush" /\ req[q].pc = "course_save"
       \/ /\ req[q].student = req[r].student
          /\ \/ req[r].pc = "enrol_insert" /\ req[q].pc = "enrol_commit"
             \/ req[r].pc = "grade_insert" /\ req[q].pc = "grade_commit"

StepsLeft(pc) ==
    IF pc = "enrol_auth" THEN 4
    ELSE IF pc \in {"enrol_check", "grade_check"} THEN 3
    ELSE IF pc \in {"course_insert", "course_flush", "enrol_insert", "grade_insert",
                    "update_auth"} THEN 2
    ELSE IF pc = "idle" THEN 0 ELSE 1

\* CanContinue is what the steps of a request ask for, no less.
LEMMA GuardsKept == ASSUME TypeOK, NEW r \in Requests, Continue(r) PROVE CanContinue(r)
BY DEF Continue, CanContinue, CourseInsert, CourseCommit, CourseFlush, CourseSave,
       EnrolAuthorize, EnrolCheck, EnrolInsert, EnrolCommit, GradeCheck, GradeInsert,
       GradeCommit, UpdateAuthorize, UpdateSave, Refused, Graded, PairOf, Pairs

\* A request that has begun can go on or waits for one that can: no two wait for each
\* other, however many interleave (the unique keys of course_service.py and
\* grade_service.py and the row locks of their flushes).
THEOREM NoCircularWait ==
    Spec => [](\A r \in Requests : req[r].pc # "idle" =>
                  \/ CanContinue(r)
                  \/ \E q \in Requests : WaitsFor(r, q) /\ CanContinue(q))
<1>1. ASSUME Inv, NEW r \in Requests, req[r].pc # "idle", ~ CanContinue(r)
      PROVE  \E q \in Requests : WaitsFor(r, q) /\ CanContinue(q)
  <2>1. req[r].pc \in {"course_insert", "course_flush", "enrol_insert", "grade_insert"}
    BY <1>1 DEF CanContinue, Inv, TypeInv, TypeOK, Request, Steps
  <2>2. CASE req[r].pc = "course_insert"
    BY <1>1, <2>2 DEF CanContinue, CoursePending, WaitsFor
  <2>3. CASE req[r].pc = "course_flush"
    BY <1>1, <2>3 DEF CanContinue, CourseLocked, WaitsFor
  <2>4. CASE req[r].pc = "enrol_insert"
    BY <1>1, <2>4 DEF CanContinue, EnrolPending, PairOf, WaitsFor
  <2>5. CASE req[r].pc = "grade_insert"
    BY <1>1, <2>5 DEF CanContinue, GradePending, PairOf, WaitsFor
  <2> QED
    BY <2>1, <2>2, <2>3, <2>4, <2>5
<1>2. Inv => \A r \in Requests : req[r].pc # "idle" =>
                  \/ CanContinue(r)
                  \/ \E q \in Requests : WaitsFor(r, q) /\ CanContinue(q)
  BY <1>1
<1> QED
  BY <1>2, Invariance, PTL

\* A request that has begun only goes forward, four steps at most, and no step of
\* another sets it back: with NoCircularWait, this is why every request can be answered.
THEOREM RequestsGoForward ==
    Spec => [][\A r \in Requests :
                  /\ Continue(r) => StepsLeft(req'[r].pc) < StepsLeft(req[r].pc)
                  /\ req[r].pc # "idle" /\ req'[r].pc # req[r].pc =>
                         StepsLeft(req'[r].pc) < StepsLeft(req[r].pc)]_vars
<1> DEFINE Less(r) == StepsLeft(req'[r].pc) < StepsLeft(req[r].pc)
           Others(r) == \A q \in Requests : q # r => req'[q].pc = req[q].pc
<1>1. ASSUME TypeOK, NEW r \in Requests, Continue(r) PROVE Less(r) /\ Others(r)
  <2>0. req \in [Requests -> Request] /\ Idle.pc = "idle"
    BY <1>1 DEF TypeOK, Idle
  <2>1. ASSUME NEW pc, Move(r, pc), StepsLeft(pc) < StepsLeft(req[r].pc)
        PROVE  Less(r) /\ Others(r)
    BY <2>0, <2>1 DEF Move, Request
  <2>2. ASSUME Finish(r), req[r].pc # "idle" PROVE Less(r) /\ Others(r)
    BY <2>0, <2>2 DEF Finish, StepsLeft
  <2>3. CASE CourseInsert(r)
    BY <2>1, <2>3 DEF CourseInsert, StepsLeft
  <2>4. CASE CourseFlush(r)
    BY <2>1, <2>4 DEF CourseFlush, StepsLeft
  <2>5. CASE CourseSave(r)
    BY <2>0, <2>5 DEF CourseSave, StepsLeft, Request
  <2>6. CASE EnrolAuthorize(r)
    BY <2>1, <2>6 DEF EnrolAuthorize, StepsLeft
  <2>7. CASE EnrolCheck(r)
    BY <2>1, <2>7 DEF EnrolCheck, StepsLeft
  <2>8. CASE EnrolInsert(r)
    BY <2>1, <2>8 DEF EnrolInsert, StepsLeft
  <2>9. CASE GradeCheck(r)
    BY <2>1, <2>9 DEF GradeCheck, StepsLeft
  <2>10. CASE GradeInsert(r)
    BY <2>1, <2>10 DEF GradeInsert, StepsLeft
  <2>11. CASE UpdateAuthorize(r)
    BY <2>1, <2>11 DEF UpdateAuthorize, StepsLeft
  <2>12. CASE CourseCommit(r) \/ EnrolCommit(r) \/ GradeCommit(r) \/ UpdateSave(r) \/ Refused(r)
    BY <2>2, <2>12 DEF CourseCommit, EnrolCommit, GradeCommit, UpdateSave, Refused
  <2> QED
    BY <1>1, <2>3, <2>4, <2>5, <2>6, <2>7, <2>8, <2>9, <2>10, <2>11, <2>12 DEF Continue
<1>2. ASSUME TypeOK, NEW r \in Requests, Fail(r) PROVE Less(r) /\ Others(r)
  BY <1>2 DEF Fail, Finish, Idle, StepsLeft, TypeOK
<1>3. ASSUME TypeOK, NEW r \in Requests, Begin(r)
      PROVE  Others(r) /\ req[r].pc = "idle"
  <2>1. /\ req[r].pc = "idle"
        /\ \E x : req' = [req EXCEPT ![r] = x]
    <3>1. ASSUME NEW u \in Users, NEW c \in Courses, NEW t \in Teachers,
                 CourseCreate(r, u, c, t) \/ CourseLoad(r, u, c, t)
          PROVE  req[r].pc = "idle" /\ \E x : req' = [req EXCEPT ![r] = x]
      BY <3>1 DEF CourseCreate, CourseLoad
    <3>2. ASSUME NEW u \in Users, NEW s \in Students, NEW c \in Courses,
                 EnrolSelect(r, u, s, c)
          PROVE  req[r].pc = "idle" /\ \E x : req' = [req EXCEPT ![r] = x]
      BY <3>2 DEF EnrolSelect
    <3>3. ASSUME NEW u \in Users, NEW s \in Students, NEW c \in Courses, NEW g \in Grade,
                 GradeAuthorize(r, u, s, c, g) \/ UpdateSelect(r, u, <<s, c>>, g)
          PROVE  req[r].pc = "idle" /\ \E x : req' = [req EXCEPT ![r] = x]
      BY <3>3 DEF GradeAuthorize, UpdateSelect
    <3> QED
      BY <1>3, <3>1, <3>2, <3>3 DEF Begin
  <2> QED
    BY <1>3, <2>1 DEF TypeOK
<1>4. TypeOK /\ [Next]_vars =>
         [\A r \in Requests : /\ Continue(r) => Less(r)
                              /\ req[r].pc # "idle" /\ req'[r].pc # req[r].pc => Less(r)]_vars
  BY <1>1, <1>2, <1>3 DEF Next
<1> QED
  BY <1>4, TypeCorrect, PTL DEF Spec

=============================================================================
