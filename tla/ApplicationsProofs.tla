------------------------- MODULE ApplicationsProofs -------------------------
(***************************************************************************)
(* Proofs about Applications for any numbers of users, applications and    *)
(* concurrent requests.  The inductive invariant says what a request that  *)
(* reviews an application has in memory: a row it loaded in an open state, *)
(* changed in its status and reviewer only; and, as long as nobody else    *)
(* has loaded the application, the row it loaded is still the committed    *)
(* one.                                                                    *)
(***************************************************************************)
EXTENDS Applications, FiniteSetTheorems, TLAPS

Reviewing(r) == req[r].pc \notin {"idle", "submit"}

\* What the row in memory is, compared with the row loaded and the one committed.
Memory(r) ==
    LET l == req[r].loaded
        w == req[r].row
        a == app[req[r].id]
    IN
    /\ w.applicant = l.applicant /\ w.program = l.program /\ w.student = l.student
    /\ a.applicant = l.applicant
    /\ w.reviewer \in Users \ {l.applicant}
    /\ <<l.status, w.status>> \in
          {<<"PENDING", "UNDER_REVIEW">>, <<"UNDER_REVIEW", "REJECTED">>,
           <<"UNDER_REVIEW", "APPROVED">>}
    /\ req[r].pc = "save" <=> w.status # "APPROVED"
    /\ l.student # None => a.student = l.applicant
    /\ req[r].pc = "enroll" => l.applicant \in student

MemoryInv == \A r \in Requests : Reviewing(r) => Memory(r)

RowInv ==
    \A i \in Submitted :
        /\ app[i].student \in {None, app[i].applicant}
        /\ app[i].status = "ENROLLED" => /\ app[i].student = app[i].applicant
                                         /\ app[i].applicant \in student

\* Nobody holds an application that is not contested but one request, whose
\* snapshot of it is current.
SnapshotInv ==
    \A r \in Requests :
        Reviewing(r) /\ req[r].id \notin contested =>
            /\ req[r].loaded = app[req[r].id]
            /\ \A q \in Requests : Reviewing(q) /\ req[q].id = req[r].id => q = r

ResultInv ==
    \A i \in Submitted \ contested :
        (app[i].student # None) <=> (app[i].status = "ENROLLED")

Inv == TypeOK /\ MemoryInv /\ RowInv /\ SnapshotInv /\ ResultInv

-----------------------------------------------------------------------------
(***************************************************************************)
(* Helpers.                                                                *)
(***************************************************************************)

\* What the UPDATE of a loaded row does to each column that is not the key.
LEMMA FlushedRow ==
    ASSUME NEW a \in Row, NEW l \in Row, NEW w \in Row
    PROVE  /\ Flushed(a, l, w) \in Row
           /\ Flushed(a, l, w).applicant =
                 IF w.applicant # l.applicant THEN w.applicant ELSE a.applicant
           /\ Flushed(a, l, w).program =
                 IF w.program # l.program THEN w.program ELSE a.program
           /\ Flushed(a, l, w).status = IF w.status # l.status THEN w.status ELSE a.status
           /\ Flushed(a, l, w).reviewer =
                 IF w.reviewer # l.reviewer THEN w.reviewer ELSE a.reviewer
           /\ Flushed(a, l, w).student =
                 IF w.student # l.student THEN w.student ELSE a.student
<1>1. DOMAIN a = {"applicant", "program", "status", "reviewer", "student"}
  BY DEF Row
<1>2. Flushed(a, l, w) =
        [applicant |-> IF w.applicant # l.applicant THEN w.applicant ELSE a.applicant,
         program |-> IF w.program # l.program THEN w.program ELSE a.program,
         status |-> IF w.status # l.status THEN w.status ELSE a.status,
         reviewer |-> IF w.reviewer # l.reviewer THEN w.reviewer ELSE a.reviewer,
         student |-> IF w.student # l.student THEN w.student ELSE a.student]
  BY <1>1 DEF Flushed
<1> QED
  BY <1>2 DEF Row

LEMMA IdleType == Idle \in Request
  BY DEF Idle, Request, Steps

\* A request ends and no row changes.
LEMMA FinishInv ==
    ASSUME Inv, NEW r \in Requests, Finish(r),
           UNCHANGED <<app, student, contested, doubled>>
    PROVE  Inv'
<1>1. /\ req' \in [Requests -> Request]
      /\ \A q \in Requests : req'[q] = IF q = r THEN Idle ELSE req[q]
  BY IdleType DEF Inv, TypeOK, Finish
<1>2. \A q \in Requests : Reviewing(q)' => q # r /\ Reviewing(q) /\ req'[q] = req[q]
  BY <1>1 DEF Reviewing, Idle
<1>3. TypeOK'
  BY <1>1 DEF Inv, TypeOK, Idle
<1>5. MemoryInv'
  BY <1>2 DEF Inv, MemoryInv, Memory
<1>6. SnapshotInv'
  BY <1>2 DEF Inv, SnapshotInv
<1>7. RowInv' /\ ResultInv'
  BY DEF Inv, RowInv, ResultInv, Submitted
<1> QED
  BY <1>3, <1>5, <1>6, <1>7 DEF Inv

\* An approval goes on and no row changes.
LEMMA MoveInv ==
    ASSUME Inv, NEW r \in Requests, Reviewing(r), req[r].pc # "save",
           NEW pc \in {"student", "insert", "enroll", "enroll_new"},
           req' = [req EXCEPT ![r].pc = pc],
           pc = "enroll" => req[r].row.applicant \in student,
           UNCHANGED <<app, student, contested, doubled>>
    PROVE  Inv'
<1>1. /\ req' \in [Requests -> Request]
      /\ \A q \in Requests : /\ q # r => req'[q] = req[q]
                             /\ req'[q].id = req[q].id
                             /\ req'[q].loaded = req[q].loaded
                             /\ req'[q].row = req[q].row
                             /\ req'[q].user = req[q].user
                             /\ req'[q].program = req[q].program
      /\ req'[r].pc = pc
  BY DEF Inv, TypeOK, Request, Steps
<1>2. \A q \in Requests : Reviewing(q)' <=> Reviewing(q)
  BY <1>1 DEF Reviewing
<1>3. TypeOK'
  BY <1>1, <1>2 DEF Inv, TypeOK, Reviewing
<1>5. MemoryInv'
  <2> SUFFICES ASSUME NEW q \in Requests, Reviewing(q) PROVE Memory(q)'
    BY <1>2 DEF MemoryInv
  <2>1. Memory(q)
    BY DEF Inv, MemoryInv
  <2>2. CASE q = r
    BY <1>1, <2>1, <2>2 DEF Memory
  <2>3. CASE q # r
    BY <1>1, <2>1, <2>3 DEF Memory
  <2> QED
    BY <2>2, <2>3
<1>6. SnapshotInv'
  BY <1>1, <1>2 DEF Inv, SnapshotInv
<1>7. RowInv' /\ ResultInv'
  BY DEF Inv, RowInv, ResultInv, Submitted
<1> QED
  BY <1>3, <1>5, <1>6, <1>7 DEF Inv

\* What a commit that writes w over a reviewed application does to its row: it is
\* moved from what is committed, and if nobody else has it, from what was loaded.
LEMMA WriteRow ==
    ASSUME Inv, NEW r \in Requests, Reviewing(r), NEW w \in Row,
           w.applicant = req[r].row.applicant, w.program = req[r].row.program,
           w.reviewer = req[r].row.reviewer,
           \/ w.status = req[r].row.status /\ w.student = req[r].row.student
              /\ req[r].row.status # "APPROVED"
           \/ w.status = "ENROLLED" /\ w.student = w.applicant
              /\ req[r].row.status = "APPROVED",
           NEW a, a = app[req[r].id],
           NEW b, b = Flushed(a, req[r].loaded, w)
    PROVE  /\ req[r].id \in AppIds /\ a \in Row /\ b \in Row
           /\ b.applicant = a.applicant /\ b.program = a.program
           /\ b.status = w.status
           /\ b.status = "ENROLLED" <=> req[r].row.status = "APPROVED"
           /\ b.student \in {None, b.applicant}
           /\ a.student # None => b.student = a.student
           /\ b.status = "ENROLLED" => b.student = b.applicant
           /\ req[r].id \notin contested =>
                 /\ <<a.status, b.status>> \in Moves
                 /\ (b.student # None) <=> (b.status = "ENROLLED")
                 /\ b.reviewer \in Users \ {b.applicant}
<1> DEFINE i == req[r].id
           l == req[r].loaded
<1>1. i \in AppIds /\ a \in Row /\ l \in Row /\ req[r].row \in Row
  BY DEF Inv, TypeOK, Reviewing
<1>2. Memory(r)
  BY DEF Inv, MemoryInv
<1>3. /\ b \in Row
      /\ b.applicant = IF w.applicant # l.applicant THEN w.applicant ELSE a.applicant
      /\ b.program = IF w.program # l.program THEN w.program ELSE a.program
      /\ b.status = IF w.status # l.status THEN w.status ELSE a.status
      /\ b.reviewer = IF w.reviewer # l.reviewer THEN w.reviewer ELSE a.reviewer
      /\ b.student = IF w.student # l.student THEN w.student ELSE a.student
  BY <1>1, FlushedRow
<1>4. /\ l.status \in {"PENDING", "UNDER_REVIEW"}
      /\ w.status # l.status
      /\ w.status = "ENROLLED" <=> req[r].row.status = "APPROVED"
      /\ w.applicant = l.applicant /\ a.applicant = l.applicant
      /\ w.program = l.program
      /\ w.reviewer \in Users \ {l.applicant}
      /\ l.student # None => a.student = l.applicant
      /\ \/ w.student = l.student
         \/ w.status = "ENROLLED" /\ w.student = w.applicant
  <2>1. /\ l.status \in {"PENDING", "UNDER_REVIEW"}
        /\ req[r].row.status # l.status
        /\ req[r].row.status # "ENROLLED"
        /\ l.status # "ENROLLED"
    BY <1>2 DEF Memory
  <2>2. /\ w.applicant = l.applicant /\ a.applicant = l.applicant
        /\ w.program = l.program
        /\ w.reviewer \in Users \ {l.applicant}
        /\ l.student # None => a.student = l.applicant
        /\ req[r].row.student = l.student
    BY <1>2 DEF Memory
  <2> QED
    BY <2>1, <2>2
<1>5. a # None
  BY <1>1, RowAssumption
<1>6. a.student \in {None, a.applicant}
  BY <1>1, <1>5 DEF Inv, RowInv, Submitted
<1>7. l.applicant \in Users /\ l.applicant # None
  BY <1>1, NoneAssumption DEF Row
<1>8. ASSUME i \notin contested
      PROVE  /\ l = a
             /\ <<a.status, b.status>> \in Moves
             /\ (b.student # None) <=> (b.status = "ENROLLED")
             /\ b.reviewer \in Users \ {b.applicant}
  <2>1. l = a
    BY <1>8 DEF Inv, SnapshotInv
  <2>2. a.student = None
    BY <1>1, <1>4, <1>5, <1>8, <2>1 DEF Inv, ResultInv, Submitted
  <2>3. <<a.status, b.status>> \in Moves
    BY <1>2, <1>3, <1>4, <2>1 DEF Memory, Moves
  <2> QED
    BY <1>3, <1>4, <1>7, <2>1, <2>2, <2>3
<1>9. b.status = w.status /\ b.applicant = a.applicant /\ b.program = a.program
  BY <1>3, <1>4
<1>10. b.student \in {None, b.applicant} /\ (a.student # None => b.student = a.student)
  BY <1>3, <1>4, <1>6, <1>7, <1>9
<1>11. b.status = "ENROLLED" => b.student = b.applicant
  BY <1>3, <1>4, <1>6, <1>7, <1>9
<1> QED
  BY <1>1, <1>3, <1>4, <1>8, <1>9, <1>10, <1>11

\* A commit that writes over a reviewed application keeps the invariant.
LEMMA WriteInv ==
    ASSUME Inv, NEW r \in Requests, Reviewing(r), NEW w \in Row,
           w.applicant = req[r].row.applicant, w.program = req[r].row.program,
           w.reviewer = req[r].row.reviewer,
           \/ w.status = req[r].row.status /\ w.student = req[r].row.student
              /\ req[r].row.status # "APPROVED"
           \/ w.status = "ENROLLED" /\ w.student = w.applicant
              /\ req[r].row.status = "APPROVED",
           w.status = "ENROLLED" => w.applicant \in student',
           student \subseteq student', student' \subseteq Users,
           app' = [app EXCEPT ![req[r].id] = Flushed(@, req[r].loaded, w)],
           Finish(r),
           UNCHANGED <<contested, doubled>>
    PROVE  Inv'
<1> DEFINE i == req[r].id
           a == app[i]
           b == Flushed(a, req[r].loaded, w)
<1>1. /\ i \in AppIds /\ a \in Row /\ b \in Row
      /\ b.applicant = a.applicant
      /\ b.status = w.status
      /\ b.student \in {None, b.applicant}
      /\ a.student # None => b.student = a.student
      /\ b.status = "ENROLLED" => b.student = b.applicant
      /\ i \notin contested => (b.student # None) <=> (b.status = "ENROLLED")
  <2>1. /\ i \in AppIds /\ a \in Row /\ b \in Row
        /\ b.applicant = a.applicant /\ b.program = a.program
        /\ b.status = w.status
        /\ b.student \in {None, b.applicant}
        /\ a.student # None => b.student = a.student
        /\ b.status = "ENROLLED" => b.student = b.applicant
        /\ i \notin contested =>
              /\ <<a.status, b.status>> \in Moves
              /\ (b.student # None) <=> (b.status = "ENROLLED")
              /\ b.reviewer \in Users \ {b.applicant}
    BY WriteRow
  <2> QED
    BY <2>1
<1> HIDE DEF b
<1>2. /\ app' \in [AppIds -> Row \cup {None}]
      /\ \A j \in AppIds : app'[j] = IF j = i THEN b ELSE app[j]
  BY <1>1 DEF Inv, TypeOK, b
<1>3. /\ req' \in [Requests -> Request]
      /\ \A q \in Requests : req'[q] = IF q = r THEN Idle ELSE req[q]
  BY IdleType DEF Inv, TypeOK, Finish
<1>4. \A q \in Requests : Reviewing(q)' => q # r /\ Reviewing(q) /\ req'[q] = req[q]
  BY <1>3 DEF Reviewing, Idle
<1>5. a # None /\ b # None
  BY <1>1, RowAssumption
<1>6. Submitted' = Submitted
  BY <1>2, <1>5 DEF Submitted
<1>7. TypeOK'
  <2>1. \A q \in Requests : req'[q].pc \notin {"idle", "submit"} =>
            /\ req'[q].id \in AppIds
            /\ app'[req'[q].id] \in Row
            /\ req'[q].loaded \in Row /\ req'[q].row \in Row
    BY <1>1, <1>2, <1>4 DEF Inv, TypeOK, Reviewing
  <2>2. \A q \in Requests : req'[q].pc = "submit" =>
            req'[q].user \in Users /\ req'[q].program \in Programs
    BY <1>3 DEF Inv, TypeOK, Idle
  <2> QED
    BY <1>2, <1>3, <2>1, <2>2 DEF Inv, TypeOK
<1>9. MemoryInv'
  <2> SUFFICES ASSUME NEW q \in Requests, Reviewing(q)' PROVE Memory(q)'
    BY DEF MemoryInv
  <2>1. Memory(q) /\ req'[q] = req[q] /\ req[q].id \in AppIds
    BY <1>4 DEF Inv, MemoryInv, TypeOK, Reviewing
  <2>2. CASE req[q].id = i
    <3>1. app'[req'[q].id] = b /\ app[req[q].id] = a
      BY <1>1, <1>2, <2>1, <2>2
    <3>2. a.applicant = req[q].loaded.applicant
      BY <2>1, <3>1 DEF Memory
    <3>3. req[q].loaded.student # None => b.student = req[q].loaded.applicant
      <4>1. req[q].loaded \in Row
        BY <1>4 DEF Inv, TypeOK, Reviewing
      <4>2. req[q].loaded.applicant # None
        BY <4>1, NoneAssumption DEF Row
      <4> QED
        BY <1>1, <2>1, <3>1, <4>2 DEF Memory
    <3> QED
      BY <1>1, <2>1, <3>1, <3>2, <3>3 DEF Memory
  <2>3. CASE req[q].id # i
    <3>1. app'[req'[q].id] = app[req[q].id]
      BY <1>2, <2>1, <2>3
    <3> QED
      BY <2>1, <3>1 DEF Memory
  <2> QED
    BY <2>2, <2>3
<1>10. RowInv'
  <2> SUFFICES ASSUME NEW j \in Submitted
               PROVE  /\ app'[j].student \in {None, app'[j].applicant}
                      /\ app'[j].status = "ENROLLED" =>
                            /\ app'[j].student = app'[j].applicant
                            /\ app'[j].applicant \in student'
    BY <1>6 DEF RowInv
  <2>1. CASE j = i
    <3>1. app'[j] = b
      BY <1>2, <2>1 DEF Submitted
    <3>2. w.applicant = b.applicant
      BY <1>1 DEF Inv, MemoryInv, Memory
    <3> QED
      BY <1>1, <3>1, <3>2
  <2>2. CASE j # i
    <3>1. app'[j] = app[j]
      BY <1>2, <2>2 DEF Submitted
    <3> QED
      BY <3>1 DEF Inv, RowInv
  <2> QED
    BY <2>1, <2>2
<1>11. SnapshotInv'
  <2> SUFFICES ASSUME NEW q \in Requests, Reviewing(q)', req'[q].id \notin contested
               PROVE  /\ req'[q].loaded = app'[req'[q].id]
                      /\ \A p \in Requests :
                            Reviewing(p)' /\ req'[p].id = req'[q].id => p = q
    BY DEF SnapshotInv
  <2>1. q # r /\ Reviewing(q) /\ req'[q] = req[q]
    BY <1>4
  <2>2. /\ req[q].loaded = app[req[q].id]
        /\ \A p \in Requests : Reviewing(p) /\ req[p].id = req[q].id => p = q
    BY <2>1 DEF Inv, SnapshotInv
  <2>3. req[q].id # i
    BY <2>1, <2>2
  <2>4. req[q].id \in AppIds
    BY <2>1 DEF Inv, TypeOK, Reviewing
  <2>5. app'[req'[q].id] = app[req[q].id]
    BY <1>2, <2>1, <2>3, <2>4
  <2> QED
    BY <1>4, <2>1, <2>2, <2>5
<1>12. ResultInv'
  BY <1>1, <1>2, <1>6 DEF Inv, ResultInv, Submitted
<1> QED
  BY <1>7, <1>9, <1>10, <1>11, <1>12 DEF Inv

-----------------------------------------------------------------------------
(***************************************************************************)
(* The invariant.                                                          *)
(***************************************************************************)

LEMMA InitInv == Init => Inv
<1> SUFFICES ASSUME Init PROVE Inv
  OBVIOUS
<1>1. Submitted = {}
  BY DEF Init, Submitted
<1>2. TypeOK
  BY IdleType DEF Init, TypeOK, Idle
<1>3. \A r \in Requests : ~ Reviewing(r)
  BY DEF Init, Reviewing, Idle
<1> QED
  BY <1>1, <1>2, <1>3 DEF Inv, MemoryInv, RowInv, SnapshotInv, ResultInv

LEMMA SubmitCountInv ==
    ASSUME Inv, NEW r \in Requests, NEW u \in Users, NEW p \in Programs,
           SubmitCount(r, u, p)
    PROVE  Inv'
<1> DEFINE new == [Idle EXCEPT !.pc = "submit", !.user = u, !.program = p]
<1>1. /\ new \in Request
      /\ new.pc = "submit" /\ new.user = u /\ new.program = p
  BY DEF Idle, Request, Steps
<1>2. /\ req' \in [Requests -> Request]
      /\ \A q \in Requests : req'[q] = IF q = r THEN new ELSE req[q]
      /\ UNCHANGED <<app, student, contested>>
  BY <1>1 DEF Inv, TypeOK, SubmitCount
<1> HIDE DEF new
<1>3. \A q \in Requests : Reviewing(q)' => q # r /\ Reviewing(q) /\ req'[q] = req[q]
  BY <1>1, <1>2 DEF Reviewing
<1>4. doubled' \subseteq Users \X Programs
  BY DEF SubmitCount, Inv, TypeOK
<1>5. TypeOK'
  BY <1>1, <1>2, <1>4 DEF Inv, TypeOK
<1>6. MemoryInv'
  BY <1>2, <1>3 DEF Inv, MemoryInv, Memory
<1>7. SnapshotInv'
  BY <1>2, <1>3 DEF Inv, SnapshotInv
<1>8. RowInv' /\ ResultInv'
  BY <1>2 DEF Inv, RowInv, ResultInv, Submitted
<1> QED
  BY <1>5, <1>6, <1>7, <1>8 DEF Inv

LEMMA SubmitCommitInv ==
    ASSUME Inv, NEW r \in Requests, NEW i \in AppIds, SubmitCommit(r, i)
    PROVE  Inv'
<1> DEFINE b == [applicant |-> req[r].user, program |-> req[r].program,
                 status |-> "PENDING", reviewer |-> None, student |-> None]
<1>1. b \in Row /\ b.status = "PENDING" /\ b.student = None
  BY DEF Inv, TypeOK, SubmitCommit, Row, Status
<1>2. /\ app' \in [AppIds -> Row \cup {None}]
      /\ \A j \in AppIds : app'[j] = IF j = i THEN b ELSE app[j]
      /\ UNCHANGED <<student, contested, doubled>>
  BY <1>1 DEF Inv, TypeOK, SubmitCommit
<1> HIDE DEF b
<1>3. /\ req' \in [Requests -> Request]
      /\ \A q \in Requests : req'[q] = IF q = r THEN Idle ELSE req[q]
  BY IdleType DEF Inv, TypeOK, Finish, SubmitCommit
<1>4. \A q \in Requests : Reviewing(q)' => q # r /\ Reviewing(q) /\ req'[q] = req[q]
  BY <1>3 DEF Reviewing, Idle
<1>5. app[i] = None
  BY DEF SubmitCommit, Submitted
<1>6. \A q \in Requests : Reviewing(q) => /\ req[q].id \in AppIds
                                          /\ app'[req[q].id] = app[req[q].id]
                                          /\ app[req[q].id] \in Row
  BY <1>2, <1>5, RowAssumption DEF Inv, TypeOK, Reviewing
<1>7. TypeOK'
  <2>1. \A q \in Requests : req'[q].pc \notin {"idle", "submit"} =>
            /\ req'[q].id \in AppIds
            /\ app'[req'[q].id] \in Row
            /\ req'[q].loaded \in Row /\ req'[q].row \in Row
    BY <1>4, <1>6 DEF Inv, TypeOK, Reviewing
  <2>2. \A q \in Requests : req'[q].pc = "submit" =>
            req'[q].user \in Users /\ req'[q].program \in Programs
    BY <1>3 DEF Inv, TypeOK, Idle
  <2> QED
    BY <1>2, <1>3, <2>1, <2>2 DEF Inv, TypeOK
<1>8. MemoryInv'
  BY <1>2, <1>4, <1>6 DEF Inv, MemoryInv, Memory
<1>9. SnapshotInv'
  BY <1>2, <1>4, <1>6 DEF Inv, SnapshotInv
<1>10. RowInv' /\ ResultInv'
  BY <1>1, <1>2 DEF Inv, RowInv, ResultInv, Submitted
<1> QED
  BY <1>7, <1>8, <1>9, <1>10 DEF Inv

LEMMA ReviewSelectInv ==
    ASSUME Inv, NEW r \in Requests, NEW v \in Users, NEW i \in AppIds,
           NEW new \in Status, ReviewSelect(r, v, i, new)
    PROVE  Inv'
<1> DEFINE l == app[i]
           w == [l EXCEPT !.status = new, !.reviewer = v]
           pc == IF new = "APPROVED" THEN "approve" ELSE "save"
           R == [Idle EXCEPT !.pc = pc, !.user = v, !.id = i, !.loaded = l, !.row = w]
<1>1. l \in Row /\ l # None /\ i \in Submitted
  BY RowAssumption DEF Inv, TypeOK, ReviewSelect, Submitted
<1>2. /\ w \in Row
      /\ w.applicant = l.applicant /\ w.program = l.program
      /\ w.student = l.student
      /\ w.status = new /\ w.reviewer = v
  BY <1>1 DEF Row
<1>3. pc \in {"approve", "save"} /\ (pc = "save" <=> new # "APPROVED")
  OBVIOUS
<1> HIDE DEF w, pc
<1>4. /\ R \in Request
      /\ R.pc = pc /\ R.id = i /\ R.loaded = l /\ R.row = w
  BY <1>1, <1>2, <1>3 DEF Idle, Request, Steps
<1>5. /\ req' \in [Requests -> Request]
      /\ \A q \in Requests : req'[q] = IF q = r THEN R ELSE req[q]
      /\ UNCHANGED <<app, student, doubled>>
  BY <1>4 DEF Inv, TypeOK, ReviewSelect, w, pc
<1> HIDE DEF R
<1>6. \A q \in Requests : Reviewing(q)' <=> q = r \/ Reviewing(q)
  BY <1>3, <1>4, <1>5 DEF Reviewing
<1>7. contested \subseteq contested' /\ contested' \subseteq AppIds
  BY DEF Inv, TypeOK, ReviewSelect
<1>8. i \notin contested' => \A q \in Requests : req[q].id # i
  BY DEF ReviewSelect, Holding
<1>9. TypeOK'
  <2>1. \A q \in Requests : req'[q].pc \notin {"idle", "submit"} =>
            /\ req'[q].id \in AppIds
            /\ app'[req'[q].id] \in Row
            /\ req'[q].loaded \in Row /\ req'[q].row \in Row
    BY <1>1, <1>2, <1>4, <1>5 DEF Inv, TypeOK
  <2>2. \A q \in Requests : req'[q].pc = "submit" =>
            req'[q].user \in Users /\ req'[q].program \in Programs
    BY <1>3, <1>4, <1>5 DEF Inv, TypeOK
  <2> QED
    BY <1>5, <1>7, <2>1, <2>2 DEF Inv, TypeOK
<1>10. MemoryInv'
  <2> SUFFICES ASSUME NEW q \in Requests, Reviewing(q)' PROVE Memory(q)'
    BY DEF MemoryInv
  <2>1. CASE q = r
    <3>1. /\ v \in Users \ {l.applicant}
          /\ <<l.status, new>> \in {<<"PENDING", "UNDER_REVIEW">>,
                <<"UNDER_REVIEW", "REJECTED">>, <<"UNDER_REVIEW", "APPROVED">>}
      BY DEF ReviewSelect, Allowed
    <3>2. l.student # None => l.student = l.applicant
      BY <1>1 DEF Inv, RowInv
    <3>3. /\ req'[q].loaded = l /\ req'[q].row = w /\ app'[req'[q].id] = l
          /\ req'[q].pc = pc
      BY <1>4, <1>5, <2>1
    <3>4. req'[q].pc = "save" <=> req'[q].row.status # "APPROVED"
      BY <1>2, <1>3, <3>3
    <3>5. req'[q].pc # "enroll"
      BY <1>3, <3>3
    <3> HIDE DEF l
    <3> QED
      BY <1>2, <3>1, <3>2, <3>3, <3>4, <3>5 DEF Memory
  <2>2. CASE q # r
    BY <1>5, <1>6, <2>2 DEF Inv, MemoryInv, Memory
  <2> QED
    BY <2>1, <2>2
<1>11. SnapshotInv'
  <2> SUFFICES ASSUME NEW q \in Requests, Reviewing(q)', req'[q].id \notin contested'
               PROVE  /\ req'[q].loaded = app'[req'[q].id]
                      /\ \A p \in Requests :
                            Reviewing(p)' /\ req'[p].id = req'[q].id => p = q
    BY DEF SnapshotInv
  <2>1. CASE q = r
    BY <1>4, <1>5, <1>8, <2>1
  <2>2. CASE q # r
    <3>1. req'[q] = req[q] /\ Reviewing(q) /\ req[q].id \notin contested
      BY <1>5, <1>6, <1>7, <2>2
    <3>2. req[q].id # i
      BY <1>8, <3>1
    <3> QED
      BY <1>4, <1>5, <1>6, <3>1, <3>2 DEF Inv, SnapshotInv
  <2> QED
    BY <2>1, <2>2
<1>12. RowInv' /\ ResultInv'
  BY <1>5, <1>7 DEF Inv, RowInv, ResultInv, Submitted
<1> QED
  BY <1>9, <1>10, <1>11, <1>12 DEF Inv

LEMMA ReviewSaveInv ==
    ASSUME Inv, NEW r \in Requests, ReviewSave(r)
    PROVE  Inv'
<1>1. Reviewing(r) /\ req[r].row \in Row
  BY DEF Inv, TypeOK, ReviewSave, Reviewing
<1>2. Memory(r)
  BY <1>1 DEF Inv, MemoryInv
<1>3. req[r].row.status \notin {"APPROVED", "ENROLLED"}
  BY <1>2 DEF Memory, ReviewSave
<1>4. student' \subseteq Users
  BY DEF Inv, TypeOK, ReviewSave
<1> QED
  BY <1>1, <1>3, <1>4, WriteInv DEF ReviewSave

LEMMA ApproveCommitInv ==
    ASSUME Inv, NEW r \in Requests, ApproveCommit(r)
    PROVE  Inv'
<1> DEFINE u == req[r].row.applicant
           w == [req[r].row EXCEPT !.status = "ENROLLED", !.student = u]
<1>1. Reviewing(r) /\ req[r].row \in Row
  BY DEF Inv, TypeOK, ApproveCommit, Reviewing
<1>2. Memory(r)
  BY <1>1 DEF Inv, MemoryInv
<1>3. req[r].row.status = "APPROVED"
  BY <1>2 DEF Memory, ApproveCommit
<1>4. u \in Users
  BY <1>1 DEF Row
<1>5.   /\ w \in Row /\ w.applicant = u /\ w.reviewer = req[r].row.reviewer
        /\ w.program = req[r].row.program
      /\ w.status = "ENROLLED" /\ w.student = u
  BY <1>1, <1>4 DEF Row, Status
<1>6. u \in student' /\ student \subseteq student' /\ student' \subseteq Users
  BY <1>2, <1>4 DEF Inv, TypeOK, ApproveCommit, Memory
<1>7. /\ app' = [app EXCEPT ![req[r].id] = Flushed(@, req[r].loaded, w)]
      /\ Finish(r) /\ UNCHANGED <<contested, doubled>>
  BY DEF ApproveCommit
<1> HIDE DEF w
<1> QED
  BY <1>1, <1>3, <1>5, <1>6, <1>7, WriteInv

LEMMA StepInv == Inv /\ [Next]_vars => Inv'
<1> SUFFICES ASSUME Inv, [Next]_vars PROVE Inv'
  OBVIOUS
<1>1. CASE UNCHANGED vars
  BY <1>1 DEF vars, Inv, TypeOK, MemoryInv, Memory, RowInv, SnapshotInv, ResultInv,
              Reviewing, Submitted
<1>2. ASSUME NEW r \in Requests, Begin(r) PROVE Inv'
  <2>1. ASSUME NEW u \in Users, NEW p \in Programs, SubmitCount(r, u, p) PROVE Inv'
    BY <2>1, SubmitCountInv
  <2>2. ASSUME NEW v \in Users, NEW i \in AppIds, NEW new \in Status,
               ReviewSelect(r, v, i, new)
        PROVE  Inv'
    BY <2>2, ReviewSelectInv
  <2>3. CASE UNCHANGED vars
    BY <1>1, <2>3
  <2> QED
    BY <1>2, <2>1, <2>2, <2>3 DEF Begin, SubmitRefuse, ReviewRefuse
<1>3. ASSUME NEW r \in Requests, Continue(r) PROVE Inv'
  <2>1. CASE \E i \in AppIds : SubmitCommit(r, i)
    BY <2>1, SubmitCommitInv
  <2>2. CASE ReviewSave(r)
    BY <2>2, ReviewSaveInv
  <2>3. CASE ApproveFlush(r)
    <3>1. Reviewing(r) /\ req[r].pc # "save"
      BY <2>3 DEF ApproveFlush, Reviewing
    <3> QED
      BY <2>3, <3>1, MoveInv DEF ApproveFlush
  <2>4. CASE ApproveStudent(r)
    <3>1. Reviewing(r) /\ req[r].pc # "save"
      BY <2>4 DEF ApproveStudent, Reviewing
    <3> QED
      BY <2>4, <3>1, MoveInv DEF ApproveStudent
  <2>5. CASE ApproveInsert(r)
    <3>1. Reviewing(r) /\ req[r].pc # "save"
      BY <2>5 DEF ApproveInsert, Reviewing
    <3> QED
      BY <2>5, <3>1, MoveInv DEF ApproveInsert
  <2>6. CASE ApproveConflict(r)
    BY <2>6, FinishInv DEF ApproveConflict
  <2>7. CASE ApproveCommit(r)
    BY <2>7, ApproveCommitInv
  <2> QED
    BY <1>3, <2>1, <2>2, <2>3, <2>4, <2>5, <2>6, <2>7 DEF Continue
<1>4. ASSUME NEW r \in Requests, Fail(r) PROVE Inv'
  BY <1>4, FinishInv DEF Fail
<1> QED
  BY <1>1, <1>2, <1>3, <1>4 DEF Next

LEMMA Invariance == Spec => []Inv
  BY InitInv, StepInv, PTL DEF Spec

-----------------------------------------------------------------------------
(***************************************************************************)
(* One open application.  A request that has counted is either still alone *)
(* with its applicant and program, which have no open application, or they *)
(* are excused.                                                            *)
(***************************************************************************)

\* The two exceptions that OneOpenApplication makes.
Excused(u, p) ==
    \/ <<u, p>> \in doubled
    \/ \E k \in contested : app[k].applicant = u /\ app[k].program = p

SubmitInv ==
    \A r \in Submitting :
        LET u == req[r].user
            p == req[r].program
        IN  \/ Excused(u, p)
            \/ /\ OpenOf(u, p) = {}
               /\ \A q \in Submitting : req[q].user = u /\ req[q].program = p => q = r

OpenInv == contested \subseteq Submitted /\ OneOpenApplication /\ SubmitInv

LEMMA OpenRows ==
    ASSUME TypeOK, NEW i \in Submitted, app[i].status \notin Closed
    PROVE  i \in OpenOf(app[i].applicant, app[i].program)
<1>1. app[i] \in Row
  BY DEF TypeOK, Submitted
<1> QED
  BY <1>1 DEF OpenOf, Row, Status, Closed

\* Nothing is submitted, and no application opens that is not contested.
LEMMA OpenKept ==
    ASSUME Inv, OpenInv, Submitted' = Submitted,
           contested \subseteq contested', contested' \subseteq Submitted,
           doubled \subseteq doubled',
           \A i \in Submitted : /\ app'[i].applicant = app[i].applicant
                                /\ app'[i].program = app[i].program
                                /\ i \notin contested' /\ app'[i].status \notin Closed
                                      => app[i].status \notin Closed,
           \A q \in Submitting' : q \in Submitting /\ req'[q] = req[q]
    PROVE  OpenInv'
<1>1. ASSUME NEW u, NEW p, Excused(u, p) PROVE Excused(u, p)'
  <2>1. CASE <<u, p>> \in doubled
    BY <2>1 DEF Excused
  <2>2. CASE \E k \in contested : app[k].applicant = u /\ app[k].program = p
    BY <2>2 DEF Excused
  <2> QED
    BY <1>1, <2>1, <2>2 DEF Excused
<1>2. ASSUME NEW u, NEW p, ~ Excused(u, p)' PROVE OpenOf(u, p)' \subseteq OpenOf(u, p)
  <2> SUFFICES ASSUME NEW i \in OpenOf(u, p)' PROVE i \in OpenOf(u, p)
    OBVIOUS
  <2>1. /\ i \in Submitted /\ app'[i].applicant = u /\ app'[i].program = p
        /\ app'[i].status \notin Closed
    BY DEF OpenOf, Closed
  <2>2. i \notin contested'
    BY <1>2, <2>1 DEF Excused
  <2> QED
    BY <2>1, <2>2, OpenRows DEF Inv
<1>3. OneOpenApplication'
  <2> SUFFICES ASSUME NEW i \in Submitted, NEW j \in Submitted, i # j,
                      app'[i].applicant = app'[j].applicant,
                      app'[i].program = app'[j].program,
                      {app'[i].status, app'[j].status} \cap Closed = {},
                      ~ Excused(app[i].applicant, app[i].program)'
               PROVE  FALSE
    BY DEF OneOpenApplication, Excused
  <2>1. i \notin contested' /\ j \notin contested'
    BY DEF Excused
  <2>2. {app[i].status, app[j].status} \cap Closed = {}
    BY <2>1
  <2>3. Excused(app[i].applicant, app[i].program)
    BY <2>2 DEF OpenInv, OneOpenApplication, Excused
  <2> QED
    BY <1>1, <2>3
<1>4. SubmitInv'
  <2> SUFFICES ASSUME NEW r \in Submitting', NEW u, NEW p,
                      u = req'[r].user, p = req'[r].program, ~ Excused(u, p)'
               PROVE  /\ OpenOf(u, p)' = {}
                      /\ \A q \in Submitting' :
                            req'[q].user = u /\ req'[q].program = p => q = r
    BY DEF SubmitInv, Excused, OpenOf
  <2>1. /\ OpenOf(u, p) = {}
        /\ \A q \in Submitting : req[q].user = u /\ req[q].program = p => q = r
    BY <1>1 DEF OpenInv, SubmitInv
  <2> QED
    BY <1>2, <2>1
<1> QED
  BY <1>3, <1>4 DEF OpenInv

\* A request goes on or ends, and no row changes.
LEMMA OpenSame ==
    ASSUME Inv, OpenInv, UNCHANGED <<app, contested, doubled>>,
           \A q \in Submitting' : q \in Submitting /\ req'[q] = req[q]
    PROVE  OpenInv'
<1>1. Submitted' = Submitted
  BY DEF Submitted
<1> QED
  BY <1>1, OpenKept DEF OpenInv

LEMMA OpenSubmitCount ==
    ASSUME Inv, OpenInv, NEW r \in Requests, NEW u \in Users, NEW p \in Programs,
           SubmitCount(r, u, p)
    PROVE  OpenInv'
<1> DEFINE Same(q) == req[q].user = u /\ req[q].program = p
<1>1. /\ req'[r].pc = "submit" /\ req'[r].user = u /\ req'[r].program = p
      /\ \A q \in Requests : q # r => req'[q] = req[q]
      /\ r \notin Submitting
  BY DEF SubmitCount, Inv, TypeOK, Idle, Submitting
<1>2. Submitting' = Submitting \cup {r}
  BY <1>1 DEF Submitting
<1>3. /\ UNCHANGED <<app, contested>> /\ doubled \subseteq doubled'
      /\ OpenOf(u, p) = {}
      /\ (\E q \in Submitting : Same(q)) => <<u, p>> \in doubled'
  BY DEF SubmitCount
<1>4. Submitted' = Submitted /\ \A x, y : OpenOf(x, y)' = OpenOf(x, y)
  BY <1>3 DEF Submitted, OpenOf
<1>5. \A x, y : Excused(x, y) => Excused(x, y)'
  BY <1>3 DEF Excused
<1>6. OneOpenApplication'
  BY <1>3, <1>4 DEF OpenInv, OneOpenApplication
<1>7. SubmitInv'
  <2> SUFFICES ASSUME NEW q \in Submitting', NEW x, NEW y,
                      x = req'[q].user, y = req'[q].program, ~ Excused(x, y)'
               PROVE  /\ OpenOf(x, y)' = {}
                      /\ \A s \in Submitting' :
                            req'[s].user = x /\ req'[s].program = y => s = q
    BY DEF SubmitInv, Excused, OpenOf
  <2>1. CASE q = r
    <3>1. x = u /\ y = p /\ <<u, p>> \notin doubled'
      BY <1>1, <2>1 DEF Excused
    <3>2. \A s \in Submitting : ~ Same(s)
      BY <1>3, <3>1
    <3> QED
      BY <1>1, <1>2, <1>3, <1>4, <2>1, <3>2 DEF Submitting
  <2>2. CASE q # r
    <3>1. q \in Submitting /\ req'[q] = req[q] /\ ~ Excused(x, y)
      BY <1>1, <1>2, <1>5, <2>2 DEF Submitting
    <3>2. /\ OpenOf(x, y) = {}
          /\ \A s \in Submitting : req[s].user = x /\ req[s].program = y => s = q
      BY <3>1 DEF OpenInv, SubmitInv
    <3>3. ~ Same(q)
      BY <1>3, <3>1 DEF Excused
    <3> QED
      BY <1>1, <1>2, <1>4, <3>1, <3>2, <3>3 DEF Submitting
  <2> QED
    BY <2>1, <2>2
<1> QED
  BY <1>3, <1>4, <1>6, <1>7 DEF OpenInv

LEMMA OpenSubmitCommit ==
    ASSUME Inv, OpenInv, NEW r \in Requests, NEW i \in AppIds, SubmitCommit(r, i)
    PROVE  OpenInv'
<1> DEFINE u == req[r].user
           p == req[r].program
           b == [applicant |-> u, program |-> p, status |-> "PENDING",
                 reviewer |-> None, student |-> None]
<1>1. /\ r \in Submitting /\ i \notin Submitted
      /\ UNCHANGED <<contested, doubled>>
  BY DEF SubmitCommit, Submitting
<1>2. b \in Row
  BY DEF SubmitCommit, Inv, TypeOK, Row, Status
<1>3. \A j \in AppIds : app'[j] = IF j = i THEN b ELSE app[j]
  BY DEF SubmitCommit, Inv, TypeOK
<1>b. b.applicant = u /\ b.program = p /\ b # None
  BY <1>2, RowAssumption
<1> HIDE DEF b
<1>4. Submitted' = Submitted \cup {i} /\ \A j \in Submitted : app'[j] = app[j]
  BY <1>1, <1>3, <1>b DEF Submitted
<1>5. Submitting' = Submitting \ {r} /\ \A q \in Submitting' : req'[q] = req[q]
  BY DEF SubmitCommit, Finish, Idle, Submitting, Inv, TypeOK
<1>6. \A x, y : Excused(x, y)' <=> Excused(x, y)
  BY <1>1, <1>4 DEF Excused, OpenInv
<1>7. app'[i] = b
  BY <1>3
<1>8. ASSUME NEW j \in Submitted, app[j].applicant = u, app[j].program = p,
             app[j].status \notin Closed
      PROVE  Excused(u, p)
  <2>1. j \in OpenOf(u, p)
    BY <1>8, OpenRows DEF Inv
  <2> QED
    BY <1>1, <2>1 DEF OpenInv, SubmitInv
<1>9. OneOpenApplication'
  <2> SUFFICES ASSUME NEW j \in Submitted', NEW k \in Submitted', j # k,
                      app'[j].applicant = app'[k].applicant,
                      app'[j].program = app'[k].program,
                      {app'[j].status, app'[k].status} \cap Closed = {},
                      NEW x, NEW y, x = app'[j].applicant, y = app'[j].program
               PROVE  Excused(x, y)'
    BY DEF OneOpenApplication, Excused
  <2>1. CASE j = i
    BY <1>4, <1>6, <1>7, <1>8, <1>b, <2>1
  <2>2. CASE k = i
    BY <1>4, <1>6, <1>7, <1>8, <1>b, <2>2
  <2>3. CASE j # i /\ k # i
    <3>1. /\ j \in Submitted /\ k \in Submitted
          /\ app'[j] = app[j] /\ app'[k] = app[k]
      BY <1>4, <2>3
    <3>2. Excused(x, y)
      BY <3>1 DEF OpenInv, OneOpenApplication, Excused
    <3> QED
      BY <1>6, <3>1, <3>2
  <2> QED
    BY <2>1, <2>2, <2>3
<1>10. SubmitInv'
  <2> SUFFICES ASSUME NEW q \in Submitting', NEW x, NEW y,
                      x = req'[q].user, y = req'[q].program, ~ Excused(x, y)'
               PROVE  /\ OpenOf(x, y)' = {}
                      /\ \A s \in Submitting' :
                            req'[s].user = x /\ req'[s].program = y => s = q
    BY DEF SubmitInv, Excused, OpenOf
  <2>1. /\ OpenOf(x, y) = {}
        /\ \A s \in Submitting : req[s].user = x /\ req[s].program = y => s = q
    BY <1>5, <1>6 DEF OpenInv, SubmitInv
  <2>2. ~ (x = u /\ y = p)
    BY <1>1, <1>5, <2>1
  <2>3. OpenOf(x, y)' = OpenOf(x, y)
    BY <1>4, <1>7, <1>b, <2>2 DEF OpenOf
  <2> QED
    BY <1>5, <2>1, <2>3
<1> QED
  BY <1>1, <1>4, <1>9, <1>10 DEF OpenInv

\* A commit that writes over a reviewed application.
LEMMA OpenWrite ==
    ASSUME Inv, OpenInv, NEW r \in Requests, Reviewing(r), NEW w \in Row,
           w.applicant = req[r].row.applicant, w.program = req[r].row.program,
           w.reviewer = req[r].row.reviewer,
           \/ w.status = req[r].row.status /\ w.student = req[r].row.student
              /\ req[r].row.status # "APPROVED"
           \/ w.status = "ENROLLED" /\ w.student = w.applicant
              /\ req[r].row.status = "APPROVED",
           app' = [app EXCEPT ![req[r].id] = Flushed(@, req[r].loaded, w)],
           Finish(r),
           UNCHANGED <<contested, doubled>>
    PROVE  OpenInv'
<1> DEFINE i == req[r].id
           a == app[i]
           b == Flushed(a, req[r].loaded, w)
<1>1. /\ i \in AppIds /\ a \in Row /\ b \in Row
      /\ b.applicant = a.applicant /\ b.program = a.program
      /\ i \notin contested => <<a.status, b.status>> \in Moves
  BY WriteRow
<1> HIDE DEF b
<1>2. \A j \in AppIds : app'[j] = IF j = i THEN b ELSE app[j]
  BY <1>1 DEF Inv, TypeOK, b
<1>3. Submitted' = Submitted
  BY <1>1, <1>2, RowAssumption DEF Submitted
<1>4. ASSUME NEW j \in Submitted
      PROVE  /\ app'[j].applicant = app[j].applicant
             /\ app'[j].program = app[j].program
             /\ j \notin contested' /\ app'[j].status \notin Closed
                   => app[j].status \notin Closed
  <2>1. CASE j = i
    BY <1>1, <1>2, <2>1 DEF Moves, Closed
  <2>2. CASE j # i
    BY <1>2, <2>2 DEF Submitted
  <2> QED
    BY <2>1, <2>2
<1>5. \A q \in Submitting' : q \in Submitting /\ req'[q] = req[q]
  BY DEF Finish, Idle, Submitting, Inv, TypeOK
<1> QED
  BY <1>3, <1>4, <1>5, OpenKept DEF OpenInv

LEMMA OpenReviewSelect ==
    ASSUME Inv, OpenInv, NEW r \in Requests, NEW v \in Users, NEW i \in AppIds,
           NEW new \in Status, ReviewSelect(r, v, i, new)
    PROVE  OpenInv'
<1>1. /\ UNCHANGED <<app, doubled>> /\ contested \subseteq contested'
      /\ contested' \subseteq Submitted
  BY DEF ReviewSelect, OpenInv
<1>2. Submitted' = Submitted
  BY <1>1 DEF Submitted
<1>3. \A q \in Submitting' : q \in Submitting /\ req'[q] = req[q]
  BY DEF ReviewSelect, Idle, Submitting, Inv, TypeOK
<1> QED
  BY <1>1, <1>2, <1>3, OpenKept

LEMMA OpenReviewSave ==
    ASSUME Inv, OpenInv, NEW r \in Requests, ReviewSave(r)
    PROVE  OpenInv'
<1>1. Reviewing(r) /\ req[r].row \in Row
  BY DEF Inv, TypeOK, ReviewSave, Reviewing
<1>2. req[r].row.status # "APPROVED"
  BY <1>1 DEF Inv, MemoryInv, Memory, ReviewSave
<1> QED
  BY <1>1, <1>2, OpenWrite DEF ReviewSave

LEMMA OpenApproveCommit ==
    ASSUME Inv, OpenInv, NEW r \in Requests, ApproveCommit(r)
    PROVE  OpenInv'
<1> DEFINE u == req[r].row.applicant
           w == [req[r].row EXCEPT !.status = "ENROLLED", !.student = u]
<1>1. Reviewing(r) /\ req[r].row \in Row
  BY DEF Inv, TypeOK, ApproveCommit, Reviewing
<1>2. req[r].row.status = "APPROVED"
  BY <1>1 DEF Inv, MemoryInv, Memory, ApproveCommit
<1>3. /\ w \in Row /\ w.applicant = u /\ w.program = req[r].row.program
      /\ w.reviewer = req[r].row.reviewer
      /\ w.status = "ENROLLED" /\ w.student = u
  BY <1>1 DEF Row, Status
<1>4. /\ app' = [app EXCEPT ![req[r].id] = Flushed(@, req[r].loaded, w)]
      /\ Finish(r) /\ UNCHANGED <<contested, doubled>>
  BY DEF ApproveCommit
<1> HIDE DEF w
<1> QED
  BY <1>1, <1>2, <1>3, <1>4, OpenWrite

LEMMA OpenInit == Init => OpenInv
<1> SUFFICES ASSUME Init PROVE OpenInv
  OBVIOUS
<1>1. Submitted = {} /\ Submitting = {}
  BY DEF Init, Submitted, Submitting, Idle
<1> QED
  BY <1>1 DEF Init, OpenInv, OneOpenApplication, SubmitInv

LEMMA OpenStep == Inv /\ OpenInv /\ [Next]_vars => OpenInv'
<1> SUFFICES ASSUME Inv, OpenInv, [Next]_vars PROVE OpenInv'
  OBVIOUS
<1>1. CASE UNCHANGED vars
  BY <1>1, OpenSame DEF vars, Submitting
<1>2. ASSUME NEW r \in Requests, Begin(r) PROVE OpenInv'
  <2>1. ASSUME NEW u \in Users, NEW p \in Programs, SubmitCount(r, u, p) PROVE OpenInv'
    BY <2>1, OpenSubmitCount
  <2>2. ASSUME NEW v \in Users, NEW i \in AppIds, NEW new \in Status,
               ReviewSelect(r, v, i, new)
        PROVE  OpenInv'
    BY <2>2, OpenReviewSelect
  <2> QED
    BY <1>1, <1>2, <2>1, <2>2 DEF Begin, SubmitRefuse, ReviewRefuse
<1>3. ASSUME NEW r \in Requests,
             \/ ApproveFlush(r) \/ ApproveStudent(r) \/ ApproveInsert(r)
             \/ ApproveConflict(r) \/ Fail(r)
      PROVE  OpenInv'
  <2>1. UNCHANGED <<app, contested, doubled>>
    BY <1>3 DEF ApproveFlush, ApproveStudent, ApproveInsert, ApproveConflict, Fail
  <2>2. \A q \in Submitting' : q # r
    BY <1>3 DEF ApproveFlush, ApproveStudent, ApproveInsert, ApproveConflict, Fail,
                Finish, Idle, Submitting, Inv, TypeOK, Request, Steps
  <2>3. \A q \in Requests : q # r => req'[q] = req[q]
    BY <1>3 DEF ApproveFlush, ApproveStudent, ApproveInsert, ApproveConflict, Fail,
                Finish, Inv, TypeOK
  <2> QED
    BY <2>1, <2>2, <2>3, OpenSame DEF Submitting
<1>4. ASSUME NEW r \in Requests, Continue(r) PROVE OpenInv'
  BY <1>3, <1>4, OpenSubmitCommit, OpenReviewSave, OpenApproveCommit DEF Continue
<1> QED
  BY <1>1, <1>2, <1>3, <1>4 DEF Next

-----------------------------------------------------------------------------
(***************************************************************************)
(* Waiting.  A step of a request waits for nothing but the conditions      *)
(* below; an id is left for every request that has counted.                *)
(***************************************************************************)

\* The guards of the steps in Continue.
CanContinue(r) ==
    \/ req[r].pc = "submit" /\ AppIds \ Submitted # {}
    \/ req[r].pc \in {"save", "approve"} /\ ~ AppLocked(req[r].id)
    \/ req[r].pc = "insert" /\ \/ req[r].row.applicant \in student
                               \/ ~ InsertPending(req[r].row.applicant)
    \/ req[r].pc \in {"student", "enroll", "enroll_new"}

LEMMA GuardsKept == \A r \in Requests : Continue(r) => CanContinue(r)
<1> SUFFICES ASSUME NEW r \in Requests, Continue(r) PROVE CanContinue(r)
  OBVIOUS
<1>1. ASSUME NEW i \in AppIds, SubmitCommit(r, i) PROVE CanContinue(r)
  BY <1>1 DEF SubmitCommit, CanContinue
<1>2. CASE ReviewSave(r) \/ ApproveFlush(r)
  BY <1>2 DEF ReviewSave, ApproveFlush, CanContinue
<1>3. CASE ApproveStudent(r) \/ ApproveInsert(r) \/ ApproveConflict(r) \/ ApproveCommit(r)
  BY <1>3 DEF ApproveStudent, ApproveInsert, ApproveConflict, ApproveCommit, CanContinue
<1> QED
  BY <1>1, <1>2, <1>3 DEF Continue

Unused == AppIds \ Submitted

IdsInv == Cardinality(Submitting) <= Cardinality(Unused)

LEMMA IdsFinite ==
    ASSUME IsFiniteSet(AppIds), IsFiniteSet(Requests)
    PROVE  /\ IsFiniteSet(Unused) /\ IsFiniteSet(Submitting)
           /\ Cardinality(Unused) \in Nat /\ Cardinality(Submitting) \in Nat
<1>1. Unused \subseteq AppIds /\ Submitting \subseteq Requests
  BY DEF Unused, Submitting
<1>2. IsFiniteSet(Unused) /\ IsFiniteSet(Submitting)
  BY <1>1, FS_Subset
<1> QED
  BY <1>2, FS_CardinalityType

LEMMA IdsStep ==
    ASSUME IsFiniteSet(AppIds), IsFiniteSet(Requests), Inv, IdsInv, [Next]_vars
    PROVE  IdsInv'
<1> USE IdsFinite
<1>1. CASE UNCHANGED vars
  BY <1>1 DEF vars, IdsInv, Unused, Submitted, Submitting
<1>2. ASSUME Submitting' \subseteq Submitting, Unused' = Unused PROVE IdsInv'
  <2>1. Cardinality(Submitting') <= Cardinality(Submitting) /\ Cardinality(Submitting') \in Nat
    BY <1>2, FS_Subset, FS_CardinalityType
  <2> QED
    BY <1>2, <2>1 DEF IdsInv
<1>3. ASSUME NEW r \in Requests, NEW u \in Users, NEW p \in Programs, SubmitCount(r, u, p)
      PROVE  IdsInv'
  <2>1. r \notin Submitting /\ Submitting' = Submitting \cup {r} /\ Unused' = Unused
    BY <1>3 DEF SubmitCount, Inv, TypeOK, Idle, Submitting, Unused, Submitted
  <2>2. Cardinality(Submitting') = Cardinality(Submitting) + 1
    BY <2>1, FS_AddElement
  <2>3. Cardinality(Submitting) < Cardinality(Unused)
    BY <1>3 DEF SubmitCount, Unused
  <2> QED
    BY <2>1, <2>2, <2>3 DEF IdsInv
<1>4. ASSUME NEW r \in Requests, NEW i \in AppIds, SubmitCommit(r, i) PROVE IdsInv'
  <2>1. r \in Submitting /\ Submitting' = Submitting \ {r}
    BY <1>4 DEF SubmitCommit, Finish, Inv, TypeOK, Idle, Submitting
  <2>2. i \in Unused /\ Unused' = Unused \ {i}
    <3>1. [applicant |-> req[r].user, program |-> req[r].program, status |-> "PENDING",
           reviewer |-> None, student |-> None] \in Row
      BY <1>4 DEF SubmitCommit, Inv, TypeOK, Row, Status
    <3> QED
      BY <1>4, <3>1, RowAssumption DEF SubmitCommit, Unused, Submitted, Inv, TypeOK
  <2>3. /\ Cardinality(Submitting') = Cardinality(Submitting) - 1
        /\ Cardinality(Unused') = Cardinality(Unused) - 1
    BY <2>1, <2>2, FS_RemoveElement
  <2> QED
    BY <2>3 DEF IdsInv
<1>5. ASSUME NEW r \in Requests, NEW v \in Users, NEW i \in AppIds, NEW new \in Status,
             ReviewSelect(r, v, i, new)
      PROVE  IdsInv'
  BY <1>2, <1>5 DEF ReviewSelect, Inv, TypeOK, Idle, Submitting, Unused, Submitted
<1>6. ASSUME NEW r \in Requests, ReviewSave(r) \/ ApproveCommit(r) PROVE IdsInv'
  <2>1. /\ app[req[r].id] \in Row /\ req[r].id \in AppIds
        /\ req[r].loaded \in Row /\ req[r].row \in Row /\ req[r].row.applicant \in Users
    BY <1>6 DEF ReviewSave, ApproveCommit, Inv, TypeOK, Row
  <2>2. [req[r].row EXCEPT !.status = "ENROLLED", !.student = req[r].row.applicant] \in Row
    BY <2>1 DEF Row, Status
  <2>3. PICK w \in Row : app' = [app EXCEPT ![req[r].id] = Flushed(@, req[r].loaded, w)]
    BY <1>6, <2>1, <2>2 DEF ReviewSave, ApproveCommit
  <2>4. Flushed(app[req[r].id], req[r].loaded, w) \in Row
    BY <2>1, FlushedRow
  <2>5. Unused' = Unused
    BY <2>1, <2>3, <2>4, RowAssumption DEF Unused, Submitted, Inv, TypeOK
  <2>6. Submitting' \subseteq Submitting
    BY <1>6 DEF ReviewSave, ApproveCommit, Finish, Submitting, Idle, Inv, TypeOK
  <2> QED
    BY <1>2, <2>5, <2>6
<1>7. ASSUME NEW r \in Requests,
             \/ ApproveFlush(r) \/ ApproveStudent(r) \/ ApproveInsert(r)
             \/ ApproveConflict(r) \/ Fail(r)
      PROVE  IdsInv'
  <2>1. Unused' = Unused
    BY <1>7 DEF ApproveFlush, ApproveStudent, ApproveInsert, ApproveConflict, Fail,
                Unused, Submitted
  <2>2. Submitting' \subseteq Submitting
    BY <1>7 DEF ApproveFlush, ApproveStudent, ApproveInsert, ApproveConflict, Fail,
                Finish, Idle, Submitting, Inv, TypeOK, Request, Steps
  <2> QED
    BY <1>2, <2>1, <2>2
<1> QED
  BY <1>1, <1>3, <1>4, <1>5, <1>6, <1>7
  DEF Next, Begin, Continue, SubmitRefuse, ReviewRefuse

\* How many steps of its own a request has before it at most.
StepsLeft(pc) ==
    IF pc = "approve" THEN 4
    ELSE IF pc = "student" THEN 3
    ELSE IF pc = "insert" THEN 2
    ELSE IF pc = "idle" THEN 0 ELSE 1

-----------------------------------------------------------------------------
(***************************************************************************)
(* Theorems.                                                               *)
(***************************************************************************)

\* Every reachable state is type correct: the rows, and what the requests in
\* flight hold in memory.
THEOREM TypeCorrect == Spec => []TypeOK
<1>1. Inv => TypeOK
  BY DEF Inv
<1> QED
  BY Invariance, <1>1, PTL

\* Approvals make the applicant a student with the application, whatever they are
\* interleaved with and wherever they fail.
THEOREM EnrolledCorrect == Spec => []EnrolledIsStudent
<1>1. Inv => EnrolledIsStudent
  BY DEF Inv, RowInv, EnrolledIsStudent
<1> QED
  BY Invariance, <1>1, PTL

\* However submissions and reviews are interleaved, an applicant has one open
\* application for a program, with the two exceptions the property names: the check
\* and the insert are two steps, so a second submission in between must be accounted
\* for, and every other way an application could open again is ruled out.
THEOREM OneOpenCorrect == Spec => []OneOpenApplication
<1>1. OpenInv => OneOpenApplication
  BY DEF OpenInv
<1> QED
  BY InitInv, StepInv, OpenInit, OpenStep, <1>1, PTL DEF Spec

\* Reviews that do not overlap take an application through its life cycle only.
THEOREM LifeCycleCorrect == Spec => LifeCycle
<1> DEFINE Moved(i) == /\ <<app[i].status, app'[i].status>> \in Moves
                       /\ (app'[i].student # None) <=> (app'[i].status = "ENROLLED")
                       /\ app'[i].reviewer \in Users \ {app'[i].applicant}
           Step == \A i \in Submitted \ contested' : app'[i] # app[i] => Moved(i)
<1>1. ASSUME Inv, Next PROVE Step
  <2> SUFFICES ASSUME NEW i \in Submitted, i \notin contested', app'[i] # app[i]
               PROVE  Moved(i)
    OBVIOUS
  <2>1. PICK r \in Requests : Begin(r) \/ Continue(r) \/ Fail(r)
    BY <1>1 DEF Next
  <2>2. ReviewSave(r) \/ ApproveCommit(r)
    <3>1. ASSUME NEW k \in AppIds, SubmitCommit(r, k) PROVE FALSE
      <4>1. i # k
        BY <3>1 DEF SubmitCommit
      <4> QED
        BY <3>1, <4>1 DEF SubmitCommit
    <3>2. ApproveFlush(r) \/ ApproveStudent(r) \/ ApproveInsert(r) \/ ApproveConflict(r)
             \/ Fail(r) => UNCHANGED app
      BY DEF ApproveFlush, ApproveStudent, ApproveInsert, ApproveConflict, Fail
    <3>3. Begin(r) => UNCHANGED app
      BY DEF Begin, SubmitCount, SubmitRefuse, ReviewSelect, ReviewRefuse, vars
    <3> QED
      BY <2>1, <3>1, <3>2, <3>3 DEF Continue
  <2> DEFINE u == req[r].row.applicant
             enrolled == [req[r].row EXCEPT !.status = "ENROLLED", !.student = u]
             w == IF req[r].pc = "save" THEN req[r].row ELSE enrolled
             b == Flushed(app[i], req[r].loaded, w)
  <2>3. Reviewing(r) /\ req[r].row \in Row /\ app \in [AppIds -> Row \cup {None}]
    BY <1>1, <2>2 DEF Inv, TypeOK, ReviewSave, ApproveCommit, Reviewing
  <2>4. Memory(r)
    BY <1>1, <2>3 DEF Inv, MemoryInv
  <2>5. /\ i = req[r].id /\ i \in AppIds /\ i \notin contested
        /\ app'[i] = b
    BY <2>2, <2>3 DEF ReviewSave, ApproveCommit, Submitted
  <2>6.   /\ w \in Row /\ w.applicant = u /\ w.reviewer = req[r].row.reviewer
        /\ w.program = req[r].row.program
        /\ \/ w.status = req[r].row.status /\ w.student = req[r].row.student
              /\ req[r].row.status # "APPROVED"
           \/ w.status = "ENROLLED" /\ w.student = w.applicant
              /\ req[r].row.status = "APPROVED"
    <3>1. (req[r].pc = "save") <=> (req[r].row.status # "APPROVED")
      BY <2>4 DEF Memory
    <3>2. /\ enrolled \in Row /\ enrolled.applicant = u
          /\ enrolled.program = req[r].row.program
          /\ enrolled.reviewer = req[r].row.reviewer
          /\ enrolled.status = "ENROLLED" /\ enrolled.student = u
      BY <2>3 DEF Row, Status
    <3> QED
      BY <2>3, <3>1, <3>2
  <2> HIDE DEF w
  <2> QED
    BY <1>1, <2>3, <2>5, <2>6, WriteRow
<1>2. Inv /\ [Next]_vars => [Step]_vars
  BY <1>1
<1> QED
  BY Invariance, <1>2, PTL DEF Spec, LifeCycle

\* Requests never wait for each other in a circle: an approval that has locked its
\* application waits for an insert of the same students row only, and who inserts
\* waits for nobody; and a submission that has counted never lacks an id, so the
\* bound on ids blocks nothing that was begun.
THEOREM NoCircularWait ==
    ASSUME IsFiniteSet(AppIds), IsFiniteSet(Requests)
    PROVE  Spec => [](/\ IdsInv
                      /\ (\E r \in Requests : req[r].pc # "idle") =>
                             \E r \in Requests : CanContinue(r))
<1>1. Init => IdsInv
  <2> SUFFICES ASSUME Init PROVE IdsInv
    OBVIOUS
  <2>1. Submitting = {}
    BY DEF Init, Submitting, Idle
  <2> QED
    BY <2>1, IdsFinite, FS_EmptySet DEF IdsInv
<1>2. Inv /\ IdsInv /\ [Next]_vars => IdsInv'
  BY IdsStep
<1>3. ASSUME Inv, IdsInv, NEW r \in Requests, req[r].pc # "idle"
      PROVE  \E q \in Requests : CanContinue(q)
  <2>1. CASE req[r].pc = "submit"
    <3>1. Submitting # {}
      BY <2>1 DEF Submitting
    <3>2. Cardinality(Submitting) # 0
      BY <3>1, IdsFinite, FS_EmptySet
    <3>3. Unused # {}
      BY <1>3, <3>2, IdsFinite, FS_EmptySet DEF IdsInv
    <3> QED
      BY <2>1, <3>3 DEF CanContinue, Unused
  <2>2. CASE req[r].pc \in {"student", "enroll", "enroll_new"}
    BY <2>2 DEF CanContinue
  <2>3. ASSUME NEW q \in Requests, req[q].pc = "insert"
        PROVE  \E p \in Requests : CanContinue(p)
    BY <2>3 DEF CanContinue, InsertPending
  <2>4. CASE req[r].pc \in {"save", "approve"}
    <3>1. CASE ~ AppLocked(req[r].id)
      BY <2>4, <3>1 DEF CanContinue
    <3>2. CASE AppLocked(req[r].id)
      BY <2>3, <3>2 DEF AppLocked, Holding, CanContinue
    <3> QED
      BY <3>1, <3>2
  <2> QED
    BY <1>3, <2>1, <2>2, <2>3, <2>4 DEF Inv, TypeOK, Request, Steps
<1>4. Inv /\ IdsInv /\ (\E r \in Requests : req[r].pc # "idle") =>
         \E r \in Requests : CanContinue(r)
  BY <1>3
<1> QED
  BY InitInv, StepInv, <1>1, <1>2, <1>4, PTL DEF Spec

\* A request that has begun only goes forward: each step that it takes leaves it
\* fewer than before, four at most, and no step of another request sets it back.
\* With NoCircularWait this is why every request can be answered.
THEOREM RequestsGoForward ==
    Spec => [][\A r \in Requests :
                  /\ Continue(r) => StepsLeft(req'[r].pc) < StepsLeft(req[r].pc)
                  /\ req[r].pc # "idle" /\ req'[r] # req[r] =>
                         StepsLeft(req'[r].pc) < StepsLeft(req[r].pc)]_vars
<1> DEFINE Less(r) == StepsLeft(req'[r].pc) < StepsLeft(req[r].pc)
           Others(r) == \A q \in Requests : q # r => req'[q] = req[q]
<1>1. ASSUME Inv, NEW r \in Requests, Continue(r) PROVE Less(r) /\ Others(r)
  <2> USE DEF Inv, TypeOK, Request, Steps, Finish, Idle, StepsLeft
  <2>1. ASSUME NEW i \in AppIds, SubmitCommit(r, i) PROVE Less(r) /\ Others(r)
    BY <1>1, <2>1 DEF SubmitCommit
  <2>2. CASE ReviewSave(r)
    BY <1>1, <2>2 DEF ReviewSave
  <2>3. CASE ApproveFlush(r)
    BY <1>1, <2>3 DEF ApproveFlush
  <2>4. CASE ApproveStudent(r)
    BY <1>1, <2>4 DEF ApproveStudent
  <2>5. CASE ApproveInsert(r)
    BY <1>1, <2>5 DEF ApproveInsert
  <2>6. CASE ApproveConflict(r)
    BY <1>1, <2>6 DEF ApproveConflict
  <2>7. CASE ApproveCommit(r)
    BY <1>1, <2>7 DEF ApproveCommit
  <2> QED
    BY <1>1, <2>1, <2>2, <2>3, <2>4, <2>5, <2>6, <2>7 DEF Continue
<1>2. ASSUME Inv, NEW r \in Requests, Fail(r) PROVE Less(r) /\ Others(r)
  BY <1>2 DEF Fail, Finish, Idle, StepsLeft, Inv, TypeOK
<1>3. ASSUME Inv, NEW r \in Requests, Begin(r)
      PROVE  Others(r) /\ (req[r].pc # "idle" => req'[r] = req[r])
  BY <1>3 DEF Begin, SubmitCount, SubmitRefuse, ReviewSelect, ReviewRefuse, vars, Inv,
     TypeOK
<1>4. Inv /\ [Next]_vars =>
         [\A r \in Requests : /\ Continue(r) => Less(r)
                              /\ req[r].pc # "idle" /\ req'[r] # req[r] => Less(r)]_vars
  BY <1>1, <1>2, <1>3 DEF Next
<1> QED
  BY InitInv, StepInv, <1>4, PTL DEF Spec

=============================================================================
