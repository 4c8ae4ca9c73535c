------------------------- MODULE UiWorkspaceProofs -------------------------
(***************************************************************************)
(* Proofs about UiWorkspace, for any queries and pages of the run, either  *)
(* kind of user and any number of writes: types, and what a page shows of  *)
(* the user's own writes.                                                  *)
(***************************************************************************)
EXTENDS UiWorkspace, SequenceTheorems, TLAPS

\* Answers on their way reflect the own writes, unless the request was sent before.
ReadsInv ==
    \A k \in Keys : cache[k].fetch = "read" =>
        /\ cache[k].read \in Nat
        /\ \/ cache[k].stays \/ Resource(k) = "students"
           \/ cache[k].read >= owed[Resource(k)]

\* Own writes are writes.
OwedInv == \A r \in Resources : owed[r] <= server[r]

\* What an entry says is no older than version o.
Says(e, o) == e.data # None /\ ~ e.error /\ ~ e.late => e.data >= o

\* A mutation in progress, while its component is mounted, is of the page that shows,
\* and waits for all that page shows: the lists of courses and of grades are alone.
Sound(w) ==
    /\ w.pc = "idle" => ~ w.here
    /\ w.pc # "idle" => w.hook \in Hooks
    /\ w.here /\ w.hook \in CourseHooks => page = "/courses"
    /\ w.here /\ w.hook \in GradeHooks => page = "/grades" /\ Staff
    /\ w.pc = "refetching" =>
          /\ w.waits # {}
          /\ w.here /\ w.hook \in CourseHooks \cup GradeHooks => w.waits = Mounted

WriteInv == \A i \in Slots : Sound(writes[i])

DataInv == ReadsInv /\ OwedInv /\ OwnWritesShown

Inv == TypeOK /\ DataInv /\ WriteInv

-----------------------------------------------------------------------------
LEMMA PrefixIsHead ==
    ASSUME NEW S, NEW r \in S, NEW k \in Seq(S), k # << >>
    PROVE  IsPrefix(<<r>>, k) <=> Head(k) = r
  <1>1. Len(k) \in Nat /\ Len(k) >= 1 /\ Len(<<r>>) = 1 /\ <<r>>[1] = r
    BY EmptySeq, LenProperties
  <1>2. /\ SubSeq(<<r>>, 1, 1) \in Seq(S) /\ Len(SubSeq(<<r>>, 1, 1)) = 1
        /\ SubSeq(<<r>>, 1, 1)[1] = r
    <2>1. \A i \in 1 .. 1 : <<r>>[i] \in S
      OBVIOUS
    <2>2. QED
      BY <1>1, <2>1, SubSeqProperties
  <1>3. /\ SubSeq(k, 1, 1) \in Seq(S) /\ Len(SubSeq(k, 1, 1)) = 1
        /\ SubSeq(k, 1, 1)[1] = k[1]
    <2>1. \A i \in 1 .. 1 : k[i] \in S
      BY <1>1, LenProperties
    <2>2. QED
      BY <2>1, SubSeqProperties
  <1>4. SubSeq(<<r>>, 1, 1) = SubSeq(k, 1, 1) <=> r = k[1]
    <2>1. CASE r = k[1]
      <3>1. \A i \in 1 .. 1 : SubSeq(<<r>>, 1, 1)[i] = SubSeq(k, 1, 1)[i]
        BY <1>2, <1>3, <2>1
      <3>2. SubSeq(<<r>>, 1, 1) = SubSeq(k, 1, 1)
        BY <1>2, <1>3, <3>1, SeqEqual
      <3>3. QED
        BY <2>1, <3>2
    <2>2. CASE r # k[1]
      BY <1>2, <1>3, <2>2
    <2>3. QED
      BY <2>1, <2>2
  <1>5. Head(k) = k[1]
    OBVIOUS
  <1>6. QED
    BY <1>1, <1>4, <1>5 DEF IsPrefix

\* What the parts of a query key are made of.
Words == {"applications", "students", "courses", "grades", "users", "my", "me", "course", "c"}

LEMMA KeysNamed ==
    ASSUME NEW k \in Keys
    PROVE  /\ k \in Seq(Words) /\ k # << >> /\ Resource(k) \in Resources
           /\ Resource(k) \in {"applications", "students", "courses", "grades"}
  <1>1. \/ k = <<"applications">> \/ k = <<"students">> \/ k = <<"courses">>
        \/ k = <<"applications", "my">> \/ k = <<"students", "me">>
        \/ k = <<"grades", "my">> \/ k = <<"grades", "course", "c">>
    BY KeysAssumption DEF AllKeys, ApplicationKeys, StudentKeys, CourseKeys, GradeKeys,
       Course
  <1>2. k \in Seq(Words) /\ k # << >>
    <2>1. /\ <<"applications">> \in Seq(Words) /\ <<"students">> \in Seq(Words)
          /\ <<"courses">> \in Seq(Words) /\ <<"applications", "my">> \in Seq(Words)
          /\ <<"students", "me">> \in Seq(Words) /\ <<"grades", "my">> \in Seq(Words)
          /\ <<"grades", "course", "c">> \in Seq(Words)
      BY DEF Words
    <2>2. Len(k) # 0
      BY <1>1
    <2>3. k \in Seq(Words)
      BY <1>1, <2>1, Zenon
    <2>4. Len(<< >>) = 0
      OBVIOUS
    <2>5. QED
      BY <2>2, <2>3, <2>4, Zenon
  <1>3. Head(k) \in {"applications", "students", "courses", "grades"}
    BY <1>1
  <1>4. QED
    BY <1>2, <1>3 DEF Resource, Resources

\* A mutation invalidates the queries of one resource, and that one it writes; it
\* writes no other that a query reads, but for the students.
LEMMA MatchingNamed ==
    ASSUME NEW hook \in Hooks, NEW k \in Keys
    PROVE  /\ k \in Matching(hook) <=> Resource(k) = Head(Invalidates(hook))
           /\ Resource(k) \in Writes(hook) => k \in Matching(hook) \/ Resource(k) = "students"
           /\ k \in Matching(hook) => Resource(k) # "students"
           /\ k \in Matching(hook) /\ hook \in CourseHooks => Resource(k) = "courses"
           /\ k \in Matching(hook) /\ hook \in GradeHooks => Resource(k) = "grades"
  <1> DEFINE r == Head(Invalidates(hook))
  <1>1. /\ Invalidates(hook) = <<r>> /\ r \in Words /\ r # "students"
        /\ Writes(hook) \subseteq {r, "students"}
        /\ hook \in CourseHooks => r = "courses"
        /\ hook \in GradeHooks => r = "grades"
    <2>1. CASE hook \in ApplicationHooks
      BY <2>1 DEF Invalidates, Writes, ApplicationHooks, CourseHooks, GradeHooks, Words
    <2>2. CASE hook \in CourseHooks
      BY <2>2 DEF Invalidates, Writes, ApplicationHooks, CourseHooks, GradeHooks, Words
    <2>3. CASE hook \in GradeHooks
      BY <2>3 DEF Invalidates, Writes, ApplicationHooks, CourseHooks, GradeHooks, Words
    <2>4. CASE hook = "assignRole"
      BY <2>4 DEF Invalidates, Writes, ApplicationHooks, CourseHooks, GradeHooks, Words
    <2>5. QED
      BY <2>1, <2>2, <2>3, <2>4 DEF Hooks
  <1>2. k \in Matching(hook) <=> Resource(k) = r
    BY <1>1, PrefixIsHead, KeysNamed DEF Matching, Resource
  <1>3. QED
    BY <1>1, <1>2

\* What is left of a mutation when some of its waits end: nothing, or the others.
Lessens(v, w) ==
    \/ v = NoWrite /\ w.pc = "refetching"
    \/ /\ v.pc = w.pc /\ v.hook = w.hook /\ (v.here => w.here) /\ v.waits \subseteq w.waits
       /\ w.again \cap v.waits \subseteq v.again
       /\ w.pc = "refetching" /\ w.waits # {} => v.waits # {}

LEMMA NoWriteTyped == NoWrite \in Write /\ NoWrite.pc = "idle" /\ ~ NoWrite.here
  BY DEF NoWrite, Write

LEMMA WithoutWaitsStep ==
    ASSUME NEW w \in Write, NEW ks
    PROVE  LET v == WithoutWaits(w, ks) IN
           /\ v \in Write
           /\ \/ v = NoWrite /\ w.pc = "refetching" /\ w.waits \subseteq ks
              \/ /\ v.pc = w.pc /\ v.hook = w.hook /\ v.here = w.here
                 /\ v.waits = w.waits \ ks /\ v.again = w.again \cap v.waits
                 /\ w.pc = "refetching" => v.waits # {}
  <1> DEFINE rest == w.waits \ ks
             v == [w EXCEPT !.waits = rest, !.again = @ \cap rest]
  <1>1. CASE w.pc = "refetching" /\ rest = {}
    BY <1>1, NoWriteTyped DEF WithoutWaits
  <1>2. CASE ~ (w.pc = "refetching" /\ rest = {})
    <2>1. WithoutWaits(w, ks) = v
      BY <1>2 DEF WithoutWaits
    <2>2. /\ v \in Write /\ v.pc = w.pc /\ v.hook = w.hook /\ v.here = w.here
          /\ v.waits = rest /\ v.again = w.again \cap rest
      BY DEF Write
    <2>3. QED
      BY <1>2, <2>1, <2>2
  <1>3. QED
    BY <1>1, <1>2

LEMMA WithoutTableStep ==
    ASSUME NEW w \in Write, NEW k
    PROVE  LET v == WithoutTable(w, k) IN
           /\ v \in Write /\ v.pc = w.pc /\ v.hook = w.hook /\ (v.here => w.here)
           /\ v.waits = w.waits /\ v.again = w.again
  <1> DEFINE h == w.here /\ ~ (w.hook \in InRow /\ k = Main(page))
  <1>1. h \in BOOLEAN /\ (h => w.here)
    BY DEF Write
  <1>2. WithoutTable(w, k) = [w EXCEPT !.here = h]
    BY DEF WithoutTable
  <1> HIDE DEF h
  <1>3. QED
    BY <1>1, <1>2 DEF Write

\* A restart ends the wait for a query that was restarted before.
LEMMA RestartedStep ==
    ASSUME NEW w \in Write, NEW ks
    PROVE  LET v == Restarted(w, ks) IN
           /\ v \in Write
           /\ \/ v = NoWrite /\ w.pc = "refetching" /\ w.waits \subseteq w.again \cap ks
              \/ /\ v.pc = w.pc /\ v.hook = w.hook /\ v.here = w.here
                 /\ v.waits = w.waits \ (w.again \cap ks)
                 /\ v.again = (w.again \cup (ks \cap w.waits)) \cap v.waits
                 /\ w.pc = "refetching" => v.waits # {}
  <1> DEFINE u == [w EXCEPT !.again = @ \cup (ks \cap w.waits)]
  <1>1. /\ u \in Write /\ u.pc = w.pc /\ u.hook = w.hook /\ u.here = w.here
        /\ u.waits = w.waits /\ u.again = w.again \cup (ks \cap w.waits)
    BY DEF Write
  <1>2. Restarted(w, ks) = WithoutWaits(u, w.again \cap ks)
    BY DEF Restarted
  <1> HIDE DEF u
  <1>3. QED
    BY <1>1, <1>2, WithoutWaitsStep

LEMMA LessSteps ==
    ASSUME NEW w \in Write, NEW ks, NEW k
    PROVE  /\ WithoutWaits(w, ks) \in Write /\ Lessens(WithoutWaits(w, ks), w)
           /\ Restarted(w, ks) \in Write /\ Lessens(Restarted(w, ks), w)
           /\ WithoutTable(w, k) \in Write /\ Lessens(WithoutTable(w, k), w)
           /\ LET v == WithoutWaits(WithoutTable(w, k), ks)
              IN v \in Write /\ Lessens(v, w)
  <1>1. WithoutWaits(w, ks) \in Write /\ Lessens(WithoutWaits(w, ks), w)
    BY WithoutWaitsStep DEF Lessens
  <1>2. Restarted(w, ks) \in Write /\ Lessens(Restarted(w, ks), w)
    BY RestartedStep DEF Lessens
  <1>3. WithoutTable(w, k) \in Write /\ Lessens(WithoutTable(w, k), w)
    BY WithoutTableStep DEF Lessens
  <1>4. ASSUME NEW u \in Write, u.pc = w.pc, u.hook = w.hook, u.here => w.here,
               u.waits = w.waits, u.again = w.again
        PROVE  WithoutWaits(u, ks) \in Write /\ Lessens(WithoutWaits(u, ks), w)
    BY <1>4, WithoutWaitsStep DEF Lessens
  <1>5. QED
    BY <1>1, <1>2, <1>3, <1>4, WithoutTableStep

LEMMA AskedEntry ==
    ASSUME NEW e \in Entry
    PROVE  /\ Asked(e) \in Entry /\ Asked(e).fetch = "asked" /\ Asked(e).data = e.data
           /\ Asked(e).late = e.late /\ (e.data # None => Asked(e).error = e.error)
  BY DEF Asked, Entry

LEMMA FetchedCache ==
    ASSUME NEW c \in [Keys -> Entry], NEW ks
    PROVE  /\ Fetched(c, ks) \in [Keys -> Entry]
           /\ \A k \in Keys :
                 LET e == Fetched(c, ks)[k]
                 IN /\ e = c[k] \/ e.fetch = "asked"
                    /\ k \in ks => e.fetch # "none"
                    /\ \A o : Says(c[k], o) => Says(e, o)
  BY AskedEntry DEF Fetched, Says

LEMMA EmptyEntry == NoEntry \in Entry /\ NoEntry.fetch = "none" /\ NoEntry.data = None
  BY DEF NoEntry, Entry

LEMMA CourseApart ==
    Course \notin ApplicationKeys \cup StudentKeys \cup CourseKeys \cup MyGrades
  <1>1. Len(Course) = 3
    BY DEF Course
  <1>2. /\ Course # <<"applications">> /\ Course # <<"applications", "my">>
        /\ Course # <<"students">> /\ Course # <<"students", "me">>
        /\ Course # <<"courses">> /\ Course # <<"grades", "my">>
    BY <1>1
  <1>3. QED
    BY <1>2, Zenon DEF ApplicationKeys, StudentKeys, CourseKeys, MyGrades

\* The page of a course or a grade shows one query.
LEMMA OneQuery ==
    ASSUME page = "/courses" \/ (page = "/grades" /\ Staff)
    PROVE  \A j, k \in Mounted : j = k
  BY DEF Mounted, Queries, CoursesPage, CourseKeys, StaffGrades

\* Coming to a page, "Load grades" has still to be asked for.
LEMMA VisitMounts ==
    ASSUME NEW p \in Pages, page' = p, loaded' = FALSE
    PROVE  Mounted' \subseteq (Queries(p) \ {Course}) \cap Keys
  BY CourseApart
     DEF Mounted, Queries, Dashboard, Applications, StudentsPage, CoursesPage, StaffGrades,
         Pages

-----------------------------------------------------------------------------
(***************************************************************************)
(* Each step keeps the invariant.                                          *)
(***************************************************************************)
\* On one page the waits of a mutation may only end.
LEMMA LessIsSound ==
    ASSUME NEW v, NEW w, Sound(w), Lessens(v, w) PROVE Sound(v)
  <1>1. CASE v = NoWrite
    BY <1>1, NoWriteTyped DEF Sound
  <1>2. CASE v # NoWrite
    <2>1. /\ v.pc = w.pc /\ v.hook = w.hook /\ (v.here => w.here)
          /\ v.waits \subseteq w.waits /\ (w.pc = "refetching" => v.waits # {})
      BY <1>2 DEF Lessens, Sound
    <2>2. ASSUME v.pc = "refetching", v.here, v.hook \in CourseHooks \cup GradeHooks
          PROVE  v.waits = Mounted
      <3>1. w.waits = Mounted /\ v.waits # {} /\ v.waits \subseteq Mounted
        BY <2>1, <2>2 DEF Sound
      <3>2. \A j, k \in Mounted : j = k
        BY <2>1, <2>2, OneQuery DEF Sound
      <3>3. QED
        BY <3>1, <3>2
    <2>3. QED
      BY <2>1, <2>2 DEF Sound
  <1>3. QED
    BY <1>1, <1>2

LEMMA SoundNext ==
    ASSUME Mounted' = Mounted, page' = page, \A i \in Slots : Sound(writes'[i])
    PROVE  WriteInv'
  BY DEF WriteInv, Sound

LEMMA AllSound ==
    ASSUME Inv, Mounted' = Mounted, page' = page,
           \A i \in Slots : Lessens(writes'[i], writes[i])
    PROVE  WriteInv'
  <1>1. ASSUME NEW i \in Slots PROVE Sound(writes'[i])
    BY LessIsSound DEF Inv, WriteInv
  <1>2. QED
    BY <1>1, SoundNext

\* The cache differs by requests that begin.
OnlyAsked ==
    /\ cache' \in [Keys -> Entry]
    /\ \A k \in Keys : /\ cache'[k] = cache[k] \/ cache'[k].fetch = "asked"
                       /\ \A o : Says(cache[k], o) => Says(cache'[k], o)

LEMMA AskingKeeps ==
    ASSUME Inv, OnlyAsked, UNCHANGED <<server, owed>>,
           Mounted' \subseteq {k \in Keys : k \in Mounted \/ cache'[k].fetch # "none"}
    PROVE  DataInv'
  <1> USE DEF Inv, DataInv
  <1>1. ReadsInv' /\ OwedInv'
    BY DEF ReadsInv, OwedInv, OnlyAsked
  <1>2. OwnWritesShown'
    BY DEF OwnWritesShown, OnlyAsked, Fetching
  <1>3. QED
    BY <1>1, <1>2

LEMMA FetchedIsAsked ==
    ASSUME TypeOK, NEW ks, cache' = Fetched(cache, ks)
    PROVE  OnlyAsked /\ \A k \in Keys \cap ks : cache'[k].fetch # "none"
  BY FetchedCache DEF OnlyAsked, TypeOK

LEMMA VisitKeeps == ASSUME Inv, NEW p \in Pages, Visit(p) PROVE Inv'
  <1> USE DEF Inv, Visit
  <1>1. OnlyAsked /\ \A k \in Keys \cap (Queries(p) \ {Course}) : cache'[k].fetch # "none"
    BY FetchedIsAsked
  <1>2. DataInv'
    BY <1>1, VisitMounts, AskingKeeps
  <1>3. ASSUME NEW i \in Slots
        PROVE  /\ writes'[i] \in Write /\ writes'[i].pc = writes[i].pc
               /\ writes'[i].hook = writes[i].hook /\ ~ writes'[i].here
               /\ writes'[i].waits = writes[i].waits
    BY DEF TypeOK, Write
  <1>4. TypeOK' /\ WriteInv'
    <2>1. writes' \in [Slots -> Write]
      BY <1>3
    <2>2. TypeOK'
      BY <1>1, <2>1 DEF TypeOK, OnlyAsked
    <2>3. WriteInv'
      BY <1>3 DEF WriteInv, Sound
    <2>4. QED
      BY <2>2, <2>3
  <1>5. QED
    BY <1>2, <1>4

LEMMA LoadGradesKeeps == ASSUME Inv, LoadGrades PROVE Inv'
  <1> USE DEF Inv, LoadGrades
  <1>1. OnlyAsked /\ \A k \in Keys \cap {Course} : cache'[k].fetch # "none"
    BY FetchedIsAsked
  <1>2. Mounted' \subseteq {Course} \cap Keys
    BY DEF Mounted, Queries, StaffGrades
  <1>3. DataInv'
    BY <1>1, <1>2, AskingKeeps
  <1>4. TypeOK'
    BY <1>1 DEF TypeOK, OnlyAsked
  <1>5. WriteInv'
    <2>1. Mounted = {} /\ page = "/grades"
      BY DEF Mounted, Queries, StaffGrades
    <2>2. QED
      BY <2>1 DEF WriteInv, Sound
  <1>6. QED
    BY <1>3, <1>4, <1>5

\* A request begins for what the page shows.
LEMMA RefetchKeeps ==
    ASSUME Inv, OnlyAsked, UNCHANGED <<server, page, loaded, scope, owed>>,
           writes' \in [Slots -> Write],
           \A i \in Slots : Lessens(writes'[i], writes[i])
    PROVE  Inv'
  <1> USE DEF Inv
  <1>1. Mounted' = Mounted
    BY DEF Mounted, Queries, StaffGrades, StudentsPage
  <1>2. DataInv'
    BY <1>1, AskingKeeps DEF Mounted
  <1>3. TypeOK'
    BY DEF TypeOK, OnlyAsked
  <1>4. WriteInv'
    BY <1>1, AllSound
  <1>5. QED
    BY <1>2, <1>3, <1>4

LEMMA SameIsLess == ASSUME NEW w PROVE Lessens(w, w)
  BY DEF Lessens

LEMMA FocusKeeps == ASSUME Inv, Focus PROVE Inv'
  BY FetchedIsAsked, RefetchKeeps, SameIsLess DEF Inv, TypeOK, Focus

LEMMA RetryKeeps == ASSUME Inv, NEW k \in Keys, Retry(k) PROVE Inv'
  <1>1. cache \in [Keys -> Entry] /\ cache' = [cache EXCEPT ![k] = Asked(cache[k])]
    BY DEF Inv, TypeOK, Retry
  <1>2. OnlyAsked
    BY <1>1, AskedEntry DEF OnlyAsked, Says
  <1>3. ASSUME NEW i \in Slots
        PROVE  writes'[i] \in Write /\ Lessens(writes'[i], writes[i])
    BY LessSteps DEF Retry, Inv, TypeOK
  <1>4. writes' \in [Slots -> Write]
    BY <1>3 DEF Retry
  <1>5. QED
    BY <1>2, <1>3, <1>4, RefetchKeeps DEF Retry

\* The queries of the page stay as the page does.
LEMMA SameMounted == ASSUME UNCHANGED <<page, loaded>> PROVE Mounted' = Mounted
  BY DEF Mounted, Queries, StaffGrades, StudentsPage

LEMMA SameWrites == ASSUME Inv, UNCHANGED <<page, loaded, writes>> PROVE WriteInv'
  BY AllSound, SameIsLess, SameMounted DEF Inv, TypeOK

LEMMA CollectKeeps == ASSUME Inv, NEW k \in Keys, Collect(k) PROVE Inv'
  <1> USE EmptyEntry, SameMounted DEF Inv, Collect
  <1>1. cache \in [Keys -> Entry] /\ TypeOK'
    BY DEF TypeOK
  <1>2. DataInv'
    <2>1. ReadsInv' /\ OwedInv'
      BY <1>1 DEF DataInv, ReadsInv, OwedInv
    <2>2. OwnWritesShown'
      BY <1>1 DEF DataInv, OwnWritesShown, Fetching
    <2>3. QED
      BY <2>1, <2>2 DEF DataInv
  <1>3. WriteInv'
    BY SameWrites
  <1>4. QED
    BY <1>1, <1>2, <1>3

LEMMA OthersWriteKeeps == ASSUME Inv, NEW r \in Resources, OthersWrite(r) PROVE Inv'
  <1> USE SameMounted DEF Inv, OthersWrite
  <1>1. TypeOK'
    BY DEF TypeOK
  <1>2. DataInv'
    BY DEF DataInv, TypeOK, ReadsInv, OwedInv, OwnWritesShown, Fetching
  <1>3. WriteInv'
    BY SameWrites
  <1>4. QED
    BY <1>1, <1>2, <1>3

LEMMA ReadKeeps == ASSUME Inv, NEW k \in Keys, Read(k) PROVE Inv'
  <1> USE SameMounted DEF Inv, Read
  <1> DEFINE e == [cache[k] EXCEPT !.fetch = "read", !.read = server[Resource(k)]]
  <1>1. /\ cache \in [Keys -> Entry] /\ server[Resource(k)] \in Nat
        /\ server[Resource(k)] >= owed[Resource(k)]
    BY KeysNamed DEF TypeOK, DataInv, OwedInv
  <1>2. cache' = [cache EXCEPT ![k] = e] /\ e \in Entry
        /\ e.fetch = "read" /\ e.read = server[Resource(k)]
        /\ e.data = cache[k].data /\ e.error = cache[k].error /\ e.late = cache[k].late
    BY <1>1 DEF Entry
  <1> HIDE DEF e
  <1>3. TypeOK'
    BY <1>1, <1>2 DEF TypeOK
  <1>4. DataInv'
    <2>1. ReadsInv' /\ OwedInv'
      BY <1>1, <1>2 DEF DataInv, ReadsInv, OwedInv
    <2>2. OwnWritesShown'
      <3>1. \A j \in Keys : cache'[j] = IF j = k THEN e ELSE cache[j]
        BY <1>1, <1>2
      <3>2. QED
        BY <1>2, <3>1 DEF DataInv, OwnWritesShown, Fetching, Mounted
    <2>3. QED
      BY <2>1, <2>2 DEF DataInv
  <1>5. WriteInv'
    BY SameWrites
  <1>6. QED
    BY <1>3, <1>4, <1>5

\* What an answer, good or not, leaves of a query.
Arrived(k) ==
    [NoEntry EXCEPT !.data = cache[k].read, !.late = cache[k].stays]

Failed(k) ==
    [NoEntry EXCEPT !.data = cache[k].data, !.error = TRUE, !.late = cache[k].late]

LEMMA AnswerEntry ==
    ASSUME Inv, NEW k \in Keys, Arrives(k) \/ Fails(k)
    PROVE  LET e == cache'[k] IN
           /\ cache' = [cache EXCEPT ![k] = e] /\ e \in Entry /\ e.fetch = "none"
           /\ Resource(k) # "students" => Says(e, owed[Resource(k)])
  <1>1. cache \in [Keys -> Entry] /\ cache[k] \in Entry
    BY DEF Inv, TypeOK
  <1>2. CASE Arrives(k)
    <2>1. cache' = [cache EXCEPT ![k] = Arrived(k)] /\ cache[k].read \in Nat
          /\ \/ cache[k].stays \/ Resource(k) = "students"
             \/ cache[k].read >= owed[Resource(k)]
      BY <1>2 DEF Arrives, Arrived, Inv, DataInv, ReadsInv
    <2>2. Arrived(k) \in Entry /\ Arrived(k).fetch = "none"
          /\ Arrived(k).data = cache[k].read /\ Arrived(k).late = cache[k].stays
      BY <1>1, <2>1 DEF Arrived, NoEntry, Entry
    <2>3. QED
      BY <1>1, <2>1, <2>2 DEF Says
  <1>3. CASE Fails(k)
    <2>1. cache' = [cache EXCEPT ![k] = Failed(k)]
      BY <1>3 DEF Fails, Failed
    <2>2. Failed(k) \in Entry /\ Failed(k).fetch = "none" /\ Failed(k).error
      BY <1>1 DEF Failed, NoEntry, Entry
    <2>3. QED
      BY <1>1, <2>1, <2>2 DEF Says
  <1>4. QED
    BY <1>2, <1>3

\* What an answer does to the mutations that may wait for it.
LEMMA AnswerWrites ==
    ASSUME TypeOK, NEW k \in Keys, Arrives(k) \/ Fails(k)
    PROVE  /\ writes' \in [Slots -> Write]
           /\ \A i \in Slots : Lessens(writes'[i], writes[i])
  <1>1. ASSUME NEW i \in Slots
        PROVE  writes'[i] \in Write /\ Lessens(writes'[i], writes[i])
    <2>1. writes[i] \in Write
      BY DEF TypeOK
    <2>2. \/ writes'[i] = WithoutWaits(writes[i], {k})
          \/ writes'[i] = WithoutWaits(WithoutTable(writes[i], k), {k})
      BY DEF Arrives, Fails
    <2>3. QED
      BY <2>1, <2>2, LessSteps
  <1>2. writes' \in [Slots -> Write]
    BY <1>1 DEF Arrives, Fails
  <1>3. QED
    BY <1>1, <1>2

LEMMA AnswerKeeps ==
    ASSUME Inv, NEW k \in Keys, Arrives(k) \/ Fails(k) PROVE Inv'
  <1> DEFINE e == cache'[k]
  <1>0. UNCHANGED <<server, page, loaded, scope, owed>> /\ Mounted' = Mounted
    BY SameMounted DEF Arrives, Fails
  <1>1. /\ cache \in [Keys -> Entry] /\ cache' = [cache EXCEPT ![k] = e] /\ e \in Entry
        /\ e.fetch = "none" /\ (Resource(k) # "students" => Says(e, owed[Resource(k)]))
    BY AnswerEntry DEF Inv, TypeOK
  <1> HIDE DEF e
  <1>2. TypeOK'
    <2>1. cache' \in [Keys -> Entry]
      BY <1>1
    <2>2. QED
      BY <1>0, <2>1, AnswerWrites DEF Inv, TypeOK
  <1>3. DataInv'
    <2>1. ReadsInv' /\ OwedInv'
      BY <1>0, <1>1 DEF Inv, DataInv, ReadsInv, OwedInv
    <2>2. OwnWritesShown'
      BY <1>0, <1>1 DEF Inv, DataInv, OwnWritesShown, Fetching, Says
    <2>3. QED
      BY <2>1, <2>2 DEF DataInv
  <1>4. WriteInv'
    BY <1>0, AnswerWrites, AllSound DEF Inv
  <1>5. QED
    BY <1>2, <1>3, <1>4 DEF Inv

LEMMA SubmitKeeps ==
    ASSUME Inv, NEW hook \in Hooks, Submit(hook),
           hook \in CourseHooks => page = "/courses",
           hook \in GradeHooks => page = "/grades" /\ Staff
    PROVE  Inv'
  <1> USE SameMounted DEF Inv
  <1> DEFINE w == [NoWrite EXCEPT !.hook = hook, !.pc = "sent", !.here = TRUE]
  <1>1. PICK i \in 1 .. scope.pending : writes' = [writes EXCEPT ![i] = w]
    BY DEF Submit
  <1>2. w \in Write /\ w.hook = hook /\ w.pc = "sent"
    BY DEF NoWrite, Write
  <1> HIDE DEF w
  <1>3. TypeOK'
    <2>1. writes' \in [Slots -> Write]
      BY <1>1, <1>2 DEF TypeOK
    <2>2. QED
      BY <2>1 DEF Submit, TypeOK
  <1>4. DataInv'
    BY DEF Submit, DataInv, ReadsInv, OwedInv, OwnWritesShown, Fetching
  <1>5. WriteInv'
    <2>1. \A j \in Slots : writes'[j] = w \/ writes'[j] = writes[j]
      BY <1>1 DEF TypeOK
    <2>2. page' = page /\ Mounted' = Mounted
      BY DEF Submit
    <2>3. Sound(w)
      BY <1>2 DEF Sound
    <2>4. \A j \in Slots : Sound(writes'[j])
      BY <2>1, <2>3 DEF WriteInv
    <2>5. QED
      BY <2>2, <2>4, SoundNext
  <1>6. QED
    BY <1>3, <1>4, <1>5

\* A step of one mutation leaves the others alone.
LEMMA StepSound ==
    ASSUME Inv, NEW i \in Slots, NEW w \in Write, Sound(w),
           writes' = [writes EXCEPT ![i] = w], page' = page, Mounted' = Mounted
    PROVE  writes' \in [Slots -> Write] /\ WriteInv'
  <1>1. writes' \in [Slots -> Write] /\ \A j \in Slots : writes'[j] = w \/ writes'[j] = writes[j]
    BY DEF Inv, TypeOK
  <1>2. \A j \in Slots : Sound(writes'[j])
    BY <1>1 DEF Inv, WriteInv
  <1>3. QED
    BY <1>1, <1>2, SoundNext

LEMMA ApplyKeeps == ASSUME Inv, NEW i \in Slots, Apply(i) PROVE Inv'
  <1> USE SameMounted DEF Inv, Apply
  <1>1. \A r \in Resources : server[r] \in Nat /\ server'[r] \in Nat /\ server'[r] >= server[r]
    BY DEF TypeOK
  <1> DEFINE w == [writes[i] EXCEPT !.pc = "applied"]
  <1>2. /\ writes' = [writes EXCEPT ![i] = w]
        /\ w \in Write /\ w.pc = "applied" /\ w.hook = writes[i].hook
        /\ w.here = writes[i].here
    BY DEF TypeOK, Write
  <1> HIDE DEF w
  <1>3. writes' \in [Slots -> Write] /\ WriteInv'
    <2>1. Sound(w)
      BY <1>2 DEF WriteInv, Sound
    <2>2. QED
      BY <1>2, <2>1, StepSound
  <1>4. TypeOK'
    BY <1>1, <1>3 DEF TypeOK
  <1>5. DataInv'
    <2>1. OwedInv'
      BY <1>1 DEF TypeOK, DataInv, OwedInv
    <2>2. ReadsInv' /\ OwnWritesShown'
      BY DEF DataInv, ReadsInv, OwnWritesShown, Fetching
    <2>3. QED
      BY <2>1, <2>2 DEF DataInv
  <1>6. QED
    BY <1>3, <1>4, <1>5

LEMMA RefusedKeeps == ASSUME Inv, NEW i \in Slots, Refused(i) PROVE Inv'
  <1> USE SameMounted DEF Inv, Refused
  <1>1. writes' \in [Slots -> Write] /\ WriteInv'
    <2>1. Sound(NoWrite)
      BY NoWriteTyped DEF Sound
    <2>2. QED
      BY <2>1, NoWriteTyped, StepSound
  <1>2. TypeOK'
    BY <1>1 DEF TypeOK
  <1>3. DataInv'
    BY DEF DataInv, ReadsInv, OwedInv, OwnWritesShown, Fetching
  <1>4. QED
    BY <1>1, <1>2, <1>3

LEMMA SucceedsKeeps == ASSUME Inv, NEW i \in Slots, Succeeds(i) PROVE Inv'
  <1> DEFINE hook == writes[i].hook
             ks == Matching(hook)
             waits == IF Awaits(hook) THEN ks \cap Mounted ELSE {}
  <1>0. /\ UNCHANGED <<server, page, loaded, scope>> /\ Mounted' = Mounted
        /\ hook \in Hooks /\ cache \in [Keys -> Entry] /\ Mounted \subseteq Keys
    BY SameMounted DEF Succeeds, Inv, WriteInv, Sound, TypeOK, Mounted
  <1>1. ASSUME NEW k \in Keys
        PROVE  /\ cache'[k] \in Entry
               /\ k \notin ks => cache'[k] = cache[k]
               /\ k \in ks /\ cache'[k].fetch = "read" => cache'[k].stays
               /\ k \in ks /\ k \in Mounted => cache'[k].fetch # "none"
               /\ cache'[k].fetch = "read" => cache[k].fetch = "read"
                                             /\ cache'[k].read = cache[k].read
    <2> DEFINE s == [cache[k] EXCEPT !.stays = TRUE]
    <2>1. cache'[k] = IF k \in ks /\ Restarts(k) THEN Asked(cache[k])
                      ELSE IF k \in ks /\ Undisturbed(k) THEN s ELSE cache[k]
      BY <1>0 DEF Succeeds
    <2>2. /\ s \in Entry /\ s.stays /\ s.fetch = cache[k].fetch /\ s.read = cache[k].read
          /\ cache[k] \in Entry
      BY <1>0 DEF Entry
    <2>3. Asked(cache[k]) \in Entry /\ Asked(cache[k]).fetch = "asked"
      BY <2>2, AskedEntry
    <2> HIDE DEF s
    <2>4. k \in ks => Restarts(k) \/ Undisturbed(k) \/ (k \notin Mounted /\ ~ Fetching(k))
      BY DEF Restarts, Undisturbed
    <2>5. QED
      BY <2>1, <2>2, <2>3, <2>4 DEF Undisturbed, Fetching
  <1>2. \A r \in Resources :
            owed'[r] = (IF r \in Writes(hook) THEN server[r] ELSE owed[r])
    BY DEF Succeeds
  <1>3. ASSUME NEW j \in Slots
        PROVE  writes'[j] \in Write /\ Sound(writes'[j])
    <2>1. writes[j] \in Write /\ Sound(writes[j])
      BY DEF Inv, TypeOK, WriteInv
    <2>2. CASE j # i
      <3>1. writes'[j] = Restarted(writes[j], {k \in ks : Restarts(k)})
        BY <2>2 DEF Succeeds
      <3>2. PICK v : v = Restarted(writes[j], {k \in ks : Restarts(k)})
        OBVIOUS
      <3>3. v \in Write /\ Lessens(v, writes[j])
        BY <2>1, <3>2, LessSteps
      <3>4. Sound(v)
        BY <2>1, <3>3, LessIsSound
      <3>5. QED
        BY <3>1, <3>2, <3>3, <3>4
    <2>3. CASE j = i /\ waits = {}
      <3>1. writes'[j] = NoWrite
        BY <2>3 DEF Succeeds
      <3>2. QED
        BY <3>1, NoWriteTyped DEF Sound
    <2>4. CASE j = i /\ waits # {}
      <3> DEFINE w == [writes[i] EXCEPT !.pc = "refetching", !.waits = waits]
      <3>1. writes'[j] = w
        BY <2>4 DEF Succeeds
      <3>2. /\ w \in Write /\ w.hook = hook /\ w.here = writes[i].here /\ w.waits = waits
            /\ w.pc = "refetching" /\ w.waits # {}
        BY <1>0, <2>1, <2>4 DEF Write
      <3>3. hook \in CourseHooks \cup GradeHooks => Awaits(hook)
        BY DEF Awaits, ApplicationHooks, CourseHooks, GradeHooks
      <3>4. ASSUME w.here, hook \in CourseHooks \cup GradeHooks PROVE w.waits = Mounted
        <4>1. \A j1, k1 \in Mounted : j1 = k1
          BY <2>1, <2>4, <3>2, <3>4, OneQuery DEF Sound
        <4>2. QED
          BY <3>2, <3>3, <3>4, <4>1
      <3> HIDE DEF w
      <3>5. QED
        BY <1>0, <2>1, <2>4, <3>1, <3>2, <3>4 DEF Sound
    <2>5. QED
      BY <2>2, <2>3, <2>4
  <1>4. TypeOK'
    <2>1. cache' \in [Keys -> Entry]
      BY <1>1 DEF Succeeds
    <2>2. owed' \in [Resources -> Nat]
      BY DEF Succeeds, Inv, TypeOK
    <2>3. writes' \in [Slots -> Write]
      BY <1>3 DEF Succeeds
    <2>4. QED
      BY <1>0, <2>1, <2>2, <2>3 DEF Inv, TypeOK
  <1>5. DataInv'
    <2>1. OwedInv'
      BY <1>0, <1>2 DEF Inv, TypeOK, DataInv, OwedInv
    <2>2. ASSUME NEW k \in Keys, Resource(k) # "students", k \notin ks
          PROVE  owed'[Resource(k)] = owed[Resource(k)]
      BY <1>0, <1>2, <2>2, MatchingNamed, KeysNamed
    <2>3. ReadsInv'
      BY <1>1, <2>2 DEF Inv, DataInv, ReadsInv
    <2>4. OwnWritesShown'
      BY <1>0, <1>1, <2>2 DEF Inv, DataInv, OwnWritesShown, Fetching
    <2>5. QED
      BY <2>1, <2>3, <2>4 DEF DataInv
  <1>6. WriteInv'
    BY <1>0, <1>3, SoundNext
  <1>7. QED
    BY <1>4, <1>5, <1>6 DEF Inv

LEMMA InitInv == Init => Inv
  <1> SUFFICES ASSUME Init PROVE Inv
    OBVIOUS
  <1>1. [k \in Keys |-> NoEntry] \in [Keys -> Entry]
    BY EmptyEntry
  <1>2. cache \in [Keys -> Entry] /\ \A k \in Keys : cache[k] = NoEntry \/ cache[k].fetch = "asked"
    BY <1>1, FetchedCache DEF Init
  <1>3. TypeOK
    BY <1>2, NoWriteTyped, ScopesAssumption DEF Init, TypeOK
  <1>4. DataInv
    BY <1>2, EmptyEntry
       DEF Init, DataInv, ReadsInv, OwedInv, OwnWritesShown, Fetching, Mounted
  <1>5. WriteInv
    BY NoWriteTyped DEF Init, WriteInv, Sound
  <1>6. QED
    BY <1>3, <1>4, <1>5 DEF Inv

LEMMA UserKeeps == ASSUME Inv, User PROVE Inv'
  <1> USE DEF Hooks, ApplicationHooks, CourseHooks, GradeHooks
  <1>1. CASE NewApplication \/ Review \/ AssignRole
    BY <1>1, SubmitKeeps DEF NewApplication, Review, AssignRole
  <1>2. CASE NewCourse
    BY <1>2, SubmitKeeps DEF NewCourse
  <1>3. CASE NewGrade \/ EditGrade
    BY <1>3, SubmitKeeps DEF NewGrade, EditGrade
  <1>4. QED
    BY <1>1, <1>2, <1>3, VisitKeeps, RetryKeeps, LoadGradesKeeps, FocusKeeps DEF User

LEMMA StepKeeps == ASSUME Inv, [Next]_vars PROVE Inv'
  <1>1. CASE User
    BY <1>1, UserKeeps
  <1>2. ASSUME NEW i \in Slots, Mutation(i) PROVE Inv'
    BY <1>2, ApplyKeeps, RefusedKeeps, SucceedsKeeps DEF Mutation
  <1>3. ASSUME NEW k \in Keys, Answers(k) \/ Collect(k) PROVE Inv'
    BY <1>3, ReadKeeps, AnswerKeeps, CollectKeeps DEF Answers
  <1>4. ASSUME NEW r \in Resources, OthersWrite(r) PROVE Inv'
    BY <1>4, OthersWriteKeeps
  <1>5. CASE UNCHANGED vars
    <2>1. TypeOK'
      BY <1>5 DEF vars, Inv, TypeOK
    <2>2. DataInv'
      BY <1>5, SameMounted DEF vars, Inv, DataInv, ReadsInv, OwedInv, OwnWritesShown,
         Fetching
    <2>3. QED
      BY <1>5, <2>1, <2>2, SameWrites DEF Inv, vars
  <1>6. QED
    BY <1>1, <1>2, <1>3, <1>4, <1>5 DEF Next

-----------------------------------------------------------------------------
\* The invariant is inductive: what is read, owed and waited for.
THEOREM Invariant == Spec => []Inv
  <1>1. Inv /\ [Next]_vars => Inv'
    BY StepKeeps
  <1>2. QED
    BY InitInv, <1>1, PTL DEF Spec

\* Every reachable state of the pages and the cache is type correct.
THEOREM TypeCorrect == Spec => []TypeOK
  <1>1. Inv => TypeOK
    BY DEF Inv
  <1>2. QED
    BY Invariant, <1>1, PTL

\* A page at rest shows what the user's own writes left (hooks/api.ts and the pages).
THEOREM OwnWrites == Spec => []OwnWritesShown
  <1>1. Inv => OwnWritesShown
    BY DEF Inv, DataInv
  <1>2. QED
    BY Invariant, <1>1, PTL

\* The end of a mutation is reported when what the page shows has it.
LEMMA ReportShows ==
    ASSUME Inv, NEW i \in Slots, writes[i].here, writes'[i].pc = "idle",
           Succeeds(i) \/ \E k \in Keys : Arrives(k) \/ Fails(k),
           writes[i].hook \in CourseHooks \cup GradeHooks,
           NEW j \in Mounted \cap Matching(writes[i].hook)
    PROVE  Says(cache'[j], owed'[Resource(j)])
  <1>0. /\ j \in Keys /\ writes[i].hook \in Hooks /\ writes[i].pc # "idle"
        /\ writes[i] \in Write
    BY DEF Mounted, Hooks, Inv, TypeOK, WriteInv, Sound
  <1>1. CASE Succeeds(i)
    <2>1. Awaits(writes[i].hook)
      BY DEF Awaits, ApplicationHooks, CourseHooks, GradeHooks
    <2>2. writes'[i].pc = "refetching"
      BY <1>0, <1>1, <2>1 DEF Succeeds, Write
    <2>3. QED
      BY <2>2
  <1>2. ASSUME NEW k \in Keys, Arrives(k) \/ Fails(k)
        PROVE  Says(cache'[j], owed'[Resource(j)])
    <2>1. /\ owed' = owed
          /\ Resource(k) # "students" => Says(cache'[k], owed[Resource(k)])
      BY <1>2, AnswerEntry DEF Arrives, Fails
    <2>2. writes[i].pc = "refetching" /\ writes[i].waits \subseteq {k}
      <3>1. PICK w \in Write : /\ w.pc = writes[i].pc /\ w.waits = writes[i].waits
                               /\ writes'[i] = WithoutWaits(w, {k})
        <4>1. CASE Arrives(k)
          BY <1>0, <4>1 DEF Arrives
        <4>2. CASE Fails(k)
          <5>1. writes'[i] = WithoutWaits(WithoutTable(writes[i], k), {k})
            BY <4>2 DEF Fails
          <5>2. QED
            BY <1>0, <5>1, WithoutTableStep
        <4>3. QED
          BY <1>2, <4>1, <4>2
      <3>2. QED
        BY <1>0, <3>1, WithoutWaitsStep
    <2>3. j = k
      BY <1>0, <2>2 DEF Inv, WriteInv, Sound
    <2>4. QED
      BY <1>0, <2>1, <2>3, MatchingNamed
  <1>3. QED
    BY <1>1, <1>2

\* A course or a grade is reported as saved once the page shows it (the promise that
\* onSuccess of hooks/api.ts returns), but for the exceptions of the property.
THEOREM ReportCorrect == Spec => ReportedIsShown
  <1> DEFINE Report ==
        \A i \in Slots :
        LET reported == /\ writes[i].here /\ writes'[i].pc = "idle"
                        /\ Succeeds(i) \/ \E k \in Keys : Arrives(k) \/ Fails(k)
        IN reported /\ writes[i].hook \in CourseHooks \cup GradeHooks
           => \A k \in Mounted \cap Matching(writes[i].hook) : LET e == cache'[k] IN
                 e.data # None /\ ~ e.error /\ ~ e.late => e.data >= owed'[Resource(k)]
  <1>1. Inv /\ [Next]_vars => [Report]_vars
    BY ReportShows DEF Says
  <1>2. QED
    BY Invariant, <1>1, PTL DEF Spec, ReportedIsShown

-----------------------------------------------------------------------------
(***************************************************************************)
(* The end of a mutation.  What it waits for is in flight, and each of its *)
(* steps, the answers it waits for and the second restart of a request     *)
(* take it forward; with the fairness of Spec this is what PendingEnds     *)
(* rests on.                                                               *)
(***************************************************************************)
\* The queries that a pending mutation waits for have a request in flight.
WaitsInv ==
    \A i \in Slots : writes[i].pc = "refetching" =>
        writes[i].waits # {} /\ \A k \in writes[i].waits : k \in Keys /\ Fetching(k)

MutationStepsLeft(pc) ==
    CASE pc = "sent" -> 3 [] pc = "applied" -> 2 [] pc = "refetching" -> 1 [] pc = "idle" -> 0

Ahead(i) == MutationStepsLeft(writes'[i].pc) < MutationStepsLeft(writes[i].pc)

\* A mutation is still what it was, waits for no more, and has not forgotten a restart.
Holds(i) ==
    /\ writes'[i].pc = writes[i].pc /\ writes'[i].hook = writes[i].hook
    /\ writes'[i].waits \subseteq writes[i].waits
    /\ writes[i].again \cap writes'[i].waits \subseteq writes'[i].again

\* A request is given up for another.
Restarting(k) ==
    \/ Retry(k)
    \/ \E j \in Slots : Succeeds(j) /\ k \in Matching(writes[j].hook) /\ Restarts(k)

\* The first restart is remembered and the second ends the wait.
TakenFor(i, k) ==
    \/ Ahead(i) \/ k \notin writes'[i].waits
    \/ k \notin writes[i].again /\ k \in writes'[i].again

\* What is in flight stays so until it is answered.
LEMMA FetchingStays ==
    ASSUME TypeOK, NEW k \in Keys, Fetching(k), Next
    PROVE  Fetching(k)' \/ Arrives(k) \/ Fails(k)
  <1> USE DEF TypeOK
  <1>1. CASE LoadGrades \/ Focus \/ \E p \in Pages : Visit(p)
    <2>1. PICK ks : cache' = Fetched(cache, ks)
      BY <1>1 DEF LoadGrades, Focus, Visit
    <2>2. QED
      BY <2>1, FetchedCache DEF Fetching
  <1>2. ASSUME NEW j \in Keys, Retry(j) PROVE Fetching(k)'
    BY <1>2, AskedEntry DEF Retry, Fetching
  <1>3. CASE NewApplication \/ Review \/ NewCourse \/ NewGrade \/ EditGrade \/ AssignRole
    BY <1>3 DEF NewApplication, Review, NewCourse, NewGrade, EditGrade, AssignRole, Submit,
       Fetching
  <1>4. ASSUME NEW i \in Slots, Apply(i) \/ Refused(i) PROVE Fetching(k)'
    BY <1>4 DEF Apply, Refused, Fetching
  <1>5. ASSUME NEW i \in Slots, Succeeds(i) PROVE Fetching(k)'
    <2> DEFINE c == cache[k]
    <2>1. /\ c \in Entry /\ [c EXCEPT !.stays = TRUE].fetch = c.fetch
          /\ Asked(c).fetch = "asked"
      BY AskedEntry DEF Entry
    <2>2. cache'[k] = Asked(c) \/ cache'[k] = [c EXCEPT !.stays = TRUE] \/ cache'[k] = c
      BY <1>5 DEF Succeeds
    <2>3. QED
      BY <2>1, <2>2 DEF Fetching
  <1>6. ASSUME NEW j \in Keys, Read(j) PROVE Fetching(k)'
    <2> DEFINE c == [cache[j] EXCEPT !.fetch = "read", !.read = server[Resource(j)]]
    <2>1. c.fetch = "read" /\ cache' = [cache EXCEPT ![j] = c]
      BY <1>6 DEF Read, Entry
    <2> HIDE DEF c
    <2>2. QED
      BY <2>1 DEF Fetching
  <1>7. ASSUME NEW j \in Keys, Arrives(j) \/ Fails(j) \/ Collect(j)
        PROVE  Fetching(k)' \/ Arrives(k) \/ Fails(k)
    <2>1. CASE j = k
      BY <1>7, <2>1 DEF Collect
    <2>2. CASE j # k
      BY <1>7, <2>2 DEF Arrives, Fails, Collect, Fetching
    <2>3. QED
      BY <2>1, <2>2
  <1>8. ASSUME NEW r \in Resources, OthersWrite(r) PROVE Fetching(k)'
    BY <1>8 DEF OthersWrite, Fetching
  <1>9. QED
    BY <1>1, <1>2, <1>3, <1>4, <1>5, <1>6, <1>7, <1>8 DEF Next, User, Mutation, Answers

\* What a step does to a mutation that is not its own.
LEMMA OthersLessen ==
    ASSUME TypeOK, NEW i \in Slots, Next, ~ Mutation(i)
    PROVE  \/ Lessens(writes'[i], writes[i])
           \/ writes[i].pc = "idle" /\ writes'[i].pc = "sent"
  <1>0. writes[i] \in Write /\ writes \in [Slots -> Write]
    BY DEF TypeOK
  <1>1. ASSUME NEW p \in Pages, Visit(p) PROVE Lessens(writes'[i], writes[i])
    <2>1. writes'[i] = [writes[i] EXCEPT !.here = FALSE]
      BY <1>1 DEF Visit
    <2>2. QED
      BY <1>0, <2>1 DEF Lessens, Write
  <1>2. ASSUME NEW k \in Keys, Retry(k) PROVE Lessens(writes'[i], writes[i])
    BY <1>0, <1>2, LessSteps DEF Retry
  <1>3. ASSUME NEW hook, Submit(hook)
        PROVE  writes'[i] = writes[i] \/ (writes[i].pc = "idle" /\ writes'[i].pc = "sent")
    <2>1. PICK j \in 1 .. scope.pending :
              /\ writes[j].pc = "idle"
              /\ writes' = [writes EXCEPT ![j] =
                     [NoWrite EXCEPT !.hook = hook, !.pc = "sent", !.here = TRUE]]
      BY <1>3 DEF Submit
    <2>2. [NoWrite EXCEPT !.hook = hook, !.pc = "sent", !.here = TRUE].pc = "sent"
      BY DEF NoWrite
    <2>3. QED
      BY <1>0, <2>1, <2>2
  <1>4. CASE NewApplication \/ Review \/ NewCourse \/ NewGrade \/ EditGrade \/ AssignRole
    BY <1>3, <1>4, SameIsLess
       DEF NewApplication, Review, NewCourse, NewGrade, EditGrade, AssignRole
  <1>5. ASSUME NEW j \in Slots, j # i, Apply(j) \/ Refused(j) PROVE writes'[i] = writes[i]
    BY <1>0, <1>5 DEF Apply, Refused
  <1>6. ASSUME NEW j \in Slots, j # i, Succeeds(j) PROVE Lessens(writes'[i], writes[i])
    <2>1. PICK ks : writes'[i] = Restarted(writes[i], ks)
      BY <1>6 DEF Succeeds
    <2>2. QED
      BY <1>0, <2>1, LessSteps
  <1>7. ASSUME NEW k \in Keys, Arrives(k) \/ Fails(k) PROVE Lessens(writes'[i], writes[i])
    BY <1>7, AnswerWrites
  <1>8. CASE \/ LoadGrades \/ Focus \/ \E k \in Keys : Read(k) \/ Collect(k)
             \/ \E r \in Resources : OthersWrite(r)
    BY <1>8, SameIsLess DEF LoadGrades, Focus, Read, Collect, OthersWrite
  <1>9. QED
    BY <1>1, <1>2, <1>4, <1>5, <1>6, <1>7, <1>8, SameIsLess DEF Next, User, Mutation, Answers

\* An answer ends every wait for it.
LEMMA AnswerEnds ==
    ASSUME TypeOK, NEW i \in Slots, NEW k \in Keys, Arrives(k) \/ Fails(k)
    PROVE  k \notin writes'[i].waits
  <1>1. PICK w \in Write : writes'[i] = WithoutWaits(w, {k})
    BY WithoutTableStep DEF Arrives, Fails, TypeOK
  <1>2. NoWrite.waits = {}
    BY DEF NoWrite
  <1>3. QED
    BY <1>1, <1>2, WithoutWaitsStep

LEMMA WaitsStep == ASSUME TypeOK, WaitsInv, Next PROVE WaitsInv'
  <1> SUFFICES ASSUME NEW i \in Slots, writes'[i].pc = "refetching"
               PROVE  writes'[i].waits # {}
                      /\ \A k \in writes'[i].waits : k \in Keys /\ Fetching(k)'
    BY DEF WaitsInv, Fetching
  <1>1. CASE Mutation(i)
    <2> DEFINE ks == Matching(writes[i].hook)
               waits == IF Awaits(writes[i].hook) THEN ks \cap Mounted ELSE {}
    <2>1. Succeeds(i)
      BY <1>1 DEF Mutation, Apply, Refused, NoWrite, TypeOK, Write
    <2>2. writes'[i].waits = waits /\ waits # {}
      BY <2>1 DEF Succeeds, NoWrite, TypeOK, Write
    <2>3. ASSUME NEW k \in waits PROVE k \in Keys /\ Fetching(k)'
      <3>1. k \in Keys /\ k \in Mounted /\ k \in ks
        BY <2>3 DEF Mounted
      <3>2. CASE Restarts(k)
        BY <2>1, <3>1, <3>2, AskedEntry DEF Succeeds, Fetching, TypeOK
      <3>3. CASE ~ Restarts(k)
        <4>1. Fetching(k)
          BY <3>1, <3>3 DEF Restarts
        <4>2. ~ Arrives(k) /\ ~ Fails(k)
          BY <2>1, <2>2, <3>1, <4>1, AnswerEnds, <2>3
        <4>3. QED
          BY <2>1, <3>1, <4>1, <4>2, FetchingStays
      <3>4. QED
        BY <3>1, <3>2, <3>3
    <2>4. QED
      BY <2>2, <2>3
  <1>2. CASE ~ Mutation(i)
    <2>1. /\ writes[i].pc = "refetching" /\ writes'[i].waits # {}
          /\ writes'[i].waits \subseteq writes[i].waits
      BY <1>2, OthersLessen, NoWriteTyped DEF Lessens, WaitsInv
    <2>2. ASSUME NEW k \in writes'[i].waits PROVE k \in Keys /\ Fetching(k)'
      BY <2>1, <2>2, FetchingStays, AnswerEnds DEF WaitsInv
    <2>3. QED
      BY <2>1, <2>2
  <1>3. QED
    BY <1>1, <1>2

\* A mutation that is reported to be pending waits for its own answer or for requests
\* that are in flight, whatever pages are visited, retried or collected meanwhile.
THEOREM WaitsAreInFlight == Spec => []WaitsInv
  <1>1. Init => WaitsInv
    BY NoWriteTyped DEF Init, WaitsInv
  <1>2. TypeOK /\ WaitsInv /\ [Next]_vars => WaitsInv'
    BY WaitsStep DEF WaitsInv, Fetching, vars
  <1>3. QED
    BY <1>1, <1>2, TypeCorrect, PTL DEF Spec

LEMMA OwnStepsAhead ==
    ASSUME TypeOK, NEW i \in Slots, Mutation(i) PROVE Ahead(i)
  <1>0. writes[i] \in Write /\ writes \in [Slots -> Write]
    BY DEF TypeOK
  <1>1. CASE Apply(i)
    BY <1>0, <1>1 DEF Apply, Ahead, MutationStepsLeft, Write
  <1>2. CASE Refused(i)
    BY <1>0, <1>2, NoWriteTyped DEF Refused, Ahead, MutationStepsLeft
  <1>3. CASE Succeeds(i)
    <2>1. writes[i].pc = "applied" /\ writes'[i].pc \in {"idle", "refetching"}
      BY <1>0, <1>3, NoWriteTyped DEF Succeeds, Write
    <2>2. QED
      BY <2>1 DEF Ahead, MutationStepsLeft
  <1>4. QED
    BY <1>1, <1>2, <1>3 DEF Mutation

LEMMA RestartTakes ==
    ASSUME TypeOK, NEW i \in Slots, NEW k \in writes[i].waits, k \in Keys, Restarting(k)
    PROVE  TakenFor(i, k)
  <1>0. writes[i] \in Write
    BY DEF TypeOK
  <1>1. CASE Succeeds(i)
    BY <1>1, OwnStepsAhead DEF Mutation, TakenFor
  <1>2. CASE ~ Succeeds(i)
    <2>1. PICK ks : writes'[i] = Restarted(writes[i], ks) /\ k \in ks
      <3>1. CASE Retry(k)
        BY <3>1 DEF Retry
      <3>2. ASSUME NEW j \in Slots, j # i, Succeeds(j), k \in Matching(writes[j].hook),
                   Restarts(k)
            PROVE  \E ks : writes'[i] = Restarted(writes[i], ks) /\ k \in ks
        <4>1. /\ writes'[i] = Restarted(writes[i],
                                        {l \in Matching(writes[j].hook) : Restarts(l)})
              /\ k \in {l \in Matching(writes[j].hook) : Restarts(l)}
          BY <3>2 DEF Succeeds
        <4>2. QED
          BY <4>1
      <3>3. QED
        BY <1>2, <3>1, <3>2 DEF Restarting
    <2>2. NoWrite.waits = {}
      BY DEF NoWrite
    <2>3. QED
      BY <1>0, <2>1, <2>2, RestartedStep DEF TakenFor
  <1>3. QED
    BY <1>1, <1>2

\* A pending mutation only goes forward: its own steps take it on, the answer to a query
\* it waits for, good or bad, ends that wait, nothing makes it wait for more, and of two
\* restarts of a request it waits for the second ends the wait.
THEOREM MutationsGoForward ==
  Spec => [][\A i \in Slots : writes[i].pc # "idle" =>
               /\ Mutation(i) => Ahead(i)
               /\ Ahead(i) \/ Holds(i)
               /\ \A k \in writes[i].waits :
                     /\ Arrives(k) \/ Fails(k) => Ahead(i) \/ k \notin writes'[i].waits
                     /\ Restarting(k) => TakenFor(i, k)]_vars
  <1> DEFINE Step(i) ==
        /\ Mutation(i) => Ahead(i)
        /\ Ahead(i) \/ Holds(i)
        /\ \A k \in writes[i].waits :
              /\ Arrives(k) \/ Fails(k) => Ahead(i) \/ k \notin writes'[i].waits
              /\ Restarting(k) => TakenFor(i, k)
  <1>1. ASSUME TypeOK, Next, NEW i \in Slots, writes[i].pc # "idle" PROVE Step(i)
    <2>0. writes[i] \in Write
      BY <1>1 DEF TypeOK
    <2>1. Ahead(i) \/ Holds(i)
      <3>1. CASE Mutation(i)
        BY <1>1, <3>1, OwnStepsAhead
      <3>2. CASE ~ Mutation(i)
        BY <1>1, <3>2, OthersLessen, NoWriteTyped DEF Lessens, Ahead, Holds, MutationStepsLeft
      <3>3. QED
        BY <3>1, <3>2
    <2>2. ASSUME NEW k \in writes[i].waits
          PROVE  /\ Arrives(k) \/ Fails(k) => Ahead(i) \/ k \notin writes'[i].waits
                 /\ Restarting(k) => TakenFor(i, k)
      <3>1. k \in Keys
        BY <2>0 DEF Write
      <3>2. QED
        BY <1>1, <3>1, AnswerEnds, RestartTakes
    <2>3. QED
      BY <1>1, <2>1, <2>2, OwnStepsAhead
  <1>2. TypeOK /\ [Next]_vars => [\A i \in Slots : writes[i].pc # "idle" => Step(i)]_vars
    BY <1>1
  <1>3. QED
    BY <1>2, TypeCorrect, PTL DEF Spec
=============================================================================
