---------------------------- MODULE UiWorkspace ----------------------------
(***************************************************************************)
(* What the pages of the UI show and save: the queries and mutations of    *)
(* src/ui/src/hooks/api.ts over the cache of @tanstack/react-query, and    *)
(* the pages and dialogs of routes/ that mount them.  One tab, one user,   *)
(* while others write to the same server.                                  *)
(*                                                                         *)
(* A resource of the server is the number of writes it has had, and what a *)
(* query holds is the number it has read.  The three retries of a query    *)
(* are one request that reads late.  Signing out, which empties the cache, *)
(* is in UiShell; fields of forms, filters and wording are left out.       *)
(***************************************************************************)
EXTENDS Naturals, SequencesExt

CONSTANTS
    Keys,       \* bound: the queries of the run
    Staff,      \* the user is a dean or an administrator, who review and grade
    Pending,    \* bound: mutations in progress at a time
    Scopes,     \* bound: the pages and the number of mutations; a run has one of them
    MaxWrites,  \* bound: writes, by whomever
    None        \* null

VARIABLES
    server,     \* what the API would answer: a version of each resource
    page,       \* the page that shows
    loaded,     \* submittedId of StaffGrades is set
    cache,      \* the query cache
    writes,     \* the mutations in progress
    scope,      \* the bounds of this run
    owed        \* history: what the answers to the user's own writes reflect

vars == <<server, page, loaded, cache, writes, scope, owed>>

-----------------------------------------------------------------------------
(***************************************************************************)
(* Pages, queries and mutations.                                           *)
(***************************************************************************)
Course == <<"grades", "course", "c">>

ApplicationKeys == {<<"applications">>, <<"applications", "my">>}
StudentKeys == {<<"students">>, <<"students", "me">>}
CourseKeys == {<<"courses">>}
GradeKeys == {<<"grades", "my">>, Course}

AllKeys == ApplicationKeys \cup StudentKeys \cup CourseKeys \cup GradeKeys

ApplicationHooks == {"createApplication", "reviewApplication"}
CourseHooks == {"createCourse"}
GradeHooks == {"createGrade", "updateGrade"}

Hooks == ApplicationHooks \cup CourseHooks \cup GradeHooks \cup {"assignRole"}

Pages == {"/dashboard", "/applications", "/students", "/courses", "/grades", "/admin"}

ASSUME KeysAssumption == Keys \subseteq AllKeys
ASSUME PendingAssumption == Pending \in Nat
ASSUME ScopesAssumption == Scopes \subseteq [pages: SUBSET Pages, pending: 0 .. Pending]
ASSUME StaffAssumption == Staff \in BOOLEAN
ASSUME NoneAssumption == None \notin Nat

\* What the route of a query reads, and who may.
Resource(k) == Head(k)

Resources == {Resource(k) : k \in Keys}

Permitted(k) == Staff \/ k \notin {<<"applications">>, <<"students">>, Course}

Dashboard == AllKeys \ {Course}

Applications == ApplicationKeys

StaffGrades == IF loaded THEN {Course} ELSE {}

MyGrades == {<<"grades", "my">>}

StudentsPage == IF Staff THEN {<<"students">>} ELSE {}

CoursesPage == CourseKeys

\* useQuery of each page.
Queries(p) ==
    CASE p = "/dashboard" -> Dashboard
      [] p = "/applications" -> Applications
      [] p = "/students" -> StudentsPage
      [] p = "/courses" -> CoursesPage
      [] p = "/grades" -> IF Staff THEN StaffGrades ELSE MyGrades
      [] OTHER -> {}

\* The query whose table or error the page shows; the dashboard has neither.
Main(p) ==
    CASE p = "/applications" -> <<"applications">> \o IF Staff THEN << >> ELSE <<"my">>
      [] p = "/students" -> <<"students">>
      [] p = "/courses" -> <<"courses">>
      [] p = "/grades" -> IF Staff THEN Course ELSE <<"grades", "my">>
      [] OTHER -> << >>

\* What the route of a mutation writes: an approval also makes a student.
Writes(hook) ==
    CASE hook = "createApplication" -> {"applications"}
      [] hook = "reviewApplication" -> {"applications", "students"}
      [] hook \in CourseHooks -> {"courses"}
      [] hook \in GradeHooks -> {"grades"}
      [] hook = "assignRole" -> {"users"}

\* queryKey of invalidateQueries in onSuccess.
Invalidates(hook) ==
    CASE hook \in ApplicationHooks -> <<"applications">>
      [] hook \in CourseHooks -> <<"courses">>
      [] hook \in GradeHooks -> <<"grades">>
      [] hook = "assignRole" -> <<"users">>

\* mutation: onSuccess of a grade drops the promise it gets
Awaits_NotGrades(hook) == hook \in CourseHooks

\* onSuccess returns the promise of invalidateQueries: the mutation waits for it.
Awaits(hook) == hook \notin ApplicationHooks

-----------------------------------------------------------------------------
(***************************************************************************)
(* State.                                                                  *)
(***************************************************************************)
\* fetch: the request in flight, and what the server has read for it; stays: it was
\* sent before an own write was answered; late: the data came by such a request.
Entry == [data: Nat \cup {None}, error: BOOLEAN, late: BOOLEAN,
          fetch: {"none", "asked", "read"}, read: Nat \cup {None}, stays: BOOLEAN]

NoEntry == [data |-> None, error |-> FALSE, late |-> FALSE,
            fetch |-> "none", read |-> None, stays |-> FALSE]

\* here: the component that called mutate is still mounted; waits: the queries whose
\* refetch the mutation waits for; again: those of them that have been restarted since.
Write == [hook: Hooks \cup {None}, pc: {"idle", "sent", "applied", "refetching"},
          here: BOOLEAN, waits: SUBSET Keys, again: SUBSET Keys]

NoWrite == [hook |-> None, pc |-> "idle", here |-> FALSE, waits |-> {}, again |-> {}]

Slots == 1 .. Pending

TypeOK ==
    /\ server \in [Resources -> Nat]
    /\ page \in Pages /\ loaded \in BOOLEAN
    /\ cache \in [Keys -> Entry]
    /\ writes \in [Slots -> Write]
    /\ scope \in Scopes /\ owed \in [Resources -> Nat]

Mounted == Queries(page) \cap Keys

Fetching(k) == cache[k].fetch # "none"

\* The entry of a query once it is fetched: the error of one that has no data goes.
Asked(e) ==
    [e EXCEPT !.fetch = "asked", !.read = None, !.stays = FALSE,
              !.error = e.error /\ e.data # None]

\* mutation: the queries of the page that is left are dropped
Fetched_Only(c, ks) ==
    [k \in ks \cap Keys |-> IF c[k].fetch = "none" THEN Asked(c[k]) ELSE c[k]]

\* staleTime is 0: what is mounted is fetched, unless it already is.
Fetched(c, ks) ==
    [k \in Keys |-> IF k \in ks /\ c[k].fetch = "none" THEN Asked(c[k]) ELSE c[k]]

Init ==
    /\ server = [r \in Resources |-> 0] /\ owed = server
    /\ scope \in Scopes /\ page \in scope.pages /\ loaded = FALSE
    /\ cache = Fetched([k \in Keys |-> NoEntry], Queries(page))
    /\ writes = [i \in Slots |-> NoWrite]

\* A page shows its table once it has data and as long as its query has no error.
Table ==
    LET k == Main(page)
    IN k \in Mounted /\ cache[k].data # None /\ ~ cache[k].error

\* The dialogs that live in the rows of that table.
InRow == {"reviewApplication", "updateGrade"}

-----------------------------------------------------------------------------
(***************************************************************************)
(* The user and the other users.                                           *)
(***************************************************************************)
Visit(p) ==
    /\ p \in scope.pages \ {page}
    /\ page' = p /\ loaded' = FALSE
    /\ cache' = Fetched(cache, Queries(p) \ {Course})
    /\ writes' = [i \in Slots |-> [writes[i] EXCEPT !.here = FALSE]]
    /\ UNCHANGED <<server, scope, owed>>

\* "Load grades" with the ID of the course.
LoadGrades ==
    /\ page = "/grades" /\ Staff /\ ~ loaded
    /\ loaded' = TRUE
    /\ cache' = Fetched(cache, {Course})
    /\ UNCHANGED <<server, page, writes, scope, owed>>

\* refetchOnWindowFocus
Focus ==
    /\ cache' = Fetched(cache, Mounted)
    /\ UNCHANGED <<server, page, loaded, writes, scope, owed>>

\* The last refetch that a mutation waits for ends it: its callbacks run.
WithoutWaits(w, ks) ==
    LET rest == w.waits \ ks
    IN IF w.pc = "refetching" /\ rest = {} THEN NoWrite
       ELSE [w EXCEPT !.waits = rest, !.again = @ \cap rest]

\* A request is given up for a new one.  Who waited for it waits for the new one; but who
\* did so already because of an earlier restart is told that this one was given up, and
\* takes that for an end.
Restarted(w, ks) ==
    WithoutWaits([w EXCEPT !.again = @ \cup (ks \cap w.waits)], w.again \cap ks)

\* "Try again" of ErrorState: the first request of all is not given up.
Retry(k) ==
    /\ k \in Mounted /\ k = Main(page) /\ cache[k].error
    /\ ~ Fetching(k) \/ cache[k].data # None
    /\ cache' = [cache EXCEPT ![k] = Asked(@)]
    /\ writes' = [i \in Slots |-> Restarted(writes[i], {k})]
    /\ UNCHANGED <<server, page, loaded, scope, owed>>

\* A query that nobody shows is dropped after five minutes.
Collect(k) ==
    /\ k \notin Mounted /\ ~ Fetching(k)
    /\ cache' = [cache EXCEPT ![k] = NoEntry]
    /\ UNCHANGED <<server, page, loaded, writes, scope, owed>>

MoreWrites == FoldFunction(+, 0, server) < MaxWrites

OthersWrite(r) ==
    /\ MoreWrites
    /\ server' = [server EXCEPT ![r] = @ + 1]
    /\ UNCHANGED <<page, loaded, cache, writes, scope, owed>>

-----------------------------------------------------------------------------
(***************************************************************************)
(* Queries.                                                                *)
(***************************************************************************)
\* The API reads what it answers.
Read(k) ==
    /\ cache[k].fetch = "asked" /\ Permitted(k)
    /\ cache' = [cache EXCEPT ![k] = [@ EXCEPT !.fetch = "read",
                                               !.read = server[Resource(k)]]]
    /\ UNCHANGED <<server, page, loaded, writes, scope, owed>>

Arrives(k) ==
    /\ cache[k].fetch = "read"
    /\ cache' = [cache EXCEPT ![k] = [NoEntry EXCEPT !.data = cache[k].read,
                                                   !.late = cache[k].stays]]
    /\ writes' = [i \in Slots |-> WithoutWaits(writes[i], {k})]
    /\ UNCHANGED <<server, page, loaded, scope, owed>>

\* The error takes the place of the table, and the dialogs of its rows go with it.
WithoutTable(w, k) == [w EXCEPT !.here = @ /\ ~ (w.hook \in InRow /\ k = Main(page))]

\* mutation: a refetch that fails leaves the mutation waiting
Fails_StillWaits(k) ==
    /\ Fetching(k)
    /\ cache' = [cache EXCEPT ![k] = [NoEntry EXCEPT !.data = cache[k].data, !.error = TRUE,
                                                   !.late = cache[k].late]]
    /\ writes' = [i \in Slots |-> WithoutTable(writes[i], k)]
    /\ UNCHANGED <<server, page, loaded, scope, owed>>

Fails(k) ==
    /\ Fetching(k)
    /\ cache' = [cache EXCEPT ![k] = [NoEntry EXCEPT !.data = cache[k].data, !.error = TRUE,
                                                   !.late = cache[k].late]]
    /\ writes' = [i \in Slots |-> WithoutWaits(WithoutTable(writes[i], k), {k})]
    /\ UNCHANGED <<server, page, loaded, scope, owed>>

-----------------------------------------------------------------------------
(***************************************************************************)
(* Mutations: the dialogs in the head of a page or in the rows of its      *)
(* table.  The button of each is disabled while its own mutation is        *)
(* pending; a row has its own, and so has a page that is opened anew.      *)
(***************************************************************************)
Enabled(hook) ==
    hook \in InRow \/ \A i \in Slots : ~ (writes[i].hook = hook /\ writes[i].here)

\* Each takes the first slot that is free.
Submit(hook) ==
    /\ Enabled(hook)
    /\ \E i \in 1 .. scope.pending :
          /\ writes[i].pc = "idle" /\ \A j \in 1 .. i - 1 : writes[j].pc # "idle"
          /\ writes' = [writes EXCEPT ![i] =
                [NoWrite EXCEPT !.hook = hook, !.pc = "sent", !.here = TRUE]]
    /\ UNCHANGED <<server, page, loaded, cache, scope, owed>>

NewApplication == page = "/applications" /\ Submit("createApplication")

Review == page = "/applications" /\ Staff /\ Table /\ Submit("reviewApplication")

NewCourse == page = "/courses" /\ Staff /\ Submit("createCourse")

NewGrade == page = "/grades" /\ Staff /\ Submit("createGrade")

EditGrade == page = "/grades" /\ Staff /\ Table /\ Submit("updateGrade")

AssignRole == page = "/admin" /\ Staff /\ Submit("assignRole")

Apply(i) ==
    /\ writes[i].pc = "sent"
    /\ MoreWrites
    /\ server' = [r \in Resources |->
                     server[r] + (IF r \in Writes(writes[i].hook) THEN 1 ELSE 0)]
    /\ writes' = [writes EXCEPT ![i].pc = "applied"]
    /\ UNCHANGED <<page, loaded, cache, scope, owed>>

\* The request is refused, or its answer lost: onError says so.
Refused(i) ==
    /\ writes[i].pc \in {"sent", "applied"}
    /\ writes' = [writes EXCEPT ![i] = NoWrite]
    /\ UNCHANGED <<server, page, loaded, cache, scope, owed>>

Matching(hook) == {k \in Keys : IsPrefix(Invalidates(hook), k)}

\* mutation: a refetch of its own is made only if none is in flight
Restarts_IfIdle(k) == k \in Mounted /\ ~ Fetching(k)

\* cancelRefetch: what is mounted is fetched anew, unless its first request is in flight.
Restarts(k) == k \in Mounted /\ (~ Fetching(k) \/ cache[k].data # None)

\* A request that an invalidation leaves in flight: of a query that no page shows, or
\* that has no data yet.
Undisturbed(k) == Fetching(k) /\ (k \notin Mounted \/ cache[k].data = None)

\* onSuccess: invalidateQueries
Succeeds(i) ==
    /\ writes[i].pc = "applied"
    /\ LET hook == writes[i].hook
           ks == Matching(hook)
           waits == IF Awaits(hook) THEN ks \cap Mounted ELSE {}
       IN /\ cache' = [k \in Keys |->
                 IF k \in ks /\ Restarts(k) THEN Asked(cache[k])
                 ELSE IF k \in ks /\ Undisturbed(k) THEN [cache[k] EXCEPT !.stays = TRUE]
                 ELSE cache[k]]
          /\ owed' = [r \in Resources |->
                 IF r \in Writes(hook) THEN server[r] ELSE owed[r]]
          /\ writes' = [j \in Slots |->
                 IF j # i THEN Restarted(writes[j], {k \in ks : Restarts(k)})
                 ELSE IF waits = {} THEN NoWrite
                 ELSE [writes[i] EXCEPT !.pc = "refetching", !.waits = waits]]
    /\ UNCHANGED <<server, page, loaded, scope>>

-----------------------------------------------------------------------------
Answers(k) == Read(k) \/ Arrives(k) \/ Fails(k)

Mutation(i) == Apply(i) \/ Refused(i) \/ Succeeds(i)

User ==
    \/ \E p \in Pages : Visit(p)
    \/ \E k \in Keys : Retry(k)
    \/ NewApplication \/ Review \/ NewCourse \/ NewGrade \/ EditGrade \/ AssignRole
    \/ LoadGrades \/ Focus

Next ==
    \/ User
    \/ \E i \in Slots : Mutation(i)
    \/ \E k \in Keys : Answers(k) \/ Collect(k)
    \/ \E r \in Resources : OthersWrite(r)

\* Each request is answered or fails in the end.  No user is fair.
Spec ==
    /\ Init /\ [][Next]_vars
    /\ \A i \in Slots : WF_vars(Mutation(i))
    /\ \A k \in Keys : WF_vars(Answers(k))

-----------------------------------------------------------------------------
\* At rest a page shows at least what the user's own writes left.  The exceptions: a
\* query whose refetch failed (the dashboard shows its old data without a word), one
\* whose request was already in flight and was not restarted, and the students, whom
\* no mutation invalidates when an approval makes one.
OwnWritesShown ==
    \A k \in Mounted : LET e == cache[k] IN
        ~ Fetching(k) /\ e.data # None /\ ~ e.error /\ ~ e.late /\ Resource(k) # "students"
        => e.data >= owed[Resource(k)]

\* A course or a grade is reported as saved, to whom still has its form, only once the
\* page shows it, unless the refetch failed, was not restarted, or was restarted twice by
\* other mutations or by the user (Restarted).
ReportedIsShown ==
    [][ \A i \in Slots :
        LET reported == /\ writes[i].here /\ writes'[i].pc = "idle"
                        /\ Succeeds(i) \/ \E k \in Keys : Arrives(k) \/ Fails(k)
        IN reported /\ writes[i].hook \in CourseHooks \cup GradeHooks
           => \A k \in Mounted \cap Matching(writes[i].hook) : LET e == cache'[k] IN
                 e.data # None /\ ~ e.error /\ ~ e.late => e.data >= owed'[Resource(k)]
      ]_vars

\* The buttons that are disabled while a mutation is pending are enabled again, however
\* often the data it waits for is asked for anew.
PendingEnds == \A i \in Slots : writes[i].pc # "idle" ~> writes[i].pc = "idle"

=============================================================================
