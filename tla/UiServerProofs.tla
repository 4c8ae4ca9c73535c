--------------------------- MODULE UiServerProofs ---------------------------
(***************************************************************************)
(* Proofs about UiServer, for any numbers of requests, of errors raised    *)
(* outside them, any TTL and any bound on the clock.                       *)
(***************************************************************************)
EXTENDS UiServer, TLAPS

\* A request that has not come back from the handler has no response, and the
\* error named after it has not been raised.
NotRaisedYet ==
    \A r \in Requests : req[r].pc \in {"idle", "entry", "handler"} =>
        /\ req[r].response = NoResponse /\ req[r].logged = None
        /\ r \notin events /\ r \notin armed
        /\ lastCapturedError # EmptySlot => lastCapturedError.error # r
        /\ \A q \in Requests : req[q].logged # r

\* An error is in one place: its event is still to fire, it is in the slot, or it
\* has been logged.
OnePlace ==
    /\ \A e \in events :
          /\ lastCapturedError # EmptySlot => lastCapturedError.error # e
          /\ \A r \in Requests : req[r].logged # e
    /\ lastCapturedError # EmptySlot =>
          \A r \in Requests : req[r].logged # lastCapturedError.error

\* What has been logged at each step of fetch.
Progress ==
    \A r \in Requests :
        /\ req[r].pc = "normalize" =>
              /\ req[r].response # NoResponse
              /\ req[r].response.kind = "error_page" <=> req[r].logged # None
              /\ req[r].response.kind = "error_page" => ~ req[r].response.swallowed
        /\ req[r].pc = "reading" =>
              /\ req[r].response.kind = "json"
              /\ req[r].logged = None

\* Only the events of swallowed errors fire, and once.
OnlySwallowed ==
    /\ \A r \in Requests : r \in events \/ r \in armed => req[r].response.swallowed
    /\ \A r \in armed : r \notin events

\* The slot holds an error with the time its event fired.
SlotDated ==
    lastCapturedError # EmptySlot =>
        firedAt[lastCapturedError.error] = lastCapturedError.at

\* Undisturbed, a request that is not answered finds its own error in the slot.
SlotKept ==
    \A r \in InFlight : r \in armed /\ r \notin disturbed =>
        /\ lastCapturedError # EmptySlot
        /\ lastCapturedError.error = r

IInv ==
    /\ TypeOK
    /\ ImportedOnce
    /\ NotRaisedYet /\ OnePlace /\ Progress /\ OnlySwallowed
    /\ SlotDated /\ SlotKept
    /\ AnswersFit /\ ReportedOnce /\ ReportsAreRecent /\ UndisturbedNamesItself

\* Logging an error and answering with the page keeps the request a request.
LEMMA BrandedTyped ==
    ASSUME NEW x \in Request, NEW error \in Logged, NEW t \in Time
    PROVE  [x EXCEPT !.pc = "done", !.answer = RenderErrorPage,
                     !.logged = error, !.loggedAt = t] \in Request
  <1>1. RenderErrorPage \in Responses
    BY DEF RenderErrorPage, Page, Responses
  <1>2. QED
    BY <1>1 DEF Request

LEMMA PageTyped ==
    /\ NoResponse \in Responses /\ NoResponse.kind = "none" /\ NoResponse.body = {}
    /\ NoResponse.swallowed = FALSE
    /\ \A kind \in {"page", "error_page"} :
          /\ Page(kind) \in Responses /\ Page(kind) # NoResponse
          /\ Page(kind).kind = kind /\ Page(kind).body = {}
          /\ Page(kind).swallowed = FALSE
  <1>1. ASSUME NEW kind \in {"none", "page", "error_page"}
        PROVE  /\ Page(kind) \in Responses /\ Page(kind).kind = kind
               /\ Page(kind).body = {} /\ Page(kind).swallowed = FALSE
    BY DEF Page, Responses
  <1>2. NoResponse = Page("none")
    BY DEF NoResponse
  <1>3. QED
    BY <1>1, <1>2

\* The guess knows an error in its known form, and takes nothing else for one.
LEMMA GuessKnows ==
    ASSUME NEW body \in Bodies \cup {{}}
    PROVE  IsCatastrophic(body) <=> body = SwallowedBody
  BY BodiesAssumption DEF IsCatastrophic, SwallowedBody, JsonFacts

\* What AnswersFit says of one request.
Fits(x) ==
    x.pc = "done" =>
        /\ ~ (x.answer.kind = "json" /\ x.answer.body = SwallowedBody)
        /\ \/ x.answer = x.response
           \/ /\ x.answer.kind = "error_page"
              /\ \/ x.response = NoResponse
                 \/ x.response.body = SwallowedBody
                 \/ x.logged = "unreadable"
        /\ x.answer.kind = "error_page" <=> x.logged # None

LEMMA FitsStep ==
    ASSUME TypeOK, AnswersFit, NEW r \in Requests, NEW x, Fits(x),
           req' = [req EXCEPT ![r] = x]
    PROVE  AnswersFit'
  BY DEF TypeOK, AnswersFit, Fits

LEMMA BrandedFits ==
    ASSUME NEW r \in Requests, TypeOK, AnswersFit, NEW error \in Logged \ {None},
           BrandedErrorResponse(r, error),
           \/ req[r].response = NoResponse
           \/ req[r].response.body = SwallowedBody
           \/ error = "unreadable"
    PROVE  AnswersFit'
  <1> DEFINE x == [req[r] EXCEPT !.pc = "done", !.answer = RenderErrorPage,
                                 !.logged = error, !.loggedAt = now]
  <1>1. req[r] \in Request
    BY DEF TypeOK
  <1>2. /\ x.response = req[r].response /\ x.answer = RenderErrorPage
        /\ x.logged = error /\ x.pc = "done"
    BY <1>1 DEF Request
  <1>3. RenderErrorPage.kind = "error_page"
    BY PageTyped DEF RenderErrorPage
  <1>4. req' = [req EXCEPT ![r] = x]
    BY DEF BrandedErrorResponse
  <1> HIDE DEF x
  <1>5. Fits(x)
    BY <1>2, <1>3 DEF Fits
  <1>6. QED
    BY <1>4, <1>5, FitsStep

LEMMA InitIInv == Init => IInv
  <1> SUFFICES ASSUME Init PROVE IInv
    OBVIOUS
  <1> USE NamesAssumption, TimeAssumption DEF Init, NotBegun, Errors, Time
  <1>1. TypeOK
    BY PageTyped DEF TypeOK, Request, Logged, EmptySlot
  <1>2. ImportedOnce /\ NotRaisedYet /\ OnePlace /\ Progress /\ OnlySwallowed
    BY DEF ImportedOnce, NotRaisedYet, OnePlace, Progress, OnlySwallowed
  <1>3. SlotDated /\ SlotKept
    BY DEF SlotDated, SlotKept, InFlight
  <1>4. AnswersFit /\ ReportedOnce /\ ReportsAreRecent /\ UndisturbedNamesItself
    BY DEF AnswersFit, ReportedOnce, ReportsAreRecent, UndisturbedNamesItself
  <1>5. QED
    BY <1>1, <1>2, <1>3, <1>4 DEF IInv


LEMMA FetchKeeps == ASSUME NEW r \in Requests, IInv, Fetch(r) PROVE IInv'
  <1> USE NamesAssumption, TimeAssumption DEF IInv, Fetch, GetServerEntry, Goto, server,
        capture
  <1>0. req' \in [Requests -> Request]
    <2>1. req[r] \in Request
      BY DEF TypeOK
    <2>2. req'[r] \in Request
      BY <2>1 DEF TypeOK, Request, Responses, Errors, Time
    <2>3. QED
      BY <2>2 DEF TypeOK
  <1>1. TypeOK'
    BY <1>0 DEF TypeOK, Responses, Errors, Time
  <1>2. ImportedOnce'
    BY DEF ImportedOnce, TypeOK
  <1>3. NotRaisedYet'
    BY DEF NotRaisedYet, TypeOK, OnePlace, Request, Responses, Errors
  <1>4. OnePlace'
    BY DEF OnePlace, TypeOK, NotRaisedYet, Progress, Request, Responses, Errors
  <1>5. Progress'
    BY DEF Progress, TypeOK, NotRaisedYet, Request, Responses, Errors
  <1>6. OnlySwallowed'
    BY DEF OnlySwallowed, TypeOK, NotRaisedYet, Request, Responses, Errors
  <1>7. SlotDated'
    BY DEF SlotDated, OnePlace, TypeOK, Errors
  <1>8. SlotKept'
    BY DEF SlotKept, InFlight, TypeOK, OnlySwallowed, NotRaisedYet, Request, Responses,
       Errors
  <1>9. AnswersFit'
    BY DEF AnswersFit, Progress, NotRaisedYet, TypeOK, Request, Responses, Errors
  <1>10. ReportedOnce'
    BY DEF ReportedOnce, OnePlace, NotRaisedYet, Progress, TypeOK, Request, Responses,
       Errors
  <1>11. ReportsAreRecent'
    BY DEF ReportsAreRecent, SlotDated, OnePlace, TypeOK, Time, Request, Responses, Errors
  <1>12. UndisturbedNamesItself'
    BY DEF UndisturbedNamesItself, SlotKept, SlotDated, InFlight, OnlySwallowed, Progress,
       NotRaisedYet, TypeOK, Time, Request, Responses, Errors
  <1>13. QED
    BY <1>1, <1>2, <1>3, <1>4, <1>5, <1>6, <1>7, <1>8, <1>9, <1>10, <1>11, <1>12

LEMMA CallHandlerKeeps == ASSUME NEW r \in Requests, IInv, CallHandler(r) PROVE IInv'
  <1> USE NamesAssumption, TimeAssumption DEF IInv, CallHandler, Goto, server, capture
  <1>0. req' \in [Requests -> Request]
    <2>1. req[r] \in Request
      BY DEF TypeOK
    <2>2. req'[r] \in Request
      BY <2>1 DEF TypeOK, Request, Responses, Errors, Time
    <2>3. QED
      BY <2>2 DEF TypeOK
  <1>1. TypeOK'
    BY <1>0 DEF TypeOK, Responses, Errors, Time
  <1>2. ImportedOnce'
    BY DEF ImportedOnce, TypeOK
  <1>3. NotRaisedYet'
    BY DEF NotRaisedYet, TypeOK, OnePlace, Request, Responses, Errors
  <1>4. OnePlace'
    BY DEF OnePlace, TypeOK, NotRaisedYet, Progress, Request, Responses, Errors
  <1>5. Progress'
    BY DEF Progress, TypeOK, NotRaisedYet, Request, Responses, Errors
  <1>6. OnlySwallowed'
    BY DEF OnlySwallowed, TypeOK, NotRaisedYet, Request, Responses, Errors
  <1>7. SlotDated'
    BY DEF SlotDated, OnePlace, TypeOK, Errors
  <1>8. SlotKept'
    BY DEF SlotKept, InFlight, TypeOK, OnlySwallowed, NotRaisedYet, Request, Responses,
       Errors
  <1>9. AnswersFit'
    BY DEF AnswersFit, Progress, NotRaisedYet, TypeOK, Request, Responses, Errors
  <1>10. ReportedOnce'
    BY DEF ReportedOnce, OnePlace, NotRaisedYet, Progress, TypeOK, Request, Responses,
       Errors
  <1>11. ReportsAreRecent'
    BY DEF ReportsAreRecent, SlotDated, OnePlace, TypeOK, Time, Request, Responses, Errors
  <1>12. UndisturbedNamesItself'
    BY DEF UndisturbedNamesItself, SlotKept, SlotDated, InFlight, OnlySwallowed, Progress,
       NotRaisedYet, TypeOK, Time, Request, Responses, Errors
  <1>13. QED
    BY <1>1, <1>2, <1>3, <1>4, <1>5, <1>6, <1>7, <1>8, <1>9, <1>10, <1>11, <1>12

LEMMA EntryRejectedKeeps == ASSUME NEW r \in Requests, IInv, EntryRejected(r) PROVE IInv'
  <1> USE NamesAssumption, TimeAssumption DEF IInv, EntryRejected, BrandedErrorResponse,
        RenderErrorPage, server, capture
  <1>0. req' \in [Requests -> Request]
    <2>1. req[r] \in Request
      BY DEF TypeOK
    <2>2. "import" \in Logged /\ now \in Time
      BY DEF TypeOK, Errors, Consumed, Logged
    <2>3. req'[r] \in Request
      BY <2>1, <2>2, BrandedTyped DEF TypeOK
    <2>4. QED
      BY <2>3 DEF TypeOK
  <1>1. TypeOK'
    BY <1>0 DEF TypeOK, Responses, Errors, Time
  <1>2. ImportedOnce'
    BY DEF ImportedOnce, TypeOK
  <1>3. NotRaisedYet'
    BY DEF NotRaisedYet, TypeOK, OnePlace, Request, Responses, Errors
  <1>4. OnePlace'
    BY DEF OnePlace, TypeOK, NotRaisedYet, Progress, Request, Responses, Errors
  <1>5. Progress'
    BY DEF Progress, TypeOK, NotRaisedYet, Request, Responses, Errors
  <1>6. OnlySwallowed'
    BY DEF OnlySwallowed, TypeOK, NotRaisedYet, Request, Responses, Errors
  <1>7. SlotDated'
    BY DEF SlotDated, OnePlace, TypeOK, Errors
  <1>8. SlotKept'
    BY DEF SlotKept, InFlight, TypeOK, OnlySwallowed, NotRaisedYet, Request, Responses,
       Errors
  <1>9. AnswersFit'
    <2>1. "import" \in Logged \ {None} /\ req[r].response = NoResponse
      BY DEF Logged, NotRaisedYet
    <2>2. QED
      BY <2>1, BrandedFits
  <1>10. ReportedOnce'
    BY DEF ReportedOnce, OnePlace, NotRaisedYet, Progress, TypeOK, Request, Responses,
       Errors
  <1>11. ReportsAreRecent'
    BY DEF ReportsAreRecent, SlotDated, OnePlace, TypeOK, Time, Request, Responses, Errors
  <1>12. UndisturbedNamesItself'
    BY DEF UndisturbedNamesItself, SlotKept, SlotDated, InFlight, OnlySwallowed, Progress,
       NotRaisedYet, TypeOK, Time, Request, Responses, Errors
  <1>13. QED
    BY <1>1, <1>2, <1>3, <1>4, <1>5, <1>6, <1>7, <1>8, <1>9, <1>10, <1>11, <1>12

LEMMA HandlerResolvesKeeps == ASSUME NEW r \in Requests, IInv, HandlerResolves(r) PROVE IInv'
  <1> USE NamesAssumption, TimeAssumption DEF IInv, HandlerResolves, server, capture
  <1>0. req' \in [Requests -> Request]
    <2>1. req[r] \in Request
      BY DEF TypeOK
    <2>2. PICK response \in Responses :
             req'[r] = [req[r] EXCEPT !.pc = "normalize", !.response = response]
      BY DEF TypeOK
    <2>3. [req[r] EXCEPT !.pc = "normalize", !.response = response] \in Request
      <3> HIDE NamesAssumption
      <3> QED
        BY <2>1 DEF Request
    <2>4. QED
      BY <2>2, <2>3 DEF TypeOK
  <1>1. TypeOK'
    BY <1>0 DEF TypeOK, Responses, Errors, Time
  <1>2. ImportedOnce'
    BY DEF ImportedOnce, TypeOK
  <1>3. NotRaisedYet'
    BY DEF NotRaisedYet, TypeOK, OnePlace, Request, Responses, Errors
  <1>4. OnePlace'
    BY DEF OnePlace, TypeOK, NotRaisedYet, Progress, Request, Responses, Errors
  <1>5. Progress'
    <2>1. req[r] \in Request /\ req[r].logged = None
      BY DEF NotRaisedYet, TypeOK
    <2>2. PICK response \in Responses :
             /\ response = Page("page") \/ response.kind = "json"
             /\ req' = [req EXCEPT ![r] = [@ EXCEPT !.pc = "normalize",
                                                    !.response = response]]
      OBVIOUS
    <2>3. response # NoResponse /\ response.kind # "error_page"
      BY <2>2, PageTyped
    <2>4. /\ req'[r].pc = "normalize" /\ req'[r].response = response
          /\ req'[r].logged = None
      BY <2>1, <2>2 DEF TypeOK, Request
    <2>5. ASSUME NEW q \in Requests, q # r PROVE req'[q] = req[q]
      BY <2>2, <2>5 DEF TypeOK
    <2>6. QED
      BY <2>3, <2>4, <2>5 DEF Progress
  <1>6. OnlySwallowed'
    BY DEF OnlySwallowed, TypeOK, NotRaisedYet, Request, Responses, Errors
  <1>7. SlotDated'
    BY DEF SlotDated, OnePlace, TypeOK, Errors
  <1>8. SlotKept'
    BY DEF SlotKept, InFlight, TypeOK, OnlySwallowed, NotRaisedYet, Request, Responses,
       Errors
  <1>9. AnswersFit'
    BY DEF AnswersFit, Progress, NotRaisedYet, TypeOK, Request, Responses, Errors
  <1>10. ReportedOnce'
    BY DEF ReportedOnce, OnePlace, NotRaisedYet, Progress, TypeOK, Request, Responses,
       Errors
  <1>11. ReportsAreRecent'
    BY DEF ReportsAreRecent, SlotDated, OnePlace, TypeOK, Time, Request, Responses, Errors
  <1>12. UndisturbedNamesItself'
    BY DEF UndisturbedNamesItself, SlotKept, SlotDated, InFlight, OnlySwallowed, Progress,
       NotRaisedYet, TypeOK, Time, Request, Responses, Errors
  <1>13. QED
    BY <1>1, <1>2, <1>3, <1>4, <1>5, <1>6, <1>7, <1>8, <1>9, <1>10, <1>11, <1>12

LEMMA ErrorMiddlewareKeeps == ASSUME NEW r \in Requests, IInv, ErrorMiddleware(r) PROVE IInv'
  <1> USE NamesAssumption, TimeAssumption DEF IInv, ErrorMiddleware, RenderErrorPage,
        server, capture
  <1>0. req' \in [Requests -> Request]
    <2>1. req[r] \in Request
      BY DEF TypeOK
    <2>2. RenderErrorPage \in Responses /\ r \in Logged /\ now \in Time
      BY DEF RenderErrorPage, Page, Responses, Logged, Errors, TypeOK
    <2>3. \A p \in Responses : \A e \in Logged : \A t \in Time :
             [req[r] EXCEPT !.pc = "normalize", !.response = p, !.logged = e,
                            !.loggedAt = t] \in Request
      BY <2>1 DEF Request
    <2>4. QED
      BY <2>2, <2>3 DEF TypeOK
  <1>1. TypeOK'
    BY <1>0 DEF TypeOK, Responses, Errors, Time
  <1>2. ImportedOnce'
    BY DEF ImportedOnce, TypeOK
  <1>3. NotRaisedYet'
    BY DEF NotRaisedYet, TypeOK, OnePlace, Request, Responses, Errors
  <1>4. OnePlace'
    BY DEF OnePlace, TypeOK, NotRaisedYet, Progress, Request, Responses, Errors
  <1>5. Progress'
    <2>1. req[r] \in Request /\ r # None
      BY DEF TypeOK
    <2>2. /\ RenderErrorPage # NoResponse /\ RenderErrorPage.kind = "error_page"
          /\ RenderErrorPage.swallowed = FALSE
      BY PageTyped DEF RenderErrorPage
    <2>3. /\ req'[r].pc = "normalize" /\ req'[r].response = RenderErrorPage
          /\ req'[r].logged = r
      BY <2>1 DEF TypeOK, Request
    <2>4. ASSUME NEW q \in Requests, q # r PROVE req'[q] = req[q]
      BY <2>4 DEF TypeOK
    <2>5. QED
      BY <2>1, <2>2, <2>3, <2>4 DEF Progress
  <1>6. OnlySwallowed'
    BY DEF OnlySwallowed, TypeOK, NotRaisedYet, Request, Responses, Errors
  <1>7. SlotDated'
    BY DEF SlotDated, OnePlace, TypeOK, Errors
  <1>8. SlotKept'
    BY DEF SlotKept, InFlight, TypeOK, OnlySwallowed, NotRaisedYet, Request, Responses,
       Errors
  <1>9. AnswersFit'
    BY DEF AnswersFit, Progress, NotRaisedYet, TypeOK, Request, Responses, Errors
  <1>10. ReportedOnce'
    BY DEF ReportedOnce, OnePlace, NotRaisedYet, Progress, TypeOK, Request, Responses,
       Errors
  <1>11. ReportsAreRecent'
    BY DEF ReportsAreRecent, SlotDated, OnePlace, TypeOK, Time, Request, Responses, Errors
  <1>12. UndisturbedNamesItself'
    BY DEF UndisturbedNamesItself, SlotKept, SlotDated, InFlight, OnlySwallowed, Progress,
       NotRaisedYet, TypeOK, Time, Request, Responses, Errors
  <1>13. QED
    BY <1>1, <1>2, <1>3, <1>4, <1>5, <1>6, <1>7, <1>8, <1>9, <1>10, <1>11, <1>12

LEMMA HandlerRejectsKeeps == ASSUME NEW r \in Requests, IInv, HandlerRejects(r) PROVE IInv'
  <1> USE NamesAssumption, TimeAssumption DEF IInv, HandlerRejects, BrandedErrorResponse,
        RenderErrorPage, server, capture
  <1>0. req' \in [Requests -> Request]
    <2>1. req[r] \in Request
      BY DEF TypeOK
    <2>2. r \in Logged /\ now \in Time
      BY DEF TypeOK, Errors, Consumed, Logged
    <2>3. req'[r] \in Request
      BY <2>1, <2>2, BrandedTyped DEF TypeOK
    <2>4. QED
      BY <2>3 DEF TypeOK
  <1>1. TypeOK'
    BY <1>0 DEF TypeOK, Responses, Errors, Time
  <1>2. ImportedOnce'
    BY DEF ImportedOnce, TypeOK
  <1>3. NotRaisedYet'
    BY DEF NotRaisedYet, TypeOK, OnePlace, Request, Responses, Errors
  <1>4. OnePlace'
    BY DEF OnePlace, TypeOK, NotRaisedYet, Progress, Request, Responses, Errors
  <1>5. Progress'
    BY DEF Progress, TypeOK, NotRaisedYet, Request, Responses, Errors
  <1>6. OnlySwallowed'
    BY DEF OnlySwallowed, TypeOK, NotRaisedYet, Request, Responses, Errors
  <1>7. SlotDated'
    BY DEF SlotDated, OnePlace, TypeOK, Errors
  <1>8. SlotKept'
    BY DEF SlotKept, InFlight, TypeOK, OnlySwallowed, NotRaisedYet, Request, Responses,
       Errors
  <1>9. AnswersFit'
    <2>1. r \in Logged \ {None} /\ req[r].response = NoResponse
      BY DEF Logged, NotRaisedYet, Errors
    <2>2. QED
      BY <2>1, BrandedFits
  <1>10. ReportedOnce'
    BY DEF ReportedOnce, OnePlace, NotRaisedYet, Progress, TypeOK, Request, Responses,
       Errors
  <1>11. ReportsAreRecent'
    BY DEF ReportsAreRecent, SlotDated, OnePlace, TypeOK, Time, Request, Responses, Errors
  <1>12. UndisturbedNamesItself'
    BY DEF UndisturbedNamesItself, SlotKept, SlotDated, InFlight, OnlySwallowed, Progress,
       NotRaisedYet, TypeOK, Time, Request, Responses, Errors
  <1>13. QED
    BY <1>1, <1>2, <1>3, <1>4, <1>5, <1>6, <1>7, <1>8, <1>9, <1>10, <1>11, <1>12

LEMMA ReturnResponseKeeps == ASSUME NEW r \in Requests, IInv, ReturnResponse(r) PROVE IInv'
  <1> USE NamesAssumption, TimeAssumption DEF IInv, ReturnResponse, Pass, server, capture
  <1>0. req' \in [Requests -> Request]
    <2>1. req[r] \in Request
      BY DEF TypeOK
    <2>2. req'[r] \in Request
      BY <2>1 DEF TypeOK, Request, Responses, Errors, Time
    <2>3. QED
      BY <2>2 DEF TypeOK
  <1>1. TypeOK'
    BY <1>0 DEF TypeOK, Responses, Errors, Time
  <1>2. ImportedOnce'
    BY DEF ImportedOnce, TypeOK
  <1>3. NotRaisedYet'
    BY DEF NotRaisedYet, TypeOK, OnePlace, Request, Responses, Errors
  <1>4. OnePlace'
    BY DEF OnePlace, TypeOK, NotRaisedYet, Progress, Request, Responses, Errors
  <1>5. Progress'
    BY DEF Progress, TypeOK, NotRaisedYet, Request, Responses, Errors
  <1>6. OnlySwallowed'
    BY DEF OnlySwallowed, TypeOK, NotRaisedYet, Request, Responses, Errors
  <1>7. SlotDated'
    BY DEF SlotDated, OnePlace, TypeOK, Errors
  <1>8. SlotKept'
    BY DEF SlotKept, InFlight, TypeOK, OnlySwallowed, NotRaisedYet, Request, Responses,
       Errors
  <1>9. AnswersFit'
    BY DEF AnswersFit, Progress, NotRaisedYet, TypeOK, Request, Responses, Errors
  <1>10. ReportedOnce'
    BY DEF ReportedOnce, OnePlace, NotRaisedYet, Progress, TypeOK, Request, Responses,
       Errors
  <1>11. ReportsAreRecent'
    BY DEF ReportsAreRecent, SlotDated, OnePlace, TypeOK, Time, Request, Responses, Errors
  <1>12. UndisturbedNamesItself'
    BY DEF UndisturbedNamesItself, SlotKept, SlotDated, InFlight, OnlySwallowed, Progress,
       NotRaisedYet, TypeOK, Time, Request, Responses, Errors
  <1>13. QED
    BY <1>1, <1>2, <1>3, <1>4, <1>5, <1>6, <1>7, <1>8, <1>9, <1>10, <1>11, <1>12

LEMMA ReadBodyKeeps == ASSUME NEW r \in Requests, IInv, ReadBody(r) PROVE IInv'
  <1> USE NamesAssumption, TimeAssumption DEF IInv, ReadBody, Goto, server, capture
  <1>0. req' \in [Requests -> Request]
    <2>1. req[r] \in Request
      BY DEF TypeOK
    <2>2. req'[r] \in Request
      BY <2>1 DEF TypeOK, Request, Responses, Errors, Time
    <2>3. QED
      BY <2>2 DEF TypeOK
  <1>1. TypeOK'
    BY <1>0 DEF TypeOK, Responses, Errors, Time
  <1>2. ImportedOnce'
    BY DEF ImportedOnce, TypeOK
  <1>3. NotRaisedYet'
    BY DEF NotRaisedYet, TypeOK, OnePlace, Request, Responses, Errors
  <1>4. OnePlace'
    BY DEF OnePlace, TypeOK, NotRaisedYet, Progress, Request, Responses, Errors
  <1>5. Progress'
    BY DEF Progress, TypeOK, NotRaisedYet, Request, Responses, Errors
  <1>6. OnlySwallowed'
    BY DEF OnlySwallowed, TypeOK, NotRaisedYet, Request, Responses, Errors
  <1>7. SlotDated'
    BY DEF SlotDated, OnePlace, TypeOK, Errors
  <1>8. SlotKept'
    BY DEF SlotKept, InFlight, TypeOK, OnlySwallowed, NotRaisedYet, Request, Responses,
       Errors
  <1>9. AnswersFit'
    BY DEF AnswersFit, Progress, NotRaisedYet, TypeOK, Request, Responses, Errors
  <1>10. ReportedOnce'
    BY DEF ReportedOnce, OnePlace, NotRaisedYet, Progress, TypeOK, Request, Responses,
       Errors
  <1>11. ReportsAreRecent'
    BY DEF ReportsAreRecent, SlotDated, OnePlace, TypeOK, Time, Request, Responses, Errors
  <1>12. UndisturbedNamesItself'
    BY DEF UndisturbedNamesItself, SlotKept, SlotDated, InFlight, OnlySwallowed, Progress,
       NotRaisedYet, TypeOK, Time, Request, Responses, Errors
  <1>13. QED
    BY <1>1, <1>2, <1>3, <1>4, <1>5, <1>6, <1>7, <1>8, <1>9, <1>10, <1>11, <1>12

LEMMA BodyUnreadableKeeps == ASSUME NEW r \in Requests, IInv, BodyUnreadable(r) PROVE IInv'
  <1> USE NamesAssumption, TimeAssumption DEF IInv, BodyUnreadable, BrandedErrorResponse,
        RenderErrorPage, server, capture
  <1>0. req' \in [Requests -> Request]
    <2>1. req[r] \in Request
      BY DEF TypeOK
    <2>2. "unreadable" \in Logged /\ now \in Time
      BY DEF TypeOK, Errors, Consumed, Logged
    <2>3. req'[r] \in Request
      BY <2>1, <2>2, BrandedTyped DEF TypeOK
    <2>4. QED
      BY <2>3 DEF TypeOK
  <1>1. TypeOK'
    BY <1>0 DEF TypeOK, Responses, Errors, Time
  <1>2. ImportedOnce'
    BY DEF ImportedOnce, TypeOK
  <1>3. NotRaisedYet'
    BY DEF NotRaisedYet, TypeOK, OnePlace, Request, Responses, Errors
  <1>4. OnePlace'
    BY DEF OnePlace, TypeOK, NotRaisedYet, Progress, Request, Responses, Errors
  <1>5. Progress'
    BY DEF Progress, TypeOK, NotRaisedYet, Request, Responses, Errors
  <1>6. OnlySwallowed'
    BY DEF OnlySwallowed, TypeOK, NotRaisedYet, Request, Responses, Errors
  <1>7. SlotDated'
    BY DEF SlotDated, OnePlace, TypeOK, Errors
  <1>8. SlotKept'
    BY DEF SlotKept, InFlight, TypeOK, OnlySwallowed, NotRaisedYet, Request, Responses,
       Errors
  <1>9. AnswersFit'
    <2>1. "unreadable" \in Logged \ {None}
      BY DEF Logged
    <2>2. QED
      BY <2>1, BrandedFits
  <1>10. ReportedOnce'
    BY DEF ReportedOnce, OnePlace, NotRaisedYet, Progress, TypeOK, Request, Responses,
       Errors
  <1>11. ReportsAreRecent'
    BY DEF ReportsAreRecent, SlotDated, OnePlace, TypeOK, Time, Request, Responses, Errors
  <1>12. UndisturbedNamesItself'
    BY DEF UndisturbedNamesItself, SlotKept, SlotDated, InFlight, OnlySwallowed, Progress,
       NotRaisedYet, TypeOK, Time, Request, Responses, Errors
  <1>13. QED
    BY <1>1, <1>2, <1>3, <1>4, <1>5, <1>6, <1>7, <1>8, <1>9, <1>10, <1>11, <1>12

LEMMA PassBodyKeeps == ASSUME NEW r \in Requests, IInv, PassBody(r) PROVE IInv'
  <1> USE NamesAssumption, TimeAssumption DEF IInv, PassBody, Pass, IsCatastrophic,
        server, capture
  <1>0. req' \in [Requests -> Request]
    <2>1. req[r] \in Request
      BY DEF TypeOK
    <2>2. req'[r] \in Request
      BY <2>1 DEF TypeOK, Request, Responses, Errors, Time
    <2>3. QED
      BY <2>2 DEF TypeOK
  <1>1. TypeOK'
    BY <1>0 DEF TypeOK, Responses, Errors, Time
  <1>2. ImportedOnce'
    BY DEF ImportedOnce, TypeOK
  <1>3. NotRaisedYet'
    BY DEF NotRaisedYet, TypeOK, OnePlace, Request, Responses, Errors
  <1>4. OnePlace'
    BY DEF OnePlace, TypeOK, NotRaisedYet, Progress, Request, Responses, Errors
  <1>5. Progress'
    BY DEF Progress, TypeOK, NotRaisedYet, Request, Responses, Errors
  <1>6. OnlySwallowed'
    BY DEF OnlySwallowed, TypeOK, NotRaisedYet, Request, Responses, Errors
  <1>7. SlotDated'
    BY DEF SlotDated, OnePlace, TypeOK, Errors
  <1>8. SlotKept'
    BY DEF SlotKept, InFlight, TypeOK, OnlySwallowed, NotRaisedYet, Request, Responses,
       Errors
  <1>9. AnswersFit'
    <2> DEFINE x == [req[r] EXCEPT !.pc = "done", !.answer = req[r].response]
    <2>1. req[r] \in Request /\ req[r].response.kind = "json" /\ req[r].logged = None
      BY DEF TypeOK, Progress
    <2>2. req[r].response.body # SwallowedBody
      BY <2>1, GuessKnows DEF Request, Responses
    <2>3. /\ x.response = req[r].response /\ x.answer = req[r].response
          /\ x.logged = None
      BY <2>1 DEF Request
    <2>4. req' = [req EXCEPT ![r] = x]
      OBVIOUS
    <2> HIDE DEF x
    <2>5. Fits(x)
      BY <2>1, <2>2, <2>3 DEF Fits
    <2>6. QED
      BY <2>4, <2>5, FitsStep
  <1>10. ReportedOnce'
    BY DEF ReportedOnce, OnePlace, NotRaisedYet, Progress, TypeOK, Request, Responses,
       Errors
  <1>11. ReportsAreRecent'
    BY DEF ReportsAreRecent, SlotDated, OnePlace, TypeOK, Time, Request, Responses, Errors
  <1>12. UndisturbedNamesItself'
    BY DEF UndisturbedNamesItself, SlotKept, SlotDated, InFlight, OnlySwallowed, Progress,
       NotRaisedYet, TypeOK, Time, Request, Responses, Errors
  <1>13. QED
    BY <1>1, <1>2, <1>3, <1>4, <1>5, <1>6, <1>7, <1>8, <1>9, <1>10, <1>11, <1>12

LEMMA ReplaceBodyKeeps == ASSUME NEW r \in Requests, IInv, ReplaceBody(r) PROVE IInv'
  <1> USE NamesAssumption, TimeAssumption DEF IInv, ReplaceBody, BrandedErrorResponse,
        RenderErrorPage, Consumed, Emptied, IsCatastrophic, server, capture
  <1>0. req' \in [Requests -> Request]
    <2>1. req[r] \in Request
      BY DEF TypeOK
    <2>2. Consumed \in Logged /\ now \in Time
      BY DEF TypeOK, Errors, Consumed, Logged
    <2>3. req'[r] \in Request
      BY <2>1, <2>2, BrandedTyped DEF TypeOK
    <2>4. QED
      BY <2>3 DEF TypeOK
  <1>1. TypeOK'
    BY <1>0 DEF TypeOK, InFlight, Responses, Errors, Time
  <1>2. ImportedOnce'
    BY DEF ImportedOnce, TypeOK
  <1>3. NotRaisedYet'
    BY DEF NotRaisedYet, TypeOK, OnePlace, Request, Responses, Errors
  <1>4. OnePlace'
    BY DEF OnePlace, TypeOK, NotRaisedYet, Progress, Request, Responses, Errors
  <1>5. Progress'
    BY DEF Progress, TypeOK, NotRaisedYet, Request, Responses, Errors
  <1>6. OnlySwallowed'
    BY DEF OnlySwallowed, TypeOK, NotRaisedYet, Request, Responses, Errors
  <1>7. SlotDated'
    BY DEF SlotDated, OnePlace, TypeOK, Errors
  <1>8. SlotKept'
    BY DEF SlotKept, InFlight, TypeOK, OnlySwallowed, NotRaisedYet, Request, Responses,
       Errors
  <1>9. AnswersFit'
    <2>1. Consumed \in Logged \ {None}
      BY DEF Logged, Errors, TypeOK
    <2>2. req[r].response.body = SwallowedBody
      BY GuessKnows DEF TypeOK, Request, Responses
    <2>3. QED
      BY <2>1, <2>2, BrandedFits
  <1>10. ReportedOnce'
    BY DEF ReportedOnce, OnePlace, NotRaisedYet, Progress, TypeOK, Request, Responses,
       Errors
  <1>11. ReportsAreRecent'
    BY DEF ReportsAreRecent, SlotDated, OnePlace, TypeOK, Time, Request, Responses, Errors
  <1>12. UndisturbedNamesItself'
    BY DEF UndisturbedNamesItself, SlotKept, SlotDated, InFlight, OnlySwallowed, Progress,
       NotRaisedYet, TypeOK, Time, Request, Responses, Errors
  <1>13. QED
    BY <1>1, <1>2, <1>3, <1>4, <1>5, <1>6, <1>7, <1>8, <1>9, <1>10, <1>11, <1>12

LEMMA ImportSettlesKeeps == ASSUME IInv, ImportSettles PROVE IInv'
  <1> USE NamesAssumption, TimeAssumption DEF IInv, ImportSettles, server, capture
  <1>1. TypeOK'
    BY DEF TypeOK, Request, Responses, Errors, Time, NotBegun
  <1>2. ImportedOnce'
    BY DEF ImportedOnce, TypeOK
  <1>3. NotRaisedYet'
    BY DEF NotRaisedYet, TypeOK, OnePlace, Request, Responses, Errors
  <1>4. OnePlace'
    BY DEF OnePlace, TypeOK, NotRaisedYet, Progress, Request, Responses, Errors
  <1>5. Progress'
    BY DEF Progress, TypeOK, NotRaisedYet, Request, Responses, Errors
  <1>6. OnlySwallowed'
    BY DEF OnlySwallowed, TypeOK, NotRaisedYet, Request, Responses, Errors
  <1>7. SlotDated'
    BY DEF SlotDated, OnePlace, TypeOK, Errors
  <1>8. SlotKept'
    BY DEF SlotKept, InFlight, TypeOK, OnlySwallowed, NotRaisedYet, Request, Responses,
       Errors
  <1>9. AnswersFit'
    BY DEF AnswersFit, Progress, NotRaisedYet, TypeOK, Request, Responses, Errors
  <1>10. ReportedOnce'
    BY DEF ReportedOnce, OnePlace, NotRaisedYet, Progress, TypeOK, Request, Responses,
       Errors
  <1>11. ReportsAreRecent'
    BY DEF ReportsAreRecent, SlotDated, OnePlace, TypeOK, Time, Request, Responses, Errors
  <1>12. UndisturbedNamesItself'
    BY DEF UndisturbedNamesItself, SlotKept, SlotDated, InFlight, OnlySwallowed, Progress,
       NotRaisedYet, TypeOK, Time, Request, Responses, Errors
  <1>13. QED
    BY <1>1, <1>2, <1>3, <1>4, <1>5, <1>6, <1>7, <1>8, <1>9, <1>10, <1>11, <1>12

LEMMA EventFiresKeeps == ASSUME NEW e \in Errors, IInv, EventFires(e) PROVE IInv'
  <1> USE NamesAssumption, TimeAssumption DEF IInv, EventFires, Record, server, capture
  <1>0. lastCapturedError' # EmptySlot /\ lastCapturedError'.error = e
    BY DEF EmptySlot, Errors
  <1>1. TypeOK'
    BY DEF TypeOK, InFlight, Errors, Time
  <1>2. ImportedOnce'
    BY DEF ImportedOnce, TypeOK
  <1>3. NotRaisedYet'
    BY DEF NotRaisedYet, TypeOK, OnePlace, Request, Responses, Errors
  <1>4. OnePlace'
    BY DEF OnePlace, TypeOK, NotRaisedYet, Progress, Request, Responses, Errors
  <1>5. Progress'
    BY DEF Progress, TypeOK, NotRaisedYet, Request, Responses, Errors
  <1>6. OnlySwallowed'
    BY DEF OnlySwallowed, TypeOK, NotRaisedYet, Request, Responses, Errors
  <1>7. SlotDated'
    BY DEF SlotDated, OnePlace, TypeOK, Errors
  <1>8. SlotKept'
    BY <1>0 DEF SlotKept, InFlight
  <1>9. AnswersFit'
    BY DEF AnswersFit, Progress, NotRaisedYet, TypeOK, Request, Responses, Errors
  <1>10. ReportedOnce'
    BY DEF ReportedOnce, OnePlace, NotRaisedYet, Progress, TypeOK, Request, Responses,
       Errors
  <1>11. ReportsAreRecent'
    BY DEF ReportsAreRecent, SlotDated, OnePlace, TypeOK, Time, Request, Responses, Errors
  <1>12. UndisturbedNamesItself'
    <2>1. ASSUME NEW r \in Requests, r = e, r \in InFlight PROVE req[r].logged = None
      BY <2>1 DEF InFlight, NotRaisedYet, OnlySwallowed, Progress, TypeOK, Request
    <2>2. ASSUME NEW r \in Requests, r \in armed PROVE r # e
      BY <2>2 DEF OnlySwallowed
    <2>3. QED
      BY <2>1, <2>2 DEF UndisturbedNamesItself, TypeOK, Errors
  <1>13. QED
    BY <1>1, <1>2, <1>3, <1>4, <1>5, <1>6, <1>7, <1>8, <1>9, <1>10, <1>11, <1>12

LEMMA TickKeeps == ASSUME IInv, Tick PROVE IInv'
  <1> USE NamesAssumption, TimeAssumption DEF IInv, Tick, server, capture
  <1>1. TypeOK'
    BY DEF TypeOK, Request, Responses, Errors, Time, NotBegun
  <1>2. ImportedOnce'
    BY DEF ImportedOnce, TypeOK
  <1>3. NotRaisedYet'
    BY DEF NotRaisedYet, TypeOK, OnePlace, Request, Responses, Errors
  <1>4. OnePlace'
    BY DEF OnePlace, TypeOK, NotRaisedYet, Progress, Request, Responses, Errors
  <1>5. Progress'
    BY DEF Progress, TypeOK, NotRaisedYet, Request, Responses, Errors
  <1>6. OnlySwallowed'
    BY DEF OnlySwallowed, TypeOK, NotRaisedYet, Request, Responses, Errors
  <1>7. SlotDated'
    BY DEF SlotDated, OnePlace, TypeOK, Errors
  <1>8. SlotKept'
    BY DEF SlotKept, InFlight, TypeOK, OnlySwallowed, NotRaisedYet, Request, Responses,
       Errors
  <1>9. AnswersFit'
    BY DEF AnswersFit, Progress, NotRaisedYet, TypeOK, Request, Responses, Errors
  <1>10. ReportedOnce'
    BY DEF ReportedOnce, OnePlace, NotRaisedYet, Progress, TypeOK, Request, Responses,
       Errors
  <1>11. ReportsAreRecent'
    BY DEF ReportsAreRecent, SlotDated, OnePlace, TypeOK, Time, Request, Responses, Errors
  <1>12. UndisturbedNamesItself'
    BY DEF UndisturbedNamesItself, SlotKept, SlotDated, InFlight, OnlySwallowed, Progress,
       NotRaisedYet, TypeOK, Time, Request, Responses, Errors
  <1>13. QED
    BY <1>1, <1>2, <1>3, <1>4, <1>5, <1>6, <1>7, <1>8, <1>9, <1>10, <1>11, <1>12

\* The invariant is inductive: one lemma per action above.
THEOREM Invariant == Spec => []IInv
  <1>1. Init => IInv
    BY InitIInv
  <1>2. IInv /\ [Next]_vars => IInv'
    <2> SUFFICES ASSUME IInv, [Next]_vars PROVE IInv'
      OBVIOUS
    <2>1. ASSUME NEW r \in Requests, Fetch(r) PROVE IInv'
      BY <2>1, FetchKeeps
    <2>2. ASSUME NEW r \in Requests, Serve(r) PROVE IInv'
      BY <2>2, CallHandlerKeeps, EntryRejectedKeeps, HandlerResolvesKeeps,
         ErrorMiddlewareKeeps, HandlerRejectsKeeps, ReturnResponseKeeps,
         ReadBodyKeeps, BodyUnreadableKeeps, PassBodyKeeps, ReplaceBodyKeeps DEF Serve
    <2>3. CASE ImportSettles
      BY <2>3, ImportSettlesKeeps
    <2>4. ASSUME NEW e \in Errors, EventFires(e) PROVE IInv'
      BY <2>4, EventFiresKeeps
    <2>5. CASE Tick
      BY <2>5, TickKeeps
    <2>6. CASE UNCHANGED vars
      BY <2>6 DEF vars, IInv, TypeOK, ImportedOnce, NotRaisedYet, OnePlace, Progress,
                  OnlySwallowed, SlotDated, SlotKept, InFlight, AnswersFit, ReportedOnce,
                  ReportsAreRecent, UndisturbedNamesItself
    <2>7. QED
      BY <2>1, <2>2, <2>3, <2>4, <2>5, <2>6 DEF Next
  <1>3. QED
    BY <1>1, <1>2, PTL DEF Spec

\* Every reachable state of the server is type correct.
THEOREM TypeCorrect == Spec => []TypeOK
  BY Invariant, PTL DEF IInv

\* However many requests wait for it, the entry is imported at most once
\* (getServerEntry).
THEOREM EntryImportedOnce == Spec => []ImportedOnce
  BY Invariant, PTL DEF IInv

\* No swallowed error of the known form reaches a client, no response is replaced
\* that does not read like one and could be read, and no client gets the error page
\* in silence (normalizeCatastrophicSsrResponse).
THEOREM AnswersCorrect == Spec => []AnswersFit
  BY Invariant, PTL DEF IInv

\* No captured error is reported for two requests (consumeLastCapturedError).
THEOREM ReportedOnceCorrect == Spec => []ReportedOnce
  BY Invariant, PTL DEF IInv

\* What is reported for a request in place of its own error was captured at most
\* TTL before (consumeLastCapturedError).
THEOREM ReportsRecent == Spec => []ReportsAreRecent
  BY Invariant, PTL DEF IInv

\* Both at once, as the run checks them.
THEOREM ReportsSound == Spec => []ReportsAreSound
  BY Invariant, PTL DEF IInv, ReportsAreSound

\* A request that nothing disturbed is reported with its own error.
THEOREM UndisturbedCorrect == Spec => []UndisturbedNamesItself
  BY Invariant, PTL DEF IInv

-----------------------------------------------------------------------------
(***************************************************************************)
(* Being answered.  A request in flight can be served or waits for an      *)
(* import under way, and every step that serves one takes it forward; with *)
(* the fairness of FairSpec this is what RequestsAnswered rests on.        *)
(***************************************************************************)
\* The guards of the steps in Serve.
CanServe(r) ==
    \/ req[r].pc = "entry" /\ entry \in {"ready", "failed"}
    \/ req[r].pc = "handler"
    \/ req[r].pc = "normalize"
    \/ req[r].pc = "reading"

\* CanServe is what the steps of a request ask for, no less.
LEMMA GuardsKept == ASSUME NEW r \in Requests, Serve(r) PROVE CanServe(r)
  BY DEF Serve, CallHandler, EntryRejected, HandlerResolves, ErrorMiddleware,
     HandlerRejects,
     ReturnResponse, ReadBody, BodyUnreadable, PassBody, ReplaceBody, CanServe

StepsLeft(pc) ==
    CASE pc = "idle" -> 5 [] pc = "entry" -> 4 [] pc = "handler" -> 3
      [] pc = "normalize" -> 2 [] pc = "reading" -> 1 [] pc = "done" -> 0

Forward(r) == StepsLeft(req'[r].pc) < StepsLeft(req[r].pc)

\* Who waits for the entry has begun its import (getServerEntry).
EntryInv == \A r \in Requests : req[r].pc = "entry" => entry # "none"

LEMMA ServeStep ==
    ASSUME TypeOK, NEW r \in Requests, Serve(r)
    PROVE  /\ Forward(r) /\ req'[r].pc # "entry" /\ entry' = entry
           /\ \A q \in Requests : q # r => req'[q] = req[q]
  <1>0. req \in [Requests -> Request]
    BY DEF TypeOK
  <1> USE DEF Forward, StepsLeft, server
  <1>1. CASE CallHandler(r)
    BY <1>0, <1>1 DEF CallHandler, Goto
  <1>2. CASE EntryRejected(r)
    BY <1>0, <1>2 DEF EntryRejected, BrandedErrorResponse
  <1>3. CASE HandlerResolves(r)
    BY <1>0, <1>3 DEF HandlerResolves
  <1>4. CASE ErrorMiddleware(r)
    BY <1>0, <1>4 DEF ErrorMiddleware
  <1>5. CASE HandlerRejects(r)
    BY <1>0, <1>5 DEF HandlerRejects, BrandedErrorResponse
  <1>6. CASE ReturnResponse(r)
    BY <1>0, <1>6 DEF ReturnResponse, Pass
  <1>7. CASE ReadBody(r)
    BY <1>0, <1>7 DEF ReadBody, Goto
  <1>8. CASE PassBody(r)
    BY <1>0, <1>8 DEF PassBody, Pass
  <1>9. CASE ReplaceBody(r)
    BY <1>0, <1>9 DEF ReplaceBody, BrandedErrorResponse
  <1>10. CASE BodyUnreadable(r)
    BY <1>0, <1>10 DEF BodyUnreadable, BrandedErrorResponse
  <1>11. QED
    BY <1>1, <1>2, <1>3, <1>4, <1>5, <1>6, <1>7, <1>8, <1>9, <1>10 DEF Serve

LEMMA EntryStep == ASSUME TypeOK, EntryInv, Next PROVE EntryInv'
  <1> USE DEF TypeOK, EntryInv
  <1>1. ASSUME NEW r \in Requests, Fetch(r) PROVE EntryInv'
    BY <1>1 DEF Fetch, GetServerEntry, Goto
  <1>2. ASSUME NEW r \in Requests, Serve(r) PROVE EntryInv'
    BY <1>2, ServeStep
  <1>3. CASE ImportSettles
    BY <1>3 DEF ImportSettles
  <1>4. ASSUME NEW e \in Errors, EventFires(e) PROVE EntryInv'
    BY <1>4 DEF EventFires, server
  <1>5. CASE Tick
    BY <1>5 DEF Tick, server
  <1>6. QED
    BY <1>1, <1>2, <1>3, <1>4, <1>5 DEF Next

\* Every request that has been received can go on, or waits for an import that is under
\* way: none waits for another request, and none for an import that nobody began.
THEOREM NoneWaitsForNothing ==
  Spec => [](\A r \in InFlight : CanServe(r) \/ entry = "loading")
  <1>1. Init => EntryInv
    BY DEF Init, EntryInv, NotBegun
  <1>2. TypeOK /\ EntryInv /\ [Next]_vars => EntryInv'
    BY EntryStep DEF EntryInv, vars
  <1>3. IInv /\ EntryInv => \A r \in InFlight : CanServe(r) \/ entry = "loading"
    BY DEF IInv, TypeOK, Request, Progress, EntryInv, InFlight, CanServe
  <1>4. QED
    BY <1>1, <1>2, <1>3, Invariant, TypeCorrect, PTL DEF Spec

\* A request is only ever taken forward, at most five steps to its answer, and an
\* import that has settled stays so, which a failed one does for good.
THEOREM RequestsGoForward ==
  Spec => [][/\ \A r \in Requests : /\ Serve(r) => Forward(r)
                                    /\ req'[r] # req[r] => Forward(r)
             /\ entry \in {"ready", "failed"} => entry' = entry]_vars
  <1>1. ASSUME TypeOK, NEW r \in Requests, Fetch(r) \/ Serve(r)
        PROVE  /\ Forward(r) /\ \A q \in Requests : q # r => req'[q] = req[q]
               /\ entry # "none" => entry' = entry
    <2>0. req \in [Requests -> Request]
      BY <1>1 DEF TypeOK
    <2>1. CASE Fetch(r)
      BY <2>0, <2>1 DEF Fetch, GetServerEntry, Goto, Forward, StepsLeft
    <2>2. CASE Serve(r)
      BY <1>1, <2>2, ServeStep
    <2>3. QED
      BY <1>1, <2>1, <2>2
  <1>2. ASSUME ImportSettles \/ Tick \/ \E e \in Errors : EventFires(e)
        PROVE  req' = req /\ (entry # "loading" => entry' = entry)
    BY <1>2 DEF ImportSettles, Tick, EventFires, server
  <1>3. TypeOK /\ [Next]_vars =>
          [/\ \A r \in Requests : /\ Serve(r) => Forward(r)
                                  /\ req'[r] # req[r] => Forward(r)
           /\ entry \in {"ready", "failed"} => entry' = entry]_vars
    BY <1>1, <1>2 DEF Next
  <1>4. QED
    BY <1>3, TypeCorrect, PTL DEF Spec
=============================================================================
