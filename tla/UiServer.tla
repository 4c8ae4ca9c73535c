------------------------------ MODULE UiServer ------------------------------
(***************************************************************************)
(* The server that renders the UI (src/ui/src/server.ts, start.ts): one    *)
(* lazily imported entry shared by all requests, a middleware that turns   *)
(* errors into a page, and the recovery of errors the framework (h3) has   *)
(* swallowed through a single slot, lastCapturedError, filled by global    *)
(* event listeners (lib/error-capture.ts).                                 *)
(*                                                                         *)
(* JavaScript runs one step at a time; requests interleave at the awaits   *)
(* of fetch: the entry, the handler, the text of the response.  What the   *)
(* framework's handler does with a request is a choice of its outcomes.    *)
(* An error is named after the request whose handling raised it.           *)
(***************************************************************************)
EXTENDS Naturals

CONSTANTS
    Requests,      \* page requests; each is served once
    Background,    \* errors raised outside any request
    Bodies,        \* what can be said of the JSON bodies of responses
    None,          \* no error
    TTL,           \* TTL_MS
    MaxTime        \* bound on the clock

ASSUME NamesAssumption ==
    /\ Requests \cap Background = {}
    /\ {"import", "generic", "unreadable", None} \cap (Requests \cup Background) = {}
    /\ None \notin {"import", "generic", "unreadable"}

\* What isCatastrophicSsrErrorBody finds out about a body: it parses to an object,
\* its unhandled is true, its message is "HTTPError", its status is another one
\* than the response's, it has other keys than these three.
JsonFacts == {"object", "unhandled", "HTTPError", "other_status", "other_keys"}
ASSUME BodiesAssumption == Bodies \subseteq SUBSET JsonFacts
ASSUME TimeAssumption == TTL \in Nat /\ MaxTime \in Nat \ {0}

VARIABLES
    now,                  \* Date.now()
    entry,                \* serverEntryPromise
    imports,              \* history: imports begun
    lastCapturedError,    \* the slot
    events,               \* errors whose global event is still to fire
    firedAt,              \* history: when the event of an error fired, or 0
    req,                  \* what each request is doing
    armed,                \* history: requests whose error was captured in time
    disturbed             \* history: requests in flight while the slot was
                          \* written or emptied for another

server == <<entry, imports>>
capture == <<lastCapturedError, events, firedAt, armed, disturbed>>
vars == <<now, entry, imports, lastCapturedError, events, firedAt, req,
          armed, disturbed>>

Time == 1 .. MaxTime
Errors == Requests \cup Background

\* What the handler resolves with.  "json": the content type is JSON and the
\* status 500 or above, be it an error that h3 has swallowed or the answer of an
\* application error with a statusCode, or of a server route; "page": the rest.
Responses == [kind: {"none", "page", "error_page", "json"},
              swallowed: BOOLEAN,          \* history: an error lies behind it
              body: Bodies \cup {{}}]

Page(kind) == [kind |-> kind, swallowed |-> FALSE, body |-> {}]

NoResponse == Page("none")

\* answer: what the client gets; logged: what console.error was given.
Logged == Errors \cup {"import", "generic", "unreadable", None}
Request == [pc: {"idle", "entry", "handler", "normalize", "reading", "done"},
            response: Responses, answer: Responses,
            logged: Logged, loggedAt: Time \cup {0}]

NotBegun == [pc |-> "idle", response |-> NoResponse, answer |-> NoResponse,
             logged |-> None, loggedAt |-> 0]

\* The slot when it is undefined.
EmptySlot == [error |-> None, at |-> 0]

TypeOK ==
    /\ now \in Time
    /\ entry \in {"none", "loading", "ready", "failed"}
    /\ imports \in Nat
    /\ lastCapturedError \in [error: Errors, at: Time] \cup {EmptySlot}
    /\ events \subseteq Errors
    /\ firedAt \in [Errors -> Time \cup {0}]
    /\ req \in [Requests -> Request]
    /\ armed \subseteq Requests
    /\ disturbed \subseteq Requests

Init ==
    /\ now = 1
    /\ entry = "none"
    /\ imports = 0
    /\ lastCapturedError = EmptySlot
    /\ events = Background
    /\ firedAt = [e \in Errors |-> 0]
    /\ req = [r \in Requests |-> NotBegun]
    /\ armed = {}
    /\ disturbed = {}

InFlight == {r \in Requests : req[r].pc \notin {"idle", "done"}}

Goto(r, pc) == req' = [req EXCEPT ![r].pc = pc]

\* The handler's response goes to the client as it is.
Pass(r) == req' = [req EXCEPT ![r] = [@ EXCEPT !.pc = "done", !.answer = req[r].response]]

\* The text of the error page.
RenderErrorPage == Page("error_page")

\* An error is logged and the client gets the page.
BrandedErrorResponse(r, error) ==
    req' = [req EXCEPT ![r] = [@ EXCEPT !.pc = "done",
                                        !.answer = RenderErrorPage,
                                        !.logged = error,
                                        !.loggedAt = now]]

-----------------------------------------------------------------------------
\* mutation: the promise is stored when the import has finished
GetServerEntry_LateStore ==
    IF entry \in {"none", "loading"}
    THEN entry' = "loading" /\ imports' = imports + 1
    ELSE UNCHANGED <<entry, imports>>

\* getServerEntry, up to its await.
GetServerEntry ==
    IF entry = "none"
    THEN entry' = "loading" /\ imports' = imports + 1
    ELSE UNCHANGED <<entry, imports>>

Fetch(r) ==
    /\ req[r].pc = "idle"
    /\ GetServerEntry
    /\ Goto(r, "entry")
    /\ UNCHANGED <<now, capture>>

ImportSettles ==
    /\ entry = "loading"
    /\ entry' \in {"ready", "failed"}
    /\ UNCHANGED <<now, imports, req, capture>>

CallHandler(r) ==
    /\ req[r].pc = "entry" /\ entry = "ready"
    /\ Goto(r, "handler")
    /\ UNCHANGED <<now, server, capture>>

\* mutation: a rejected import is not caught
EntryRejected_Uncaught(r) == FALSE /\ UNCHANGED vars

\* The catch of fetch: every request awaits the same rejected promise.
EntryRejected(r) ==
    /\ req[r].pc = "entry" /\ entry = "failed"
    /\ BrandedErrorResponse(r, "import")
    /\ UNCHANGED <<now, server, capture>>

\* handler.fetch resolves or rejects.  An error thrown under errorMiddleware is
\* logged and becomes a page there; one that carries a statusCode is thrown on
\* and becomes a response of that status.  An error the framework swallows calls
\* itself unhandled, and also raises an event, at once or after the response, or
\* never.
HandlerResolves(r) ==
    /\ req[r].pc = "handler"
    /\ \E response \in Responses :
          /\ response = Page("page") \/ response.kind = "json"
          /\ response.swallowed => "unhandled" \in response.body
          /\ req' = [req EXCEPT ![r] = [@ EXCEPT !.pc = "normalize", !.response = response]]
          /\ events' \in IF response.swallowed THEN {events, events \cup {r}}
                                               ELSE {events}
    /\ UNCHANGED <<now, server, lastCapturedError, firedAt, armed, disturbed>>

ErrorMiddleware(r) ==
    /\ req[r].pc = "handler"
    /\ req' = [req EXCEPT ![r] = [@ EXCEPT !.pc = "normalize",
                                           !.response = RenderErrorPage,
                                           !.logged = r,
                                           !.loggedAt = now]]
    /\ UNCHANGED <<now, server, capture>>

HandlerRejects(r) ==
    /\ req[r].pc = "handler"
    /\ BrandedErrorResponse(r, r)
    /\ UNCHANGED <<now, server, capture>>

-----------------------------------------------------------------------------
\* mutation: an error in the slot is kept until it is consumed
Record_KeepFirst(e) ==
    lastCapturedError' = IF lastCapturedError = EmptySlot
                         THEN [error |-> e, at |-> now] ELSE lastCapturedError

\* mutation: the error is stored without its time
Record_NoTime(e) == lastCapturedError' = [error |-> e, at |-> 0]

Record(e) == lastCapturedError' = [error |-> e, at |-> now]

\* The "error" or "unhandledrejection" event of an error.
EventFires(e) ==
    /\ e \in events
    /\ Record(e)
    /\ events' = events \ {e}
    /\ firedAt' = [firedAt EXCEPT ![e] = now]
    /\ disturbed' = disturbed \cup (InFlight \ {e})
    /\ armed' = armed \cup ({e} \cap InFlight)
    /\ UNCHANGED <<now, server, req>>

\* What consumeLastCapturedError finds; without it a generic error is logged.
Consumed ==
    IF lastCapturedError = EmptySlot \/ now - lastCapturedError.at > TTL
    THEN "generic"
    ELSE lastCapturedError.error

\* mutation: the slot is left as it is
Emptied_Kept == UNCHANGED lastCapturedError

Emptied == lastCapturedError' = EmptySlot

-----------------------------------------------------------------------------
\* normalizeCatastrophicSsrResponse up to the await of the body.
ReturnResponse(r) ==
    /\ req[r].pc = "normalize"
    /\ req[r].response.kind # "json"
    /\ Pass(r)
    /\ UNCHANGED <<now, server, capture>>

ReadBody(r) ==
    /\ req[r].pc = "normalize"
    /\ req[r].response.kind = "json"
    /\ Goto(r, "reading")
    /\ UNCHANGED <<now, server, capture>>

\* The text of the body cannot be had: fetch catches what text() rejects with.
BodyUnreadable(r) ==
    /\ req[r].pc = "reading"
    /\ BrandedErrorResponse(r, "unreadable")
    /\ UNCHANGED <<now, server, capture>>

\* mutation: the status in the body is not compared with the response's
IsCatastrophic_AnyStatus(body) ==
    /\ "object" \in body
    /\ "other_keys" \notin body
    /\ {"unhandled", "HTTPError"} \subseteq body

\* isCatastrophicSsrErrorBody
IsCatastrophic(body) ==
    /\ "object" \in body
    /\ "other_keys" \notin body
    /\ {"unhandled", "HTTPError"} \subseteq body
    /\ "other_status" \notin body

PassBody(r) ==
    /\ req[r].pc = "reading" /\ ~ IsCatastrophic(req[r].response.body)
    /\ Pass(r)
    /\ UNCHANGED <<now, server, capture>>

ReplaceBody(r) ==
    /\ req[r].pc = "reading" /\ IsCatastrophic(req[r].response.body)
    /\ BrandedErrorResponse(r, Consumed)
    /\ Emptied
    /\ disturbed' = disturbed \cup (InFlight \ {r})
    /\ UNCHANGED <<now, server, events, firedAt, armed>>

Tick ==
    /\ now < MaxTime
    /\ now' = now + 1
    /\ UNCHANGED <<server, req, capture>>

Serve(r) ==
    \/ CallHandler(r) \/ EntryRejected(r)
    \/ HandlerResolves(r) \/ ErrorMiddleware(r) \/ HandlerRejects(r)
    \/ ReturnResponse(r) \/ ReadBody(r)
    \/ BodyUnreadable(r) \/ PassBody(r) \/ ReplaceBody(r)

Next ==
    \/ \E r \in Requests : Fetch(r) \/ Serve(r)
    \/ ImportSettles
    \/ \E e \in Errors : EventFires(e)
    \/ Tick

Spec == Init /\ [][Next]_vars

\* The event loop runs what is ready, the import and the handler settle.  That
\* requests arrive, that events fire and that time passes is not fair.
FairSpec == Spec /\ WF_vars(ImportSettles) /\ \A r \in Requests : WF_vars(Serve(r))

-----------------------------------------------------------------------------
\* However many requests arrive before the entry is there, it is imported once
\* (getServerEntry stores the promise before it awaits it).
ImportedOnce == imports = IF entry = "none" THEN 0 ELSE 1

\* The body of an error that h3 has swallowed, as the comment in server.ts has it.
SwallowedBody == {"object", "unhandled", "HTTPError"}

\* No client gets a swallowed error in its known form (in another form it does), an
\* answer of the application is kept from it only when it reads like one or cannot
\* be read, and no client gets the error page in silence: something has been logged
\* for it.
AnswersFit ==
    \A r \in Requests : req[r].pc = "done" =>
        /\ ~ (req[r].answer.kind = "json" /\ req[r].answer.body = SwallowedBody)
        /\ \/ req[r].answer = req[r].response
           \/ /\ req[r].answer.kind = "error_page"
              /\ \/ req[r].response = NoResponse
                 \/ req[r].response.body = SwallowedBody
                 \/ req[r].logged = "unreadable"
        /\ req[r].answer.kind = "error_page" <=> req[r].logged # None

\* A captured error is reported for one request only: concurrent failures do not
\* both claim it.
ReportedOnce ==
    \A r, q \in Requests :
        req[r].logged = req[q].logged /\ req[r].logged \in Errors => r = q

\* An error raised elsewhere that is reported for a request is at most TTL old:
\* what an earlier failure left in the slot is not blamed on a later one for ever.
ReportsAreRecent ==
    \A r \in Requests : \A e \in Errors :
        req[r].logged = e /\ e # r =>
            firedAt[e] # 0 /\ req[r].loggedAt - firedAt[e] <= TTL

\* No report is another request's, and none is stale.
ReportsAreSound == ReportedOnce /\ ReportsAreRecent

\* The report of a swallowed error names the right one when nothing else went
\* wrong meanwhile: the request's own error was captured before its answer, not
\* longer than TTL ago, and neither another capture nor another recovery came
\* between.
UndisturbedNamesItself ==
    \A r \in Requests :
        /\ req[r].logged \notin {None, "unreadable"} /\ r \in armed /\ r \notin disturbed
        /\ req[r].loggedAt - firedAt[r] <= TTL
        => req[r].logged = r

\* Every request is answered, also when the entry cannot be imported.
RequestsAnswered == \A r \in Requests : req[r].pc # "idle" ~> req[r].pc = "done"

=============================================================================
