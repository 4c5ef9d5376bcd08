---------------------------- MODULE RequestPipeline ----------------------------
(***************************************************************************)
(* What a request passes on its way through create_app (app/main.py).      *)
(* From the outside in: ServerErrorMiddleware (starlette, it runs the      *)
(* handler registered for Exception), CORSMiddleware,                      *)
(* RequestContextMiddleware, PrometheusMiddleware,                         *)
(* SecurityHeadersMiddleware, ExceptionMiddleware (starlette, it runs the  *)
(* other handlers of app/core/errors.py), the route.  The application      *)
(* starts only with settings that AppSettings accepts.                     *)
(*                                                                         *)
(* Requests are asyncio tasks that give way to each other at every         *)
(* `await call_next`.  request_id_ctx is a ContextVar: each task has its   *)
(* own value, a task started by call_next a copy of its parent's.  So the  *)
(* value RequestContextMiddleware sets is seen by everything inside it,    *)
(* and what is outside sees the value of the server's own task.            *)
(***************************************************************************)
EXTENDS Naturals, FiniteSets, AppSettings

CONSTANTS
    Requests,    \* the requests of the run; uuid4().hex of r is r itself
    ClientIds,   \* ids clients send as X-Request-ID
    None,        \* no id
    Deployments  \* the environments the application may be started in

(* No Origin header is not an origin; cors_allow_credentials is a bool.    *)
ASSUME PipelineAssumption ==
    /\ NoOrigin \notin Origins
    /\ \A s \in Deployments : s.credentials \in BOOLEAN

Kinds == {"preflight", "metrics", "api"}

(* "problem" stands for the statuses of the errors that have a handler,    *)
(* "disallowed" for the 400 of CORSMiddleware.                             *)
Statuses == {"2xx", "problem", "disallowed", "500"}

Ids == Requests \cup ClientIds

(* The lines the pipeline logs about a request. *)
Events == {"request_completed", "request_failed", "unhandled_exception"}

(* A preflight names its origin and has no cookie; the scraper is no       *)
(* browser.                                                                *)
IncomingRequests ==
    {q \in [kind : Kinds, incoming : ClientIds \cup {None}, origin : Origins \cup {NoOrigin},
            cookie : BOOLEAN] :
        /\ q.kind = "preflight" => q.origin # NoOrigin /\ ~q.cookie /\ q.incoming = None
        /\ q.kind = "metrics" => q.origin = NoOrigin
        /\ q.origin = NoOrigin => ~q.cookie}

(* What the client receives: status line, the trace_id of the body, the    *)
(* X-Request-ID header, whether the security headers are there, and the    *)
(* Access-Control-Allow-Origin and -Credentials headers.                   *)
Responses ==
    [status : Statuses, trace : Ids \cup {None}, requestId : Ids \cup {None},
     secured : BOOLEAN, allowOrigin : Origins \cup {"*", NoOrigin}, allowCredentials : BOOLEAN]

NoResponse ==
    [status |-> "2xx", trace |-> None, requestId |-> None, secured |-> FALSE,
     allowOrigin |-> NoOrigin, allowCredentials |-> FALSE]

VARIABLES
    settings,    \* get_settings()
    started,     \* create_app has returned and the lifespan has begun
    at,          \* the layer the request has reached, and which way it goes
    request,     \* its kind and the id its client sent
    outer,       \* request_id_ctx in the server's task for the request
    inner,       \* request_id_ctx in the tasks inside RequestContextMiddleware
    response,    \* the response as built so far
    count,       \* http_requests_total, by status
    lines        \* the log lines: request, event and the id stamped on it

app == <<settings, started>>
vars == <<app, at, request, outer, inner, response, count, lines>>

Places ==
    {"new", "cors", "context", "route", "security_out", "prometheus_out",
     "context_out", "cors_out", "raised", "error", "sent", "torn"}

(* The type of every variable. *)
TypeOK ==
    /\ settings \in Deployments
    /\ started \in BOOLEAN
    /\ at \in [Requests -> Places]
    /\ request \in [Requests -> IncomingRequests]
    /\ outer \in [Requests -> Ids \cup {None}]
    /\ inner \in [Requests -> Ids \cup {None}]
    /\ response \in [Requests -> Responses]
    /\ count \in [Statuses -> Nat]
    /\ lines \subseteq [request : Requests, event : Events, stamp : Ids \cup {None}]

Init ==
    /\ settings \in Deployments
    /\ started = FALSE
    /\ at = [r \in Requests |-> "new"]
    /\ request \in [Requests -> IncomingRequests]
    /\ outer = [r \in Requests |-> None]
    /\ inner = [r \in Requests |-> None]
    /\ response = [r \in Requests |-> NoResponse]
    /\ count = [s \in Statuses |-> 0]
    /\ lines = {}

Goto(r, place) == at' = [at EXCEPT ![r] = place]

(* A log line; _add_request_id stamps it with the value of the task that   *)
(* logs.                                                                   *)
Log(r, event, stamp) ==
    lines' = lines \cup {[request |-> r, event |-> event, stamp |-> stamp]}

(* incoming or uuid.uuid4().hex *)
RequestId(r) == IF request[r].incoming = None THEN r ELSE request[r].incoming

-----------------------------------------------------------------------------
(* The way in. *)

(* Settings() raises, or create_app returns and the lifespan starts. *)
StartUp ==
    /\ ~started
    /\ Accepts(settings)
    /\ started' = TRUE
    /\ UNCHANGED <<settings, at, request, outer, inner, response, count, lines>>

(* The server starts a task for the request. *)
Receive(r) ==
    /\ started
    /\ at[r] = "new"
    /\ Goto(r, "cors")
    /\ UNCHANGED <<app, request, outer, inner, response, count, lines>>

(* The answer with its Access-Control headers. *)
WithCors(resp, origin) ==
    [resp EXCEPT !.allowOrigin = origin, !.allowCredentials = settings.credentials]

(* CORSMiddleware answers a preflight itself. *)
AnswerPreflight(r) ==
    /\ at[r] = "cors"
    /\ request[r].kind = "preflight"
    /\ response' = [response EXCEPT ![r] =
          [WithCors(@, PreflightOrigin(settings, request[r].origin)) EXCEPT
             !.status = IF IsAllowed(settings, request[r].origin) THEN "2xx" ELSE "disallowed"]]
    /\ Goto(r, "sent")
    /\ UNCHANGED <<app, request, outer, inner, count, lines>>

PassOn(r) ==
    /\ at[r] = "cors"
    /\ request[r].kind # "preflight"
    /\ Goto(r, "context")
    /\ UNCHANGED <<app, request, outer, inner, response, count, lines>>

(* Fault: the id is kept in a global of the module. *)
SetRequestIdGlobally(r) ==
    /\ outer' = [q \in Requests |-> RequestId(r)]
    /\ inner' = [q \in Requests |-> RequestId(r)]

(* request_id_ctx.set, and the copy call_next's task starts with. *)
SetRequestId(r) ==
    /\ outer' = [outer EXCEPT ![r] = RequestId(r)]
    /\ inner' = [inner EXCEPT ![r] = RequestId(r)]

(* RequestContextMiddleware.dispatch up to call_next.  The two middlewares *)
(* inside it only start the next task.                                     *)
EnterContext(r) ==
    /\ at[r] = "context"
    /\ SetRequestId(r)
    /\ Goto(r, "route")
    /\ UNCHANGED <<app, request, response, count, lines>>

-----------------------------------------------------------------------------
(* The route. *)

(* _problem: the id is read in the task that runs the handler. *)
Problem(status, id) == [NoResponse EXCEPT !.status = status, !.trace = id]

RouteReturns(r) ==
    /\ at[r] = "route"
    /\ response' = [response EXCEPT ![r].status = "2xx"]
    /\ Goto(r, "security_out")
    /\ UNCHANGED <<app, request, outer, inner, count, lines>>

(* AppError, a validation error and HTTPException, that of an unknown path *)
(* included: ExceptionMiddleware runs their handlers inside every other    *)
(* middleware.                                                             *)
RouteProblem(r) ==
    /\ at[r] = "route"
    /\ response' = [response EXCEPT ![r] = Problem("problem", inner[r])]
    /\ Goto(r, "security_out")
    /\ UNCHANGED <<app, request, outer, inner, count, lines>>

(* Any other exception: it is raised through SecurityHeadersMiddleware and *)
(* PrometheusMiddleware, which both lie in await call_next.                *)
RouteRaises(r) ==
    /\ at[r] = "route"
    /\ Goto(r, "raised")
    /\ UNCHANGED <<app, request, outer, inner, response, count, lines>>

-----------------------------------------------------------------------------
(* The way out. *)

(* SecurityHeadersMiddleware.dispatch after call_next; that the docs pages *)
(* get a Content-Security-Policy of their own is left out.                 *)
AddSecurityHeaders(r) ==
    /\ at[r] = "security_out"
    /\ response' = [response EXCEPT ![r].secured = TRUE]
    /\ Goto(r, "prometheus_out")
    /\ UNCHANGED <<app, request, outer, inner, count, lines>>

(* request.url.path == _METRICS_PATH is not counted. *)
IsCounted(r) == request[r].kind # "metrics"

(* http_requests_total.labels(...).inc() *)
Counted(r) == [count EXCEPT ![response[r].status] = @ + 1]

(* PrometheusMiddleware.dispatch after call_next. *)
Count(r) ==
    /\ at[r] = "prometheus_out"
    /\ count' = IF IsCounted(r) THEN Counted(r) ELSE count
    /\ Goto(r, "context_out")
    /\ UNCHANGED <<app, request, outer, inner, response, lines>>

(* request_id_ctx.reset(token): the value the server's task had. *)
ResetRequestId(r) == outer' = [outer EXCEPT ![r] = None]

(* RequestContextMiddleware.dispatch after call_next: `finally` resets the *)
(* id, then the header is set and the request logged.                      *)
LeaveContext(r) ==
    /\ at[r] = "context_out"
    /\ ResetRequestId(r)
    /\ response' = [response EXCEPT ![r].requestId = RequestId(r)]
    /\ Log(r, "request_completed", outer'[r])
    /\ Goto(r, "cors_out")
    /\ UNCHANGED <<app, request, inner, count>>

(* CORSMiddleware adds its headers to the answer to a browser. *)
AddCorsHeaders(r) ==
    /\ at[r] = "cors_out"
    /\ response' = IF request[r].origin = NoOrigin THEN response
                    ELSE [response EXCEPT ![r] =
                            WithCors(@, SimpleOrigin(settings, request[r].origin, request[r].cookie))]
    /\ Goto(r, "sent")
    /\ UNCHANGED <<app, request, outer, inner, count, lines>>

(* The same when call_next raises: the `except` clause logs before         *)
(* `finally` resets, and the exception goes on.                            *)
LeaveContextRaising(r) ==
    /\ at[r] = "raised"
    /\ Log(r, "request_failed", outer[r])
    /\ ResetRequestId(r)
    /\ Goto(r, "error")
    /\ UNCHANGED <<app, request, inner, response, count>>

(* _handle_unexpected, run by ServerErrorMiddleware. *)
HandleUnexpected(r) ==
    /\ at[r] = "error"
    /\ Log(r, "unhandled_exception", outer[r])
    /\ response' = [response EXCEPT ![r] = Problem("500", outer[r])]
    /\ Goto(r, "sent")
    /\ UNCHANGED <<app, request, outer, inner, count>>

(* The session is committed once the response has left, and that fails:    *)
(* the handler of Exception runs and its response is dropped.              *)
CommitFails(r) ==
    /\ at[r] = "sent"
    /\ request[r].kind = "api"
    /\ response[r].status = "2xx"
    /\ Log(r, "unhandled_exception", outer[r])
    /\ Goto(r, "torn")
    /\ UNCHANGED <<app, request, outer, inner, response, count>>

Next ==
    \/ StartUp
    \/ \E r \in Requests :
        \/ Receive(r)
        \/ AnswerPreflight(r)
        \/ PassOn(r)
        \/ EnterContext(r)
        \/ RouteReturns(r)
        \/ RouteProblem(r)
        \/ RouteRaises(r)
        \/ AddSecurityHeaders(r)
        \/ Count(r)
        \/ LeaveContext(r)
        \/ LeaveContextRaising(r)
        \/ HandleUnexpected(r)
        \/ AddCorsHeaders(r)
        \/ CommitFails(r)

Spec == Init /\ [][Next]_vars

-----------------------------------------------------------------------------
(* Properties. *)

Sent(r) == at[r] \in {"sent", "torn"}

(* However requests interleave, no response and no log line names another  *)
(* request: ids come from request_id_ctx, which other tasks set and reset  *)
(* meanwhile (dispatch, _problem, _add_request_id).  And the answer of a   *)
(* route, an error that has a handler included, is complete: it has the id *)
(* of its request in the header, the same in the problem body, and the     *)
(* security headers.                                                       *)
TracedToOwnRequest ==
    /\ \A l \in lines : l.stamp \in {None, RequestId(l.request)}
    /\ \A r \in Requests :
         /\ response[r].trace \in {None, RequestId(r)}
         /\ Sent(r) /\ request[r].kind # "preflight" /\ response[r].status # "500" =>
              /\ response[r].requestId = RequestId(r)
              /\ response[r].secured
              /\ response[r].status = "problem" => response[r].trace = RequestId(r)

(* A page may read an answer that was given with the user's credentials    *)
(* only if its origin is one of those listed by name, whatever the form in *)
(* which the list was written and whether the request was preflighted      *)
(* (_split_list, _refuse_wildcard_cors_with_credentials, create_app).      *)
CredentialsOnlyForListed ==
    \A r \in Requests :
        response[r].allowOrigin \in Origins /\ response[r].allowCredentials
          => Entry(response[r].allowOrigin) \in CorsOrigins(settings)

-----------------------------------------------------------------------------
(* What the repository says of the pipeline, and the code does not do: the *)
(* exception of a route passes every layer but the outermost one.          *)

(* An unexpected exception that was answered has at least one of the four  *)
(* things that are written about every one: the trace id in its problem    *)
(* (app/core/errors.py), the security headers (SecurityHeadersMiddleware), *)
(* a place in http_requests_total (app/core/metrics.py), the id on its log *)
(* line (app/core/logging.py).  Each of the four texts implies this, so    *)
(* that a violation refutes them all.                                      *)
InternalErrorsAccountedFor ==
    \A r \in Requests :
        Sent(r) /\ request[r].kind = "api" /\ response[r].status = "500" =>
          \/ response[r].trace = RequestId(r)
          \/ response[r].secured
          \/ Cardinality({q \in Requests : request[q].kind = "api" /\ response[q].status = "500"})
               <= count["500"]
          \/ [request |-> r, event |-> "unhandled_exception", stamp |-> RequestId(r)] \in lines

=============================================================================
