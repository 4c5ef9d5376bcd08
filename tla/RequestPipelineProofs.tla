------------------------- MODULE RequestPipelineProofs -------------------------
(***************************************************************************)
(* The properties of RequestPipeline for any number of requests that       *)
(* overlap, any ids and origins, and any settings the application starts   *)
(* with.                                                                   *)
(***************************************************************************)
EXTENDS RequestPipeline, TLAPS

(* Only settings that were accepted serve requests. *)
ServesAccepted ==
    /\ started => Accepts(settings)
    /\ \A r \in Requests : at[r] # "new" => started

(* The tasks between request_id_ctx.set and its reset. *)
Inside == {"route", "security_out", "prometheus_out", "context_out", "raised"}

(* request_id_ctx as each task of a request sees it: the server's task     *)
(* between set and reset, the tasks inside from the moment they start.     *)
IdsInPlace ==
    \A r \in Requests :
        /\ outer[r] = IF at[r] \in Inside THEN RequestId(r) ELSE None
        /\ at[r] \in Inside => inner[r] = RequestId(r)

(* No line is stamped with the id of another request. *)
LinesTraced == \A l \in lines : l.stamp \in {None, RequestId(l.request)}

(* A preflight goes no further than CORSMiddleware. *)
PreflightStaysOut ==
    \A r \in Requests :
        request[r].kind = "preflight" => at[r] \in {"new", "cors", "sent"}

(* What a layer that has not been passed would have added is not there. *)
NothingYet(r) ==
    at[r] \in {"new", "cors", "context", "route", "raised", "error"} => response[r] = NoResponse

(* The answer of a route as it comes by. *)
Answer(r) ==
    /\ response[r].status \in {"2xx", "problem"}
    /\ response[r].trace = IF response[r].status = "problem" THEN RequestId(r) ELSE None

(* What the layers have added to it. *)
OnTheWayOut(r) ==
    /\ at[r] \in {"security_out", "prometheus_out", "context_out", "cors_out", "torn"} => Answer(r)
    /\ at[r] \in {"prometheus_out", "context_out", "cors_out", "torn"} => response[r].secured
    /\ at[r] \in {"cors_out", "torn"} => response[r].requestId = RequestId(r)
    /\ at[r] \notin {"sent", "torn"} => response[r].allowOrigin = NoOrigin

(* An answer that has left: of CORSMiddleware itself, of the handler of    *)
(* Exception, or of a route.                                               *)
Delivered(r) ==
    at[r] = "sent" =>
        \/ request[r].kind = "preflight" /\ response[r].trace = None
        \/ response[r].status = "500" /\ response[r].trace = None
        \/ Answer(r) /\ response[r].secured /\ response[r].requestId = RequestId(r)

ResponsesInPlace == \A r \in Requests : NothingYet(r) /\ OnTheWayOut(r) /\ Delivered(r)

IInv ==
    /\ TypeOK
    /\ ServesAccepted
    /\ IdsInPlace
    /\ LinesTraced
    /\ PreflightStaysOut
    /\ ResponsesInPlace
    /\ CredentialsOnlyForListed

(* What the layers do to a response leaves a response. *)
LEMMA ResponseUpdates ==
    ASSUME NEW p \in Responses
    PROVE  /\ \A s \in Statuses : [p EXCEPT !.status = s] \in Responses
           /\ [p EXCEPT !.secured = TRUE] \in Responses
           /\ \A i \in Ids : [p EXCEPT !.requestId = i] \in Responses
           /\ \A o \in Origins \cup {"*", NoOrigin}, c \in BOOLEAN :
                [p EXCEPT !.allowOrigin = o, !.allowCredentials = c] \in Responses
BY DEF Responses

LEMMA ProblemIsResponse ==
    \A s \in Statuses, i \in Ids \cup {None} : Problem(s, i) \in Responses
BY DEF Responses, Problem, NoResponse

(* Types. *)
LEMMA TypesKept ==
    ASSUME IInv, [Next]_vars
    PROVE  TypeOK'
<1>1. CASE StartUp \/ UNCHANGED vars
  BY <1>1 DEF IInv, StartUp, vars, app, TypeOK, Ids, Places, Statuses, Events,
      IncomingRequests, RequestId
<1>2. ASSUME NEW r \in Requests, AnswerPreflight(r) PROVE TypeOK'
  <2> DEFINE resp == response[r]
             origin == PreflightOrigin(settings, request[r].origin)
             status == IF IsAllowed(settings, request[r].origin) THEN "2xx" ELSE "disallowed"
  <2>1. /\ resp \in Responses
        /\ origin \in Origins \cup {"*", NoOrigin}
        /\ status \in Statuses
        /\ settings.credentials \in BOOLEAN
    BY <1>2, PipelineAssumption DEF IInv, TypeOK, IncomingRequests, PreflightOrigin, Statuses
  <2>2. WithCors(resp, origin) \in Responses
    BY <2>1, ResponseUpdates DEF WithCors
  <2>3. [WithCors(resp, origin) EXCEPT !.status = status] \in Responses
    BY <2>1, <2>2, ResponseUpdates
  <2>4. response' \in [Requests -> Responses]
    BY <1>2, <2>3 DEF IInv, TypeOK, AnswerPreflight
  <2> QED
    BY <1>2, <2>4 DEF IInv, AnswerPreflight, app, Goto, TypeOK, Places
<1>3. ASSUME NEW r \in Requests, EnterContext(r) PROVE TypeOK'
  BY <1>3 DEF IInv, EnterContext, app, Goto, SetRequestId, TypeOK, Ids, Places,
      Statuses, Events, IncomingRequests, RequestId
<1>4. ASSUME NEW r \in Requests, RouteReturns(r) PROVE TypeOK'
  <2>1. response[r] \in Responses /\ RequestId(r) \in Ids /\ settings.credentials \in BOOLEAN
    BY <1>4, PipelineAssumption DEF IInv, TypeOK, IncomingRequests, RequestId, Ids
  <2>2. [response[r] EXCEPT !.status = "2xx"] \in Responses
    BY <2>1, ResponseUpdates DEF Statuses
  <2>3. response' \in [Requests -> Responses]
    BY <1>4, <2>2 DEF IInv, TypeOK, RouteReturns, Problem
  <2> QED
    BY <1>4, <2>1, <2>3 DEF IInv, RouteReturns, app, Goto, TypeOK, Ids, Places, Events
<1>5. ASSUME NEW r \in Requests, RouteProblem(r) PROVE TypeOK'
  <2>1. response[r] \in Responses /\ RequestId(r) \in Ids /\ settings.credentials \in BOOLEAN
    BY <1>5, PipelineAssumption DEF IInv, TypeOK, IncomingRequests, RequestId, Ids
  <2>2. Problem("problem", inner[r]) \in Responses
    BY ProblemIsResponse DEF Statuses, IInv, TypeOK
  <2>3. response' \in [Requests -> Responses]
    BY <1>5, <2>2 DEF IInv, TypeOK, RouteProblem, Problem
  <2> QED
    BY <1>5, <2>1, <2>3 DEF IInv, RouteProblem, app, Goto, Problem, TypeOK, Ids, Places,
        Events
<1>6. ASSUME NEW r \in Requests, AddSecurityHeaders(r) PROVE TypeOK'
  <2>1. response[r] \in Responses /\ RequestId(r) \in Ids /\ settings.credentials \in BOOLEAN
    BY <1>6, PipelineAssumption DEF IInv, TypeOK, IncomingRequests, RequestId, Ids
  <2>2. [response[r] EXCEPT !.secured = TRUE] \in Responses
    BY <2>1, ResponseUpdates
  <2>3. response' \in [Requests -> Responses]
    BY <1>6, <2>2 DEF IInv, TypeOK, AddSecurityHeaders, Problem
  <2> QED
    BY <1>6, <2>1, <2>3 DEF IInv, AddSecurityHeaders, app, Goto, TypeOK, Ids, Places,
        Events
<1>7. ASSUME NEW r \in Requests, Count(r) PROVE TypeOK'
  BY <1>7 DEF IInv, Count, app, Goto, Counted, TypeOK, Responses, Ids, Places, Statuses, Events,
      IncomingRequests, RequestId
<1>8. ASSUME NEW r \in Requests, LeaveContext(r) PROVE TypeOK'
  <2>1. response[r] \in Responses /\ RequestId(r) \in Ids /\ settings.credentials \in BOOLEAN
    BY <1>8, PipelineAssumption DEF IInv, TypeOK, IncomingRequests, RequestId, Ids
  <2>2. [response[r] EXCEPT !.requestId = RequestId(r)] \in Responses
    BY <2>1, ResponseUpdates
  <2>3. response' \in [Requests -> Responses]
    BY <1>8, <2>2 DEF IInv, TypeOK, LeaveContext, Problem
  <2> QED
    BY <1>8, <2>1, <2>3 DEF IInv, LeaveContext, app, Goto, ResetRequestId, Log, TypeOK,
        Ids, Places, Events
<1>9. ASSUME NEW r \in Requests, LeaveContextRaising(r) PROVE TypeOK'
  BY <1>9 DEF IInv, LeaveContextRaising, app, Goto, ResetRequestId, Log, TypeOK, Ids,
      Places, Statuses, Events, IncomingRequests, RequestId
<1>10. ASSUME NEW r \in Requests, HandleUnexpected(r) PROVE TypeOK'
  <2>1. response[r] \in Responses /\ RequestId(r) \in Ids /\ settings.credentials \in BOOLEAN
    BY <1>10, PipelineAssumption DEF IInv, TypeOK, IncomingRequests, RequestId, Ids
  <2>2. Problem("500", outer[r]) \in Responses
    BY ProblemIsResponse DEF Statuses, IInv, TypeOK
  <2>3. response' \in [Requests -> Responses]
    BY <1>10, <2>2 DEF IInv, TypeOK, HandleUnexpected, Problem
  <2> QED
    BY <1>10, <2>1, <2>3 DEF IInv, HandleUnexpected, app, Goto, Log, Problem, TypeOK, Ids,
        Places, Events
<1>11. ASSUME NEW r \in Requests, AddCorsHeaders(r) PROVE TypeOK'
  <2> DEFINE origin == SimpleOrigin(settings, request[r].origin, request[r].cookie)
  <2>1. /\ response[r] \in Responses
        /\ origin \in Origins \cup {"*", NoOrigin}
        /\ settings.credentials \in BOOLEAN
    BY <1>11, PipelineAssumption DEF IInv, TypeOK, IncomingRequests, SimpleOrigin
  <2>2. WithCors(response[r], origin) \in Responses
    BY <2>1, ResponseUpdates DEF WithCors
  <2>3. response' \in [Requests -> Responses]
    BY <1>11, <2>2 DEF IInv, TypeOK, AddCorsHeaders
  <2> QED
    BY <1>11, <2>3 DEF IInv, AddCorsHeaders, app, Goto, TypeOK, Places
<1>12. ASSUME NEW r \in Requests, CommitFails(r) PROVE TypeOK'
  BY <1>12 DEF IInv, CommitFails, app, Goto, Log, TypeOK, Ids, Places, Statuses,
      Events, IncomingRequests, RequestId
<1>13. ASSUME NEW r \in Requests,
             Receive(r) \/ PassOn(r) \/ RouteRaises(r)
      PROVE  TypeOK'
  BY <1>13 DEF IInv, Receive, PassOn, RouteRaises, app, Goto, TypeOK, Ids, Places,
      Statuses, Events, IncomingRequests, RequestId
<1> QED
  BY <1>1, <1>2, <1>3, <1>4, <1>5, <1>6, <1>7, <1>8, <1>9, <1>10, <1>11, <1>12, <1>13
      DEF Next

(* The settings do not change once the application serves. *)
LEMMA AcceptedKept ==
    ASSUME IInv, [Next]_vars
    PROVE  ServesAccepted'
<1>1. CASE StartUp \/ UNCHANGED vars
  BY <1>1 DEF IInv, StartUp, vars, app, ServesAccepted, TypeOK
<1>2. ASSUME NEW r \in Requests,
             Receive(r) \/ AnswerPreflight(r) \/ PassOn(r) \/ EnterContext(r) \/
             RouteReturns(r) \/ RouteProblem(r) \/ RouteRaises(r) \/
             AddSecurityHeaders(r) \/ Count(r) \/ LeaveContext(r) \/
             LeaveContextRaising(r) \/ HandleUnexpected(r) \/ AddCorsHeaders(r)
             \/ CommitFails(r)
      PROVE  ServesAccepted'
  BY <1>2 DEF IInv, Receive, AnswerPreflight, PassOn, EnterContext, RouteReturns,
      RouteProblem, RouteRaises, AddSecurityHeaders, Count, LeaveContext,
      LeaveContextRaising, HandleUnexpected, AddCorsHeaders, CommitFails, app, Goto,
      WithCors, SetRequestId, Problem, Counted, ResetRequestId, Log, ServesAccepted,
      TypeOK
<1> QED
  BY <1>1, <1>2 DEF Next

(* A request sets and resets no id but its own. *)
LEMMA IdsKept ==
    ASSUME IInv, [Next]_vars
    PROVE  IdsInPlace'
<1>1. CASE StartUp \/ UNCHANGED vars
  BY <1>1 DEF IInv, StartUp, vars, app, IdsInPlace, TypeOK, Inside, RequestId
<1>2. ASSUME NEW r \in Requests, EnterContext(r) PROVE IdsInPlace'
  BY <1>2 DEF IInv, EnterContext, app, Goto, SetRequestId, IdsInPlace, TypeOK, Inside,
      RequestId
<1>3. ASSUME NEW r \in Requests, LeaveContext(r) PROVE IdsInPlace'
  BY <1>3 DEF IInv, LeaveContext, app, Goto, ResetRequestId, Log, IdsInPlace, TypeOK,
      Inside, RequestId
<1>4. ASSUME NEW r \in Requests, LeaveContextRaising(r) PROVE IdsInPlace'
  BY <1>4 DEF IInv, LeaveContextRaising, app, Goto, ResetRequestId, Log, IdsInPlace,
      TypeOK, Inside, RequestId
<1>5. ASSUME NEW r \in Requests,
             Receive(r) \/ AnswerPreflight(r) \/ PassOn(r) \/ RouteReturns(r) \/
             RouteProblem(r) \/ RouteRaises(r) \/ AddSecurityHeaders(r) \/
             Count(r) \/ HandleUnexpected(r) \/ AddCorsHeaders(r) \/
             CommitFails(r)
      PROVE  IdsInPlace'
  BY <1>5 DEF IInv, Receive, AnswerPreflight, PassOn, RouteReturns, RouteProblem,
      RouteRaises, AddSecurityHeaders, Count, HandleUnexpected, AddCorsHeaders,
      CommitFails, app, Goto, WithCors, Problem, Counted, Log, IdsInPlace, TypeOK,
      Inside, RequestId
<1> QED
  BY <1>1, <1>2, <1>3, <1>4, <1>5 DEF Next

(* A line is stamped by a task of its request. *)
LEMMA LinesKept ==
    ASSUME IInv, [Next]_vars
    PROVE  LinesTraced'
<1>1. CASE StartUp \/ UNCHANGED vars
  BY <1>1 DEF IInv, StartUp, vars, app, LinesTraced, IdsInPlace, TypeOK, Inside,
      RequestId
<1>2. ASSUME NEW r \in Requests, LeaveContext(r) PROVE LinesTraced'
  BY <1>2 DEF IInv, LeaveContext, app, Goto, ResetRequestId, Log, LinesTraced,
      IdsInPlace, TypeOK, Inside, RequestId
<1>3. ASSUME NEW r \in Requests, LeaveContextRaising(r) PROVE LinesTraced'
  BY <1>3 DEF IInv, LeaveContextRaising, app, Goto, ResetRequestId, Log, LinesTraced,
      IdsInPlace, TypeOK, Inside, RequestId
<1>4. ASSUME NEW r \in Requests, HandleUnexpected(r) PROVE LinesTraced'
  BY <1>4 DEF IInv, HandleUnexpected, app, Goto, Log, Problem, LinesTraced, IdsInPlace,
      TypeOK, Inside, RequestId
<1>5. ASSUME NEW r \in Requests, CommitFails(r) PROVE LinesTraced'
  BY <1>5 DEF IInv, CommitFails, app, Goto, Log, LinesTraced, IdsInPlace, TypeOK,
      Inside, RequestId
<1>6. ASSUME NEW r \in Requests,
             Receive(r) \/ AnswerPreflight(r) \/ PassOn(r) \/ EnterContext(r) \/
             RouteReturns(r) \/ RouteProblem(r) \/ RouteRaises(r) \/
             AddSecurityHeaders(r) \/ Count(r) \/ AddCorsHeaders(r)
      PROVE  LinesTraced'
  BY <1>6 DEF IInv, Receive, AnswerPreflight, PassOn, EnterContext, RouteReturns,
      RouteProblem, RouteRaises, AddSecurityHeaders, Count, AddCorsHeaders, app, Goto,
      WithCors, SetRequestId, Problem, Counted, LinesTraced, IdsInPlace, TypeOK,
      Inside, RequestId
<1> QED
  BY <1>1, <1>2, <1>3, <1>4, <1>5, <1>6 DEF Next

(* PassOn lets no preflight through. *)
LEMMA PreflightsKept ==
    ASSUME IInv, [Next]_vars
    PROVE  PreflightStaysOut'
<1>1. CASE StartUp \/ UNCHANGED vars
  BY <1>1 DEF IInv, StartUp, vars, app, PreflightStaysOut, TypeOK
<1>2. ASSUME NEW r \in Requests,
             Receive(r) \/ AnswerPreflight(r) \/ PassOn(r) \/ EnterContext(r) \/
             RouteReturns(r) \/ RouteProblem(r) \/ RouteRaises(r) \/
             AddSecurityHeaders(r) \/ Count(r) \/ LeaveContext(r) \/
             LeaveContextRaising(r) \/ HandleUnexpected(r) \/ AddCorsHeaders(r)
             \/ CommitFails(r)
      PROVE  PreflightStaysOut'
  BY <1>2 DEF IInv, Receive, AnswerPreflight, PassOn, EnterContext, RouteReturns,
      RouteProblem, RouteRaises, AddSecurityHeaders, Count, LeaveContext,
      LeaveContextRaising, HandleUnexpected, AddCorsHeaders, CommitFails, app, Goto,
      WithCors, SetRequestId, Problem, Counted, ResetRequestId, Log, PreflightStaysOut,
      TypeOK
<1> QED
  BY <1>1, <1>2 DEF Next

(* Each layer adds its part to an answer that has all the parts before it. *)
LEMMA ResponsesKept ==
    ASSUME IInv, [Next]_vars
    PROVE  ResponsesInPlace'
<1>1. CASE StartUp
  BY <1>1 DEF IInv, StartUp, ResponsesInPlace, NothingYet, OnTheWayOut, Delivered, Answer,
      RequestId
<1>U. CASE UNCHANGED vars
  BY <1>U DEF IInv, vars, ResponsesInPlace, NothingYet, OnTheWayOut, Delivered, Answer,
      RequestId
<1>2. ASSUME NEW r \in Requests, AnswerPreflight(r) PROVE ResponsesInPlace'
  BY <1>2 DEF IInv, AnswerPreflight, app, Goto, WithCors, ResponsesInPlace, NothingYet,
      OnTheWayOut, Delivered, Answer, IdsInPlace, PreflightStaysOut, TypeOK, Inside,
      RequestId, NoResponse, Responses
<1>3. ASSUME NEW r \in Requests, EnterContext(r) PROVE ResponsesInPlace'
  BY <1>3 DEF IInv, EnterContext, app, Goto, SetRequestId, ResponsesInPlace, NothingYet,
      OnTheWayOut, Delivered, Answer, IdsInPlace, PreflightStaysOut, TypeOK, Inside,
      RequestId, NoResponse, Responses
<1>4. ASSUME NEW r \in Requests, RouteReturns(r) PROVE ResponsesInPlace'
  BY <1>4 DEF IInv, RouteReturns, app, Goto, ResponsesInPlace, NothingYet, OnTheWayOut,
      Delivered, Answer, IdsInPlace, PreflightStaysOut, TypeOK, Inside, RequestId,
      NoResponse, Responses
<1>5. ASSUME NEW r \in Requests, RouteProblem(r) PROVE ResponsesInPlace'
  BY <1>5 DEF IInv, RouteProblem, app, Goto, Problem, ResponsesInPlace, NothingYet,
      OnTheWayOut, Delivered, Answer, IdsInPlace, PreflightStaysOut, TypeOK, Inside,
      RequestId, NoResponse, Responses
<1>6. ASSUME NEW r \in Requests, AddSecurityHeaders(r) PROVE ResponsesInPlace'
  BY <1>6 DEF IInv, AddSecurityHeaders, app, Goto, ResponsesInPlace, NothingYet,
      OnTheWayOut, Delivered, Answer, IdsInPlace, PreflightStaysOut, TypeOK, Inside,
      RequestId, NoResponse, Responses
<1>7. ASSUME NEW r \in Requests, Count(r) PROVE ResponsesInPlace'
  BY <1>7 DEF IInv, Count, app, Goto, Counted, ResponsesInPlace, NothingYet,
      OnTheWayOut, Delivered, Answer, IdsInPlace, PreflightStaysOut, TypeOK, Inside,
      RequestId, NoResponse, Responses
<1>8. ASSUME NEW r \in Requests, LeaveContext(r) PROVE ResponsesInPlace'
  BY <1>8 DEF IInv, LeaveContext, app, Goto, ResetRequestId, Log, ResponsesInPlace,
      NothingYet, OnTheWayOut, Delivered, Answer, IdsInPlace, PreflightStaysOut,
      TypeOK, Inside, RequestId, NoResponse, Responses
<1>9. ASSUME NEW r \in Requests, LeaveContextRaising(r) PROVE ResponsesInPlace'
  BY <1>9 DEF IInv, LeaveContextRaising, app, Goto, ResetRequestId, Log,
      ResponsesInPlace, NothingYet, OnTheWayOut, Delivered, Answer, IdsInPlace,
      PreflightStaysOut, TypeOK, Inside, RequestId, NoResponse, Responses
<1>10. ASSUME NEW r \in Requests, HandleUnexpected(r) PROVE ResponsesInPlace'
  BY <1>10 DEF IInv, HandleUnexpected, app, Goto, Log, Problem, ResponsesInPlace,
      NothingYet, OnTheWayOut, Delivered, Answer, IdsInPlace, PreflightStaysOut,
      TypeOK, Inside, RequestId, NoResponse, Responses
<1>11. ASSUME NEW r \in Requests, AddCorsHeaders(r) PROVE ResponsesInPlace'
  BY <1>11 DEF IInv, AddCorsHeaders, app, Goto, WithCors, ResponsesInPlace, NothingYet,
      OnTheWayOut, Delivered, Answer, IdsInPlace, PreflightStaysOut, TypeOK, Inside,
      RequestId, NoResponse, Responses
<1>12. ASSUME NEW r \in Requests, CommitFails(r) PROVE ResponsesInPlace'
  BY <1>12 DEF IInv, CommitFails, app, Goto, Log, ResponsesInPlace, NothingYet,
      OnTheWayOut, Delivered, Answer, IdsInPlace, PreflightStaysOut, TypeOK, Inside,
      RequestId, NoResponse, Responses
<1>13. ASSUME NEW r \in Requests, Receive(r) PROVE ResponsesInPlace'
  BY <1>13 DEF IInv, Receive, app, Goto, ResponsesInPlace, NothingYet, OnTheWayOut,
      Delivered, Answer, PreflightStaysOut, TypeOK, RequestId
<1>14. ASSUME NEW r \in Requests, PassOn(r) PROVE ResponsesInPlace'
  BY <1>14 DEF IInv, PassOn, app, Goto, ResponsesInPlace, NothingYet, OnTheWayOut,
      Delivered, Answer, PreflightStaysOut, TypeOK, RequestId
<1>15. ASSUME NEW r \in Requests, RouteRaises(r) PROVE ResponsesInPlace'
  BY <1>15 DEF IInv, RouteRaises, app, Goto, ResponsesInPlace, NothingYet, OnTheWayOut,
      Delivered, Answer, PreflightStaysOut, TypeOK, RequestId
<1> QED
  BY <1>U, <1>1, <1>2, <1>3, <1>4, <1>5, <1>6, <1>7, <1>8, <1>9, <1>10, <1>11, <1>12, <1>13,
      <1>14, <1>15 DEF Next

(* With credentials there is no wildcard, so only a listed origin is named. *)
LEMMA OnlyListedNamed ==
    ASSUME NEW s, NEW o, NEW cookie, Accepts(s), s.credentials
    PROVE  /\ PreflightOrigin(s, o) \in Origins => Entry(PreflightOrigin(s, o)) \in CorsOrigins(s)
           /\ SimpleOrigin(s, o, cookie) \in Origins
                => Entry(SimpleOrigin(s, o, cookie)) \in CorsOrigins(s)
BY PipelineAssumption DEF Accepts, RefusesWildcard, PreflightOrigin, SimpleOrigin, IsAllowed, AllowAll

(* CORSMiddleware names the origin; the handlers start from a response     *)
(* that names none.                                                        *)
LEMMA CredentialsKept ==
    ASSUME IInv, [Next]_vars
    PROVE  CredentialsOnlyForListed'
<1> USE DEF CredentialsOnlyForListed
<1>1. CASE StartUp \/ UNCHANGED vars
  BY <1>1 DEF IInv, StartUp, vars, app
<1>2. ASSUME NEW r \in Requests, AnswerPreflight(r) PROVE CredentialsOnlyForListed'
  <2> DEFINE origin == PreflightOrigin(settings, request[r].origin)
  <2>1. Accepts(settings)
    BY <1>2 DEF IInv, ServesAccepted, AnswerPreflight
  <2>2. settings.credentials /\ origin \in Origins => Entry(origin) \in CorsOrigins(settings)
    BY <2>1, OnlyListedNamed
  <2>3. /\ response'[r].allowOrigin = origin
        /\ response'[r].allowCredentials = settings.credentials
    BY <1>2 DEF IInv, TypeOK, AnswerPreflight, WithCors, Responses
  <2> HIDE DEF origin
  <2> QED
    BY <1>2, <2>2, <2>3 DEF IInv, TypeOK, AnswerPreflight, app
<1>3. ASSUME NEW r \in Requests, AddCorsHeaders(r) PROVE CredentialsOnlyForListed'
  <2> DEFINE origin == SimpleOrigin(settings, request[r].origin, request[r].cookie)
  <2>1. Accepts(settings)
    BY <1>3 DEF IInv, ServesAccepted, AddCorsHeaders
  <2>2. settings.credentials /\ origin \in Origins => Entry(origin) \in CorsOrigins(settings)
    BY <2>1, OnlyListedNamed
  <2>3. CASE request[r].origin = NoOrigin
    BY <1>3, <2>3 DEF IInv, AddCorsHeaders, app
  <2>4. CASE request[r].origin # NoOrigin
    <3>1. /\ response'[r].allowOrigin = origin
          /\ response'[r].allowCredentials = settings.credentials
      BY <1>3, <2>4 DEF IInv, TypeOK, AddCorsHeaders, WithCors, Responses
    <3> HIDE DEF origin
    <3> QED
      BY <1>3, <2>2, <2>4, <3>1 DEF IInv, TypeOK, AddCorsHeaders, app
  <2> QED
    BY <2>3, <2>4
<1>4. ASSUME NEW r \in Requests, RouteProblem(r) \/ HandleUnexpected(r)
      PROVE  CredentialsOnlyForListed'
  <2>1. /\ response'[r].allowOrigin = NoOrigin
        /\ \A q \in Requests \ {r} : response'[q] = response[q]
        /\ settings' = settings
    BY <1>4 DEF IInv, TypeOK, RouteProblem, HandleUnexpected, app, Problem, NoResponse
  <2> QED
    BY <2>1, PipelineAssumption DEF IInv
<1>5. ASSUME NEW r \in Requests,
             RouteReturns(r) \/ AddSecurityHeaders(r) \/ LeaveContext(r)
      PROVE  CredentialsOnlyForListed'
  <2>1. /\ \A q \in Requests :
             /\ response'[q].allowOrigin = response[q].allowOrigin
             /\ response'[q].allowCredentials = response[q].allowCredentials
        /\ settings' = settings
    BY <1>5 DEF IInv, TypeOK, RouteReturns, AddSecurityHeaders, LeaveContext, app, Responses
  <2> QED
    BY <2>1 DEF IInv
<1>6. ASSUME NEW r \in Requests,
             \/ Receive(r) \/ PassOn(r) \/ EnterContext(r) \/ RouteRaises(r) \/ Count(r)
             \/ LeaveContextRaising(r) \/ CommitFails(r)
      PROVE  CredentialsOnlyForListed'
  BY <1>6 DEF IInv, Receive, PassOn, EnterContext, RouteRaises, Count, LeaveContextRaising,
      CommitFails, app
<1> QED
  BY <1>1, <1>2, <1>3, <1>4, <1>5, <1>6 DEF Next

(* The inductive invariant: what each layer may rely on when a request     *)
(* reaches it, whatever the other requests do.                             *)
THEOREM PipelineInvariant == Spec => []IInv
<1>1. Init => IInv
  <2> SUFFICES ASSUME Init PROVE IInv
    OBVIOUS
  <2>1. TypeOK
    BY DEF Init, TypeOK, Places, Responses, NoResponse, Statuses
  <2>2. /\ ServesAccepted
        /\ IdsInPlace
        /\ LinesTraced
        /\ PreflightStaysOut
    BY DEF Init, ServesAccepted, IdsInPlace, Inside, LinesTraced, PreflightStaysOut
  <2>3. ResponsesInPlace /\ CredentialsOnlyForListed
    BY PipelineAssumption DEF Init, ResponsesInPlace, NothingYet, OnTheWayOut, Delivered,
        NoResponse, CredentialsOnlyForListed
  <2> QED
    BY <2>1, <2>2, <2>3 DEF IInv
<1>2. IInv /\ [Next]_vars => IInv'
  BY TypesKept, AcceptedKept, IdsKept, LinesKept, PreflightsKept, ResponsesKept,
      CredentialsKept DEF IInv
<1> QED
  BY <1>1, <1>2, PTL DEF Spec

(* The variables keep their types. *)
THEOREM PipelineTypeCorrect == Spec => []TypeOK
<1>1. IInv => TypeOK
  BY DEF IInv
<1> QED
  BY <1>1, PipelineInvariant, PTL

(* However many requests overlap, a response and a log line name their own *)
(* request or none, and the answer of a route is complete when it leaves   *)
(* (RequestContextMiddleware.dispatch, _problem, _add_request_id).         *)
THEOREM AnswersAreTraced == Spec => []TracedToOwnRequest
<1>1. IInv => TracedToOwnRequest
  BY DEF IInv, TracedToOwnRequest, LinesTraced, ResponsesInPlace, NothingYet, OnTheWayOut,
      Delivered, Answer, NoResponse, Sent, TypeOK, Places
<1> QED
  BY <1>1, PipelineInvariant, PTL

(* No settings with which the application starts let a page of an unlisted *)
(* origin read an answer given with credentials (_split_list,              *)
(* _refuse_wildcard_cors_with_credentials, create_app).                    *)
THEOREM CredentialsStayListed == Spec => []CredentialsOnlyForListed
<1>1. IInv => CredentialsOnlyForListed
  BY DEF IInv
<1> QED
  BY <1>1, PipelineInvariant, PTL

=============================================================================
