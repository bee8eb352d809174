------------------------------ MODULE Handlers ------------------------------
(***************************************************************************)
(* The generated HTTP layer (src/gen-go/server/handlers.go).  Each         *)
(* <Op>Handler parses its request with new<Op>Input, validates it, calls   *)
(* the controller, maps an error to a status code with statusCodeFor<Op>   *)
(* (falling back to 500 and an InternalError body when the type switch     *)
(* finds nothing), and otherwise writes the marshalled response with the   *)
(* status statusCodeFor<Op> gives its type.  One step of this module is    *)
(* one complete handler invocation: the request, what the controller       *)
(* returned, and what was written to the http.ResponseWriter.              *)
(*                                                                         *)
(* A request is abstracted to whether its path parameters are present and  *)
(* convertible, whether its query parameter is absent, well formed or      *)
(* not, whether its body is empty, decodable JSON or not, and whether the  *)
(* decoded input passes Validate.  The controller (not under src/) may     *)
(* return any value or nil, and no error, a models error type, an error    *)
(* of another type, or a models error wrapped in a go-errors *errors.Error *)
(* (the type whose stack trace the handlers log).                          *)
(***************************************************************************)
EXTENDS Integers, Sequences

Ops == {"HealthCheck", "GetJobsForWorkflow", "StartJobForWorkflow",
        "CancelJob", "GetJob", "PostStateResource", "GetStateResource",
        "PutStateResource", "GetWorkflows", "NewWorkflow",
        "GetWorkflowVersionsByName", "UpdateWorkflow",
        "GetWorkflowByNameAndVersion"}

\* The models error types, and what else a controller error can be.
ModelErrors == {"BadRequest", "InternalError", "NotFound"}
CtrlErrors == {"none", "Other"} \cup ModelErrors
              \cup {"WrappedBadRequest", "WrappedInternalError", "WrappedNotFound"}

Requests == [path : {"ok", "missing", "bad"}, query : {"absent", "ok", "bad"},
             body : {"empty", "ok", "bad"}, valid : BOOLEAN]

CtrlResults == [resp : {"value", "nil"}, err : CtrlErrors]

\* Only models types are ever marshalled into a body.
Bodies == [kind : {"none", "empty", "json", "null", "emptyArray", "error"},
           err : {"none"} \cup ModelErrors]

VARIABLES
    handled,  \* the last invocation: operation, request, controller result
    codes,    \* the status codes written by WriteHeader / http.Error, in order
    body      \* what was written as the response body

vars == <<handled, codes, body>>

-----------------------------------------------------------------------------
(* The type switches statusCodeFor<Op>: success and error type -> status. *)
statusCodeForHealthCheck == [BadRequest |-> 400, InternalError |-> 500]
statusCodeForGetJobsForWorkflow ==
    [Jobs |-> 200, BadRequest |-> 400, InternalError |-> 500, NotFound |-> 404]
statusCodeForStartJobForWorkflow ==
    [BadRequest |-> 400, InternalError |-> 500, Job |-> 200, NotFound |-> 404]
statusCodeForCancelJob ==
    [BadRequest |-> 400, InternalError |-> 500, NotFound |-> 404]
statusCodeForGetJob ==
    [BadRequest |-> 400, InternalError |-> 500, Job |-> 200, NotFound |-> 404]
statusCodeForPostStateResource ==
    [BadRequest |-> 400, InternalError |-> 500, StateResource |-> 201]
statusCodeForGetStateResource ==
    [BadRequest |-> 400, InternalError |-> 500, NotFound |-> 404,
     StateResource |-> 200]
statusCodeForPutStateResource ==
    [BadRequest |-> 400, InternalError |-> 500, StateResource |-> 201]
statusCodeForGetWorkflows ==
    [Workflows |-> 200, BadRequest |-> 400, InternalError |-> 500]
statusCodeForNewWorkflow ==
    [BadRequest |-> 400, InternalError |-> 500, Workflow |-> 201]
statusCodeForGetWorkflowVersionsByName ==
    [Workflows |-> 200, BadRequest |-> 400, InternalError |-> 500,
     NotFound |-> 404]
statusCodeForUpdateWorkflow ==
    [BadRequest |-> 400, InternalError |-> 500, NotFound |-> 404,
     Workflow |-> 201]
statusCodeForGetWorkflowByNameAndVersion ==
    [BadRequest |-> 400, InternalError |-> 500, NotFound |-> 404,
     Workflow |-> 200]

StatusTable ==
    [HealthCheck |-> statusCodeForHealthCheck,
     GetJobsForWorkflow |-> statusCodeForGetJobsForWorkflow,
     StartJobForWorkflow |-> statusCodeForStartJobForWorkflow,
     CancelJob |-> statusCodeForCancelJob,
     GetJob |-> statusCodeForGetJob,
     PostStateResource |-> statusCodeForPostStateResource,
     GetStateResource |-> statusCodeForGetStateResource,
     PutStateResource |-> statusCodeForPutStateResource,
     GetWorkflows |-> statusCodeForGetWorkflows,
     NewWorkflow |-> statusCodeForNewWorkflow,
     GetWorkflowVersionsByName |-> statusCodeForGetWorkflowVersionsByName,
     UpdateWorkflow |-> statusCodeForUpdateWorkflow,
     GetWorkflowByNameAndVersion |-> statusCodeForGetWorkflowByNameAndVersion]

\* statusCodeFor<Op>(obj): the switch on the dynamic type, -1 by default.
\* A wrapped error's dynamic type is *errors.Error, which no case names.
StatusCodeFor(op, t) ==
    IF t \in DOMAIN StatusTable[op] THEN StatusTable[op][t] ELSE -1

-----------------------------------------------------------------------------
(* The input constructors new<Op>Input: does the request parse?           *)
newGetJobsForWorkflowInput(r) == r.query # "absent"
newStartJobForWorkflowInput(r) == r.body # "bad"
newCancelJobInput(r) == r.path # "missing" /\ r.body = "ok"
newGetJobInput(r) == r.path # "missing"
newPostStateResourceInput(r) == r.body # "bad"
newGetStateResourceInput(r) == r.path # "missing"
newPutStateResourceInput(r) == r.path # "missing" /\ r.body # "bad"
newNewWorkflowInput(r) == r.body # "bad"
\* latest defaults to "true" when absent; strconv.ParseBool must accept it.
newGetWorkflowVersionsByNameInput(r) == r.path # "missing" /\ r.query # "bad"
newUpdateWorkflowInput(r) == r.body # "bad" /\ r.path # "missing"
\* version must pass swag.ConvertInt64.
newGetWorkflowByNameAndVersionInput(r) == r.path = "ok"

\* The handlers of HealthCheck and GetWorkflows read no input.
TakesInput(op) == op \notin {"HealthCheck", "GetWorkflows"}

Parses(op, r) ==
    [HealthCheck |-> TRUE, GetWorkflows |-> TRUE,
     GetJobsForWorkflow |-> newGetJobsForWorkflowInput(r),
     StartJobForWorkflow |-> newStartJobForWorkflowInput(r),
     CancelJob |-> newCancelJobInput(r),
     GetJob |-> newGetJobInput(r),
     PostStateResource |-> newPostStateResourceInput(r),
     GetStateResource |-> newGetStateResourceInput(r),
     PutStateResource |-> newPutStateResourceInput(r),
     NewWorkflow |-> newNewWorkflowInput(r),
     GetWorkflowVersionsByName |-> newGetWorkflowVersionsByNameInput(r),
     UpdateWorkflow |-> newUpdateWorkflowInput(r),
     GetWorkflowByNameAndVersion |-> newGetWorkflowByNameAndVersionInput(r)][op]

\* Parse, then input.Validate(): either failure is answered 400 BadRequest.
InputAccepted(op, r) == Parses(op, r) /\ (TakesInput(op) => r.valid)

-----------------------------------------------------------------------------
\* The type of a successful response, "none" for the handlers that answer
\* 200 with an empty body.
SuccessType ==
    [HealthCheck |-> "none", GetJobsForWorkflow |-> "Jobs",
     StartJobForWorkflow |-> "Job", CancelJob |-> "none", GetJob |-> "Job",
     PostStateResource |-> "StateResource",
     GetStateResource |-> "StateResource",
     PutStateResource |-> "StateResource", GetWorkflows |-> "Workflows",
     NewWorkflow |-> "Workflow", GetWorkflowVersionsByName |-> "Workflows",
     UpdateWorkflow |-> "Workflow", GetWorkflowByNameAndVersion |-> "Workflow"]

ArrayOp(op) == SuccessType[op] \in {"Jobs", "Workflows"}

\* "if resp == nil { resp = []... }": nil slices are sent as [].
NilToEmpty(op, resp) == IF ArrayOp(op) /\ resp = "nil" THEN "empty" ELSE resp

\* json.MarshalIndent of the (normalised) response: a nil pointer is "null".
SuccessBody(op, resp) ==
    LET r == NilToEmpty(op, resp) IN
    [kind |-> CASE SuccessType[op] = "none" -> "empty"
                [] r = "empty"               -> "emptyArray"
                [] r = "nil"                 -> "null"
                [] OTHER                     -> "json",
     err |-> "none"]

\* w.WriteHeader(statusCodeFor<Op>(resp)), or 200 when there is no body.
SuccessStatus(op) ==
    IF SuccessType[op] = "none" THEN 200 ELSE StatusCodeFor(op, SuccessType[op])

\* Mutant: the -1 returned for an unknown type used as it is.
ErrorStatusNoFallback(op, t) == StatusCodeFor(op, t)

\* The error branch: statusCodeFor<Op>(err), replaced by 500 when it is -1.
ErrorStatus(op, t) ==
    IF StatusCodeFor(op, t) = -1 THEN 500 ELSE StatusCodeFor(op, t)

\* Mutant: the 500 sent without replacing err by an InternalError.
ErrorBodyTypeKept(op, t) == t

\* The error marshalled into the body: err itself, or the InternalError
\* that replaces it when its type is not in the switch.
ErrorBodyType(op, t) ==
    IF StatusCodeFor(op, t) = -1 THEN "InternalError" ELSE t

ErrorBody(t) == [kind |-> "error", err |-> t]

-----------------------------------------------------------------------------
Init ==
    /\ handled = [op |-> "none"]
    /\ codes = <<>>
    /\ body = [kind |-> "none", err |-> "none"]

(***************************************************************************)
(* One complete invocation of op's handler on request r, the controller    *)
(* returning cr.  The three disjuncts are the handler's three exits: the   *)
(* early returns after a parse or validation failure and after a           *)
(* controller error, and the write of the response.  The marshalling of   *)
(* the response cannot fail for these model types and is not a branch.    *)
(* Invocations share no state in handlers.go (net/http runs each in its   *)
(* own goroutine), so a behaviour is one invocation.                       *)
(***************************************************************************)
Handle(op, r, cr) ==
    /\ handled.op = "none"
    /\ handled' = [op |-> op, req |-> r, ctrl |-> cr]
    /\ \/ /\ ~InputAccepted(op, r)
          /\ codes' = <<400>>
          /\ body' = ErrorBody("BadRequest")
       \/ /\ InputAccepted(op, r)
          /\ cr.err # "none"
          /\ codes' = <<ErrorStatus(op, cr.err)>>
          /\ body' = ErrorBody(ErrorBodyType(op, cr.err))
       \/ /\ InputAccepted(op, r)
          /\ cr.err = "none"
          /\ codes' = <<SuccessStatus(op)>>
          /\ body' = SuccessBody(op, cr.resp)

\* The handlers, one per operation of the API.
HealthCheckHandler == \E r \in Requests, cr \in CtrlResults : Handle("HealthCheck", r, cr)
GetJobsForWorkflowHandler == \E r \in Requests, cr \in CtrlResults : Handle("GetJobsForWorkflow", r, cr)
StartJobForWorkflowHandler == \E r \in Requests, cr \in CtrlResults : Handle("StartJobForWorkflow", r, cr)
CancelJobHandler == \E r \in Requests, cr \in CtrlResults : Handle("CancelJob", r, cr)
GetJobHandler == \E r \in Requests, cr \in CtrlResults : Handle("GetJob", r, cr)
PostStateResourceHandler == \E r \in Requests, cr \in CtrlResults : Handle("PostStateResource", r, cr)
GetStateResourceHandler == \E r \in Requests, cr \in CtrlResults : Handle("GetStateResource", r, cr)
PutStateResourceHandler == \E r \in Requests, cr \in CtrlResults : Handle("PutStateResource", r, cr)
GetWorkflowsHandler == \E r \in Requests, cr \in CtrlResults : Handle("GetWorkflows", r, cr)
NewWorkflowHandler == \E r \in Requests, cr \in CtrlResults : Handle("NewWorkflow", r, cr)
GetWorkflowVersionsByNameHandler == \E r \in Requests, cr \in CtrlResults : Handle("GetWorkflowVersionsByName", r, cr)
UpdateWorkflowHandler == \E r \in Requests, cr \in CtrlResults : Handle("UpdateWorkflow", r, cr)
GetWorkflowByNameAndVersionHandler == \E r \in Requests, cr \in CtrlResults : Handle("GetWorkflowByNameAndVersion", r, cr)

Next ==
    \/ HealthCheckHandler \/ GetJobsForWorkflowHandler
    \/ StartJobForWorkflowHandler \/ CancelJobHandler \/ GetJobHandler
    \/ PostStateResourceHandler \/ GetStateResourceHandler
    \/ PutStateResourceHandler \/ GetWorkflowsHandler \/ NewWorkflowHandler
    \/ GetWorkflowVersionsByNameHandler \/ UpdateWorkflowHandler
    \/ GetWorkflowByNameAndVersionHandler

Spec == Init /\ [][Next]_vars

-----------------------------------------------------------------------------
TypeOK ==
    /\ handled.op \in Ops \cup {"none"}
    /\ handled.op \in Ops => handled \in [op : Ops, req : Requests, ctrl : CtrlResults]
    /\ codes \in Seq(Int)
    /\ body \in Bodies

\* The request was answered and its input accepted.
Accepted == handled.op \in Ops /\ InputAccepted(handled.op, handled.req)

(***************************************************************************)
(* Every answered request carries exactly one status, and it is a valid    *)
(* HTTP status: WriteHeader panics on -1, the default of every             *)
(* statusCodeFor<Op> switch, so a type the switch misses must never reach  *)
(* it, on the error path or on the success path.                           *)
(***************************************************************************)
StatusWellFormed ==
    handled.op \in Ops => Len(codes) = 1 /\ codes[1] \in 100..599

(***************************************************************************)
(* The status and the error body agree: a client decoding an error body    *)
(* by the status it received (400 BadRequest, 404 NotFound, 500            *)
(* InternalError) finds the type the operation's switch gives that status. *)
(* An error the switch does not know must be replaced by an InternalError, *)
(* not sent as it is under a 500.                                          *)
(***************************************************************************)
ErrorBodyMatchesStatus ==
    body.kind = "error" => StatusCodeFor(handled.op, body.err) = codes[1]

(***************************************************************************)
(* Spec section 7: a NotFound from the controller is surfaced to the       *)
(* caller as not-found (404) by every operation whose API declares it,     *)
(* whether the controller returns it as is or wrapped in a go-errors       *)
(* *errors.Error, the wrapper whose stack trace the handlers log.          *)
(***************************************************************************)
NotFoundSurfaced ==
    (/\ Accepted
     /\ "NotFound" \in DOMAIN StatusTable[handled.op]
     /\ handled.ctrl.err \in {"NotFound", "WrappedNotFound"})
    => codes[1] = 404

=============================================================================
