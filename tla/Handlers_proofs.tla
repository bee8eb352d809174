--------------------------- MODULE Handlers_proofs ---------------------------
(***************************************************************************)
(* Proofs about the generated HTTP handlers: for every operation, request  *)
(* and controller result, the status written is one valid HTTP status,     *)
(* the error body has the type that status stands for, and a list         *)
(* operation never answers null.                                           *)
(***************************************************************************)
EXTENDS Handlers, TLAPS

\* Every status switch gives BadRequest 400 and InternalError 500.
LEMMA ErrorCases ==
    ASSUME NEW op \in Ops
    PROVE  /\ StatusCodeFor(op, "BadRequest") = 400
           /\ StatusCodeFor(op, "InternalError") = 500
BY DEF Ops, StatusCodeFor, StatusTable, statusCodeForHealthCheck,
       statusCodeForGetJobsForWorkflow, statusCodeForStartJobForWorkflow,
       statusCodeForCancelJob, statusCodeForGetJob,
       statusCodeForPostStateResource, statusCodeForGetStateResource,
       statusCodeForPutStateResource, statusCodeForGetWorkflows,
       statusCodeForNewWorkflow, statusCodeForGetWorkflowVersionsByName,
       statusCodeForUpdateWorkflow, statusCodeForGetWorkflowByNameAndVersion

\* The success and models error types a switch can name.
SwitchTypes == {"Jobs", "Job", "StateResource", "Workflows", "Workflow"}
               \cup ModelErrors

\* Each switch names only those types, maps them to valid statuses, and
\* names the success type of its own operation.
LEMMA TableShape ==
    ASSUME NEW op \in Ops
    PROVE  /\ DOMAIN StatusTable[op] \subseteq SwitchTypes
           /\ \A x \in DOMAIN StatusTable[op] : StatusTable[op][x] \in 100..599
           /\ SuccessType[op] # "none" => SuccessType[op] \in DOMAIN StatusTable[op]
<1>1. CASE op = "HealthCheck"
  BY <1>1 DEF StatusTable, statusCodeForHealthCheck, SuccessType, SwitchTypes, ModelErrors
<1>2. CASE op = "GetJobsForWorkflow"
  BY <1>2 DEF StatusTable, statusCodeForGetJobsForWorkflow, SuccessType, SwitchTypes, ModelErrors
<1>3. CASE op = "StartJobForWorkflow"
  BY <1>3 DEF StatusTable, statusCodeForStartJobForWorkflow, SuccessType, SwitchTypes, ModelErrors
<1>4. CASE op = "CancelJob"
  BY <1>4 DEF StatusTable, statusCodeForCancelJob, SuccessType, SwitchTypes, ModelErrors
<1>5. CASE op = "GetJob"
  BY <1>5 DEF StatusTable, statusCodeForGetJob, SuccessType, SwitchTypes, ModelErrors
<1>6. CASE op = "PostStateResource"
  BY <1>6 DEF StatusTable, statusCodeForPostStateResource, SuccessType, SwitchTypes, ModelErrors
<1>7. CASE op = "GetStateResource"
  BY <1>7 DEF StatusTable, statusCodeForGetStateResource, SuccessType, SwitchTypes, ModelErrors
<1>8. CASE op = "PutStateResource"
  BY <1>8 DEF StatusTable, statusCodeForPutStateResource, SuccessType, SwitchTypes, ModelErrors
<1>9. CASE op = "GetWorkflows"
  BY <1>9 DEF StatusTable, statusCodeForGetWorkflows, SuccessType, SwitchTypes, ModelErrors
<1>10. CASE op = "NewWorkflow"
  BY <1>10 DEF StatusTable, statusCodeForNewWorkflow, SuccessType, SwitchTypes, ModelErrors
<1>11. CASE op = "GetWorkflowVersionsByName"
  BY <1>11 DEF StatusTable, statusCodeForGetWorkflowVersionsByName, SuccessType, SwitchTypes, ModelErrors
<1>12. CASE op = "UpdateWorkflow"
  BY <1>12 DEF StatusTable, statusCodeForUpdateWorkflow, SuccessType, SwitchTypes, ModelErrors
<1>13. CASE op = "GetWorkflowByNameAndVersion"
  BY <1>13 DEF StatusTable, statusCodeForGetWorkflowByNameAndVersion, SuccessType, SwitchTypes, ModelErrors
<1>14. QED BY <1>1, <1>2, <1>3, <1>4, <1>5, <1>6, <1>7, <1>8, <1>9, <1>10, <1>11, <1>12, <1>13 DEF Ops

\* A switch answers -1 or a valid status, and -1 for a controller error
\* that is not a models error.
LEMMA SwitchRange ==
    ASSUME NEW op \in Ops, NEW t
    PROVE  /\ StatusCodeFor(op, t) \in {-1} \cup 100..599
           /\ t \in CtrlErrors \ ModelErrors => StatusCodeFor(op, t) = -1
BY TableShape DEF StatusCodeFor, SwitchTypes, CtrlErrors, ModelErrors

\* Every operation's success type is in its own switch.
LEMMA SuccessCase ==
    ASSUME NEW op \in Ops
    PROVE  SuccessStatus(op) \in 100..599
<1>1. CASE SuccessType[op] = "none"
  BY <1>1 DEF SuccessStatus
<1>2. CASE SuccessType[op] # "none"
  <2> DEFINE s == SuccessType[op]
  <2>1. s \in DOMAIN StatusTable[op] /\ StatusTable[op][s] \in 100..599
    BY <1>2, TableShape
  <2>2. SuccessStatus(op) = StatusTable[op][s]
    BY <1>2, <2>1 DEF SuccessStatus, StatusCodeFor
  <2>3. QED BY <2>1, <2>2
<1>3. QED BY <1>1, <1>2

-----------------------------------------------------------------------------
(***************************************************************************)
(* The inductive invariant: the three response properties and the type     *)
(* invariant, and nothing written before a handler has run.  Each         *)
(* behaviour is one invocation, so the step lemma only has to show that    *)
(* each exit of the handler writes a well-formed response.                 *)
(***************************************************************************)
Unanswered == codes = <<>> /\ body = [kind |-> "none", err |-> "none"]

IInv ==
    /\ TypeOK
    /\ handled.op = "none" => Unanswered
    /\ StatusWellFormed
    /\ ErrorBodyMatchesStatus

LEMMA InitIInv == Init => IInv
BY DEF Init, IInv, Unanswered, TypeOK, Ops, Bodies, StatusWellFormed,
       ErrorBodyMatchesStatus

LEMMA HandleIInv ==
    ASSUME NEW op \in Ops, NEW r \in Requests, NEW cr \in CtrlResults,
           Handle(op, r, cr)
    PROVE  IInv'
<1>1. handled' = [op |-> op, req |-> r, ctrl |-> cr] /\ op # "none"
  BY DEF Handle, Ops
<1>2. (handled.op \in Ops \cup {"none"})'
      /\ (handled.op \in Ops => handled \in [op : Ops, req : Requests, ctrl : CtrlResults])'
  BY <1>1
<1>3. CASE ~InputAccepted(op, r) /\ codes' = <<400>>
           /\ body' = ErrorBody("BadRequest")
  <2>1. StatusCodeFor(op, "BadRequest") = 400
    BY ErrorCases
  <2>2. QED
    BY <1>1, <1>2, <1>3, <2>1
    DEF IInv, TypeOK, Bodies, ModelErrors, ErrorBody, StatusWellFormed,
        ErrorBodyMatchesStatus
<1>4. CASE /\ InputAccepted(op, r) /\ cr.err # "none"
           /\ codes' = <<ErrorStatus(op, cr.err)>>
           /\ body' = ErrorBody(ErrorBodyType(op, cr.err))
  <2> DEFINE t == cr.err
  <2>1. t \in CtrlErrors
    BY DEF CtrlResults
  <2>2. ErrorStatus(op, t) \in 100..599
    BY <2>1, SwitchRange DEF ErrorStatus
  <2>3. /\ ErrorBodyType(op, t) \in ModelErrors
        /\ StatusCodeFor(op, ErrorBodyType(op, t)) = ErrorStatus(op, t)
    <3>1. CASE StatusCodeFor(op, t) = -1
      BY <3>1, ErrorCases DEF ErrorBodyType, ErrorStatus, ModelErrors
    <3>2. CASE StatusCodeFor(op, t) # -1
      BY <2>1, <3>2, SwitchRange DEF ErrorBodyType, ErrorStatus, CtrlErrors
    <3>3. QED BY <3>1, <3>2
  <2>4. QED
    BY <1>1, <1>2, <1>4, <2>2, <2>3
    DEF IInv, TypeOK, Bodies, ErrorBody, StatusWellFormed,
        ErrorBodyMatchesStatus
<1>5. CASE /\ InputAccepted(op, r) /\ cr.err = "none"
           /\ codes' = <<SuccessStatus(op)>>
           /\ body' = SuccessBody(op, cr.resp)
  <2>1. SuccessStatus(op) \in 100..599
    BY SuccessCase
  <2>2. cr.resp \in {"value", "nil"}
    BY DEF CtrlResults
  <2>3. body' \in Bodies /\ body'.kind # "error"
    BY <1>5, <2>2 DEF SuccessBody, NilToEmpty, ArrayOp, Bodies, ModelErrors
  <2>4. QED
    BY <1>1, <1>2, <1>5, <2>1, <2>3
    DEF IInv, TypeOK, StatusWellFormed, ErrorBodyMatchesStatus
<1>6. QED BY <1>3, <1>4, <1>5 DEF Handle

LEMMA NextIInv == IInv /\ [Next]_vars => IInv'
<1> SUFFICES ASSUME IInv, [Next]_vars PROVE IInv'
  OBVIOUS
<1>1. CASE Next
  BY <1>1, HandleIInv DEF Next, HealthCheckHandler, GetJobsForWorkflowHandler, StartJobForWorkflowHandler, CancelJobHandler, GetJobHandler, PostStateResourceHandler, GetStateResourceHandler, PutStateResourceHandler, GetWorkflowsHandler, NewWorkflowHandler, GetWorkflowVersionsByNameHandler, UpdateWorkflowHandler, GetWorkflowByNameAndVersionHandler, Ops
<1>2. CASE UNCHANGED vars
  BY <1>2 DEF vars, IInv, Unanswered, TypeOK, StatusWellFormed,
     ErrorBodyMatchesStatus
<1>3. QED BY <1>1, <1>2

-----------------------------------------------------------------------------
\* The type invariant of the handlers holds in every reachable state.
THEOREM TypeCorrect == Spec => []TypeOK
<1>1. IInv => TypeOK BY DEF IInv
<1>2. QED BY InitIInv, NextIInv, <1>1, PTL DEF Spec

\* Every handler, on every exit, writes exactly one status and a valid
\* one: the -1 default of the statusCodeFor switches never reaches
\* http.Error or WriteHeader.
THEOREM StatusWellFormedThm == Spec => []StatusWellFormed
<1>1. IInv => StatusWellFormed BY DEF IInv
<1>2. QED BY InitIInv, NextIInv, <1>1, PTL DEF Spec

\* The error body a handler writes has the type its switch gives the
\* status sent: an error the switch does not know goes out as an
\* InternalError under its 500.
THEOREM ErrorBodyMatchesStatusThm == Spec => []ErrorBodyMatchesStatus
<1>1. IInv => ErrorBodyMatchesStatus BY DEF IInv
<1>2. QED BY InitIInv, NextIInv, <1>1, PTL DEF Spec

=============================================================================
