----------------------------- MODULE Validators -----------------------------
(***************************************************************************)
(* The generated Validate methods of src/gen-go/models and the binary      *)
(* codec of JobAttempt.  A validator returns nil or an error; here it      *)
(* returns <<>> or <<err>>, so that a composite Validate, which runs every *)
(* field validator and collects the failures with res = append(res, err),  *)
(* is the concatenation of its field validators' results.  An error is    *)
(* abstracted to the field it is about, and for a list to the index of the *)
(* element whose own Validate failed.                                      *)
(*                                                                         *)
(* The nested Validate methods (WorkflowStatus, Manager, State, Job,       *)
(* WorkflowDefinition) are not under src/: a nested value is "nil", or a   *)
(* value whose own Validate passes ("valid") or fails ("invalid").  A Go   *)
(* string enum is "" (swag.IsZero), a member, or a non-member.             *)
(***************************************************************************)
EXTENDS Integers, Sequences

CONSTANTS
    LimitValues,  \* the int64 values a WorkflowQuery's Limit may take
    MaxListLen,   \* the longest list of nested models
    OldAttempts   \* the values a reused JobAttempt receiver may hold


Elem == {"nil", "valid", "invalid"}

Lists == UNION {[1..n -> Elem] : n \in 0..MaxListLen}

\* WorkflowQuery: Limit int64, Status WorkflowStatus, and the required
\* *string WorkflowDefinitionName, which may be nil, point to "" or be set.
Queries == [limit : LimitValues, status : {"", "member", "other"},
            name : {"nil", "empty", "set"}]

NewWorkflowDefinitionRequests == [manager : {"", "member", "other"}, states : Lists]

Workflows == [tasks : Lists, workflowDefinition : Elem]

(***************************************************************************)
(* JobAttempt and its seven fields.  The strings and the int64 carry       *)
(* omitempty; the three strfmt.DateTime fields are structs, which          *)
(* encoding/json writes whatever omitempty says.  A DateTime is the zero   *)
(* time, an instant at a whole millisecond ("ms"), or that instant plus a  *)
(* sub-millisecond part ("sub").                                           *)
(***************************************************************************)
OmitEmptyFields == {"containerInstanceARN", "exitCode", "reason", "taskARN"}
TimeFields == {"createdAt", "startedAt", "stoppedAt"}
AttemptFields == OmitEmptyFields \cup TimeFields
DateTimes == {"zero", "ms", "sub"}
Zero == [containerInstanceARN |-> "", createdAt |-> "zero", exitCode |-> 0,
         reason |-> "", startedAt |-> "zero", stoppedAt |-> "zero",
         taskARN |-> ""]
Attempts == [containerInstanceARN : {"", "c"}, createdAt : DateTimes,
             exitCode : {0, 1}, reason : {"", "r"}, startedAt : DateTimes,
             stoppedAt : DateTimes, taskARN : {"", "t"}]

ASSUME BoundsAssumption ==
    /\ LimitValues \subseteq Int
    /\ MaxListLen \in Nat
    /\ OldAttempts \subseteq Attempts

VARIABLE call  \* the last call: the method, its receiver and what it returned

vars == <<call>>

FieldError(f) == <<[field |-> f, at |-> 0]>>

-----------------------------------------------------------------------------
\* Mutant: the Maximum checked as exclusive.
validateLimitExclusive(q) ==
    IF q.limit = 0 \/ q.limit < 10000 THEN <<>> ELSE FieldError("limit")

\* validate.MaximumInt("limit", "body", int64(m.Limit), 10000, false),
\* skipped when the limit is zero.
validateLimit(q) ==
    IF q.limit = 0 \/ q.limit <= 10000 THEN <<>> ELSE FieldError("limit")

validateStatus(q) ==
    IF q.status \in {"", "member"} THEN <<>> ELSE FieldError("status")

\* validate.Required on a *string fails only for the nil pointer.
validateWorkflowDefinitionName(q) ==
    IF q.name = "nil" THEN FieldError("workflowDefinitionName") ELSE <<>>

\* Mutant: the composite returning the first failure only.
WorkflowQueryValidateFirst(q) ==
    LET all == validateLimit(q) \o validateStatus(q)
                 \o validateWorkflowDefinitionName(q)
    IN  IF all = <<>> THEN <<>> ELSE <<Head(all)>>

WorkflowQueryValidate(q) ==
    validateLimit(q) \o validateStatus(q) \o validateWorkflowDefinitionName(q)

\* Mutant: the nil check dropped; Validate on a nil element panics.
validateListNoNilCheck(f, list) ==
    IF \E i \in DOMAIN list : list[i] = "nil" THEN <<[field |-> "panic", at |-> 0]>>
    ELSE LET bad == {i \in DOMAIN list : list[i] = "invalid"}
         IN  IF bad = {} THEN <<>>
             ELSE <<[field |-> f, at |-> CHOOSE i \in bad : \A j \in bad : i <= j]>>

(***************************************************************************)
(* The loop of validateStates / validateTasks: zero and nil elements are   *)
(* skipped, and the first element whose Validate fails is returned at     *)
(* once, the later ones unvisited.                                         *)
(***************************************************************************)
validateList(f, list) ==
    LET bad == {i \in DOMAIN list : list[i] = "invalid"}
    IN  IF bad = {} THEN <<>>
        ELSE <<[field |-> f, at |-> CHOOSE i \in bad : \A j \in bad : i <= j]>>

validateManager(r) ==
    IF r.manager \in {"", "member"} THEN <<>> ELSE FieldError("manager")

validateStates(r) == validateList("states", r.states)

NewWorkflowDefinitionRequestValidate(r) ==
    validateManager(r) \o validateStates(r)

validateWorkflowDefinition(w) ==
    IF w.workflowDefinition = "invalid" THEN FieldError("workflowDefinition")
    ELSE <<>>

validateTasks(w) == validateList("tasks", w.tasks)

WorkflowValidate(w) ==
    validateTasks(w) \o validateWorkflowDefinition(w)

-----------------------------------------------------------------------------
\* strfmt.DateTime.MarshalJSON formats as RFC3339Millis: the sub-millisecond
\* part is dropped, and parsing the text back gives the truncated instant.
FormatMillis(t) == IF t = "sub" THEN "ms" ELSE t

\* swag.WriteJSON: the omitempty fields that are non-zero, and every
\* timestamp, as the JSON object's members by name.
MarshalBinary(a) ==
    [f \in {g \in OmitEmptyFields : a[g] # Zero[g]} \cup TimeFields |->
        IF f \in TimeFields THEN FormatMillis(a[f]) ELSE a[f]]

\* Mutant: json.Unmarshal straight into *m, keeping the fields the JSON omits.
UnmarshalBinaryInPlace(m, b) ==
    [f \in AttemptFields |-> IF f \in DOMAIN b THEN b[f] ELSE m[f]]

\* var res JobAttempt; swag.ReadJSON(b, &res); *m = res.
UnmarshalBinary(m, b) ==
    [f \in AttemptFields |-> IF f \in DOMAIN b THEN b[f] ELSE Zero[f]]

-----------------------------------------------------------------------------
Init == call = [method |-> "none"]

Returns(method, in, errs) ==
    /\ call.method = "none"
    /\ call' = [method |-> method, in |-> in, errs |-> errs]

WorkflowQueryValidateCall ==
    \E q \in Queries : Returns("WorkflowQuery", q, WorkflowQueryValidate(q))

NewWorkflowDefinitionRequestValidateCall ==
    \E r \in NewWorkflowDefinitionRequests :
        Returns("NewWorkflowDefinitionRequest", r,
                NewWorkflowDefinitionRequestValidate(r))

WorkflowValidateCall ==
    \E w \in Workflows : Returns("Workflow", w, WorkflowValidate(w))

\* JobAttempt and ResolvedByUserWrapper declare no constraint: res stays
\* empty and Validate returns nil.
JobAttemptValidateCall ==
    \E a \in Attempts : Returns("JobAttempt", a, <<>>)

ResolvedByUserWrapperValidateCall ==
    \E isSet, value \in BOOLEAN :
        Returns("ResolvedByUserWrapper", [isSet |-> isSet, value |-> value], <<>>)

\* A non-nil attempt is marshalled and decoded into a JobAttempt m that
\* already holds an older value.
RoundTripCall ==
    \E a \in Attempts, m \in OldAttempts :
        /\ call.method = "none"
        /\ call' = [method |-> "RoundTrip", in |-> a, old |-> m,
                    out |-> UnmarshalBinary(m, MarshalBinary(a))]

Next ==
    \/ WorkflowQueryValidateCall
    \/ NewWorkflowDefinitionRequestValidateCall
    \/ WorkflowValidateCall
    \/ JobAttemptValidateCall
    \/ ResolvedByUserWrapperValidateCall
    \/ RoundTripCall

Spec == Init /\ [][Next]_vars


-----------------------------------------------------------------------------
\* The methods that check a schema.
Checked == {"WorkflowQuery", "NewWorkflowDefinitionRequest", "Workflow",
            "JobAttempt", "ResolvedByUserWrapper"}

\* The position of each field in its struct, the order Validate checks them.
FieldOrder ==
    [limit |-> 1, status |-> 2, workflowDefinitionName |-> 3, manager |-> 1,
     states |-> 2, tasks |-> 1, workflowDefinition |-> 2]

Errors == Seq([field : DOMAIN FieldOrder, at : 0..MaxListLen])

TypeOK ==
    \/ call = [method |-> "none"]
    \/ call.method \in Checked /\ call.errs \in Errors
    \/ /\ call.method = "RoundTrip"
       /\ call.in \in Attempts /\ call.old \in Attempts /\ call.out \in Attempts

(***************************************************************************)
(* The reference: the fields whose schema constraint the receiver breaks,  *)
(* read from the swagger annotations of the structs: an omitempty field    *)
(* at its zero value is absent; Limit has Maximum: 10000; Status and       *)
(* Manager are enums; WorkflowDefinitionName is Required; a nested model,  *)
(* and every element of a list of them, must itself be valid.              *)
(***************************************************************************)
Violated(c) ==
    CASE c.method = "WorkflowQuery" ->
           {f \in {"limit", "status", "workflowDefinitionName"} :
              \/ f = "limit" /\ c.in.limit # 0 /\ c.in.limit > 10000
              \/ f = "status" /\ c.in.status = "other"
              \/ f = "workflowDefinitionName" /\ c.in.name = "nil"}
      [] c.method = "NewWorkflowDefinitionRequest" ->
           {f \in {"manager", "states"} :
              \/ f = "manager" /\ c.in.manager = "other"
              \/ f = "states" /\ \E i \in DOMAIN c.in.states : c.in.states[i] = "invalid"}
      [] c.method = "Workflow" ->
           {f \in {"tasks", "workflowDefinition"} :
              \/ f = "tasks" /\ \E i \in DOMAIN c.in.tasks : c.in.tasks[i] = "invalid"
              \/ f = "workflowDefinition" /\ c.in.workflowDefinition = "invalid"}
      [] OTHER -> {}

(***************************************************************************)
(* Validate accepts a receiver exactly when it meets its schema: it        *)
(* rejects a limit of 10001 and accepts 10000, accepts 0 as an absent      *)
(* limit and a pointer to "" as a present name, and rejects an invalid     *)
(* element wherever it sits in a list, after nil elements included.       *)
(***************************************************************************)
AcceptsExactlySchema ==
    call.method \in Checked => (call.errs = <<>> <=> Violated(call) = {})

(***************************************************************************)
(* The composite error of a Validate names every violated field, once      *)
(* each, in the order of the struct; a field validator's failure never     *)
(* hides another's.  For a list the one element it names is an invalid    *)
(* one (the loop returns at the first, so later invalid elements go        *)
(* unreported).                                                            *)
(***************************************************************************)
ReportsEachViolatedField ==
    call.method \in Checked =>
        LET e == call.errs IN
        /\ {e[i].field : i \in DOMAIN e} = Violated(call)
        /\ \A i, j \in DOMAIN e : i < j => FieldOrder[e[i].field] < FieldOrder[e[j].field]
        /\ \A i \in DOMAIN e : e[i].at # 0 =>
              call.in[e[i].field][e[i].at] = "invalid"

(***************************************************************************)
(* UnmarshalBinary of MarshalBinary returns the attempt that was written,  *)
(* its timestamps cut to the millisecond, even into a JobAttempt that held *)
(* another value: the fields omitempty left out of the JSON come back as   *)
(* zero, not as the receiver's stale values.                               *)
(***************************************************************************)
DecodeReplaces ==
    call.method = "RoundTrip" =>
        /\ \A f \in AttemptFields \ TimeFields : call.out[f] = call.in[f]
        /\ \A f \in TimeFields :
              call.out[f] = IF call.in[f] = "sub" THEN "ms" ELSE call.in[f]

=============================================================================
