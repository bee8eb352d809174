-------------------------- MODULE Validators_proofs --------------------------
(***************************************************************************)
(* Proofs about the generated Validate methods and the JobAttempt codec,   *)
(* for every set of int64 limits and every list length: each call returns *)
(* a well-formed error list that is empty exactly when the receiver meets  *)
(* its schema and names each violated field once, in struct order, and a   *)
(* JobAttempt survives a round trip into a receiver that held another.     *)
(***************************************************************************)
EXTENDS Validators, NatLemmas, SequenceTheorems

\* The invariant: the four properties the validators run checks.
Inv == TypeOK /\ AcceptsExactlySchema /\ ReportsEachViolatedField /\ DecodeReplaces

\* A list of nested models is a function on 1..n for some n <= MaxListLen.
LEMMA ListShape ==
    ASSUME NEW list \in Lists
    PROVE  \E n \in 0..MaxListLen : /\ DOMAIN list = 1..n
                                   /\ \A i \in 1..n : list[i] \in Elem
BY BoundsAssumption DEF Lists

(***************************************************************************)
(* The element validateStates and validateTasks report: the least index    *)
(* of an invalid element, which exists whenever one is invalid.            *)
(***************************************************************************)
LEMMA FirstInvalid ==
    ASSUME NEW list \in Lists
    PROVE  LET bad == {i \in DOMAIN list : list[i] = "invalid"}
               first == CHOOSE i \in bad : \A j \in bad : i <= j
           IN  bad # {} => /\ first \in 1..MaxListLen
                           /\ list[first] = "invalid"
<1> DEFINE bad == {i \in DOMAIN list : list[i] = "invalid"}
<1>1. PICK n \in 0..MaxListLen : DOMAIN list = 1..n
  BY ListShape
<1>2. bad \in SUBSET Nat /\ bad \subseteq 1..MaxListLen
  BY <1>1, BoundsAssumption
<1>3. ASSUME bad # {} PROVE \E i \in bad : \A j \in bad : i <= j
  BY <1>2, <1>3, NatMin
<1>4. QED BY <1>2, <1>3

\* Concatenating the results of field validators: at most one error each.
LEMMA CatPieces ==
    ASSUME NEW S, NEW x \in S, NEW y \in S, NEW z \in S
    PROVE  /\ << >> \o << >> = << >>
           /\ <<x>> \o << >> = <<x>>
           /\ << >> \o <<x>> = <<x>>
           /\ <<x>> \o <<y>> = <<x, y>>
           /\ <<x, y>> \o << >> = <<x, y>>
           /\ <<x, y>> \o <<z>> = <<x, y, z>>
<1>1. /\ << >> \in Seq(S) /\ <<x>> \in Seq(S) /\ <<y>> \in Seq(S)
      /\ <<z>> \in Seq(S) /\ <<x, y>> \in Seq(S)
  OBVIOUS
<1>2. << >> \o << >> = << >> /\ <<x>> \o << >> = <<x>> /\ << >> \o <<x>> = <<x>>
      /\ <<x, y>> \o << >> = <<x, y>>
  BY <1>1, ConcatEmptySeq
<1>3. <<x>> \o <<y>> = <<x, y>>
  <2>1. /\ <<x>> \o <<y>> \in Seq(S)
        /\ Len(<<x>> \o <<y>>) = 2
        /\ (<<x>> \o <<y>>)[1] = x /\ (<<x>> \o <<y>>)[2] = y
    BY <1>1, ConcatProperties
  <2>2. <<x, y>> \in Seq(S) /\ Len(<<x, y>>) = 2 /\ <<x, y>>[1] = x /\ <<x, y>>[2] = y
    OBVIOUS
  <2>3. \A i \in 1..Len(<<x>> \o <<y>>) : (<<x>> \o <<y>>)[i] = <<x, y>>[i]
    BY <2>1, <2>2
  <2>4. QED BY <2>1, <2>2, <2>3, SeqEqual, Zenon
<1>4. <<x, y>> \o <<z>> = <<x, y, z>>
  <2>1. /\ <<x, y>> \o <<z>> \in Seq(S)
        /\ Len(<<x, y>> \o <<z>>) = 3
        /\ (<<x, y>> \o <<z>>)[1] = x /\ (<<x, y>> \o <<z>>)[2] = y
        /\ (<<x, y>> \o <<z>>)[3] = z
    BY <1>1, ConcatProperties
  <2>2. /\ <<x, y, z>> \in Seq(S) /\ Len(<<x, y, z>>) = 3
        /\ <<x, y, z>>[1] = x /\ <<x, y, z>>[2] = y /\ <<x, y, z>>[3] = z
    OBVIOUS
  <2>3. \A i \in 1..Len(<<x, y>> \o <<z>>) : (<<x, y>> \o <<z>>)[i] = <<x, y, z>>[i]
    BY <2>1, <2>2
  <2>4. QED BY <2>1, <2>2, <2>3, SeqEqual, Zenon
<1>5. QED BY <1>2, <1>3, <1>4

\* An error of a field validator: a field of the structs and a list index.
ErrRec == [field : DOMAIN FieldOrder, at : 0..MaxListLen]

(***************************************************************************)
(* WorkflowQuery.Validate: each of its three field validators adds at most *)
(* one error, so the result is one of eight lists; in each the fields     *)
(* named are the violated ones, in struct order.                           *)
(***************************************************************************)
LEMMA WorkflowQueryStep ==
    ASSUME WorkflowQueryValidateCall
    PROVE  Inv'
<1>1. PICK q \in Queries :
          call' = [method |-> "WorkflowQuery", in |-> q, errs |-> WorkflowQueryValidate(q)]
  BY DEF WorkflowQueryValidateCall, Returns
<1> DEFINE bl == q.limit # 0 /\ q.limit > 10000
           bs == q.status = "other"
           bn == q.name = "nil"
           rl == [field |-> "limit", at |-> 0]
           rs == [field |-> "status", at |-> 0]
           rn == [field |-> "workflowDefinitionName", at |-> 0]
<1>2. q.limit \in Int
  BY BoundsAssumption DEF Queries
<1>2a. q.status \in {"", "member", "other"}
  BY Zenon DEF Queries
<1>3. /\ validateLimit(q) = IF bl THEN <<rl>> ELSE << >>
      /\ validateStatus(q) = IF bs THEN <<rs>> ELSE << >>
      /\ validateWorkflowDefinitionName(q) = IF bn THEN <<rn>> ELSE << >>
  <2>1. validateLimit(q) = IF bl THEN <<rl>> ELSE << >>
    BY <1>2 DEF validateLimit, FieldError
  <2>2. validateStatus(q) = IF bs THEN <<rs>> ELSE << >>
    BY <1>2a, Zenon DEF validateStatus, FieldError
  <2>3. validateWorkflowDefinitionName(q) = IF bn THEN <<rn>> ELSE << >>
    BY DEF validateWorkflowDefinitionName, FieldError
  <2>4. QED BY <2>1, <2>2, <2>3
<1>4. rl \in ErrRec /\ rs \in ErrRec /\ rn \in ErrRec
  BY BoundsAssumption DEF ErrRec, FieldOrder
<1>5. Violated(call') =
        {f \in {"limit", "status", "workflowDefinitionName"} :
            \/ f = "limit" /\ bl
            \/ f = "status" /\ bs
            \/ f = "workflowDefinitionName" /\ bn}
  BY <1>1 DEF Violated
<1> HIDE DEF bl, bs, bn
<1>6. CASE bl /\ bs /\ bn
  <2>1. call'.errs = <<rl, rs, rn>>
    BY <1>6, <1>1, <1>3, <1>4, CatPieces DEF WorkflowQueryValidate
  <2>2. QED
    BY <1>6, <2>1, <1>1, <1>4, <1>5, BoundsAssumption
    DEF Inv, TypeOK, AcceptsExactlySchema, ReportsEachViolatedField,
        DecodeReplaces, Checked, FieldOrder, Errors, ErrRec
<1>7. CASE bl /\ bs /\ ~bn
  <2>1. call'.errs = <<rl, rs>>
    BY <1>7, <1>1, <1>3, <1>4, CatPieces DEF WorkflowQueryValidate
  <2>2. QED
    BY <1>7, <2>1, <1>1, <1>4, <1>5, BoundsAssumption
    DEF Inv, TypeOK, AcceptsExactlySchema, ReportsEachViolatedField,
        DecodeReplaces, Checked, FieldOrder, Errors, ErrRec
<1>8. CASE bl /\ ~bs /\ bn
  <2>1. call'.errs = <<rl, rn>>
    BY <1>8, <1>1, <1>3, <1>4, CatPieces DEF WorkflowQueryValidate
  <2>2. QED
    BY <1>8, <2>1, <1>1, <1>4, <1>5, BoundsAssumption
    DEF Inv, TypeOK, AcceptsExactlySchema, ReportsEachViolatedField,
        DecodeReplaces, Checked, FieldOrder, Errors, ErrRec
<1>9. CASE bl /\ ~bs /\ ~bn
  <2>1. call'.errs = <<rl>>
    BY <1>9, <1>1, <1>3, <1>4, CatPieces DEF WorkflowQueryValidate
  <2>2. QED
    BY <1>9, <2>1, <1>1, <1>4, <1>5, BoundsAssumption
    DEF Inv, TypeOK, AcceptsExactlySchema, ReportsEachViolatedField,
        DecodeReplaces, Checked, FieldOrder, Errors, ErrRec
<1>10. CASE ~bl /\ bs /\ bn
  <2>1. call'.errs = <<rs, rn>>
    BY <1>10, <1>1, <1>3, <1>4, CatPieces DEF WorkflowQueryValidate
  <2>2. QED
    BY <1>10, <2>1, <1>1, <1>4, <1>5, BoundsAssumption
    DEF Inv, TypeOK, AcceptsExactlySchema, ReportsEachViolatedField,
        DecodeReplaces, Checked, FieldOrder, Errors, ErrRec
<1>11. CASE ~bl /\ bs /\ ~bn
  <2>1. call'.errs = <<rs>>
    BY <1>11, <1>1, <1>3, <1>4, CatPieces DEF WorkflowQueryValidate
  <2>2. QED
    BY <1>11, <2>1, <1>1, <1>4, <1>5, BoundsAssumption
    DEF Inv, TypeOK, AcceptsExactlySchema, ReportsEachViolatedField,
        DecodeReplaces, Checked, FieldOrder, Errors, ErrRec
<1>12. CASE ~bl /\ ~bs /\ bn
  <2>1. call'.errs = <<rn>>
    BY <1>12, <1>1, <1>3, <1>4, CatPieces DEF WorkflowQueryValidate
  <2>2. QED
    BY <1>12, <2>1, <1>1, <1>4, <1>5, BoundsAssumption
    DEF Inv, TypeOK, AcceptsExactlySchema, ReportsEachViolatedField,
        DecodeReplaces, Checked, FieldOrder, Errors, ErrRec
<1>13. CASE ~bl /\ ~bs /\ ~bn
  <2>1. call'.errs = << >>
    BY <1>13, <1>1, <1>3, <1>4, CatPieces DEF WorkflowQueryValidate
  <2>2. QED
    BY <1>13, <2>1, <1>1, <1>4, <1>5, BoundsAssumption
    DEF Inv, TypeOK, AcceptsExactlySchema, ReportsEachViolatedField,
        DecodeReplaces, Checked, FieldOrder, Errors, ErrRec
<1>14. QED BY <1>6, <1>7, <1>8, <1>9, <1>10, <1>11, <1>12, <1>13


(***************************************************************************)
(* NewWorkflowDefinitionRequest.Validate: the manager enum, then the       *)
(* states list, each adding at most one error.                             *)
(***************************************************************************)
LEMMA NewWorkflowDefinitionRequestStep ==
    ASSUME NewWorkflowDefinitionRequestValidateCall
    PROVE  Inv'
<1>1. PICK r \in NewWorkflowDefinitionRequests :
          call' = [method |-> "NewWorkflowDefinitionRequest", in |-> r,
                   errs |-> NewWorkflowDefinitionRequestValidate(r)]
  BY DEF NewWorkflowDefinitionRequestValidateCall, Returns
<1> DEFINE bad == {i \in DOMAIN r.states : r.states[i] = "invalid"}
           first == CHOOSE i \in bad : \A j \in bad : i <= j
           bm == r.manager = "other"
           bS == bad # {}
           rm == [field |-> "manager", at |-> 0]
           rS == [field |-> "states", at |-> first]
<1>2. r.manager \in {"", "member", "other"} /\ r.states \in Lists
  BY Zenon DEF NewWorkflowDefinitionRequests
<1>3. /\ validateManager(r) = IF bm THEN <<rm>> ELSE << >>
      /\ validateStates(r) = IF bS THEN <<rS>> ELSE << >>
  <2>1. validateManager(r) = IF bm THEN <<rm>> ELSE << >>
    BY <1>2, Zenon DEF validateManager, FieldError
  <2>2. validateStates(r) = IF bS THEN <<rS>> ELSE << >>
    BY DEF validateStates, validateList
  <2>3. QED BY <2>1, <2>2
<1>4. /\ rm \in ErrRec
      /\ bS => rS \in ErrRec /\ r.states[first] = "invalid"
  <2>1. bS => first \in 1..MaxListLen /\ r.states[first] = "invalid"
    BY <1>2, FirstInvalid
  <2>2. QED BY <2>1, BoundsAssumption DEF ErrRec, FieldOrder
<1>5. Violated(call') =
        {f \in {"manager", "states"} : (f = "manager" /\ bm) \/ (f = "states" /\ bS)}
  BY <1>1 DEF Violated
<1> HIDE DEF bm, bS, first
<1>6. CASE bm /\ bS
  <2>1. call'.errs = <<rm, rS>>
    BY <1>6, <1>1, <1>3, <1>4, CatPieces DEF NewWorkflowDefinitionRequestValidate
  <2>2. QED
    BY <1>6, <2>1, <1>1, <1>4, <1>5, BoundsAssumption
    DEF Inv, TypeOK, AcceptsExactlySchema, ReportsEachViolatedField,
        DecodeReplaces, Checked, FieldOrder, Errors, ErrRec
<1>7. CASE bm /\ ~bS
  <2>1. call'.errs = <<rm>>
    BY <1>7, <1>1, <1>3, <1>4, CatPieces DEF NewWorkflowDefinitionRequestValidate
  <2>2. QED
    BY <1>7, <2>1, <1>1, <1>4, <1>5, BoundsAssumption
    DEF Inv, TypeOK, AcceptsExactlySchema, ReportsEachViolatedField,
        DecodeReplaces, Checked, FieldOrder, Errors, ErrRec
<1>8. CASE ~bm /\ bS
  <2>1. call'.errs = <<rS>>
    BY <1>8, <1>1, <1>3, <1>4, CatPieces DEF NewWorkflowDefinitionRequestValidate
  <2>2. QED
    BY <1>8, <2>1, <1>1, <1>4, <1>5, BoundsAssumption
    DEF Inv, TypeOK, AcceptsExactlySchema, ReportsEachViolatedField,
        DecodeReplaces, Checked, FieldOrder, Errors, ErrRec
<1>9. CASE ~bm /\ ~bS
  <2>1. call'.errs = << >>
    BY <1>9, <1>1, <1>3, <1>4, CatPieces DEF NewWorkflowDefinitionRequestValidate
  <2>2. QED
    BY <1>9, <2>1, <1>1, <1>4, <1>5, BoundsAssumption
    DEF Inv, TypeOK, AcceptsExactlySchema, ReportsEachViolatedField,
        DecodeReplaces, Checked, FieldOrder, Errors, ErrRec
<1>10. QED BY <1>6, <1>7, <1>8, <1>9

(***************************************************************************)
(* Workflow.Validate: the tasks list, then the nested WorkflowDefinition,  *)
(* each adding at most one error.                                          *)
(***************************************************************************)
LEMMA WorkflowStep ==
    ASSUME WorkflowValidateCall
    PROVE  Inv'
<1>1. PICK w \in Workflows :
          call' = [method |-> "Workflow", in |-> w, errs |-> WorkflowValidate(w)]
  BY DEF WorkflowValidateCall, Returns
<1> DEFINE bad == {i \in DOMAIN w.tasks : w.tasks[i] = "invalid"}
           first == CHOOSE i \in bad : \A j \in bad : i <= j
           bT == bad # {}
           bD == w.workflowDefinition = "invalid"
           rT == [field |-> "tasks", at |-> first]
           rD == [field |-> "workflowDefinition", at |-> 0]
<1>2. w.tasks \in Lists
  BY DEF Workflows
<1>3. /\ validateTasks(w) = IF bT THEN <<rT>> ELSE << >>
      /\ validateWorkflowDefinition(w) = IF bD THEN <<rD>> ELSE << >>
  BY DEF validateTasks, validateList, validateWorkflowDefinition, FieldError
<1>4. /\ rD \in ErrRec
      /\ bT => rT \in ErrRec /\ w.tasks[first] = "invalid"
  <2>1. bT => first \in 1..MaxListLen /\ w.tasks[first] = "invalid"
    BY <1>2, FirstInvalid
  <2>2. QED BY <2>1, BoundsAssumption DEF ErrRec, FieldOrder
<1>5. Violated(call') =
        {f \in {"tasks", "workflowDefinition"} :
           (f = "tasks" /\ bT) \/ (f = "workflowDefinition" /\ bD)}
  BY <1>1 DEF Violated
<1> HIDE DEF bT, bD, first
<1>6. CASE bT /\ bD
  <2>1. call'.errs = <<rT, rD>>
    BY <1>6, <1>1, <1>3, <1>4, CatPieces DEF WorkflowValidate
  <2>2. QED
    BY <1>6, <2>1, <1>1, <1>4, <1>5, BoundsAssumption
    DEF Inv, TypeOK, AcceptsExactlySchema, ReportsEachViolatedField,
        DecodeReplaces, Checked, FieldOrder, Errors, ErrRec
<1>7. CASE bT /\ ~bD
  <2>1. call'.errs = <<rT>>
    BY <1>7, <1>1, <1>3, <1>4, CatPieces DEF WorkflowValidate
  <2>2. QED
    BY <1>7, <2>1, <1>1, <1>4, <1>5, BoundsAssumption
    DEF Inv, TypeOK, AcceptsExactlySchema, ReportsEachViolatedField,
        DecodeReplaces, Checked, FieldOrder, Errors, ErrRec
<1>8. CASE ~bT /\ bD
  <2>1. call'.errs = <<rD>>
    BY <1>8, <1>1, <1>3, <1>4, CatPieces DEF WorkflowValidate
  <2>2. QED
    BY <1>8, <2>1, <1>1, <1>4, <1>5, BoundsAssumption
    DEF Inv, TypeOK, AcceptsExactlySchema, ReportsEachViolatedField,
        DecodeReplaces, Checked, FieldOrder, Errors, ErrRec
<1>9. CASE ~bT /\ ~bD
  <2>1. call'.errs = << >>
    BY <1>9, <1>1, <1>3, <1>4, CatPieces DEF WorkflowValidate
  <2>2. QED
    BY <1>9, <2>1, <1>1, <1>4, <1>5, BoundsAssumption
    DEF Inv, TypeOK, AcceptsExactlySchema, ReportsEachViolatedField,
        DecodeReplaces, Checked, FieldOrder, Errors, ErrRec
<1>10. QED BY <1>6, <1>7, <1>8, <1>9


\* A call of a method without a schema constraint violates nothing.
LEMMA ViolatedOther ==
    ASSUME NEW c,
           c.method \notin {"WorkflowQuery", "NewWorkflowDefinitionRequest", "Workflow"}
    PROVE  Violated(c) = {}
<1>1. /\ c.method # "WorkflowQuery"
      /\ c.method # "NewWorkflowDefinitionRequest"
      /\ c.method # "Workflow"
  OBVIOUS
<1>2. QED BY <1>1, Zenon DEF Violated

\* JobAttempt and ResolvedByUserWrapper: no constraint, no error.
LEMMA NoConstraintStep ==
    ASSUME JobAttemptValidateCall \/ ResolvedByUserWrapperValidateCall
    PROVE  Inv'
<1>1. /\ call'.method \in {"JobAttempt", "ResolvedByUserWrapper"}
      /\ call'.errs = << >>
  <2>1. CASE JobAttemptValidateCall
    BY <2>1 DEF JobAttemptValidateCall, Returns
  <2>2. CASE ResolvedByUserWrapperValidateCall
    BY <2>2 DEF ResolvedByUserWrapperValidateCall, Returns
  <2>3. QED BY <2>1, <2>2
<1>2. Violated(call') = {}
  BY <1>1, ViolatedOther
<1>3. << >> \in Errors
  BY DEF Errors
<1>4. QED
  BY <1>1, <1>2, <1>3
  DEF Inv, TypeOK, AcceptsExactlySchema, ReportsEachViolatedField,
      DecodeReplaces, Checked

\* What a round trip should give: every field written, the timestamps cut
\* to the millisecond.
Decoded(a) ==
    [f \in AttemptFields |-> IF f \in TimeFields THEN FormatMillis(a[f]) ELSE a[f]]

\* Decoding what MarshalBinary wrote gives back Decoded(a), whatever the
\* receiver held: UnmarshalBinary reads no field of m.
LEMMA RoundTripDecode ==
    ASSUME NEW a \in Attempts, NEW m
    PROVE  UnmarshalBinary(m, MarshalBinary(a)) = Decoded(a)
<1> DEFINE b == MarshalBinary(a)
<1>1. ASSUME NEW f \in AttemptFields
      PROVE  (IF f \in DOMAIN b THEN b[f] ELSE Zero[f]) = Decoded(a)[f]
  <2>1. CASE f \in TimeFields
    BY <2>1, Zenon DEF MarshalBinary, Decoded, AttemptFields
  <2>2. CASE f \in OmitEmptyFields /\ a[f] # Zero[f]
    <3>1. f \notin TimeFields
      BY <2>2 DEF OmitEmptyFields, TimeFields
    <3>2. QED BY <2>2, <3>1, Zenon DEF MarshalBinary, Decoded, AttemptFields
  <2>3. CASE f \in OmitEmptyFields /\ a[f] = Zero[f]
    <3>1. f \notin TimeFields
      BY <2>3 DEF OmitEmptyFields, TimeFields
    <3>2. QED BY <2>3, <3>1, Zenon DEF MarshalBinary, Decoded, AttemptFields
  <2>4. QED BY <2>1, <2>2, <2>3 DEF AttemptFields
<1>2. QED BY <1>1, Zenon DEF UnmarshalBinary, Decoded

\* A decoded attempt is again an attempt.
LEMMA DecodedType ==
    ASSUME NEW a \in Attempts
    PROVE  Decoded(a) \in Attempts
<1> DEFINE d == Decoded(a)
<1>1. d = [f \in AttemptFields |-> d[f]]
  BY DEF Decoded
<1>2. AttemptFields = {"containerInstanceARN", "createdAt", "exitCode",
                       "reason", "startedAt", "stoppedAt", "taskARN"}
  BY DEF AttemptFields, OmitEmptyFields, TimeFields
<1>3. /\ d["containerInstanceARN"] = a.containerInstanceARN
      /\ d["exitCode"] = a.exitCode
      /\ d["reason"] = a.reason
      /\ d["taskARN"] = a.taskARN
  BY Zenon DEF Decoded, AttemptFields, OmitEmptyFields, TimeFields
<1>4. /\ d["createdAt"] = FormatMillis(a.createdAt)
      /\ d["startedAt"] = FormatMillis(a.startedAt)
      /\ d["stoppedAt"] = FormatMillis(a.stoppedAt)
  BY Zenon DEF Decoded, AttemptFields, TimeFields
<1>5. \A t \in DateTimes : FormatMillis(t) \in DateTimes
  BY Zenon DEF FormatMillis, DateTimes
<1> DEFINE SA == {"", "c"}
           SR == {"", "r"}
           ST == {"", "t"}
<1>6. Attempts = [containerInstanceARN : SA, createdAt : DateTimes,
                  exitCode : {0, 1}, reason : SR, startedAt : DateTimes,
                  stoppedAt : DateTimes, taskARN : ST]
  BY Zenon DEF Attempts
<1>7. /\ d["containerInstanceARN"] \in SA
      /\ d["exitCode"] \in {0, 1}
      /\ d["reason"] \in SR
      /\ d["taskARN"] \in ST
      /\ d["createdAt"] \in DateTimes
      /\ d["startedAt"] \in DateTimes
      /\ d["stoppedAt"] \in DateTimes
  BY <1>3, <1>4, <1>5, Zenon DEF Attempts
<1>8. d \in Attempts
  <2> HIDE DEF d, SA, SR, ST, DateTimes
  <2>1. QED BY <1>1, <1>2, <1>6, <1>7
<1>9. QED BY <1>8

LEMMA RoundTripStep ==
    ASSUME RoundTripCall
    PROVE  Inv'
<1>1. PICK a \in Attempts, m \in OldAttempts :
          call' = [method |-> "RoundTrip", in |-> a, old |-> m,
                   out |-> UnmarshalBinary(m, MarshalBinary(a))]
  BY DEF RoundTripCall
<1>2. call'.out = Decoded(a) /\ Decoded(a) \in Attempts
  BY <1>1, RoundTripDecode, DecodedType
<1>3. /\ call'.method = "RoundTrip" /\ call'.in = a /\ call'.old = m
      /\ m \in Attempts
  BY <1>1, BoundsAssumption
<1>4. DecodeReplaces'
  <2>1. \A f \in AttemptFields \ TimeFields : Decoded(a)[f] = a[f]
    BY Zenon DEF Decoded
  <2>2. \A f \in TimeFields :
           Decoded(a)[f] = IF a[f] = "sub" THEN "ms" ELSE a[f]
    BY Zenon DEF Decoded, FormatMillis, AttemptFields
  <2>3. QED BY <1>2, <1>3, <2>1, <2>2 DEF DecodeReplaces
<1>5. QED
  BY <1>2, <1>3, <1>4
  DEF Inv, TypeOK, AcceptsExactlySchema, ReportsEachViolatedField, Checked

LEMMA InitInv == Init => Inv
BY DEF Init, Inv, TypeOK, AcceptsExactlySchema, ReportsEachViolatedField,
       DecodeReplaces, Checked

LEMMA NextInv == Inv /\ [Next]_vars => Inv'
<1> SUFFICES ASSUME Inv, [Next]_vars PROVE Inv'
  OBVIOUS
<1>1. CASE WorkflowQueryValidateCall
  BY <1>1, WorkflowQueryStep
<1>2. CASE NewWorkflowDefinitionRequestValidateCall
  BY <1>2, NewWorkflowDefinitionRequestStep
<1>3. CASE WorkflowValidateCall
  BY <1>3, WorkflowStep
<1>4. CASE JobAttemptValidateCall \/ ResolvedByUserWrapperValidateCall
  BY <1>4, NoConstraintStep
<1>5. CASE RoundTripCall
  BY <1>5, RoundTripStep
<1>6. CASE UNCHANGED vars
  BY <1>6 DEF vars, Inv, TypeOK, AcceptsExactlySchema,
     ReportsEachViolatedField, DecodeReplaces
<1>7. QED BY <1>1, <1>2, <1>3, <1>4, <1>5, <1>6 DEF Next

\* Every reachable call result meets the four properties the runs check.
THEOREM InvThm == Spec => []Inv
BY InitInv, NextInv, PTL DEF Spec

\* Every Validate call returns an error list of fields and indices, and every
\* round trip stays among the attempts (Validators.TypeOK).
THEOREM TypeOKThm == Spec => []TypeOK
BY InvThm, PTL DEF Inv

(***************************************************************************)
(* For every bound on the limit values and every list length, Validate of *)
(* WorkflowQuery, NewWorkflowDefinitionRequest and Workflow returns no     *)
(* error exactly when the receiver meets its swagger schema.               *)
(***************************************************************************)
THEOREM AcceptsExactlySchemaThm == Spec => []AcceptsExactlySchema
BY InvThm, PTL DEF Inv

(***************************************************************************)
(* The composite Validate error names every violated field once, in field *)
(* order, and a list error names an invalid element, for every list       *)
(* length.                                                                 *)
(***************************************************************************)
THEOREM ReportsEachViolatedFieldThm == Spec => []ReportsEachViolatedField
BY InvThm, PTL DEF Inv

\* UnmarshalBinary of MarshalBinary returns the attempt written, its
\* timestamps cut to the millisecond, whatever the receiver held before.
THEOREM DecodeReplacesThm == Spec => []DecodeReplaces
BY InvThm, PTL DEF Inv

=============================================================================
