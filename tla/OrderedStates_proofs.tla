------------------------ MODULE OrderedStates_proofs ------------------------
(***************************************************************************)
(* Proofs about OrderedStates, for every finite set of state names and     *)
(* every input map: the type invariant, and that a result without error    *)
(* implies that every Next is defined, whatever order the Go range loop    *)
(* visits the keys in.                                                     *)
(***************************************************************************)
EXTENDS OrderedStatesSort_proofs

\* A member of StateMaps is a function from some names to SLState records.
LEMMA StateMapShape ==
    ASSUME NEW m \in StateMaps
    PROVE  /\ m = [n \in DOMAIN m |-> m[n]]
           /\ DOMAIN m \subseteq Names
           /\ \A n \in DOMAIN m : m[n] \in SLState
BY DEF StateMaps

\* SetDeps yields a function on the old domain plus the key set.
LEMMA SetDepsShape ==
    ASSUME NEW m, NEW k, NEW v
    PROVE  /\ DOMAIN SetDeps(m, k, v) = DOMAIN m \cup {k}
           /\ SetDeps(m, k, v)[k] = v
           /\ \A n \in DOMAIN m \ {k} : SetDeps(m, k, v)[n] = m[n]
BY DEF SetDeps

-----------------------------------------------------------------------------
LEMMA InitIInv == Init => IInv
BY DEF Init, IInv, TypeOK, VisitedChecked, SortedAfterLoop, DepsSound,
       VisitedHaveDeps, ReturnJustified

LEMMA VisitIInv ==
    ASSUME IInv, NEW s \in Names, VisitState(s)
    PROVE  IInv'
<1> DEFINE state == states[s]
           reset == SetDeps(stateDeps, s, {})
<1>1. /\ s \in DOMAIN states
      /\ state \in SLState
      /\ states' = states
      /\ visited' = visited \cup {s}
      /\ result = "running"
  BY StateMapShape DEF VisitState, IInv, TypeOK
<1>2. /\ DOMAIN reset = DOMAIN stateDeps \cup {s}
      /\ reset[s] = {}
      /\ \A n \in DOMAIN stateDeps \ {s} : reset[n] = stateDeps[n]
  BY DEF SetDeps
<1>3. /\ DOMAIN reset \subseteq DOMAIN states
      /\ \A n \in DOMAIN reset : reset[n] \subseteq Preds(n)
  BY <1>1, <1>2 DEF IInv, TypeOK, DepsSound, Preds
<1>4. CASE state.end /\ stateDeps' = reset /\ UNCHANGED result
  <2>1. TypeOK'
    BY <1>1, <1>3, <1>4 DEF IInv, TypeOK, Preds
  <2>2. VisitedChecked'
    BY <1>1, <1>4 DEF IInv, VisitedChecked
  <2>3. SortedAfterLoop' /\ DepsSound'
    BY <1>1, <1>3, <1>4 DEF SortedAfterLoop, DepsSound, Preds
  <2>4. VisitedHaveDeps' /\ ReturnJustified'
    BY <1>1, <1>2, <1>4 DEF IInv, VisitedHaveDeps, ReturnJustified
  <2>5. QED BY <2>1, <2>2, <2>3, <2>4 DEF IInv
<1>5. CASE ~state.end /\ state.next \notin DOMAIN states
           /\ stateDeps' = reset /\ result' = "err"
  <2>1. TypeOK'
    BY <1>1, <1>3, <1>5 DEF IInv, TypeOK, Preds
  <2>2. VisitedChecked' /\ SortedAfterLoop'
    BY <1>5 DEF VisitedChecked, SortedAfterLoop
  <2>3. DepsSound'
    BY <1>1, <1>3, <1>5 DEF DepsSound, Preds
  <2>4. VisitedHaveDeps'
    BY <1>1, <1>2, <1>5 DEF IInv, VisitedHaveDeps
  <2>5. ~NextsDefined'
    BY <1>1, <1>5 DEF NextsDefined
  <2>6. ReturnJustified'
    BY <1>5, <2>5 DEF ReturnJustified
  <2>7. QED BY <2>1, <2>2, <2>3, <2>4, <2>6 DEF IInv
<1>6. CASE /\ ~state.end /\ state.next \in DOMAIN states
           /\ stateDeps' = SetDeps(reset, state.next,
                                   IF state.next \in DOMAIN reset
                                   THEN reset[state.next] \cup {s}
                                   ELSE {s})
           /\ UNCHANGED result
  <2> DEFINE q == state.next
             v == IF q \in DOMAIN reset THEN reset[q] \cup {s} ELSE {s}
  <2>1. /\ DOMAIN stateDeps' = DOMAIN reset \cup {q}
        /\ stateDeps'[q] = v
        /\ \A n \in DOMAIN reset \ {q} : stateDeps'[n] = reset[n]
    BY <1>6 DEF SetDeps
  <2>2. s \in Preds(q)'
    BY <1>1, <1>6 DEF Preds
  <2>3. v \subseteq Preds(q)'
    BY <1>1, <1>3, <2>2 DEF Preds
  <2>4. DepsSound'
    BY <1>1, <1>3, <2>1, <2>3 DEF DepsSound, Preds
  <2>5. TypeOK'
    <3>1. q \in DOMAIN states /\ Preds(q)' \subseteq DOMAIN states
      BY <1>1, <1>6 DEF Preds
    <3>2. DOMAIN stateDeps' \subseteq DOMAIN states
      BY <1>3, <2>1, <3>1
    <3>3. \A n \in DOMAIN stateDeps' : stateDeps'[n] \subseteq DOMAIN states
      BY <1>1, <1>3, <2>1, <2>3, <3>1 DEF Preds
    <3>4. QED
      BY <1>1, <1>6, <3>2, <3>3 DEF IInv, TypeOK
  <2>6. VisitedChecked' /\ SortedAfterLoop'
    BY <1>1, <1>6 DEF IInv, VisitedChecked, SortedAfterLoop
  <2>7. VisitedHaveDeps' /\ ReturnJustified'
    BY <1>1, <1>2, <1>6, <2>1 DEF IInv, VisitedHaveDeps, ReturnJustified
  <2>8. QED BY <2>4, <2>5, <2>6, <2>7 DEF IInv
<1>7. QED
  BY <1>4, <1>5, <1>6 DEF VisitState

LEMMA SortIInv ==
    ASSUME IInv, SortStates
    PROVE  IInv'
BY DEF SortStates, IInv, TypeOK, VisitedChecked, SortedAfterLoop, DepsSound,
       Preds, VisitedHaveDeps, ReturnJustified

LEMMA StutterIInv ==
    ASSUME IInv, UNCHANGED vars
    PROVE  IInv'
BY DEF vars, IInv, TypeOK, VisitedChecked, SortedAfterLoop, DepsSound, Preds,
       VisitedHaveDeps, ReturnJustified, NextsDefined

LEMMA NextIInv == IInv /\ [Next]_vars => IInv'
BY VisitIInv, SortIInv, StutterIInv DEF Next

-----------------------------------------------------------------------------
\* The type invariant holds in every reachable state.
THEOREM TypeCorrect == Spec => []TypeOK
<1>1. IInv => TypeOK BY DEF IInv
<1>2. QED BY InitIInv, NextIInv, <1>1, PTL DEF Spec

\* OrderedStates never returns an order for a definition with a dangling
\* Next, in any iteration order of its range loop.
THEOREM DanglingNextRejectedThm == Spec => []DanglingNextRejected
<1>1. IInv => DanglingNextRejected
  BY DEF IInv, VisitedChecked, SortedAfterLoop, DanglingNextRejected,
         NextsDefined
<1>2. QED BY InitIInv, NextIInv, <1>1, PTL DEF Spec

\* Every dependency OrderedStates records for a state, and reports in the
\* Deps field of its entry, is a state whose Next is that state.
THEOREM DepsSoundThm == Spec => []DepsSound
<1>1. IInv => DepsSound BY DEF IInv
<1>2. QED BY InitIInv, NextIInv, <1>1, PTL DEF Spec

-----------------------------------------------------------------------------
\* The dependency map is finite: its keys are state names.
LEMMA DepsFinite ==
    ASSUME TypeOK
    PROVE  IsFiniteSet(DOMAIN stateDeps)
<1>1. DOMAIN stateDeps \subseteq Names
  BY StateMapShape DEF TypeOK
<1>2. QED BY <1>1, NamesAssumption, FS_Subset

(***************************************************************************)
(* After the loop has visited every key, toposort.Sort fails only on a     *)
(* definition with a cycle of Next edges: the names it leaves unplaced all *)
(* depend on one another, and every recorded dependency is a real Next    *)
(* edge (DepsSound).                                                       *)
(***************************************************************************)
LEMMA SortFailsOnlyOnCycle ==
    ASSUME IInv, visited = DOMAIN states, ~SortSucceeds(stateDeps)
    PROVE  HasNextCycle
<1>1. DOMAIN stateDeps = DOMAIN states
  BY DEF IInv, TypeOK, VisitedHaveDeps
<1>2. IsFiniteSet(DOMAIN stateDeps)
  BY DepsFinite DEF IInv
<1>3. \A n \in DOMAIN stateDeps : stateDeps[n] \subseteq DOMAIN stateDeps
  BY <1>1 DEF IInv, TypeOK
<1>4. PICK T \in SUBSET DOMAIN stateDeps :
          T # {} /\ \A n \in T : stateDeps[n] \cap T # {}
  BY <1>2, <1>3, FailedSortStuck
<1>5. \A n \in T : Preds(n) \cap T # {}
  BY <1>4 DEF IInv, DepsSound
<1>6. QED BY <1>1, <1>4, <1>5 DEF HasNextCycle

\* OrderedStates returns an order for every definition whose Nexts are all
\* defined and acyclic, in every visit order of its range loop, for any
\* number of states.
THEOREM AcyclicAcceptedThm == Spec => []AcyclicAccepted
<1>1. IInv => AcyclicAccepted
  <2> SUFFICES ASSUME IInv, result # "running", NextsDefined, ~HasNextCycle
               PROVE  result = "ok"
    BY DEF AcyclicAccepted
  <2>1. CASE result = "err"
    <3>1. visited = DOMAIN states /\ ~SortSucceeds(stateDeps)
      BY <2>1 DEF IInv, ReturnJustified
    <3>2. QED BY <3>1, SortFailsOnlyOnCycle
  <2>2. QED BY <2>1 DEF IInv, TypeOK
<1>2. QED BY InitIInv, NextIInv, <1>1, PTL DEF Spec

\* When OrderedStates returns an order, every Deps entry it reports names a
\* state whose Next is that entry's state, and that state is emitted in an
\* earlier layer.
THEOREM DepsSoundAndOrderedThm == Spec => []DepsSoundAndOrdered
<1>1. IInv => DepsSoundAndOrdered
  <2> SUFFICES ASSUME IInv, result = "ok", NEW s \in DOMAIN stateDeps
               PROVE  /\ stateDeps[s] \subseteq Preds(s)
                      /\ \A p \in stateDeps[s] :
                            Layer(stateDeps, p) < Layer(stateDeps, s)
    BY DEF DepsSoundAndOrdered
  <2>1. stateDeps[s] \subseteq Preds(s)
    BY DEF IInv, DepsSound
  <2>2. SortSucceeds(stateDeps) /\ IsFiniteSet(DOMAIN stateDeps)
    BY DepsFinite DEF IInv, ReturnJustified
  <2>3. QED BY <2>1, <2>2, LayersOrdered
<1>2. QED BY InitIInv, NextIInv, <1>1, PTL DEF Spec
-----------------------------------------------------------------------------
\* The contract's view of the input is the detailed module's.
LEMMA ContractSameInput ==
    /\ Contract!NextsDefined = NextsDefined
    /\ Contract!HasNextCycle = HasNextCycle
BY DEF Contract!NextsDefined, NextsDefined, Contract!HasNextCycle,
       HasNextCycle, Preds

\* The initial states of OrderedStates are initial states of the contract.
LEMMA InitRefines == Init => Contract!Init
BY DEF Init, Contract!Init, Contract!StateMaps, Contract!SLState, StateMaps,
       SLState

(***************************************************************************)
(* Every step of OrderedStates is a step of the contract or leaves states  *)
(* and result alone: an iteration that does not return is a stutter, the  *)
(* MissingState return is a Return on a definition with a dangling Next,   *)
(* and the sort's return is a Return whose answer the contract allows.     *)
(***************************************************************************)
LEMMA NextRefines ==
    ASSUME IInv, [Next]_vars
    PROVE  [Contract!Return]_<<states, result>>
<1> USE DEF Contract!Return
<1>1. ASSUME NEW k \in Names, VisitState(k)
      PROVE  [Contract!Return]_<<states, result>>
  <2> DEFINE state == states[k]
  <2>1. k \in DOMAIN states /\ states' = states /\ result = "running"
    BY <1>1 DEF VisitState
  <2>2. CASE ~state.end /\ state.next \notin DOMAIN states /\ result' = "err"
    <3>1. ~NextsDefined
      BY <2>1, <2>2 DEF NextsDefined
    <3>2. QED BY <2>1, <2>2, <3>1, ContractSameInput
  <2>3. CASE result' = result
    BY <2>1, <2>3
  <2>4. QED BY <1>1, <2>2, <2>3 DEF VisitState
<1>2. ASSUME SortStates
      PROVE  [Contract!Return]_<<states, result>>
  <2>1. result = "running" /\ visited = DOMAIN states /\ states' = states
        /\ result' = IF SortSucceeds(stateDeps) THEN "ok" ELSE "err"
    BY <1>2 DEF SortStates
  <2>2. result' = "ok" => NextsDefined
    BY <2>1 DEF IInv, VisitedChecked, NextsDefined
  <2>3. (NextsDefined /\ ~HasNextCycle) => result' = "ok"
    BY <2>1, SortFailsOnlyOnCycle
  <2>4. QED BY <2>1, <2>2, <2>3, ContractSameInput
<1>3. CASE UNCHANGED vars
  BY <1>3 DEF vars
<1>4. QED BY <1>1, <1>2, <1>3 DEF Next

(***************************************************************************)
(* OrderedStates implements the safety part of its contract: in every      *)
(* visit order, for any number of states, the range loop and the sort     *)
(* return at most once, never an order for a dangling Next, and never an  *)
(* error for a defined acyclic definition.  (That the call returns at all *)
(* is the contract's fairness half, checked by TLC: RefinesContract.)     *)
(***************************************************************************)
THEOREM RefinesContractSafety == Spec => Contract!SafeSpec
BY InitIInv, NextIInv, InitRefines, NextRefines, PTL DEF Spec, Contract!SafeSpec
=====
