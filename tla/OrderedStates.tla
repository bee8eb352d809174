--------------------------- MODULE OrderedStates ---------------------------
(***************************************************************************)
(* The graph validator's OrderedStates (src/resources/workflow_definitions *)
(* .go): it builds a dependency map stateDeps by inverting the Next edges  *)
(* of a state machine, then hands it to toposort.Sort and flattens the     *)
(* returned layers.  The loop ranges over a Go map, whose iteration order  *)
(* is unspecified and randomised at run time: each iteration is one step   *)
(* of this module, and the key it visits is chosen nondeterministically.   *)
(*                                                                         *)
(* A State is abstracted to the two fields OrderedStates reads: Next (a    *)
(* state name, or NoName for the empty string) and End.                    *)
(***************************************************************************)
EXTENDS Naturals, FiniteSets

CONSTANTS
    Names,   \* the state names a definition may use
    NoName   \* the zero value "" of SLState.Next

ASSUME NamesAssumption == IsFiniteSet(Names) /\ NoName \notin Names

\* The fields of models.SLState that OrderedStates reads.
SLState == [next : Names \cup {NoName}, end : BOOLEAN]

\* Every states map a definition can carry: a map from some of the names.
StateMaps == UNION {[D -> SLState] : D \in SUBSET Names}

VARIABLES
    states,     \* the input map, never written
    visited,    \* the keys the range loop has already visited
    stateDeps,  \* the dependency map being built: name -> names ordered before it
    result      \* "running", "ok" or "err": what OrderedStates returned

vars == <<states, visited, stateDeps, result>>

-----------------------------------------------------------------------------
(***************************************************************************)
(* toposort.Sort, modelled from the spec (the toposort package is not     *)
(* under src/): Kahn's algorithm in layers.  Placed[k] holds the names of  *)
(* the first k layers; a name joins the next layer once every name it      *)
(* depends on has been placed.  The sort fails (CyclicGraph) when the      *)
(* layers do not exhaust the map.                                          *)
(***************************************************************************)
Placed(deps) ==
    LET f[k \in Nat] ==
            IF k = 0 THEN {}
            ELSE f[k-1] \cup {n \in DOMAIN deps : deps[n] \subseteq f[k-1]}
    IN  f

\* Mutant: one round of layering too few.
SortSucceedsShort(deps) ==
    LET n == Cardinality(DOMAIN deps)
    IN  Placed(deps)[IF n > 0 THEN n - 1 ELSE 0] = DOMAIN deps

SortSucceeds(deps) ==
    Placed(deps)[Cardinality(DOMAIN deps)] = DOMAIN deps

\* The 1-based layer of name n in the sorted output: the flatten loop emits
\* the names of layer k before those of layer k+1.
Layer(deps, n) ==
    CHOOSE k \in 1..Cardinality(DOMAIN deps) :
        n \in Placed(deps)[k] \ Placed(deps)[k-1]

-----------------------------------------------------------------------------
Init ==
    /\ states \in StateMaps
    /\ visited = {}
    /\ stateDeps = [n \in {} |-> {}]
    /\ result = "running"

\* stateDeps[k] = v: set one key, adding it to the map when it is new.
SetDeps(m, k, v) == [n \in DOMAIN m \cup {k} |-> IF n = k THEN v ELSE m[n]]

\* Mutant: no early return on a missing Next; the entry is recorded anyway.
VisitStateNoReturn(stateName) ==
    LET state == states[stateName]
        reset == SetDeps(stateDeps, stateName, {})
    IN
    /\ result = "running"
    /\ stateName \in DOMAIN states \ visited
    /\ visited' = visited \cup {stateName}
    /\ stateDeps' = IF state.end THEN reset
                    ELSE SetDeps(reset, state.next,
                                 IF state.next \in DOMAIN reset
                                 THEN reset[state.next] \cup {stateName}
                                 ELSE {stateName})
    /\ UNCHANGED <<states, result>>

\* Mutant: the edge recorded forwards, stateDeps[stateName] = [state.Next].
VisitStateForward(stateName) ==
    LET state == states[stateName]
        reset == SetDeps(stateDeps, stateName, {})
    IN
    /\ result = "running"
    /\ stateName \in DOMAIN states \ visited
    /\ visited' = visited \cup {stateName}
    /\ \/ /\ state.end
          /\ stateDeps' = reset
          /\ UNCHANGED result
       \/ /\ ~state.end
          /\ state.next \notin DOMAIN states
          /\ stateDeps' = reset
          /\ result' = "err"
       \/ /\ ~state.end
          /\ state.next \in DOMAIN states
          /\ stateDeps' = SetDeps(reset, stateName, {state.next})
          /\ UNCHANGED result
    /\ UNCHANGED states

\* Mutant: the key never marked visited, as if the range never advanced.
VisitStateNoMark(stateName) ==
    /\ result = "running"
    /\ stateName \in DOMAIN states \ visited
    /\ stateDeps' = SetDeps(stateDeps, stateName, {})
    /\ UNCHANGED <<states, visited, result>>

(***************************************************************************)
(* One iteration of the range loop, for key stateName.  It resets          *)
(* stateDeps[stateName] to the empty list, and for a state without End     *)
(* either returns the MissingState error or appends stateName to the      *)
(* entry of its Next.                                                      *)
(***************************************************************************)
VisitState(stateName) ==
    LET state == states[stateName]
        reset == SetDeps(stateDeps, stateName, {})
    IN
    /\ result = "running"
    /\ stateName \in DOMAIN states \ visited
    /\ visited' = visited \cup {stateName}
    /\ \/ /\ state.end
          /\ stateDeps' = reset
          /\ UNCHANGED result
       \/ /\ ~state.end
          /\ state.next \notin DOMAIN states
          /\ stateDeps' = reset
          /\ result' = "err"
       \/ /\ ~state.end
          /\ state.next \in DOMAIN states
          /\ stateDeps' = SetDeps(reset, state.next,
                                  IF state.next \in DOMAIN reset
                                  THEN reset[state.next] \cup {stateName}
                                  ELSE {stateName})
          /\ UNCHANGED result
    /\ UNCHANGED states

\* After the loop: toposort.Sort, then the flattening of its layers.
SortStates ==
    /\ result = "running"
    /\ visited = DOMAIN states
    /\ result' = IF SortSucceeds(stateDeps) THEN "ok" ELSE "err"
    /\ UNCHANGED <<states, visited, stateDeps>>

Next ==
    \/ \E s \in Names : VisitState(s)
    \/ SortStates

Spec == Init /\ [][Next]_vars

(***************************************************************************)
(* OrderedStates runs its loop and the sort in the calling goroutine with  *)
(* no waiting and no lock: while it has a step left it takes one, which    *)
(* is weak fairness of Next.                                               *)
(***************************************************************************)
FairSpec == Spec /\ WF_vars(Next)

-----------------------------------------------------------------------------
\* The states that name s as their Next: the dependencies s really has.
Preds(s) == {p \in DOMAIN states : ~states[p].end /\ states[p].next = s}

(***************************************************************************)
(* The input has a cycle along Next edges.  In a finite map this is a      *)
(* nonempty set of states each of which is the Next of another member:     *)
(* walking back along Preds inside such a set must revisit a state, and    *)
(* the states of a cycle form such a set.                                  *)
(***************************************************************************)
HasNextCycle ==
    \E T \in SUBSET DOMAIN states : T # {} /\ \A s \in T : Preds(s) \cap T # {}

\* Every state without End names a defined Next.
NextsDefined ==
    \A s \in DOMAIN states : ~states[s].end => states[s].next \in DOMAIN states

TypeOK ==
    /\ states \in StateMaps
    /\ visited \subseteq DOMAIN states
    /\ DOMAIN stateDeps \subseteq DOMAIN states
    /\ \A n \in DOMAIN stateDeps : stateDeps[n] \subseteq DOMAIN states
    /\ result \in {"running", "ok", "err"}

(***************************************************************************)
(* Inductive strengthening of DanglingNextRejected, AcyclicAccepted and   *)
(* DepsSoundAndOrdered: every visited state has passed the Next-defined   *)
(* check unless the loop has already returned the error, the sort runs    *)
(* only after every key is visited, every recorded dependency of s is a   *)
(* state whose Next is s, every visited state has its dependency entry,   *)
(* and a returned result is the one the checks and the sort justify.      *)
(***************************************************************************)
VisitedChecked ==
    result # "err" =>
        \A s \in visited : ~states[s].end => states[s].next \in DOMAIN states

SortedAfterLoop == result = "ok" => visited = DOMAIN states

DepsSound == \A s \in DOMAIN stateDeps : stateDeps[s] \subseteq Preds(s)

\* Every visited key has an entry: the reset creates it.
VisitedHaveDeps == visited \subseteq DOMAIN stateDeps

\* What each return rests on: an order on a successful sort of the map the
\* loop built, an error on a dangling Next or on a failed sort of it.
ReturnJustified ==
    /\ result = "ok" => SortSucceeds(stateDeps)
    /\ result = "err" =>
          ~NextsDefined \/ (visited = DOMAIN states /\ ~SortSucceeds(stateDeps))

IInv ==
    /\ TypeOK /\ VisitedChecked /\ SortedAfterLoop /\ DepsSound
    /\ VisitedHaveDeps /\ ReturnJustified

(***************************************************************************)
(* Dangling Next rejected: OrderedStates returns no error only when every  *)
(* state without End names a defined state, whatever order the range loop *)
(* visits the keys in (the early return in the loop).                      *)
(***************************************************************************)
DanglingNextRejected == result = "ok" => NextsDefined

(***************************************************************************)
(* Acyclic definitions accepted: a definition whose Next edges are all     *)
(* defined and acyclic is ordered without error, in every visit order.     *)
(***************************************************************************)
AcyclicAccepted ==
    (result # "running" /\ NextsDefined /\ ~HasNextCycle) => result = "ok"

(***************************************************************************)
(* The Deps reported with each entry are genuine: every name in            *)
(* stateDeps[s] names s as its Next, and in the output it lies in an       *)
(* earlier layer than s.                                                   *)
(***************************************************************************)
DepsSoundAndOrdered ==
    result = "ok" =>
        \A s \in DOMAIN stateDeps :
            /\ stateDeps[s] \subseteq Preds(s)
            /\ \A p \in stateDeps[s] : Layer(stateDeps, p) < Layer(stateDeps, s)

(***************************************************************************)
(* Spec section 8: for an acyclic definition the output is a topological   *)
(* order, every state appearing after all states that name it as Next.     *)
(* Layers are flattened in order, so a state after its predecessor must   *)
(* lie in a strictly later layer.  The reset of stateDeps[stateName] in   *)
(* the range loop is what this is about: it discards the predecessors     *)
(* already appended to the key being visited.                             *)
(***************************************************************************)
OrderRespectsNext ==
    (result = "ok" /\ ~HasNextCycle) =>
        \A s \in DOMAIN states : \A p \in Preds(s) :
            Layer(stateDeps, p) < Layer(stateDeps, s)

(***************************************************************************)
(* Spec section 8: for any cycle along Next edges OrderedStates returns an *)
(* error and no order.                                                     *)
(***************************************************************************)
CycleRejected == (result # "running" /\ HasNextCycle) => result = "err"


(***************************************************************************)
(* Refinement: under the weak fairness of the calling goroutine, every run  *)
(* of the range loop and the sort implements OrderedStatesContract: the     *)
(* call returns exactly once, never an order for a dangling Next, always   *)
(* an order for a defined acyclic definition.  The internal variables     *)
(* visited and stateDeps are hidden; states and result map to themselves.  *)
(***************************************************************************)
Contract == INSTANCE OrderedStatesContract
                WITH Names <- Names, NoName <- NoName,
                     states <- states, result <- result

RefinesContract == Contract!Spec

=============================================================================
