----------------------- MODULE OrderedStatesContract -----------------------
(***************************************************************************)
(* What OrderedStates (src/resources/workflow_definitions.go) promises its *)
(* callers, as one atomic step: given a states map it returns, exactly     *)
(* once, either an order or an error.  It never returns an order for a     *)
(* definition with a dangling Next, and it always returns one for a        *)
(* definition whose Nexts are all defined and acyclic.  Which of the two   *)
(* it answers for a cyclic definition is left open: the code's answer      *)
(* depends on the map iteration order (see OrderedStates_cycle.cfg).       *)
(***************************************************************************)
EXTENDS FiniteSets

CONSTANTS Names, NoName

VARIABLES states, result

SLState == [next : Names \cup {NoName}, end : BOOLEAN]

StateMaps == UNION {[D -> SLState] : D \in SUBSET Names}

\* Every state without End names a defined state.
NextsDefined ==
    \A s \in DOMAIN states : ~states[s].end => states[s].next \in DOMAIN states

\* The Next edges of the map contain a cycle: a nonempty set of states each
\* of which is the Next of another member.
HasNextCycle ==
    \E T \in SUBSET DOMAIN states :
        /\ T # {}
        /\ \A s \in T : \E p \in T : ~states[p].end /\ states[p].next = s

Init == states \in StateMaps /\ result = "running"

\* The call returns: an error, or an order when the contract allows one.
Return ==
    /\ result = "running"
    /\ result' \in {"ok", "err"}
    /\ result' = "ok" => NextsDefined
    /\ (NextsDefined /\ ~HasNextCycle) => result' = "ok"
    /\ UNCHANGED states

\* The safety part: nothing but one Return happens.
SafeSpec == Init /\ [][Return]_<<states, result>>

Spec == SafeSpec /\ WF_<<states, result>>(Return)

=============================================================================
