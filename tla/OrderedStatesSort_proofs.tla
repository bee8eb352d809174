--------------------- MODULE OrderedStatesSort_proofs ----------------------
(***************************************************************************)
(* Lemmas about the toposort.Sort model of OrderedStates (Placed,          *)
(* SortSucceeds, Layer), for every finite dependency map.  Placed is a     *)
(* recursive function over Nat; its defining equation comes from           *)
(* NatInductiveDef, and the inductions over its index are least-element    *)
(* arguments: a nonempty set of naturals has a least member (WFMin on the *)
(* well-founded < of Nat), so a property that fails somewhere fails first *)
(* at some index, which the step then rules out.                           *)
(***************************************************************************)
EXTENDS OrderedStates, NatLemmas, FiniteSetTheorems

-----------------------------------------------------------------------------
\* One round of Kahn's layering: the names whose dependencies are all placed.
Grow(deps, v) == v \cup {n \in DOMAIN deps : deps[n] \subseteq v}

\* The defining equation of the recursive function Placed(deps).
LEMMA PlacedDef ==
    ASSUME NEW deps
    PROVE  Placed(deps) =
             [k \in Nat |-> IF k = 0 THEN {} ELSE Grow(deps, Placed(deps)[k-1])]
<1> DEFINE D(v, n) == Grow(deps, v)
<1>1. NatInductiveDefHypothesis(Placed(deps), {}, D)
  BY DEF NatInductiveDefHypothesis, Placed, Grow
<1>2. NatInductiveDefConclusion(Placed(deps), {}, D)
  BY <1>1, NatInductiveDef
<1>3. QED BY <1>2 DEF NatInductiveDefConclusion

LEMMA PlacedSteps ==
    ASSUME NEW deps
    PROVE  /\ Placed(deps)[0] = {}
           /\ \A k \in Nat : Placed(deps)[k+1] = Grow(deps, Placed(deps)[k])
<1>1. Placed(deps) =
        [k \in Nat |-> IF k = 0 THEN {} ELSE Grow(deps, Placed(deps)[k-1])]
  BY PlacedDef
<1> HIDE DEF Placed
<1>2. Placed(deps)[0] = {}
  BY <1>1
<1>3. ASSUME NEW k \in Nat PROVE Placed(deps)[k+1] = Grow(deps, Placed(deps)[k])
  <2>1. k + 1 \in Nat /\ k + 1 # 0 /\ (k + 1) - 1 = k
    OBVIOUS
  <2>2. QED BY <1>1, <2>1, Zenon
<1>4. QED BY <1>2, <1>3

\* Only names of the map are ever placed.
LEMMA PlacedInDomain ==
    ASSUME NEW deps
    PROVE  \A k \in Nat : Placed(deps)[k] \subseteq DOMAIN deps
<1> DEFINE S == {k \in Nat : Placed(deps)[k] \subseteq DOMAIN deps}
<1>1. S \in SUBSET Nat
  BY DEF S
<1>2. 0 \in S
  BY PlacedSteps DEF S
<1>3. \A n \in S : n + 1 \in S
  BY PlacedSteps DEF S, Grow
<1> HIDE DEF S
<1>4. Nat \subseteq S
  BY <1>1, <1>2, <1>3, SetInduction
<1>5. QED BY <1>4 DEF S

\* A later round has placed every name an earlier one has.
LEMMA PlacedMono ==
    ASSUME NEW deps, NEW i \in Nat, NEW j \in Nat, i <= j
    PROVE  Placed(deps)[i] \subseteq Placed(deps)[j]
<1> DEFINE S == {k \in Nat : i <= k => Placed(deps)[i] \subseteq Placed(deps)[k]}
<1>1. S \in SUBSET Nat
  BY DEF S
<1>2. 0 \in S
  BY DEF S
<1>3. ASSUME NEW n \in S PROVE n + 1 \in S
  <2>1. Placed(deps)[n] \subseteq Placed(deps)[n+1]
    BY PlacedSteps DEF Grow
  <2>2. QED BY <2>1 DEF S
<1> HIDE DEF S
<1>4. Nat \subseteq S
  BY <1>1, <1>2, <1>3, SetInduction
<1>5. QED BY <1>4 DEF S

\* Over a finite map every round is a finite set no larger than the map.
LEMMA PlacedFinite ==
    ASSUME NEW deps, IsFiniteSet(DOMAIN deps), NEW k \in Nat
    PROVE  /\ IsFiniteSet(Placed(deps)[k])
           /\ Cardinality(Placed(deps)[k]) <= Cardinality(DOMAIN deps)
BY PlacedInDomain, FS_Subset

(***************************************************************************)
(* Each round either changes nothing or has placed one name more than the  *)
(* round before: a round that places nothing new is followed only by       *)
(* rounds that place nothing new.                                          *)
(***************************************************************************)
LEMMA PlacedCount ==
    ASSUME NEW deps, IsFiniteSet(DOMAIN deps)
    PROVE  \A k \in Nat : \/ Placed(deps)[k] = Placed(deps)[k+1]
                          \/ Cardinality(Placed(deps)[k+1]) >= k + 1
<1> DEFINE P == Placed(deps)
           S == {k \in Nat : P[k] = P[k+1] \/ Cardinality(P[k+1]) >= k + 1}
<1>1. S \in SUBSET Nat
  BY DEF S
<1>2. 0 \in S
  <2>1. CASE P[1] # P[0]
    <3>1. P[1] # {}
      BY <2>1, PlacedSteps
    <3>2. IsFiniteSet(P[1]) /\ Cardinality(P[1]) \in Nat
      BY PlacedFinite, FS_CardinalityType
    <3>3. Cardinality(P[1]) # 0
      BY <3>1, <3>2, FS_EmptySet
    <3>4. QED BY <3>2, <3>3 DEF S
  <2>2. QED BY <2>1 DEF S
<1>3. ASSUME NEW n \in S PROVE n + 1 \in S
  <2>0. n \in Nat /\ n + 1 \in Nat /\ n + 2 \in Nat /\ (n + 1) + 1 = n + 2
    BY DEF S
  <2>1. CASE P[n+1] # P[n+2]
    <3>1. P[n] # P[n+1]
      <4>1. P[n+1] = Grow(deps, P[n]) /\ P[n+2] = Grow(deps, P[n+1])
        BY <2>0, PlacedSteps
      <4>2. QED BY <2>1, <4>1
    <3>2. Cardinality(P[n+1]) >= n + 1
      BY <3>1, <1>3 DEF S
    <3>3. P[n+1] \subseteq P[n+2]
      BY <2>0, PlacedMono
    <3>0. IsFiniteSet(P[n+1]) /\ IsFiniteSet(P[n+2])
      BY <2>0, PlacedFinite
    <3>4. /\ Cardinality(P[n+1]) <= Cardinality(P[n+2])
          /\ Cardinality(P[n+1]) # Cardinality(P[n+2])
      BY <2>1, <3>0, <3>3, FS_Subset
    <3>5. Cardinality(P[n+1]) \in Nat /\ Cardinality(P[n+2]) \in Nat
      BY <3>0, FS_CardinalityType
    <3>6. Cardinality(P[n+2]) >= n + 2
      BY <3>2, <3>4, <3>5
    <3>7. QED BY <3>6 DEF S
  <2>2. QED BY <2>1 DEF S
<1> HIDE DEF S
<1>4. Nat \subseteq S
  BY <1>1, <1>2, <1>3, SetInduction
<1>5. QED BY <1>4 DEF S

\* After as many rounds as the map has names, the layering is at a fixpoint.
LEMMA SortFixpoint ==
    ASSUME NEW deps, IsFiniteSet(DOMAIN deps)
    PROVE  Placed(deps)[Cardinality(DOMAIN deps) + 1]
             = Placed(deps)[Cardinality(DOMAIN deps)]
<1> DEFINE N == Cardinality(DOMAIN deps)
<1>1. N \in Nat
  BY FS_CardinalityType
<1>2. /\ IsFiniteSet(Placed(deps)[N+1])
      /\ Cardinality(Placed(deps)[N+1]) <= N
  BY <1>1, PlacedFinite
<1>3. Cardinality(Placed(deps)[N+1]) \in Nat
  BY <1>2, FS_CardinalityType
<1>4. \/ Placed(deps)[N] = Placed(deps)[N+1]
      \/ Cardinality(Placed(deps)[N+1]) >= N + 1
  BY <1>1, PlacedCount
<1>5. QED BY <1>1, <1>2, <1>3, <1>4

(***************************************************************************)
(* When toposort.Sort fails, the names it never places form a nonempty set *)
(* in which every name depends on another member: none of them can ever    *)
(* be placed.                                                              *)
(***************************************************************************)
LEMMA FailedSortStuck ==
    ASSUME NEW deps, IsFiniteSet(DOMAIN deps),
           \A n \in DOMAIN deps : deps[n] \subseteq DOMAIN deps,
           ~SortSucceeds(deps)
    PROVE  \E T \in SUBSET DOMAIN deps :
              T # {} /\ \A n \in T : deps[n] \cap T # {}
<1> DEFINE N == Cardinality(DOMAIN deps)
           P == Placed(deps)
           T == DOMAIN deps \ P[N]
<1>1. N \in Nat
  BY FS_CardinalityType
<1>2. P[N] \subseteq DOMAIN deps /\ P[N] # DOMAIN deps
  BY <1>1, PlacedInDomain DEF SortSucceeds
<1>3. P[N] = Grow(deps, P[N])
  BY <1>1, SortFixpoint, PlacedSteps
<1>4. ASSUME NEW n \in T PROVE deps[n] \cap T # {}
  <2>1. ~(deps[n] \subseteq P[N])
    BY <1>3 DEF Grow
  <2>2. QED BY <2>1
<1>5. QED BY <1>2, <1>4

(***************************************************************************)
(* When toposort.Sort succeeds, every name has exactly one layer: the      *)
(* first round that places it, which lies in 1..Cardinality(DOMAIN deps). *)
(***************************************************************************)
LEMMA LayerSpec ==
    ASSUME NEW deps, IsFiniteSet(DOMAIN deps), SortSucceeds(deps),
           NEW n \in DOMAIN deps
    PROVE  /\ Layer(deps, n) \in 1..Cardinality(DOMAIN deps)
           /\ n \in Placed(deps)[Layer(deps, n)]
           /\ n \notin Placed(deps)[Layer(deps, n) - 1]
           /\ \A k \in Nat : n \in Placed(deps)[k] => Layer(deps, n) <= k
<1> DEFINE N == Cardinality(DOMAIN deps)
           P == Placed(deps)
           K == {k \in Nat : n \in P[k]}
<1>1. N \in Nat /\ N \in K
  BY FS_CardinalityType DEF SortSucceeds
<1>2. PICK m \in K : \A j \in K : m <= j
  BY <1>1, NatMin
<1>3. m # 0
  BY PlacedSteps
<1>4. m \in 1..N /\ n \in P[m] /\ n \notin P[m-1]
  BY <1>1, <1>2, <1>3
<1>5. \A l \in 1..N : n \in P[l] /\ n \notin P[l-1] => l = m
  <2> SUFFICES ASSUME NEW l \in 1..N, n \in P[l], n \notin P[l-1]
               PROVE  l = m
    OBVIOUS
  <2>1. ~(l < m)
    BY <1>2
  <2>2. ~(m < l)
    <3>1. CASE m < l
      <4>1. P[m] \subseteq P[l-1]
        BY <3>1, <1>4, PlacedMono
      <4>2. QED BY <4>1, <1>4
    <3>2. QED BY <3>1
  <2>3. QED BY <2>1, <2>2, <1>4
<1>6. Layer(deps, n) = m
  BY <1>4, <1>5 DEF Layer
<1>7. QED BY <1>2, <1>4, <1>6

(***************************************************************************)
(* When toposort.Sort succeeds, every dependency of a name lies in an      *)
(* earlier layer than the name itself.                                     *)
(***************************************************************************)
LEMMA LayersOrdered ==
    ASSUME NEW deps, IsFiniteSet(DOMAIN deps), SortSucceeds(deps),
           NEW s \in DOMAIN deps, NEW p \in deps[s]
    PROVE  Layer(deps, p) < Layer(deps, s)
<1> DEFINE P == Placed(deps)
           L == Layer(deps, s)
<1>1. L \in 1..Cardinality(DOMAIN deps) /\ s \in P[L] /\ s \notin P[L-1]
  BY LayerSpec
<1>0. Cardinality(DOMAIN deps) \in Nat
  BY FS_CardinalityType
<1>2. P[L] = Grow(deps, P[L-1])
  <2>1. L - 1 \in Nat /\ (L - 1) + 1 = L
    BY <1>0, <1>1
  <2>2. QED BY <2>1, PlacedSteps
<1>3. p \in P[L-1]
  BY <1>1, <1>2 DEF Grow
<1>4. p \in DOMAIN deps
  BY <1>0, <1>1, <1>3, PlacedInDomain
<1>5. Layer(deps, p) \in 1..Cardinality(DOMAIN deps)
      /\ \A k \in Nat : p \in P[k] => Layer(deps, p) <= k
  BY <1>4, LayerSpec
<1>6. Layer(deps, p) <= L - 1
  BY <1>0, <1>1, <1>3, <1>5
<1>7. QED BY <1>0, <1>1, <1>5, <1>6

=====
