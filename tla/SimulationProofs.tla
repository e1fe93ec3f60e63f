-------------------------- MODULE SimulationProofs --------------------------
(***************************************************************************)
(* Proofs about PolicySimulation, for graphs of any size and any cases.    *)
(***************************************************************************)
EXTENDS PolicyValidator, FiniteSetTheorems, WellFoundedInduction, TLAPS

\* Every node a walk has left is a node of the graph.
Left == \A n \in 1..(Len(path) - 1) : path[n] \in NodeKeys

\* The reason is given only when the walk has used up its steps.
Exceeded ==
  reason = "step_limit_exceeded" => phase = "undetermined" /\ Len(path) > StepCap

\* A walk that has not ended has no reason yet.
Open == phase \in {"ready", "walking"} => reason = None

WalkInv == TypeOK /\ TraceIsWalk /\ (phase \notin {"ready", "failed"} => Left) /\ Exceeded /\ Open

\* What the constants say of the graph of a state.
LEMMA GraphFacts ==
  ASSUME TypeOK
  PROVE  /\ IsFiniteSet(NodeKeys) /\ NodeKeys \subseteq Keys
         /\ Cardinality(NodeKeys) \in Nat
         /\ StepCap \in Nat
         /\ \A i \in DOMAIN g.edges : g.edges[i] \in Edge
         /\ \A k \in NodeKeys : g.nodes[k] \in Node
<1>1. IsFiniteSet(NodeKeys) /\ NodeKeys \subseteq Keys
      /\ \A k \in NodeKeys : g.nodes[k] \in Node
  BY DEF TypeOK, GraphAndCase, NodeKeys
<1>2. Cardinality(NodeKeys) \in Nat
  BY <1>1, FS_CardinalityType
<1>3. StepCap \in Nat
  BY <1>2 DEF StepCap
<1>4. \A i \in DOMAIN g.edges : g.edges[i] \in Edge
  BY DEF TypeOK, GraphAndCase
<1> QED
  BY <1>1, <1>2, <1>3, <1>4

LEMMA MergeType ==
  ASSUME NEW state \in Facts, NEW output \in Facts
  PROVE  Merge(state, output) \in Facts
BY DEF Merge, Facts

LEMMA WalkInit == Init => WalkInv
<1> SUFFICES ASSUME Init PROVE WalkInv
  OBVIOUS
<1>1. GraphAndCase(g)
  BY SimulationAssumption DEF Init
<1>2. TypeOK
  BY <1>1 DEF Init, TypeOK, GraphAndCase
<1> QED
  BY <1>2, SimulationAssumption DEF Init, WalkInv, TraceIsWalk, Exceeded, Open

\* The three kinds of step after the start: an end, a failure, an edge.
LEMMA Kinds ==
  ASSUME WalkInv, Next
  PROVE  \/ Start
         \/ UnknownNode
         \/ \E why : Iterating /\ why # "step_limit_exceeded"
                       /\ \/ Stop("undetermined", why)
                          \/ Stop("awaiting_human", why)
                          \/ Stop("completed", why) /\ Outgoing(current) = {}
         \/ StepLimit
         \/ \E i \in Outgoing(current), state \in Facts : Iterating /\ Follow(i, state)
<1> USE DEF WalkInv
<1>1. ASSUME Iterating
      PROVE  \A t \in DOMAIN g.nodes[current].tests :
               Merge(facts, g.nodes[current].tests[t].output) \in Facts
  <2>1. g.nodes[current] \in Node
    BY <1>1, GraphFacts DEF Iterating
  <2>2. g.nodes[current].tests \in Seq(Test)
    BY <2>1 DEF Node
  <2>3. \A t \in DOMAIN g.nodes[current].tests : g.nodes[current].tests[t].output \in Facts
    <3> SUFFICES ASSUME NEW t \in DOMAIN g.nodes[current].tests
                 PROVE  g.nodes[current].tests[t].output \in Facts
      OBVIOUS
    <3>1. g.nodes[current].tests[t] \in Test
      BY <2>2
    <3> QED
      BY <3>1 DEF Test
  <2> QED
    BY <2>3, MergeType DEF TypeOK
<1>2. \A t \in Matching(current) : t \in DOMAIN g.nodes[current].tests
  BY DEF Matching
<1>3. CASE Terminal
  BY <1>3, SimulationAssumption DEF Terminal
<1>4. CASE TakeOnlyEdge
  BY <1>1, <1>2, <1>4 DEF TakeOnlyEdge, TypeOK
<1>5. CASE TakeOverride
  BY <1>5 DEF TakeOverride, Branching, Labelled, TypeOK
<1>6. CASE Replay
  BY <1>1, <1>2, <1>6 DEF Replay, Branching, Labelled, TypeOK
<1> QED
  BY <1>3, <1>4, <1>5, <1>6 DEF Next

LEMMA WalkStep == WalkInv /\ [Next]_vars => WalkInv'
<1> SUFFICES ASSUME WalkInv, [Next]_vars PROVE WalkInv'
  OBVIOUS
<1> USE DEF WalkInv
<1>0. CASE UNCHANGED vars
  <2>1. UNCHANGED <<g, phase, reason, current, facts, path>>
    BY <1>0 DEF vars
  <2>2. NodeKeys' = NodeKeys /\ StepCap' = StepCap /\ Starts' = Starts
        /\ Outgoing(current)' = Outgoing(current)
    BY <2>1 DEF NodeKeys, StepCap, Starts, Outgoing
  <2>3. TypeOK'
    BY <2>1 DEF TypeOK
  <2>4. TraceIsWalk'
    BY <2>1, <2>2 DEF TraceIsWalk
  <2> QED
    BY <2>1, <2>2, <2>3, <2>4 DEF Left, Exceeded, Open
<1>1. CASE Start
  <2>1. g' = g /\ facts' = facts /\ phase = "ready" /\ reason = None
    BY <1>1 DEF Start, Open
  <2>2. NodeKeys' = NodeKeys /\ StepCap' = StepCap /\ Starts' = Starts
    BY <2>1 DEF NodeKeys, StepCap, Starts
  <2>3. CASE phase' = "failed"
    BY <1>1, <2>1, <2>3, SimulationAssumption
       DEF Start, TypeOK, TraceIsWalk, Exceeded, Open
  <2>4. ASSUME NEW k \in Starts, Starts = {k},
               phase' = "walking", current' = k, path' = <<k>>, reason' = reason
        PROVE  WalkInv'
    <3>1. k \in Keys
      BY GraphFacts DEF Starts
    <3>2. TypeOK'
      BY <2>1, <2>4, <3>1 DEF TypeOK
    <3>3. path'[1] = k /\ Len(path') = 1
      BY <2>4
    <3>4. TraceIsWalk'
      BY <2>2, <2>4, <3>3, GraphFacts DEF TraceIsWalk
    <3> QED
      BY <2>1, <2>4, <3>2, <3>3, <3>4, SimulationAssumption DEF Left, Exceeded, Open
  <2> QED
    BY <1>1, <2>3, <2>4 DEF Start
<1>2. CASE UnknownNode
  BY <1>2 DEF UnknownNode, TypeOK, TraceIsWalk, Exceeded, Open
<1>3. ASSUME NEW why, NEW s, s \in {"undetermined", "awaiting_human", "completed"},
             phase = "walking", Stop(s, why),
             s = "completed" => Iterating /\ Outgoing(current) = {},
             why = "step_limit_exceeded" => s = "undetermined" /\ Len(path) > StepCap
      PROVE  WalkInv'
  <2>1. UNCHANGED <<g, current, facts, path>> /\ phase' = s /\ reason' = why
    BY <1>3 DEF Stop
  <2>2. NodeKeys' = NodeKeys /\ StepCap' = StepCap /\ Starts' = Starts
        /\ Outgoing(current)' = Outgoing(current)
    BY <2>1 DEF NodeKeys, StepCap, Starts, Outgoing
  <2>3. TypeOK'
    BY <1>3, <2>1 DEF TypeOK
  <2>4. TraceIsWalk'
    BY <1>3, <2>1, <2>2 DEF TraceIsWalk, Iterating
  <2> QED
    BY <1>3, <2>1, <2>2, <2>3, <2>4 DEF Left, Exceeded, Open
<1>4. ASSUME NEW i \in Outgoing(current), NEW state \in Facts, Iterating, Follow(i, state)
      PROVE  WalkInv'
  <2> DEFINE next == g.edges[i].to
  <2>1. UNCHANGED <<g, phase, reason>> /\ current' = next /\ facts' = state
        /\ path' = Append(path, next) /\ phase = "walking" /\ current \in NodeKeys
        /\ Len(path) <= StepCap
    BY <1>4 DEF Follow, Iterating
  <2>2. NodeKeys' = NodeKeys /\ StepCap' = StepCap /\ Starts' = Starts
    BY <2>1 DEF NodeKeys, StepCap, Starts
  <2>3. next \in Keys /\ g.edges[i].from = current /\ i \in DOMAIN g.edges
    BY GraphFacts DEF Outgoing, Edge
  <2> HIDE DEF next
  <2>4. TypeOK'
    BY <2>1, <2>3 DEF TypeOK
  <2>5. /\ path \in Seq(Keys) /\ Len(path) \in Nat \ {0}
        /\ Starts = {path[1]} /\ path[Len(path)] = current /\ StepCap \in Nat
    BY <2>1, GraphFacts DEF TypeOK, TraceIsWalk
  <2>6. /\ Len(path') = Len(path) + 1 /\ path'[Len(path')] = next
        /\ \A n \in 1..Len(path) : path'[n] = path[n]
    BY <2>1, <2>3, <2>5
  <2>7. ASSUME NEW n \in 1..(Len(path') - 1)
        PROVE  \E e \in DOMAIN g.edges :
                 g.edges[e].from = path'[n] /\ g.edges[e].to = path'[n + 1]
    <3>1. CASE n = Len(path)
      BY <2>3, <2>5, <2>6, <3>1 DEF next
    <3>2. CASE n # Len(path)
      <4>1. n \in 1..(Len(path) - 1) /\ n + 1 \in 1..Len(path)
        BY <2>5, <2>6, <3>2
      <4>2. path'[n] = path[n] /\ path'[n + 1] = path[n + 1]
        BY <2>6, <4>1, <2>5
      <4> QED
        BY <2>1, <4>1, <4>2 DEF TraceIsWalk
    <3> QED
      BY <3>1, <3>2
  <2>8. TraceIsWalk'
    <3>1. Len(path') \in 1..(StepCap' + 1)
      BY <2>1, <2>2, <2>5, <2>6
    <3>2. Starts' = {path'[1]} /\ path'[Len(path')] = current'
      BY <2>1, <2>2, <2>5, <2>6
    <3> QED
      BY <2>1, <2>7, <3>1, <3>2 DEF TraceIsWalk
  <2>9. Left'
    BY <2>1, <2>2, <2>5, <2>6 DEF Left
  <2> QED
    BY <2>1, <2>2, <2>4, <2>8, <2>9, SimulationAssumption DEF Exceeded, Open
<1>5. CASE StepLimit
  BY <1>3, <1>5 DEF StepLimit
<1> QED
  BY <1>0, <1>1, <1>2, <1>3, <1>4, <1>5, Kinds DEF Iterating

LEMMA WalkInvariant == Spec => []WalkInv
BY WalkInit, WalkStep, PTL DEF Spec

\* Every state of a replay is well typed, for graphs of any size.
THEOREM SimulationTypeCorrect == Spec => []TypeOK
BY WalkInvariant, PTL DEF WalkInv

\* The trace that run_case returns is a walk of drawn edges from the one
\* start node, within the step cap, whatever the graph and the case.
THEOREM TracesAreWalks == Spec => []TraceIsWalk
BY WalkInvariant, PTL DEF WalkInv

\* More positions than nodes, so two of them hold the same node.
LEMMA LimitIsCycle == WalkInv => StepLimitMeansCycle
<1> SUFFICES ASSUME WalkInv, reason = "step_limit_exceeded"
             PROVE  \E m, n \in DOMAIN path : m < n /\ path[m] = path[n]
  BY DEF StepLimitMeansCycle
<1> DEFINE steps == 1..(Len(path) - 1)
           at == [n \in steps |-> path[n]]
<1>1. /\ IsFiniteSet(NodeKeys) /\ Cardinality(NodeKeys) \in Nat /\ StepCap \in Nat
      /\ path \in Seq(Keys) /\ Len(path) \in Nat /\ Len(path) > StepCap
      /\ phase = "undetermined"
  BY GraphFacts DEF WalkInv, Exceeded, TypeOK
<1>2. NodeKeys # {}
  BY <1>1 DEF WalkInv, TraceIsWalk, Starts
<1>3. Cardinality(NodeKeys) >= 1 /\ StepCap = 2 * Cardinality(NodeKeys)
  BY <1>1, <1>2, FS_EmptySet DEF StepCap
<1>4. IsFiniteSet(steps) /\ Cardinality(steps) = Len(path) - 1
  <2> DEFINE b == Len(path) - 1
  <2>1. b \in Int /\ ~(1 > b) /\ b - 1 + 1 = b
    BY <1>1, <1>3
  <2> HIDE DEF b
  <2>2. IsFiniteSet(1..b) /\ Cardinality(1..b) = IF 1 > b THEN 0 ELSE b - 1 + 1
    BY <2>1, FS_Interval
  <2>3. IsFiniteSet(1..b) /\ Cardinality(1..b) = b
    BY <2>1, <2>2
  <2> QED
    BY <2>3 DEF b
<1>5. at \in [steps -> NodeKeys]
  BY <1>1 DEF WalkInv, Left
<1>6. Cardinality(NodeKeys) < Cardinality(steps)
  BY <1>1, <1>3, <1>4
<1>7. PICK x, y \in steps : x # y /\ at[x] = at[y]
  <2> HIDE DEF steps, at
  <2> QED BY <1>1, <1>4, <1>5, <1>6, FS_PigeonHole
<1>8. path[x] = path[y] /\ x \in DOMAIN path /\ y \in DOMAIN path /\ (x < y \/ y < x)
  BY <1>1, <1>7
<1> QED
  BY <1>8

\* A case stopped by the step limit went round a cycle.
THEOREM LimitMeansCycle == Spec => []StepLimitMeansCycle
BY LimitIsCycle, WalkInvariant, PTL

\* Every step of a case begins it, ends it or makes its path longer, which
\* TraceIsWalk bounds by the step cap: run_case cannot go on for ever.
THEOREM WalkProgress ==
  Spec => [][/\ phase \in {"ready", "walking"}
             /\ \/ phase' \notin {"ready", "walking"}
                \/ phase = "ready" /\ phase' = "walking"
                \/ phase = "walking" /\ phase' = "walking" /\ Len(path') = Len(path) + 1]_vars
<1>1. ASSUME WalkInv, Next
      PROVE  /\ phase \in {"ready", "walking"}
             /\ \/ phase' \notin {"ready", "walking"}
                \/ phase = "ready" /\ phase' = "walking"
                \/ phase = "walking" /\ phase' = "walking" /\ Len(path') = Len(path) + 1
  <2>1. CASE Start
    BY <2>1 DEF Start
  <2>2. CASE UnknownNode \/ StepLimit
    BY <2>2 DEF UnknownNode, StepLimit, Stop
  <2>3. ASSUME NEW why, Iterating, \/ Stop("undetermined", why)
                                   \/ Stop("awaiting_human", why)
                                   \/ Stop("completed", why)
        PROVE  phase = "walking" /\ phase' \notin {"ready", "walking"}
    BY <2>3 DEF Stop, Iterating
  <2>4. ASSUME NEW i \in Outgoing(current), NEW state \in Facts, Iterating, Follow(i, state)
        PROVE  phase = "walking" /\ phase' = "walking" /\ Len(path') = Len(path) + 1
    <3>1. g.edges[i].to \in Keys /\ path \in Seq(Keys)
      BY <1>1, GraphFacts DEF WalkInv, TypeOK, Outgoing, Edge
    <3> QED
      BY <2>4, <3>1 DEF Follow, Iterating
  <2> QED
    BY <1>1, <2>1, <2>2, <2>3, <2>4, Kinds
<1> QED
  BY <1>1, WalkInvariant, PTL DEF Spec

-----------------------------------------------------------------------------
(* Reachability. *)

LEMMA WaysLead ==
  ASSUME TypeOK, NEW k \in NodeKeys
  PROVE  /\ \A i \in Ways(k) : Target(k, i) \in NodeKeys /\ Target(k, i) \in OutAdj(k)
         /\ OutAdj(k) \subseteq NodeKeys
<1>1. g.edges \in Seq(Edge) /\ DOMAIN g.edges = 1..Len(g.edges) /\ Len(g.edges) \in Nat
  BY DEF TypeOK, GraphAndCase
<1>2. Len(g.edges) + 1 \notin DOMAIN g.edges
  BY <1>1
<1>3. \A i \in Ways(k) : Target(k, i) \in NodeKeys
  BY <1>2 DEF Ways, Target, Outgoing
<1> QED
  BY <1>3 DEF OutAdj

LEMMA ReachRefl ==
  ASSUME NEW k \in NodeKeys
  PROVE  k \in Reach(k)
BY DEF Reach

LEMMA ReachTrans ==
  ASSUME NEW k, NEW n \in Reach(k), NEW m \in Reach(n)
  PROVE  m \in Reach(k)
BY DEF Reach

LEMMA ReachStep ==
  ASSUME TypeOK, NEW k \in NodeKeys, NEW m \in OutAdj(k)
  PROVE  m \in Reach(k)
BY WaysLead DEF Reach, Closed

LEMMA ReachInside ==
  ASSUME NEW S \in SUBSET NodeKeys, Closed(S), NEW k \in S, NEW n \in Reach(k)
  PROVE  n \in S
BY DEF Reach

LEMMA ReachClosed ==
  ASSUME TypeOK, NEW k \in NodeKeys
  PROVE  Reach(k) \in SUBSET NodeKeys /\ Closed(Reach(k))
<1>1. Reach(k) \subseteq NodeKeys
  BY DEF Reach
<1>2. ASSUME NEW n \in Reach(k), NEW m \in OutAdj(n) PROVE m \in Reach(k)
  BY <1>1, <1>2, ReachStep, ReachTrans
<1> QED
  BY <1>1, <1>2 DEF Closed

LEMMA ReachKeys == \A k : Reach(k) \subseteq NodeKeys
BY DEF Reach

-----------------------------------------------------------------------------
(* The validator. *)

\* The nodes on Tarjan's stack, the ones whose call is open, and the ones
\* that are in a component already.
On == {stack[i] : i \in DOMAIN stack}
Gray == {calls[i] : i \in DOMAIN calls}
Done == UNION Components

Class(k) == {n \in Reach(k) : k \in Reach(n)}

ScanType ==
  /\ stage \in {"reach", "sccs", "checked"}
  /\ seen \subseteq NodeKeys /\ frontier \subseteq seen
  /\ index \in [NodeKeys -> Nat] /\ lowlink \in [NodeKeys -> Nat] /\ count \in Nat \ {0}
  /\ stack \in Seq(NodeKeys) /\ calls \in Seq(NodeKeys) /\ result \in Seq(SUBSET NodeKeys)
  /\ DOMAIN todo = NodeKeys /\ \A k \in NodeKeys : todo[k] \subseteq Ways(k)

\* Both stacks are in the order of the visits, and the open calls are on
\* Tarjan's stack.
Ordered ==
  /\ \A i, j \in DOMAIN stack : i < j => index[stack[i]] < index[stack[j]]
  /\ \A i, j \in DOMAIN calls : i < j => index[calls[i]] < index[calls[j]]
  /\ \A k \in NodeKeys : index[k] < count
  /\ Gray \subseteq On

\* A visited node is on the stack or in a component, never both.
Colours ==
  /\ \A k \in NodeKeys : index[k] # 0 <=> k \in On \cup Done
  /\ On \cap Done = {}

\* How far the loops are: only an open call has ways left, and the ways
\* that were taken led to visited nodes.
Loops ==
  \A k \in NodeKeys :
    /\ index[k] = 0 => todo[k] = Ways(k)
    /\ index[k] # 0 /\ k \notin Gray => todo[k] = {}
    /\ \A i \in Ways(k) \ todo[k] : index[Target(k, i)] # 0

\* No way leads out of the components found so far; each is a class, and none
\* is there twice.
Found ==
  /\ Closed(Done)
  /\ \A c \in Components : \E k \in NodeKeys : c = Class(k)
  /\ \A c \in Components : c # {}
  /\ \A i, j \in DOMAIN result : result[i] = result[j] => i = j

\* An open call reaches everything above it on the stack.
Down == \A x \in Gray, y \in On : index[x] <= index[y] => y \in Reach(x)

\* Everything on the stack reaches an open call at or below it.
Up == \A y \in On : \E x \in Gray : index[x] <= index[y] /\ x \in Reach(y)

\* lowlink is the index of a node on the stack that can be reached.
LowIsReached ==
  \A v \in On : /\ lowlink[v] <= index[v]
                /\ \E u \in On : index[u] = lowlink[v] /\ u \in Reach(v)

\* v is the open call that answers for y: the topmost at or below it.
Owns(v, y) ==
  /\ index[v] <= index[y]
  /\ \A u \in Gray : index[u] <= index[y] => index[u] <= index[v]

\* The lowlink of an open call is no more than the index of any node on the
\* stack that a way already taken, of a node it answers for, leads to.
LowIsLeast ==
  \A v \in Gray, y \in On :
    Owns(v, y) =>
      \A i \in Ways(y) \ todo[y] :
        Target(y, i) \in On => lowlink[v] <= index[Target(y, i)]

\* What the frontier loop has seen can be reached from a start node, and it
\* has followed every way out of what has left the frontier.
Frontier ==
  /\ StartNodes \subseteq seen
  /\ \A n \in seen : \E k \in StartNodes : n \in Reach(k)
  /\ \A k \in seen \ frontier : OutAdj(k) \subseteq seen
  /\ stage # "reach" => frontier = {}

Ended == stage = "checked" => calls = << >> /\ \A k \in NodeKeys : index[k] # 0
TarjanInv == Ordered /\ Colours /\ Loops /\ Found /\ Down /\ Up /\ LowIsReached /\ LowIsLeast
ScanInv == ScanType /\ TarjanInv /\ Frontier /\ Ended

\* Everything that is read off the graph alone.
LEMMA SameGraph ==
  ASSUME g' = g
  PROVE  /\ NodeKeys' = NodeKeys /\ StartNodes' = StartNodes
         /\ \A k : Ways(k)' = Ways(k)
         /\ \A k, i : Target(k, i)' = Target(k, i)
         /\ \A k : OutAdj(k)' = OutAdj(k)
         /\ \A k : Reach(k)' = Reach(k)
         /\ \A k : Class(k)' = Class(k)
<1>1. NodeKeys' = NodeKeys
  BY DEF NodeKeys
<1>2. \A k : Ways(k)' = Ways(k)
  BY <1>1 DEF Ways, Outgoing, Fallback
<1>3. \A k, i : Target(k, i)' = Target(k, i)
  BY DEF Target, Fallback
<1>4. \A k : OutAdj(k)' = OutAdj(k)
  BY <1>2, <1>3 DEF OutAdj
<1>5. \A k : Reach(k)' = Reach(k)
  BY <1>1, <1>4 DEF Reach, Closed
<1>6. \A k : Class(k)' = Class(k)
  BY <1>5 DEF Class
<1>7. StartNodes' = StartNodes
  BY <1>1, <1>4 DEF StartNodes, Islands, Incoming
<1> QED
  BY <1>1, <1>2, <1>3, <1>4, <1>5, <1>6, <1>7

\* Indices tell the nodes of a stack apart.
LEMMA StackFacts ==
  ASSUME ScanType, Ordered, Colours
  PROVE  /\ On \subseteq NodeKeys /\ Gray \subseteq NodeKeys /\ Gray \subseteq On
         /\ Done \subseteq NodeKeys
         /\ \A k \in On : index[k] # 0
         /\ \A k, n \in On : index[k] = index[n] => k = n
<1>1. On \subseteq NodeKeys /\ Gray \subseteq NodeKeys
  BY DEF ScanType, On, Gray
<1>2. Done \subseteq NodeKeys
  <2>1. \A i \in DOMAIN result : result[i] \in SUBSET NodeKeys
    BY DEF ScanType
  <2> QED
    BY <2>1 DEF Done, Components
<1>3. \A k \in On : index[k] # 0
  BY <1>1 DEF Colours
<1>4. ASSUME NEW k \in On, NEW n \in On, index[k] = index[n] PROVE k = n
  <2>1. PICK i \in DOMAIN stack : k = stack[i]
    BY DEF On
  <2>2. PICK j \in DOMAIN stack : n = stack[j]
    BY DEF On
  <2>3. i \in Nat /\ j \in Nat /\ index[k] \in Nat
    BY <1>1 DEF ScanType
  <2>4. ~(i < j) /\ ~(j < i)
    BY <1>4, <2>1, <2>2, <2>3 DEF Ordered
  <2> QED
    BY <2>1, <2>2, <2>3, <2>4
<1> QED
  BY <1>1, <1>2, <1>3, <1>4 DEF Ordered

LEMMA TopFacts ==
  ASSUME ScanType, Ordered, Colours, calls # << >>
  PROVE  /\ Top \in Gray /\ Top \in On /\ Top \in NodeKeys
         /\ \A x \in Gray : x # Top => index[x] < index[Top]
<1>1. Len(calls) \in DOMAIN calls /\ DOMAIN calls = 1..Len(calls) /\ Len(calls) \in Nat
  BY DEF ScanType
<1>2. Top \in Gray
  BY <1>1 DEF Gray, Top
<1>3. ASSUME NEW x \in Gray, x # Top PROVE index[x] < index[Top]
  <2>1. PICK i \in DOMAIN calls : x = calls[i]
    BY DEF Gray
  <2>2. i < Len(calls)
    BY <1>1, <1>3, <2>1 DEF Top
  <2> QED
    BY <1>1, <2>1, <2>2 DEF Ordered, Top
<1> QED
  BY <1>2, <1>3, StackFacts

\* A call puts its node on both stacks.
LEMMA CallSets ==
  ASSUME ScanType, NEW w \in NodeKeys, StrongConnect(w)
  PROVE  On' = On \cup {w} /\ Gray' = Gray \cup {w}
<1>1. /\ stack \in Seq(NodeKeys) /\ stack' = Append(stack, w)
      /\ calls \in Seq(NodeKeys) /\ calls' = Append(calls, w)
  BY DEF ScanType, StrongConnect
<1>2. /\ DOMAIN stack' = DOMAIN stack \cup {Len(stack) + 1}
      /\ \A i \in DOMAIN stack : stack'[i] = stack[i]
      /\ stack'[Len(stack) + 1] = w
  BY <1>1
<1>3. /\ DOMAIN calls' = DOMAIN calls \cup {Len(calls) + 1}
      /\ \A i \in DOMAIN calls : calls'[i] = calls[i]
      /\ calls'[Len(calls) + 1] = w
  BY <1>1
<1>4. On' = On \cup {w}
  BY <1>2 DEF On
<1>5. Gray' = Gray \cup {w}
  BY <1>3 DEF Gray
<1> QED
  BY <1>4, <1>5

LEMMA CallOrdered ==
  ASSUME ScanType, Ordered, Colours, g' = g,
         NEW w \in NodeKeys, index[w] = 0, StrongConnect(w)
  PROVE  Ordered'
<1>1. /\ stack \in Seq(NodeKeys) /\ stack' = Append(stack, w)
      /\ calls \in Seq(NodeKeys) /\ calls' = Append(calls, w)
      /\ index \in [NodeKeys -> Nat] /\ count \in Nat \ {0}
      /\ index' = [index EXCEPT ![w] = count] /\ count' = count + 1
  BY DEF ScanType, StrongConnect
<1>2. /\ DOMAIN stack' = DOMAIN stack \cup {Len(stack) + 1}
      /\ \A i \in DOMAIN stack : stack'[i] = stack[i] /\ i < Len(stack) + 1 /\ i \in Nat
      /\ stack'[Len(stack) + 1] = w
  BY <1>1
<1>3. /\ DOMAIN calls' = DOMAIN calls \cup {Len(calls) + 1}
      /\ \A i \in DOMAIN calls : calls'[i] = calls[i] /\ i < Len(calls) + 1 /\ i \in Nat
      /\ calls'[Len(calls) + 1] = w
  BY <1>1
<1>4. w \notin On /\ w \notin Gray
  BY StackFacts
<1>5. NodeKeys' = NodeKeys
  BY SameGraph
<1>6. \A k \in NodeKeys : index'[k] < count' /\ index[k] < count
  BY <1>1 DEF Ordered
<1>7. /\ \A i \in DOMAIN stack : stack[i] \in NodeKeys /\ stack[i] # w
      /\ \A i \in DOMAIN calls : calls[i] \in NodeKeys /\ calls[i] # w
  BY <1>1, <1>4 DEF On, Gray
<1>8. index'[w] = count /\ \A k \in NodeKeys : k # w => index'[k] = index[k]
  BY <1>1
<1>9. \A i, j \in DOMAIN stack' : i < j => index'[stack'[i]] < index'[stack'[j]]
  <2> SUFFICES ASSUME NEW i \in DOMAIN stack', NEW j \in DOMAIN stack', i < j
               PROVE  index'[stack'[i]] < index'[stack'[j]]
    OBVIOUS
  <2>0. Len(stack) \in Nat
    BY <1>1
  <2>1. i \in DOMAIN stack
    BY <1>2, <2>0
  <2>2. CASE j = Len(stack) + 1
    BY <1>2, <1>6, <1>7, <1>8, <2>1, <2>2
  <2>3. CASE j \in DOMAIN stack
    BY <1>2, <1>7, <1>8, <2>1, <2>3 DEF Ordered
  <2> QED
    BY <1>2, <2>2, <2>3
<1>10. \A i, j \in DOMAIN calls' : i < j => index'[calls'[i]] < index'[calls'[j]]
  <2> SUFFICES ASSUME NEW i \in DOMAIN calls', NEW j \in DOMAIN calls', i < j
               PROVE  index'[calls'[i]] < index'[calls'[j]]
    OBVIOUS
  <2>0. Len(calls) \in Nat
    BY <1>1
  <2>1. i \in DOMAIN calls
    BY <1>3, <2>0
  <2>2. CASE j = Len(calls) + 1
    BY <1>3, <1>6, <1>7, <1>8, <2>1, <2>2
  <2>3. CASE j \in DOMAIN calls
    BY <1>3, <1>7, <1>8, <2>1, <2>3 DEF Ordered
  <2> QED
    BY <1>3, <2>2, <2>3
<1>11. Gray' \subseteq On'
  BY CallSets DEF Ordered
<1> QED
  BY <1>5, <1>6, <1>9, <1>10, <1>11 DEF Ordered

\* A call of strongconnect, by the outer loop or by the loop of an open call
\* that took the way to w.
LEMMA CallStep ==
  ASSUME TypeOK, ScanType, TarjanInv, g' = g, result' = result,
         NEW w \in NodeKeys, index[w] = 0, StrongConnect(w),
         \A x \in Gray : w \in Reach(x),
         \A k \in NodeKeys : /\ todo'[k] \subseteq todo[k]
                             /\ k \notin Gray => todo'[k] = todo[k]
                             /\ \A i \in todo[k] \ todo'[k] : Target(k, i) = w
  PROVE  TarjanInv'
<1> USE DEF TarjanInv
<1>1. On' = On \cup {w} /\ Gray' = Gray \cup {w}
  BY CallSets
<1>2. Ordered'
  BY CallOrdered
<1>3. /\ index \in [NodeKeys -> Nat] /\ lowlink \in [NodeKeys -> Nat] /\ count \in Nat \ {0}
      /\ index' = [index EXCEPT ![w] = count] /\ lowlink' = [lowlink EXCEPT ![w] = count]
  BY DEF ScanType, StrongConnect
<1>4. /\ index'[w] = count /\ lowlink'[w] = count /\ count # 0 /\ count \in Nat
      /\ \A k \in NodeKeys : k # w => index'[k] = index[k] /\ lowlink'[k] = lowlink[k]
      /\ \A k \in NodeKeys : index[k] < count /\ index[k] \in Nat /\ lowlink[k] \in Nat
  BY <1>3 DEF Ordered
<1>5. /\ On \subseteq NodeKeys /\ Gray \subseteq On /\ Done \subseteq NodeKeys
      /\ w \notin On /\ w \notin Gray /\ w \notin Done
  BY StackFacts DEF Colours
<1>6. /\ NodeKeys' = NodeKeys
      /\ \A k : Ways(k)' = Ways(k) /\ Reach(k)' = Reach(k) /\ OutAdj(k)' = OutAdj(k)
      /\ \A k, i : Target(k, i)' = Target(k, i)
      /\ \A k : Class(k)' = Class(k)
  BY SameGraph
<1>7. Components' = Components /\ Done' = Done
  BY DEF Components, Done
<1>8. Colours'
  BY <1>1, <1>4, <1>5, <1>6, <1>7 DEF Colours
<1>9. Loops'
  <2> SUFFICES ASSUME NEW k \in NodeKeys
               PROVE  /\ index'[k] = 0 => todo'[k] = Ways(k)
                      /\ index'[k] # 0 /\ k \notin Gray' => todo'[k] = {}
                      /\ \A i \in Ways(k) \ todo'[k] : index'[Target(k, i)] # 0
    BY <1>6 DEF Loops
  <2>1. index'[k] = 0 => todo'[k] = Ways(k)
    BY <1>4, <1>5 DEF Loops, Colours
  <2>2. index'[k] # 0 /\ k \notin Gray' => todo'[k] = {}
    BY <1>1, <1>4 DEF Loops
  <2>3. ASSUME NEW i \in Ways(k) \ todo'[k] PROVE index'[Target(k, i)] # 0
    <3>1. Target(k, i) \in NodeKeys
      BY WaysLead
    <3>2. Target(k, i) = w \/ index[Target(k, i)] # 0
      BY DEF Loops
    <3> QED
      BY <1>4, <3>1, <3>2
  <2> QED
    BY <2>1, <2>2, <2>3
<1>10. Found'
  BY <1>6, <1>7 DEF Found, Closed
<1>11. Down'
  <2> SUFFICES ASSUME NEW x \in Gray', NEW y \in On', index'[x] <= index'[y]
               PROVE  y \in Reach(x)
    BY <1>6 DEF Down
  <2>1. CASE x = w
    <3>1. y = w
      BY <1>1, <1>4, <1>5, <2>1
    <3> QED
      BY <2>1, <3>1, ReachRefl
  <2>2. CASE x # w /\ y = w
    BY <1>1, <2>2
  <2>3. CASE x # w /\ y # w
    BY <1>1, <1>4, <1>5, <2>3 DEF Down
  <2> QED
    BY <2>1, <2>2, <2>3
<1>12. Up'
  <2> SUFFICES ASSUME NEW y \in On'
               PROVE  \E x \in Gray' : index'[x] <= index'[y] /\ x \in Reach(y)
    BY <1>6 DEF Up
  <2>1. CASE y = w
    BY <1>1, <1>4, <2>1, ReachRefl
  <2>2. CASE y # w
    <3>1. PICK x \in Gray : index[x] <= index[y] /\ x \in Reach(y)
      BY <1>1, <2>2 DEF Up
    <3> QED
      BY <1>1, <1>4, <1>5, <2>2, <3>1
  <2> QED
    BY <2>1, <2>2
<1>13. LowIsReached'
  <2> SUFFICES ASSUME NEW v \in On'
               PROVE  /\ lowlink'[v] <= index'[v]
                      /\ \E u \in On' : index'[u] = lowlink'[v] /\ u \in Reach(v)
    BY <1>6 DEF LowIsReached
  <2>1. CASE v = w
    BY <1>1, <1>4, <2>1, ReachRefl
  <2>2. CASE v # w
    <3>1. PICK u \in On : index[u] = lowlink[v] /\ u \in Reach(v)
      BY <1>1, <2>2 DEF LowIsReached
    <3>2. lowlink[v] <= index[v]
      BY <1>1, <2>2 DEF LowIsReached
    <3> QED
      BY <1>1, <1>4, <1>5, <2>2, <3>1, <3>2
  <2> QED
    BY <2>1, <2>2
<1>14. LowIsLeast'
  <2> SUFFICES ASSUME NEW v \in Gray', NEW y \in On', Owns(v, y)',
                      NEW i \in Ways(y) \ todo'[y], Target(y, i) \in On'
               PROVE  lowlink'[v] <= index'[Target(y, i)]
    BY <1>6 DEF LowIsLeast
  <2>0. y \in NodeKeys /\ v \in NodeKeys /\ Target(y, i) \in NodeKeys
    BY <1>1, <1>5, WaysLead
  <2>1. CASE y = w
    BY <1>5, <2>1 DEF Loops
  <2>2. CASE y # w
    <3>1. index'[v] <= index'[y] /\ index'[y] = index[y] /\ index[y] < count
      BY <1>4, <2>0, <2>2 DEF Owns
    <3>2. v # w /\ v \in Gray /\ y \in On
      BY <1>1, <1>4, <2>0, <2>2, <3>1
    <3>3. Owns(v, y)
      BY <1>1, <1>4, <1>5, <2>0, <2>2, <3>1, <3>2 DEF Owns
    <3>4. lowlink[v] <= index[v] /\ index[v] < count
      BY <1>4, <1>5, <3>2, <2>0 DEF LowIsReached
    <3>5. CASE Target(y, i) = w
      BY <1>4, <2>0, <3>2, <3>4, <3>5
    <3>6. CASE Target(y, i) # w
      <4>1. i \in Ways(y) \ todo[y] /\ Target(y, i) \in On
        BY <1>1, <2>0, <3>6
      <4>2. lowlink[v] <= index[Target(y, i)]
        BY <3>2, <3>3, <4>1 DEF LowIsLeast
      <4> QED
        BY <1>4, <2>0, <3>2, <3>6, <4>2
    <3> QED
      BY <3>5, <3>6
  <2> QED
    BY <2>1, <2>2
<1> QED
  BY <1>2, <1>8, <1>9, <1>10, <1>11, <1>12, <1>13, <1>14

\* The loop of v takes a way to a node that was visited before.
LEMMA EdgeStep ==
  ASSUME TypeOK, ScanType, TarjanInv, g' = g, calls # << >>,
         UNCHANGED <<index, count, stack, calls, result>>,
         NEW i \in todo[Top], index[Target(Top, i)] # 0,
         todo' = [todo EXCEPT ![Top] = @ \ {i}],
         lowlink' = IF OnStack(Target(Top, i))
                    THEN [lowlink EXCEPT ![Top] = Min2(@, index[Target(Top, i)])]
                    ELSE lowlink
  PROVE  TarjanInv'
<1> USE DEF TarjanInv
<1>0. PICK v \in NodeKeys : v = Top
  BY TopFacts
<1>1. PICK w \in NodeKeys : w = Target(v, i) /\ w \in OutAdj(v) /\ i \in Ways(v)
  BY <1>0, WaysLead DEF ScanType
<1>2. /\ v \in Gray /\ v \in On
      /\ \A x \in Gray : x # v => index[x] < index[v]
      /\ On \subseteq NodeKeys /\ Gray \subseteq On /\ Done \subseteq NodeKeys
  BY <1>0, TopFacts, StackFacts
<1>3. On' = On /\ Gray' = Gray /\ Components' = Components /\ Done' = Done
  BY DEF On, Gray, Components, Done
<1>4. /\ NodeKeys' = NodeKeys
      /\ \A k : Ways(k)' = Ways(k) /\ Reach(k)' = Reach(k) /\ OutAdj(k)' = OutAdj(k)
      /\ \A k, j : Target(k, j)' = Target(k, j)
      /\ \A k : Class(k)' = Class(k)
  BY SameGraph
<1>5. \A k \in NodeKeys : index[k] \in Nat /\ lowlink[k] \in Nat
  BY DEF ScanType
<1>6. /\ \A k \in NodeKeys : k # v => lowlink'[k] = lowlink[k]
      /\ lowlink'[v] = IF w \in On THEN Min2(lowlink[v], index[w]) ELSE lowlink[v]
  BY <1>0, <1>1 DEF ScanType, OnStack, On
<1>7. /\ \A k \in NodeKeys : k # v => todo'[k] = todo[k]
      /\ todo'[v] = todo[v] \ {i}
  BY <1>0 DEF ScanType
<1>8. Ordered'
  BY <1>3, <1>4 DEF Ordered
<1>9. Colours'
  BY <1>3, <1>4 DEF Colours
<1>10. Loops'
  <2> SUFFICES ASSUME NEW k \in NodeKeys
               PROVE  /\ index[k] = 0 => todo'[k] = Ways(k)
                      /\ index[k] # 0 /\ k \notin Gray => todo'[k] = {}
                      /\ \A j \in Ways(k) \ todo'[k] : index[Target(k, j)] # 0
    BY <1>3, <1>4 DEF Loops
  <2>1. index[v] # 0
    BY <1>2, StackFacts
  <2>2. ASSUME NEW j \in Ways(k) \ todo'[k] PROVE index[Target(k, j)] # 0
    BY <1>0, <1>7 DEF Loops
  <2> QED
    BY <1>2, <1>7, <2>1, <2>2 DEF Loops
<1>11. Found'
  BY <1>3, <1>4 DEF Found, Closed
<1>12. Down' /\ Up'
  BY <1>3, <1>4 DEF Down, Up
<1>13. LowIsReached'
  <2> SUFFICES ASSUME NEW x \in On
               PROVE  /\ lowlink'[x] <= index[x]
                      /\ \E u \in On : index[u] = lowlink'[x] /\ u \in Reach(x)
    BY <1>3, <1>4 DEF LowIsReached
  <2>1. lowlink[x] <= index[x]
        /\ \E u \in On : index[u] = lowlink[x] /\ u \in Reach(x)
    BY DEF LowIsReached
  <2>2. CASE x # v
    BY <1>2, <1>6, <2>1, <2>2
  <2>3. CASE x = v /\ w \in On
    <3>1. w \in Reach(v)
      BY <1>1, ReachStep
    <3>2. \/ lowlink'[v] = lowlink[v]
          \/ lowlink'[v] = index[w] /\ index[w] <= lowlink[v]
      BY <1>5, <1>6, <2>3 DEF Min2
    <3> QED
      BY <1>1, <1>5, <2>1, <2>3, <3>1, <3>2
  <2>4. CASE x = v /\ w \notin On
    BY <1>6, <2>1, <2>4
  <2> QED
    BY <2>2, <2>3, <2>4
<1>14. LowIsLeast'
  <2> SUFFICES ASSUME NEW x \in Gray, NEW y \in On, Owns(x, y),
                      NEW j \in Ways(y) \ todo'[y], Target(y, j) \in On
               PROVE  lowlink'[x] <= index[Target(y, j)]
    BY <1>3, <1>4 DEF LowIsLeast, Owns
  <2>0. x \in NodeKeys /\ y \in NodeKeys /\ Target(y, j) \in NodeKeys
    BY <1>2
  <2>1. lowlink'[x] <= lowlink[x] /\ lowlink'[x] \in Nat
    BY <1>1, <1>5, <1>6, <2>0 DEF Min2
  <2>2. CASE j \in Ways(y) \ todo[y]
    <3>1. lowlink[x] <= index[Target(y, j)]
      BY <2>2 DEF LowIsLeast
    <3> QED
      BY <1>5, <2>0, <2>1, <3>1
  <2>3. CASE j \in todo[y]
    <3>1. y = v /\ j = i
      BY <1>7, <2>0, <2>3
    <3>2. x = v
      <4>1. index[v] <= index[x]
        BY <1>2, <1>5, <3>1 DEF Owns
      <4> QED
        BY <1>2, <1>5, <4>1, <2>0
    <3> QED
      BY <1>1, <1>5, <1>6, <3>1, <3>2 DEF Min2
  <2> QED
    BY <2>2, <2>3
<1> QED
  BY <1>8, <1>9, <1>10, <1>11, <1>12, <1>13, <1>14

\* What a return does to the open calls.
LEMMA CallsPop ==
  ASSUME ScanType, Ordered, Colours, calls # << >>, index' = index,
         calls' = SubSeq(calls, 1, Len(calls) - 1)
  PROVE  /\ calls' \in Seq(NodeKeys)
         /\ Gray' = Gray \ {Top}
         /\ \A i, j \in DOMAIN calls' : i < j => index'[calls'[i]] < index'[calls'[j]]
         /\ calls' # << >> => /\ calls'[Len(calls')] \in Gray'
                              /\ \A x \in Gray' : index[x] <= index[calls'[Len(calls')]]
<1>1. calls \in Seq(NodeKeys) /\ Len(calls) \in Nat \ {0} /\ DOMAIN calls = 1..Len(calls)
  BY DEF ScanType
<1>2. /\ calls' \in Seq(NodeKeys) /\ Len(calls') = Len(calls) - 1
      /\ DOMAIN calls' = 1..(Len(calls) - 1)
      /\ \A i \in 1..(Len(calls) - 1) : calls'[i] = calls[i]
  BY <1>1
<1>3. \A i \in 1..(Len(calls) - 1) : calls[i] # Top
  <2> SUFFICES ASSUME NEW i \in 1..(Len(calls) - 1) PROVE calls[i] # Top
    OBVIOUS
  <2>1. index[calls[i]] < index[Top]
    BY <1>1 DEF Ordered, Top
  <2>2. index[calls[i]] \in Nat
    BY <1>1 DEF ScanType
  <2> QED
    BY <2>1, <2>2
<1>4. Gray' = Gray \ {Top}
  <2>1. DOMAIN calls = DOMAIN calls' \cup {Len(calls)} /\ calls[Len(calls)] = Top
    BY <1>1, <1>2 DEF Top
  <2>2. \A i \in DOMAIN calls' : calls'[i] = calls[i] /\ calls[i] # Top
    BY <1>2, <1>3
  <2>3. ASSUME NEW x \in Gray' PROVE x \in Gray /\ x # Top
    BY <2>1, <2>2, Zenon DEF Gray
  <2>4. ASSUME NEW x \in Gray, x # Top PROVE x \in Gray'
    BY <2>1, <2>2, <2>4, Zenon DEF Gray
  <2> QED
    BY <2>3, <2>4
<1>5. \A i, j \in DOMAIN calls' : i < j => index'[calls'[i]] < index'[calls'[j]]
  BY <1>1, <1>2 DEF Ordered
<1>6. ASSUME calls' # << >>
      PROVE  /\ calls'[Len(calls')] \in Gray'
             /\ \A x \in Gray' : index[x] <= index[calls'[Len(calls')]]
  <2>1. Len(calls') \in DOMAIN calls'
    BY <1>1, <1>2, <1>6
  <2>2. ASSUME NEW x \in Gray' PROVE index[x] <= index[calls'[Len(calls')]]
    <3>1. PICK j \in DOMAIN calls' : x = calls'[j]
      BY DEF Gray
    <3>2. j = Len(calls') \/ j < Len(calls')
      BY <1>1, <1>2
    <3>3. index[x] \in Nat
      BY <1>2, <3>1 DEF ScanType
    <3>4. CASE j < Len(calls')
      <4>1. index[x] < index[calls'[Len(calls')]]
        BY <1>5, <2>1, <3>1, <3>4
      <4>2. index[calls'[Len(calls')]] \in Nat
        BY <1>2, <2>1 DEF ScanType
      <4> QED
        BY <3>3, <4>1, <4>2
    <3> QED
      BY <3>1, <3>2, <3>3, <3>4
  <2> QED
    BY <2>1, <2>2 DEF Gray
<1> QED
  BY <1>2, <1>4, <1>5, <1>6

\* The component that is popped is the part of the stack from v up.
LEMMA StackPop ==
  ASSUME ScanType, Ordered, Colours, index' = index, NEW v \in On, PopComponent(v)
  PROVE  /\ stack' \in Seq(NodeKeys)
         /\ On' = {y \in On : index[y] < index[v]}
         /\ result' = Append(result, {y \in On : index[v] <= index[y]})
         /\ \A i, j \in DOMAIN stack' : i < j => index'[stack'[i]] < index'[stack'[j]]
<1>0. stack \in Seq(NodeKeys) /\ DOMAIN stack = 1..Len(stack) /\ Len(stack) \in Nat
      /\ index \in [NodeKeys -> Nat]
  BY DEF ScanType
<1>1. PICK at \in DOMAIN stack :
        /\ stack[at] = v
        /\ stack' = SubSeq(stack, 1, at - 1)
        /\ result' = Append(result, {stack[i] : i \in at..Len(stack)})
  BY DEF PopComponent
<1>2. /\ at \in Nat \ {0} /\ at <= Len(stack)
      /\ stack' \in Seq(NodeKeys) /\ DOMAIN stack' = 1..(at - 1)
      /\ \A i \in 1..(at - 1) : stack'[i] = stack[i]
  BY <1>0, <1>1
<1>3. \A i \in DOMAIN stack : index[stack[i]] \in Nat /\ i \in Nat
  BY <1>0
<1>4. \A i \in DOMAIN stack : index[stack[i]] < index[v] <=> i < at
  <2> SUFFICES ASSUME NEW i \in DOMAIN stack PROVE index[stack[i]] < index[v] <=> i < at
    OBVIOUS
  <2>1. i < at => index[stack[i]] < index[v]
    BY <1>1 DEF Ordered
  <2>2. at < i => index[v] < index[stack[i]]
    BY <1>1 DEF Ordered
  <2>3. i = at => index[stack[i]] = index[v]
    BY <1>1
  <2>4. i \in Nat /\ at \in Nat /\ index[stack[i]] \in Nat /\ index[v] \in Nat
    BY <1>1, <1>2, <1>3
  <2> QED
    BY <2>1, <2>2, <2>3, <2>4
<1>5. {stack[i] : i \in at..Len(stack)} = {y \in On : index[v] <= index[y]}
  <2>1. \A i \in DOMAIN stack : i \in at..Len(stack) <=> index[v] <= index[stack[i]]
    BY <1>0, <1>1, <1>2, <1>3, <1>4
  <2>2. at..Len(stack) \subseteq DOMAIN stack
    BY <1>0, <1>2
  <2> HIDE <1>1
  <2> QED
    BY <2>1, <2>2, Zenon DEF On
<1>6. On' = {y \in On : index[y] < index[v]}
  <2>1. \A i \in DOMAIN stack : i \in DOMAIN stack' <=> index[stack[i]] < index[v]
    BY <1>0, <1>2, <1>3, <1>4
  <2>2. DOMAIN stack' \subseteq DOMAIN stack /\ \A i \in DOMAIN stack' : stack'[i] = stack[i]
    BY <1>0, <1>2
  <2> QED
    BY <2>1, <2>2, Zenon DEF On
<1>7. \A i, j \in DOMAIN stack' : i < j => index'[stack'[i]] < index'[stack'[j]]
  <2>1. DOMAIN stack' \subseteq DOMAIN stack /\ \A i \in DOMAIN stack' : stack'[i] = stack[i]
    BY <1>0, <1>2
  <2> QED
    BY <2>1, Zenon DEF Ordered
<1> QED
  BY <1>1, <1>2, <1>5, <1>6, <1>7

\* When the lowlink of the topmost open call is its index, the part of the
\* stack from it up is its class, and nothing leads from there but back or
\* to components found before.
LEMMA ComponentIsClass ==
  ASSUME TypeOK, ScanType, TarjanInv, calls # << >>, todo[Top] = {},
         lowlink[Top] = index[Top],
         NEW C, C = {y \in On : index[Top] <= index[y]}
  PROVE  C = Class(Top) /\ Closed(Done \cup C) /\ Top \in C
<1> USE DEF TarjanInv
<1>0. PICK v \in NodeKeys : v = Top
  BY TopFacts
<1>1. /\ v \in Gray /\ v \in On
      /\ \A x \in Gray : x # v => index[x] < index[v]
      /\ On \subseteq NodeKeys /\ Gray \subseteq On /\ Done \subseteq NodeKeys
  BY <1>0, TopFacts, StackFacts
<1>2. \A k \in NodeKeys : index[k] \in Nat /\ lowlink[k] \in Nat
  BY DEF ScanType
<1>3. v \in C /\ C \subseteq On /\ \A y \in C : index[v] <= index[y]
  BY <1>0, <1>1, <1>2
<1>4. ASSUME NEW y \in C PROVE y \in Reach(v) /\ v \in Reach(y)
  <2>1. y \in Reach(v)
    BY <1>1, <1>3 DEF Down
  <2>2. PICK x \in Gray : index[x] <= index[y] /\ x \in Reach(y)
    BY <1>3 DEF Up
  <2>3. v \in Reach(x)
    <3>1. index[x] <= index[v]
      BY <1>1, <1>2
    <3> QED
      BY <1>1, <3>1 DEF Down
  <2> QED
    BY <2>1, <2>2, <2>3, ReachTrans
<1>5. ASSUME NEW y \in C, NEW m \in OutAdj(y) PROVE m \in Done \cup C
  <2>0. y \in NodeKeys /\ y \in On
    BY <1>1, <1>3
  <2>1. PICK i \in Ways(y) : m = Target(y, i)
    BY DEF OutAdj
  <2>2. todo[y] = {}
    <3>1. CASE y = v
      BY <1>0, <3>1
    <3>2. CASE y # v
      <4>1. index[y] # index[v]
        BY <1>1, <2>0, <3>2, StackFacts
      <4>2. y \notin Gray
        BY <1>1, <1>2, <1>3, <2>0, <3>2
      <4>3. index[y] # 0
        BY <2>0, StackFacts
      <4> QED
        BY <2>0, <4>2, <4>3 DEF Loops
    <3> QED
      BY <3>1, <3>2
  <2>3. m \in NodeKeys /\ index[m] # 0
    BY <2>0, <2>1, <2>2, WaysLead DEF Loops
  <2>4. m \in On \cup Done
    BY <2>3 DEF Colours
  <2>5. CASE m \in On
    <3>1. Owns(v, y)
      BY <1>1, <1>2, <1>3, <2>0 DEF Owns
    <3>2. lowlink[v] <= index[m]
      BY <1>1, <2>0, <2>1, <2>2, <2>5, <3>1 DEF LowIsLeast
    <3> QED
      BY <1>0, <2>5, <3>2
  <2> QED
    BY <2>4, <2>5
<1>6. Closed(Done \cup C)
  BY <1>5 DEF Closed, Found
<1>7. ASSUME NEW z \in Class(v) PROVE z \in C
  <2>1. z \in Reach(v) /\ v \in Reach(z)
    BY DEF Class
  <2>2. Done \cup C \in SUBSET NodeKeys
    BY <1>1, <1>3
  <2>3. z \in Done \cup C
    BY <1>3, <1>6, <2>1, <2>2, ReachInside
  <2>4. ASSUME z \in Done PROVE FALSE
    <3>1. Done \in SUBSET NodeKeys /\ Closed(Done)
      BY <1>1 DEF Found
    <3>2. v \in Done
      BY <2>1, <2>4, <3>1, ReachInside
    <3> QED
      BY <1>1, <3>2 DEF Colours
  <2> QED
    BY <2>3, <2>4
<1>8. C = Class(v)
  BY <1>4, <1>7 DEF Class
<1> QED
  BY <1>0, <1>3, <1>6, <1>8

\* The caller's lowlink takes in that of the call that returns.
Lowered ==
  lowlink' = IF calls' = << >> THEN lowlink
             ELSE [lowlink EXCEPT ![calls'[Len(calls')]] = Min2(@, lowlink[Top])]

LEMMA LoweredFacts ==
  ASSUME ScanType, Ordered, Colours, calls # << >>, index' = index,
         calls' = SubSeq(calls, 1, Len(calls) - 1), Lowered
  PROVE  /\ lowlink' \in [NodeKeys -> Nat]
         /\ \A k \in NodeKeys : lowlink'[k] <= lowlink[k]
         /\ \A k \in NodeKeys : lowlink'[k] # lowlink[k] =>
              k \in Gray /\ k # Top /\ lowlink'[k] = lowlink[Top]
         /\ \A x \in Gray : x # Top =>
              \E p \in Gray : /\ p # Top /\ lowlink'[p] <= lowlink[Top]
                              /\ \A u \in Gray : u # Top => index[u] <= index[p]
<1>0. PICK v \in NodeKeys : v = Top
  BY TopFacts
<1>1. lowlink \in [NodeKeys -> Nat] /\ lowlink[v] \in Nat
  BY DEF ScanType
<1>2. CASE calls' = << >>
  <2>1. lowlink' = lowlink
    BY <1>2 DEF Lowered
  <2>2. Gray' = {}
    BY <1>2 DEF Gray
  <2>3. Gray' = Gray \ {Top}
    BY CallsPop
  <2>4. \A x \in Gray : x = Top
    BY <2>2, <2>3
  <2>5. \A k \in NodeKeys : lowlink'[k] \in Nat /\ lowlink'[k] <= lowlink[k]
    BY <1>1, <2>1
  <2> QED
    BY <1>1, <2>1, <2>4, <2>5
<1>3. CASE calls' # << >>
  <2>1. PICK p \in Gray \ {v} : /\ p = calls'[Len(calls')]
                                /\ \A x \in Gray \ {v} : index[x] <= index[p]
    BY <1>0, <1>3, CallsPop
  <2>2. p \in NodeKeys
    BY StackFacts
  <2>3. lowlink' = [lowlink EXCEPT ![p] = Min2(@, lowlink[v])]
    BY <1>0, <1>3, <2>1 DEF Lowered
  <2>4. Min2(lowlink[p], lowlink[v]) \in Nat
        /\ Min2(lowlink[p], lowlink[v]) <= lowlink[p]
        /\ Min2(lowlink[p], lowlink[v]) <= lowlink[v]
        /\ Min2(lowlink[p], lowlink[v]) \in {lowlink[p], lowlink[v]}
    BY <1>1, <2>2 DEF Min2
  <2>5. lowlink'[p] = Min2(lowlink[p], lowlink[v])
        /\ \A k \in NodeKeys : k # p => lowlink'[k] = lowlink[k]
    BY <1>1, <2>2, <2>3
  <2>6. lowlink' \in [NodeKeys -> Nat]
    BY <1>1, <2>2, <2>3, <2>4
  <2>7. \A k \in NodeKeys : lowlink'[k] <= lowlink[k]
    BY <1>1, <2>4, <2>5
  <2>8. \A k \in NodeKeys : lowlink'[k] # lowlink[k] =>
          k \in Gray /\ k # v /\ lowlink'[k] = lowlink[v]
    BY <2>1, <2>4, <2>5
  <2>9. /\ p \in Gray /\ p # v /\ lowlink'[p] <= lowlink[v]
        /\ \A u \in Gray : u # v => index[u] <= index[p]
    BY <2>1, <2>4, <2>5
  <2> QED
    BY <1>0, <2>6, <2>7, <2>8, <2>9
<1> QED
  BY <1>2, <1>3

\* A return that leaves the stack alone: v reaches an open call below it.
LEMMA ReturnStep ==
  ASSUME TypeOK, ScanType, TarjanInv, g' = g, calls # << >>, todo[Top] = {},
         UNCHANGED <<index, count, todo, stack, result>>, lowlink[Top] # index[Top],
         calls' = SubSeq(calls, 1, Len(calls) - 1), Lowered
  PROVE  TarjanInv'
<1> USE DEF TarjanInv
<1>0. PICK v \in NodeKeys : v = Top
  BY TopFacts
<1>1. /\ v \in Gray /\ v \in On
      /\ \A x \in Gray : x # v => index[x] < index[v]
      /\ On \subseteq NodeKeys /\ Gray \subseteq On /\ Done \subseteq NodeKeys
  BY <1>0, TopFacts, StackFacts
<1>2. Gray' = Gray \ {v}
      /\ \A i, j \in DOMAIN calls' : i < j => index'[calls'[i]] < index'[calls'[j]]
  BY <1>0, CallsPop
<1>3. On' = On /\ Components' = Components /\ Done' = Done
  BY DEF On, Components, Done
<1>4. /\ NodeKeys' = NodeKeys
      /\ \A k : Ways(k)' = Ways(k) /\ Reach(k)' = Reach(k) /\ OutAdj(k)' = OutAdj(k)
      /\ \A k, j : Target(k, j)' = Target(k, j)
      /\ \A k : Class(k)' = Class(k)
  BY SameGraph
<1>5. \A k \in NodeKeys : index[k] \in Nat /\ lowlink[k] \in Nat /\ lowlink'[k] \in Nat
  BY LoweredFacts DEF ScanType
<1>6. /\ \A k \in NodeKeys : lowlink'[k] <= lowlink[k]
      /\ \A k \in NodeKeys : lowlink'[k] # lowlink[k] =>
           k \in Gray /\ k # v /\ lowlink'[k] = lowlink[v]
      /\ \A x \in Gray : x # v =>
           \E p \in Gray : /\ p # v /\ lowlink'[p] <= lowlink[v]
                           /\ \A u \in Gray : u # v => index[u] <= index[p]
  BY <1>0, LoweredFacts
<1>7. PICK z \in Gray : z # v /\ z \in Reach(v) /\ index[z] < index[v]
  <2>1. PICK u \in On : index[u] = lowlink[v] /\ u \in Reach(v)
    BY <1>1 DEF LowIsReached
  <2>2. index[u] < index[v]
    BY <1>0, <1>1, <1>5, <2>1 DEF LowIsReached
  <2>3. PICK x \in Gray : index[x] <= index[u] /\ x \in Reach(u)
    BY DEF Up
  <2>4. index[x] < index[v] /\ x # v
    BY <1>1, <1>5, <2>2, <2>3
  <2> QED
    BY <2>1, <2>3, <2>4, ReachTrans
<1>8. Ordered'
  <2>1. Gray' \subseteq On'
    BY <1>1, <1>2, <1>3
  <2> QED
    BY <1>2, <1>4, <2>1 DEF Ordered
<1>9. Colours'
  BY <1>3, <1>4 DEF Colours
<1>10. Loops'
  BY <1>0, <1>2, <1>4 DEF Loops
<1>11. Found'
  BY <1>3, <1>4 DEF Found, Closed
<1>12. Down'
  BY <1>2, <1>3, <1>4 DEF Down
<1>13. Up'
  <2> SUFFICES ASSUME NEW y \in On
               PROVE  \E x \in Gray \ {v} : index[x] <= index[y] /\ x \in Reach(y)
    BY <1>2, <1>3, <1>4 DEF Up
  <2>1. PICK x \in Gray : index[x] <= index[y] /\ x \in Reach(y)
    BY DEF Up
  <2>2. CASE x = v
    <3>1. index[z] <= index[y]
      BY <1>1, <1>5, <1>7, <2>1, <2>2
    <3> QED
      BY <1>7, <2>1, <2>2, <3>1, ReachTrans
  <2> QED
    BY <2>1, <2>2
<1>14. LowIsReached'
  <2> SUFFICES ASSUME NEW x \in On
               PROVE  /\ lowlink'[x] <= index[x]
                      /\ \E u \in On : index[u] = lowlink'[x] /\ u \in Reach(x)
    BY <1>3, <1>4 DEF LowIsReached
  <2>1. lowlink[x] <= index[x]
        /\ \E u \in On : index[u] = lowlink[x] /\ u \in Reach(x)
    BY DEF LowIsReached
  <2>2. lowlink'[x] <= index[x]
    BY <1>1, <1>5, <1>6, <2>1
  <2>3. CASE lowlink'[x] = lowlink[x]
    BY <2>1, <2>2, <2>3
  <2>4. CASE lowlink'[x] # lowlink[x]
    <3>1. x \in Gray /\ x # v /\ lowlink'[x] = lowlink[v]
      BY <1>1, <1>6, <2>4
    <3>2. v \in Reach(x)
      BY <1>1, <1>5, <3>1 DEF Down
    <3>3. PICK u \in On : index[u] = lowlink[v] /\ u \in Reach(v)
      BY <1>1 DEF LowIsReached
    <3> QED
      BY <2>2, <3>1, <3>2, <3>3, ReachTrans
  <2> QED
    BY <2>3, <2>4
<1>15. LowIsLeast'
  <2> SUFFICES ASSUME NEW x \in Gray \ {v}, NEW y \in On,
                      index[x] <= index[y],
                      \A u \in Gray \ {v} : index[u] <= index[y] => index[u] <= index[x],
                      NEW i \in Ways(y) \ todo[y], Target(y, i) \in On
               PROVE  lowlink'[x] <= index[Target(y, i)]
    BY <1>2, <1>3, <1>4 DEF LowIsLeast, Owns
  <2>0. x \in NodeKeys /\ y \in NodeKeys /\ Target(y, i) \in NodeKeys
    BY <1>1
  <2>1. CASE index[v] <= index[y]
    <3>1. Owns(v, y)
      BY <1>1, <1>5, <2>0, <2>1 DEF Owns
    <3>2. lowlink[v] <= index[Target(y, i)]
      BY <1>1, <3>1 DEF LowIsLeast
    <3>3. PICK p \in Gray : /\ p # v /\ lowlink'[p] <= lowlink[v]
                            /\ \A u \in Gray : u # v => index[u] <= index[p]
      BY <1>6
    <3>4. p \in NodeKeys /\ p \in On /\ x \in On
      BY <1>1
    <3>5. index[p] <= index[y]
      BY <1>1, <1>5, <2>0, <2>1, <3>3, <3>4
    <3>6. index[p] = index[x]
      BY <1>5, <2>0, <3>3, <3>4, <3>5
    <3>7. p = x
      BY <3>4, <3>6, StackFacts
    <3> QED
      BY <1>5, <2>0, <3>2, <3>3, <3>7
  <2>2. CASE ~(index[v] <= index[y])
    <3>1. Owns(x, y)
      BY <2>2 DEF Owns
    <3>2. lowlink[x] <= index[Target(y, i)]
      BY <3>1 DEF LowIsLeast
    <3> QED
      BY <1>5, <1>6, <2>0, <3>2
  <2> QED
    BY <2>1, <2>2
<1> QED
  BY <1>8, <1>9, <1>10, <1>11, <1>12, <1>13, <1>14, <1>15

\* A return that takes a component off the stack.
LEMMA ReturnPop ==
  ASSUME TypeOK, ScanType, TarjanInv, g' = g, calls # << >>, todo[Top] = {},
         UNCHANGED <<index, count, todo>>, lowlink[Top] = index[Top], PopComponent(Top),
         calls' = SubSeq(calls, 1, Len(calls) - 1), Lowered
  PROVE  TarjanInv' /\ result' \in Seq(SUBSET NodeKeys)
<1> USE DEF TarjanInv
<1>0. PICK v \in NodeKeys : v = Top
  BY TopFacts
<1>1. /\ v \in Gray /\ v \in On
      /\ \A x \in Gray : x # v => index[x] < index[v]
      /\ On \subseteq NodeKeys /\ Gray \subseteq On /\ Done \subseteq NodeKeys
  BY <1>0, TopFacts, StackFacts
<1>2. Gray' = Gray \ {v}
      /\ \A i, j \in DOMAIN calls' : i < j => index'[calls'[i]] < index'[calls'[j]]
  BY <1>0, CallsPop
<1> DEFINE C == {y \in On : index[v] <= index[y]}
<1>3. C = Class(v) /\ Closed(Done \cup C) /\ v \in C /\ C \subseteq On
  BY <1>0, ComponentIsClass
<1>4. /\ On' = {y \in On : index[y] < index[v]}
      /\ result' = Append(result, C)
      /\ \A i, j \in DOMAIN stack' : i < j => index'[stack'[i]] < index'[stack'[j]]
  BY <1>0, <1>1, StackPop
<1>5. \A k \in NodeKeys : index[k] \in Nat /\ lowlink[k] \in Nat /\ lowlink'[k] \in Nat
  BY LoweredFacts DEF ScanType
<1>6. On' \subseteq On /\ On' \cap C = {} /\ On = On' \cup C
  BY <1>1, <1>4, <1>5
<1> HIDE DEF C
<1>7. /\ result' \in Seq(SUBSET NodeKeys)
      /\ DOMAIN result' = DOMAIN result \cup {Len(result) + 1}
      /\ \A i \in DOMAIN result : result'[i] = result[i]
      /\ result'[Len(result) + 1] = C
  <2>1. result \in Seq(SUBSET NodeKeys) /\ C \in SUBSET NodeKeys
    BY <1>1, <1>3 DEF ScanType
  <2> QED
    BY <1>4, <2>1
<1>8. Components' = Components \cup {C}
  BY <1>7, Zenon DEF Components
<1>9. Done' = Done \cup C
  BY <1>8 DEF Done
<1>10. /\ NodeKeys' = NodeKeys
       /\ \A k : Ways(k)' = Ways(k) /\ Reach(k)' = Reach(k) /\ OutAdj(k)' = OutAdj(k)
       /\ \A k, j : Target(k, j)' = Target(k, j)
       /\ \A k : Class(k)' = Class(k)
  BY SameGraph
<1>11. /\ \A k \in NodeKeys : lowlink'[k] <= lowlink[k]
       /\ \A k \in NodeKeys : lowlink'[k] # lowlink[k] =>
            k \in Gray /\ k # v /\ lowlink'[k] = lowlink[v]
  BY <1>0, LoweredFacts
<1>12. Ordered'
  <2>1. ASSUME NEW x \in Gray' PROVE x \in On'
    BY <1>1, <1>2, <1>4
  <2> QED
    BY <1>2, <1>4, <1>10, <2>1 DEF Ordered
<1>13. Colours'
  BY <1>3, <1>6, <1>9, <1>10 DEF Colours
<1>14. Loops'
  BY <1>0, <1>2, <1>10 DEF Loops
<1>15. Found'
  <2>1. Closed(Done)'
    BY <1>3, <1>9, <1>10 DEF Closed
  <2>2. \A c \in Components' : (\E k \in NodeKeys' : c = Class(k)') /\ c # {}
    BY <1>3, <1>8, <1>10 DEF Found
  <2>3. ASSUME NEW i \in DOMAIN result PROVE result[i] # C
    <3>1. result[i] \subseteq Done
      BY DEF Done, Components
    <3> QED
      BY <1>1, <1>3, <3>1 DEF Colours
  <2>4. \A i, j \in DOMAIN result' : result'[i] = result'[j] => i = j
    BY <1>7, <2>3 DEF Found
  <2> QED
    BY <2>1, <2>2, <2>4 DEF Found
<1>16. Down'
  BY <1>2, <1>6, <1>10 DEF Down
<1>17. Up'
  <2> SUFFICES ASSUME NEW y \in On'
               PROVE  \E x \in Gray \ {v} : index[x] <= index[y] /\ x \in Reach(y)
    BY <1>2, <1>10 DEF Up
  <2>1. PICK x \in Gray : index[x] <= index[y] /\ x \in Reach(y)
    BY <1>6 DEF Up
  <2>2. index[y] < index[v] /\ y \in NodeKeys /\ x \in NodeKeys
    BY <1>1, <1>4
  <2> QED
    BY <1>5, <2>1, <2>2
<1>18. LowIsReached'
  <2> SUFFICES ASSUME NEW x \in On'
               PROVE  /\ lowlink'[x] <= index[x]
                      /\ \E u \in On' : index[u] = lowlink'[x] /\ u \in Reach(x)
    BY <1>10 DEF LowIsReached
  <2>1. x \in NodeKeys /\ x \in On /\ index[x] < index[v]
    BY <1>1, <1>4
  <2>2. lowlink[x] <= index[x]
    BY <2>1 DEF LowIsReached
  <2>3. PICK u \in On : index[u] = lowlink[x] /\ u \in Reach(x)
    BY <2>1 DEF LowIsReached
  <2>4. lowlink'[x] = lowlink[x]
    BY <1>0, <1>5, <1>11, <2>1, <2>2
  <2>5. u \in On'
    BY <1>1, <1>4, <1>5, <2>1, <2>2, <2>3
  <2> QED
    BY <2>2, <2>3, <2>4, <2>5
<1>19. LowIsLeast'
  <2> SUFFICES ASSUME NEW x \in Gray \ {v}, NEW y \in On',
                      index[x] <= index[y],
                      \A u \in Gray \ {v} : index[u] <= index[y] => index[u] <= index[x],
                      NEW i \in Ways(y) \ todo[y], Target(y, i) \in On'
               PROVE  lowlink'[x] <= index[Target(y, i)]
    BY <1>2, <1>10 DEF LowIsLeast, Owns
  <2>0. x \in NodeKeys /\ y \in NodeKeys /\ Target(y, i) \in NodeKeys
        /\ y \in On /\ Target(y, i) \in On /\ index[y] < index[v]
    BY <1>1, <1>4
  <2>1. Owns(x, y)
    BY <1>1, <1>5, <2>0 DEF Owns
  <2>2. lowlink[x] <= index[Target(y, i)]
    BY <2>0, <2>1 DEF LowIsLeast
  <2> QED
    BY <1>5, <1>11, <2>0, <2>2
<1> QED
  BY <1>7, <1>12, <1>13, <1>14, <1>15, <1>16, <1>17, <1>18, <1>19

-----------------------------------------------------------------------------
(* The gate: the validator, then the replay. *)

GateInv == WalkInv /\ ScanInv

LEMMA TarjanSame ==
  ASSUME TarjanInv, UNCHANGED <<g, index, lowlink, count, stack, result, calls, todo>>
  PROVE  TarjanInv'
<1> USE DEF TarjanInv
<1>1. On' = On /\ Gray' = Gray /\ Components' = Components /\ Done' = Done
  BY DEF On, Gray, Components, Done
<1>2. /\ NodeKeys' = NodeKeys
      /\ \A k : Ways(k)' = Ways(k) /\ Reach(k)' = Reach(k) /\ OutAdj(k)' = OutAdj(k)
      /\ \A k, j : Target(k, j)' = Target(k, j)
      /\ \A k : Class(k)' = Class(k)
  BY SameGraph
<1>3. Ordered' /\ Colours'
  BY <1>1, <1>2 DEF Ordered, Colours
<1>4. Loops'
  BY <1>1, <1>2 DEF Loops
<1>5. Found'
  BY <1>1, <1>2 DEF Found, Closed
<1>6. Down' /\ Up'
  BY <1>1, <1>2 DEF Down, Up
<1>7. LowIsReached'
  BY <1>1, <1>2 DEF LowIsReached
<1>8. LowIsLeast'
  BY <1>1, <1>2 DEF LowIsLeast, Owns
<1> QED
  BY <1>3, <1>4, <1>5, <1>6, <1>7, <1>8

LEMMA FrontierSame ==
  ASSUME Frontier, UNCHANGED <<g, seen, frontier>>, stage' # "reach" => frontier = {}
  PROVE  Frontier'
<1>1. /\ StartNodes' = StartNodes
      /\ \A k : Reach(k)' = Reach(k) /\ OutAdj(k)' = OutAdj(k)
  BY SameGraph
<1> QED
  BY <1>1 DEF Frontier

LEMMA TypeSame ==
  ASSUME ScanType, g' = g, UNCHANGED <<seen, frontier>>,
         stage' \in {"reach", "sccs", "checked"},
         index' \in [NodeKeys -> Nat], lowlink' \in [NodeKeys -> Nat], count' \in Nat \ {0},
         stack' \in Seq(NodeKeys), calls' \in Seq(NodeKeys), result' \in Seq(SUBSET NodeKeys),
         DOMAIN todo' = NodeKeys, \A k \in NodeKeys : todo'[k] \subseteq todo[k]
  PROVE  ScanType'
<1>1. NodeKeys' = NodeKeys /\ \A k : Ways(k)' = Ways(k)
  BY SameGraph
<1>2. \A k \in NodeKeys : todo'[k] \subseteq Ways(k)
  BY DEF ScanType
<1> QED
  BY <1>1, <1>2 DEF ScanType

LEMMA GateStart == GateInit => GateInv
<1> SUFFICES ASSUME GateInit PROVE GateInv
  OBVIOUS
<1>1. WalkInv
  BY WalkInit DEF GateInit
<1>2. ScanInit
  BY DEF GateInit
<1>3. StartNodes \subseteq NodeKeys
  BY DEF StartNodes
<1>4. index = [k \in NodeKeys |-> 0] /\ stack = << >> /\ calls = << >> /\ result = << >>
      /\ lowlink = index /\ count = 1 /\ todo = [k \in NodeKeys |-> Ways(k)]
  BY <1>2 DEF ScanInit
<1>5. On = {} /\ Gray = {} /\ Components = {}
  BY <1>4 DEF On, Gray, Components
<1>6. Done = {}
  BY <1>5 DEF Done
<1>7. ScanType
  BY <1>2, <1>3, <1>4 DEF ScanType, ScanInit
<1>8. Ordered /\ Colours /\ Loops
  BY <1>4, <1>5, <1>6 DEF Ordered, Colours, Loops
<1>9. Found
  BY <1>4, <1>5, <1>6 DEF Found, Closed
<1>10. Down /\ Up /\ LowIsReached /\ LowIsLeast
  BY <1>5 DEF Down, Up, LowIsReached, LowIsLeast
<1>11. Frontier
  BY <1>2, <1>3, ReachRefl DEF Frontier, ScanInit
<1>12. Ended
  BY <1>2 DEF Ended, ScanInit
<1> QED
  BY <1>1, <1>7, <1>8, <1>9, <1>10, <1>11, <1>12 DEF GateInv, ScanInv, TarjanInv

LEMMA ExploreKeeps ==
  ASSUME TypeOK, ScanInv, Explore, g' = g
  PROVE  ScanInv'
<1> USE DEF ScanInv
<1>1. PICK k \in frontier : /\ seen' = seen \cup OutAdj(k)
                            /\ frontier' = (frontier \ {k}) \cup (OutAdj(k) \ seen)
  BY DEF Explore
<1>2. UNCHANGED <<stage, index, lowlink, count, stack, result, calls, todo>> /\ stage = "reach"
  BY DEF Explore
<1>3. k \in seen /\ k \in NodeKeys /\ OutAdj(k) \subseteq NodeKeys
  BY WaysLead DEF ScanType
<1>4. /\ NodeKeys' = NodeKeys /\ StartNodes' = StartNodes
      /\ \A n : Ways(n)' = Ways(n)
      /\ \A n : Reach(n)' = Reach(n)
      /\ \A n : OutAdj(n)' = OutAdj(n)
  BY SameGraph
<1>5. seen' \subseteq NodeKeys /\ frontier' \subseteq seen'
  BY <1>1, <1>3 DEF ScanType
<1>6. ScanType'
  BY <1>2, <1>4, <1>5 DEF ScanType
<1>7. TarjanInv'
  BY <1>2, TarjanSame
<1>8. ASSUME NEW n \in seen' PROVE \E s \in StartNodes : n \in Reach(s)
  <2>1. CASE n \in seen
    BY <2>1 DEF Frontier
  <2>2. CASE n \in OutAdj(k)
    <3>1. PICK s \in StartNodes : k \in Reach(s)
      BY <1>3 DEF Frontier
    <3>2. n \in Reach(k)
      BY <1>3, <2>2, ReachStep
    <3> QED
      BY <3>1, <3>2, ReachTrans
  <2> QED
    BY <1>1, <2>1, <2>2
<1>9. ASSUME NEW n \in seen' \ frontier' PROVE OutAdj(n) \subseteq seen'
  BY <1>1, <1>9 DEF Frontier
<1>10. Frontier'
  BY <1>1, <1>2, <1>4, <1>8, <1>9 DEF Frontier
<1>11. Ended'
  BY <1>2 DEF Ended
<1> QED
  BY <1>6, <1>7, <1>10, <1>11

LEMMA VisitKeeps ==
  ASSUME TypeOK, ScanInv, VisitRoot \/ VisitNext, g' = g
  PROVE  ScanInv'
<1> USE DEF ScanInv
<1>0. UNCHANGED <<stage, seen, frontier, result>> /\ stage = "sccs"
  BY DEF VisitRoot, VisitNext
<1>1. Ended' /\ Frontier'
  BY <1>0, FrontierSame DEF Ended, Frontier
<1>2. ASSUME NEW w \in NodeKeys, index[w] = 0, StrongConnect(w),
             \A x \in Gray : w \in Reach(x), DOMAIN todo' = NodeKeys,
             \A k \in NodeKeys : /\ todo'[k] \subseteq todo[k]
                                 /\ k \notin Gray => todo'[k] = todo[k]
                                 /\ \A i \in todo[k] \ todo'[k] : Target(k, i) = w
      PROVE  ScanInv'
  <2>1. TarjanInv'
    BY <1>0, <1>2, CallStep
  <2>2. /\ index' \in [NodeKeys -> Nat] /\ lowlink' \in [NodeKeys -> Nat]
        /\ count' \in Nat \ {0}
    BY <1>2 DEF ScanType, StrongConnect
  <2>3. stack' \in Seq(NodeKeys) /\ calls' \in Seq(NodeKeys)
    BY <1>2 DEF ScanType, StrongConnect
  <2>4. result' \in Seq(SUBSET NodeKeys) /\ stage' \in {"reach", "sccs", "checked"}
    BY <1>0 DEF ScanType
  <2>5. ScanType'
    BY <1>0, <1>2, <2>2, <2>3, <2>4, TypeSame
  <2> QED
    BY <1>1, <2>1, <2>5
<1>3. CASE VisitRoot
  <2>1. PICK w \in NodeKeys : index[w] = 0 /\ StrongConnect(w)
    BY <1>3 DEF VisitRoot, IsFirst
  <2>2. todo' = todo /\ calls = << >>
    BY <1>3 DEF VisitRoot
  <2>3. Gray = {}
    BY <2>2 DEF Gray
  <2> QED
    BY <1>2, <2>1, <2>2, <2>3 DEF ScanType
<1>4. CASE VisitNext
  <2>0. calls # << >>
    BY <1>4 DEF VisitNext
  <2>1. PICK v \in NodeKeys : v = Top /\ v \in Gray /\ v \in On
    BY <2>0, TopFacts DEF TarjanInv
  <2>2. PICK i \in todo[v] :
          /\ todo' = [todo EXCEPT ![v] = @ \ {i}]
          /\ \/ index[Target(v, i)] = 0 /\ StrongConnect(Target(v, i))
             \/ /\ index[Target(v, i)] # 0
                /\ lowlink' = IF OnStack(Target(v, i))
                              THEN [lowlink EXCEPT ![v] = Min2(@, index[Target(v, i)])]
                              ELSE lowlink
                /\ UNCHANGED <<index, count, stack, calls>>
    BY <1>4, <2>1 DEF VisitNext
  <2>3. i \in Ways(v) /\ Target(v, i) \in NodeKeys /\ Target(v, i) \in Reach(v)
    BY WaysLead, ReachStep DEF ScanType
  <2>4. /\ DOMAIN todo' = NodeKeys
        /\ \A k \in NodeKeys : k # v => todo'[k] = todo[k]
        /\ todo'[v] = todo[v] \ {i}
    BY <2>2 DEF ScanType
  <2>5. CASE index[Target(v, i)] = 0 /\ StrongConnect(Target(v, i))
    <3>1. ASSUME NEW x \in Gray PROVE Target(v, i) \in Reach(x)
      <4>1. x \in NodeKeys /\ index[x] \in Nat /\ index[v] \in Nat
        BY StackFacts DEF ScanType, TarjanInv
      <4>2. index[x] <= index[v]
        BY <2>0, <2>1, <4>1, TopFacts DEF TarjanInv
      <4>3. v \in Reach(x)
        BY <2>1, <4>2 DEF Down, TarjanInv
      <4> QED
        BY <2>3, <4>3, ReachTrans
    <3> QED
      BY <1>2, <2>1, <2>3, <2>4, <2>5, <3>1
  <2>6. CASE index[Target(v, i)] # 0
    <3>1. /\ UNCHANGED <<index, count, stack, calls>>
          /\ lowlink' = IF OnStack(Target(v, i))
                        THEN [lowlink EXCEPT ![v] = Min2(@, index[Target(v, i)])]
                        ELSE lowlink
      BY <2>2, <2>6
    <3>2. TarjanInv'
      BY <1>0, <2>0, <2>1, <2>2, <2>6, <3>1, EdgeStep
    <3>3. lowlink' \in [NodeKeys -> Nat]
      BY <2>3, <3>1 DEF ScanType, Min2
    <3>4. ScanType'
      <4>1. /\ index' \in [NodeKeys -> Nat] /\ count' \in Nat \ {0}
            /\ stack' \in Seq(NodeKeys) /\ calls' \in Seq(NodeKeys)
            /\ result' \in Seq(SUBSET NodeKeys) /\ stage' \in {"reach", "sccs", "checked"}
        BY <1>0, <3>1 DEF ScanType
      <4> QED
        BY <1>0, <2>4, <3>3, <4>1, TypeSame
    <3> QED
      BY <1>1, <3>2, <3>4
  <2> QED
    BY <2>2, <2>5, <2>6
<1> QED
  BY <1>3, <1>4

LEMMA ReturnKeeps ==
  ASSUME TypeOK, ScanInv, Return, g' = g
  PROVE  ScanInv'
<1> USE DEF ScanInv
<1>0. /\ UNCHANGED <<stage, seen, frontier, index, count, todo>> /\ stage = "sccs"
      /\ calls # << >> /\ todo[Top] = {} /\ calls' = SubSeq(calls, 1, Len(calls) - 1)
      /\ \/ lowlink[Top] = index[Top] /\ PopComponent(Top)
         \/ lowlink[Top] # index[Top] /\ UNCHANGED <<stack, result>>
  BY DEF Return
<1>1. Lowered
  BY DEF Return, Lowered
<1>2. Ended' /\ Frontier'
  BY <1>0, FrontierSame DEF Ended, Frontier
<1>3. lowlink' \in [NodeKeys -> Nat]
  BY <1>0, <1>1, LoweredFacts DEF TarjanInv
<1>4. calls' \in Seq(NodeKeys)
  BY <1>0, CallsPop DEF TarjanInv
<1>5. TarjanInv' /\ stack' \in Seq(NodeKeys) /\ result' \in Seq(SUBSET NodeKeys)
  <2>1. CASE lowlink[Top] = index[Top]
    <3>1. TarjanInv' /\ result' \in Seq(SUBSET NodeKeys)
      BY <1>0, <1>1, <2>1, ReturnPop
    <3>2. stack' \in Seq(NodeKeys)
      BY <1>0, <2>1, StackPop, TopFacts DEF TarjanInv
    <3> QED
      BY <3>1, <3>2
  <2>2. CASE lowlink[Top] # index[Top]
    <3>1. TarjanInv'
      BY <1>0, <1>1, <2>2, ReturnStep
    <3> QED
      BY <1>0, <2>2, <3>1 DEF ScanType
  <2> QED
    BY <2>1, <2>2
<1>6. ScanType'
  <2>1. /\ index' \in [NodeKeys -> Nat] /\ count' \in Nat \ {0}
        /\ stage' \in {"reach", "sccs", "checked"} /\ DOMAIN todo' = NodeKeys
        /\ \A k \in NodeKeys : todo'[k] \subseteq todo[k]
    BY <1>0 DEF ScanType
  <2> QED
    BY <1>0, <1>3, <1>4, <1>5, <2>1, TypeSame
<1> QED
  BY <1>2, <1>5, <1>6

LEMMA StageKeeps ==
  ASSUME ScanInv, g' = g,
         UNCHANGED <<seen, frontier, index, lowlink, count, stack, result, calls, todo>>,
         \/ stage' = stage
         \/ stage = "reach" /\ frontier = {} /\ stage' = "sccs"
         \/ /\ stage = "sccs" /\ stage' = "checked"
            /\ calls = << >> /\ \A k \in NodeKeys : index[k] # 0
  PROVE  ScanInv'
<1> USE DEF ScanInv
<1>1. NodeKeys' = NodeKeys /\ \A k : Ways(k)' = Ways(k)
  BY SameGraph
<1>2. TarjanInv'
  BY TarjanSame
<1>3. ScanType'
  BY <1>1 DEF ScanType
<1>4. Frontier'
  BY FrontierSame DEF Frontier
<1>5. Ended'
  BY <1>1 DEF Ended
<1> QED
  BY <1>2, <1>3, <1>4, <1>5

LEMMA NextKeepsGraph ==
  ASSUME WalkInv, Next
  PROVE  g' = g
BY Kinds DEF Start, UnknownNode, Stop, StepLimit, Follow

LEMMA GateStep == GateInv /\ [GateNext]_<<vars, scan>> => GateInv'
<1> SUFFICES ASSUME GateInv, [GateNext]_<<vars, scan>> PROVE GateInv'
  OBVIOUS
<1> USE DEF GateInv
<1>0. TypeOK
  BY DEF WalkInv
<1>1. CASE Scan /\ UNCHANGED vars
  <2>1. WalkInv'
    BY <1>1, WalkStep
  <2>2. g' = g
    BY <1>1 DEF vars
  <2>3. ScanInv'
    <3>1. CASE Explore
      BY <1>0, <2>2, <3>1, ExploreKeeps
    <3>2. CASE Explored
      BY <2>2, <3>2, StageKeeps DEF Explored
    <3>3. CASE VisitRoot \/ VisitNext
      BY <1>0, <2>2, <3>3, VisitKeeps
    <3>4. CASE Return
      BY <1>0, <2>2, <3>4, ReturnKeeps
    <3>5. CASE Visited
      BY <2>2, <3>5, StageKeeps DEF Visited
    <3> QED
      BY <1>1, <3>1, <3>2, <3>3, <3>4, <3>5 DEF Scan
  <2> QED
    BY <2>1, <2>3
<1>2. CASE stage = "checked" /\ Next /\ UNCHANGED scan
  <2>1. WalkInv'
    BY <1>2, WalkStep
  <2>2. g' = g
    BY <1>2, NextKeepsGraph
  <2>3. ScanInv'
    BY <1>2, <2>2, StageKeeps DEF scan
  <2> QED
    BY <2>1, <2>3
<1>3. CASE UNCHANGED <<vars, scan>>
  <2>1. WalkInv'
    BY <1>3, WalkStep
  <2>2. ScanInv'
    BY <1>3, StageKeeps DEF scan, vars
  <2> QED
    BY <2>1, <2>2
<1> QED
  BY <1>1, <1>2, <1>3 DEF GateNext

LEMMA GateInvariant == GateSpec => []GateInv
BY GateStart, GateStep, PTL DEF GateSpec

LEMMA ComponentsFound == GateInv => TarjanFindsComponents
<1> SUFFICES ASSUME GateInv, stage = "checked"
             PROVE  /\ Components = {Class(k) : k \in NodeKeys}
                    /\ \A i, j \in DOMAIN result : result[i] = result[j] => i = j
  BY DEF TarjanFindsComponents, Class
<1> USE DEF GateInv, ScanInv, TarjanInv
<1>1. Gray = {}
  BY DEF Ended, Gray
<1>2. On = {}
  BY <1>1 DEF Up
<1>3. \A k \in NodeKeys : k \in Done
  BY <1>2 DEF Ended, Colours
<1>4. ASSUME NEW k \in NodeKeys PROVE Class(k) \in Components
  <2>1. PICK c \in Components : k \in c
    BY <1>3 DEF Done
  <2>2. PICK n \in NodeKeys : c = Class(n)
    BY DEF Found
  <2>3. k \in Reach(n) /\ n \in Reach(k)
    BY <2>1, <2>2 DEF Class
  <2>4. \A m : m \in Class(k) <=> m \in Class(n)
    BY <2>3, ReachTrans DEF Class
  <2>5. Class(k) = Class(n)
    BY <2>4 DEF Class
  <2> QED
    BY <2>2, <2>5
<1> QED
  BY <1>4 DEF Found

\* Tarjan's algorithm as _tarjan_sccs runs it returns the strongly connected
\* components of the graph, each once, for every graph.
THEOREM TarjanCorrect == GateSpec => []TarjanFindsComponents
BY ComponentsFound, GateInvariant, PTL

\* What the frontier loop has seen when it ends.
SeenIsReached ==
  stage # "reach" => seen = {n \in NodeKeys : \E k \in StartNodes : n \in Reach(k)}

\* The frontier loop sees exactly the nodes that can be reached from a start
\* node: no unreachable_node issue is missed, and none is a false alarm.
THEOREM FrontierCorrect == GateSpec => []SeenIsReached
<1>1. GateInv => SeenIsReached
  <2> SUFFICES ASSUME GateInv, stage # "reach"
               PROVE  seen = {n \in NodeKeys : \E k \in StartNodes : n \in Reach(k)}
    BY DEF SeenIsReached
  <2> USE DEF GateInv, ScanInv
  <2>1. seen \in SUBSET NodeKeys /\ Closed(seen) /\ StartNodes \subseteq seen
    BY DEF ScanType, Frontier, Closed
  <2>2. ASSUME NEW n \in NodeKeys, NEW k \in StartNodes, n \in Reach(k) PROVE n \in seen
    BY <2>1, <2>2, ReachInside
  <2> QED
    BY <2>1, <2>2 DEF Frontier
<1> QED
  BY <1>1, GateInvariant, PTL

\* A graph whose edges all lead to nodes, and the walk over it: the replay is
\* always at a node that exists.
EdgesLead == \A i \in DOMAIN g.edges : g.edges[i].to \in NodeKeys
AtNode ==
  EdgesLead => /\ phase = "walking" => current \in NodeKeys
               /\ phase = "failed" => reason = "not_one_start"

LEMMA AtNodeStep ==
  ASSUME WalkInv, AtNode, Next
  PROVE  AtNode'
<1>1. g' = g
  BY NextKeepsGraph
<1>2. NodeKeys' = NodeKeys /\ EdgesLead' = EdgesLead
  BY <1>1 DEF NodeKeys, EdgesLead
<1> SUFFICES ASSUME EdgesLead
             PROVE  /\ phase' = "walking" => current' \in NodeKeys
                    /\ phase' = "failed" => reason' = "not_one_start"
  BY <1>2 DEF AtNode
<1>3. CASE Start
  BY <1>3 DEF Start, Starts
<1>4. CASE UnknownNode
  BY <1>4 DEF UnknownNode, AtNode
<1>5. CASE StepLimit
  BY <1>5 DEF StepLimit, Stop
<1>6. ASSUME NEW why, \/ Stop("undetermined", why)
                      \/ Stop("awaiting_human", why)
                      \/ Stop("completed", why)
      PROVE  phase' # "walking" /\ phase' # "failed"
  BY <1>6 DEF Stop
<1>7. ASSUME NEW i \in Outgoing(current), NEW state \in Facts, Iterating, Follow(i, state)
      PROVE  phase' = "walking" /\ current' \in NodeKeys
  BY <1>7 DEF Follow, Iterating, EdgesLead, Outgoing
<1> QED
  BY <1>3, <1>4, <1>5, <1>6, <1>7, Kinds

\* A graph that passed the gate never sends a replay to a node that is not
\* there.
THEOREM CleanReplay == GateSpec => []CleanReplayNeverFails
<1>1. GateInit => AtNode
  BY DEF GateInit, Init, AtNode
<1>2. GateInv /\ AtNode /\ [GateNext]_<<vars, scan>> => AtNode'
  <2> SUFFICES ASSUME GateInv, AtNode, [GateNext]_<<vars, scan>> PROVE AtNode'
    OBVIOUS
  <2>1. CASE Next
    BY <2>1, AtNodeStep DEF GateInv
  <2>2. CASE UNCHANGED vars
    BY <2>2 DEF vars, AtNode, EdgesLead, NodeKeys
  <2> QED
    BY <2>1, <2>2 DEF GateNext
<1>3. ValidateGraph = {} => EdgesLead
  <2> SUFFICES ASSUME ValidateGraph = {}, NEW i \in DOMAIN g.edges
               PROVE  g.edges[i].to \in NodeKeys
    BY DEF EdgesLead
  <2>1. DanglingReferenceIssues = {}
    BY DEF ValidateGraph
  <2> QED
    BY <2>1, Zenon DEF DanglingReferenceIssues
<1>4. AtNode => CleanReplayNeverFails
  BY <1>3 DEF AtNode, CleanReplayNeverFails
<1> QED
  BY <1>1, <1>2, <1>4, GateInvariant, PTL DEF GateSpec

\* A nonempty set of numbers has a least member.
LEMMA LeastSize ==
  ASSUME NEW S \in SUBSET Nat, S # {}
  PROVE  \E a \in S : \A b \in S : ~(b < a)
<1>1. PICK a \in S : \A b \in S : ~(<<b, a>> \in OpToRel(<, Nat))
  BY NatLessThanWellFounded, WFMin, Zenon
<1>2. \A b \in S : ~(b < a)
  BY <1>1 DEF OpToRel
<1> QED
  BY <1>2

\* From every node a case can come to a node that it can always come back to:
\* one that reaches as few nodes as any.
LEMMA FinalNode ==
  ASSUME TypeOK, NEW k \in NodeKeys
  PROVE  \E n \in Reach(k) : Reach(n) = Class(n)
<1>0. IsFiniteSet(NodeKeys)
  BY GraphFacts
<1>1. \A n \in NodeKeys : IsFiniteSet(Reach(n)) /\ Cardinality(Reach(n)) \in Nat
  <2> SUFFICES ASSUME NEW n \in NodeKeys
               PROVE  IsFiniteSet(Reach(n)) /\ Cardinality(Reach(n)) \in Nat
    OBVIOUS
  <2>1. IsFiniteSet(Reach(n))
    BY <1>0, ReachKeys, FS_Subset
  <2> QED
    BY <2>1, FS_CardinalityType
<1> DEFINE sizes == {Cardinality(Reach(n)) : n \in Reach(k)}
<1>2. sizes \in SUBSET Nat
  BY <1>1, ReachKeys
<1>3. sizes # {}
  BY ReachRefl
<1>4. PICK a \in sizes : \A b \in sizes : ~(b < a)
  <2> HIDE DEF sizes
  <2> QED BY <1>2, <1>3, LeastSize
<1>5. PICK n \in Reach(k) : a = Cardinality(Reach(n))
  BY <1>4
<1>6. n \in NodeKeys
  BY ReachKeys
<1>7. ASSUME NEW m \in Reach(n) PROVE n \in Reach(m)
  <2>1. m \in NodeKeys /\ m \in Reach(k)
    BY ReachKeys, ReachTrans
  <2>2. Reach(m) \subseteq Reach(n)
    BY ReachTrans
  <2>3. Cardinality(Reach(m)) <= Cardinality(Reach(n))
        /\ (Cardinality(Reach(n)) = Cardinality(Reach(m)) => Reach(n) = Reach(m))
    BY <1>1, <1>6, <2>2, FS_Subset
  <2>4. Cardinality(Reach(m)) \in sizes
    BY <2>1
  <2>5. Cardinality(Reach(n)) = Cardinality(Reach(m))
    BY <1>1, <1>4, <1>5, <1>6, <2>1, <2>3, <2>4
  <2> QED
    BY <1>6, <2>3, <2>5, ReachRefl
<1> QED
  BY <1>7 DEF Class

\* A graph that validate_graph finds nothing wrong with has no trap.
THEOREM CleanGraphs == GateSpec => []CleanGraphHasNoTrap
<1>1. GateInv => CleanGraphHasNoTrap
  <2> SUFFICES ASSUME GateInv, TarjanFindsComponents, stage = "checked", ValidateGraph = {},
                      NEW k \in NodeKeys
               PROVE  /\ \E n \in NodeKeys : /\ k \in Reach(n)
                                             /\ Incoming(n) = {} \/ Cardinality(NodeKeys) = 1
                      /\ \E n \in Reach(k) : OutAdj(n) = {} \/ g.nodes[n].type = "human"
    BY ComponentsFound DEF CleanGraphHasNoTrap
  <2>0. TypeOK
    BY DEF GateInv, WalkInv
  <2>1. /\ DanglingReferenceIssues = {} /\ ReachabilityIssues = {} /\ CycleIssues = {}
    BY DEF ValidateGraph
  <2>2. \E n \in NodeKeys : k \in Reach(n) /\ (Incoming(n) = {} \/ Cardinality(NodeKeys) = 1)
    <3>1. CASE Cardinality(NodeKeys) = 1
      BY <3>1, ReachRefl
    <3>2. CASE Cardinality(NodeKeys) # 1
      <4>1. ReachabilityIssues =
              {<<"unreachable_node", n>> : n \in Islands} \cup
              IF StartNodes = {} THEN {<<"no_start_node", None>>}
              ELSE {<<"unreachable_node", n>> : n \in NodeKeys \ (seen \cup Islands)}
                   \cup {x \in {<<"no_reachable_terminal", None>>} :
                           {n \in NodeKeys : OutAdj(n) = {}} \cap seen = {}}
        BY <3>2 DEF ReachabilityIssues
      <4>2. {<<"unreachable_node", n>> : n \in Islands} = {}
        BY <2>1, <4>1
      <4>3. Islands = {}
        BY <4>2
      <4>4. StartNodes # {}
        BY <2>1, <4>1
      <4>5. {<<"unreachable_node", n>> : n \in NodeKeys \ (seen \cup Islands)} = {}
        BY <2>1, <4>1, <4>4
      <4>6. k \in seen
        BY <4>3, <4>5
      <4>7. PICK n \in StartNodes : k \in Reach(n)
        BY <4>6 DEF GateInv, ScanInv, Frontier
      <4> QED
        BY <4>7 DEF StartNodes
    <3> QED
      BY <3>1, <3>2
  <2>3. \E n \in Reach(k) : OutAdj(n) = {} \/ g.nodes[n].type = "human"
    <3>1. PICK n \in Reach(k) : Reach(n) = Class(n)
      BY <2>0, FinalNode
    <3>2. n \in NodeKeys /\ n \in Reach(n)
      BY ReachKeys, ReachRefl
    <3> SUFFICES ASSUME OutAdj(n) # {} PROVE \E m \in Reach(n) : g.nodes[m].type = "human"
      BY ReachTrans
    <3> DEFINE c == Reach(n)
    <3>3. c \in Components
      BY <3>1, <3>2 DEF TarjanFindsComponents, Class
    <3>4. Closed(c) /\ c \in SUBSET NodeKeys
      BY <2>0, <3>2, ReachClosed
    <3>5. Cardinality(c) > 1 \/ \E m \in c : m \in OutAdj(m)
      <4>1. PICK m \in OutAdj(n) : TRUE
        OBVIOUS
      <4>2. m \in c
        BY <3>2, <3>4 DEF Closed
      <4>3. CASE m # n
        <5>1. IsFiniteSet(c)
          BY <2>0, <3>4, GraphFacts, FS_Subset
        <5>2. Cardinality(c) \in Nat
          BY <5>1, FS_CardinalityType
        <5>3. Cardinality(c) # 0
          BY <3>2, <5>1, FS_EmptySet
        <5>4. Cardinality(c) # 1
          BY <3>2, <4>2, <4>3, <5>1, FS_Singleton
        <5> QED
          BY <5>2, <5>3, <5>4
      <4> QED
        BY <3>2, <4>1, <4>3
    <3>6. PICK m \in c : ValidExit(m, c)
      <4> HIDE DEF c
      <4> SUFFICES ASSUME \A m \in c : ~ValidExit(m, c) PROVE FALSE
        OBVIOUS
      <4>1. <<"unbounded_cycle_no_exit", c>> \in CycleIssues
        BY <3>3, <3>5 DEF CycleIssues
      <4> QED
        BY <2>1, <4>1
    <3>7. m \in NodeKeys
      BY <3>4
    <3>8. CASE g.nodes[m].type = "human"
      BY <3>8
    <3>9. CASE Fallback(m) # None /\ Fallback(m) \notin c
      <4>1. Fallback(m) \in NodeKeys
        <5> SUFFICES ASSUME Fallback(m) \notin NodeKeys PROVE FALSE
          OBVIOUS
        <5>1. <<"dangling_reference", m>> \in DanglingReferenceIssues
          BY <3>7, <3>9, Zenon DEF DanglingReferenceIssues
        <5> QED
          BY <2>1, <5>1
      <4>2. Fallback(m) \in OutAdj(m)
        <5>1. Len(g.edges) + 1 \notin DOMAIN g.edges
          <6>1. g.edges \in Seq(Edge)
            BY <2>0 DEF TypeOK, GraphAndCase
          <6> QED
            BY <6>1
        <5>2. Len(g.edges) + 1 \in Ways(m)
          BY <4>1 DEF Ways
        <5>3. Target(m, Len(g.edges) + 1) = Fallback(m)
          BY <5>1 DEF Target
        <5> QED
          BY <5>2, <5>3 DEF OutAdj
      <4> QED
        BY <3>4, <3>9, <4>2 DEF Closed
    <3> QED
      BY <3>6, <3>8, <3>9 DEF ValidExit
  <2> QED
    BY <2>2, <2>3
<1> QED
  BY <1>1, GateInvariant, PTL

\* The replay behind the gate keeps what it keeps alone.
THEOREM GateWalks == GateSpec => [](TraceIsWalk /\ StepLimitMeansCycle)
<1>1. GateInv => TraceIsWalk /\ StepLimitMeansCycle
  BY LimitIsCycle DEF GateInv, WalkInv
<1> QED
  BY <1>1, GateInvariant, PTL

-----------------------------------------------------------------------------
(* Every step of the two loops comes closer to their end. *)

StrictlyIn(S, T) == S \subseteq T /\ S # T

Unvisited == {k \in NodeKeys : index[k] = 0}

\* The ways that the loops of strongconnect have still to take.
Pending == {w \in NodeKeys \X (1..(Len(g.edges) + 1)) : w[2] \in todo[w[1]]}

\* The frontier loop sees more, or has less to follow; strongconnect is called
\* for a node not visited before, or takes a way, or returns.
Closer ==
  \/ stage = "reach" /\ stage' = "sccs"
  \/ stage = "sccs" /\ stage' = "checked"
  \/ /\ stage = "reach" /\ stage' = "reach"
     /\ \/ StrictlyIn(seen, seen')
        \/ seen' = seen /\ StrictlyIn(frontier', frontier)
  \/ /\ stage = "sccs" /\ stage' = "sccs"
     /\ \/ StrictlyIn(Unvisited', Unvisited)
        \/ Unvisited' = Unvisited /\ StrictlyIn(Pending', Pending)
        \/ Unvisited' = Unvisited /\ Pending' = Pending /\ Len(calls') < Len(calls)

\* There are only finitely many nodes and ways to begin with.
FinitelyMany ==
  /\ IsFiniteSet(NodeKeys) /\ seen \subseteq NodeKeys /\ frontier \subseteq NodeKeys
  /\ Unvisited \subseteq NodeKeys /\ IsFiniteSet(Pending) /\ Len(calls) \in Nat

LEMMA ScanFinite ==
  ASSUME GateInv
  PROVE  FinitelyMany
<1>0. TypeOK /\ ScanType
  BY DEF GateInv, WalkInv, ScanInv
<1>1. IsFiniteSet(NodeKeys)
  BY <1>0, GraphFacts
<1>2. Len(g.edges) + 1 \in Int /\ 1 \in Int
  BY <1>0 DEF TypeOK, GraphAndCase
<1>3. IsFiniteSet(1..(Len(g.edges) + 1))
  BY <1>2, FS_Interval
<1>4. IsFiniteSet(NodeKeys \X (1..(Len(g.edges) + 1)))
  BY <1>1, <1>3, FS_Product
<1>5. Pending \in SUBSET (NodeKeys \X (1..(Len(g.edges) + 1)))
  BY DEF Pending
<1>6. IsFiniteSet(Pending)
  BY <1>4, <1>5, FS_Subset
<1> QED
  BY <1>0, <1>1, <1>6 DEF FinitelyMany, ScanType, Unvisited

LEMMA CallIsCloser ==
  ASSUME ScanType, g' = g, NEW w \in NodeKeys, index[w] = 0, StrongConnect(w)
  PROVE  StrictlyIn(Unvisited', Unvisited)
<1>1. NodeKeys' = NodeKeys
  BY SameGraph
<1>2. /\ index' = [index EXCEPT ![w] = count] /\ count # 0 /\ index \in [NodeKeys -> Nat]
  BY DEF ScanType, StrongConnect
<1>3. index'[w] # 0 /\ \A k \in NodeKeys : k # w => index'[k] = index[k]
  BY <1>2
<1> QED
  BY <1>1, <1>3 DEF Unvisited, StrictlyIn

LEMMA WaysBounded ==
  ASSUME TypeOK, NEW k, NEW i \in Ways(k)
  PROVE  i \in 1..(Len(g.edges) + 1)
<1>1. DOMAIN g.edges = 1..Len(g.edges) /\ Len(g.edges) \in Nat
  BY DEF TypeOK, GraphAndCase
<1> QED
  BY <1>1 DEF Ways, Outgoing

LEMMA ScanIsCloser ==
  ASSUME GateInv, Scan, g' = g
  PROVE  Closer
<1>0. TypeOK /\ ScanType /\ TarjanInv
  BY DEF GateInv, WalkInv, ScanInv
<1>1. CASE Explore
  <2>1. PICK k \in frontier : /\ seen' = seen \cup OutAdj(k)
                              /\ frontier' = (frontier \ {k}) \cup (OutAdj(k) \ seen)
    BY <1>1 DEF Explore
  <2>2. stage = "reach" /\ stage' = "reach"
    BY <1>1 DEF Explore
  <2>3. CASE OutAdj(k) \subseteq seen
    <3>1. seen' = seen /\ frontier' = frontier \ {k}
      BY <2>1, <2>3
    <3> QED
      BY <2>2, <3>1 DEF Closer, StrictlyIn
  <2>4. CASE ~(OutAdj(k) \subseteq seen)
    BY <2>1, <2>2, <2>4 DEF Closer, StrictlyIn
  <2> QED
    BY <2>3, <2>4
<1>2. CASE Explored \/ Visited
  BY <1>2 DEF Explored, Visited, Closer
<1>3. CASE VisitRoot
  <2>1. PICK w \in NodeKeys : index[w] = 0 /\ StrongConnect(w)
    BY <1>3 DEF VisitRoot, IsFirst
  <2>2. StrictlyIn(Unvisited', Unvisited)
    BY <1>0, <2>1, CallIsCloser
  <2> QED
    BY <1>3, <2>2 DEF VisitRoot, Closer
<1>4. CASE VisitNext
  <2>0. stage = "sccs" /\ stage' = "sccs" /\ calls # << >>
    BY <1>4 DEF VisitNext
  <2>1. PICK v \in NodeKeys : v = Top
    BY <1>0, <2>0, TopFacts DEF TarjanInv
  <2>2. PICK i \in todo[v] :
          /\ todo' = [todo EXCEPT ![v] = @ \ {i}]
          /\ \/ index[Target(v, i)] = 0 /\ StrongConnect(Target(v, i))
             \/ index[Target(v, i)] # 0 /\ index' = index
    BY <1>4, <2>1 DEF VisitNext
  <2>3. i \in Ways(v)
    BY <1>0 DEF ScanType
  <2>4. Target(v, i) \in NodeKeys /\ i \in 1..(Len(g.edges) + 1)
    BY <1>0, <2>3, WaysLead, WaysBounded
  <2>5. CASE index[Target(v, i)] = 0
    <3>1. StrictlyIn(Unvisited', Unvisited)
      BY <1>0, <2>2, <2>4, <2>5, CallIsCloser
    <3> QED
      BY <2>0, <3>1 DEF Closer
  <2>6. CASE index[Target(v, i)] # 0
    <3>1. Unvisited' = Unvisited
      BY <2>2, <2>6, SameGraph DEF Unvisited
    <3>2. NodeKeys' = NodeKeys
      BY SameGraph
    <3>3. /\ \A k \in NodeKeys : k # v => todo'[k] = todo[k]
          /\ todo'[v] = todo[v] \ {i}
      BY <1>0, <2>2 DEF ScanType
    <3>4. Pending' \subseteq Pending
      BY <3>2, <3>3 DEF Pending
    <3>5. <<v, i>> \in Pending /\ <<v, i>> \notin Pending'
      BY <2>4, <3>2, <3>3 DEF Pending
    <3> QED
      BY <2>0, <3>1, <3>4, <3>5 DEF Closer, StrictlyIn
  <2> QED
    BY <2>5, <2>6
<1>5. CASE Return
  <2>1. /\ stage = "sccs" /\ stage' = "sccs" /\ calls # << >>
        /\ calls' = SubSeq(calls, 1, Len(calls) - 1) /\ index' = index /\ todo' = todo
    BY <1>5 DEF Return
  <2>2. NodeKeys' = NodeKeys
    BY SameGraph
  <2>3. Unvisited' = Unvisited /\ Pending' = Pending
    BY <2>1, <2>2 DEF Unvisited, Pending
  <2>4. calls \in Seq(NodeKeys)
    BY <1>0 DEF ScanType
  <2>5. Len(calls') < Len(calls)
    BY <2>1, <2>4
  <2> QED
    BY <2>1, <2>3, <2>5 DEF Closer
<1> QED
  BY <1>1, <1>2, <1>3, <1>4, <1>5 DEF Scan

\* validate_graph cannot go on for ever: each step of its loops makes a
\* finite set smaller, or leaves it and makes the next one smaller, whatever
\* cycles the graph has.
THEOREM ScanShrinks ==
  GateSpec => []FinitelyMany /\ [][Scan => Closer]_<<vars, scan>>
<1>1. GateInv /\ [GateNext]_<<vars, scan>> => [Scan => Closer]_<<vars, scan>>
  <2> SUFFICES ASSUME GateInv, GateNext, Scan PROVE Closer
    OBVIOUS
  <2>1. g' = g
    BY NextKeepsGraph DEF GateNext, vars, GateInv
  <2> QED
    BY <2>1, ScanIsCloser
<1>2. GateInv => FinitelyMany
  BY ScanFinite
<1> QED
  BY <1>1, <1>2, GateInvariant, PTL DEF GateSpec
=============================================================================
