-------------------------- MODULE PolicySimulation --------------------------
(***************************************************************************)
(* simulation_engine.run_case: the replay of one case over a policy graph. *)
(*                                                                         *)
(* A graph is a function from node keys to nodes and a sequence of edges,  *)
(* in the order list_edges returns them (ORDER BY id).  A node has a type, *)
(* ("gate" for every automatic one that is not a rule), an optional        *)
(* fallback, whether its retry_policy has max_attempts > 0,                *)
(* one field of its two contracts, and a sequence of test cases.  The      *)
(* running state of a case, a test case's input and its expected_output    *)
(* are partial functions on Fields; None stands for an absent key.         *)
(***************************************************************************)
EXTENDS Integers, Sequences, FiniteSets

CONSTANTS
  Keys,       \* node keys an edge may mention
  Labels,     \* condition labels
  Fields, Values,
  None,
  Inputs      \* the graphs and cases to replay

Facts == [Fields -> Values \cup {None}]
Edge  == [from : Keys, to : Keys, label : Labels \cup {None}]
Test  == [input : Facts, covers : Labels \cup {None}, output : Facts]
Node  == [type : {"human", "rule", "gate"}, fallback : Keys \cup {None},
          bounded : BOOLEAN, takes : Values \cup {None}, gives : Values \cup {None},
          tests : Seq(Test)]

\* A graph has nodes and edges, a case its inputs and human_overrides.
GraphAndCase(x) ==
  /\ DOMAIN x.nodes \subseteq Keys /\ IsFiniteSet(DOMAIN x.nodes)
  /\ \A k \in DOMAIN x.nodes : x.nodes[k] \in Node
  /\ x.edges \in Seq(Edge)
  /\ x.inputs \in Facts
  /\ x.overrides \in [Keys -> Labels \cup {None}]

ASSUME SimulationAssumption ==
  /\ None \notin Keys /\ None \notin Labels /\ None \notin Values
  /\ None # "step_limit_exceeded"          \* None is no reason
  /\ \A x \in Inputs : GraphAndCase(x)

VARIABLES
  g,        \* nodes, edges and case: never changed by run_case
  phase,    \* "ready", "walking", "failed", or the status of the CaseTrace
  reason,   \* undetermined_reason, or what was raised
  current, facts, path

vars == <<g, phase, reason, current, facts, path>>

NodeKeys == DOMAIN g.nodes

\* Where in the list the edges out of k are.
Outgoing(k) == {i \in DOMAIN g.edges : g.edges[i].from = k}

\* _find_start_node: no edge and no fallback leads here.
Starts ==
  {k \in NodeKeys : /\ \A i \in DOMAIN g.edges : g.edges[i].to # k
                    /\ \A n \in NodeKeys : g.nodes[n].fallback # k}

\* A form that allows one step per node less one.
StepCap_PerNode == Cardinality(NodeKeys) - 1

StepCap == IF NodeKeys = {} THEN 1 ELSE 2 * Cardinality(NodeKeys)

InputMatches(input, state) == \A f \in Fields : input[f] # None => input[f] = state[f]

\* _matching_test_cases: positions in the node's list.
Matching(k) ==
  {t \in DOMAIN g.nodes[k].tests : InputMatches(g.nodes[k].tests[t].input, facts)}

\* {**state, **expected_output}
Merge(state, output) == [f \in Fields |-> IF output[f] # None THEN output[f] ELSE state[f]]

\* The first of a set of positions.
IsFirst(i, S) == i \in S /\ \A j \in S : i <= j

Init ==
  /\ g \in Inputs
  /\ phase = "ready" /\ reason = None
  /\ current = None /\ facts = g.inputs /\ path = << >>

-----------------------------------------------------------------------------
Start ==
  /\ phase = "ready"
  /\ \/ \E k \in Starts :
          /\ Starts = {k}
          /\ phase' = "walking" /\ current' = k /\ path' = <<k>>
          /\ UNCHANGED reason
     \/ /\ \A k \in Starts : Starts # {k}
        /\ phase' = "failed" /\ reason' = "not_one_start"     \* ValueError
        /\ UNCHANGED <<current, path>>
  /\ UNCHANGED <<g, facts>>

\* One more iteration of the loop, at a node that exists.
Iterating == phase = "walking" /\ Len(path) <= StepCap /\ current \in NodeKeys

\* node_by_key[current] of an edge that dangles.
UnknownNode ==
  /\ phase = "walking" /\ Len(path) <= StepCap /\ current \notin NodeKeys
  /\ phase' = "failed" /\ reason' = "unknown_node"            \* KeyError
  /\ UNCHANGED <<g, current, facts, path>>

Stop(status, why) ==
  /\ phase' = status /\ reason' = why
  /\ UNCHANGED <<g, current, facts, path>>

\* A form that traces the node a step leaves, not the one it reaches.
Follow_LateTrace(i, state) ==
  /\ current' = g.edges[i].to
  /\ path' = Append(path, current)
  /\ facts' = state
  /\ UNCHANGED <<g, phase, reason>>

Follow(i, state) ==
  /\ current' = g.edges[i].to
  /\ path' = Append(path, g.edges[i].to)
  /\ facts' = state
  /\ UNCHANGED <<g, phase, reason>>

Terminal ==
  /\ Iterating /\ Outgoing(current) = {}
  /\ Stop("completed", None)

\* A single edge without a condition.
OnlyWay(k) == \E i \in DOMAIN g.edges : Outgoing(k) = {i} /\ g.edges[i].label = None

\* It is taken; the output of a test case is merged if exactly one matches.
TakeOnlyEdge ==
  LET node == g.nodes[current] IN
  /\ Iterating /\ OnlyWay(current)
  /\ \E i \in Outgoing(current) :
       \/ \E t \in Matching(current) :
            Matching(current) = {t} /\ Follow(i, Merge(facts, node.tests[t].output))
       \/ (\A t \in Matching(current) : Matching(current) # {t}) /\ Follow(i, facts)

Branching == Iterating /\ Outgoing(current) # {} /\ ~OnlyWay(current)

Overridden(k) == g.nodes[k].type = "human" /\ g.overrides[k] # None

\* The edges out of k with a label.
Labelled(k, l) == {i \in Outgoing(k) : g.edges[i].label = l}

\* human_overrides: the first edge with the chosen label.
TakeOverride ==
  /\ Branching /\ Overridden(current)
  /\ LET chosen == Labelled(current, g.overrides[current]) IN
       \/ \E i \in chosen : IsFirst(i, chosen) /\ Follow(i, facts)
       \/ chosen = {} /\ Stop("undetermined", "human_override_no_matching_edge")

\* Replay of the node's own test cases.
Replay ==
  LET tests == g.nodes[current].tests
      covered == {tests[t].covers : t \in Matching(current)}
  IN
  /\ Branching /\ ~Overridden(current)
  /\ \/ /\ covered = {}
        /\ \/ g.nodes[current].type = "human" /\ Stop("awaiting_human", "awaiting_human")
           \/ g.nodes[current].type # "human" /\ Stop("undetermined", "no_matching_test_case")
     \/ /\ covered # {} /\ \A l \in covered : covered # {l}
        /\ Stop("undetermined", "ambiguous_test_cases")
     \/ \E l \in covered :
          /\ covered = {l}
          /\ \/ /\ Labelled(current, l) = {}
                /\ Stop("undetermined", "test_case_covers_unknown_edge")
             \/ \E i \in Labelled(current, l), t \in Matching(current) :
                  /\ IsFirst(i, Labelled(current, l)) /\ IsFirst(t, Matching(current))
                  /\ Follow(i, Merge(facts, tests[t].output))

\* A form that leaves the loop without a trace.
StepLimit_Silent == FALSE

StepLimit ==
  /\ phase = "walking" /\ Len(path) > StepCap
  /\ Stop("undetermined", "step_limit_exceeded")

Next == Start \/ UnknownNode \/ Terminal \/ TakeOnlyEdge \/ TakeOverride \/ Replay \/ StepLimit

\* run_case is a loop of one thread.
Spec == Init /\ [][Next]_vars /\ WF_vars(Next)

-----------------------------------------------------------------------------
(* Properties. *)

\* Every variable has its type, and a case is in one of the trace's statuses.
TypeOK ==
  /\ GraphAndCase(g)
  /\ phase \in {"ready", "walking", "failed", "completed", "awaiting_human", "undetermined"}
  /\ current \in Keys \cup {None}
  /\ facts \in Facts
  /\ path \in Seq(Keys)

\* The trace a reviewer is shown is a real walk: it begins at the one start
\* node, each step is an edge somebody drew, it is no longer than the cap
\* allows, and a completed case ends at a node with no way on.
TraceIsWalk ==
  phase \notin {"ready", "failed"} =>
    /\ Len(path) \in 1..(StepCap + 1)
    /\ Starts = {path[1]} /\ path[Len(path)] = current
    /\ \A n \in 1..(Len(path) - 1) :
         \E i \in DOMAIN g.edges : g.edges[i].from = path[n] /\ g.edges[i].to = path[n + 1]
    /\ phase = "completed" => current \in NodeKeys /\ Outgoing(current) = {}

\* Every case gets an answer, whatever cycles the graph has: the step cap
\* ends the walks that overrides or test cases send round in circles.
WalkEnds == <>(phase \notin {"ready", "walking"})

\* The step limit is never mistaken for a long path: a case that exceeds it
\* has been at some node twice, and so went round a cycle of drawn edges.
StepLimitMeansCycle ==
  reason = "step_limit_exceeded" =>
    \E m, n \in DOMAIN path : m < n /\ path[m] = path[n]
=============================================================================
