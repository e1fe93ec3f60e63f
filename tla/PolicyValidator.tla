--------------------------- MODULE PolicyValidator ---------------------------
(***************************************************************************)
(* policy_validator.validate_graph on the graph that PolicySimulation      *)
(* replays: the gate of submit_for_approval and the check of /validate.    *)
(* Its two loops are actions, the frontier of _reachability_issues and     *)
(* _tarjan_sccs with the calls of strongconnect on an explicit stack; the  *)
(* issues are then read off the graph and what the loops left.  An issue   *)
(* is its code and the node it names; messages are left out.  Node keys    *)
(* are numbers, so that sorted(node_keys) is their order.                  *)
(***************************************************************************)
EXTENDS PolicySimulation

VARIABLES
  stage,            \* "reach", "sccs" or "checked": which loop is running
  seen, frontier,   \* of the frontier loop; frontier's order plays no part
  index, lowlink,   \* of each node; 0 for a node not in the dict yet
  count, stack, result,
  calls,            \* the nodes whose strongconnect has not returned
  todo              \* of each node, what its "for w in out_adj[v]" has left

scan == <<stage, seen, frontier, index, lowlink, count, stack, result, calls, todo>>

Fallback(k) == g.nodes[k].fallback

DanglingReferenceIssues ==
  LET mentioned == {g.edges[i].from : i \in DOMAIN g.edges}
                   \cup {g.edges[i].to : i \in DOMAIN g.edges}
      astray == {k \in NodeKeys : Fallback(k) \notin NodeKeys \cup {None}}
  IN  {<<"dangling_reference", k>> : k \in (mentioned \ NodeKeys) \cup astray}

\* _build_adjacency: out_adj[k] is the clean edges out of k in their order,
\* then the fallback.  Its positions, and what is there.
Ways(k) == {i \in Outgoing(k) : g.edges[i].to \in NodeKeys}
           \cup {i \in {Len(g.edges) + 1} : Fallback(k) \in NodeKeys}

Target(k, i) == IF i \in DOMAIN g.edges THEN g.edges[i].to ELSE Fallback(k)

OutAdj(k) == {Target(k, i) : i \in Ways(k)}

Incoming(k) == {n \in NodeKeys : k \in OutAdj(n)}

Islands == {k \in NodeKeys : Incoming(k) = {} /\ OutAdj(k) = {}}

StartNodes == {k \in NodeKeys \ Islands : Incoming(k) = {}}

ScanInit ==
  /\ stage = "reach" /\ seen = StartNodes /\ frontier = StartNodes
  /\ index = [k \in NodeKeys |-> 0] /\ lowlink = index
  /\ count = 1 /\ stack = << >> /\ result = << >>
  /\ calls = << >> /\ todo = [k \in NodeKeys |-> Ways(k)]

-----------------------------------------------------------------------------
(* _reachability_issues: while frontier. *)

Explore ==
  /\ stage = "reach"
  /\ \E k \in frontier :
       /\ seen' = seen \cup OutAdj(k)
       /\ frontier' = (frontier \ {k}) \cup (OutAdj(k) \ seen)
  /\ UNCHANGED <<stage, index, lowlink, count, stack, result, calls, todo>>

Explored ==
  /\ stage = "reach" /\ frontier = {}
  /\ stage' = "sccs"
  /\ UNCHANGED <<seen, frontier, index, lowlink, count, stack, result, calls, todo>>

-----------------------------------------------------------------------------
(* _tarjan_sccs. *)

Min2(a, b) == IF a <= b THEN a ELSE b

Top == calls[Len(calls)]

\* A form that forgets on_stack: an edge to a finished component lowers too.
OnStack_Finished(w) == TRUE

OnStack(w) == \E i \in DOMAIN stack : stack[i] = w

\* A call of strongconnect(v), up to its loop.
StrongConnect(v) ==
  /\ index' = [index EXCEPT ![v] = count] /\ lowlink' = [lowlink EXCEPT ![v] = count]
  /\ count' = count + 1
  /\ stack' = Append(stack, v) /\ calls' = Append(calls, v)

\* for v in sorted(node_keys): if v not in index
VisitRoot ==
  /\ stage = "sccs" /\ calls = << >>
  /\ \E v \in NodeKeys : /\ IsFirst(v, {k \in NodeKeys : index[k] = 0})
                         /\ StrongConnect(v)
  /\ UNCHANGED <<stage, seen, frontier, result, todo>>

\* for w in out_adj[v]
VisitNext ==
  /\ stage = "sccs" /\ calls # << >>
  /\ \E i \in todo[Top] :
       LET v == Top
           w == Target(v, i)
       IN
       /\ IsFirst(i, todo[v])
       /\ todo' = [todo EXCEPT ![v] = @ \ {i}]
       /\ \/ index[w] = 0 /\ StrongConnect(w)
          \/ /\ index[w] # 0
             /\ lowlink' = IF OnStack(w) THEN [lowlink EXCEPT ![v] = Min2(@, index[w])]
                                         ELSE lowlink
             /\ UNCHANGED <<index, count, stack, calls>>
  /\ UNCHANGED <<stage, seen, frontier, result>>

\* while True: w = stack.pop() ... if w == v: break
PopComponent(v) ==
  \E at \in DOMAIN stack :
    /\ stack[at] = v
    /\ stack' = SubSeq(stack, 1, at - 1)
    /\ result' = Append(result, {stack[i] : i \in at..Len(stack)})

\* strongconnect(v) returns, into the loop of its caller if it has one.
Return ==
  /\ stage = "sccs" /\ calls # << >> /\ todo[Top] = {}
  /\ LET v == Top
         left == SubSeq(calls, 1, Len(calls) - 1)
     IN
     /\ \/ lowlink[v] = index[v] /\ PopComponent(v)
        \/ lowlink[v] # index[v] /\ UNCHANGED <<stack, result>>
     /\ calls' = left
     /\ lowlink' = IF left = << >> THEN lowlink
                   ELSE [lowlink EXCEPT ![left[Len(left)]] = Min2(@, lowlink[v])]
  /\ UNCHANGED <<stage, seen, frontier, index, count, todo>>

Visited ==
  /\ stage = "sccs" /\ calls = << >> /\ \A k \in NodeKeys : index[k] # 0
  /\ stage' = "checked"
  /\ UNCHANGED <<seen, frontier, index, lowlink, count, stack, result, calls, todo>>

Scan == Explore \/ Explored \/ VisitRoot \/ VisitNext \/ Return \/ Visited

\* Both read the graph and neither changes it: it is replayed once checked.
GateInit == Init /\ ScanInit
GateNext == \/ Scan /\ UNCHANGED vars
            \/ stage = "checked" /\ Next /\ UNCHANGED scan

\* Each is a loop of one thread.
GateSpec == GateInit /\ [][GateNext]_<<vars, scan>> /\ WF_<<vars, scan>>(GateNext)

-----------------------------------------------------------------------------
ReachabilityIssues ==
  LET terminals == {k \in NodeKeys : OutAdj(k) = {}} IN
  CASE NodeKeys = {} -> {<<"empty_graph", None>>}
    [] Cardinality(NodeKeys) = 1 -> {}
    [] OTHER ->
         {<<"unreachable_node", k>> : k \in Islands} \cup
         IF StartNodes = {} THEN {<<"no_start_node", None>>}
         ELSE {<<"unreachable_node", k>> : k \in NodeKeys \ (seen \cup Islands)}
              \cup {x \in {<<"no_reachable_terminal", None>>} : terminals \cap seen = {}}

\* A form that accepts a fallback that stays in the cycle.
ValidExit_AnyFallback(k, component) ==
  \/ g.nodes[k].type = "human"
  \/ g.nodes[k].bounded /\ Fallback(k) # None

ValidExit(k, component) ==
  \/ g.nodes[k].type = "human"
  \/ g.nodes[k].bounded /\ Fallback(k) # None /\ Fallback(k) \notin component

Components == {result[i] : i \in DOMAIN result}

CycleIssues ==
  {<<"unbounded_cycle_no_exit", c>> : c \in
     {c \in Components :
        /\ Cardinality(c) > 1 \/ \E k \in c : k \in OutAdj(k)
        /\ \A k \in c : ~ValidExit(k, c)}}

IoTypeMismatchIssues ==
  LET clean == {i \in DOMAIN g.edges : g.edges[i].from \in NodeKeys
                                       /\ g.edges[i].to \in NodeKeys}
      out(i) == g.nodes[g.edges[i].from].gives
      in(i)  == g.nodes[g.edges[i].to].takes
  IN  {<<"io_type_mismatch", g.edges[i].from>> : i \in
         {i \in clean : out(i) # None /\ in(i) # None /\ out(i) # in(i)}}

\* FR-ALG-04: each labelled branch of a rule node has a test case.
BranchCoverageIssues ==
  LET tests(k) == g.nodes[k].tests
      labels(k) == {g.edges[i].label : i \in Outgoing(k)} \ {None}
      covered(k) == {tests(k)[t].covers : t \in DOMAIN tests(k)}
      rules == {k \in NodeKeys : g.nodes[k].type = "rule" /\ Outgoing(k) # {}}
  IN
  {<<"no_test_cases", k>> : k \in {k \in rules : tests(k) = << >>}}
  \cup {<<"uncovered_branch", k>> : k \in
          {k \in rules : tests(k) # << >> /\ ~(labels(k) \subseteq covered(k))}}

\* A form that leaves the dangling references to the database.
ValidateGraph_NoDangling ==
  ReachabilityIssues \cup CycleIssues \cup IoTypeMismatchIssues \cup BranchCoverageIssues

\* What validate_graph returns once both loops are done.
ValidateGraph ==
  DanglingReferenceIssues \cup ReachabilityIssues \cup CycleIssues
  \cup IoTypeMismatchIssues \cup BranchCoverageIssues

-----------------------------------------------------------------------------
(* Properties. *)

\* For the reference definitions: nothing leads out of S, and a node reaches
\* what is in every such set that it is in.
Closed(S) == \A k \in S : OutAdj(k) \subseteq S
Reach(k) == {n \in NodeKeys : \A S \in SUBSET NodeKeys : k \in S /\ Closed(S) => n \in S}

\* Tarjan's algorithm finds exactly the classes of nodes that reach each
\* other, each once, for any order of edges and any shape.
TarjanFindsComponents ==
  stage = "checked" =>
    LET class(k) == {n \in Reach(k) : k \in Reach(n)}
    IN  /\ Components = {class(k) : k \in NodeKeys}
        /\ \A i, j \in DOMAIN result : result[i] = result[j] => i = j

\* What passing the gate is worth: in a graph without issues every node can
\* be reached from an entry, and from every node a case can still come to a
\* terminal or to a person; no automatic cycle is a trap.
CleanGraphHasNoTrap ==
  stage = "checked" /\ ValidateGraph = {} =>
    \A k \in NodeKeys :
      /\ \E n \in NodeKeys : /\ k \in Reach(n)
                             /\ Incoming(n) = {} \/ Cardinality(NodeKeys) = 1
      /\ \E n \in Reach(k) : OutAdj(n) = {} \/ g.nodes[n].type = "human"

\* On a graph that passed the gate the replay only ever refuses to begin, and
\* only because the graph has not exactly one entry: no edge sends it to a
\* node that is not there.
CleanReplayNeverFails ==
  phase = "failed" /\ ValidateGraph = {} => reason = "not_one_start"
=============================================================================
