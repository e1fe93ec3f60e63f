---------------------------- MODULE MCPolicyGraph ----------------------------
(* The graphs and cases that TLC replays and validates. *)
EXTENDS PolicyValidator, SequencesExt

CONSTANTS MaxEdges, MaxLabelledEdges

FourKeys  == 1..4          \* 4 is never a node: an edge to it dangles
Fact(v)   == [f \in Fields |-> v]
NoOverride == [k \in Keys |-> None]

\* A list of the edges of a set, in some fixed order.
Drawn(S) == SetToSeq(S)
UpTo(n, S) == UNION {kSubset(m, S) : m \in 0..n}

Plain(type, fallback, bounded) ==
  [type |-> type, fallback |-> fallback, bounded |-> bounded,
   takes |-> None, gives |-> None, tests |-> << >>]

\* Every shape of three nodes with up to MaxEdges edges, where each node is a
\* person, or automatic without a fallback, with any fallback and bounded
\* retries, or with a fallback and no retries.
Shapes ==
  LET kinds == {Plain("human", None, FALSE), Plain("gate", None, FALSE)}
               \cup {Plain("gate", f, TRUE) : f \in 1..3} \cup {Plain("gate", 2, FALSE)}
      edges == {[from |-> i, to |-> j, label |-> None] : i, j \in 1..3}
  IN  {[nodes |-> n, edges |-> Drawn(es), inputs |-> Fact(None), overrides |-> NoOverride] :
         n \in [1..3 -> kinds], es \in UpTo(MaxEdges, edges)}

\* Branches: labelled edges out of nodes 1 and 2, some dangling, with test
\* cases that agree, contradict each other or cover nothing, what the case
\* brings, and what a person has already decided.
Branches ==
  LET test(i, l, o) == [input |-> Fact(i), covers |-> l, output |-> Fact(o)]
      any == test(None, "a", "v1")
      if0 == test("v0", "b", None)
      if1 == test("v1", "a", None)
      bare == test("v0", None, "v1")
      edges == {[from |-> e[1], to |-> e[2], label |-> l] :
                  e \in {<<1, 2>>, <<1, 3>>, <<1, 4>>, <<2, 3>>, <<2, 1>>},
                  l \in {None, "a", "b"}}
      first == {[Plain(t, None, FALSE) EXCEPT !.tests = ts, !.gives = "v0"] :
                  t \in {"human", "rule"},
                  ts \in {<< >>, <<any>>, <<if0>>, <<any, if0>>, <<if0, bare>>}}
      second == {Plain("human", None, FALSE),
                 [Plain("rule", None, FALSE) EXCEPT !.tests = <<if1>>, !.takes = "v0"],
                 [Plain("gate", None, FALSE) EXCEPT !.takes = "v1"]}
  IN  {[nodes |-> <<a, b, Plain("gate", None, FALSE)>>, edges |-> Drawn(es),
        inputs |-> Fact(i), overrides |-> o] :
         a \in first, b \in second, es \in UpTo(MaxLabelledEdges, edges),
         i \in {None, "v0"},
         o \in {NoOverride, [NoOverride EXCEPT ![1] = "a", ![2] = "b"]}}

\* The empty version, and versions of a single node.
Small ==
  {[nodes |-> n, edges |-> es, inputs |-> Fact(None), overrides |-> NoOverride] :
     n \in {<< >>, <<Plain("gate", None, FALSE)>>, <<Plain("human", 1, TRUE)>>,
            <<Plain("gate", 4, TRUE)>>},
     es \in {<< >>} \cup {<<[from |-> 1, to |-> k, label |-> None]>> : k \in {1, 4}}}

AllInputs == Shapes \cup Branches \cup Small
=============================================================================
