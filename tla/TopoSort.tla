------------------------------ MODULE TopoSort ------------------------------
(***************************************************************************)
(* DependencyGraph.toposort (preprocess/topo.py): the order in which the   *)
(* definitions of a batch are resolved.  Kahn's algorithm first; whatever  *)
(* lies on a reference loop or depends on one is left to a depth-first     *)
(* search, resolve_loop, whose recursion is made explicit here as a stack. *)
(*                                                                         *)
(* node.dependency is the set of the nodes that depend on node.  It is a   *)
(* Python set of objects, so the order in which it is walked is arbitrary. *)
(***************************************************************************)
EXTENDS Integers, Sequences, FiniteSets

CONSTANTS
  Node,      \* the definitions
  Graphs     \* the dependency relations considered

ASSUME NodeAssumption == IsFiniteSet(Node)
ASSUME GraphAssumption == Graphs \subseteq [Node -> SUBSET Node]

VARIABLES
  nodes,       \* _nodes, a list
  dependency,  \* _Node.dependency
  indeg,       \* _Node.indeg
  que,         \* the deque of Kahn's algorithm
  res,         \* the resulting list
  kahn,        \* length of res when Kahn's algorithm ended
  start,       \* position in the final loop over _nodes
  stack,       \* the calls of _resolve_loop that are open, with what is left
               \* of the set each of them walks
  loops,       \* the ReferenceLoop errors, as the lists of their nodes
  phase        \* "kahn", "loop", "done", or "failed": an assertion failed

graph == <<nodes, dependency>>
vars == <<graph, indeg, que, res, kahn, start, stack, loops, phase>>

\* What n depends on.
Needs(n) == {m \in Node : n \in dependency[m]}

\* The lists without repetition that hold exactly the elements of S.
Listings(S) ==
  {s \in [1..Cardinality(S) -> S] : \A i, j \in DOMAIN s : s[i] = s[j] => i = j}

\* The elements of the list s, each once, stand in t in the same order.
InOrder(s, t) ==
  \A i, j \in 1..Len(s) : i < j =>
    \E a, b \in 1..Len(t) : a < b /\ t[a] = s[i] /\ t[b] = s[j]

Elements(s) == {s[i] : i \in 1..Len(s)}

Frame == [node : Node, left : SUBSET Node]

TypeOK ==
  /\ nodes \in Listings(Node)
  /\ dependency \in Graphs
  /\ indeg \in [Node -> Int]
  /\ que \in Seq(Node)
  /\ res \in Seq(Node)
  /\ kahn \in 0..Len(res)
  /\ start \in 1..Len(nodes) + 1
  /\ stack \in Seq(Frame)
  /\ loops \in Seq(Seq(Node))
  /\ phase \in {"kahn", "loop", "done", "failed"}

Init ==
  /\ nodes \in Listings(Node)
  /\ dependency \in Graphs
  /\ indeg = [n \in Node |-> Cardinality(Needs(n))]
  /\ que \in {q \in Listings({n \in Node : indeg[n] = 0}) : InOrder(q, nodes)}
  /\ res = <<>> /\ kahn = 0
  /\ start = 1 /\ stack = <<>> /\ loops = <<>>
  /\ phase = "kahn"

-----------------------------------------------------------------------------
(* Kahn's algorithm *)

\* Mutation of Pop: a dependent is ready as soon as one dependency is resolved.
PopEager ==
  /\ phase = "kahn" /\ que # <<>>
  /\ LET cur == Head(que)
         ready == {n \in dependency[cur] : indeg[n] >= 1}
     IN  /\ res' = Append(res, cur)
         /\ indeg' = [n \in Node |->
                        IF n \in dependency[cur] THEN indeg[n] - 1 ELSE indeg[n]]
         /\ \E new \in Listings(ready) : que' = Tail(que) \o new
  /\ UNCHANGED <<graph, kahn, start, stack, loops, phase>>

\* One turn of the while loop: the node is resolved next, and each node that
\* depends on it waits for one node less.
Pop ==
  /\ phase = "kahn" /\ que # <<>>
  /\ LET cur == Head(que)
         ready == {n \in dependency[cur] : indeg[n] = 1}
     IN  /\ res' = Append(res, cur)
         /\ indeg' = [n \in Node |->
                        IF n \in dependency[cur] THEN indeg[n] - 1 ELSE indeg[n]]
         /\ \E new \in Listings(ready) : que' = Tail(que) \o new
  /\ UNCHANGED <<graph, kahn, start, stack, loops, phase>>

QueueEmpty ==
  /\ phase = "kahn" /\ que = <<>>
  /\ phase' = "loop" /\ kahn' = Len(res)
  /\ UNCHANGED <<graph, indeg, que, res, start, stack, loops>>

-----------------------------------------------------------------------------
(* The search of the loops *)

Call(n) == [node |-> n, left |-> dependency[n]]
Top == stack[Len(stack)]
Below == SubSeq(stack, 1, Len(stack) - 1)
OnStack(n) == \E i \in 1..Len(stack) : stack[i].node = n

\* resolve_loop is called for a node that still waits for another one.
Start ==
  /\ phase = "loop" /\ stack = <<>> /\ start <= Len(nodes)
  /\ stack' = IF indeg[nodes[start]] # 0 THEN <<Call(nodes[start])>> ELSE <<>>
  /\ start' = start + 1
  /\ UNCHANGED <<graph, indeg, que, res, kahn, loops, phase>>

\* assert next_node.indeg != 0
AssertionFails ==
  /\ phase = "loop" /\ stack # <<>>
  /\ \E n \in Top.left : indeg[n] = 0
  /\ phase' = "failed"
  /\ UNCHANGED <<graph, indeg, que, res, kahn, start, stack, loops>>

\* Mutation of LoopList: the walk down the open calls does not stop at n.
LoopListUnbroken(n) ==
  IF n = Top.node
  THEN <<n, n>>
  ELSE [i \in 1..(Len(stack) - 2) |-> stack[Len(stack) - i].node]

\* The nodes put in a ReferenceLoop: of the open calls, from the last but one
\* down to the second, stopping at the node the loop comes back to.
LoopList(n) ==
  IF n = Top.node
  THEN <<n, n>>
  ELSE LET last == Len(stack) - 1
           found == {i \in 2..last : stack[i].node = n}
           first == IF found # {} THEN CHOOSE i \in found : TRUE ELSE 2
       IN  [i \in 1..(last + 1 - first) |-> stack[last + 1 - i].node]

\* A dependent that is being searched already: a loop.
CloseLoop ==
  /\ phase = "loop" /\ stack # <<>>
  /\ \E n \in Top.left :
       /\ indeg[n] # 0 /\ OnStack(n)
       /\ loops' = Append(loops, LoopList(n))
       /\ indeg' = [indeg EXCEPT ![n] = @ - 1]
       /\ stack' = Append(Below, [Top EXCEPT !.left = @ \ {n}])
  /\ UNCHANGED <<graph, que, res, kahn, start, phase>>

\* Any other dependent is searched first.  Its indegree is decreased only when
\* that search has returned.
Descend ==
  /\ phase = "loop" /\ stack # <<>>
  /\ \E n \in Top.left :
       /\ indeg[n] # 0 /\ ~OnStack(n)
       /\ stack' = Append(Append(Below, [Top EXCEPT !.left = @ \ {n}]), Call(n))
  /\ UNCHANGED <<graph, indeg, que, res, kahn, start, loops, phase>>

Return ==
  /\ phase = "loop" /\ stack # <<>> /\ Top.left = {}
  /\ res' = Append(res, Top.node)
  /\ indeg' = IF Len(stack) > 1 THEN [indeg EXCEPT ![Top.node] = @ - 1] ELSE indeg
  /\ stack' = Below
  /\ UNCHANGED <<graph, que, kahn, start, loops, phase>>

\* Mutations of Finish: the last node is not searched; the end is never met.
FinishEarly ==
  /\ phase = "loop" /\ stack = <<>> /\ start >= Len(nodes)
  /\ phase' = "done"
  /\ UNCHANGED <<graph, indeg, que, res, kahn, start, stack, loops>>

FinishLate ==
  /\ phase = "loop" /\ stack = <<>> /\ start > Len(nodes) + 1
  /\ phase' = "done"
  /\ UNCHANGED <<graph, indeg, que, res, kahn, start, stack, loops>>

Finish ==
  /\ phase = "loop" /\ stack = <<>> /\ start > Len(nodes)
  /\ phase' = "done"
  /\ UNCHANGED <<graph, indeg, que, res, kahn, start, stack, loops>>

Next ==
  \/ Pop \/ QueueEmpty
  \/ Start \/ AssertionFails \/ CloseLoop \/ Descend \/ Return \/ Finish

Spec == Init /\ [][Next]_vars /\ WF_vars(Next)

-----------------------------------------------------------------------------
(* Properties *)

\* Kahn's algorithm resolves a definition only after everything it refers to
\* and resolves none twice; with loops elsewhere in the batch too.
DependenciesFirst ==
  LET sorted == IF phase = "kahn" THEN Len(res) ELSE kahn
  IN  \A i \in 1..sorted :
        /\ \A m \in Needs(res[i]) : \E j \in 1..(i - 1) : res[j] = m
        /\ \A j \in 1..sorted : res[j] = res[i] => j = i

\* Why: indeg counts what a definition still waits for, and the queue holds
\* definitions that wait for nothing and are not resolved yet, each once.
Waiting(n) == Needs(n) \ Elements(res)
KahnInv ==
  phase = "kahn" =>
    /\ \A n \in Node : indeg[n] = Cardinality(Waiting(n))
    /\ \A i \in 1..Len(que) :
         indeg[que[i]] = 0 /\ \A j \in 1..Len(res) : res[j] # que[i]
    /\ \A i, j \in 1..Len(que) : que[i] = que[j] => i = j

SortInv ==
  /\ dependency \in [Node -> SUBSET Node]
  /\ indeg \in [Node -> Int] /\ que \in Seq(Node) /\ res \in Seq(Node)
  /\ nodes \in Seq(Node) /\ start \in Nat \ {0} /\ stack \in Seq(Frame)
  /\ kahn \in 0..Len(res)
  /\ KahnInv
  /\ DependenciesFirst

\* n can be reached from m through dependents, in at least one step: n is in
\* every set that holds the dependents of m and those of its own members.
Reaches(m, n) ==
  \A S \in SUBSET Node :
    dependency[m] \subseteq S /\ (\A x \in S : dependency[x] \subseteq S) => n \in S

OnLoop(n) == Reaches(n, n)

\* When the sort ends every definition of the batch is in the result, so none
\* stays unresolved; one that neither lies on a loop nor depends on one is
\* there once.
NothingLost ==
  phase = "done" =>
    /\ Elements(res) = Node
    /\ \A i, j \in 1..Len(res) :
         /\ res[i] = res[j] /\ i # j
         => OnLoop(res[i]) \/ \E m \in Node : OnLoop(m) /\ Reaches(m, res[i])

\* A reference loop is reported if and only if there is one.  The definitions
\* that the report names lie on one loop, and each refers to the one named after
\* it.  (The definition at which the search stands is never named, nor the one
\* at which it began.)
LoopsReported ==
  /\ phase = "done" => (loops # <<>> <=> \E n \in Node : OnLoop(n))
  /\ \A k \in DOMAIN loops :
       /\ \A i, j \in DOMAIN loops[k] : Reaches(loops[k][i], loops[k][j])
       /\ \A i \in 1..(Len(loops[k]) - 1) : loops[k][i] \in dependency[loops[k][i + 1]]
=============================================================================
