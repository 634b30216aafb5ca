--------------------------- MODULE TopoSortProofs ---------------------------
(***************************************************************************)
(* DependencyGraph.toposort for every finite set of definitions and every  *)
(* graph on it, with loops or without: Kahn's algorithm puts each          *)
(* definition after what it refers to, and the search of the rest loses no *)
(* definition, names only loops and misses none.                           *)
(***************************************************************************)
EXTENDS TopoSort, FiniteSetTheorems, SequenceTheorems, TLAPS

\* A listing is a sequence without repetition of the elements of its set.
LEMMA ListingProperties ==
  ASSUME NEW S, IsFiniteSet(S), NEW s \in Listings(S)
  PROVE  /\ s \in Seq(S)
         /\ Len(s) \in Nat
         /\ \A i, j \in 1..Len(s) : s[i] = s[j] => i = j
<1>1. Cardinality(S) \in Nat
  BY FS_CardinalityType
<1>2. s \in [1..Cardinality(S) -> S]
  BY DEF Listings
<1>3. s \in Seq(S) /\ Len(s) = Cardinality(S)
  BY <1>1, <1>2
<1>. QED BY <1>1, <1>2, <1>3 DEF Listings

LEMMA NeedsFinite ==
  ASSUME NEW n \in Node
  PROVE  /\ Needs(n) \subseteq Node /\ IsFiniteSet(Needs(n))
         /\ IsFiniteSet(Waiting(n)) /\ Cardinality(Waiting(n)) \in Nat
<1>1. Needs(n) \subseteq Node /\ Waiting(n) \subseteq Node
  BY DEF Needs, Waiting
<1>2. IsFiniteSet(Needs(n)) /\ IsFiniteSet(Waiting(n))
  BY <1>1, NodeAssumption, FS_Subset
<1>. QED BY <1>1, <1>2, FS_CardinalityType

\* A definition whose indegree is 0 waits for nothing.
LEMMA ZeroIndegree ==
  ASSUME NEW n \in Node, Cardinality(Waiting(n)) = 0
  PROVE  Needs(n) \subseteq Elements(res)
BY NeedsFinite, FS_EmptySet DEF Waiting

LEMMA InitSortInv == Init => SortInv
<1>. SUFFICES ASSUME Init PROVE SortInv
  OBVIOUS
<1>. DEFINE zero == {n \in Node : indeg[n] = 0}
<1>0. nodes \in Seq(Node) /\ start = 1
  BY NodeAssumption, ListingProperties DEF Init
<1>1. dependency \in [Node -> SUBSET Node] /\ res = <<>> /\ kahn = 0 /\ stack = <<>>
      /\ phase = "kahn" /\ que \in Listings(zero)
  BY GraphAssumption DEF Init
<1>2. \A n \in Node : Waiting(n) = Needs(n)
  BY <1>1 DEF Waiting, Elements
<1>3. \A n \in Node : indeg[n] = Cardinality(Waiting(n))
  BY <1>2 DEF Init
<1>4. indeg \in [Node -> Int]
  BY <1>2, NeedsFinite DEF Init
<1>5. IsFiniteSet(zero)
  BY NodeAssumption, FS_Subset
<1>6. /\ que \in Seq(zero) /\ \A i, j \in 1..Len(que) : que[i] = que[j] => i = j
  BY <1>1, <1>5, ListingProperties
<1>7. que \in Seq(Node) /\ \A i \in 1..Len(que) : indeg[que[i]] = 0
  BY <1>6
<1>. QED BY <1>0, <1>1, <1>3, <1>4, <1>6, <1>7 DEF SortInv, KahnInv, DependenciesFirst

\* A turn of the while loop.
LEMMA PopSortInv ==
  ASSUME SortInv, Pop
  PROVE  SortInv'
<1>. DEFINE cur == Head(que)
            ready == {n \in dependency[cur] : indeg[n] = 1}
<1>0. /\ phase = "kahn" /\ phase' = "kahn" /\ que # <<>>
      /\ UNCHANGED <<nodes, dependency, kahn, start, stack>>
      /\ res' = Append(res, cur)
      /\ indeg' = [n \in Node |->
                     IF n \in dependency[cur] THEN indeg[n] - 1 ELSE indeg[n]]
  BY DEF Pop, graph
<1>1. PICK new \in Listings(ready) : que' = Tail(que) \o new
  BY DEF Pop
<1>2. /\ dependency \in [Node -> SUBSET Node] /\ indeg \in [Node -> Int]
      /\ que \in Seq(Node) /\ res \in Seq(Node)
      /\ nodes \in Seq(Node) /\ start \in Nat \ {0} /\ stack \in Seq(Frame)
      /\ kahn \in 0..Len(res) /\ Len(res) \in Nat /\ Len(que) \in Nat \ {0}
  BY <1>0 DEF SortInv
<1>3. /\ \A n \in Node : indeg[n] = Cardinality(Waiting(n))
      /\ \A i \in 1..Len(que) :
           indeg[que[i]] = 0 /\ \A j \in 1..Len(res) : res[j] # que[i]
      /\ \A i, j \in 1..Len(que) : que[i] = que[j] => i = j
  BY <1>0 DEF SortInv, KahnInv
<1>4. cur = que[1] /\ cur \in Node /\ indeg[cur] = 0 /\ cur \notin Elements(res)
  BY <1>2, <1>3 DEF Elements
<1>5. /\ Len(res') = Len(res) + 1 /\ res' \in Seq(Node)
      /\ \A i \in 1..Len(res) : res'[i] = res[i]
      /\ res'[Len(res) + 1] = cur
      /\ \A i \in 1..Len(res) : res[i] \in Elements(res) /\ res[i] \in Node
      /\ \A n \in Elements(res) : \E i \in 1..Len(res) : n = res[i]
      /\ Elements(res') = Elements(res) \cup {cur}
  <2>1. /\ Len(res') = Len(res) + 1 /\ res' \in Seq(Node)
        /\ \A i \in 1..Len(res) : res'[i] = res[i]
        /\ res'[Len(res) + 1] = cur
    BY <1>0, <1>2, <1>4
  <2>2. /\ \A i \in 1..Len(res) : res[i] \in Elements(res) /\ res[i] \in Node
        /\ \A n \in Elements(res) : \E i \in 1..Len(res) : n = res[i]
    BY <1>2 DEF Elements
  <2>3. \A i \in 1..Len(res') : i \in 1..Len(res) \/ i = Len(res) + 1
    BY <1>2, <2>1
  <2>4. \A n \in Elements(res') : n \in Elements(res) \cup {cur}
    BY <2>1, <2>3 DEF Elements
  <2>5. \A i \in 1..Len(res) + 1 : i \in 1..Len(res')
    BY <1>2, <2>1
  <2>6. \A n \in Elements(res) \cup {cur} : n \in Elements(res')
    <3>1. cur \in Elements(res')
      <4>1. Len(res) + 1 \in 1..Len(res')
        BY <1>2, <2>1
      <4>. QED BY <2>1, <4>1 DEF Elements
    <3>2. ASSUME NEW i \in 1..Len(res) PROVE res[i] \in Elements(res')
      <4>1. i \in 1..Len(res') /\ res'[i] = res[i]
        BY <1>2, <2>1
      <4>. QED BY <4>1 DEF Elements
    <3>. QED BY <2>2, <3>1, <3>2
  <2>. QED BY <2>1, <2>2, <2>4, <2>6
<1>6. Needs(cur) \subseteq Elements(res)
  BY <1>3, <1>4, ZeroIndegree
<1>7. \A n \in Node : Needs(n)' = Needs(n)
  BY <1>0 DEF Needs
<1>8. ASSUME NEW n \in Node
      PROVE  indeg'[n] = Cardinality(Waiting(n)')
  <2>1. Waiting(n)' = Waiting(n) \ {cur}
    BY <1>5, <1>7 DEF Waiting
  <2>2. cur \in Waiting(n) <=> n \in dependency[cur]
    BY <1>4 DEF Waiting, Needs
  <2>3. CASE n \in dependency[cur]
    <3>1. Cardinality(Waiting(n) \ {cur}) = Cardinality(Waiting(n)) - 1
      BY <2>2, <2>3, NeedsFinite, FS_RemoveElement
    <3>. QED BY <1>0, <1>3, <2>1, <2>3, <3>1
  <2>4. CASE n \notin dependency[cur]
    <3>1. Waiting(n) \ {cur} = Waiting(n)
      BY <2>2, <2>4
    <3>. QED BY <1>0, <1>3, <2>1, <2>4, <3>1
  <2>. QED BY <2>3, <2>4
<1>9. /\ ready \subseteq Node /\ IsFiniteSet(ready)
      /\ \A n \in ready : indeg[n] = 1 /\ indeg'[n] = 0
  <2>1. ready \subseteq Node
    BY <1>2, <1>4
  <2>2. IsFiniteSet(ready)
    BY <2>1, NodeAssumption, FS_Subset
  <2>. QED BY <1>0, <2>1, <2>2
<1>10. /\ new \in Seq(ready) /\ Len(new) \in Nat
       /\ \A i \in 1..Len(new) : new[i] \in ready
       /\ \A i, j \in 1..Len(new) : new[i] = new[j] => i = j
  BY <1>9, ListingProperties
<1>. HIDE DEF cur, ready
<1>11. \A i \in 1..Len(res') : res'[i] \in Node /\ Needs(res'[i]) \subseteq Elements(res)
  <2>. SUFFICES ASSUME NEW i \in 1..Len(res')
                PROVE  res'[i] \in Node /\ Needs(res'[i]) \subseteq Elements(res)
    OBVIOUS
  <2>1. CASE i = Len(res) + 1
    BY <1>4, <1>5, <1>6, <2>1
  <2>2. CASE i \in 1..Len(res)
    <3>1. \A m \in Needs(res[i]) : \E j \in 1..(i - 1) : res[j] = m
      BY <1>0, <2>2 DEF SortInv, DependenciesFirst
    <3>2. Needs(res[i]) \subseteq Elements(res)
      <4>. SUFFICES ASSUME NEW m \in Needs(res[i]) PROVE m \in Elements(res)
        OBVIOUS
      <4>1. PICK j \in 1..(i - 1) : res[j] = m
        BY <3>1
      <4>2. j \in 1..Len(res)
        BY <1>2, <2>2, <4>1
      <4>. QED BY <1>5, <4>1, <4>2
    <3>. QED BY <1>5, <2>2, <3>2
  <2>. QED BY <1>2, <1>5, <2>1, <2>2
<1>13. \A n \in Elements(res') : n \notin ready
  <2>1. \A n \in Elements(res) : indeg[n] = 0
    <3>. SUFFICES ASSUME NEW i \in 1..Len(res) PROVE indeg[res[i]] = 0
      BY <1>5
    <3>1. Needs(res[i]) \subseteq Elements(res) /\ res[i] \in Node
      <4>1. i \in 1..Len(res') /\ res'[i] = res[i]
        BY <1>2, <1>5
      <4>. QED BY <4>1, <1>11
    <3>2. Waiting(res[i]) = {}
      BY <3>1 DEF Waiting
    <3>. QED BY <1>3, <3>1, <3>2, FS_EmptySet
  <2>. QED BY <1>4, <1>5, <1>9, <2>1
<1>14. /\ Len(Tail(que)) = Len(que) - 1
       /\ \A i \in 1..Len(Tail(que)) :
            Tail(que)[i] = que[i + 1] /\ i + 1 \in 1..Len(que) /\ que[i + 1] \in Node
       /\ Tail(que) \in Seq(Node)
  BY <1>2
<1>15. /\ que' \in Seq(Node) /\ Len(que') = Len(Tail(que)) + Len(new)
       /\ \A i \in 1..Len(que') :
            \/ i \in 1..Len(Tail(que)) /\ que'[i] = Tail(que)[i]
            \/ /\ i - Len(Tail(que)) \in 1..Len(new)
               /\ que'[i] = new[i - Len(Tail(que))]
  BY <1>1, <1>2, <1>9, <1>10, <1>14
<1>16. \A i \in 1..Len(que') :
         indeg'[que'[i]] = 0 /\ \A j \in 1..Len(res') : res'[j] # que'[i]
  <2>. SUFFICES ASSUME NEW i \in 1..Len(que')
                PROVE  indeg'[que'[i]] = 0 /\ que'[i] \notin Elements(res')
    BY DEF Elements
  <2>1. CASE i \in 1..Len(Tail(que)) /\ que'[i] = Tail(que)[i]
    <3>1. que'[i] = que[i + 1] /\ i + 1 \in 1..Len(que) /\ que[i + 1] \in Node
      BY <1>14, <2>1
    <3>2. que[i + 1] # cur /\ indeg[que[i + 1]] = 0
      BY <1>2, <1>3, <1>4, <3>1
    <3>3. que[i + 1] \notin Elements(res')
      BY <1>3, <1>5, <3>1, <3>2 DEF Elements
    <3>4. Waiting(que[i + 1]) = {}
      <4>1. Cardinality(Waiting(que[i + 1])) = 0 /\ IsFiniteSet(Waiting(que[i + 1]))
        BY <1>3, <3>1, <3>2, NeedsFinite
      <4>. QED BY <4>1, FS_EmptySet
    <3>5. que[i + 1] \notin dependency[cur]
      BY <1>4, <3>1, <3>4 DEF Waiting, Needs
    <3>. QED BY <1>0, <3>1, <3>2, <3>3, <3>5
  <2>2. CASE /\ i - Len(Tail(que)) \in 1..Len(new)
             /\ que'[i] = new[i - Len(Tail(que))]
    BY <1>9, <1>10, <1>13, <2>2
  <2>. QED BY <1>15, <2>1, <2>2
<1>17. \A i, j \in 1..Len(que') : que'[i] = que'[j] => i = j
  <2>1. \A i \in 1..Len(Tail(que)), j \in 1..Len(new) : Tail(que)[i] # new[j]
    BY <1>3, <1>9, <1>10, <1>14
  <2>2. \A i, j \in 1..Len(Tail(que)) : Tail(que)[i] = Tail(que)[j] => i = j
    <3>. SUFFICES ASSUME NEW i \in 1..Len(Tail(que)), NEW j \in 1..Len(Tail(que)),
                         Tail(que)[i] = Tail(que)[j]
                  PROVE  i = j
      OBVIOUS
    <3>1. /\ que[i + 1] = que[j + 1]
          /\ i + 1 \in 1..Len(que) /\ j + 1 \in 1..Len(que)
      BY <1>14
    <3>2. i + 1 = j + 1
      BY <1>3, <3>1
    <3>. QED BY <3>2
  <2>. SUFFICES ASSUME NEW i \in 1..Len(que'), NEW j \in 1..Len(que'), que'[i] = que'[j]
                PROVE  i = j
    OBVIOUS
  <2>. DEFINE L == Len(Tail(que))
  <2>3. L \in Nat /\ i \in Nat /\ j \in Nat
    BY <1>2, <1>10, <1>14, <1>15
  <2>4. CASE i \in 1..L /\ j \in 1..L /\ que'[i] = Tail(que)[i] /\ que'[j] = Tail(que)[j]
    BY <2>2, <2>4
  <2>5. CASE /\ i - L \in 1..Len(new) /\ que'[i] = new[i - L]
             /\ j - L \in 1..Len(new) /\ que'[j] = new[j - L]
    <3>1. i - L = j - L
      BY <1>10, <2>5
    <3>. QED BY <2>3, <3>1
  <2>. QED BY <1>15, <2>1, <2>4, <2>5
<1>18. DependenciesFirst'
  <2>. SUFFICES ASSUME NEW i \in 1..Len(res')
                PROVE  /\ \A m \in Needs(res'[i]) : \E j \in 1..(i - 1) : res'[j] = m
                       /\ \A j \in 1..Len(res') : res'[j] = res'[i] => j = i
    BY <1>0 DEF DependenciesFirst, Needs
  <2>1. CASE i = Len(res) + 1
    <3>1. res'[i] = cur /\ \A j \in 1..Len(res) : res[j] # cur
      BY <1>4, <1>5, <2>1
    <3>2. \A m \in Needs(cur) : \E j \in 1..Len(res) : res[j] = m
      BY <1>5, <1>6
    <3>3. \A j \in 1..Len(res') : j = i \/ (j \in 1..Len(res) /\ res'[j] = res[j])
      BY SMTT(30), <1>2, <1>5, <2>1
    <3>4. 1..(i - 1) = 1..Len(res)
      BY <1>2, <2>1
    <3>5. \A m \in Needs(res'[i]) : \E j \in 1..(i - 1) : res'[j] = m
      BY <1>5, <3>1, <3>2, <3>4
    <3>. QED BY <3>1, <3>3, <3>5
  <2>2. CASE i \in 1..Len(res)
    <3>1. /\ \A m \in Needs(res[i]) : \E j \in 1..(i - 1) : res[j] = m
          /\ \A j \in 1..Len(res) : res[j] = res[i] => j = i
      BY <1>0, <2>2 DEF SortInv, DependenciesFirst
    <3>2. res[i] # cur /\ res'[i] = res[i]
      BY <1>4, <1>5, <2>2
    <3>3. \A j \in 1..(i - 1) : j \in 1..Len(res) /\ res'[j] = res[j]
      BY SMTT(30), <1>2, <1>5, <2>2
    <3>4. \A m \in Needs(res'[i]) : \E j \in 1..(i - 1) : res'[j] = m
      BY <3>1, <3>2, <3>3
    <3>5. \A j \in 1..Len(res') : j = Len(res) + 1 \/ j \in 1..Len(res)
      BY <1>2, <1>5
    <3>6. \A j \in 1..Len(res') : res'[j] = res'[i] => j = i
      BY <1>5, <3>1, <3>2, <3>5
    <3>. QED BY <3>4, <3>6
  <2>. QED BY <1>2, <1>5, <2>1, <2>2
<1>19. indeg' \in [Node -> Int]
  BY <1>0, <1>2
<1>20. KahnInv'
  BY <1>8, <1>16, <1>17 DEF KahnInv
<1>. QED BY <1>0, <1>2, <1>5, <1>15, <1>18, <1>19, <1>20 DEF SortInv

\* Once Kahn's algorithm has ended, its part of the result stays as it is.
LEMMA PrefixKept ==
  ASSUME SortInv, phase # "kahn", phase' # "kahn", UNCHANGED <<dependency, kahn>>,
         NEW n, res' = Append(res, n) \/ res' = res, res' \in Seq(Node)
  PROVE  DependenciesFirst' /\ kahn' \in 0..Len(res')
<1>1. /\ kahn \in 0..Len(res) /\ res \in Seq(Node) /\ Len(res') >= Len(res)
      /\ Len(res) \in Nat /\ Len(res') \in Nat
      /\ \A i \in 1..kahn : res'[i] = res[i]
  <2>1. kahn \in 0..Len(res) /\ res \in Seq(Node) /\ Len(res) \in Nat
    BY DEF SortInv
  <2>2. CASE res' = res
    BY <2>1, <2>2
  <2>3. CASE res' = Append(res, n)
    <3>1. n \in Node
      <4>1. Len(res) + 1 \in 1..Len(res') /\ res'[Len(res) + 1] = n
        BY <2>1, <2>3
      <4>. QED BY <4>1
    <3>. QED BY <2>1, <2>3, <3>1
  <2>. QED BY <2>2, <2>3
<1>2. DependenciesFirst'
  <2>. SUFFICES ASSUME NEW i \in 1..kahn
                PROVE  /\ \A m \in Needs(res'[i]) : \E j \in 1..(i - 1) : res'[j] = m
                       /\ \A j \in 1..kahn : res'[j] = res'[i] => j = i
    BY DEF DependenciesFirst, Needs
  <2>1. /\ \A m \in Needs(res[i]) : \E j \in 1..(i - 1) : res[j] = m
        /\ \A j \in 1..kahn : res[j] = res[i] => j = i
    BY DEF SortInv, DependenciesFirst
  <2>2. \A j \in 1..(i - 1) : j \in 1..kahn
    BY <1>1
  <2>. QED BY <1>1, <2>1, <2>2
<1>. QED BY <1>1, <1>2

LEMMA StepSortInv ==
  ASSUME SortInv, [Next]_vars
  PROVE  SortInv'
<1>0. /\ indeg \in [Node -> Int] /\ dependency \in [Node -> SUBSET Node]
      /\ stack \in Seq(Frame) /\ que \in Seq(Node) /\ res \in Seq(Node)
      /\ start \in Nat \ {0}
  BY DEF SortInv
<1>1. CASE UNCHANGED vars
  <2>0. \A n \in Node : Waiting(n)' = Waiting(n)
    BY <1>1 DEF vars, graph, Waiting, Needs, Elements
  <2>1. KahnInv'
    BY <1>1, <2>0 DEF vars, graph, SortInv, KahnInv
  <2>2. DependenciesFirst'
    BY <1>1 DEF vars, graph, SortInv, DependenciesFirst, Needs
  <2>. QED BY <1>1, <2>1, <2>2 DEF vars, graph, SortInv
<1>2. CASE Pop
  BY <1>2, PopSortInv
<1>3. CASE QueueEmpty
  <2>1. /\ kahn' = Len(res) /\ phase' = "loop" /\ phase = "kahn"
        /\ UNCHANGED <<nodes, start, dependency, indeg, que, res, stack>>
    BY <1>3 DEF QueueEmpty, graph
  <2>2. DependenciesFirst'
    BY <2>1 DEF SortInv, DependenciesFirst, Needs
  <2>. QED BY <2>1, <2>2 DEF SortInv, KahnInv
<1>4. ASSUME phase # "kahn", phase' # "kahn", UNCHANGED <<graph, kahn, que>>,
             start' \in Nat \ {0},
             indeg' \in [Node -> Int], stack' \in Seq(Frame), res' \in Seq(Node),
             NEW n, res' = Append(res, n) \/ res' = res
      PROVE  SortInv'
  BY <1>0, <1>4, PrefixKept DEF SortInv, KahnInv, graph
<1>5. CASE Start
  <2>1. stack' \in Seq(Frame)
    <3>1. nodes[start] \in Node
      BY <1>5 DEF Start, SortInv
    <3>2. Call(nodes[start]) \in Frame
      BY <1>0, <3>1 DEF Call, Frame
    <3>3. stack' = <<Call(nodes[start])>> \/ stack' = <<>>
      BY <1>5 DEF Start
    <3>4. <<>> \in Seq(Frame) /\ <<Call(nodes[start])>> \in Seq(Frame)
      BY <3>2
    <3>. QED BY <3>3, <3>4
  <2>. QED BY <1>0, <1>4, <1>5, <2>1 DEF Start, graph
<1>6. CASE AssertionFails \/ Finish
  BY <1>0, <1>4, <1>6 DEF AssertionFails, Finish, graph
<1>7. CASE CloseLoop
  <2>1. PICK n \in Top.left :
          /\ indeg' = [indeg EXCEPT ![n] = @ - 1]
          /\ stack' = Append(Below, [Top EXCEPT !.left = @ \ {n}])
    BY <1>7 DEF CloseLoop
  <2>2. Top \in Frame /\ Below \in Seq(Frame)
    BY <1>0, <1>7 DEF CloseLoop, Top, Below
  <2>3. n \in Node /\ [Top EXCEPT !.left = @ \ {n}] \in Frame
    BY <2>2 DEF Frame
  <2>4. stack' \in Seq(Frame) /\ indeg' \in [Node -> Int]
    BY <1>0, <2>1, <2>2, <2>3
  <2>. QED BY <1>0, <1>4, <1>7, <2>4 DEF CloseLoop, graph
<1>8. CASE Descend
  <2>1. PICK n \in Top.left :
          stack' = Append(Append(Below, [Top EXCEPT !.left = @ \ {n}]), Call(n))
    BY <1>8 DEF Descend
  <2>2. Top \in Frame /\ Below \in Seq(Frame)
    BY <1>0, <1>8 DEF Descend, Top, Below
  <2>3. n \in Node /\ [Top EXCEPT !.left = @ \ {n}] \in Frame /\ Call(n) \in Frame
    BY <1>0, <2>2 DEF Frame, Call
  <2>4. stack' \in Seq(Frame)
    BY <2>1, <2>2, <2>3
  <2>. QED BY <1>0, <1>4, <1>8, <2>4 DEF Descend, graph
<1>9. CASE Return
  <2>1. Top \in Frame /\ Below \in Seq(Frame) /\ Top.node \in Node
    <3>1. Top \in Frame /\ Below \in Seq(Frame)
      BY <1>0, <1>9 DEF Return, Top, Below
    <3>. QED BY <3>1 DEF Frame
  <2>2. res' = Append(res, Top.node) /\ res' \in Seq(Node) /\ stack' \in Seq(Frame)
    BY <1>0, <1>9, <2>1 DEF Return
  <2>3. indeg' \in [Node -> Int]
    BY <1>0, <1>9, <2>1 DEF Return
  <2>. QED BY <1>0, <1>4, <1>9, <2>2, <2>3 DEF Return, graph
<1>. QED BY <1>1, <1>2, <1>3, <1>5, <1>6, <1>7, <1>8, <1>9 DEF Next

\* A definition that Kahn's algorithm has put in the result comes after all
\* that it refers to, and is there once.
THEOREM SortedDependenciesFirst == Spec => []DependenciesFirst
<1>1. Spec => []SortInv
  BY InitSortInv, StepSortInv, PTL DEF Spec
<1>2. SortInv => DependenciesFirst
  BY DEF SortInv
<1>. QED BY <1>1, <1>2, PTL

-----------------------------------------------------------------------------
(* The search of the loops: the inductive invariant *)

\* The part of the result that Kahn's algorithm has made, and the rest.
Sorted == {res[i] : i \in 1..kahn}
Searched == {res[i] : i \in (kahn + 1)..Len(res)}

\* Kahn's algorithm leaves no definition out that waits for nothing.
CompleteInv ==
  phase = "kahn" =>
    /\ stack = <<>> /\ loops = <<>> /\ start = 1 /\ kahn = 0
    /\ \A n \in Node : indeg[n] = 0 =>
         n \in Elements(res) \/ \E i \in 1..Len(que) : que[i] = n

\* The search never meets a definition that is sorted; each of the others waits
\* for another one that is not sorted either.
ApartInv ==
  phase # "kahn" =>
    /\ \A n \in Sorted : indeg[n] = 0
    /\ \A n \in Node \ Sorted : Needs(n) \ Sorted # {}
    /\ \A n \in Searched : n \notin Sorted
    /\ \A i \in 1..Len(stack) : stack[i].node \notin Sorted

\* What waits for nothing any more, and what the loop over _nodes has passed,
\* is in the result or will be when its call returns.
PassedInv ==
  phase # "kahn" =>
    /\ \A n \in Node : indeg[n] = 0 => n \in Elements(res) \/ OnStack(n)
    /\ \A i \in 1..Len(nodes) : i < start => nodes[i] \in Elements(res) \/ OnStack(nodes[i])
    /\ phase = "done" => stack = <<>> /\ start > Len(nodes)

\* The open calls are a path through the dependents.
PathInv ==
  /\ \A i \in 1..Len(stack) : stack[i].left \subseteq dependency[stack[i].node]
  /\ \A i \in 1..(Len(stack) - 1) : stack[i + 1].node \in dependency[stack[i].node]
  /\ \A i, j \in 1..Len(stack) : i < j => Reaches(stack[i].node, stack[j].node)

\* What a report names lies on a loop.
NamedInv ==
  /\ loops # <<>> => \E n \in Node : OnLoop(n)
  /\ \A l \in DOMAIN loops :
       /\ \A i, j \in DOMAIN loops[l] : Reaches(loops[l][i], loops[l][j])
       /\ \A i \in 1..(Len(loops[l]) - 1) : loops[l][i] \in dependency[loops[l][i + 1]]

\* As long as nothing is reported, what the search has finished is closed under
\* dependents and free of loops.
FreeInv ==
  phase # "kahn" /\ loops = <<>> =>
    /\ \A n \in Searched : dependency[n] \subseteq Searched /\ ~OnLoop(n)
    /\ \A i \in 1..Len(stack) : \A n \in dependency[stack[i].node] :
         \/ n \in Searched \cup stack[i].left
         \/ i < Len(stack) /\ n = stack[i + 1].node

SearchInv ==
  /\ SortInv /\ Elements(nodes) = Node
  /\ loops \in Seq(Seq(Node))
  /\ CompleteInv /\ ApartInv /\ PassedInv /\ PathInv /\ NamedInv /\ FreeInv

-----------------------------------------------------------------------------
(* Reachability *)

LEMMA ReachesProperties ==
  ASSUME dependency \in [Node -> SUBSET Node], NEW m \in Node
  PROVE  /\ \A n \in dependency[m] : Reaches(m, n)
         /\ \A x \in Node, n \in Node : Reaches(m, x) /\ n \in dependency[x] => Reaches(m, n)
         /\ \A x \in Node, n \in Node : Reaches(m, x) /\ Reaches(x, n) => Reaches(m, n)
<1>1. ASSUME NEW x \in Node, NEW n \in Node, Reaches(m, x), Reaches(x, n)
      PROVE  Reaches(m, n)
  <2>. SUFFICES ASSUME NEW S \in SUBSET Node, dependency[m] \subseteq S,
                       \A y \in S : dependency[y] \subseteq S
                PROVE  n \in S
    BY DEF Reaches
  <2>1. x \in S
    BY <1>1 DEF Reaches
  <2>. QED BY <1>1, <2>1 DEF Reaches
<1>. QED BY <1>1 DEF Reaches

LEMMA SameReaches ==
  ASSUME dependency' = dependency
  PROVE  /\ \A m, n : Reaches(m, n)' <=> Reaches(m, n)
         /\ \A n : OnLoop(n)' <=> OnLoop(n)
         /\ \A n : Needs(n)' = Needs(n)
BY DEF Reaches, OnLoop, Needs

\* What Kahn's algorithm has sorted lies on no loop.
LEMMA SortedOnNoLoop ==
  ASSUME SortInv, phase # "kahn", NEW n \in Sorted
  PROVE  ~OnLoop(n)
<1>1. PICK i \in 1..kahn : res[i] = n
  BY DEF Sorted
<1>2. /\ \A j \in 1..kahn : res[j] \in Node
      /\ \A j \in 1..kahn : \A m \in Needs(res[j]) : \E l \in 1..(j - 1) : res[l] = m
      /\ \A j, l \in 1..kahn : res[j] = res[l] => j = l
      /\ dependency \in [Node -> SUBSET Node] /\ kahn \in Nat
  <2>1. dependency \in [Node -> SUBSET Node] /\ kahn \in 0..Len(res) /\ res \in Seq(Node)
    BY DEF SortInv
  <2>2. DependenciesFirst
    BY DEF SortInv
  <2>3. \A j \in 1..kahn :
          /\ \A m \in Needs(res[j]) : \E l \in 1..(j - 1) : res[l] = m
          /\ \A l \in 1..kahn : res[l] = res[j] => l = j
    BY <2>2 DEF DependenciesFirst
  <2>. QED BY <2>1, <2>3
<1>. DEFINE S == Node \ {res[j] : j \in 1..i}
<1>3. ASSUME NEW x \in Node, x = n \/ x \in S
      PROVE  dependency[x] \subseteq S
  <2>. SUFFICES ASSUME NEW y \in dependency[x], NEW j \in 1..i, y = res[j] PROVE FALSE
    BY <1>2
  <2>1. j \in 1..kahn /\ x \in Needs(res[j])
    BY <1>1, <1>2 DEF Needs
  <2>2. PICK l \in 1..(j - 1) : res[l] = x
    BY <1>2, <2>1
  <2>3. l \in 1..kahn /\ l \in 1..i /\ l < i
    BY <1>2, <2>1, <2>2
  <2>. QED BY <1>1, <1>2, <1>3, <2>2, <2>3
<1>4. n \notin S /\ S \in SUBSET Node /\ n \in Node
  BY <1>1, <1>2
<1>. HIDE DEF S
<1>. QED BY <1>3, <1>4 DEF OnLoop, Reaches

\* Whatever is left over by Kahn's algorithm lies on a loop or depends on one:
\* among the definitions left over that it depends on, one whose own such set
\* is least is in that set.
LEMMA LeftOverBehindLoop ==
  ASSUME dependency \in [Node -> SUBSET Node], NEW K,
         \A n \in Node \ K : Needs(n) \ K # {}, NEW n \in Node \ K
  PROVE  OnLoop(n) \/ \E m \in Node : OnLoop(m) /\ Reaches(m, n)
<1>. DEFINE Above(x) == {y \in Node \ K : Reaches(y, x)}
            Sets == {Above(x) : x \in {n} \cup Above(n)}
<1>1. \A x : Above(x) \in FiniteSubsetsOf(Node)
  BY NodeAssumption, FS_Subset DEF FiniteSubsetsOf
<1>2. Sets \in SUBSET FiniteSubsetsOf(Node) /\ Above(n) \in Sets
  <2>. HIDE DEF Above
  <2>. QED BY <1>1
<1>3. PICK A \in Sets : \A B \in Sets : ~(<<B, A>> \in StrictSubsetOrdering(Node))
  BY <1>2, NodeAssumption, FS_StrictSubsetOrderingWellFounded, WFMin
<1>4. PICK x \in {n} \cup Above(n) : A = Above(x)
  OBVIOUS
<1>5. PICK y \in Needs(x) : y \notin K
  BY <1>4
<1>6. y \in Node /\ x \in Node /\ Reaches(y, x) /\ y \in Above(x)
  BY <1>5, ReachesProperties DEF Needs
<1>7. Reaches(y, n)
  BY <1>4, <1>6, ReachesProperties
<1>8. Above(y) \in Sets
  BY <1>5, <1>6, <1>7
<1>9. Above(y) \subseteq Above(x)
  BY <1>6, ReachesProperties
<1>10. Above(y) = Above(x)
  BY <1>1, <1>3, <1>4, <1>8, <1>9 DEF StrictSubsetOrdering
<1>. QED BY <1>6, <1>7, <1>10 DEF OnLoop

-----------------------------------------------------------------------------
(* The stack and the result *)

LEMMA StackTop ==
  ASSUME stack \in Seq(Frame), stack # <<>>
  PROVE  /\ Len(stack) \in Nat \ {0}
         /\ Top = stack[Len(stack)] /\ Top \in Frame
         /\ Top.node \in Node /\ Top.left \subseteq Node
         /\ Below \in Seq(Frame) /\ Len(Below) = Len(stack) - 1
         /\ \A i \in 1..(Len(stack) - 1) : Below[i] = stack[i]
<1>1. /\ Len(stack) \in Nat \ {0} /\ Top = stack[Len(stack)] /\ Top \in Frame
      /\ Below \in Seq(Frame) /\ Len(Below) = Len(stack) - 1
      /\ \A i \in 1..(Len(stack) - 1) : Below[i] = stack[i]
  <2>1. Len(stack) \in Nat \ {0} /\ Top = stack[Len(stack)] /\ Top \in Frame
    BY DEF Top
  <2>. DEFINE n == Len(stack) - 1
  <2>2. n \in Nat /\ 1 \in Int /\ \A i \in 1..n : stack[i] \in Frame
    BY <2>1
  <2>3. /\ SubSeq(stack, 1, n) \in Seq(Frame)
        /\ Len(SubSeq(stack, 1, n)) = IF 1 <= n THEN n - 1 + 1 ELSE 0
        /\ \A i \in 1..(n - 1 + 1) : SubSeq(stack, 1, n)[i] = stack[1 + i - 1]
    BY <2>2, SubSeqProperties
  <2>4. Below = SubSeq(stack, 1, n)
    BY DEF Below
  <2>5. /\ Below \in Seq(Frame) /\ Len(Below) = n
        /\ \A i \in 1..n : Below[i] = stack[i]
    <3>. HIDE DEF n
    <3>. QED BY <2>2, <2>3, <2>4
  <2>. QED BY <2>1, <2>5
<1>. QED BY <1>1 DEF Frame

\* What a call that goes on to its dependent n leaves on the stack.
LEMMA StackPush ==
  ASSUME stack \in Seq(Frame), stack # <<>>, NEW f \in Frame, NEW g \in Frame
  PROVE  /\ LET s == Append(Below, f)
            IN  /\ s \in Seq(Frame) /\ Len(s) = Len(stack)
                /\ \A i \in 1..(Len(stack) - 1) : s[i] = stack[i]
                /\ s[Len(stack)] = f
         /\ LET s == Append(Append(Below, f), g)
            IN  /\ s \in Seq(Frame) /\ Len(s) = Len(stack) + 1
                /\ \A i \in 1..(Len(stack) - 1) : s[i] = stack[i]
                /\ s[Len(stack)] = f /\ s[Len(stack) + 1] = g
<1>. DEFINE s == Append(Below, f)
<1>1. /\ Len(stack) \in Nat \ {0} /\ Below \in Seq(Frame) /\ Len(Below) = Len(stack) - 1
      /\ \A i \in 1..(Len(stack) - 1) : Below[i] = stack[i]
  BY StackTop
<1>2. /\ s \in Seq(Frame) /\ Len(s) = Len(stack)
      /\ \A i \in 1..(Len(stack) - 1) : s[i] = stack[i]
      /\ s[Len(stack)] = f
  BY <1>1
<1>. HIDE DEF s
<1>3. LET t == Append(s, g)
      IN  /\ t \in Seq(Frame) /\ Len(t) = Len(stack) + 1
          /\ \A i \in 1..(Len(stack) - 1) : t[i] = stack[i]
          /\ t[Len(stack)] = f /\ t[Len(stack) + 1] = g
  BY <1>1, <1>2
<1>. QED BY <1>2, <1>3 DEF s

LEMMA ResultParts ==
  ASSUME SortInv
  PROVE  /\ Elements(res) = Sorted \cup Searched
         /\ Elements(res) \subseteq Node
<1>1. kahn \in 0..Len(res) /\ res \in Seq(Node) /\ Len(res) \in Nat
  BY DEF SortInv
<1>2. \A i \in 1..Len(res) : i \in 1..kahn \/ i \in (kahn + 1)..Len(res)
  BY <1>1
<1>3. \A i : i \in 1..kahn \/ i \in (kahn + 1)..Len(res) => i \in 1..Len(res)
  BY <1>1
<1>. QED BY <1>1, <1>2, <1>3 DEF Elements, Sorted, Searched

LEMMA ResultGrows ==
  ASSUME SortInv, kahn' = kahn, NEW n \in Node, res' = Append(res, n)
  PROVE  /\ Sorted' = Sorted
         /\ Searched' = Searched \cup {n}
         /\ Elements(res') = Elements(res) \cup {n}
<1>1. kahn \in 0..Len(res) /\ res \in Seq(Node) /\ Len(res) \in Nat
  BY DEF SortInv
<1>2. /\ Len(res') = Len(res) + 1 /\ res'[Len(res) + 1] = n
      /\ \A i \in 1..Len(res) : res'[i] = res[i]
  BY <1>1
<1>3. /\ \A i \in (kahn + 1)..Len(res') : i \in (kahn + 1)..Len(res) \/ i = Len(res) + 1
      /\ \A i \in (kahn + 1)..Len(res) : i \in 1..Len(res) /\ i \in (kahn + 1)..Len(res')
      /\ \A i \in 1..kahn : i \in 1..Len(res)
      /\ Len(res) + 1 \in (kahn + 1)..Len(res')
  BY <1>1, <1>2
<1>4. Sorted' = Sorted
  BY <1>2, <1>3 DEF Sorted
<1>5. Searched' = Searched \cup {n}
  <2>1. Searched' \subseteq Searched \cup {n}
    BY <1>2, <1>3 DEF Searched
  <2>2. Searched \subseteq Searched'
    BY <1>2, <1>3 DEF Searched
  <2>3. n \in Searched'
    BY <1>2, <1>3 DEF Searched
  <2>. QED BY <2>1, <2>2, <2>3
<1>6. /\ \A i \in 1..Len(res') : i \in 1..Len(res) \/ i = Len(res) + 1
      /\ \A i \in 1..Len(res) : i \in 1..Len(res')
      /\ Len(res) + 1 \in 1..Len(res')
  BY <1>1, <1>2
<1>7. Elements(res') = Elements(res) \cup {n}
  <2>1. Elements(res') \subseteq Elements(res) \cup {n}
    BY <1>2, <1>6 DEF Elements
  <2>2. Elements(res) \subseteq Elements(res')
    BY <1>2, <1>6 DEF Elements
  <2>3. n \in Elements(res')
    BY <1>2, <1>6 DEF Elements
  <2>. QED BY <2>1, <2>2, <2>3
<1>. QED BY <1>4, <1>5, <1>7

\* A listing of a finite set leaves none of its elements out.
LEMMA ListingComplete ==
  ASSUME NEW S, IsFiniteSet(S), NEW s \in Listings(S)
  PROVE  s \in Seq(S) /\ Elements(s) = S
<1>. DEFINE N == Cardinality(S)
<1>1. N \in Nat /\ s \in [1..N -> S] /\ Len(s) = N /\ s \in Seq(S)
  BY FS_CardinalityType DEF Listings
<1>2. s \in Injection(1..N, S)
  BY <1>1 DEF Listings, Injection, IsInjective
<1>3. Cardinality(1..N) = Cardinality(S)
  BY <1>1, FS_Interval
<1>4. s \in Surjection(1..N, S)
  BY <1>2, <1>3, FS_Injection
<1>5. \A n \in S : \E i \in 1..N : s[i] = n
  BY <1>4 DEF Surjection
<1>. HIDE DEF N
<1>. QED BY <1>1, <1>5 DEF Elements

-----------------------------------------------------------------------------
(* Kahn's algorithm hands over to the search *)

LEMMA InitSearchInv == Init => SearchInv
<1>. SUFFICES ASSUME Init PROVE SearchInv
  OBVIOUS
<1>. DEFINE zero == {n \in Node : indeg[n] = 0}
<1>1. SortInv
  BY InitSortInv
<1>2. /\ phase = "kahn" /\ stack = <<>> /\ loops = <<>> /\ start = 1 /\ kahn = 0
      /\ res = <<>> /\ que \in Listings(zero) /\ nodes \in Listings(Node)
  BY DEF Init
<1>3. IsFiniteSet(zero)
  BY NodeAssumption, FS_Subset
<1>4. Elements(nodes) = Node
  BY <1>2, NodeAssumption, ListingComplete
<1>5. Elements(que) = zero
  <2>. HIDE DEF zero
  <2>. QED BY <1>2, <1>3, ListingComplete
<1>6. CompleteInv
  BY <1>2, <1>5 DEF CompleteInv, Elements
<1>. QED
  BY <1>1, <1>2, <1>4, <1>6 DEF SearchInv, ApartInv, PassedInv, PathInv, NamedInv, FreeInv

LEMMA PopSearchInv ==
  ASSUME SearchInv, Pop
  PROVE  SearchInv'
<1>. DEFINE cur == Head(que)
            ready == {n \in dependency[cur] : indeg[n] = 1}
<1>1. /\ phase = "kahn" /\ phase' = "kahn" /\ que # <<>>
      /\ UNCHANGED <<nodes, dependency, kahn, start, stack, loops>>
      /\ res' = Append(res, cur)
      /\ indeg' = [n \in Node |->
                     IF n \in dependency[cur] THEN indeg[n] - 1 ELSE indeg[n]]
  BY DEF Pop, graph
<1>2. PICK new \in Listings(ready) : que' = Tail(que) \o new
  BY DEF Pop
<1>3. SortInv /\ SortInv'
  BY PopSortInv DEF SearchInv
<1>4. /\ dependency \in [Node -> SUBSET Node] /\ indeg \in [Node -> Int]
      /\ que \in Seq(Node) /\ cur \in Node /\ cur = que[1] /\ Len(que) \in Nat \ {0}
      /\ kahn \in 0..Len(res)
  BY <1>1, <1>3 DEF SortInv
<1>5. ready \subseteq Node /\ IsFiniteSet(ready)
  <2>1. ready \subseteq Node
    BY <1>4
  <2>. QED BY <2>1, NodeAssumption, FS_Subset
<1>6. new \in Seq(ready) /\ Elements(new) = ready
  BY <1>5, ListingComplete
<1>7. Elements(res') = Elements(res) \cup {cur}
  BY <1>1, <1>3, <1>4, ResultGrows
<1>. HIDE DEF ready
<1>8. /\ \A i \in 2..Len(que) : \E j \in 1..Len(que') : que'[j] = que[i]
      /\ \A i \in 1..Len(new) : \E j \in 1..Len(que') : que'[j] = new[i]
  <2>. DEFINE t == Tail(que)
  <2>1. /\ t \in Seq(Node) /\ Len(t) = Len(que) - 1
        /\ \A i \in 2..Len(que) : i - 1 \in 1..Len(t) /\ t[i - 1] = que[i]
    BY <1>1, <1>4
  <2>. HIDE DEF t
  <2>2. /\ Len(que') = Len(t) + Len(new) /\ Len(t) \in Nat /\ Len(new) \in Nat
        /\ \A i \in 1..Len(t) : que'[i] = t[i] /\ i \in 1..Len(que')
        /\ \A i \in 1..Len(new) : que'[Len(t) + i] = new[i] /\ Len(t) + i \in 1..Len(que')
    BY <1>2, <1>5, <1>6, <2>1 DEF t
  <2>. QED BY <2>1, <2>2
<1>9. ASSUME NEW n \in Node, indeg'[n] = 0
      PROVE  n \in Elements(res') \/ \E i \in 1..Len(que') : que'[i] = n
  <2>1. CASE n \in dependency[cur]
    <3>1. n \in ready
      BY <1>1, <1>4, <1>9, <2>1 DEF ready
    <3>2. PICK i \in 1..Len(new) : new[i] = n
      BY <1>6, <3>1 DEF Elements
    <3>. QED BY <1>8, <3>2
  <2>2. CASE n \notin dependency[cur]
    <3>1. indeg[n] = 0
      BY <1>1, <1>9, <2>2
    <3>2. n \in Elements(res) \/ \E i \in 1..Len(que) : que[i] = n
      BY <1>1, <3>1 DEF SearchInv, CompleteInv
    <3>3. \A i \in 1..Len(que) : i = 1 \/ i \in 2..Len(que)
      BY <1>4
    <3>. QED BY <1>4, <1>7, <1>8, <3>2, <3>3
  <2>. QED BY <2>1, <2>2
<1>10. CompleteInv'
  BY <1>1, <1>9 DEF SearchInv, CompleteInv
<1>. QED
  BY <1>1, <1>3, <1>10 DEF SearchInv, CompleteInv, ApartInv, PassedInv, PathInv, NamedInv,
     FreeInv

LEMMA QueueEmptySearchInv ==
  ASSUME SearchInv, QueueEmpty
  PROVE  SearchInv'
<1>1. /\ phase = "kahn" /\ phase' = "loop" /\ que = <<>> /\ kahn' = Len(res)
      /\ UNCHANGED <<nodes, dependency, indeg, que, res, start, stack, loops>>
      /\ stack = <<>> /\ loops = <<>> /\ start = 1
  BY DEF QueueEmpty, graph, SearchInv, CompleteInv
<1>2. /\ SortInv /\ SortInv' /\ Len(res) \in Nat
  BY StepSortInv DEF SearchInv, Next, SortInv
<1>3. Sorted' = Elements(res) /\ Searched' = {}
  BY <1>1, <1>2 DEF Sorted, Searched, Elements
<1>4. \A n \in Node : indeg[n] = Cardinality(Waiting(n))
  BY <1>1, <1>2 DEF SortInv, KahnInv
<1>5. \A n \in Node : indeg[n] = 0 => n \in Elements(res)
  BY <1>1 DEF SearchInv, CompleteInv
<1>6. \A n \in Elements(res) : indeg[n] = 0
  <2>. SUFFICES ASSUME NEW i \in 1..Len(res) PROVE indeg[res[i]] = 0
    BY DEF Elements
  <2>1. \A m \in Needs(res[i]) : \E j \in 1..(i - 1) : res[j] = m
    BY <1>1, <1>2 DEF SortInv, DependenciesFirst
  <2>2. \A j \in 1..(i - 1) : j \in 1..Len(res)
    BY <1>2
  <2>3. Waiting(res[i]) = {}
    BY <2>1, <2>2 DEF Waiting, Elements
  <2>4. res[i] \in Node
    BY <1>2 DEF SortInv
  <2>. QED BY <1>4, <2>3, <2>4, FS_EmptySet
<1>7. \A n \in Node \ Elements(res) : Needs(n) \ Elements(res) # {}
  <2>. SUFFICES ASSUME NEW n \in Node, Needs(n) \ Elements(res) = {} PROVE n \in Elements(res)
    OBVIOUS
  <2>1. Waiting(n) = {}
    BY DEF Waiting
  <2>. QED BY <1>4, <1>5, <2>1, FS_EmptySet
<1>8. \A n : Needs(n)' = Needs(n)
  BY <1>1, SameReaches
<1>9. ApartInv'
  BY <1>1, <1>3, <1>6, <1>7, <1>8 DEF ApartInv
<1>10. PassedInv'
  BY <1>1, <1>5 DEF PassedInv, SearchInv, SortInv
<1>11. FreeInv'
  BY <1>1, <1>3 DEF FreeInv
<1>. QED
  BY <1>1, <1>2, <1>9, <1>10, <1>11 DEF SearchInv, CompleteInv, PathInv, NamedInv

-----------------------------------------------------------------------------
(* The steps of the search *)

\* What the search keeps whatever it does: the graph, and what was sorted.
LEMMA SearchFacts ==
  ASSUME SearchInv, phase = "loop"
  PROVE  /\ SortInv /\ Elements(nodes) = Node /\ loops \in Seq(Seq(Node))
         /\ dependency \in [Node -> SUBSET Node] /\ indeg \in [Node -> Int]
         /\ nodes \in Seq(Node) /\ start \in Nat \ {0} /\ stack \in Seq(Frame)
         /\ Len(nodes) \in Nat /\ Len(stack) \in Nat
         /\ Elements(res) = Sorted \cup Searched /\ Elements(res) \subseteq Node
BY ResultParts DEF SearchInv, SortInv

LEMMA StartSearchInv ==
  ASSUME SearchInv, Start
  PROVE  SearchInv'
<1>1. /\ phase = "loop" /\ phase' = "loop" /\ stack = <<>> /\ start <= Len(nodes)
      /\ start' = start + 1
      /\ UNCHANGED <<nodes, dependency, indeg, que, res, kahn, loops>>
  BY DEF Start, graph
<1>2. PICK m : m = nodes[start]
  OBVIOUS
<1>3. /\ SortInv /\ SortInv' /\ Elements(nodes) = Node /\ loops \in Seq(Seq(Node))
      /\ start \in 1..Len(nodes) /\ m \in Node /\ Len(nodes) \in Nat
      /\ CompleteInv /\ ApartInv /\ PassedInv /\ PathInv /\ NamedInv /\ FreeInv
  <2>1. SortInv'
    BY StepSortInv DEF SearchInv, Next
  <2>. QED BY <1>1, <1>2, <2>1, SearchFacts DEF SearchInv
<1>4. Sorted' = Sorted /\ Searched' = Searched
  BY <1>1 DEF Sorted, Searched
<1>5. /\ Call(m).node = m /\ Call(m).left = dependency[m]
      /\ \A i \in 1..Len(stack') : i = 1 /\ stack'[i] = Call(m) /\ indeg[m] # 0
      /\ indeg[m] # 0 => stack'[1] = Call(m) /\ Len(stack') = 1
  <2>1. CASE indeg[m] # 0
    <3>1. stack' = <<Call(m)>>
      BY <1>2, <2>1 DEF Start
    <3>. QED BY <2>1, <3>1 DEF Call
  <2>2. CASE indeg[m] = 0
    <3>1. stack' = <<>>
      BY <1>2, <2>2 DEF Start
    <3>. QED BY <2>2, <3>1 DEF Call
  <2>. QED BY <2>1, <2>2
<1>6. CompleteInv'
  BY <1>1 DEF CompleteInv
<1>7. ApartInv'
  <2>1. \A i \in 1..Len(stack') : stack'[i].node \notin Sorted
    BY <1>1, <1>3, <1>5 DEF ApartInv
  <2>. QED BY <1>1, <1>3, <1>4, <2>1, SameReaches DEF ApartInv
<1>8. PassedInv'
  <2>1. \A n \in Node : indeg[n] = 0 => n \in Elements(res)
    BY <1>1, <1>3 DEF PassedInv, OnStack
  <2>2. m \in Elements(res) \/ OnStack(m)'
    BY <1>3, <1>5, <2>1 DEF OnStack
  <2>3. \A i \in 1..Len(nodes) : i < start' => i = start \/ i < start
    BY <1>1, <1>3
  <2>4. \A i \in 1..Len(nodes) : i < start => nodes[i] \in Elements(res)
    BY <1>1, <1>3 DEF PassedInv, OnStack
  <2>5. \A i \in 1..Len(nodes) : i < start' => nodes[i] \in Elements(res) \/ OnStack(nodes[i])'
    BY <1>1, <1>2, <2>2, <2>3, <2>4 DEF OnStack
  <2>6. Elements(res)' = Elements(res)
    BY <1>1 DEF Elements
  <2>. QED BY <1>1, <2>1, <2>5, <2>6 DEF PassedInv
<1>9. PathInv'
  BY <1>1, <1>5 DEF PathInv
<1>10. NamedInv'
  BY <1>1, <1>3, SameReaches DEF NamedInv
<1>11. FreeInv'
  BY <1>1, <1>3, <1>4, <1>5, SameReaches DEF FreeInv
<1>. QED BY <1>1, <1>3, <1>6, <1>7, <1>8, <1>9, <1>10, <1>11 DEF SearchInv

LEMMA StopSearchInv ==
  ASSUME SearchInv, AssertionFails \/ Finish
  PROVE  SearchInv'
<1>1. /\ phase = "loop" /\ phase' \in {"failed", "done"}
      /\ UNCHANGED <<nodes, dependency, indeg, que, res, kahn, start, stack, loops>>
      /\ phase' = "done" => stack = <<>> /\ start > Len(nodes)
  BY DEF AssertionFails, Finish, graph
<1>2. SortInv'
  BY StepSortInv DEF SearchInv, Next
<1>3. Sorted' = Sorted /\ Searched' = Searched /\ Elements(res)' = Elements(res)
  BY <1>1 DEF Sorted, Searched, Elements
<1>4. \A n : OnStack(n)' <=> OnStack(n)
  BY <1>1 DEF OnStack
<1>5. CompleteInv'
  BY <1>1 DEF CompleteInv
<1>6. ApartInv'
  BY <1>1, <1>3, SameReaches DEF SearchInv, ApartInv
<1>7. PassedInv'
  BY <1>1, <1>3, <1>4 DEF SearchInv, PassedInv
<1>8. PathInv'
  BY <1>1, SameReaches DEF SearchInv, PathInv
<1>9. NamedInv'
  BY <1>1, SameReaches DEF SearchInv, NamedInv
<1>10. FreeInv'
  BY <1>1, <1>3, SameReaches DEF SearchInv, FreeInv
<1>. QED BY <1>1, <1>2, <1>5, <1>6, <1>7, <1>8, <1>9, <1>10 DEF SearchInv, Elements

\* The definitions a report names lie on a loop, in the order of the references.
LEMMA LoopListNamed ==
  ASSUME SearchInv, phase = "loop", stack # <<>>, NEW n \in Top.left, OnStack(n)
  PROVE  /\ n \in Node /\ OnLoop(n) /\ LoopList(n) \in Seq(Node)
         /\ \A i, j \in DOMAIN LoopList(n) : Reaches(LoopList(n)[i], LoopList(n)[j])
         /\ \A i \in 1..(Len(LoopList(n)) - 1) :
              LoopList(n)[i] \in dependency[LoopList(n)[i + 1]]
<1>. DEFINE L == Len(stack)
<1>1. /\ dependency \in [Node -> SUBSET Node] /\ stack \in Seq(Frame) /\ PathInv
      /\ L \in Nat \ {0} /\ Top = stack[L] /\ n \in Node
  BY SearchFacts, StackTop DEF SearchInv
<1>2. \A i \in 1..L : stack[i].node \in Node
  <2>1. \A i \in 1..L : stack[i] \in Frame
    BY <1>1
  <2>. QED BY <2>1 DEF Frame
<1>. HIDE DEF L
<1>3. n \in dependency[stack[L].node]
  BY <1>1 DEF PathInv, L
<1>4. \A i \in 1..L : Reaches(stack[i].node, n)
  <2>. SUFFICES ASSUME NEW i \in 1..L PROVE Reaches(stack[i].node, n)
    OBVIOUS
  <2>1. CASE i = L
    BY <1>1, <1>2, <1>3, <2>1, ReachesProperties
  <2>2. CASE i < L
    <3>1. Reaches(stack[i].node, stack[L].node) /\ L \in 1..L
      BY <1>1, <2>2 DEF PathInv, L
    <3>. QED BY <1>1, <1>2, <1>3, <3>1, ReachesProperties
  <2>. QED BY <1>1, <2>1, <2>2
<1>5. PICK p \in 1..L : stack[p].node = n
  BY DEF OnStack, L
<1>6. Reaches(n, n)
  BY <1>4, <1>5
<1>7. ASSUME NEW q \in 1..L, stack[q].node = n
      PROVE  \A i, j \in q..L : Reaches(stack[i].node, stack[j].node)
  <2>. SUFFICES ASSUME NEW i \in q..L, NEW j \in q..L
                PROVE  Reaches(stack[i].node, stack[j].node)
    OBVIOUS
  <2>1. i \in 1..L /\ j \in 1..L /\ (j = q \/ q < j)
    BY <1>1, <1>7
  <2>2. Reaches(n, stack[j].node)
    BY <1>1, <1>6, <1>7, <2>1 DEF PathInv, L
  <2>. QED BY <1>1, <1>2, <1>4, <2>1, <2>2, ReachesProperties
<1>8. CASE n = Top.node
  <2>1. LoopList(n) = <<n, n>>
    BY <1>8 DEF LoopList
  <2>2. n \in dependency[n]
    BY <1>1, <1>3, <1>8
  <2>. QED BY <1>1, <1>6, <2>1, <2>2 DEF OnLoop
<1>9. CASE n # Top.node
  <2>. DEFINE found == {i \in 2..(L - 1) : stack[i].node = n}
              first == IF found # {} THEN CHOOSE i \in found : TRUE ELSE 2
              k == L - first
              LL == LoopList(n)
  <2>1. p < L /\ p \in 1..L /\ L >= 2
    BY <1>1, <1>5, <1>9
  <2>2. PICK q \in 1..first : stack[q].node = n
    <3>1. CASE found # {}
      <4>1. first \in found
        BY <3>1
      <4>. HIDE DEF first
      <4>. QED BY <1>1, <4>1
    <3>2. CASE found = {}
      <4>1. p = 1 /\ first = 2
        BY <1>1, <1>5, <2>1, <3>2
      <4>. QED BY <1>5, <4>1
    <3>. QED BY <3>1, <3>2
  <2>3. first \in 2..L
    <3>1. CASE found # {}
      <4>1. first \in found
        BY <3>1
      <4>. HIDE DEF first
      <4>. QED BY <1>1, <4>1
    <3>2. CASE found = {}
      BY <1>1, <2>1, <3>2
    <3>. QED BY <3>1, <3>2
  <2>4. LL = [i \in 1..(L - 1 + 1 - first) |-> stack[L - 1 + 1 - i].node]
    BY <1>9 DEF LoopList, L
  <2>. HIDE DEF first, LL
  <2>5. k \in Nat /\ L - 1 + 1 - first = k
    BY <1>1, <2>3
  <2>6. \A i \in 1..k : L - 1 + 1 - i = L - i /\ L - i \in first..(L - 1) /\ L - i \in 1..L /\ L - i \in q..L
    BY <1>1, <2>2, <2>3
  <2>. HIDE DEF k
  <2>7. LL = [i \in 1..k |-> stack[L - i].node]
    BY <2>4, <2>5, <2>6
  <2>8. \A i \in 1..k : stack[L - i].node \in Node
    BY <1>2, <2>6
  <2>9. LL \in Seq(Node) /\ Len(LL) = k /\ DOMAIN LL = 1..k
    <3>1. LL \in [1..k -> Node]
      BY <2>7, <2>8
    <3>. QED BY <2>5, <3>1
  <2>10. \A i, j \in 1..k : Reaches(LL[i], LL[j])
    <3>1. q \in 1..L
      BY <1>1, <2>2, <2>3
    <3>. QED BY <1>7, <2>2, <2>6, <2>7, <3>1
  <2>11. ASSUME NEW i \in 1..(k - 1) PROVE LL[i] \in dependency[LL[i + 1]]
    <3>1. /\ i \in 1..k /\ i + 1 \in 1..k /\ L - (i + 1) \in 1..(L - 1)
          /\ L - (i + 1) + 1 = L - i
      BY <1>1, <2>3, <2>5 DEF k
    <3>2. stack[L - (i + 1) + 1].node \in dependency[stack[L - (i + 1)].node]
      BY <1>1, <3>1 DEF PathInv, L
    <3>. QED BY <2>7, <3>1, <3>2
  <2>. QED BY <1>1, <1>6, <2>9, <2>10, <2>11 DEF OnLoop, LL
<1>. QED BY <1>8, <1>9

LEMMA CloseLoopSearchInv ==
  ASSUME SearchInv, CloseLoop
  PROVE  SearchInv'
<1>1. /\ phase = "loop" /\ phase' = "loop" /\ stack # <<>>
      /\ UNCHANGED <<nodes, dependency, que, res, kahn, start>>
  BY DEF CloseLoop, graph
<1>2. PICK n \in Top.left :
        /\ indeg[n] # 0 /\ OnStack(n)
        /\ loops' = Append(loops, LoopList(n))
        /\ indeg' = [indeg EXCEPT ![n] = @ - 1]
        /\ stack' = Append(Below, [Top EXCEPT !.left = @ \ {n}])
  BY DEF CloseLoop
<1>3. /\ SortInv /\ SortInv' /\ Elements(nodes) = Node /\ loops \in Seq(Seq(Node))
      /\ indeg \in [Node -> Int] /\ nodes \in Seq(Node) /\ stack \in Seq(Frame)
      /\ CompleteInv /\ ApartInv /\ PassedInv /\ PathInv /\ NamedInv /\ FreeInv
  <2>1. SortInv'
    BY StepSortInv DEF SearchInv, Next
  <2>. QED BY <1>1, <2>1, SearchFacts DEF SearchInv
<1>4. Sorted' = Sorted /\ Searched' = Searched /\ Elements(res)' = Elements(res)
  BY <1>1 DEF Sorted, Searched, Elements
<1>5. /\ Len(stack') = Len(stack) /\ Len(stack) \in Nat
      /\ \A i \in 1..Len(stack) :
           stack'[i].node = stack[i].node /\ stack'[i].left \subseteq stack[i].left
  <2>. DEFINE f == [Top EXCEPT !.left = @ \ {n}]
  <2>1. /\ Len(stack) \in Nat \ {0} /\ Top = stack[Len(stack)] /\ Top \in Frame
    BY <1>1, <1>3, StackTop
  <2>2. f \in Frame /\ f.node = Top.node /\ f.left \subseteq Top.left
    BY <2>1 DEF Frame
  <2>3. stack' = Append(Below, f)
    BY <1>2
  <2>. HIDE DEF f
  <2>4. /\ Len(stack') = Len(stack) /\ stack'[Len(stack)] = f
        /\ \A i \in 1..(Len(stack) - 1) : stack'[i] = stack[i]
    BY <1>1, <1>3, <2>2, <2>3, StackPush
  <2>. QED BY <2>1, <2>2, <2>4
<1>6. \A m : OnStack(m)' <=> OnStack(m)
  BY <1>5 DEF OnStack
<1>7. /\ n \in Node /\ OnLoop(n) /\ LoopList(n) \in Seq(Node)
      /\ \A i, j \in DOMAIN LoopList(n) : Reaches(LoopList(n)[i], LoopList(n)[j])
      /\ \A i \in 1..(Len(LoopList(n)) - 1) :
           LoopList(n)[i] \in dependency[LoopList(n)[i + 1]]
  BY <1>1, <1>2, LoopListNamed
<1>8. PICK list : list = LoopList(n)
  OBVIOUS
<1>9. /\ Len(loops') = Len(loops) + 1 /\ loops' \in Seq(Seq(Node)) /\ loops' # <<>>
      /\ loops'[Len(loops) + 1] = list
      /\ \A l \in DOMAIN loops' :
           l = Len(loops) + 1 \/ (l \in DOMAIN loops /\ loops'[l] = loops[l])
  <2>1. loops' = Append(loops, list) /\ list \in Seq(Node)
    BY <1>2, <1>7, <1>8
  <2>2. /\ Len(loops) \in Nat /\ Len(loops') = Len(loops) + 1
        /\ loops' \in Seq(Seq(Node)) /\ loops'[Len(loops) + 1] = list
        /\ \A l \in 1..Len(loops) : loops'[l] = loops[l]
        /\ DOMAIN loops = 1..Len(loops) /\ DOMAIN loops' = 1..Len(loops')
    BY <1>3, <2>1
  <2>3. loops' # <<>>
    BY <2>2
  <2>. QED BY <2>2, <2>3
<1>10. ApartInv'
  <2>1. \A m \in Sorted : indeg'[m] = 0
    <3>1. \A m \in Sorted : indeg[m] = 0
      BY <1>1, <1>3 DEF ApartInv
    <3>2. Sorted \subseteq Node
      BY <1>1, SearchFacts
    <3>. QED BY <1>2, <1>3, <3>1, <3>2
  <2>2. /\ \A m \in Node \ Sorted : Needs(m) \ Sorted # {}
        /\ \A m \in Searched : m \notin Sorted
        /\ \A i \in 1..Len(stack) : stack[i].node \notin Sorted
    BY <1>1, <1>3 DEF ApartInv
  <2>3. \A m : Needs(m)' = Needs(m)
    BY <1>1, SameReaches
  <2>4. \A i \in 1..Len(stack') : stack'[i].node \notin Sorted
    BY <1>5, <2>2
  <2>. QED BY <1>4, <2>1, <2>2, <2>3, <2>4 DEF ApartInv
<1>11. PassedInv'
  <2>1. \A m \in Node : m # n => indeg'[m] = indeg[m]
    BY <1>2, <1>3, <1>7
  <2>. QED BY <1>1, <1>2, <1>3, <1>4, <1>6, <2>1 DEF PassedInv
<1>12. PathInv'
  <2>1. \A i \in 1..Len(stack) : stack'[i].left \subseteq dependency[stack'[i].node]
    BY <1>3, <1>5 DEF PathInv
  <2>2. \A i \in 1..(Len(stack) - 1) : i \in 1..Len(stack) /\ i + 1 \in 1..Len(stack)
    BY <1>5
  <2>3. \A i \in 1..(Len(stack) - 1) : stack'[i + 1].node \in dependency[stack'[i].node]
    BY <1>3, <1>5, <2>2 DEF PathInv
  <2>4. \A i, j \in 1..Len(stack) : i < j => Reaches(stack'[i].node, stack'[j].node)
    BY <1>3, <1>5 DEF PathInv
  <2>. QED BY <1>1, <1>5, <2>1, <2>3, <2>4, SameReaches DEF PathInv
<1>13. NamedInv'
  <2>1. \E m \in Node : OnLoop(m)
    BY <1>7
  <2>2. ASSUME NEW l \in DOMAIN loops'
        PROVE  /\ \A i, j \in DOMAIN loops'[l] : Reaches(loops'[l][i], loops'[l][j])
               /\ \A i \in 1..(Len(loops'[l]) - 1) :
                    loops'[l][i] \in dependency[loops'[l][i + 1]]
    <3>1. CASE l = Len(loops) + 1
      BY <1>7, <1>8, <1>9, <3>1
    <3>2. CASE l \in DOMAIN loops /\ loops'[l] = loops[l]
      BY <1>3, <3>2 DEF NamedInv
    <3>. QED BY <1>9, <3>1, <3>2
  <2>. QED BY <1>1, <2>1, <2>2, SameReaches DEF NamedInv
<1>. QED
  BY <1>1, <1>3, <1>9, <1>10, <1>11, <1>12, <1>13 DEF SearchInv, CompleteInv, FreeInv

LEMMA DescendSearchInv ==
  ASSUME SearchInv, Descend
  PROVE  SearchInv'
<1>1. /\ phase = "loop" /\ phase' = "loop" /\ stack # <<>>
      /\ UNCHANGED <<nodes, dependency, indeg, que, res, kahn, start, loops>>
  BY DEF Descend, graph
<1>2. PICK n \in Top.left :
        /\ indeg[n] # 0 /\ ~OnStack(n)
        /\ stack' = Append(Append(Below, [Top EXCEPT !.left = @ \ {n}]), Call(n))
  BY DEF Descend
<1>3. /\ SortInv /\ SortInv' /\ Elements(nodes) = Node /\ loops \in Seq(Seq(Node))
      /\ dependency \in [Node -> SUBSET Node] /\ stack \in Seq(Frame)
      /\ CompleteInv /\ ApartInv /\ PassedInv /\ PathInv /\ NamedInv /\ FreeInv
  <2>1. SortInv'
    BY StepSortInv DEF SearchInv, Next
  <2>. QED BY <1>1, <2>1, SearchFacts DEF SearchInv
<1>4. Sorted' = Sorted /\ Searched' = Searched /\ Elements(res)' = Elements(res)
  BY <1>1 DEF Sorted, Searched, Elements
<1>5. PICK L : L = Len(stack)
  OBVIOUS
<1>6. /\ L \in Nat \ {0} /\ Len(stack) = L /\ Len(stack') = L + 1
      /\ n \in Node /\ n \in stack[L].left
      /\ \A i \in 1..L : /\ stack'[i].node = stack[i].node
                         /\ stack'[i].left \subseteq stack[i].left
                         /\ stack[i].left \subseteq stack'[i].left \cup {n}
                         /\ i < L => stack'[i].left = stack[i].left
      /\ \A i \in 1..L : stack[i].node \in Node
      /\ stack'[L + 1].node = n /\ stack'[L + 1].left = dependency[n]
  <2>. DEFINE f == [Top EXCEPT !.left = @ \ {n}]
  <2>1. /\ L \in Nat \ {0} /\ Top = stack[L] /\ Top \in Frame
        /\ Top.node \in Node /\ Top.left \subseteq Node
    BY <1>1, <1>3, <1>5, StackTop
  <2>2. /\ f \in Frame /\ f.node = Top.node /\ f.left \subseteq Top.left
        /\ Top.left \subseteq f.left \cup {n}
    BY <2>1 DEF Frame
  <2>3. n \in Node /\ Call(n) \in Frame /\ Call(n).node = n /\ Call(n).left = dependency[n]
    BY <1>3, <2>1 DEF Call, Frame
  <2>4. stack' = Append(Append(Below, f), Call(n))
    BY <1>2
  <2>. HIDE DEF f
  <2>5. /\ Len(stack') = L + 1 /\ stack'[L] = f /\ stack'[L + 1] = Call(n)
        /\ \A i \in 1..(L - 1) : stack'[i] = stack[i]
    BY <1>1, <1>3, <1>5, <2>2, <2>3, <2>4, StackPush
  <2>6. \A i \in 1..L : i = L \/ i \in 1..(L - 1)
    BY <2>1
  <2>7. \A i \in 1..L : stack[i].node \in Node
    <3>1. \A i \in 1..L : stack[i] \in Frame
      BY <1>3, <1>5
    <3>. QED BY <3>1 DEF Frame
  <2>8. \A i \in 1..L : /\ stack'[i].node = stack[i].node
                        /\ stack'[i].left \subseteq stack[i].left
                        /\ stack[i].left \subseteq stack'[i].left \cup {n}
                        /\ i < L => stack'[i].left = stack[i].left
    BY <2>1, <2>2, <2>5, <2>6
  <2>9. n \in stack[L].left /\ stack'[L + 1].node = n /\ stack'[L + 1].left = dependency[n]
    BY <2>1, <2>3, <2>5
  <2>. QED BY <1>5, <2>1, <2>3, <2>5, <2>7, <2>8, <2>9
<1>7. \A i \in 1..Len(stack') : i = L + 1 \/ i \in 1..L
  BY <1>6
<1>8. \A m : OnStack(m) => OnStack(m)'
  <2>1. \A i \in 1..L : i \in 1..(L + 1)
    BY <1>6
  <2>. QED BY <1>6, <2>1 DEF OnStack
<1>9. n \notin Sorted
  BY <1>1, <1>2, <1>3 DEF ApartInv
<1>10. ApartInv'
  <2>1. /\ \A m \in Sorted : indeg[m] = 0
        /\ \A m \in Node \ Sorted : Needs(m) \ Sorted # {}
        /\ \A m \in Searched : m \notin Sorted
        /\ \A i \in 1..L : stack[i].node \notin Sorted
    BY <1>1, <1>3, <1>6 DEF ApartInv
  <2>2. \A m : Needs(m)' = Needs(m)
    BY <1>1, SameReaches
  <2>3. \A i \in 1..Len(stack') : stack'[i].node \notin Sorted
    BY <1>6, <1>7, <1>9, <2>1
  <2>. QED BY <1>1, <1>4, <2>1, <2>2, <2>3 DEF ApartInv
<1>11. PassedInv'
  BY <1>1, <1>3, <1>4, <1>8 DEF PassedInv
<1>12. PathInv'
  <2>1. /\ L \in 1..L /\ n \in dependency[stack[L].node]
        /\ \A i \in 1..L : i < L => Reaches(stack[i].node, stack[L].node)
    BY <1>3, <1>6 DEF PathInv
  <2>2. \A i \in 1..L : Reaches(stack[i].node, n)
    <3>. SUFFICES ASSUME NEW i \in 1..L PROVE Reaches(stack[i].node, n)
      OBVIOUS
    <3>1. CASE i = L
      BY <1>3, <1>6, <2>1, <3>1, ReachesProperties
    <3>2. CASE i < L
      BY <1>3, <1>6, <2>1, <3>2, ReachesProperties
    <3>. QED BY <1>6, <3>1, <3>2
  <2>3. \A i \in 1..(L + 1) : stack'[i].left \subseteq dependency[stack'[i].node]
    BY <1>3, <1>6, <1>7 DEF PathInv
  <2>4. \A i \in 1..L : stack'[i + 1].node \in dependency[stack'[i].node]
    <3>1. \A i \in 1..L : i = L \/ (i \in 1..(L - 1) /\ i + 1 \in 1..L)
      BY <1>6
    <3>. QED BY <1>3, <1>6, <2>1, <3>1 DEF PathInv
  <2>5. \A i, j \in 1..(L + 1) : i < j => Reaches(stack'[i].node, stack'[j].node)
    <3>. SUFFICES ASSUME NEW i \in 1..(L + 1), NEW j \in 1..(L + 1), i < j
                  PROVE  Reaches(stack'[i].node, stack'[j].node)
      OBVIOUS
    <3>1. i \in 1..L /\ (j = L + 1 \/ j \in 1..L)
      BY <1>6
    <3>. QED BY <1>3, <1>6, <2>2, <3>1 DEF PathInv
  <2>6. Len(stack') - 1 = L
    BY <1>6
  <2>. QED BY <1>1, <1>6, <2>3, <2>4, <2>5, <2>6, SameReaches DEF PathInv
<1>13. NamedInv'
  BY <1>1, <1>3, SameReaches DEF NamedInv
<1>14. FreeInv'
  <2>. SUFFICES ASSUME loops = <<>>
                PROVE  /\ \A m \in Searched : dependency[m] \subseteq Searched /\ ~OnLoop(m)
                       /\ \A i \in 1..Len(stack') : \A m \in dependency[stack'[i].node] :
                            \/ m \in Searched \cup stack'[i].left
                            \/ i < Len(stack') /\ m = stack'[i + 1].node
    BY <1>1, <1>4, SameReaches DEF FreeInv
  <2>1. /\ \A m \in Searched : dependency[m] \subseteq Searched /\ ~OnLoop(m)
        /\ \A i \in 1..L : \A m \in dependency[stack[i].node] :
             \/ m \in Searched \cup stack[i].left
             \/ i < L /\ m = stack[i + 1].node
    BY <1>1, <1>3, <1>6 DEF FreeInv
  <2>2. ASSUME NEW i \in 1..Len(stack'), NEW m \in dependency[stack'[i].node]
        PROVE  \/ m \in Searched \cup stack'[i].left
               \/ i < Len(stack') /\ m = stack'[i + 1].node
    <3>1. CASE i = L + 1
      BY <1>6, <2>2, <3>1
    <3>2. CASE i = L
      BY <1>6, <2>1, <2>2, <3>2
    <3>3. CASE i \in 1..(L - 1)
      <4>1. i \in 1..L /\ i + 1 \in 1..L /\ i < L /\ i < Len(stack')
        BY <1>6, <3>3
      <4>. QED BY <1>6, <2>1, <2>2, <4>1
    <3>. QED BY <1>6, <1>7, <3>1, <3>2, <3>3
  <2>. QED BY <2>1, <2>2
<1>. QED
  BY <1>1, <1>3, <1>10, <1>11, <1>12, <1>13, <1>14 DEF SearchInv, CompleteInv


LEMMA ReturnSearchInv ==
  ASSUME SearchInv, Return
  PROVE  SearchInv'
<1>1. /\ phase = "loop" /\ phase' = "loop" /\ stack # <<>> /\ Top.left = {}
      /\ res' = Append(res, Top.node)
      /\ indeg' = IF Len(stack) > 1 THEN [indeg EXCEPT ![Top.node] = @ - 1] ELSE indeg
      /\ stack' = Below
      /\ UNCHANGED <<nodes, dependency, que, kahn, start, loops>>
  BY DEF Return, graph
<1>2. PICK L, n : L = Len(stack) /\ n = Top.node
  OBVIOUS
<1>3. /\ SortInv /\ SortInv' /\ Elements(nodes) = Node /\ loops \in Seq(Seq(Node))
      /\ dependency \in [Node -> SUBSET Node] /\ indeg \in [Node -> Int]
      /\ stack \in Seq(Frame) /\ nodes \in Seq(Node)
      /\ Elements(res) = Sorted \cup Searched /\ Elements(res) \subseteq Node
      /\ CompleteInv /\ ApartInv /\ PassedInv /\ PathInv /\ NamedInv /\ FreeInv
  <2>1. SortInv'
    BY StepSortInv DEF SearchInv, Next
  <2>. QED BY <1>1, <2>1, SearchFacts DEF SearchInv
<1>4. /\ L \in Nat \ {0} /\ Len(stack) = L /\ Len(stack') = L - 1
      /\ \A i \in 1..(L - 1) : stack'[i] = stack[i]
      /\ n \in Node /\ stack[L].node = n /\ stack[L].left = {} /\ L \in 1..L
  BY <1>1, <1>2, <1>3, StackTop
<1>5. /\ Sorted' = Sorted /\ Searched' = Searched \cup {n}
      /\ Elements(res)' = Elements(res) \cup {n}
  BY <1>1, <1>2, <1>3, <1>4, ResultGrows
<1>6. \A m \in Node : m # n => indeg'[m] = indeg[m]
  BY <1>1, <1>2, <1>3, <1>4
<1>7. \A m : OnStack(m) => m = n \/ OnStack(m)'
  <2>1. \A i \in 1..L : i = L \/ i \in 1..(L - 1)
    BY <1>4
  <2>. QED BY <1>4, <2>1 DEF OnStack
<1>8. n \notin Sorted
  BY <1>1, <1>3, <1>4 DEF ApartInv
<1>9. \A i \in 1..(L - 1) : i \in 1..L /\ i + 1 \in 1..L /\ i < L /\ (i = L - 1 \/ i + 1 \in 1..(L - 1))
  BY <1>4
<1>10. ApartInv'
  <2>1. /\ \A m \in Sorted : indeg[m] = 0
        /\ \A m \in Node \ Sorted : Needs(m) \ Sorted # {}
        /\ \A m \in Searched : m \notin Sorted
        /\ \A i \in 1..L : stack[i].node \notin Sorted
    BY <1>1, <1>3, <1>4 DEF ApartInv
  <2>2. \A m : Needs(m)' = Needs(m)
    BY <1>1, SameReaches
  <2>3. \A m \in Sorted : indeg'[m] = 0
    BY <1>3, <1>6, <1>8, <2>1
  <2>4. \A i \in 1..Len(stack') : stack'[i].node \notin Sorted
    BY <1>4, <1>9, <2>1
  <2>. QED BY <1>5, <1>8, <2>1, <2>2, <2>3, <2>4 DEF ApartInv
<1>11. PassedInv'
  <2>1. \A m \in Node : indeg'[m] = 0 => m \in Elements(res)' \/ OnStack(m)'
    BY <1>1, <1>3, <1>5, <1>6, <1>7 DEF PassedInv
  <2>2. ASSUME NEW i \in 1..Len(nodes), i < start
        PROVE  nodes[i] \in Elements(res)' \/ OnStack(nodes[i])'
    <3>1. PICK m : m = nodes[i]
      OBVIOUS
    <3>2. m \in Elements(res)' \/ OnStack(m)'
      BY <1>1, <1>3, <1>5, <1>7, <2>2, <3>1 DEF PassedInv
    <3>. QED BY <1>1, <3>1, <3>2 DEF OnStack
  <2>. QED BY <1>1, <2>1, <2>2 DEF PassedInv
<1>12. PathInv'
  <2>1. \A i \in 1..(L - 1) : stack'[i].left \subseteq dependency[stack'[i].node]
    BY <1>3, <1>4, <1>9 DEF PathInv
  <2>2. \A i \in 1..(L - 1 - 1) : i \in 1..(L - 1) /\ i + 1 \in 1..(L - 1)
    BY <1>4
  <2>3. \A i \in 1..(L - 1 - 1) : stack'[i + 1].node \in dependency[stack'[i].node]
    BY <1>3, <1>4, <2>2 DEF PathInv
  <2>4. \A i, j \in 1..(L - 1) : i < j => Reaches(stack'[i].node, stack'[j].node)
    BY <1>3, <1>4, <1>9 DEF PathInv
  <2>. QED BY <1>1, <1>4, <2>1, <2>3, <2>4, SameReaches DEF PathInv
<1>13. NamedInv'
  BY <1>1, <1>3, SameReaches DEF NamedInv
<1>14. FreeInv'
  <2>. SUFFICES ASSUME loops = <<>>
                PROVE  /\ \A m \in Searched \cup {n} :
                            dependency[m] \subseteq Searched \cup {n} /\ ~OnLoop(m)
                       /\ \A i \in 1..(L - 1) : \A m \in dependency[stack[i].node] :
                            \/ m \in Searched \cup {n} \cup stack[i].left
                            \/ i < L - 1 /\ m = stack[i + 1].node
    <3>1. \A i \in 1..(L - 1) : stack'[i] = stack[i] /\ (i < L - 1 => stack'[i + 1] = stack[i + 1])
      BY <1>4, <1>9
    <3>. QED BY <1>1, <1>4, <1>5, <3>1, SameReaches DEF FreeInv
  <2>1. /\ \A m \in Searched : dependency[m] \subseteq Searched /\ ~OnLoop(m)
        /\ \A i \in 1..L : \A m \in dependency[stack[i].node] :
             \/ m \in Searched \cup stack[i].left
             \/ i < L /\ m = stack[i + 1].node
    BY <1>1, <1>3, <1>4 DEF FreeInv
  <2>2. dependency[n] \subseteq Searched
    BY <1>4, <2>1
  <2>3. ~OnLoop(n)
    <3>1. CASE n \in Searched
      BY <2>1, <3>1
    <3>2. CASE n \notin Searched
      <4>1. Searched \in SUBSET Node
        BY <1>3
      <4>. QED BY <2>1, <2>2, <3>2, <4>1 DEF OnLoop, Reaches
    <3>. QED BY <3>1, <3>2
  <2>4. ASSUME NEW i \in 1..(L - 1), NEW m \in dependency[stack[i].node]
        PROVE  \/ m \in Searched \cup {n} \cup stack[i].left
               \/ i < L - 1 /\ m = stack[i + 1].node
    <3>1. m \in Searched \cup stack[i].left \/ m = stack[i + 1].node
      BY <1>9, <2>1, <2>4
    <3>2. CASE i = L - 1
      BY <1>4, <3>1, <3>2
    <3>3. CASE i + 1 \in 1..(L - 1)
      BY <1>4, <3>1, <3>3
    <3>. QED BY <1>9, <3>2, <3>3
  <2>. QED BY <2>1, <2>2, <2>3, <2>4
<1>. QED
  BY <1>1, <1>3, <1>10, <1>11, <1>12, <1>13, <1>14 DEF SearchInv, CompleteInv

LEMMA StepSearchInv ==
  ASSUME SearchInv, [Next]_vars
  PROVE  SearchInv'
<1>1. CASE UNCHANGED vars
  <2>1. UNCHANGED <<nodes, dependency, indeg, que, res, kahn, start, stack, loops, phase>>
    BY <1>1 DEF vars, graph
  <2>2. SortInv'
    BY StepSortInv DEF SearchInv
  <2>3. Sorted' = Sorted /\ Searched' = Searched /\ Elements(res)' = Elements(res)
    BY <2>1 DEF Sorted, Searched, Elements
  <2>4. \A n : OnStack(n)' <=> OnStack(n)
    BY <2>1 DEF OnStack
  <2>5. CompleteInv'
    BY <2>1, <2>3 DEF SearchInv, CompleteInv
  <2>6. ApartInv'
    BY <2>1, <2>3, SameReaches DEF SearchInv, ApartInv
  <2>7. PassedInv'
    BY <2>1, <2>3, <2>4 DEF SearchInv, PassedInv
  <2>8. PathInv' /\ NamedInv'
    BY <2>1, SameReaches DEF SearchInv, PathInv, NamedInv
  <2>9. FreeInv'
    BY <2>1, <2>3, SameReaches DEF SearchInv, FreeInv
  <2>. QED BY <2>1, <2>2, <2>5, <2>6, <2>7, <2>8, <2>9 DEF SearchInv, Elements
<1>2. CASE Pop
  BY <1>2, PopSearchInv
<1>3. CASE QueueEmpty
  BY <1>3, QueueEmptySearchInv
<1>4. CASE Start
  BY <1>4, StartSearchInv
<1>5. CASE AssertionFails \/ Finish
  BY <1>5, StopSearchInv
<1>6. CASE CloseLoop
  BY <1>6, CloseLoopSearchInv
<1>7. CASE Descend
  BY <1>7, DescendSearchInv
<1>8. CASE Return
  BY <1>8, ReturnSearchInv
<1>. QED BY <1>1, <1>2, <1>3, <1>4, <1>5, <1>6, <1>7, <1>8 DEF Next

-----------------------------------------------------------------------------
(* What follows when the sort has ended *)

\* Every definition is in the result when the sort has ended.
LEMMA AllInResult ==
  ASSUME SearchInv, phase = "done"
  PROVE  Elements(res) = Node
<1>1. /\ Elements(nodes) = Node /\ nodes \in Seq(Node) /\ start \in Nat /\ start > Len(nodes)
      /\ stack = <<>> /\ Elements(res) \subseteq Node
  BY ResultParts DEF SearchInv, SortInv, PassedInv
<1>2. \A i \in 1..Len(nodes) : i < start
  BY <1>1
<1>3. \A i \in 1..Len(nodes) : nodes[i] \in Elements(res)
  BY <1>1, <1>2 DEF SearchInv, PassedInv, OnStack
<1>4. Elements(nodes) \subseteq Elements(res)
  <2>. HIDE DEF Elements
  <2>1. \A n \in Elements(nodes) : \E i \in 1..Len(nodes) : n = nodes[i]
    BY DEF Elements
  <2>. QED BY <1>3, <2>1
<1>. QED BY <1>1, <1>4

LEMMA SearchNothingLost == SearchInv => NothingLost
<1>. SUFFICES ASSUME SearchInv, phase = "done" PROVE NothingLost
  BY DEF NothingLost
<1>1. Elements(res) = Node
  BY AllInResult
<1>2. ASSUME NEW i \in 1..Len(res), NEW j \in 1..Len(res), res[i] = res[j], i # j
      PROVE  OnLoop(res[i]) \/ \E m \in Node : OnLoop(m) /\ Reaches(m, res[i])
  <2>1. /\ kahn \in 0..Len(res) /\ Len(res) \in Nat /\ res[i] \in Node
        /\ dependency \in [Node -> SUBSET Node]
    BY DEF SearchInv, SortInv
  <2>2. res[i] \notin Sorted
    <3>1. ASSUME NEW a \in 1..kahn, NEW b \in 1..Len(res), res[a] = res[b], a # b
          PROVE  FALSE
      <4>1. CASE b \in 1..kahn
        <5>1. DependenciesFirst
          BY DEF SearchInv, SortInv
        <5>. QED BY <3>1, <4>1, <5>1 DEF DependenciesFirst
      <4>2. CASE b \in (kahn + 1)..Len(res)
        <5>1. res[b] \in Searched /\ res[a] \in Sorted
          BY <4>2 DEF Searched, Sorted
        <5>. QED BY <3>1, <5>1 DEF SearchInv, ApartInv
      <4>. QED BY <2>1, <4>1, <4>2
    <3>2. ASSUME res[i] \in Sorted PROVE FALSE
      <4>1. PICK a \in 1..kahn : res[a] = res[i]
        BY <3>2 DEF Sorted
      <4>. QED BY <1>2, <3>1, <4>1
    <3>. QED BY <3>2
  <2>3. \A n \in Node \ Sorted : Needs(n) \ Sorted # {}
    BY DEF SearchInv, ApartInv
  <2>. QED BY <2>1, <2>2, <2>3, LeftOverBehindLoop
<1>. QED BY <1>1, <1>2 DEF NothingLost

LEMMA SearchLoopsReported == SearchInv => LoopsReported
<1>. SUFFICES ASSUME SearchInv PROVE LoopsReported
  OBVIOUS
<1>1. NamedInv
  BY DEF SearchInv
<1>2. ASSUME phase = "done", loops = <<>>, NEW n \in Node, OnLoop(n) PROVE FALSE
  <2>1. n \in Sorted \cup Searched
    BY <1>2, AllInResult, ResultParts DEF SearchInv
  <2>2. SortInv /\ FreeInv
    BY DEF SearchInv
  <2>3. n \notin Sorted
    BY <1>2, <2>2, SortedOnNoLoop
  <2>. QED BY <1>2, <2>1, <2>2, <2>3 DEF FreeInv
<1>. QED BY <1>1, <1>2 DEF NamedInv, LoopsReported

\* When the sort has ended every definition is in the result, and only one that
\* lies on a loop or depends on one can be there twice: one call returns it and
\* another finds it again, since the search marks nothing.
THEOREM ResultNothingLost == Spec => []NothingLost
<1>1. Spec => []SearchInv
  BY InitSearchInv, StepSearchInv, PTL DEF Spec
<1>. QED BY <1>1, SearchNothingLost, PTL

\* A loop is reported if and only if there is one, and a report names
\* definitions of one loop only, each of which refers to the next.
THEOREM ReportedLoops == Spec => []LoopsReported
<1>1. Spec => []SearchInv
  BY InitSearchInv, StepSearchInv, PTL DEF Spec
<1>. QED BY <1>1, SearchLoopsReported, PTL

=============================================================================
