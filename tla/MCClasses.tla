------------------------------ MODULE MCClasses ------------------------------
(***************************************************************************)
(* Four classes that only refer to what stands above them and is closed,   *)
(* nested in all ways: programs that run.  And a class followed by three   *)
(* that refer to each other in all ways, loops included; and two loops.    *)
(***************************************************************************)
EXTENDS ClassResolve

CONSTANT MaxBases  \* bound on the bases of a class

MCNode == 1..4
Lists(S) == {s \in BoundedSeq(S, MaxBases) : IsInjective(s)}

\* A class stands in one that is still open.
Nestings ==
  {o \in [MCNode -> 0..3] :
     \A c \in MCNode :
       /\ o[c] < c
       /\ c > 1 => o[c] \in {0} \cup ToSet(Enclosing([owner |-> o], c - 1))}

Running ==
  {p \in [owner : Nestings,
          bases : {<<<<>>, b, c, d>> : b \in Lists(1..1), c \in Lists(1..2), d \in Lists(1..3)}] :
     \A c \in MCNode : ToSet(p.bases[c]) \cap ToSet(Enclosing(p, c)) = {}}

Looping ==
  [owner : {[c \in MCNode |-> 0]},
   bases : {<<<<>>, b, c, d>> : b \in Lists(2..4), c \in Lists(2..4), d \in Lists(2..4)}]

\* Two loops, the second one reached from the first.
TwoLoops ==
  [owner : {[c \in MCNode |-> 0]},
   bases : {<<<<2>>, <<1>>, c, d>> : c \in Lists({2, 4}), d \in Lists({2, 3})}]

MCPrograms == Running \cup Looping \cup TwoLoops
MCGraphs == [MCNode -> SUBSET MCNode]
=============================================================================
