---------------------------- MODULE ClassResolve ----------------------------
(***************************************************************************)
(* The classes of a batch: the dependency graph that is made of them       *)
(* (preprocess/dependency.py), their resolution in the order of TopoSort,  *)
(* once shallow and once deep (preprocess/preprocessor.py, resolve_cls.py),*)
(* the method resolution order that this caches (typesys.py), and the      *)
(* search for methods in nested classes.                                   *)
(*                                                                         *)
(* A class is the number of its statement in the text.  Bases that are not *)
(* classes of the batch (Any, classes analysed before) are left out, and   *)
(* so are type parameters, which get_mro does not look at.                 *)
(***************************************************************************)
EXTENDS TopoSort, SequencesExt

CONSTANT
  Programs  \* [owner |-> the enclosing class, 0 for none; bases |-> as written]

ASSUME ProgramAssumption ==
  /\ Node \subseteq Nat \ {0}
  /\ Programs \subseteq [owner : [Node -> Node \cup {0}], bases : [Node -> Seq(Node)]]
  /\ \A p \in Programs, c \in Node : p.owner[c] < c

VARIABLES
  program,
  baseclass,  \* TypeClassTemp.baseclass
  mro,        \* TypeClassTemp.mro, empty for None
  complete,   \* the classes with stage PREP_COMPLETE
  pass,       \* "shallow", "deep", "methods" or "resolved"
  at,         \* position in the resolve order
  prepinfos,  \* the deque of resolve_cls_method, as classes; 0 is the module
  typed       \* the classes whose functions have got a type, as a list

classVars == <<program, baseclass, mro, complete, pass, at, prepinfos, typed>>
allVars == <<vars, classVars>>

-----------------------------------------------------------------------------
(* The dependency graph *)

Sorted(S) == SetToSortSeq(S, <)
Inner(p, c) == {d \in Node : p.owner[d] = c}

\* The enclosing classes of c, itself first, and how deep it stands.
Enclosing(p, c) ==
  LET out[d \in Node] == IF p.owner[d] = 0 THEN <<d>> ELSE <<d>> \o out[p.owner[d]]
  IN  out[c]
Root(p, c) == Last(Enclosing(p, c))
Depth(p, c) == Len(Enclosing(p, c))

\* What a top-level class makes itself and every class inside it depend on:
\* the first names of the base expressions of its own statement.
FirstNames(p, c) == LET b == p.bases[Root(p, c)] IN [i \in DOMAIN b |-> Root(p, b[i])]

\* Mutation of DependsOn: a class does not depend on its bases.
DependsOnInner(p, c) == Inner(p, c)

DependsOn(p, c) == ToSet(FirstNames(p, c)) \cup Inner(p, c)

\* create_cls_dependency for each top-level class: the classes in the order
\* in which the graph first hears of them.
Tree(p, t) ==
  SetToSortSeq({c \in Node : Root(p, c) = t},
               LAMBDA c, d : IF Depth(p, c) = Depth(p, d) THEN c < d
                             ELSE Depth(p, c) < Depth(p, d))
Mentions(p) ==
  LET ofClass(c) == <<c>> \o FirstNames(p, c) \o Sorted(Inner(p, c))
      ofTree(t) == LET tree == Tree(p, t)
                   IN  FlattenSeq([i \in DOMAIN tree |-> ofClass(tree[i])])
      top == Sorted(Inner(p, 0))
  IN  FlattenSeq([i \in DOMAIN top |-> ofTree(top[i])])

\* The elements of s where they stand first.
Once(s) == FoldLeft(LAMBDA r, x : IF Contains(r, x) THEN r ELSE Append(r, x), <<>>, s)

-----------------------------------------------------------------------------
(* Resolution *)

ClassInit ==
  /\ program \in Programs
  /\ nodes = Once(Mentions(program))
  /\ dependency = [m \in Node |-> {n \in Node : m \in DependsOn(program, n)}]
  /\ Init
  /\ baseclass = [c \in Node |-> <<>>] /\ mro = baseclass /\ complete = {}
  /\ pass = "shallow" /\ at = 1 /\ prepinfos = <<>> /\ typed = <<>>

\* The instances that resolve_cls puts in baseclass: one of each base, and
\* never the class itself.
Declared(c) == Once(SelectSeq(program.bases[c], LAMBDA b : b # c))

\* Mutation of Merge: every list that is left gives its head in turn, so that
\* a class comes after the first class of each base.
MergeHeads(lists) ==
  Once([i \in DOMAIN lists |-> Head(lists[i])] \o FlattenSeq(lists))

\* The merge of get_mro.  No break leaves the loop over j that looks for a
\* head in the rest of the other lists: its else part always runs, so the next
\* class is always the head of the first list that is left.
Merge(lists) == Once(FlattenSeq(lists))

\* get_mro of c when the base classes are b: what it caches, for c and for
\* those it is called on recursively.
RECURSIVE WithMro(_, _, _)
WithMro(c, b, cached) ==
  IF cached[c] # <<>> THEN cached
  ELSE LET filled == FoldLeft(LAMBDA m, d : WithMro(d, b, m), cached, b[c])
           lists == [i \in DOMAIN b[c] |-> filled[b[c][i]]] \o <<b[c]>>
       IN  [filled EXCEPT ![c] = <<c>> \o Merge(SelectSeq(lists, LAMBDA l : l # <<>>))]

\* A definition that the deep pass meets again, being on a loop, is left alone.
Settled(c) == c \in complete

\* resolve() of the next definition.  Only the deep pass completes a class.
Resolve ==
  /\ phase = "done" /\ pass \in {"shallow", "deep"} /\ at <= Len(res)
  /\ LET c == res[at]
     IN  IF Settled(c)
         THEN UNCHANGED <<baseclass, mro, complete>>
         ELSE /\ baseclass' = [baseclass EXCEPT ![c] = Declared(c)]
              /\ mro' = WithMro(c, baseclass', mro)
              /\ complete' = IF pass = "deep" THEN complete \cup {c} ELSE complete
  /\ at' = at + 1
  /\ UNCHANGED <<vars, program, pass, prepinfos, typed>>

\* Mutation of Again: the deep pass leaves out the first definition.
AgainFromSecond ==
  /\ phase = "done" /\ pass = "shallow" /\ at > Len(res)
  /\ pass' = "deep" /\ at' = 2
  /\ UNCHANGED <<vars, program, baseclass, mro, complete, prepinfos, typed>>

Again ==
  /\ phase = "done" /\ pass = "shallow" /\ at > Len(res)
  /\ pass' = "deep" /\ at' = 1
  /\ UNCHANGED <<vars, program, baseclass, mro, complete, prepinfos, typed>>

FindMethods ==
  /\ phase = "done" /\ pass = "deep" /\ at > Len(res)
  /\ pass' = "methods" /\ prepinfos' = <<0>>
  /\ UNCHANGED <<vars, program, baseclass, mro, complete, at, typed>>

\* One turn of resolve_cls_method: the classes of a prepinfo get the types of
\* their functions; the prepinfos of the classes inside them are queued.
TypeMethods ==
  /\ pass = "methods" /\ prepinfos # <<>>
  /\ LET classes == Sorted(Inner(program, Head(prepinfos)))
         inner == [i \in DOMAIN classes |-> Sorted(Inner(program, classes[i]))]
     IN  /\ typed' = typed \o classes
         /\ prepinfos' = Tail(prepinfos) \o FlattenSeq(inner)
  /\ UNCHANGED <<vars, program, baseclass, mro, complete, pass, at>>

AllResolved ==
  /\ pass = "methods" /\ prepinfos = <<>>
  /\ pass' = "resolved"
  /\ UNCHANGED <<vars, program, baseclass, mro, complete, at, prepinfos, typed>>

Sort == Next /\ UNCHANGED classVars
ClassNext == Sort \/ Resolve \/ Again \/ FindMethods \/ TypeMethods \/ AllResolved

ClassSpec == ClassInit /\ [][ClassNext]_allVars /\ WF_allVars(ClassNext)

-----------------------------------------------------------------------------
(* What inference asks of a resolved class.  S are the classes that define   *)
(* an attribute in their bodies, V those whose methods assign it to self     *)
(* (TypeClassTemp.var_attr).                                                 *)

NoAttribute == <<0, "none">>
AnyAttribute == <<0, "any">>

\* TypeClassIns.getattribute: x.name where x: c.  get_local_attr looks in
\* var_attr first.
InstanceAttribute(c, S, V) ==
  LET found == SelectSeq(mro[c], LAMBDA d : d \in S \cup V)
  IN  IF found = <<>> THEN NoAttribute
      ELSE <<Head(found), IF Head(found) \in V THEN "self" ELSE "class">>

\* The answer of a base class, whose getattribute is that of an instance: Any,
\* if it does not have the attribute.
BaseAttribute(b, S, V) ==
  LET found == InstanceAttribute(b, S, V)
  IN  IF found = NoAttribute THEN AnyAttribute ELSE found

\* Mutation of TypeAttribute: the last base class comes first.
TypeAttributeLast(c, S, V) ==
  IF c \in S THEN <<c, "class">>
  ELSE IF baseclass[c] = <<>> THEN NoAttribute
  ELSE BaseAttribute(Last(baseclass[c]), S, V)

\* TypeClassTemp.get_type_attribute: c.name.  Each base class has an answer, so
\* the first one always ends the loop.
TypeAttribute(c, S, V) ==
  IF c \in S THEN <<c, "class">>
  ELSE IF baseclass[c] = <<>> THEN NoAttribute
  ELSE BaseAttribute(Head(baseclass[c]), S, V)

\* cls_consistent without type parameters: may a value of class right be bound
\* to a variable of class left?
Consistent(left, right) == left = right \/ Contains(mro[right], left)

-----------------------------------------------------------------------------
(* Properties *)

\* c and all its ancestors.
Upward(c) ==
  LET up[i \in 0..Cardinality(Node)] ==
        IF i = 0 THEN {c}
        ELSE up[i - 1] \cup UNION {ToSet(program.bases[d]) : d \in up[i - 1]}
  IN  up[Cardinality(Node)]

Resolved == pass = "resolved" /\ loops = <<>>

\* Some ancestor of c is reached over more than one base class.
InheritedTwice(c) ==
  \E d \in Upward(c) : \E i, j \in DOMAIN program.bases[d] :
    i # j /\ Upward(program.bases[d][i]) \cap Upward(program.bases[d][j]) # {}

\* An inner class, whose bases the graph does not know, may have been resolved
\* before one of them and have fixed the method resolution order of that one.
ReadTooEarly(c) ==
  \E inner \in Node : /\ program.owner[inner] # 0
                      /\ \E b \in ToSet(program.bases[inner]) :
                           b \in Upward(c) /\ program.bases[b] # <<>>

\* The linearization that Python makes; -1 in it if there is none.
RECURSIVE C3Merge(_)
C3Merge(lists) ==
  LET left == SelectSeq(lists, LAMBDA l : l # <<>>)
      good == {i \in DOMAIN left : \A j \in DOMAIN left :
                 ~Contains(Tail(left[j]), Head(left[i]))}
  IN  IF left = <<>> THEN <<>>
      ELSE IF good = {} THEN <<-1>>
      ELSE LET next == Head(left[Min(good)])
           IN  <<next>> \o C3Merge([j \in DOMAIN left |-> Remove(left[j], next)])
RECURSIVE C3(_)
C3(c) ==
  LET b == program.bases[c]
  IN  <<c>> \o C3Merge([i \in DOMAIN b |-> C3(b[i])] \o <<b>>)

\* get_mro claims to be the C3 algorithm.
MroIsC3 == Resolved => \A c \in Node : Contains(C3(c), -1) \/ mro[c] = C3(c)

\* It is, up to two causes: an ancestor that is inherited over several base
\* classes, and an inner class that is resolved before its base class.
MroExplained ==
  Resolved => \A c \in Node :
    \/ Contains(C3(c), -1) \/ mro[c] = C3(c)
    \/ InheritedTwice(c) \/ ReadTooEarly(c)

\* A value can be bound to a variable of each ancestor of its class and of no
\* other class: the cached order was read when all of them were known.
AssignableToAncestors ==
  Resolved => \A b, c \in Node :
    ReadTooEarly(c) \/ (Consistent(b, c) <=> b \in Upward(c))

\* An attribute that is found through the class is what its instances have,
\* unless a method of the class itself has assigned it to self; what a method of
\* a base class has assigned is found either way.
ClassAndInstanceAgree ==
  Resolved => \A c \in Node, S \in SUBSET Node :
    \A V \in {{}} \cup {{d} : d \in Node \ {c}} :
      \/ ReadTooEarly(c)
      \/ TypeAttribute(c, S, V) \in {AnyAttribute, InstanceAttribute(c, S, V)}

\* With loops in the batch too, every class ends up complete, with the base
\* classes that stand in the text, and with an order that starts with itself
\* and holds ancestors only, none twice.
EveryClassResolved ==
  pass = "resolved" => \A c \in Node :
    /\ c \in complete /\ baseclass[c] = Declared(c)
    /\ Head(mro[c]) = c /\ ToSet(mro[c]) \subseteq Upward(c)
    /\ Once(mro[c]) = mro[c]

\* Inference takes for granted that every method has got its type.
EveryMethodTyped == pass = "resolved" => ToSet(typed) = Node

\* Sort, both passes and the search for methods come to an end, or an assertion
\* of the sort fails.
ClassesEnd == <>(pass = "resolved" \/ phase = "failed")
=============================================================================
