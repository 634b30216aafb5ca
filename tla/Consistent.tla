----------------------------- MODULE Consistent -----------------------------
(***************************************************************************)
(* is_consistent (consistent.py): may a value of type right be bound to    *)
(* what is declared as left?  And equiv (typesys.py, predefined.py), which *)
(* decides for invariant type parameters.                                  *)
(*                                                                         *)
(* All type parameters of a class have the same variance.  Literals as     *)
(* type arguments are left out: equiv of a literal does not take the       *)
(* argument relax and raises a TypeError.                                  *)
(***************************************************************************)
EXTENDS Types, Integers, SequencesExt

CONSTANTS
  MroOf,    \* class -> its method resolution order, as classes
  Supers,   \* class -> itself and its ancestors, with the arguments as written
  Kind,     \* class -> the variance of its type parameters
  Arity,    \* class -> their number, -1 for any number
  ClassOf,  \* value of a literal -> its class
  Equal     \* the pairs of different literals that are equal for Python

ArityOf(t) == CASE t.kind = "class" -> Arity[t.temp]
                [] t.kind = "union" -> -1
                [] t.kind = "optional" -> 1
                [] OTHER -> 0

\* The bindlist, a missing element being Any.
SafeBinds(t) ==
  IF ArityOf(t) = -1 THEN t.bind
  ELSE [i \in 1..ArityOf(t) |-> IF i <= Len(t.bind) THEN t.bind[i] ELSE AnyIns]

\* TypeIns.equiv.  If there may be any number of parameters they are not
\* compared at all, as the loop runs over range(-1).
RECURSIVE Equiv(_, _)
Equiv(l, r) ==
  /\ l.kind = r.kind /\ l.temp = r.temp
  /\ \A i \in 1..ArityOf(l) : Equiv(SafeBinds(l)[i], SafeBinds(r)[i])

EquivRelaxed(l, r) == AnyIns \in {l, r} \/ Equiv(l, r)

RECURSIVE Nullable(_)
Nullable(t) ==
  \/ t.kind \in {"none", "any", "optional"}
  \/ t.kind = "union" /\ \E i \in DOMAIN t.bind : Nullable(t.bind[i])

RECURSIVE IsConsistent(_, _)

\* consistent_with_tpvar
WithTypeVar(l, r, kind) ==
  CASE kind = "invariant" -> EquivRelaxed(l, r)
    [] kind = "covariant" -> IsConsistent(l, r)
    [] kind = "contravariant" -> IsConsistent(r, l)

\* cls_consistent: by the first class of that name in the order of right, which
\* holds default instances: their arguments are Any.
RECURSIVE ClassConsistent(_, _)
ClassConsistent(l, r) ==
  IF l.temp # r.temp
  THEN l.temp \in ToSet(MroOf[r.temp]) /\ ClassConsistent(l, Class(l.temp))
  ELSE LET lefts == SafeBinds(l)
           rights == SafeBinds(r)
       IN  /\ Len(lefts) = Len(rights)
           /\ \A i \in DOMAIN lefts : WithTypeVar(lefts[i], rights[i], Kind[l.temp])

\* The cases in the order of the code; each disjunct has the conditions under
\* which the code gets there and answers True.
IsConsistent(l, r) ==
  \/ AnyIns \in {l, r}
  \/ /\ AnyIns \notin {l, r} /\ NoneIns \in {l, r}
     /\ Nullable(IF l = NoneIns THEN r ELSE l)
  \/ /\ {AnyIns, NoneIns} \cap {l, r} = {}
     /\ \/ l.kind = "class" /\ r.kind = "class" /\ ClassConsistent(l, r)
        \/ l.kind = "type" /\ r.kind = "type" /\ l.temp = r.temp
        \/ /\ l.kind = "class" /\ r.kind = "union"
           /\ \A i \in DOMAIN r.bind : IsConsistent(l, r.bind[i])
        \/ /\ l.kind = "class" /\ r.kind = "literal"
           /\ IsConsistent(l, Class(ClassOf[r.temp]))
        \/ /\ l.kind = "union" /\ r.kind # "type"
           /\ \E i \in DOMAIN l.bind : IsConsistent(l.bind[i], r)
        \/ l.kind = "optional" /\ r.kind # "type" /\ IsConsistent(l.bind[1], r)
        \/ /\ l.kind = "literal" /\ r.kind = "literal"
           /\ l.temp = r.temp \/ {l.temp, r.temp} \in Equal

-----------------------------------------------------------------------------
(* The reference, PEP 484: every value that right allows is one that left    *)
(* allows.                                                                   *)

RECURSIVE Members(_)
Members(t) ==
  CASE t.kind = "union" -> UNION {Members(t.bind[i]) : i \in DOMAIN t.bind}
    [] t.kind = "optional" -> {NoneIns} \cup Members(t.bind[1])
    [] OTHER -> {t}

RECURSIVE Assignable(_, _)

Inherits(r, l) ==
  \E super \in Supers[r.temp] :
    LET lefts == SafeBinds(l)
        rights == SafeBinds(IF l.temp = r.temp THEN r ELSE super)
    IN  /\ super.temp = l.temp /\ Len(lefts) = Len(rights)
        /\ \A j \in DOMAIN lefts :
             /\ Kind[l.temp] # "contravariant" => Assignable(lefts[j], rights[j])
             /\ Kind[l.temp] # "covariant" => Assignable(rights[j], lefts[j])

Covers(n, m) ==
  \/ n = m \/ AnyIns \in {n, m}
  \/ n.kind = "class" /\ m.kind = "class" /\ Inherits(m, n)
  \/ n.kind = "class" /\ m.kind = "literal" /\ Inherits(Class(ClassOf[m.temp]), n)
  \/ n.kind = "type" /\ m.kind = "type" /\ Inherits(Class(m.temp), Class(n.temp))

Assignable(l, r) ==
  l = AnyIns \/ r = AnyIns \/ \A m \in Members(r) : \E n \in Members(l) : Covers(n, m)

-----------------------------------------------------------------------------
(* Where they differ                                                         *)

Alternatives(t) == t.kind \in {"union", "optional"}

\* None, alone or in a union, lets everything pass that may be None; unions that
\* are type arguments are not compared; a base class has lost its arguments;
\* literals are compared by value.
TooLoose(l, r) ==
  \/ Alternatives(r) /\ (l = NoneIns \/ (l.kind = "union" /\ NoneIns \in ToSet(l.bind)))
  \/ \E i \in DOMAIN l.bind \cap DOMAIN r.bind :
       l.kind = "class" /\ l.bind[i].kind = "union" /\ r.bind[i].kind = "union"
  \/ l.kind = "class" /\ l.bind # <<>> /\ r.temp # l.temp
  \/ {l.temp, r.temp} \in Equal

\* A union or optional takes no union, no optional and no class object; a class
\* object takes none of a subclass.
TooStrict(l, r) ==
  \/ Alternatives(l) /\ (Alternatives(r) \/ r.kind = "type")
  \/ l.kind = "type" /\ r.kind = "type" /\ l # r
=============================================================================
