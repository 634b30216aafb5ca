-------------------------- MODULE DefinitionsProofs --------------------------
(***************************************************************************)
(* The tables of a block, for every set of names, every kind of block and  *)
(* programs of any length and nesting: which statement has a name, what is *)
(* reported of the others, and what inference skips.                       *)
(***************************************************************************)
EXTENDS Definitions, SequenceTheorems, WellFoundedInduction, TLAPS

-----------------------------------------------------------------------------
(* The priority of definitions, as a relation between what the tables have *)
(* for a name and the lines that define it                                 *)

\* c, f and l are what cls, func and local have; C, D, S and W the lines of the
\* classes, functions, annotated and other assignments.
Shape(c, f, l, C, D) ==
  /\ IsFirst(c, C)
  /\ C # {} => f = <<>> /\ l = 0
  /\ C = {} => /\ {f[i] : i \in DOMAIN f} = D
               /\ \A i, j \in DOMAIN f : i < j => f[i] < f[j]
               /\ D # {} => l = 0

Assigned(l, S, W) == IF S # {} THEN IsFirst(l, S) ELSE IsFirst(l, W)

\* The statement at line h is a class, after those in C.
LEMMA ShapeClass ==
  ASSUME NEW h \in Nat, h # 0, NEW C \in SUBSET Nat, NEW D,
         \A m \in C : m < h /\ m # 0, NEW c \in Nat, NEW f \in Seq(Nat), NEW l,
         Shape(c, f, l, C, D)
  PROVE  /\ c # 0 => Shape(c, f, l, C \cup {h}, D)
         /\ c = 0 => /\ C = {}
                     /\ Shape(h, IF l # 0 THEN f ELSE <<>>, 0, C \cup {h}, D)
<1>1. IsFirst(c, C) /\ (c = 0 <=> C = {})
  BY DEF Shape, IsFirst
<1>2. ASSUME c # 0 PROVE Shape(c, f, l, C \cup {h}, D)
  <2>1. IsFirst(c, C \cup {h})
    BY <1>1, <1>2 DEF IsFirst
  <2>. QED BY <1>1, <1>2, <2>1 DEF Shape
<1>3. ASSUME c = 0 PROVE Shape(h, IF l # 0 THEN f ELSE <<>>, 0, C \cup {h}, D)
  <2>1. IsFirst(h, C \cup {h})
    BY <1>1, <1>3 DEF IsFirst
  <2>2. (IF l # 0 THEN f ELSE <<>>) = <<>>
    <3>. SUFFICES ASSUME l # 0 PROVE f = <<>>
      OBVIOUS
    <3>1. {f[i] : i \in DOMAIN f} = {}
      BY <1>1, <1>3 DEF Shape
    <3>2. DOMAIN f = {}
      BY <3>1
    <3>. QED BY <3>2
  <2>. QED BY <2>1, <2>2 DEF Shape
<1>. QED BY <1>1, <1>2, <1>3

\* The statement at line h defines a function.
LEMMA ShapeFunction ==
  ASSUME NEW h \in Nat, NEW C, NEW D \in SUBSET Nat, \A m \in D : m < h,
         NEW c, NEW f \in Seq(Nat), NEW l, Shape(c, f, l, C, D),
         0 \notin C
  PROVE  /\ f = <<>> /\ c # 0 => Shape(c, f, l, C, D \cup {h})
         /\ f = <<>> /\ c = 0 => Shape(c, <<h>>, 0, C, D \cup {h})
         /\ f # <<>> => Shape(c, Append(f, h), l, C, D \cup {h})
<1>1. IsFirst(c, C) /\ (c = 0 <=> C = {})
  BY DEF Shape, IsFirst
<1>2. ASSUME f = <<>>, c # 0 PROVE Shape(c, f, l, C, D \cup {h})
  BY <1>1, <1>2 DEF Shape
<1>3. ASSUME f = <<>>, c = 0 PROVE Shape(c, <<h>>, 0, C, D \cup {h})
  <2>1. D = {}
    BY <1>1, <1>3 DEF Shape
  <2>2. DOMAIN <<h>> = {1} /\ <<h>>[1] = h
    OBVIOUS
  <2>. QED BY <1>1, <1>3, <2>1, <2>2 DEF Shape
<1>4. ASSUME f # <<>> PROVE Shape(c, Append(f, h), l, C, D \cup {h})
  <2>1. C = {} /\ {f[i] : i \in DOMAIN f} = D /\ (\A i, j \in DOMAIN f : i < j => f[i] < f[j])
    BY <1>4 DEF Shape
  <2>2. l = 0
    <3>1. 1 \in DOMAIN f
      BY <1>4
    <3>2. D # {}
      BY <2>1, <3>1
    <3>. QED BY <2>1, <3>2 DEF Shape
  <2>. DEFINE g == Append(f, h)
  <2>3. /\ DOMAIN g = DOMAIN f \cup {Len(f) + 1} /\ g[Len(f) + 1] = h
        /\ \A i \in DOMAIN f : g[i] = f[i] /\ i < Len(f) + 1 /\ f[i] < h
        /\ Len(f) \in Nat /\ DOMAIN f \subseteq Nat
    BY <2>1
  <2>. HIDE DEF g
  <2>4. {g[i] : i \in DOMAIN g} = D \cup {h}
    BY <2>1, <2>3
  <2>5. \A i, j \in DOMAIN g : i < j => g[i] < g[j]
    BY <2>1, <2>3
  <2>6. Shape(c, g, l, C, D \cup {h})
    BY <1>1, <2>1, <2>2, <2>4, <2>5 DEF Shape
  <2>. QED BY <2>6 DEF g
<1>. QED BY <1>2, <1>3, <1>4

\* The statement at line h assigns to a name that is neither a class nor a
\* function.
LEMMA AssignedStrong ==
  ASSUME NEW h \in Nat, NEW S \in SUBSET Nat, NEW W \in SUBSET Nat,
         \A m \in S \cup W : m < h, S \cap W = {}, 0 \notin S \cup W,
         NEW l \in Nat, Assigned(l, S, W)
  PROVE  Assigned(IF l \in S THEN l ELSE h, S \cup {h}, W)
<1>1. CASE S # {}
  BY <1>1 DEF Assigned, IsFirst
<1>2. CASE S = {}
  BY <1>2 DEF Assigned, IsFirst
<1>. QED BY <1>1, <1>2

LEMMA AssignedWeak ==
  ASSUME NEW h \in Nat, NEW S \in SUBSET Nat, NEW W \in SUBSET Nat,
         \A m \in S \cup W : m < h, 0 \notin S \cup W,
         NEW l \in Nat, Assigned(l, S, W)
  PROVE  Assigned(IF l # 0 THEN l ELSE h, S, W \cup {h})
<1>1. CASE S # {}
  BY <1>1 DEF Assigned, IsFirst
<1>2. CASE S = {} /\ W # {}
  BY <1>2 DEF Assigned, IsFirst
<1>3. CASE S = {} /\ W = {}
  BY <1>3 DEF Assigned, IsFirst
<1>. QED BY <1>1, <1>2, <1>3

-----------------------------------------------------------------------------
(* Types, and what a statement adds to the program *)

Table(V) == [Scope -> [Name -> V]]
EntryKind == {"none", "class", "local", "func", "import"}

TypesInv ==
  /\ block \in BlockKind
  /\ prog \in Seq(Statement) /\ Len(prog) <= MaxLine
  /\ scope \in Scope /\ within \in Seq(Line)
  /\ cls \in Table(Nat) /\ local \in Table(Nat) /\ impt \in Table(Nat)
  /\ func \in Table(Seq(Nat))
  /\ entry \in Table([kind : EntryKind, line : Nat])
  /\ phase \in {"define", "resolved", "dumped"}

\* The paths of classes: the names of the open ones, from the outermost in.
LEMMA ScopeProperties ==
  /\ \A s : s \in Scope <=> s \in Seq(Name) /\ Len(s) <= MaxDepth
  /\ <<>> \in Scope
<1>1. MaxDepth \in Nat
  BY BlocksAssumption
<1>2. ASSUME NEW s \in Scope PROVE s \in Seq(Name) /\ Len(s) <= MaxDepth
  <2>1. PICK d \in 0..MaxDepth : s \in [1..d -> Name]
    BY DEF Scope
  <2>. QED BY <1>1, <2>1
<1>3. ASSUME NEW s \in Seq(Name), Len(s) <= MaxDepth PROVE s \in Scope
  <2>1. s \in [1..Len(s) -> Name] /\ Len(s) \in 0..MaxDepth
    BY <1>1, <1>3
  <2>. QED BY <2>1 DEF Scope
<1>4. <<>> \in Seq(Name) /\ Len(<<>>) <= MaxDepth
  BY <1>1
<1>. QED BY <1>2, <1>3, <1>4

LEMMA LinesProperties ==
  ASSUME TypesInv, NEW s, NEW n, NEW K
  PROVE  /\ Lines(s, n, K) \in SUBSET Nat /\ Lines(s, n, K) \subseteq 1..Len(prog)
         /\ \A l \in Lines(s, n, K) : l < Here /\ l # 0
         /\ 0 \notin Lines(s, n, K) /\ Here \in Nat \ {0} /\ Here \notin Lines(s, n, K)
BY DEF TypesInv, Lines, Here

\* The next statement of the program.
LEMMA VisitFacts ==
  ASSUME TypesInv, NEW kind \in Kind, NEW names \in SUBSET Name, Visit(kind, names)
  PROVE  /\ phase = "define" /\ block' = block
         /\ prog' \in Seq(Statement) /\ Len(prog') <= MaxLine /\ Len(prog') = Here
         /\ Here \in Line /\ Here \in Nat \ {0} /\ Here = Len(prog) + 1 /\ Len(prog) \in Nat
         /\ \A l \in 1..Len(prog) : prog'[l] = prog[l]
         /\ prog'[Here].kind = kind /\ prog'[Here].scope = scope /\ prog'[Here].names = names
<1>. DEFINE new == [kind |-> kind, scope |-> scope, names |-> names,
                    within |-> {within[i] : i \in DOMAIN within}]
<1>1. /\ phase = "define" /\ block' = block /\ Len(prog) < MaxLine /\ prog' = Append(prog, new)
  BY DEF Visit
<1>2. new \in Statement
  <2>1. {within[i] : i \in DOMAIN within} \in SUBSET Line
    BY DEF TypesInv
  <2>. QED BY <2>1 DEF TypesInv, Statement
<1>3. new.kind = kind /\ new.scope = scope /\ new.names = names
  OBVIOUS
<1>4. prog \in Seq(Statement) /\ MaxLine \in Nat /\ Len(prog) \in Nat
  BY BlocksAssumption DEF TypesInv
<1>. HIDE DEF new
<1>5. /\ prog' \in Seq(Statement) /\ Len(prog') = Len(prog) + 1
      /\ \A l \in 1..Len(prog) : prog'[l] = prog[l]
      /\ prog'[Len(prog) + 1] = new
  BY <1>1, <1>2, <1>4
<1>. QED BY <1>1, <1>3, <1>4, <1>5 DEF Here, Line

LEMMA VisitLines ==
  ASSUME TypesInv, NEW kind \in Kind, NEW names \in SUBSET Name, Visit(kind, names),
         NEW s, NEW n, NEW K
  PROVE  /\ s = scope /\ n \in names /\ kind \in K
            => Lines(s, n, K)' = Lines(s, n, K) \cup {Here}
         /\ ~(s = scope /\ n \in names /\ kind \in K) => Lines(s, n, K)' = Lines(s, n, K)
<1>1. PICK h : h = Here
  OBVIOUS
<1>2. /\ Len(prog') = h /\ h = Len(prog) + 1 /\ Len(prog) \in Nat
      /\ \A l \in 1..Len(prog) : prog'[l] = prog[l]
      /\ prog'[h].kind = kind /\ prog'[h].scope = scope /\ prog'[h].names = names
  BY <1>1, VisitFacts
<1>3. 1..Len(prog') = 1..Len(prog) \cup {h} /\ h \notin 1..Len(prog)
  BY <1>2
<1>. QED BY <1>1, <1>2, <1>3 DEF Lines

\* Without a new statement the lines stay as they are.
LEMMA SameLines ==
  ASSUME prog' = prog
  PROVE  \A s, n, K : Lines(s, n, K)' = Lines(s, n, K)
BY DEF Lines


LEMMA InitTypesInv == Init => TypesInv
<1>. SUFFICES ASSUME Init PROVE TypesInv
  OBVIOUS
<1>1. /\ block \in BlockKind /\ prog = <<>> /\ within = <<>> /\ scope = <<>>
      /\ phase = "define"
  BY BlocksAssumption DEF Init
<1>2. cls \in Table(Nat) /\ local \in Table(Nat) /\ impt \in Table(Nat)
  BY DEF Init, Table
<1>3. func \in Table(Seq(Nat))
  BY DEF Init, Table
<1>4. entry \in Table([kind : EntryKind, line : Nat])
  <2>1. NoEntry \in [kind : EntryKind, line : Nat]
    BY DEF NoEntry, Entry, EntryKind
  <2>. QED BY <2>1 DEF Init, Table
<1>5. Len(prog) <= MaxLine
  BY <1>1, BlocksAssumption
<1>. QED BY <1>1, <1>2, <1>3, <1>4, <1>5, ScopeProperties DEF TypesInv

\* The path and the lines of the classes that are open.
LEMMA EnterClassTypes ==
  ASSUME TypesInv, NEW n \in Name, EnterClass(n), Here \in Line
  PROVE  scope' \in Scope /\ within' \in Seq(Line)
<1>1. scope \in Seq(Name) /\ Len(scope) < MaxDepth /\ MaxDepth \in Nat /\ within \in Seq(Line)
  BY ScopeProperties, BlocksAssumption DEF TypesInv, EnterClass
<1>2. /\ Append(scope, n) \in Seq(Name) /\ Len(Append(scope, n)) <= MaxDepth
      /\ Append(within, Here) \in Seq(Line)
  BY <1>1
<1>3. scope' = Append(scope, n) /\ within' = Append(within, Here)
  BY DEF EnterClass
<1>. QED BY <1>2, <1>3, ScopeProperties

-----------------------------------------------------------------------------
(* The inductive invariant, place by place: a place is a PrepInfo and a    *)
(* name                                                                    *)

Classes(s, n) == Lines(s, n, {"class"})
Defs(s, n) == Lines(s, n, {"def", "overload"})
Strong(s, n) == Lines(s, n, {"annotated"})
Weak(s, n) == Lines(s, n, {"assign"})
Reserved(s, n) == s = <<>> /\ (n \in block.outside \/ block.special)

Placed(s, n) ==
  /\ Shape(cls[s][n], func[s][n], local[s][n], Classes(s, n), Defs(s, n))
  /\ Classes(s, n) = {} /\ Defs(s, n) = {} /\ ~Reserved(s, n) =>
       Assigned(local[s][n], Strong(s, n), Weak(s, n))

\* The lines that have the name, and those that an error of that name names.
Owners(s, n) ==
  {cls[s][n], local[s][n]} \cup {func[s][n][i] : i \in DOMAIN func[s][n]}
Named(n) == {e.node : e \in {e \in errors : e.name = n}}
            \cup {e.old : e \in {e \in errors : e.name = n}}

Accounted(s, n) ==
  /\ Classes(s, n) \subseteq Owners(s, n) \cup Named(n)
  /\ ~Reserved(s, n) => Strong(s, n) \subseteq Owners(s, n) \cup Named(n)
  /\ \A l \in Defs(s, n) : IsFirst(l, Defs(s, n)) => l \in Owners(s, n) \cup Named(n)

\* As long as the functions are not resolved, what is marked is superseded by a
\* class.
Marked(s, n) ==
  \A l \in Defs(s, n) :
    /\ phase = "define" /\ l \in redefined => cls[s][n] # 0
    /\ l \in redefined =>
         cls[s][n] # 0 \/ \E m \in Lines(s, n, {"def"}) \ redefined : m < l
    /\ cls[s][n] # 0 /\ IsFirst(l, Defs(s, n)) => l \in redefined

\* Before dump() the symbol table has the classes.
Registered(s, n) ==
  phase # "dumped" =>
    /\ cls[s][n] # 0 => entry[s][n] = Entry("class", cls[s][n])
    /\ cls[s][n] = 0 => entry[s][n] = NoEntry

\* A function has one name.
OneName ==
  \A l \in 1..Len(prog) : prog[l].kind \in {"def", "overload"} =>
    \E n \in Name : prog[l].names = {n}

DefInv ==
  /\ TypesInv /\ OneName /\ redefined \subseteq 1..Len(prog)
  /\ \A s \in Scope, n \in Name :
       Placed(s, n) /\ Accounted(s, n) /\ Marked(s, n) /\ Registered(s, n)
  /\ LookupsAgree

LEMMA InitDefInv == Init => DefInv
<1>. SUFFICES ASSUME Init PROVE DefInv
  OBVIOUS
<1>1. TypesInv
  BY InitTypesInv
<1>2. prog = <<>> /\ redefined = {} /\ phase = "define"
  BY DEF Init
<1>3. \A s, n, K : Lines(s, n, K) = {}
  BY <1>2 DEF Lines
<1>4. \A s \in Scope, n \in Name :
        /\ cls[s][n] = 0 /\ local[s][n] = 0 /\ func[s][n] = <<>> /\ entry[s][n] = NoEntry
  BY DEF Init
<1>5. Shape(0, <<>>, 0, {}, {}) /\ Assigned(0, {}, {})
  BY DEF Shape, Assigned, IsFirst
<1>6. ASSUME NEW s \in Scope, NEW n \in Name
      PROVE  Placed(s, n) /\ Accounted(s, n) /\ Marked(s, n) /\ Registered(s, n)
  BY <1>3, <1>4, <1>5 DEF Placed, Accounted, Marked, Registered, Classes, Defs, Strong, Weak
<1>. QED BY <1>1, <1>2, <1>6 DEF DefInv, OneName, LookupsAgree

\* The kinds of the lines of a place exclude each other.
LEMMA PlaceLines ==
  ASSUME TypesInv, NEW s, NEW n
  PROVE  /\ Strong(s, n) \cap Weak(s, n) = {}
         /\ Strong(s, n) \cap Defs(s, n) = {} /\ Strong(s, n) \cap Classes(s, n) = {}
         /\ Defs(s, n) \cap Classes(s, n) = {}
         /\ \A l \in Strong(s, n) : IsStrong(l)
         /\ \A l \in Weak(s, n) : ~IsStrong(l)
         /\ Lines(s, n, {"def"}) \subseteq Defs(s, n)
BY DEF Strong, Weak, Defs, Classes, Lines, IsStrong

\* What the properties of the module say, place by place.
LEMMA DefInvPlaces ==
  ASSUME DefInv
  PROVE  TablesFollowPriority /\ LossesReported
<1>1. TablesFollowPriority
  <2>. SUFFICES ASSUME NEW s \in Scope, NEW n \in Name
                PROVE  LET classes == Lines(s, n, {"class"})
                           defs == Lines(s, n, {"def", "overload"})
                           strong == Lines(s, n, {"annotated"})
                           weak == Lines(s, n, {"assign"})
                           reserved == s = <<>> /\ (n \in block.outside \/ block.special)
                       IN  /\ IsFirst(cls[s][n], classes)
                           /\ classes # {} => func[s][n] = <<>> /\ local[s][n] = 0
                           /\ classes = {} =>
                                /\ {func[s][n][i] : i \in DOMAIN func[s][n]} = defs
                                /\ \A i, j \in DOMAIN func[s][n] :
                                     i < j => func[s][n][i] < func[s][n][j]
                                /\ defs # {} => local[s][n] = 0
                                /\ defs = {} /\ ~reserved =>
                                     IF strong # {} THEN IsFirst(local[s][n], strong)
                                     ELSE IsFirst(local[s][n], weak)
    BY DEF TablesFollowPriority
  <2>1. Placed(s, n)
    BY DEF DefInv
  <2>. QED BY <2>1 DEF Placed, Shape, Assigned, Classes, Defs, Strong, Weak, Reserved
<1>2. LossesReported
  <2>. SUFFICES ASSUME NEW s \in Scope, NEW n \in Name,
                       NEW l \in Lines(s, n, Kind \ {"import", "self"}),
                       l \notin Owners(s, n),
                       \/ prog[l].kind = "class"
                       \/ prog[l].kind = "annotated" /\ ~Reserved(s, n)
                       \/ IsFirst(l, Defs(s, n))
                PROVE  l \in Named(n)
    BY DEF LossesReported, Owners, Named, Reserved, Defs
  <2>1. Accounted(s, n) /\ TypesInv
    BY DEF DefInv
  <2>2. CASE prog[l].kind = "class"
    BY <2>1, <2>2 DEF Accounted, Classes, Lines
  <2>3. CASE prog[l].kind = "annotated" /\ ~Reserved(s, n)
    BY <2>1, <2>3 DEF Accounted, Strong, Lines
  <2>4. CASE IsFirst(l, Defs(s, n))
    <3>1. l # 0
      BY <2>1, LinesProperties
    <3>2. l \in Defs(s, n)
      BY <2>4, <3>1 DEF IsFirst
    <3>. QED BY <2>1, <2>4, <3>2 DEF Accounted
  <2>. QED BY <2>2, <2>3, <2>4
<1>. QED BY <1>1, <1>2


-----------------------------------------------------------------------------
(* What a step leaves alone *)

LEMMA NamedGrows ==
  ASSUME errors \subseteq errors'
  PROVE  \A n : Named(n) \subseteq Named(n)'
BY DEF Named

LEMMA PlaceKept ==
  ASSUME NEW s, NEW n, Placed(s, n), Accounted(s, n), Marked(s, n), Registered(s, n),
         Classes(s, n)' = Classes(s, n), Defs(s, n)' = Defs(s, n),
         Strong(s, n)' = Strong(s, n), Weak(s, n)' = Weak(s, n),
         Lines(s, n, {"def"})' = Lines(s, n, {"def"}), Lines(s, n, {"def"}) \subseteq Defs(s, n),
         cls'[s][n] = cls[s][n], func'[s][n] = func[s][n], local'[s][n] = local[s][n],
         entry'[s][n] = entry[s][n], block' = block, phase' = phase, errors \subseteq errors',
         \A l \in Defs(s, n) : l \in redefined' <=> l \in redefined
  PROVE  Placed(s, n)' /\ Accounted(s, n)' /\ Marked(s, n)' /\ Registered(s, n)'
<1>1. Placed(s, n)'
  BY DEF Placed, Reserved
<1>2. Accounted(s, n)'
  <2>1. Owners(s, n)' = Owners(s, n)
    BY DEF Owners
  <2>2. Reserved(s, n)' <=> Reserved(s, n)
    BY DEF Reserved
  <2>3. Named(n) \subseteq Named(n)'
    BY NamedGrows
  <2>4. \A l : IsFirst(l, Defs(s, n))' <=> IsFirst(l, Defs(s, n))
    BY DEF IsFirst
  <2>. QED BY <2>1, <2>2, <2>3, <2>4 DEF Accounted
<1>3. Marked(s, n)'
  <2>1. \A l : IsFirst(l, Defs(s, n))' <=> IsFirst(l, Defs(s, n))
    BY DEF IsFirst
  <2>2. Lines(s, n, {"def"})' \ redefined' = Lines(s, n, {"def"}) \ redefined
    OBVIOUS
  <2>. QED BY <2>1, <2>2 DEF Marked
<1>4. Registered(s, n)'
  BY DEF Registered
<1>. QED BY <1>1, <1>2, <1>3, <1>4

\* A statement leaves the places alone that it does not define.
LEMMA OtherPlace ==
  ASSUME DefInv, NEW kind \in Kind, NEW names \in SUBSET Name, Visit(kind, names),
         NEW s \in Scope, NEW n \in Name, s # scope \/ n \notin names \/ kind \in {"import", "self"},
         cls'[s][n] = cls[s][n], func'[s][n] = func[s][n], local'[s][n] = local[s][n],
         entry'[s][n] = entry[s][n], phase' = phase, errors \subseteq errors',
         \A l \in Defs(s, n) : l \in redefined' <=> l \in redefined
  PROVE  Placed(s, n)' /\ Accounted(s, n)' /\ Marked(s, n)' /\ Registered(s, n)'
<1>1. TypesInv /\ Placed(s, n) /\ Accounted(s, n) /\ Marked(s, n) /\ Registered(s, n)
  BY DEF DefInv
<1>2. /\ Lines(s, n, {"class"})' = Lines(s, n, {"class"})
      /\ Lines(s, n, {"def", "overload"})' = Lines(s, n, {"def", "overload"})
      /\ Lines(s, n, {"annotated"})' = Lines(s, n, {"annotated"})
      /\ Lines(s, n, {"assign"})' = Lines(s, n, {"assign"})
      /\ Lines(s, n, {"def"})' = Lines(s, n, {"def"})
  BY <1>1, VisitLines
<1>3. block' = block
  BY <1>1, VisitFacts
<1>4. Lines(s, n, {"def"}) \subseteq Defs(s, n)
  BY <1>1, PlaceLines
<1>. QED BY <1>1, <1>2, <1>3, <1>4, PlaceKept DEF Classes, Defs, Strong, Weak

LEMMA OneNameKept ==
  ASSUME TypesInv, OneName, NEW kind \in Kind, NEW names \in SUBSET Name, Visit(kind, names),
         kind \in {"def", "overload"} => \E n \in Name : names = {n}
  PROVE  OneName'
<1>1. PICK h : h = Here
  OBVIOUS
<1>2. /\ Len(prog') = h /\ h = Len(prog) + 1 /\ Len(prog) \in Nat
      /\ \A l \in 1..Len(prog) : prog'[l] = prog[l]
      /\ prog'[h].kind = kind /\ prog'[h].names = names
  BY <1>1, VisitFacts
<1>3. \A l \in 1..Len(prog') : l \in 1..Len(prog) \/ l = h
  BY <1>2
<1>. QED BY <1>2, <1>3 DEF OneName


-----------------------------------------------------------------------------
(* The steps *)

\* A class that is defined again.
LEMMA RedefineClassDefInv ==
  ASSUME DefInv, NEW n \in Name, RedefineClass(n)
  PROVE  DefInv'
<1>1. PICK h, s : h = Here /\ s = scope
  OBVIOUS
<1>2. /\ cls[s][n] # 0 /\ Visit("class", {n}) /\ EnterClass(n)
      /\ errors' = errors \cup {Redefine(h, n, cls[s][n])}
      /\ redefined' = redefined \cup {h}
      /\ UNCHANGED <<cls, func, local, impt, attr, entry, phase>>
  BY <1>1 DEF RedefineClass, tables
<1>3. TypesInv /\ OneName /\ s \in Scope /\ "class" \in Kind /\ {n} \in SUBSET Name
      /\ redefined \subseteq 1..Len(prog)
  BY <1>1 DEF DefInv, TypesInv, Kind
<1>4. /\ phase = "define" /\ block' = block
      /\ prog' \in Seq(Statement) /\ Len(prog') <= MaxLine /\ Len(prog') = h
      /\ h \in Line /\ h \in Nat \ {0} /\ h = Len(prog) + 1 /\ Len(prog) \in Nat
  BY <1>1, <1>2, <1>3, VisitFacts
<1>5. scope' \in Scope /\ within' \in Seq(Line)
  BY <1>1, <1>2, <1>3, <1>4, EnterClassTypes
<1>6. TypesInv'
  BY <1>2, <1>3, <1>4, <1>5 DEF TypesInv
<1>7. OneName'
  BY <1>2, <1>3, OneNameKept
<1>8. redefined' \subseteq 1..Len(prog')
  BY <1>2, <1>3, <1>4
<1>9. \A r, m, K : Lines(r, m, K) \subseteq 1..Len(prog) /\ h \notin Lines(r, m, K)
  BY <1>1, <1>3, LinesProperties
<1>10. \A r, m : \A l \in Defs(r, m) : l \in redefined' <=> l \in redefined
  BY <1>2, <1>9 DEF Defs
<1>11. ASSUME NEW r \in Scope, NEW m \in Name, r # s \/ m # n
       PROVE  Placed(r, m)' /\ Accounted(r, m)' /\ Marked(r, m)' /\ Registered(r, m)'
  BY <1>1, <1>2, <1>3, <1>10, <1>11, OtherPlace
<1>12. Placed(s, n) /\ Accounted(s, n) /\ Marked(s, n) /\ Registered(s, n)
  BY <1>3 DEF DefInv
<1>13. /\ Classes(s, n)' = Classes(s, n) \cup {h} /\ Defs(s, n)' = Defs(s, n)
       /\ Strong(s, n)' = Strong(s, n) /\ Weak(s, n)' = Weak(s, n)
       /\ Lines(s, n, {"def"})' = Lines(s, n, {"def"})
  BY <1>1, <1>2, <1>3, VisitLines DEF Classes, Defs, Strong, Weak
<1>14. Placed(s, n)'
  <2>1. Classes(s, n) \in SUBSET Nat /\ \A l \in Classes(s, n) : l < h /\ l # 0
    BY <1>1, <1>3, LinesProperties DEF Classes
  <2>2. cls[s][n] \in Nat /\ func[s][n] \in Seq(Nat)
    BY <1>3 DEF TypesInv, Table
  <2>3. Shape(cls[s][n], func[s][n], local[s][n], Classes(s, n), Defs(s, n))
    BY <1>12 DEF Placed
  <2>4. Shape(cls[s][n], func[s][n], local[s][n], Classes(s, n) \cup {h}, Defs(s, n))
    BY <1>2, <1>4, <2>1, <2>2, <2>3, ShapeClass
  <2>. QED BY <1>2, <1>13, <2>4 DEF Placed
<1>15. Accounted(s, n)'
  <2>1. Owners(s, n)' = Owners(s, n)
    BY <1>2 DEF Owners
  <2>2. Reserved(s, n)' <=> Reserved(s, n)
    BY <1>4 DEF Reserved
  <2>3. Named(n) \subseteq Named(n)' /\ h \in Named(n)'
    <3>1. Redefine(h, n, cls[s][n]).name = n /\ Redefine(h, n, cls[s][n]).node = h
      BY DEF Redefine
    <3>. QED BY <1>2, <3>1, NamedGrows DEF Named
  <2>4. \A l : IsFirst(l, Defs(s, n))' <=> IsFirst(l, Defs(s, n))
    BY <1>13 DEF IsFirst
  <2>. QED BY <1>12, <1>13, <2>1, <2>2, <2>3, <2>4 DEF Accounted
<1>16. Marked(s, n)' /\ Registered(s, n)'
  <2>1. \A l : IsFirst(l, Defs(s, n))' <=> IsFirst(l, Defs(s, n))
    BY <1>13 DEF IsFirst
  <2>2. Marked(s, n)'
    BY <1>2, <1>4, <1>10, <1>12, <1>13, <2>1 DEF Marked
  <2>. QED BY <1>2, <1>12, <2>2 DEF Registered
<1>17. \A r \in Scope, m \in Name :
         Placed(r, m)' /\ Accounted(r, m)' /\ Marked(r, m)' /\ Registered(r, m)'
  BY <1>11, <1>14, <1>15, <1>16
<1>18. LookupsAgree'
  BY <1>2, <1>4 DEF LookupsAgree
<1>. QED BY <1>6, <1>7, <1>8, <1>17, <1>18 DEF DefInv


LEMMA DefsApart ==
  ASSUME OneName, NEW r, NEW m \in Name, NEW s, NEW n \in Name,
         NEW l \in Defs(r, m), l \in Defs(s, n)
  PROVE  r = s /\ m = n
BY DEF OneName, Defs, Lines

\* The first definition of a function is the first of its list.
LEMMA ShapeFirst ==
  ASSUME NEW c, NEW f \in Seq(Nat), NEW l, NEW C, NEW D, Shape(c, f, l, C, D), C = {},
         NEW x \in D, IsFirst(x, D)
  PROVE  f # <<>> /\ x = f[1] /\ l = 0
<1>1. {f[i] : i \in DOMAIN f} = D /\ (\A i, j \in DOMAIN f : i < j => f[i] < f[j])
  BY DEF Shape
<1>2. l = 0
  BY DEF Shape
<1>3. PICK i \in DOMAIN f : f[i] = x
  BY <1>1
<1>4. i \in 1..Len(f) /\ Len(f) \in Nat /\ 1 \in DOMAIN f /\ f[1] \in Nat /\ f[i] \in Nat
  BY <1>3
<1>5. f[1] \in D
  BY <1>1, <1>4
<1>6. x <= f[1]
  BY <1>5 DEF IsFirst
<1>7. i = 1
  BY <1>1, <1>3, <1>4, <1>6
<1>. QED BY <1>2, <1>3, <1>4, <1>7

\* A class that takes the name.
LEMMA DefineClassDefInv ==
  ASSUME DefInv, NEW n \in Name, DefineClass(n)
  PROVE  DefInv'
<1>1. PICK h, s : h = Here /\ s = scope
  OBVIOUS
<1>2. PICK l, fs : l = local[s][n] /\ fs = func[s][n]
  OBVIOUS
<1>3. PICK old : old = IF l # 0 THEN {l} ELSE IF fs # <<>> THEN {fs[1]} ELSE {}
  OBVIOUS
<1>4. /\ cls[s][n] = 0 /\ Visit("class", {n}) /\ EnterClass(n)
      /\ errors' = errors \cup {Collide(h, n, o) : o \in old}
      /\ local' = [local EXCEPT ![s][n] = 0]
      /\ func' = IF l # 0 THEN func ELSE [func EXCEPT ![s][n] = <<>>]
      /\ redefined' = IF l # 0 THEN redefined ELSE redefined \cup old
      /\ cls' = [cls EXCEPT ![s][n] = h]
      /\ entry' = [entry EXCEPT ![s][n] = Entry("class", h)]
      /\ UNCHANGED <<impt, attr, phase>>
  BY <1>1, <1>2, <1>3 DEF DefineClass
<1>5. TypesInv /\ OneName /\ s \in Scope /\ "class" \in Kind /\ {n} \in SUBSET Name
      /\ redefined \subseteq 1..Len(prog) /\ l \in Nat /\ fs \in Seq(Nat)
  BY <1>1, <1>2 DEF DefInv, TypesInv, Kind, Table
<1>6. /\ phase = "define" /\ block' = block
      /\ prog' \in Seq(Statement) /\ Len(prog') <= MaxLine /\ Len(prog') = h
      /\ h \in Line /\ h \in Nat \ {0} /\ h = Len(prog) + 1 /\ Len(prog) \in Nat
  BY <1>1, <1>4, <1>5, VisitFacts
<1>7. scope' \in Scope /\ within' \in Seq(Line)
  BY <1>1, <1>4, <1>5, <1>6, EnterClassTypes
<1>8. /\ local' \in Table(Nat) /\ local'[s][n] = 0
      /\ \A r \in Scope, m \in Name : r # s \/ m # n => local'[r][m] = local[r][m]
  BY <1>4, <1>5 DEF TypesInv, Table
<1>9. /\ cls' \in Table(Nat) /\ cls'[s][n] = h
      /\ \A r \in Scope, m \in Name : r # s \/ m # n => cls'[r][m] = cls[r][m]
  BY <1>4, <1>5, <1>6 DEF TypesInv, Table
<1>10. /\ entry' \in Table([kind : EntryKind, line : Nat]) /\ entry'[s][n] = Entry("class", h)
       /\ \A r \in Scope, m \in Name : r # s \/ m # n => entry'[r][m] = entry[r][m]
  <2>1. Entry("class", h) \in [kind : EntryKind, line : Nat]
    BY <1>6 DEF Entry, EntryKind
  <2>. QED BY <1>4, <1>5, <2>1 DEF TypesInv, Table
<1>11. /\ func' \in Table(Seq(Nat)) /\ func'[s][n] = IF l # 0 THEN fs ELSE <<>>
       /\ \A r \in Scope, m \in Name : r # s \/ m # n => func'[r][m] = func[r][m]
  <2>1. <<>> \in Seq(Nat)
    OBVIOUS
  <2>2. CASE l = 0
    BY <1>4, <1>5, <2>1, <2>2 DEF TypesInv, Table
  <2>3. CASE l # 0
    BY <1>2, <1>4, <1>5, <2>3 DEF TypesInv, Table
  <2>. QED BY <2>2, <2>3
<1>12. TypesInv'
  BY <1>4, <1>5, <1>6, <1>7, <1>8, <1>9, <1>10, <1>11 DEF TypesInv
<1>13. OneName'
  BY <1>4, <1>5, OneNameKept
<1>14. Placed(s, n) /\ Accounted(s, n) /\ Marked(s, n) /\ Registered(s, n)
  BY <1>5 DEF DefInv
<1>15. Shape(0, fs, l, Classes(s, n), Defs(s, n))
  BY <1>2, <1>4, <1>14 DEF Placed
<1>16. /\ Classes(s, n) = {}
       /\ Shape(h, IF l # 0 THEN fs ELSE <<>>, 0, Classes(s, n) \cup {h}, Defs(s, n))
  <2>1. Classes(s, n) \in SUBSET Nat /\ \A x \in Classes(s, n) : x < h /\ x # 0
    BY <1>1, <1>5, LinesProperties DEF Classes
  <2>. QED BY <1>5, <1>6, <1>15, <2>1, ShapeClass
<1>17. \A i \in DOMAIN fs : fs[i] \in Defs(s, n)
  BY <1>15, <1>16 DEF Shape
<1>18. \A x \in Defs(s, n) : IsFirst(x, Defs(s, n)) => fs # <<>> /\ x = fs[1] /\ l = 0
  BY <1>5, <1>15, <1>16, ShapeFirst
<1>19. l = 0 => old \subseteq Defs(s, n)
  BY <1>3, <1>5, <1>17
<1>20. \A r, m, K : Lines(r, m, K) \subseteq 1..Len(prog) /\ 0 \notin Lines(r, m, K)
                    /\ h \notin Lines(r, m, K)
  BY <1>1, <1>5, LinesProperties
<1>21. redefined' \subseteq 1..Len(prog')
  <2>1. Defs(s, n) \subseteq 1..Len(prog')
    BY <1>6, <1>20 DEF Defs
  <2>. QED BY <1>4, <1>5, <1>6, <1>19, <2>1
<1>22. ASSUME NEW r \in Scope, NEW m \in Name, r # s \/ m # n
       PROVE  Placed(r, m)' /\ Accounted(r, m)' /\ Marked(r, m)' /\ Registered(r, m)'
  <2>1. \A x \in Defs(r, m) : x \in redefined' <=> x \in redefined
    BY <1>4, <1>5, <1>19, <1>22, DefsApart
  <2>. QED BY <1>1, <1>4, <1>5, <1>8, <1>9, <1>10, <1>11, <1>22, <2>1, OtherPlace
<1>23. /\ Classes(s, n)' = {h} /\ Defs(s, n)' = Defs(s, n)
       /\ Strong(s, n)' = Strong(s, n) /\ Weak(s, n)' = Weak(s, n)
       /\ Lines(s, n, {"def"})' = Lines(s, n, {"def"})
  BY <1>1, <1>4, <1>5, <1>16, VisitLines DEF Classes, Defs, Strong, Weak
<1>24. Placed(s, n)'
  BY <1>8, <1>9, <1>11, <1>16, <1>23 DEF Placed
<1>25. Accounted(s, n)'
  <2>1. \A o \in old : o \in Named(n)'
    <3>1. \A o : Collide(h, n, o).name = n /\ Collide(h, n, o).old = o
      BY DEF Collide
    <3>. QED BY <1>4, <3>1 DEF Named
  <2>2. Named(n) \subseteq Named(n)'
    BY <1>4, NamedGrows
  <2>3. Owners(s, n) = {0, l} \cup {fs[i] : i \in DOMAIN fs}
    BY <1>2, <1>4 DEF Owners
  <2>4. l # 0 => l \in Named(n)'
    BY <1>3, <2>1
  <2>5. h \in Owners(s, n)'
    BY <1>9 DEF Owners
  <2>6. ~Reserved(s, n) => Strong(s, n) \subseteq Named(n)'
    <3>1. Strong(s, n) \cap Defs(s, n) = {} /\ 0 \notin Strong(s, n)
      BY <1>5, <1>20, PlaceLines DEF Strong
    <3>. QED BY <1>14, <1>17, <2>2, <2>3, <2>4, <3>1 DEF Accounted
  <2>7. ASSUME NEW x \in Defs(s, n), IsFirst(x, Defs(s, n)) PROVE x \in Named(n)'
    <3>1. fs # <<>> /\ x = fs[1] /\ l = 0
      BY <1>18, <2>7
    <3>. QED BY <1>3, <2>1, <3>1
  <2>8. \A x : IsFirst(x, Defs(s, n))' <=> IsFirst(x, Defs(s, n))
    BY <1>23 DEF IsFirst
  <2>9. Reserved(s, n)' <=> Reserved(s, n)
    BY <1>6 DEF Reserved
  <2>. QED BY <1>23, <2>5, <2>6, <2>7, <2>8, <2>9 DEF Accounted
<1>26. Marked(s, n)' /\ Registered(s, n)'
  <2>1. \A x : IsFirst(x, Defs(s, n))' <=> IsFirst(x, Defs(s, n))
    BY <1>23 DEF IsFirst
  <2>2. \A x \in Defs(s, n) : IsFirst(x, Defs(s, n)) => x \in redefined'
    BY <1>3, <1>4, <1>18
  <2>3. cls'[s][n] # 0
    BY <1>6, <1>9
  <2>. QED BY <1>9, <1>10, <1>23, <2>1, <2>2, <2>3 DEF Marked, Registered
<1>27. \A r \in Scope, m \in Name :
         Placed(r, m)' /\ Accounted(r, m)' /\ Marked(r, m)' /\ Registered(r, m)'
  BY <1>22, <1>24, <1>25, <1>26
<1>28. LookupsAgree'
  BY <1>4, <1>6 DEF LookupsAgree
<1>. QED BY <1>12, <1>13, <1>21, <1>27, <1>28 DEF DefInv


\* A definition of a function, or one more of it.
LEMMA DefineFunctionDefInv ==
  ASSUME DefInv, NEW n \in Name, NEW kind \in {"def", "overload"}, DefineFunction(n, kind)
  PROVE  DefInv'
<1>1. PICK h, s : h = Here /\ s = scope
  OBVIOUS
<1>2. PICK c, f, l : c = cls[s][n] /\ f = func[s][n] /\ l = local[s][n]
  OBVIOUS
<1>3. /\ Visit(kind, {n})
      /\ UNCHANGED <<scope, within, cls, impt, attr, entry, phase>>
  BY DEF DefineFunction
<1>4. \/ /\ f # <<>>
         /\ func' = [func EXCEPT ![s][n] = Append(f, h)]
         /\ UNCHANGED <<local, redefined, errors>>
      \/ /\ f = <<>> /\ c # 0
         /\ errors' = errors \cup {Collide(c, n, h)}
         /\ redefined' = redefined \cup {h}
         /\ UNCHANGED <<func, local>>
      \/ /\ f = <<>> /\ c = 0
         /\ errors' = errors \cup {Collide(h, n, o) : o \in {l} \ {0}}
         /\ local' = [local EXCEPT ![s][n] = 0]
         /\ func' = [func EXCEPT ![s][n] = <<h>>]
         /\ UNCHANGED redefined
  BY <1>1, <1>2 DEF DefineFunction
<1>5. TypesInv /\ OneName /\ s \in Scope /\ kind \in Kind /\ {n} \in SUBSET Name
      /\ redefined \subseteq 1..Len(prog) /\ c \in Nat /\ l \in Nat /\ f \in Seq(Nat)
  BY <1>1, <1>2 DEF DefInv, TypesInv, Kind, Table
<1>6. /\ phase = "define" /\ block' = block
      /\ prog' \in Seq(Statement) /\ Len(prog') <= MaxLine /\ Len(prog') = h
      /\ h \in Line /\ h \in Nat \ {0} /\ h = Len(prog) + 1 /\ Len(prog) \in Nat
  BY <1>1, <1>3, <1>5, VisitFacts
<1>7. /\ local' \in Table(Nat) /\ local'[s][n] = IF f = <<>> /\ c = 0 THEN 0 ELSE l
      /\ \A r \in Scope, m \in Name : r # s \/ m # n => local'[r][m] = local[r][m]
  <2>1. local \in Table(Nat)
    BY <1>5 DEF TypesInv
  <2>2. CASE f = <<>> /\ c = 0
    <3>1. local' = [local EXCEPT ![s][n] = 0]
      BY <1>4, <2>2
    <3>. QED BY <1>5, <2>1, <2>2, <3>1 DEF Table
  <2>3. CASE ~(f = <<>> /\ c = 0)
    <3>1. local' = local
      BY <1>4, <2>3
    <3>. QED BY <1>2, <2>1, <2>3, <3>1
  <2>. QED BY <2>2, <2>3
<1>8. /\ func' \in Table(Seq(Nat))
      /\ f # <<>> => func'[s][n] = Append(f, h)
      /\ f = <<>> /\ c # 0 => func'[s][n] = f
      /\ f = <<>> /\ c = 0 => func'[s][n] = <<h>>
      /\ \A r \in Scope, m \in Name : r # s \/ m # n => func'[r][m] = func[r][m]
  <2>1. func \in Table(Seq(Nat)) /\ Append(f, h) \in Seq(Nat) /\ <<h>> \in Seq(Nat)
    BY <1>5, <1>6 DEF TypesInv
  <2>2. CASE f # <<>>
    <3>1. PICK g : g = Append(f, h)
      OBVIOUS
    <3>2. func' = [func EXCEPT ![s][n] = g] /\ g \in Seq(Nat)
      BY <1>4, <2>1, <2>2, <3>1
    <3>. QED BY <1>5, <2>1, <2>2, <3>1, <3>2 DEF Table
  <2>3. CASE f = <<>> /\ c = 0
    <3>1. PICK g : g = <<h>>
      OBVIOUS
    <3>2. func' = [func EXCEPT ![s][n] = g] /\ g \in Seq(Nat)
      BY <1>4, <2>1, <2>3, <3>1
    <3>. QED BY <1>5, <2>1, <2>3, <3>1, <3>2 DEF Table
  <2>4. CASE f = <<>> /\ c # 0
    <3>1. func' = func
      BY <1>4, <2>4
    <3>. QED BY <1>2, <2>1, <2>4, <3>1
  <2>. QED BY <2>2, <2>3, <2>4
<1>9. TypesInv'
  BY <1>3, <1>5, <1>6, <1>7, <1>8 DEF TypesInv
<1>10. OneName'
  BY <1>3, <1>5, OneNameKept
<1>11. /\ errors \subseteq errors' /\ redefined \subseteq redefined'
       /\ redefined' \subseteq redefined \cup {h}
       /\ h \in redefined' => c # 0
       /\ f = <<>> /\ c # 0 => h \in redefined'
  BY <1>4, <1>5, <1>6
<1>12. redefined' \subseteq 1..Len(prog')
  BY <1>5, <1>6, <1>11
<1>13. \A r, m, K : Lines(r, m, K) \subseteq 1..Len(prog) /\ 0 \notin Lines(r, m, K)
                    /\ h \notin Lines(r, m, K)
  BY <1>1, <1>5, LinesProperties
<1>14. ASSUME NEW r \in Scope, NEW m \in Name, r # s \/ m # n
       PROVE  Placed(r, m)' /\ Accounted(r, m)' /\ Marked(r, m)' /\ Registered(r, m)'
  <2>1. \A x \in Defs(r, m) : x \in redefined' <=> x \in redefined
    BY <1>11, <1>13 DEF Defs
  <2>. QED BY <1>1, <1>3, <1>5, <1>7, <1>8, <1>11, <1>14, <2>1, OtherPlace
<1>15. Placed(s, n) /\ Accounted(s, n) /\ Marked(s, n) /\ Registered(s, n)
  BY <1>5 DEF DefInv
<1>16. Shape(c, f, l, Classes(s, n), Defs(s, n))
  BY <1>2, <1>15 DEF Placed
<1>17. /\ c = 0 <=> Classes(s, n) = {}
       /\ Classes(s, n) # {} => c \in Classes(s, n) /\ f = <<>> /\ l = 0
  BY <1>13, <1>16 DEF Shape, IsFirst, Classes
<1>18. /\ Classes(s, n)' = Classes(s, n) /\ Defs(s, n)' = Defs(s, n) \cup {h}
       /\ Strong(s, n)' = Strong(s, n) /\ Weak(s, n)' = Weak(s, n)
  BY <1>1, <1>3, <1>5, VisitLines DEF Classes, Defs, Strong, Weak
<1>19. \A x \in Defs(s, n) : x < h /\ x \in Nat
  BY <1>1, <1>5, LinesProperties DEF Defs
<1>20. Placed(s, n)'
  <2>1. /\ Defs(s, n) \in SUBSET Nat /\ 0 \notin Classes(s, n)
    BY <1>13, <1>19 DEF Classes
  <2>2. Shape(c, func'[s][n], local'[s][n], Classes(s, n), Defs(s, n) \cup {h})
    <3>1. /\ f = <<>> /\ c # 0 => Shape(c, f, l, Classes(s, n), Defs(s, n) \cup {h})
          /\ f = <<>> /\ c = 0 => Shape(c, <<h>>, 0, Classes(s, n), Defs(s, n) \cup {h})
          /\ f # <<>> => Shape(c, Append(f, h), l, Classes(s, n), Defs(s, n) \cup {h})
      BY <1>5, <1>6, <1>16, <1>19, <2>1, ShapeFunction
    <3>. QED BY <1>7, <1>8, <3>1
  <2>3. Defs(s, n)' # {}
    BY <1>18
  <2>. QED BY <1>2, <1>3, <1>18, <2>2, <2>3 DEF Placed
<1>21. Accounted(s, n)'
  <2>1. Named(n) \subseteq Named(n)'
    BY <1>11, NamedGrows
  <2>2. Owners(s, n)' = {c, local'[s][n]} \cup {func'[s][n][i] : i \in DOMAIN func'[s][n]}
    BY <1>2, <1>3 DEF Owners
  <2>3. Owners(s, n) = {c, l} \cup {f[i] : i \in DOMAIN f}
    BY <1>2 DEF Owners
  <2>4. /\ Owners(s, n) \subseteq Owners(s, n)' \cup Named(n)' \cup {0}
        /\ h \in Owners(s, n)' \cup Named(n)'
    <3>1. CASE f # <<>>
      <4>1. PICK g : g = Append(f, h)
        OBVIOUS
      <4>2. /\ \A i \in DOMAIN f : g[i] = f[i] /\ i \in DOMAIN g
            /\ Len(f) + 1 \in DOMAIN g /\ g[Len(f) + 1] = h
        BY <1>5, <1>6, <4>1
      <4>. QED BY <1>7, <1>8, <2>2, <2>3, <3>1, <4>1, <4>2
    <3>2. CASE f = <<>> /\ c # 0
      <4>1. Collide(c, n, h).name = n /\ Collide(c, n, h).old = h
        BY DEF Collide
      <4>2. Collide(c, n, h) \in errors'
        BY <1>4, <3>2
      <4>3. h \in Named(n)'
        BY <4>1, <4>2 DEF Named
      <4>. QED BY <1>7, <1>8, <2>2, <2>3, <3>2, <4>3
    <3>3. CASE f = <<>> /\ c = 0
      <4>1. Collide(h, n, l).name = n /\ Collide(h, n, l).old = l
        BY DEF Collide
      <4>2. l # 0 => Collide(h, n, l) \in errors'
        BY <1>4, <3>3
      <4>3. l # 0 => l \in Named(n)'
        BY <4>1, <4>2 DEF Named
      <4>4. 1 \in DOMAIN <<h>> /\ <<h>>[1] = h
        OBVIOUS
      <4>5. h \in Owners(s, n)'
        BY <1>8, <2>2, <3>3, <4>4
      <4>. QED BY <2>2, <2>3, <3>3, <4>3, <4>5
    <3>. QED BY <3>1, <3>2, <3>3
  <2>5. Reserved(s, n)' <=> Reserved(s, n)
    BY <1>6 DEF Reserved
  <2>6. \A x \in Defs(s, n) : IsFirst(x, Defs(s, n) \cup {h}) => IsFirst(x, Defs(s, n))
    BY DEF IsFirst
  <2>7. 0 \notin Classes(s, n) /\ 0 \notin Strong(s, n) /\ 0 \notin Defs(s, n)
    BY <1>13 DEF Classes, Strong, Defs
  <2>8. Classes(s, n)' \subseteq Owners(s, n)' \cup Named(n)'
    BY <1>15, <1>18, <2>1, <2>4, <2>7 DEF Accounted
  <2>9. ~Reserved(s, n)' => Strong(s, n)' \subseteq Owners(s, n)' \cup Named(n)'
    BY <1>15, <1>18, <2>1, <2>4, <2>5, <2>7 DEF Accounted
  <2>10. ASSUME NEW x \in Defs(s, n) \cup {h}, IsFirst(x, Defs(s, n) \cup {h})
         PROVE  x \in Owners(s, n)' \cup Named(n)'
    <3>1. CASE x = h
      BY <2>4, <3>1
    <3>2. CASE x \in Defs(s, n)
      BY <1>15, <2>1, <2>4, <2>6, <2>7, <2>10, <3>2 DEF Accounted
    <3>. QED BY <3>1, <3>2
  <2>11. \A x \in Defs(s, n)' :
            IsFirst(x, Defs(s, n))' => x \in Owners(s, n)' \cup Named(n)'
    BY <1>18, <2>10 DEF IsFirst
  <2>. QED BY <2>8, <2>9, <2>11 DEF Accounted
<1>22. Marked(s, n)' /\ Registered(s, n)'
  <2>1. \A x \in Defs(s, n) : IsFirst(x, Defs(s, n) \cup {h}) => IsFirst(x, Defs(s, n))
    BY DEF IsFirst
  <2>2. \A x : IsFirst(x, Defs(s, n))' <=> IsFirst(x, Defs(s, n) \cup {h})
    BY <1>18 DEF IsFirst
  <2>3. ASSUME NEW x \in Defs(s, n) \cup {h}
        PROVE  /\ x \in redefined' => c # 0
               /\ c # 0 /\ IsFirst(x, Defs(s, n) \cup {h}) => x \in redefined'
    <3>1. CASE x = h
      BY <1>11, <1>17, <3>1
    <3>2. CASE x \in Defs(s, n)
      <4>1. x # h
        BY <1>13, <3>2 DEF Defs
      <4>2. x \in redefined' <=> x \in redefined
        BY <1>11, <4>1
      <4>. QED BY <1>2, <1>6, <1>15, <2>1, <3>2, <4>2 DEF Marked
    <3>. QED BY <3>1, <3>2
  <2>4. Marked(s, n)'
    BY <1>2, <1>3, <1>18, <2>2, <2>3 DEF Marked
  <2>. QED BY <1>3, <1>15, <2>4 DEF Registered
<1>23. \A r \in Scope, m \in Name :
         Placed(r, m)' /\ Accounted(r, m)' /\ Marked(r, m)' /\ Registered(r, m)'
  BY <1>14, <1>20, <1>21, <1>22
<1>24. LookupsAgree'
  BY <1>3, <1>6 DEF LookupsAgree
<1>. QED BY <1>9, <1>10, <1>12, <1>23, <1>24 DEF DefInv


\* An assignment, to each of its targets.
LEMMA AssignDefInv ==
  ASSUME DefInv, NEW names \in SUBSET Name, NEW strong \in BOOLEAN, Assign(names, strong)
  PROVE  DefInv'
<1>1. PICK h, s : h = Here /\ s = scope
  OBVIOUS
<1>2. PICK kind : kind = IF strong THEN "annotated" ELSE "assign"
  OBVIOUS
<1>3. /\ Visit(kind, names)
      /\ local' = [local EXCEPT ![s] =
           [n \in Name |-> IF n \in names /\ Takes(n, strong) THEN h ELSE @[n]]]
      /\ errors' = errors \cup UNION {Complaints(n, strong) : n \in names}
      /\ UNCHANGED <<scope, within, cls, func, impt, attr, redefined, entry, phase>>
  BY <1>1, <1>2 DEF Assign
<1>4. /\ strong => kind = "annotated"
      /\ ~strong => kind = "assign"
      /\ kind \in Kind /\ kind \notin {"def", "overload", "class"}
  BY <1>2 DEF Kind
<1>5. TypesInv /\ OneName /\ s \in Scope /\ redefined \subseteq 1..Len(prog)
  BY <1>1 DEF DefInv, TypesInv
<1>6. /\ phase = "define" /\ block' = block
      /\ prog' \in Seq(Statement) /\ Len(prog') <= MaxLine /\ Len(prog') = h
      /\ h \in Line /\ h \in Nat \ {0} /\ h = Len(prog) + 1 /\ Len(prog) \in Nat
  BY <1>1, <1>3, <1>4, <1>5, VisitFacts
<1>7. /\ local' \in Table(Nat)
      /\ \A r \in Scope, m \in Name : r # s \/ m \notin names \/ ~Takes(m, strong) =>
           local'[r][m] = local[r][m]
      /\ \A m \in names : Takes(m, strong) => local'[s][m] = h
  <2>1. local \in [Scope -> [Name -> Nat]]
    BY <1>5 DEF TypesInv, Table
  <2>2. PICK row : row = [n \in Name |-> IF n \in names /\ Takes(n, strong) THEN h
                                          ELSE local[s][n]]
    OBVIOUS
  <2>3. row \in [Name -> Nat] /\ local' = [local EXCEPT ![s] = row]
    BY <1>3, <1>5, <1>6, <2>1, <2>2
  <2>4. /\ \A m \in Name : m \notin names \/ ~Takes(m, strong) => row[m] = local[s][m]
        /\ \A m \in names : Takes(m, strong) => row[m] = h
    BY <2>2
  <2>. QED BY <1>5, <2>1, <2>3, <2>4 DEF Table
<1>8. TypesInv'
  BY <1>3, <1>5, <1>6, <1>7 DEF TypesInv
<1>9. OneName'
  BY <1>3, <1>4, <1>5, OneNameKept
<1>10. redefined' \subseteq 1..Len(prog') /\ errors \subseteq errors'
  BY <1>3, <1>5, <1>6
<1>11. \A r, m, K : Lines(r, m, K) \subseteq 1..Len(prog) /\ 0 \notin Lines(r, m, K)
                    /\ h \notin Lines(r, m, K)
  BY <1>1, <1>5, LinesProperties
<1>12. ASSUME NEW r \in Scope, NEW m \in Name, r # s \/ m \notin names
       PROVE  Placed(r, m)' /\ Accounted(r, m)' /\ Marked(r, m)' /\ Registered(r, m)'
  BY <1>1, <1>3, <1>4, <1>5, <1>7, <1>10, <1>12, OtherPlace
<1>13. ASSUME NEW n \in names
       PROVE  Placed(s, n)' /\ Accounted(s, n)' /\ Marked(s, n)' /\ Registered(s, n)'
  <2>1. PICK c, f, l : c = cls[s][n] /\ f = func[s][n] /\ l = local[s][n]
    OBVIOUS
  <2>2. n \in Name /\ c \in Nat /\ f \in Seq(Nat) /\ l \in Nat
    BY <1>5, <2>1 DEF TypesInv, Table
  <2>3. Placed(s, n) /\ Accounted(s, n) /\ Marked(s, n) /\ Registered(s, n)
    BY <1>5, <2>2 DEF DefInv
  <2>4. Shape(c, f, l, Classes(s, n), Defs(s, n))
    BY <2>1, <2>3 DEF Placed
  <2>5. /\ Classes(s, n)' = Classes(s, n) /\ Defs(s, n)' = Defs(s, n)
        /\ Lines(s, n, {"def"})' = Lines(s, n, {"def"})
        /\ strong => Strong(s, n)' = Strong(s, n) \cup {h} /\ Weak(s, n)' = Weak(s, n)
        /\ ~strong => Strong(s, n)' = Strong(s, n) /\ Weak(s, n)' = Weak(s, n) \cup {h}
    <3>1. /\ Lines(s, n, {"class"})' = Lines(s, n, {"class"})
          /\ Lines(s, n, {"def", "overload"})' = Lines(s, n, {"def", "overload"})
          /\ Lines(s, n, {"def"})' = Lines(s, n, {"def"})
      BY <1>1, <1>3, <1>4, <1>5, VisitLines
    <3>2. CASE strong
      BY <1>1, <1>3, <1>4, <1>5, <3>1, <3>2, VisitLines DEF Classes, Defs, Strong, Weak
    <3>3. CASE ~strong
      BY <1>1, <1>3, <1>4, <1>5, <3>1, <3>3, VisitLines DEF Classes, Defs, Strong, Weak
    <3>. QED BY <3>2, <3>3
  <2>6. Takes(n, strong) =>
          c = 0 /\ f = <<>> /\ (l # 0 => strong /\ ~IsStrong(l))
    BY <1>1, <2>1 DEF Takes
  <2>7. ~Reserved(s, n) => ~Known(n)
    BY <1>1 DEF Reserved, Known
  <2>8. ~Reserved(s, n) /\ c = 0 /\ f = <<>> /\ ~Takes(n, strong) =>
          l # 0 /\ (strong => IsStrong(l))
    BY <1>1, <2>1, <2>7 DEF Takes, Reserved
  <2>9. /\ c = 0 <=> Classes(s, n) = {}
        /\ f = <<>> /\ c = 0 => Defs(s, n) = {}
        /\ Classes(s, n) = {} /\ Defs(s, n) = {} => f = <<>>
    <3>1. c = 0 <=> Classes(s, n) = {}
      BY <1>11, <2>4 DEF Shape, IsFirst, Classes
    <3>2. c = 0 => {f[i] : i \in DOMAIN f} = Defs(s, n)
      BY <2>4, <3>1 DEF Shape
    <3>3. f # <<>> => 1 \in DOMAIN f
      BY <2>2
    <3>. QED BY <3>1, <3>2, <3>3
  <2>10. /\ \A x \in Strong(s, n) : IsStrong(x) /\ x # 0 /\ x < h /\ x \in Nat
         /\ \A x \in Weak(s, n) : ~IsStrong(x) /\ x # 0 /\ x < h /\ x \in Nat
    BY <1>1, <1>5, PlaceLines, LinesProperties DEF Strong, Weak
  <2>11. Reserved(s, n)' <=> Reserved(s, n)
    BY <1>6 DEF Reserved
  <2>12. Placed(s, n)'
    <3>1. Shape(c, f, local'[s][n], Classes(s, n), Defs(s, n))
      <4>1. CASE Takes(n, strong)
        BY <2>4, <2>6, <2>9, <4>1 DEF Shape
      <4>2. CASE ~Takes(n, strong)
        BY <1>5, <1>7, <2>1, <2>2, <2>4, <4>2
      <4>. QED BY <4>1, <4>2
    <3>2. ASSUME Classes(s, n) = {}, Defs(s, n) = {}, ~Reserved(s, n)
          PROVE  Assigned(local'[s][n], Strong(s, n)', Weak(s, n)')
      <4>1. Assigned(l, Strong(s, n), Weak(s, n))
        BY <2>1, <2>3, <3>2 DEF Placed
      <4>2. c = 0 /\ f = <<>>
        BY <2>9, <3>2
      <4>3. l # 0 => l \in Strong(s, n) \cup Weak(s, n)
        BY <4>1 DEF Assigned, IsFirst
      <4>4. CASE strong
        <5>1. local'[s][n] = IF l \in Strong(s, n) THEN l ELSE h
          <6>1. CASE l \in Strong(s, n)
            BY <1>5, <1>7, <2>1, <2>2, <2>6, <2>10, <6>1
          <6>2. CASE l \notin Strong(s, n)
            BY <1>7, <2>8, <2>10, <3>2, <4>2, <4>3, <4>4, <6>2
          <6>. QED BY <6>1, <6>2
        <5>2. Assigned(IF l \in Strong(s, n) THEN l ELSE h, Strong(s, n) \cup {h}, Weak(s, n))
          <6>1. Strong(s, n) \in SUBSET Nat /\ Weak(s, n) \in SUBSET Nat
                /\ (\A x \in Strong(s, n) \cup Weak(s, n) : x < h)
                /\ 0 \notin Strong(s, n) \cup Weak(s, n)
                /\ Strong(s, n) \cap Weak(s, n) = {}
            BY <2>10
          <6>. QED BY <1>6, <2>2, <4>1, <6>1, AssignedStrong
        <5>. QED BY <2>5, <4>4, <5>1, <5>2
      <4>5. CASE ~strong
        <5>1. local'[s][n] = IF l # 0 THEN l ELSE h
          <6>1. CASE l # 0
            BY <1>5, <1>7, <2>1, <2>2, <2>6, <4>5, <6>1
          <6>2. CASE l = 0
            BY <1>7, <2>8, <3>2, <4>2, <6>2
          <6>. QED BY <6>1, <6>2
        <5>2. Assigned(IF l # 0 THEN l ELSE h, Strong(s, n), Weak(s, n) \cup {h})
          <6>1. Strong(s, n) \in SUBSET Nat /\ Weak(s, n) \in SUBSET Nat
                /\ (\A x \in Strong(s, n) \cup Weak(s, n) : x < h)
                /\ 0 \notin Strong(s, n) \cup Weak(s, n)
            BY <2>10
          <6>. QED BY <1>6, <2>2, <4>1, <6>1, AssignedWeak
        <5>. QED BY <2>5, <4>5, <5>1, <5>2
      <4>. QED BY <4>4, <4>5
    <3>. QED BY <1>3, <2>1, <2>5, <2>11, <3>1, <3>2 DEF Placed
  <2>13. Accounted(s, n)'
    <3>1. Named(n) \subseteq Named(n)'
      BY <1>10, NamedGrows
    <3>2. /\ ~Takes(n, strong) => Owners(s, n)' = Owners(s, n)
          /\ Owners(s, n) \subseteq Owners(s, n)' \cup {l}
          /\ Takes(n, strong) => h \in Owners(s, n)'
      <4>1. /\ Owners(s, n)' = {c, local'[s][n]} \cup {f[i] : i \in DOMAIN f}
            /\ Owners(s, n) = {c, l} \cup {f[i] : i \in DOMAIN f}
        BY <1>3, <2>1 DEF Owners
      <4>. QED BY <1>5, <1>7, <2>1, <2>2, <4>1
    <3>3. Classes(s, n) \subseteq Owners(s, n)' \cup Named(n)'
      BY <2>3, <2>6, <2>9, <3>1, <3>2 DEF Accounted
    <3>4. \A x \in Defs(s, n) :
            IsFirst(x, Defs(s, n)) => x \in Owners(s, n)' \cup Named(n)'
      BY <2>3, <2>6, <2>9, <3>1, <3>2 DEF Accounted
    <3>5. \A x : IsFirst(x, Defs(s, n))' <=> IsFirst(x, Defs(s, n))
      BY <2>5 DEF IsFirst
    <3>6. ~Reserved(s, n) => Strong(s, n) \subseteq Owners(s, n)' \cup Named(n)'
      BY <2>3, <2>6, <2>10, <3>1, <3>2 DEF Accounted
    <3>7. ASSUME ~Reserved(s, n), strong PROVE h \in Owners(s, n)' \cup Named(n)'
      <4>1. CASE Takes(n, strong)
        BY <3>2, <4>1
      <4>2. CASE ~Takes(n, strong)
        <5>1. \/ Collide(c, n, h) \in Complaints(n, strong)
              \/ \E o : Redefine(h, n, o) \in Complaints(n, strong)
          <6>1. CASE c # 0
            BY <1>1, <2>1, <2>7, <3>7, <6>1 DEF Complaints
          <6>2. CASE c = 0 /\ f # <<>>
            BY <1>1, <2>1, <2>7, <3>7, <6>2 DEF Complaints
          <6>3. CASE c = 0 /\ f = <<>>
            <7>1. l # 0 /\ IsStrong(l)
              BY <2>8, <3>7, <4>2, <6>3
            <7>. QED BY <1>1, <2>1, <2>7, <3>7, <6>3, <7>1 DEF Complaints
          <6>. QED BY <6>1, <6>2, <6>3
        <5>2. PICK e \in errors' : e.name = n /\ (e.node = h \/ e.old = h)
          <6>1. Complaints(n, strong) \subseteq errors'
            BY <1>3
          <6>2. /\ Collide(c, n, h).name = n /\ Collide(c, n, h).old = h
                /\ \A o : Redefine(h, n, o).name = n /\ Redefine(h, n, o).node = h
            BY DEF Collide, Redefine
          <6>. QED BY <5>1, <6>1, <6>2
        <5>. QED BY <5>2 DEF Named
      <4>. QED BY <4>1, <4>2
    <3>8. ~Reserved(s, n)' => Strong(s, n)' \subseteq Owners(s, n)' \cup Named(n)'
      BY <2>5, <2>11, <3>6, <3>7
    <3>. QED BY <2>5, <3>3, <3>4, <3>5, <3>8 DEF Accounted
  <2>14. Marked(s, n)' /\ Registered(s, n)'
    <3>1. \A x : IsFirst(x, Defs(s, n))' <=> IsFirst(x, Defs(s, n))
      BY <2>5 DEF IsFirst
    <3>. QED BY <1>3, <2>3, <2>5, <3>1 DEF Marked, Registered
  <2>. QED BY <2>12, <2>13, <2>14
<1>14. \A r \in Scope, m \in Name :
         Placed(r, m)' /\ Accounted(r, m)' /\ Marked(r, m)' /\ Registered(r, m)'
  BY <1>12, <1>13
<1>15. LookupsAgree'
  BY <1>3, <1>6 DEF LookupsAgree
<1>. QED BY <1>8, <1>9, <1>10, <1>14, <1>15 DEF DefInv


\* self.n = ... and imports: no place of the other tables is touched.
LEMMA AsideDefInv ==
  ASSUME DefInv, NEW n \in Name, AssignSelf(n) \/ Import(n)
  PROVE  DefInv'
<1>1. PICK kind \in {"import", "self"} : Visit(kind, {n})
  BY DEF AssignSelf, Import
<1>2. /\ UNCHANGED <<scope, within, cls, func, local, redefined, errors, entry, phase>>
      /\ impt' = impt \/ impt' = [impt EXCEPT ![scope][n] = Here]
  BY DEF AssignSelf, Import
<1>3. TypesInv /\ OneName /\ kind \in Kind /\ {n} \in SUBSET Name /\ scope \in Scope
      /\ redefined \subseteq 1..Len(prog) /\ kind \notin {"def", "overload"}
  BY DEF DefInv, TypesInv, Kind
<1>4. /\ phase = "define" /\ block' = block
      /\ prog' \in Seq(Statement) /\ Len(prog') <= MaxLine /\ Len(prog') = Here
      /\ Here \in Nat \ {0} /\ Here = Len(prog) + 1 /\ Len(prog) \in Nat
  BY <1>1, <1>3, VisitFacts
<1>5. impt' \in Table(Nat)
  <2>1. PICK h : h = Here
    OBVIOUS
  <2>2. impt' = impt \/ impt' = [impt EXCEPT ![scope][n] = h]
    BY <1>2, <2>1
  <2>3. impt \in Table(Nat) /\ h \in Nat
    BY <1>3, <1>4, <2>1 DEF TypesInv
  <2>4. CASE impt' = impt
    BY <2>3, <2>4
  <2>5. CASE impt' = [impt EXCEPT ![scope][n] = h]
    BY <1>3, <2>3, <2>5 DEF Table
  <2>. QED BY <2>2, <2>4, <2>5
<1>6. TypesInv'
  BY <1>2, <1>3, <1>4, <1>5 DEF TypesInv
<1>7. OneName'
  BY <1>1, <1>3, OneNameKept
<1>8. redefined' \subseteq 1..Len(prog')
  BY <1>2, <1>3, <1>4
<1>9. ASSUME NEW r \in Scope, NEW m \in Name
      PROVE  Placed(r, m)' /\ Accounted(r, m)' /\ Marked(r, m)' /\ Registered(r, m)'
  BY <1>1, <1>2, <1>3, OtherPlace
<1>10. LookupsAgree'
  BY <1>2, <1>4 DEF LookupsAgree
<1>. QED BY <1>6, <1>7, <1>8, <1>9, <1>10 DEF DefInv

\* A step that visits no statement keeps what the places are.
LEMMA PlacesKept ==
  ASSUME DefInv, UNCHANGED <<block, prog, cls, func, local>>, errors \subseteq errors'
  PROVE  /\ OneName'
         /\ \A s \in Scope, n \in Name : Placed(s, n)' /\ Accounted(s, n)'
<1>1. \A s, n, K : Lines(s, n, K)' = Lines(s, n, K)
  BY SameLines
<1>2. OneName'
  BY DEF DefInv, OneName
<1>3. ASSUME NEW s \in Scope, NEW n \in Name
      PROVE  Placed(s, n)' /\ Accounted(s, n)'
  <2>1. Placed(s, n) /\ Accounted(s, n)
    BY DEF DefInv
  <2>2. /\ Classes(s, n)' = Classes(s, n) /\ Defs(s, n)' = Defs(s, n)
        /\ Strong(s, n)' = Strong(s, n) /\ Weak(s, n)' = Weak(s, n)
    BY <1>1 DEF Classes, Defs, Strong, Weak
  <2>3. Reserved(s, n)' <=> Reserved(s, n)
    BY DEF Reserved
  <2>4. Placed(s, n)'
    BY <2>1, <2>2, <2>3 DEF Placed
  <2>5. \A x : IsFirst(x, Defs(s, n))' <=> IsFirst(x, Defs(s, n))
    BY <2>2 DEF IsFirst
  <2>6. Owners(s, n)' = Owners(s, n) /\ Named(n) \subseteq Named(n)'
    BY NamedGrows DEF Owners
  <2>7. Accounted(s, n)'
    BY <2>1, <2>2, <2>3, <2>5, <2>6 DEF Accounted
  <2>. QED BY <2>4, <2>7
<1>. QED BY <1>2, <1>3

LEMMA MarkedKept ==
  ASSUME UNCHANGED <<prog, cls, redefined>>, phase' = "define" => phase = "define",
         NEW s, NEW n, Marked(s, n)
  PROVE  Marked(s, n)'
<1>1. Defs(s, n)' = Defs(s, n) /\ Lines(s, n, {"def"})' = Lines(s, n, {"def"})
  BY SameLines DEF Defs
<1>2. \A x : IsFirst(x, Defs(s, n))' <=> IsFirst(x, Defs(s, n))
  BY <1>1 DEF IsFirst
<1>. QED BY <1>1, <1>2 DEF Marked

LEMMA LeaveClassDefInv ==
  ASSUME DefInv, LeaveClass \/ UNCHANGED vars
  PROVE  DefInv'
<1>1. /\ UNCHANGED <<block, prog, cls, func, local, impt, redefined, errors, entry, phase>>
      /\ TypesInv /\ redefined \subseteq 1..Len(prog) /\ LookupsAgree
  BY DEF LeaveClass, vars, tables, DefInv
<1>2. \A V : \A t \in Seq(V) : SubSeq(t, 1, Len(t) - 1) \in Seq(V)
                               /\ Len(SubSeq(t, 1, Len(t) - 1)) <= Len(t)
  <2>. SUFFICES ASSUME NEW V, NEW t \in Seq(V)
                PROVE  /\ SubSeq(t, 1, Len(t) - 1) \in Seq(V)
                       /\ Len(SubSeq(t, 1, Len(t) - 1)) <= Len(t)
    OBVIOUS
  <2>0. PICK k : k = Len(t) - 1
    OBVIOUS
  <2>1. k \in Int /\ k = Len(t) - 1 /\ Len(t) \in Nat
    BY <2>0
  <2>2. \A i \in 1..k : t[i] \in V
    BY <2>1
  <2>3. SubSeq(t, 1, k) \in Seq(V) /\ Len(SubSeq(t, 1, k)) = IF 1 <= k THEN k - 1 + 1 ELSE 0
    <3>1. 1 \in Int
      OBVIOUS
    <3>. QED BY <2>1, <2>2, <3>1, SubSeqProperties
  <2>. QED BY <2>1, <2>3
<1>3. scope' \in Scope /\ within' \in Seq(Line)
  <2>1. /\ scope \in Scope /\ within \in Seq(Line) /\ scope \in Seq(Name)
        /\ Len(scope) <= MaxDepth /\ MaxDepth \in Nat
    BY <1>1, ScopeProperties, BlocksAssumption DEF TypesInv
  <2>2. CASE LeaveClass
    <3>1. /\ scope' = SubSeq(scope, 1, Len(scope) - 1)
          /\ within' = SubSeq(within, 1, Len(within) - 1)
      BY <2>2 DEF LeaveClass
    <3>2. scope' \in Seq(Name) /\ Len(scope') <= Len(scope) /\ within' \in Seq(Line)
      BY <1>2, <2>1, <3>1
    <3>3. Len(scope') <= MaxDepth
      BY <2>1, <3>2
    <3>. QED BY <3>2, <3>3, ScopeProperties
  <2>3. CASE UNCHANGED vars
    BY <2>1, <2>3 DEF vars
  <2>. QED BY <2>2, <2>3
<1>4. TypesInv'
  BY <1>1, <1>3 DEF TypesInv
<1>5. OneName' /\ \A s \in Scope, n \in Name : Placed(s, n)' /\ Accounted(s, n)'
  BY <1>1, PlacesKept
<1>6. ASSUME NEW s \in Scope, NEW n \in Name PROVE Marked(s, n)' /\ Registered(s, n)'
  <2>1. Marked(s, n) /\ Registered(s, n)
    BY DEF DefInv
  <2>. QED BY <1>1, <2>1, MarkedKept DEF Registered
<1>7. LookupsAgree'
  BY <1>1 DEF LookupsAgree, GetDef
<1>. QED BY <1>1, <1>4, <1>5, <1>6, <1>7 DEF DefInv

LEMMA LeastOf ==
  ASSUME NEW T \in SUBSET Nat, T # {}
  PROVE  \E x \in T : \A y \in T : x <= y
<1>1. PICK x \in T : \A y \in T : ~(<<y, x>> \in OpToRel(<, Nat))
  BY NatLessThanWellFounded, WFMin
<1>2. \A y \in T : ~(y < x)
  BY <1>1 DEF OpToRel
<1>. QED BY <1>2

LEMMA ResolveDefInv ==
  ASSUME DefInv, ResolveFunctions
  PROVE  DefInv'
<1>. DEFINE marks == UNION {{func[s][n][i] : i \in Surplus(s, n)} : s \in Scope, n \in Name}
<1>1. /\ phase = "define" /\ phase' = "resolved" /\ redefined' = redefined \cup marks
      /\ UNCHANGED <<block, prog, scope, within, cls, func, local, impt, attr, entry>>
      /\ errors \subseteq errors'
      /\ TypesInv /\ OneName /\ redefined \subseteq 1..Len(prog)
  BY DEF ResolveFunctions, tables, DefInv
<1>2. \A x \in marks : \E r \in Scope, m \in Name : \E i \in Surplus(r, m) : x = func[r][m][i]
  OBVIOUS
<1>. HIDE DEF marks
<1>3. ASSUME NEW r \in Scope, NEW m \in Name, NEW i \in DOMAIN func[r][m]
      PROVE  /\ func[r][m][i] \in Defs(r, m) /\ Classes(r, m) = {} /\ cls[r][m] = 0
             /\ func[r][m] \in Seq(Nat)
             /\ \A j, k \in DOMAIN func[r][m] : j < k => func[r][m][j] < func[r][m][k]
  <2>1. Shape(cls[r][m], func[r][m], local[r][m], Classes(r, m), Defs(r, m))
    BY DEF DefInv, Placed
  <2>2. func[r][m] \in Seq(Nat)
    BY <1>1 DEF TypesInv, Table
  <2>3. Classes(r, m) = {}
    BY <1>3, <2>1, <2>2 DEF Shape
  <2>. QED BY <1>3, <2>1, <2>2, <2>3 DEF Shape, IsFirst
<1>4. \A r, m, K : Lines(r, m, K) \subseteq 1..Len(prog)
  BY <1>1, LinesProperties
<1>5. \A x \in marks : x \in 1..Len(prog)
  BY <1>2, <1>3, <1>4 DEF Surplus, Plain, Defs
<1>6. TypesInv'
  BY <1>1 DEF TypesInv
<1>7. OneName' /\ \A s \in Scope, n \in Name : Placed(s, n)' /\ Accounted(s, n)'
  BY <1>1, PlacesKept
<1>8. ASSUME NEW s \in Scope, NEW n \in Name, NEW l \in Defs(s, n), l \in marks
      PROVE  \E m \in Lines(s, n, {"def"}) \ redefined' : m < l
  <2>0. PICK r \in Scope, m \in Name : \E i \in Surplus(r, m) : l = func[r][m][i]
    BY <1>2, <1>8
  <2>1. PICK i \in Surplus(r, m) : l = func[r][m][i]
    BY <2>0
  <2>2. i \in DOMAIN func[r][m]
    BY <2>1 DEF Surplus, Plain
  <2>3. r = s /\ m = n
    BY <1>1, <1>3, <1>8, <2>1, <2>2, DefsApart
  <2>4. PICK f : f = func[s][n]
    OBVIOUS
  <2>5. /\ f \in Seq(Nat) /\ \A j, k \in DOMAIN f : j < k => f[j] < f[k]
        /\ \A j \in DOMAIN f : f[j] \in Defs(s, n)
        /\ cls[s][n] = 0
    BY <1>3, <2>2, <2>3, <2>4
  <2>6. PICK P \in SUBSET Nat : P = Plain(s, n) /\ P \subseteq DOMAIN f
    <3>1. Plain(s, n) \subseteq DOMAIN f
      BY <2>4 DEF Plain
    <3>2. DOMAIN f \subseteq Nat
      BY <2>5
    <3>. QED BY <3>1, <3>2
  <2>7. i \in P /\ \E k \in P : k < i
    BY <2>1, <2>3, <2>6 DEF Surplus
  <2>8. PICK j \in P : \A k \in P : j <= k
    BY <2>7, LeastOf
  <2>9. j < i /\ f[j] < l
    BY <2>1, <2>3, <2>4, <2>5, <2>6, <2>7, <2>8
  <2>10. f[j] \in Lines(s, n, {"def"})
    <3>1. f[j] \in Defs(s, n) /\ prog[f[j]].kind = "def"
      BY <2>4, <2>5, <2>6, <2>8 DEF Plain
    <3>. QED BY <3>1 DEF Defs, Lines
  <2>11. f[j] \notin redefined
    <3>1. f[j] \in Defs(s, n) /\ Marked(s, n)
      BY <2>5, <2>6, <2>8 DEF DefInv
    <3>. QED BY <1>1, <2>5, <3>1 DEF Marked
  <2>12. ASSUME f[j] \in marks PROVE FALSE
    <3>0. PICK q \in Scope, p \in Name : \E k \in Surplus(q, p) : f[j] = func[q][p][k]
      BY <1>2, <2>12
    <3>1. PICK k \in Surplus(q, p) : f[j] = func[q][p][k]
      BY <3>0
    <3>2. k \in DOMAIN func[q][p] /\ f[j] \in Defs(s, n)
      BY <2>5, <2>6, <2>8, <3>1 DEF Surplus, Plain
    <3>3. q = s /\ p = n
      BY <1>1, <1>3, <3>1, <3>2, DefsApart
    <3>4. k \in P /\ \E x \in P : x < k
      BY <2>6, <3>1, <3>3 DEF Surplus
    <3>5. f[j] = f[k] /\ j < k
      BY <2>4, <2>6, <2>8, <3>1, <3>3, <3>4
    <3>6. f[j] < f[k] /\ f[j] \in Nat /\ f[k] \in Nat
      BY <2>5, <2>6, <2>8, <3>4, <3>5
    <3>. QED BY <3>5, <3>6
  <2>. QED BY <1>1, <2>9, <2>10, <2>11, <2>12
<1>9. ASSUME NEW s \in Scope, NEW n \in Name PROVE Marked(s, n)' /\ Registered(s, n)'
  <2>1. Marked(s, n) /\ Registered(s, n)
    BY DEF DefInv
  <2>2. Defs(s, n)' = Defs(s, n) /\ Lines(s, n, {"def"})' = Lines(s, n, {"def"})
    BY <1>1, SameLines DEF Defs
  <2>3. \A x : IsFirst(x, Defs(s, n))' <=> IsFirst(x, Defs(s, n))
    BY <2>2 DEF IsFirst
  <2>4. Marked(s, n)'
    BY <1>1, <1>8, <2>1, <2>2, <2>3 DEF Marked
  <2>. QED BY <1>1, <2>1, <2>4 DEF Registered
<1>10. redefined' \subseteq 1..Len(prog')
  BY <1>1, <1>5
<1>11. LookupsAgree'
  BY <1>1 DEF LookupsAgree
<1>. QED BY <1>6, <1>7, <1>9, <1>10, <1>11 DEF DefInv

LEMMA DumpDefInv ==
  ASSUME DefInv, Dump
  PROVE  DefInv'
<1>1. /\ phase = "resolved" /\ phase' = "dumped"
      /\ UNCHANGED <<block, prog, scope, within, cls, func, local, impt, attr, redefined, errors>>
      /\ TypesInv /\ redefined \subseteq 1..Len(prog)
  BY DEF Dump, tables, DefInv
<1>2. \A s \in Scope, n \in Name :
        /\ cls[s][n] \in Nat /\ local[s][n] \in Nat /\ impt[s][n] \in Nat
        /\ func[s][n] \in Seq(Nat) /\ entry[s][n] \in [kind : EntryKind, line : Nat]
  BY <1>1 DEF TypesInv, Table
<1>3. \A s \in Scope, n \in Name :
        /\ impt[s][n] # 0 => entry'[s][n] = Entry("import", impt[s][n])
        /\ impt[s][n] = 0 /\ func[s][n] # <<>> => entry'[s][n] = Entry("func", func[s][n][1])
        /\ impt[s][n] = 0 /\ func[s][n] = <<>> /\ local[s][n] # 0 =>
             entry'[s][n] = Entry("local", local[s][n])
        /\ impt[s][n] = 0 /\ func[s][n] = <<>> /\ local[s][n] = 0 =>
             entry'[s][n] = entry[s][n]
  BY DEF Dump
<1>4. entry' \in Table([kind : EntryKind, line : Nat])
  <2>1. ASSUME NEW s \in Scope, NEW n \in Name
        PROVE  entry'[s][n] \in [kind : EntryKind, line : Nat]
    <3>1. \A x \in Nat : \A k \in EntryKind : Entry(k, x) \in [kind : EntryKind, line : Nat]
      BY DEF Entry
    <3>2. func[s][n] # <<>> => func[s][n][1] \in Nat
      BY <1>2
    <3>3. "import" \in EntryKind /\ "func" \in EntryKind /\ "local" \in EntryKind
      BY DEF EntryKind
    <3>. QED BY <1>2, <1>3, <3>1, <3>2, <3>3
  <2>2. entry' = [s \in Scope |-> [n \in Name |-> entry'[s][n]]]
    BY DEF Dump
  <2>. QED BY <2>1, <2>2 DEF Table
<1>5. TypesInv'
  BY <1>1, <1>4 DEF TypesInv
<1>6. OneName' /\ \A s \in Scope, n \in Name : Placed(s, n)' /\ Accounted(s, n)'
  BY <1>1, PlacesKept
<1>7. ASSUME NEW s \in Scope, NEW n \in Name PROVE Marked(s, n)' /\ Registered(s, n)'
  <2>1. Marked(s, n)
    BY DEF DefInv
  <2>. QED BY <1>1, <2>1, MarkedKept DEF Registered
<1>8. ASSUME NEW s \in Scope, NEW n \in Name, impt[s][n] = 0
      PROVE  entry'[s][n] = GetDef(s, n)
  <2>1. /\ Shape(cls[s][n], func[s][n], local[s][n], Classes(s, n), Defs(s, n))
        /\ Registered(s, n)
    BY DEF DefInv, Placed
  <2>2. cls[s][n] = 0 <=> Classes(s, n) = {}
    <3>1. 0 \notin Classes(s, n)
      BY <1>1, LinesProperties DEF Classes
    <3>. QED BY <2>1, <3>1 DEF Shape, IsFirst
  <2>3. CASE cls[s][n] # 0
    BY <1>1, <1>3, <1>8, <2>1, <2>2, <2>3 DEF Shape, Registered, GetDef
  <2>4. CASE cls[s][n] = 0
    <3>1. func[s][n] # <<>> => local[s][n] = 0
      <4>1. func[s][n] # <<>> => 1 \in DOMAIN func[s][n]
        BY <1>2
      <4>. QED BY <2>1, <2>2, <2>4, <4>1 DEF Shape
    <3>. QED BY <1>1, <1>3, <1>8, <2>1, <2>4, <3>1 DEF Registered, GetDef
  <2>. QED BY <2>3, <2>4
<1>9. LookupsAgree'
  <2>1. \A s, n : impt[s][n] = 0 => GetDef(s, n)' = GetDef(s, n)
    BY <1>1 DEF GetDef
  <2>. QED BY <1>1, <1>8, <2>1 DEF LookupsAgree
<1>. QED BY <1>1, <1>5, <1>6, <1>7, <1>9 DEF DefInv


LEMMA StepDefInv ==
  ASSUME DefInv, [Next]_vars
  PROVE  DefInv'
<1>1. ASSUME NEW n \in Name, RedefineClass(n) PROVE DefInv'
  BY <1>1, RedefineClassDefInv
<1>2. ASSUME NEW n \in Name, DefineClass(n) PROVE DefInv'
  BY <1>2, DefineClassDefInv
<1>3. ASSUME NEW n \in Name, AssignSelf(n) \/ Import(n) PROVE DefInv'
  BY <1>3, AsideDefInv
<1>4. ASSUME NEW n \in Name, NEW kind \in {"def", "overload"}, DefineFunction(n, kind)
      PROVE  DefInv'
  BY <1>4, DefineFunctionDefInv
<1>5. ASSUME NEW names \in SUBSET Name, NEW strong \in BOOLEAN, Assign(names, strong)
      PROVE  DefInv'
  BY <1>5, AssignDefInv
<1>6. CASE LeaveClass \/ UNCHANGED vars
  BY <1>6, LeaveClassDefInv
<1>7. CASE ResolveFunctions
  BY <1>7, ResolveDefInv
<1>8. CASE Dump
  BY <1>8, DumpDefInv
<1>. QED BY <1>1, <1>2, <1>3, <1>4, <1>5, <1>6, <1>7, <1>8 DEF Next

LEMMA InvSkipped ==
  ASSUME DefInv
  PROVE  SkippedIsSuperseded
<1>. SUFFICES ASSUME NEW s \in Scope, NEW n \in Name, NEW l \in Defs(s, n)
              PROVE  /\ l \in redefined =>
                          \/ cls[s][n] # 0
                          \/ \E m \in Lines(s, n, {"def"}) \ redefined : m < l
                     /\ cls[s][n] # 0 /\ IsFirst(l, Defs(s, n)) => ~Inferred(l)
  BY DEF SkippedIsSuperseded, Defs
<1>1. Marked(s, n)
  BY DEF DefInv
<1>. QED BY <1>1 DEF Marked, Inferred

-----------------------------------------------------------------------------
(* The properties of the module, of every block *)

LEMMA InvDefInv == Spec => []DefInv
BY InitDefInv, StepDefInv, PTL DEF Spec

\* Whatever the order of the statements, the tables have the definition that
\* comes first by the priority of add_cls_def, add_func_def and add_local_def.
THEOREM PriorityFollowed == Spec => []TablesFollowPriority
BY InvDefInv, DefInvPlaces, PTL

\* A class, an annotated assignment or the first definition of a function that
\* does not get its name is named in a SymbolRedefine or VarTypeCollide.
THEOREM LossReported == Spec => []LossesReported
BY InvDefInv, DefInvPlaces, PTL

\* What dump() leaves in the symbol table is what get_def answered before.
THEOREM SameLookup == Spec => []LookupsAgree
<1>1. DefInv => LookupsAgree
  BY DEF DefInv
<1>. QED BY <1>1, InvDefInv, PTL

\* What inference skips has lost its name to a class or to a definition that is
\* not skipped; and of a function that a class has replaced the first definition
\* is skipped.  (The others are marked by nobody, prepinfo.py:82.)
THEOREM SkippedSuperseded == Spec => []SkippedIsSuperseded
BY InvDefInv, InvSkipped, PTL

=============================================================================
