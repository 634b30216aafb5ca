----------------------------- MODULE Definitions -----------------------------
(***************************************************************************)
(* The definitions of one block: TypeDefVisitor (preprocess/definition.py) *)
(* walks over its statements and fills the tables of a PrepInfo            *)
(* (preprocess/prepinfo.py); resolve_func looks for functions defined      *)
(* twice; dump() hands the names to the symbol table, in which inference   *)
(* looks them up.                                                          *)
(*                                                                         *)
(* A program is any sequence of statements.  A statement is known by its   *)
(* line; a PrepInfo by the path of the classes it is nested in: a class    *)
(* that is defined again gets the PrepInfo of the first one.               *)
(***************************************************************************)
EXTENDS Naturals, Sequences, FiniteSets

CONSTANTS
  Name,
  Blocks,       \* the kinds of blocks considered, see BlockKind
  MaxLine,      \* bound on the statements of a program
  MaxDepth      \* bound on the nesting of classes

\* outside: PrepInfo.outside, the parameters of a function; special: the block
\* is builtins, typing or typing_extensions; predefined: the names that such a
\* module's symbol table has from the start; method: the body of a method.
BlockKind == [outside : SUBSET Name, special : BOOLEAN,
              predefined : SUBSET Name, method : BOOLEAN]

ASSUME BlocksAssumption ==
  /\ Blocks \subseteq BlockKind
  /\ MaxLine \in Nat /\ MaxDepth \in Nat

VARIABLES
  block,      \* what kind of block it is
  prog,       \* the statements visited so far
  scope,      \* TypeDefVisitor.prepinfo
  within,     \* lines of the class statements that are open
  cls,        \* PrepInfo.cls, by PrepInfo and name: a line, 0 if there is none
  func,       \* PrepInfo.func: the lines of prep_func.defnodes
  local,      \* PrepInfo.local
  impt,       \* PrepInfo.impt
  attr,       \* PrepMethodInfo.var_attr
  redefined,  \* the statements whose reach is REDEFINE
  errors,     \* what is in the errbox
  entry,      \* SymTable.local, by PrepInfo and name
  phase       \* "define", "resolved", "dumped"

tables == <<cls, func, local, impt, attr>>
vars == <<block, prog, scope, within, tables, redefined, errors, entry, phase>>

Scope == UNION {[1..d -> Name] : d \in 0..MaxDepth}
Line == 1..MaxLine

Kind == {"class", "def", "overload", "assign", "annotated", "import", "self"}
Statement ==
  [kind : Kind, scope : Scope, names : SUBSET Name, within : SUBSET Line]

Redefine(l, n, old) == [kind |-> "SymbolRedefine", node |-> l, name |-> n, old |-> old]
Collide(l, n, old) == [kind |-> "VarTypeCollide", node |-> l, name |-> n, old |-> old]

Entry(kind, l) == [kind |-> kind, line |-> l]
NoEntry == Entry("none", 0)

Init ==
  /\ block \in Blocks
  /\ prog = <<>> /\ scope = <<>> /\ within = <<>>
  /\ cls = [s \in Scope |-> [n \in Name |-> 0]]
  /\ local = cls /\ impt = cls
  /\ func = [s \in Scope |-> [n \in Name |-> <<>>]]
  /\ attr = [n \in Name |-> 0]
  /\ redefined = {} /\ errors = {}
  /\ entry = [s \in Scope |-> [n \in Name |-> NoEntry]]
  /\ phase = "define"

-----------------------------------------------------------------------------
Here == Len(prog) + 1

\* The visitor comes to a statement.
Visit(kind, names) ==
  /\ phase = "define"
  /\ Len(prog) < MaxLine
  /\ UNCHANGED block
  /\ prog' = Append(prog, [kind |-> kind, scope |-> scope, names |-> names,
                           within |-> {within[i] : i \in DOMAIN within}])

EnterClass(n) ==
  /\ Len(scope) < MaxDepth
  /\ scope' = Append(scope, n) /\ within' = Append(within, Here)

(* add_cls_def *)

RedefineClass(n) ==
  /\ cls[scope][n] # 0
  /\ Visit("class", {n})
  /\ errors' = errors \cup {Redefine(Here, n, cls[scope][n])}
  /\ redefined' = redefined \cup {Here}
  /\ EnterClass(n)
  /\ UNCHANGED <<tables, entry, phase>>

\* Mutation of DefineClass: the local symbol keeps its place.
DefineClassBeside(n) ==
  /\ cls[scope][n] = 0
  /\ Visit("class", {n})
  /\ errors' = errors
  /\ cls' = [cls EXCEPT ![scope][n] = Here]
  /\ entry' = [entry EXCEPT ![scope][n] = Entry("class", Here)]
  /\ EnterClass(n)
  /\ UNCHANGED <<func, local, impt, attr, redefined, phase>>

\* A class takes the name from a local symbol or else from a function.  Of the
\* function only the first definition is reported and marked.
DefineClass(n) ==
  /\ cls[scope][n] = 0
  /\ Visit("class", {n})
  /\ LET l == local[scope][n]
         fs == func[scope][n]
         old == IF l # 0 THEN {l} ELSE IF fs # <<>> THEN {fs[1]} ELSE {}
     IN  /\ errors' = errors \cup {Collide(Here, n, o) : o \in old}
         /\ local' = [local EXCEPT ![scope][n] = 0]
         /\ func' = IF l # 0 THEN func ELSE [func EXCEPT ![scope][n] = <<>>]
         /\ redefined' = IF l # 0 THEN redefined ELSE redefined \cup old
  /\ cls' = [cls EXCEPT ![scope][n] = Here]
  /\ entry' = [entry EXCEPT ![scope][n] = Entry("class", Here)]
  /\ EnterClass(n)
  /\ UNCHANGED <<impt, attr, phase>>

LeaveClass ==
  /\ phase = "define" /\ scope # <<>>
  /\ scope' = SubSeq(scope, 1, Len(scope) - 1)
  /\ within' = SubSeq(within, 1, Len(within) - 1)
  /\ UNCHANGED <<block, prog, tables, redefined, errors, entry, phase>>

(* add_func_def *)

DefineFunction(n, kind) ==
  /\ Visit(kind, {n})
  /\ \/ /\ func[scope][n] # <<>>
        /\ func' = [func EXCEPT ![scope][n] = Append(@, Here)]
        /\ UNCHANGED <<local, redefined, errors>>
     \/ /\ func[scope][n] = <<>> /\ cls[scope][n] # 0
        /\ errors' = errors \cup {Collide(cls[scope][n], n, Here)}
        /\ redefined' = redefined \cup {Here}
        /\ UNCHANGED <<func, local>>
     \/ /\ func[scope][n] = <<>> /\ cls[scope][n] = 0
        /\ errors' = errors \cup
             {Collide(Here, n, o) : o \in {local[scope][n]} \ {0}}
        /\ local' = [local EXCEPT ![scope][n] = 0]
        /\ func' = [func EXCEPT ![scope][n] = <<Here>>]
        /\ UNCHANGED redefined
  /\ UNCHANGED <<scope, within, cls, impt, attr, entry, phase>>

(* add_local_def *)

\* A special module's own table goes before what its stub file assigns.
Known(n) == block.special /\ scope = <<>> /\ (n \in block.predefined \/ entry[scope][n] # NoEntry)

\* Is an assignment annotated, or does it have a type comment?
IsStrong(l) == prog[l].kind = "annotated"

\* Mutation of Takes: an annotation replaces an earlier annotation.
TakesLatest(n, strong) ==
  /\ ~Known(n)
  /\ cls[scope][n] = 0 /\ func[scope][n] = <<>>
  /\ IF local[scope][n] # 0 THEN strong ELSE ~(scope = <<>> /\ n \in block.outside)

\* Does the name n become the local symbol of this assignment?
Takes(n, strong) ==
  /\ ~Known(n)
  /\ cls[scope][n] = 0 /\ func[scope][n] = <<>>
  /\ IF local[scope][n] # 0
     THEN strong /\ ~IsStrong(local[scope][n])
     ELSE ~(scope = <<>> /\ n \in block.outside)

\* Mutation of Complaints: a function's name may be assigned to.
ComplaintsOfClass(n, strong) ==
  IF Known(n) THEN {}
  ELSE IF cls[scope][n] # 0 THEN {Collide(cls[scope][n], n, Here)}
  ELSE {}

Complaints(n, strong) ==
  IF Known(n) THEN {}
  ELSE IF cls[scope][n] # 0 THEN {Collide(cls[scope][n], n, Here)}
  ELSE IF func[scope][n] # <<>> THEN {Redefine(Here, n, func[scope][n][1])}
  ELSE IF local[scope][n] # 0 /\ strong /\ IsStrong(local[scope][n])
  THEN {Redefine(Here, n, local[scope][n])}
  ELSE {}

\* One assignment may have several targets.
Assign(names, strong) ==
  /\ Visit(IF strong THEN "annotated" ELSE "assign", names)
  /\ local' = [local EXCEPT ![scope] =
       [n \in Name |-> IF n \in names /\ Takes(n, strong) THEN Here ELSE @[n]]]
  /\ errors' = errors \cup UNION {Complaints(n, strong) : n \in names}
  /\ UNCHANGED <<scope, within, cls, func, impt, attr, redefined, entry, phase>>

\* self.n = ..., in a method and outside its classes: the first one counts.
AssignSelf(n) ==
  /\ block.method /\ scope = <<>>
  /\ Visit("self", {n})
  /\ attr' = IF attr[n] = 0 THEN [attr EXCEPT ![n] = Here] ELSE attr
  /\ UNCHANGED <<scope, within, cls, func, local, impt, redefined, errors,
                 entry, phase>>

\* The end of add_import_def; no collision is looked for.
Import(n) ==
  /\ Visit("import", {n})
  /\ impt' = [impt EXCEPT ![scope][n] = Here]
  /\ UNCHANGED <<scope, within, cls, func, local, attr, redefined, errors,
                 entry, phase>>

-----------------------------------------------------------------------------
\* resolve_func_template: of the definitions that are not overloads, the first
\* one counts.
Plain(s, n) ==
  {i \in DOMAIN func[s][n] : prog[func[s][n][i]].kind = "def"}

\* Mutation of Surplus: the last one counts.
SurplusButLast(s, n) ==
  {i \in Plain(s, n) : \E j \in Plain(s, n) : j > i}

Surplus(s, n) ==
  {i \in Plain(s, n) : \E j \in Plain(s, n) : j < i}

ResolveFunctions ==
  /\ phase = "define" /\ scope = <<>>
  /\ redefined' = redefined \cup
       UNION {{func[s][n][i] : i \in Surplus(s, n)} : s \in Scope, n \in Name}
  /\ LET first(s, n) == CHOOSE i \in Plain(s, n) : \A j \in Plain(s, n) : i <= j
     IN  errors' = errors \cup
           UNION {{Redefine(func[s][n][i], n, func[s][n][first(s, n)]) :
                     i \in Surplus(s, n)} : s \in Scope, n \in Name}
  /\ phase' = "resolved"
  /\ UNCHANGED <<block, prog, scope, within, tables, entry>>

\* dump(): the local symbols, then the functions, then the imports.
Dump ==
  /\ phase = "resolved"
  /\ entry' = [s \in Scope |-> [n \in Name |->
       IF impt[s][n] # 0 THEN Entry("import", impt[s][n])
       ELSE IF func[s][n] # <<>> THEN Entry("func", func[s][n][1])
       ELSE IF local[s][n] # 0 THEN Entry("local", local[s][n])
       ELSE entry[s][n]]]
  /\ phase' = "dumped"
  /\ UNCHANGED <<block, prog, scope, within, tables, redefined, errors>>

Next ==
  \/ \E n \in Name :
       \/ RedefineClass(n) \/ DefineClass(n) \/ Import(n) \/ AssignSelf(n)
       \/ \E kind \in {"def", "overload"} : DefineFunction(n, kind)
  \/ \E names \in (SUBSET Name) \ {{}}, strong \in BOOLEAN : Assign(names, strong)
  \/ LeaveClass
  \/ ResolveFunctions \/ Dump

Spec == Init /\ [][Next]_vars

-----------------------------------------------------------------------------
(* Properties *)

\* The lines that define n in the PrepInfo s by a statement of these kinds.
Lines(s, n, kinds) ==
  {l \in 1..Len(prog) : /\ prog[l].scope = s /\ n \in prog[l].names
                        /\ prog[l].kind \in kinds}
IsFirst(l, S) == IF S = {} THEN l = 0 ELSE l \in S /\ \A m \in S : l <= m

(***************************************************************************)
(* Definition priority (prepinfo.py:76): the first class has the name;     *)
(* without a class, all the functions of that name together; without a     *)
(* function, the first annotated assignment, or the first assignment of    *)
(* all if none is annotated.  Whatever the order of the statements.        *)
(***************************************************************************)
TablesFollowPriority ==
  \A s \in Scope, n \in Name :
    LET classes == Lines(s, n, {"class"})
        defs == Lines(s, n, {"def", "overload"})
        strong == Lines(s, n, {"annotated"})
        weak == Lines(s, n, {"assign"})
        reserved == s = <<>> /\ (n \in block.outside \/ block.special)
    IN  /\ IsFirst(cls[s][n], classes)
        /\ classes # {} => func[s][n] = <<>> /\ local[s][n] = 0
        /\ classes = {} =>
             /\ {func[s][n][i] : i \in DOMAIN func[s][n]} = defs
             /\ \A i, j \in DOMAIN func[s][n] : i < j => func[s][n][i] < func[s][n][j]
             /\ defs # {} => local[s][n] = 0
             /\ defs = {} /\ ~reserved =>
                  IF strong # {} THEN IsFirst(local[s][n], strong)
                  ELSE IsFirst(local[s][n], weak)

\* A class, an annotated assignment or the first definition of a function that
\* does not get the name it defines is named in an error.
LossesReported ==
  \A s \in Scope, n \in Name :
    LET defs == Lines(s, n, {"def", "overload"})
        owners == {cls[s][n], local[s][n]} \cup {func[s][n][i] : i \in DOMAIN func[s][n]}
        reserved == s = <<>> /\ (n \in block.outside \/ block.special)
    IN  \A l \in Lines(s, n, Kind \ {"import", "self"}) :
          /\ l \notin owners
          /\ prog[l].kind = "class"
             \/ (prog[l].kind = "annotated" /\ ~reserved)
             \/ IsFirst(l, defs)
          => \E e \in errors : e.name = n /\ l \in {e.node, e.old}

\* get_def, which the other modules of the batch ask.
GetDef(s, n) ==
  IF cls[s][n] # 0 THEN Entry("class", cls[s][n])
  ELSE IF local[s][n] # 0 THEN Entry("local", local[s][n])
  ELSE IF func[s][n] # <<>> THEN Entry("func", func[s][n][1])
  ELSE IF impt[s][n] # 0 THEN Entry("import", impt[s][n])
  ELSE NoEntry

\* A name that is not imported as well means the same to a module of the same
\* batch, which asks the PrepInfo, and to a later one, which asks the symbol
\* table.
LookupsAgree ==
  phase = "dumped" =>
    \A s \in Scope, n \in Name : impt[s][n] = 0 => entry[s][n] = GetDef(s, n)

\* Does inference visit the statement?  visit() leaves out what is marked.
Inferred(l) == l \notin redefined /\ prog[l].within \cap redefined = {}

\* "redefined classes and function won't be taken into consideration"
\* (reach.py:11): a definition of a function is skipped only if a class or an
\* earlier definition has its name, and the first one is if a class has it.
\* (Others of that function are not: they are inferred as functions.)
SkippedIsSuperseded ==
  phase = "dumped" =>
    \A s \in Scope, n \in Name :
      LET defs == Lines(s, n, {"def", "overload"})
      IN  \A l \in defs :
            /\ l \in redefined =>
                 \/ cls[s][n] # 0
                 \/ \E m \in Lines(s, n, {"def"}) \ redefined : m < l
            /\ cls[s][n] # 0 /\ IsFirst(l, defs) => ~Inferred(l)
=============================================================================
