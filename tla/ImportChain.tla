----------------------------- MODULE ImportChain -----------------------------
(***************************************************************************)
(* resolve_import (preprocess/resolve_impt.py): what the imported names of *)
(* the modules of one batch stand for.  The modules are visited one by     *)
(* one; `from m import n` is followed from module to module, through       *)
(* PrepEnvironment.lookup (preprocess/prepinfo.py), until it comes to a    *)
(* definition, to nothing, or back to where it has been.  Modules that are *)
(* not in the batch answer with their symbol tables.                       *)
(***************************************************************************)
EXTENDS SymTable

Whole == <<>>     \* origin_name of `import m`
Star == <<"*">>   \* origin_name and asname of `from m import *`

VARIABLES
  text,     \* module -> what it defines and imports, as read last
  version,  \* how often it has been read again
  batch,    \* the modules with a PrepInfo
  done,     \* the modules of earlier batches
  impt,     \* PrepInfo.impt, with the values, in the order of the dict
  waiting,  \* modules of the batch not visited yet
  current,  \* the module that is visited
  at,       \* how many entries are left of it (of the copy tmp_impt)
  state,    \* cur_state of the chain that is followed
  seen,     \* state_set
  buf,      \* buf_targets
  phase     \* "idle", "visit", "chain", "resolved"

chain == <<state, seen, buf>>
visit == <<impt, waiting, current, at>>
sources == <<text, version>>

\* A statement binds the name as to symid, or to the name origin in it.
Import(as, s, origin) == [as |-> as, symid |-> s, origin |-> origin, value |-> None]
\* Only the last star import is an entry: they have one name.
Text(classes, own, imports, star) ==
  [cls |-> classes, own |-> own, star |-> star,
   impt |-> imports \o IF star = <<>> THEN <<>> ELSE <<Import(Star, Last(star), Star)>>]
Defined(m) == text[m].cls \cup text[m].own

Targets == done \cup batch

-----------------------------------------------------------------------------
(* PrepEnvironment.lookup with allow_impt *)

\* get_def: a value, or the entry that has none yet.
GetDef(m, n) ==
  LET entries == {i \in DOMAIN impt[m] : impt[m][i].as = n}
      i == CHOOSE j \in entries : TRUE
  IN  IF n \in Defined(m) THEN Def(m, n, version[m])
      ELSE IF entries = {} THEN None
      ELSE IF impt[m][i].value # None THEN impt[m][i].value
      ELSE [kind |-> "entry", module |-> m, index |-> i]

\* Names that a star import brings are looked for in the modules of the batch
\* only, and not in what these star import.
Lookup(m, n) ==
  LET star == IF m \in batch THEN text[m].star ELSE <<>>
      hits == {i \in DOMAIN star : star[i] \in batch /\ GetDef(star[i], n) # None}
  IN  IF m \in batch /\ GetDef(m, n) # None THEN GetDef(m, n)
      ELSE IF hits # {}
      THEN GetDef(star[CHOOSE i \in hits : \A j \in hits : i <= j], n)
      ELSE IF m \in Targets THEN LegbLookup(m, n)
      ELSE None

-----------------------------------------------------------------------------
VisitModule(m) ==
  /\ phase = "visit" /\ at = 0 /\ m \in waiting
  /\ current' = m /\ waiting' = waiting \ {m}
  /\ at' = Len(impt[m])
  /\ UNCHANGED <<sources, batch, done, tables, impt, chain, phase>>

\* The entry that is visited, of impt as it was when the module's visit began.
Index == Len(text[current].impt) - at + 1
Visited == impt[current][Index]

(* update_symtable_import_cache: whatever is imported from a module, the    *)
(* packages on the way and the module become entries under their own names, *)
(* if these are not imported names already, and each a submodule of the one *)
(* before.                                                                  *)

Path(s) == [k \in DOMAIN s |-> SubSeq(s, 1, k)]
OnWay(s) ==
  {Path(s)[k] : k \in {j \in DOMAIN s : Path(s)[j] \in Targets /\
                         \A i \in 1..(j - 1) : Path(s)[i] \in Targets \cap Package}}
\* A module of the package that is imported from.
Inside(s, origin) ==
  IF s \in OnWay(s) \cap Package /\ origin # Whole THEN {s \o origin} \cap Targets ELSE {}
IsNew(s) == Len(s) > 1 /\ Last(s) \notin submodule[Front(s)]
\* A file that has become a submodule just now is not bound.
BoundOf(s, origin) ==
  {t \in OnWay(s) : t \in Package \/ (t = s /\ ~IsNew(s))} \cup Inside(s, origin)
NewSubmodules(s, origin) ==
  {t \in OnWay(s) : IsNew(t) /\ (t = s \/ t \in Package)} \cup Inside(s, origin)

\* The new entries at the end have no name in common: their order does not matter.
Bound(imports, entry) ==
  LET bound == BoundOf(entry.symid, entry.origin)
      free == SetToSeq(bound \ Imported(imports))
  IN  [i \in DOMAIN imports |->
         IF imports[i].as \in bound /\ imports[i].origin = Whole
         THEN [imports[i] EXCEPT !.value = Mod(imports[i].as)] ELSE imports[i]]
      \o [k \in DOMAIN free |-> [Import(free[k], free[k], Whole) EXCEPT !.value = Mod(free[k])]]

ImportModule ==
  /\ phase = "visit" /\ at > 0 /\ Visited.origin = Whole
  /\ LET s == Visited.symid
     IN  impt' = [impt EXCEPT ![current] =
                    [Bound(@, Visited) EXCEPT ![Index].value =
                       IF s \in Targets THEN Mod(s) ELSE None]]
  /\ AddSubmodules(NewSubmodules(Visited.symid, Whole))
  /\ at' = at - 1
  /\ UNCHANGED <<sources, batch, done, waiting, current, chain, phase>>

\* An entry that an earlier chain has come through has its value.
ImportFrom ==
  /\ phase = "visit" /\ at > 0 /\ Visited.origin # Whole
  /\ impt' = [impt EXCEPT ![current] = Bound(@, Visited)]
  /\ AddSubmodules(NewSubmodules(Visited.symid, Visited.origin))
  /\ IF Visited.value # None
     THEN UNCHANGED <<chain, phase>>
     ELSE /\ phase' = "chain"
          /\ state' = <<Visited.symid, Visited.origin>>
          /\ seen' = {} /\ buf' = {<<current, Index>>}
  /\ at' = at - 1
  /\ UNCHANGED <<sources, batch, done, waiting, current>>

-----------------------------------------------------------------------------
(* _resolve_import_chain *)

Found == Lookup(state[1], state[2])
FoundEntry == impt[Found.module][Found.index]

ImportLoop ==
  /\ phase = "chain" /\ state \in seen
  /\ phase' = "visit" /\ state' = <<>> /\ seen' = {} /\ buf' = {}
  /\ UNCHANGED <<sources, batch, done, tables, visit>>

\* Mutation of Follow: state_set stays empty.
FollowBlindly ==
  /\ phase = "chain" /\ state \notin seen
  /\ Found.kind = "entry"
  /\ state' = <<FoundEntry.symid, FoundEntry.origin>>
  /\ buf' = buf \cup {<<Found.module, Found.index>>}
  /\ UNCHANGED <<sources, batch, done, tables, visit, seen, phase>>

\* Mutation of Follow: goes on with asname.
FollowAsName ==
  /\ phase = "chain" /\ state \notin seen
  /\ Found.kind = "entry"
  /\ seen' = seen \cup {state}
  /\ state' = <<FoundEntry.symid, FoundEntry.as>>
  /\ buf' = buf \cup {<<Found.module, Found.index>>}
  /\ UNCHANGED <<sources, batch, done, tables, visit, phase>>

\* Mutation of Follow: buf_targets holds the last entry only.
FollowForgetting ==
  /\ phase = "chain" /\ state \notin seen
  /\ Found.kind = "entry"
  /\ seen' = seen \cup {state}
  /\ state' = <<FoundEntry.symid, FoundEntry.origin>>
  /\ buf' = {<<Found.module, Found.index>>}
  /\ UNCHANGED <<sources, batch, done, tables, visit, phase>>

Follow ==
  /\ phase = "chain" /\ state \notin seen
  /\ Found.kind = "entry"
  /\ seen' = seen \cup {state}
  /\ state' = <<FoundEntry.symid, FoundEntry.origin>>
  /\ buf' = buf \cup {<<Found.module, Found.index>>}
  /\ UNCHANGED <<sources, batch, done, tables, visit, phase>>

NothingFound ==
  /\ phase = "chain" /\ state \notin seen
  /\ Found = None
  /\ phase' = "visit" /\ state' = <<>> /\ seen' = {} /\ buf' = {}
  /\ UNCHANGED <<sources, batch, done, tables, visit>>

\* The value goes to every entry on the way.
ValueFound ==
  /\ phase = "chain" /\ state \notin seen
  /\ Found.kind \notin {"none", "entry"}
  /\ impt' = [m \in Symid |-> [i \in DOMAIN impt[m] |->
                IF <<m, i>> \in buf THEN [impt[m][i] EXCEPT !.value = Found]
                ELSE impt[m][i]]]
  /\ phase' = "visit" /\ state' = <<>> /\ seen' = {} /\ buf' = {}
  /\ UNCHANGED <<sources, batch, done, tables, waiting, current, at>>

AllVisited ==
  /\ phase = "visit" /\ at = 0 /\ waiting = {}
  /\ phase' = "resolved"
  /\ UNCHANGED <<sources, batch, done, tables, visit, chain>>

Resolve ==
  \/ \E m \in Symid : VisitModule(m)
  \/ ImportModule \/ ImportFrom
  \/ ImportLoop \/ Follow \/ NothingFound \/ ValueFound
  \/ AllVisited

-----------------------------------------------------------------------------
\* When a batch is resolved, an imported name that has a value stands for the
\* very thing that the module it is imported from gives for it, through
\* however many modules and in whatever order they were visited.  (A name that
\* is also what a module is called may have been bound to that module since:
\* by an import of the module, or because a package got it as a submodule.)
BoundSince(origin, value) ==
  \E s \in Symid : s \o origin \in Symid /\ value = Mod(s \o origin)
Agrees(m, i) ==
  LET entry == impt[m][i]
      given == Lookup(entry.symid, entry.origin)
  IN  entry.origin # Whole /\ entry.value # None /\ entry.origin \notin Symid
        => given = entry.value \/ BoundSince(entry.origin, given)
ImportsAgree ==
  phase = "resolved" => \A m \in batch : \A i \in DOMAIN impt[m] : Agrees(m, i)
=============================================================================
