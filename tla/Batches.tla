------------------------------- MODULE Batches -------------------------------
(***************************************************************************)
(* Batch after batch (Manager.add_check_file, recheck, preprocess;         *)
(* Preprocessor.process): files are added and read again in any order, the *)
(* imports of a batch are resolved as in ImportChain, and what is found is *)
(* dumped to the symbol tables, where the next batches will look.          *)
(***************************************************************************)
EXTENDS ImportChain

CONSTANTS
  Programs,  \* [text, adds, edits]: the files, which ones a client may add at
             \* once, and what the user may save later
  MaxSteps   \* bound: longer than any chain of imports

\* What a file can be: a dict of imports has each name once.
IsText(t) ==
  /\ t.cls \cup t.own \subseteq Ident /\ t.star \in Seq(Symid)
  /\ t.impt \in Seq([as : Ident, symid : Ident, origin : Seq(STRING), value : {None}])
  /\ \A i, j \in DOMAIN t.impt : t.impt[i].as = t.impt[j].as => i = j

ASSUME BatchAssumption ==
  /\ MaxSteps \in Nat
  /\ \A p \in Programs :
       /\ DOMAIN p.text = Symid /\ \A m \in Symid : IsText(p.text[m])
       /\ p.adds \subseteq SUBSET Symid
       /\ \A e \in p.edits : e[1] \in Symid /\ IsText(e[2])

VARIABLES
  adds,     \* what clients may add
  edits,    \* what may still be saved: pairs of a module and a text
  toCheck,  \* Manager.to_check: what clients have added
  cleared,  \* history: the modules read again since their last batch
  stamp,    \* history: the batch that a module was resolved in last
  clock     \* history: the number of batches

clients == <<adds, edits, toCheck, cleared, stamp, clock>>
vars == <<sources, batch, done, tables, visit, chain, phase, clients>>

Init ==
  /\ \E p \in Programs : text = p.text /\ adds = p.adds /\ edits = p.edits
  /\ version = [m \in Symid |-> 0]
  /\ batch = {} /\ done = {} /\ TablesInit
  /\ impt = [m \in Symid |-> <<>>] /\ waiting = {} /\ current = <<>> /\ at = 0
  /\ state = <<>> /\ seen = {} /\ buf = {} /\ phase = "idle"
  /\ toCheck = {} /\ cleared = {} /\ stamp = [m \in Symid |-> 0] /\ clock = 0

\* add_import_def: the modules that the imports of a module are looked for in.
PathSet(s) == {Path(s)[k] : k \in DOMAIN s}
Mentioned(m) ==
  LET entries == {text[m].impt[i] : i \in DOMAIN text[m].impt}
  IN  {e.symid \o e.origin : e \in entries}
        \cup (UNION {PathSet(s) : s \in {e.symid : e \in entries} \cup Range(text[m].star)})
\* Of a module that is a target already nothing more is followed.
Closed(M) == \A m \in M \ done : Mentioned(m) \cap Symid \subseteq M
Closure(M) ==
  {s \in Symid : \A closed \in {N \in SUBSET Symid : M \subseteq N /\ Closed(N)} : s \in closed}

\* What is queued for the next batch; env has no PrepInfo of it yet.  A file
\* that is a target already is passed over, and not even put on check.
AddCheckFiles(M) ==
  /\ phase = "idle"
  /\ LET new == M \ (done \cup waiting)
     IN  /\ new # {}
         /\ waiting' = waiting \cup new /\ toCheck' = toCheck \cup new
  /\ UNCHANGED <<sources, batch, done, tables, impt, current, at, chain, phase,
                 adds, edits, cleared, stamp, clock>>

\* recheck of a file, which the user may have edited.  (Of a package it raises.)
\* A module that is only imported is at stage Preprocess for ever, so it is not
\* queued again: its table is cleared and stays empty.
Recheck(m, t) ==
  /\ phase = "idle" /\ m \in (done \cup waiting) \ Package
  /\ <<m, t>> \in edits /\ edits' = edits \ {<<m, t>>}
  /\ text' = [text EXCEPT ![m] = t] /\ version' = [version EXCEPT ![m] = @ + 1]
  /\ Clear(m) /\ cleared' = cleared \cup {m}
  /\ IF m \in toCheck THEN done' = done \ {m} /\ waiting' = waiting \cup {m}
                       ELSE UNCHANGED <<done, waiting>>
  /\ UNCHANGED <<batch, impt, current, at, chain, phase, adds, toCheck, stamp, clock>>

\* Everything queued and what it imports is read: the batch.  The names of its
\* classes are in the symbol tables from now on (add_cls_def).
Preprocess ==
  /\ phase = "idle" /\ waiting # {}
  /\ LET new == waiting \cup (Closure(waiting) \ done)
     IN  /\ batch' = new /\ waiting' = new
         /\ impt' = [m \in Symid |-> IF m \in new THEN text[m].impt ELSE <<>>]
         /\ local' = [m \in Symid |->
                        IF m \in new
                        THEN Entered(local[m], [n \in text[m].cls |-> Def(m, n, version[m])])
                        ELSE local[m]]
  /\ phase' = "visit"
  /\ UNCHANGED <<sources, done, cache, starOf, submodule, current, at, chain, clients>>

\* dump_to_symtable for all modules of the batch; env.clear().
Dump ==
  /\ phase = "resolved"
  /\ local' = [m \in Symid |->
       IF m \in batch
       THEN Entered(local[m], Dumped(m, impt[m], text[m].own, version[m])) ELSE local[m]]
  /\ cache' = [m \in Symid |-> IF m \in batch THEN DumpedCache(impt[m]) ELSE cache[m]]
  /\ starOf' = [m \in Symid |-> IF m \in batch THEN starOf[m] \o text[m].star ELSE starOf[m]]
  /\ clock' = clock + 1
  /\ stamp' = [m \in Symid |-> IF m \in batch THEN clock + 1 ELSE stamp[m]]
  /\ done' = done \cup batch /\ batch' = {} /\ cleared' = cleared \ batch
  /\ impt' = [m \in Symid |-> <<>>] /\ current' = <<>>
  /\ phase' = "idle"
  /\ UNCHANGED <<sources, submodule, waiting, at, chain, adds, edits, toCheck>>

Next ==
  \/ \E M \in adds : AddCheckFiles(M)
  \/ \E e \in edits : Recheck(e[1], e[2])
  \/ Preprocess
  \/ Resolve /\ UNCHANGED clients
  \/ Dump

Work == (Resolve /\ UNCHANGED clients) \/ Dump
Spec == Init /\ [][Next]_vars /\ WF_vars(Work)

-----------------------------------------------------------------------------
(* What a name means *)

ImportsOf(m, n) == {i \in DOMAIN text[m].impt : text[m].impt[i].as = n}
Statement(m, n) == text[m].impt[CHOOSE i \in ImportsOf(m, n) : TRUE]
Gives(m, n) == n \in Defined(m) \/ ImportsOf(m, n) # {}
Stars(m, n) == {i \in DOMAIN text[m].star : text[m].star[i] # m /\ Gives(text[m].star[i], n)}

\* Where one has to look next for a name of a module.
Onward(m, n) ==
  IF n \in Defined(m) THEN <<m, n>>
  ELSE IF ImportsOf(m, n) # {}
  THEN IF Statement(m, n).origin = Whole \/ Statement(m, n).symid \notin Symid THEN <<m, n>>
       ELSE <<Statement(m, n).symid, Statement(m, n).origin>>
  ELSE IF Stars(m, n) # {}
  THEN <<text[m].star[CHOOSE i \in Stars(m, n) : \A j \in Stars(m, n) : i <= j], n>>
  ELSE <<m, n>>
Steps(m, n) ==
  LET step[k \in 0..MaxSteps] ==
        IF k = 0 THEN <<m, n>> ELSE Onward(step[k - 1][1], step[k - 1][2])
  IN  step
Route(m, n) == {Steps(m, n)[k] : k \in 0..MaxSteps}
\* The bound is long enough: the chain has come to its end, or back.
Traced(m, n) ==
  LET e == Steps(m, n)[MaxSteps] IN Onward(e[1], e[2]) \in Route(m, n)

\* What it is in the end: nothing if the chain is a loop.
Ending(m, n) ==
  IF n \in Defined(m) THEN Def(m, n, version[m])
  ELSE IF ImportsOf(m, n) # {}
  THEN IF Statement(m, n).symid \in Symid THEN Mod(Statement(m, n).symid) ELSE None
  ELSE IF m \o n \in Symid THEN Mod(m \o n)
  ELSE Builtin(n)
Meaning(m, n) ==
  LET e == Steps(m, n)[MaxSteps]
  IN  IF Onward(e[1], e[2]) = e THEN Ending(e[1], e[2]) ELSE None

-----------------------------------------------------------------------------
(* Properties *)

\* Names that something is imported from or under: what is a module of these
\* becomes an entry of its own (Bound), which takes the name from others.
Taken(m) ==
  UNION {PathSet(e.symid \o e.origin) : e \in {text[m].impt[i] : i \in DOMAIN text[m].impt}}
IsPlainImport(m, n) ==
  \E i \in ImportsOf(m, n) : text[m].impt[i].symid = n /\ text[m].impt[i].origin = Whole
TakenOver(m, n) == n \in Symid \cap Taken(m) /\ ~IsPlainImport(m, n)

\* Names that may mean something else to a table than to Python: both imported
\* and defined; a submodule's, if the name has another meaning too; brought by
\* two star imports, or by one over a builtin or a submodule; taken over; or
\* imported as a module that is imported under a name that is taken over, too.
Starred(m, n) == IF Gives(m, n) THEN {} ELSE Range(text[m].star) \ {m}
Muddled(m, n) ==
  \/ n \in Defined(m) /\ ImportsOf(m, n) # {}
  \/ m \o n \in Symid /\ (Gives(m, n) \/ Stars(m, n) # {} \/ n \in Builtins)
  \/ ~Gives(m, n) /\ Cardinality(Stars(m, n)) > (IF n \in Builtins THEN 0 ELSE 1)
  \/ \E s \in Starred(m, n) : s \o n \in Symid
  \/ \E s \in {m} \cup Starred(m, n) : TakenOver(s, n)
  \/ \E i \in ImportsOf(m, n), j \in DOMAIN text[m].impt :
       /\ Key(text[m].impt[i]) = Key(text[m].impt[j]) /\ text[m].impt[j].origin = Whole
       /\ TakenOver(m, text[m].impt[j].as)
AllClear(m, n) == \A e \in Route(m, n) : ~Muddled(e[1], e[2])

\* No module that is asked on the way was read again after the one that asks, or
\* is empty because it was read again without being on check.
Asked(m, n) == {m, Onward(m, n)[1]} \cup Starred(m, n)
Fresh(m, n) ==
  \A e \in Route(m, n) : \A s \in Asked(e[1], e[2]) \cap done :
    s \notin cleared /\ stamp[s] <= stamp[e[1]]

Settled == phase = "idle" /\ waiting = {}

\* When all that is queued has been processed, a name that the table of a module
\* knows is what it means in the files as they were read last, through however
\* many modules and batches it came, and whichever was read again in between.
TablesRight ==
  Settled =>
    \A m \in done, n \in Name :
      LegbLookup(m, n) \notin {None, AnyIns} /\ Traced(m, n) /\ AllClear(m, n) /\ Fresh(m, n)
        => LegbLookup(m, n) = Meaning(m, n)

\* And the table does know the name, if its meaning is a definition that is
\* reached without a star import.
ByName(m, n) == \A e \in Route(m, n) : Gives(e[1], e[2])
TablesFound ==
  Settled =>
    \A m \in done, n \in Name :
      ByName(m, n) /\ Meaning(m, n).kind = "def" /\ AllClear(m, n) /\ Fresh(m, n)
        => LegbLookup(m, n) = Meaning(m, n)

\* Nothing of an older text of a module is left in its table: every name there
\* is one that the text gives, a definition is of its present version, and it
\* searches the star imports of the present text only (none, if it was read again
\* and not queued).
OldTextGone ==
  \A m \in done :
    /\ starOf[m] = IF m \in cleared THEN <<>> ELSE text[m].star
    /\ \A n \in DOMAIN local[m] :
         /\ Gives(m, n) \/ n \in Taken(m) \/ m \o n \in Symid
         /\ local[m][n].kind = "def" => local[m][n] = Def(m, n, version[m])

\* No loop of imports keeps the resolution of a batch from ending.
Terminates == phase = "visit" ~> phase = "idle"
=============================================================================
