------------------------------- MODULE SymTable -------------------------------
(***************************************************************************)
(* The symbol tables of modules (pystatic/symtable.py): what a module says *)
(* a name is when another one asks, after its own batch is over.  An       *)
(* imported name is an ImportEntry, whose type waits in the import cache;  *)
(* star imports are searched when a name is looked up.                     *)
(*                                                                         *)
(* Modules and names are sequences of the names between dots: `import p.m` *)
(* is an import of <<"p", "m">>, under that name.                          *)
(***************************************************************************)
EXTENDS Naturals, FiniteSets, SequencesExt

CONSTANTS
  Symid,     \* the modules there are
  Package,   \* those of them that are packages
  Name,      \* names in modules
  Builtins   \* the names in the symbol table of builtins

Ident == Seq(STRING) \ {<<>>}

ASSUME SymAssumption ==
  /\ Package \subseteq Symid /\ Symid \subseteq Ident
  /\ Name \cup Builtins \subseteq Ident

VARIABLES
  local,     \* SymTable.local
  cache,     \* ImportCache._cache
  starOf,    \* SymTable.star_import
  submodule  \* TypePackageIns.submodule

tables == <<local, cache, starOf, submodule>>

\* What a name is: nothing, any_ins, a definition (of the text of that version
\* of the module), or a module.
None == [kind |-> "none"]
AnyIns == [kind |-> "any"]
Def(m, n, v) == [kind |-> "def", module |-> m, name |-> n, version |-> v]
Mod(m) == [kind |-> "module", module |-> m]
Builtin(n) == IF n \in Builtins THEN Def(<<"builtins">>, n, 0) ELSE None

ImportEntry(s, origin) == [kind |-> "import", symid |-> s, origin |-> origin]
Empty == [x \in {} |-> None]

TablesInit ==
  /\ local = [m \in Symid |-> Empty] /\ cache = local
  /\ starOf = [m \in Symid |-> <<>>]
  /\ submodule = [p \in Package |-> {}]

\* What add_cache files a value under.
KeyByOrigin(entry) == <<<<"*">>, entry.origin>>   \* mutation of Key
Key(entry) == <<entry.symid, entry.origin>>

-----------------------------------------------------------------------------
(* Lookups *)

\* Entry.get_type, ImportEntry.get_type
GetType(m, n) ==
  LET entry == local[m][n]
  IN  IF entry.kind = "import" THEN cache[m][Key(entry)] ELSE entry

LookupLocal(m, n) ==
  LET hits == {i \in DOMAIN starOf[m] : starOf[m][i] # m /\ n \in DOMAIN local[starOf[m][i]]}
  IN  IF n \in DOMAIN local[m] THEN GetType(m, n)
      ELSE IF hits # {}
      THEN GetType(starOf[m][CHOOSE i \in hits : \A j \in hits : i <= j], n)
      ELSE None

\* legb_lookup of the table of a module: what is not there is a builtin.
LegbLookup(m, n) ==
  IF LookupLocal(m, n) # None THEN LookupLocal(m, n) ELSE Builtin(n)

-----------------------------------------------------------------------------
(* Changes *)

\* SymTable.clear.  A package's submodules stay.
ClearKeepingStars(m) ==   \* mutation of Clear: star_import is forgotten
  /\ local' = [local EXCEPT ![m] = Empty]
  /\ cache' = [cache EXCEPT ![m] = Empty]
  /\ UNCHANGED <<starOf, submodule>>
Clear(m) ==
  /\ local' = [local EXCEPT ![m] = Empty]
  /\ cache' = [cache EXCEPT ![m] = Empty]
  /\ starOf' = [starOf EXCEPT ![m] = <<>>]
  /\ UNCHANGED submodule

\* add_entry, for each of the names: what was there under a name is replaced.
Entered(table, entries) ==
  [n \in DOMAIN table \cup DOMAIN entries |->
     IF n \in DOMAIN entries THEN entries[n] ELSE table[n]]

\* TypePackageIns.add_submodule, for each of the modules.
AddSubmodules(modules) ==
  LET of(p) == {Last(s) : s \in {t \in modules : Front(t) = p}}
  IN  /\ submodule' = [p \in Package |-> submodule[p] \cup of(p)]
      /\ local' = [m \in Symid |->
                     Entered(local[m], [n \in {<<x>> : x \in of(m)} |-> Mod(m \o n)])]
      /\ UNCHANGED <<cache, starOf>>

\* PrepInfo.dump for every module of a batch: definitions, then imports, which
\* take the name if it is both.  One value is cached for all entries that
\* import the same thing, that of the last one.
Imported(imports) == {imports[i].as : i \in DOMAIN imports}
CachedFor(imports, k) ==
  imports[CHOOSE i \in DOMAIN imports :
            /\ Key(imports[i]) = k
            /\ \A j \in DOMAIN imports : Key(imports[j]) = k => j <= i].value
Dumped(m, imports, defined, version) ==
  [n \in defined \cup Imported(imports) |->
     IF n \in Imported(imports)
     THEN LET i == CHOOSE i \in DOMAIN imports : imports[i].as = n
          IN  ImportEntry(imports[i].symid, imports[i].origin)
     ELSE Def(m, n, version)]
DumpedCache(imports) ==
  [k \in {Key(imports[i]) : i \in DOMAIN imports} |->
     IF CachedFor(imports, k) = None THEN AnyIns ELSE CachedFor(imports, k)]
=============================================================================
