-------------------------------- MODULE Files --------------------------------
(***************************************************************************)
(* Files and module names: how a path becomes the name of a module         *)
(* (Manager.add_check_file, crawl_path, relpath2symid), how a name is      *)
(* looked up along the search path (fsys.py), what an import statement     *)
(* calls the module it means (symid.py, analyse_import_stmt), and how a    *)
(* client that knows paths only gets its messages (path_symid_map,         *)
(* take_messages), which are those of Mailbox.                             *)
(*                                                                         *)
(* A directory is the sequence of names that leads to it, a symid the      *)
(* sequence of names between its dots.                                     *)
(***************************************************************************)
EXTENDS Mailbox, SequencesExt

CONSTANTS
  Names,       \* the names of files and directories
  InitName,    \* "__init__"
  NoName,      \* the empty name: ".x" is <<NoName, "x">>
  Disks,       \* the file systems considered: sets of files
  Reporting,   \* bound: those with errors to report and files to check again
  Unparsable,  \* files with a syntax error
  ManualPath,  \* the directories before those of the user on the search path
  Cwd,         \* the first directory of the user
  SitePath,    \* typeshed and sitepkg
  Statements   \* import statements: level dots, module, and a name or NoName

Ext == {"py", "pyi"}
File(d, n, e) == [dir |-> d, base |-> n, ext |-> e]
DirPath(d) == File(Front(d), Last(d), "dir")
NoFile == File(<<>>, NoName, "none")

\* symid2list leaves out empty names, and only the first can be one.
Items(s) == IF s # <<>> /\ s[1] = NoName THEN Tail(s) ELSE s

ASSUME FilesAssumption ==
  /\ InitName \in Names /\ NoName \notin Names
  /\ Reporting \subseteq Disks
  /\ \A fs \in Disks : \A f \in fs :
       /\ f = File(f.dir, f.base, f.ext)
       /\ f.dir \in Seq(Names) /\ f.base \in Names /\ f.ext \in Ext
  /\ ManualPath \in Seq(Seq(Names)) /\ Cwd \in Seq(Names) /\ SitePath \in Seq(Seq(Names))
  /\ \A s \in Symid : /\ Items(s) \in Seq(Names) \ {<<>>}
                      /\ s \in Seq(Names \cup {NoName})
  /\ \A stmt \in Statements : stmt.module \in Seq(Names)
  /\ DOMAIN PackageOf = {s \in Symid : Len(s) > 1 /\ Last(s) = InitName}
  /\ \A s \in DOMAIN PackageOf : PackageOf[s] = Front(s)

VARIABLES
  disk,      \* the files there are
  userPath,  \* Filesys.user_path
  found,     \* what find_module answered when the target was made
  symidOf,   \* Filesys.path_symid_map
  adding,    \* the names that the running import statement is still to add
  added      \* history: the files add_check_file has made a target of, and its name

names == <<disk, userPath, found, symidOf, adding, added>>
fileVars == <<vars, names>>

-----------------------------------------------------------------------------
(* Filesys.find_module *)

HasFile(fs, d, n, e) == File(d, n, e) \in fs
HasInit(fs, d) == \E e \in Ext : HasFile(fs, d, InitName, e)
IsDir(fs, d) == \E f \in fs : IsPrefix(d, f.dir)
Preferred(fs, d, n, e1, e2) == File(d, n, IF HasFile(fs, d, n, e1) THEN e1 ELSE e2)

\* A ModuleFindRes: res_type, the directories to go on in, each at the place of
\* the search path it comes from, and analyse_path.
Result(type, dirs, file) == [type |-> type, dirs |-> dirs, file |-> file]
Nothing == Result("none", <<>>, NoFile)
PathOf(r) == IF r.type = "package" THEN DirPath(r.dirs[1]) ELSE r.file

WalkSingle(fs, n, dirs) ==
  LET subs == [i \in DOMAIN dirs |-> Append(dirs[i], n)]
      plain == {i \in DOMAIN dirs : \E e \in Ext : HasFile(fs, dirs[i], n, e)}
      packages == {i \in DOMAIN dirs : HasInit(fs, subs[i])}
      first == CHOOSE i \in plain \cup packages : \A j \in plain \cup packages : i <= j
      namespaces == {i \in DOMAIN dirs : IsDir(fs, subs[i])}
  IN  IF plain \cup packages # {}
      THEN IF first \in plain
           THEN Result("module", <<>>, Preferred(fs, dirs[first], n, "pyi", "py"))
           ELSE Result("package", <<subs[first]>>,
                       Preferred(fs, subs[first], InitName, "py", "pyi"))
      ELSE IF namespaces # {} THEN Result("namespace", Restrict(subs, namespaces), NoFile)
      ELSE Nothing

SearchPath(user) == ManualPath \o user \o SitePath

Walk(fs, path, list) ==
  LET walk[i \in 0..Len(list)] ==
        IF i = 0 THEN Result("namespace", path, NoFile)
        ELSE IF walk[i - 1].type \in {"module", "none"} THEN Nothing
        ELSE WalkSingle(fs, list[i], walk[i - 1].dirs)
  IN  walk

FindModule(fs, user, s) ==
  IF Items(s) = <<>> THEN Nothing
  ELSE Walk(fs, SearchPath(user), Items(s))[Len(Items(s))]

IsModule(s) == FindModule(disk, userPath, s) # Nothing

-----------------------------------------------------------------------------
(* Names *)

\* The search path entry of a file, and its name seen from there.
CrawlPath(fs, d) ==
  LET tops == {k \in 0..Len(d) :
                 \A j \in (k + 1)..Len(d) : HasFile(fs, SubSeq(d, 1, j), InitName, "py")}
  IN  SubSeq(d, 1, CHOOSE k \in tops : \A j \in tops : k <= j)
RelPathToSymid(root, p) ==
  Append(SubSeq(p.dir, Len(root) + 1, Len(p.dir)), p.base)
SymidFor(fs, p) == RelPathToSymid(CrawlPath(fs, p.dir), p)

UserPathFront(user, d) ==   \* mutation of UserPathWith: the new directory comes first
  IF \E i \in DOMAIN user : user[i] = d THEN user ELSE <<d>> \o user
UserPathWith(user, d) ==
  IF \E i \in DOMAIN user : user[i] = d THEN user ELSE Append(user, d)

\* symtable.symid: relative imports of a package start from its __init__.
GlobSymidPlain(s) == s   \* mutation of GlobSymid
GlobSymid(s) == IF found[s].type = "package" THEN Append(s, InitName) ELSE s

Parent(s) == LET list == Items(s) IN IF list = <<>> THEN list ELSE Front(list)

\* Every two dots after the first one go up one level.
RelToAbs(cur, level, module) ==
  IF level = 0 THEN module
  ELSE LET up == IF level = 1 THEN 0 ELSE level \div 2
       IN  SubSeq(Items(cur), 1, Len(Items(cur)) - up) \o module

\* s + "." + n
Join(s, n) == IF s = <<>> THEN <<NoName, n>> ELSE Append(s, n)

\* analyse_import_stmt: the module and the name in it that a statement of s
\* asks for.  In an __init__ file, a name of its own package is a module.
Asked(s, stmt) ==
  LET glob == GlobSymid(s)
      module == RelToAbs(Parent(glob), stmt.level, stmt.module)
  IN  IF stmt.name # NoName /\ Len(glob) > 1 /\ Last(glob) = InitName
         /\ module = Front(glob)
      THEN [symid |-> Join(module, stmt.name), origin |-> NoName]
      ELSE [symid |-> module, origin |-> stmt.name]

\* add_import_def: the names it adds, packages on the way first.
ToAdd(asked) ==
  LET list == Items(asked.symid)
      origin == Join(asked.symid, asked.origin)
  IN  [i \in DOMAIN list |-> SubSeq(list, 1, i)]
      \o (IF asked.origin # NoName /\ IsModule(origin) THEN <<origin>> ELSE <<>>)

-----------------------------------------------------------------------------
(* Targets *)

FileInit ==
  /\ Init
  /\ disk \in Disks /\ userPath = <<Cwd>>
  /\ found = [s \in Symid |-> Nothing] /\ symidOf = [p \in {} |-> <<>>]
  /\ adding = <<>> /\ added = {}

\* __add_check_symid makes a target of what find_module has found.
IsAdded(s, r) == s \in Symid \ targets /\ r.type \in {"module", "package"}
Parses(r) == r.file \notin Unparsable
NewTarget(s, r) ==
  /\ AddTarget(s)
  /\ found' = [found EXCEPT ![s] = r]
  /\ symidOf' = [p \in {PathOf(r)} \cup DOMAIN symidOf |->
                 IF p = PathOf(r) THEN s ELSE symidOf[p]]

\* The paths that exist.
Paths == disk \cup {DirPath(f.dir) : f \in {f \in disk : f.dir # <<>>}}

\* Mutation of TakenFor: oldpath is not compared.
TakenForAny(p, r) == r.type \in {"module", "package"}

\* What find_module answers for the file's name may be another file.
TakenFor(p, r) == r.type \in {"module", "package"} /\ PathOf(r) = p

\* add_check_file(p) where the name is not a target yet, or answers False.
AddCheckFile(p) ==
  /\ adding = <<>> /\ p \in Paths
  /\ userPath' = UserPathWith(userPath, CrawlPath(disk, p.dir))
  /\ LET s == SymidFor(disk, p)
         r == FindModule(disk, userPath', s)
     IN  IF IsAdded(s, r) /\ TakenFor(p, r) /\ Parses(r)
         THEN NewTarget(s, r) /\ added' = added \cup {[path |-> p, symid |-> s]}
         ELSE /\ answer' = {}
              /\ UNCHANGED <<targets, box, manager, cache, round, count>>
              /\ UNCHANGED <<found, symidOf, added>>
  /\ UNCHANGED <<disk, adding>>

\* An import statement of s is visited.
Import(s, stmt) ==
  /\ adding = <<>> /\ s \in targets
  /\ adding' = ToAdd(Asked(s, stmt)) /\ adding' # <<>>
  /\ answer' = {}
  /\ UNCHANGED <<targets, box, manager, cache, round, count>>
  /\ UNCHANGED <<disk, userPath, found, symidOf, added>>

AddImported ==
  /\ adding # <<>>
  /\ LET s == Head(adding)
         r == FindModule(disk, userPath, s)
     IN  IsAdded(s, r) /\ Parses(r) /\ NewTarget(s, r)
  /\ adding' = Tail(adding)
  /\ UNCHANGED <<disk, userPath, added>>

\* Nothing to do: it is a target, a namespace, or not found.
SkipImported ==
  /\ adding # <<>>
  /\ LET s == Head(adding)
         r == FindModule(disk, userPath, s)
     IN  s \in targets \/ r = Nothing \/ (r.type = "namespace" /\ Cardinality(DOMAIN r.dirs) = 1)
  /\ adding' = Tail(adding) /\ answer' = {}
  /\ UNCHANGED <<targets, box, manager, cache, round, count>>
  /\ UNCHANGED <<disk, userPath, found, symidOf, added>>

\* A SyntaxError, or the assertion that a name leads to one directory.
ImportRaises ==
  /\ adding # <<>>
  /\ LET s == Head(adding)
         r == FindModule(disk, userPath, s)
     IN  \/ IsAdded(s, r) /\ ~Parses(r)
         \/ s \notin targets /\ r.type = "namespace" /\ Cardinality(DOMAIN r.dirs) > 1
  /\ adding' = <<>> /\ answer' = {}
  /\ UNCHANGED <<targets, box, manager, cache, round, count>>
  /\ UNCHANGED <<disk, userPath, found, symidOf, added>>

-----------------------------------------------------------------------------
(* Clients *)

\* take_messages(p): nothing for a path that no target was made for.
TakeMessagesOf(p) ==
  /\ adding = <<>> /\ p \in Paths
  /\ IF p \in DOMAIN symidOf
     THEN TakeMessages(symidOf[p])
     ELSE answer' = {} /\ UNCHANGED <<targets, box, manager, cache, round, count>>
  /\ UNCHANGED names

\* recheck(s) of a file that is read again; for a package it opens a
\* directory and raises before anything has changed.
RecheckModule(s) ==
  /\ adding = <<>> /\ disk \in Reporting
  /\ s \in targets /\ found[s].type = "module"
  /\ Recheck(s)
  /\ UNCHANGED names

\* add_check_file(p, recheck=True) where the name is a target: whatever its
\* file is, that is read again.
RecheckFile(p) ==
  /\ adding = <<>> /\ disk \in Reporting /\ p \in Paths
  /\ LET s == SymidFor(disk, p)
     IN  s \in targets /\ found[s].type = "module" /\ Recheck(s)
  /\ userPath' = UserPathWith(userPath, CrawlPath(disk, p.dir))
  /\ UNCHANGED <<disk, found, symidOf, adding, added>>

Mail ==
  /\ adding = <<>>
  /\ \/ \E s \in Symid : (disk \in Reporting /\ Report(s)) \/ TakeMessages(s)
     \/ disk \in Reporting /\ \E list \in Lists :
          ReportLoop(list, [s \in Symid |-> IF GlobSymid(s) \in Symid THEN GlobSymid(s) ELSE s])
     \/ TakeAllMessages
  /\ UNCHANGED names

FileNext ==
  \/ \E p \in Paths : AddCheckFile(p) \/ TakeMessagesOf(p) \/ RecheckFile(p)
  \/ \E s \in targets, stmt \in Statements : Import(s, stmt)
  \/ AddImported \/ SkipImported \/ ImportRaises
  \/ \E s \in Symid : RecheckModule(s)
  \/ Mail

FileSpec == FileInit /\ [][FileNext]_fileVars

-----------------------------------------------------------------------------
(* Properties *)

\* The search path entry where a name has been found, and the directories
\* between it and the file.
Depth(s, r) == Len(PathOf(r).dir) - Len(Items(s)) + 1
SearchRoot(s, r) == SubSeq(PathOf(r).dir, 1, Depth(s, r))
Between(s, r) == {SubSeq(PathOf(r).dir, 1, k) : k \in (Depth(s, r) + 1)..Len(PathOf(r).dir)}

\* A client that added a file (add_check_file, fsys.py, path_symid_map) has the
\* target that analyses this very file, and by its path the client gets the
\* messages of that target.  The exception: an import has reached the same file
\* by another name, through a directory without __init__.py, from a search path
\* entry that has one, or by a relative import at the top; its target takes the
\* path over.
FileAnswered ==
  /\ \A p \in DOMAIN symidOf : PathOf(found[symidOf[p]]) = p
  /\ \A a \in added :
       LET p == a.path
           s == symidOf[p]
       IN  /\ a.symid \in targets /\ PathOf(found[a.symid]) = p
           /\ \/ s = a.symid
              \/ Head(s) = NoName
              \/ HasFile(disk, SearchRoot(s, found[s]), InitName, "py")
              \/ \E d \in Between(s, found[s]) : ~HasFile(disk, d, InitName, "py")

\* What a name means does not change while clients add files (add_userpath,
\* find_module): a target's name still leads to its file.  The exceptions: it
\* was reached through a namespace directory, or found after the user's paths.
NamesStay ==
  \A s \in targets :
    \/ FindModule(disk, userPath, s) = found[s]
    \/ \E d \in Between(s, found[s]) : ~HasInit(disk, d)
    \/ \E i \in DOMAIN SitePath : SitePath[i] = SearchRoot(s, found[s])

\* An import with one or two dots means to the checker what it means to Python,
\* in plain modules, in packages and in __init__ files that were added
\* by themselves (rel2abssymid, symid_parent, the symid of a package's table).
PackageOfModule(s) == IF found[s].type = "package" THEN s ELSE Front(s)
RelativeNames ==
  \A s \in targets, stmt \in Statements :
    LET pkg == PackageOfModule(s)
    IN  Head(s) # NoName /\ stmt.level \in 1..2 /\ stmt.level <= Len(pkg)
          => RelToAbs(Parent(GlobSymid(s)), stmt.level, stmt.module)
               = SubSeq(pkg, 1, Len(pkg) - (stmt.level - 1)) \o stmt.module
=============================================================================
