# A specification of pystatic

pystatic is a static type checker for Python. This directory holds TLA+ modules
that model its analysis pipeline, TLC configurations that check them on small
instances, and theorems about them that the TLA+ proof system checks for every
instance. Paths below are relative to `src/pystatic/`.

## 1. The system

A *client* (the command line, the web view, the tests, the interactive shell)
makes a `Manager` and hands it files. Everything runs in one thread, but not in
one piece: the pipeline re-enters itself, its work queues grow while they are
drained, and an exception may leave any call half done and return to a client
that goes on.

| Component | State | Operations | Interacts with |
| --- | --- | --- | --- |
| `Manager` (`manager.py`, `target.py`) | `targets`, `to_check`, a `Stage` per target, `q_preprocess`, `q_infer`, `manager_errbox`, `message_cache` | add a file, a name or a target; `preprocess`, `infer`, `recheck`; take messages | every other component calls back into it |
| `Preprocessor` (`preprocess/preprocessor.py`) and `PrepEnvironment` | the local batch `to_check`; a `PrepInfo` per block | `process()` drains `q_preprocess` in batches | defining a block adds imported modules to the queue; resolving classes adds methods; the end of a batch promotes modules to `q_infer` |
| Definition tables (`preprocess/definition.py`, `prepinfo.py`, `resolve_func.py`) | `cls`, `func`, `local`, `impt`, `var_attr` of a `PrepInfo`; `reach` marks on syntax nodes | one `add_*_def` per statement, `dump()` | symbol tables, inference (which skips what is marked) |
| Import resolution (`resolve_impt.py`) | `prep_impt.value` | `resolve_import`, `_resolve_import_chain`, `update_symtable_import_cache` | looks names up in the PrepInfos of the batch and in symbol tables |
| Resolution order (`dependency.py`, `topo.py`) | a dependency graph with indegrees | `toposort`, `resolve_loop` | reports reference loops to the manager's error box |
| Class, function and variable resolution (`resolve_cls.py`, `resolve_local.py`, `resolve_spt.py`) | types of the definitions, MRO | two passes over the sorted definitions, method targets | the type system |
| Type system (`typesys.py`, `predefined.py`, `consistent.py`, `arg.py`) | class templates, instances, caches | MRO, consistency, argument matching | expression inference |
| Inference (`infer/`) | `q_infer`, a stack of scopes, narrowed types, reachability marks on tests | `start_infer`, one visit per statement; `static_infer` for the tests of `if` | calls `process()` for each function it enters |
| Messages (`error/`) | error boxes | `add_err`, `release`, `send_message` | `Manager.send` |
| Symbol tables (`symtable.py`) | entries, import cache, star imports, submodules | lookup, `clear`, `dump` into them | all of the above; they outlive a batch |
| Files and names (`fsys.py`, `symid.py`) | the user's search path, `path_symid_map` | `find_module`, `crawl_path`, relative names | `Manager`, which turns paths into names and back |

What is hard about it, and what each part has to guarantee:

* **Order of calls.** A module may be added, imported, rechecked and promoted in
  any order. It must never wait twice, never be worked on twice at a time, and
  never reach inference before its names are in its symbol table.
* **Partial failure.** A file that does not parse, and one that resolution or inference
  stumbles over, raises in the middle of `process()`; queues and the environment stay as
  they were at that moment.
* **Re-entrance.** Inference runs an iterator over `q_infer` and calls
  `process()`, which appends to that very deque.
* **Ordering.** Definitions are resolved after what they refer to; the sort walks
  Python sets, so the order differs between runs. The modules of a batch are
  visited in the order in which they were met.
* **Name collisions.** Classes, functions, variables and imports of one name, in
  any order and number.
* **Shared objects.** All instances of a class share its functions, and the receiver
  of a call is kept in the function between the access and the call; a class's
  resolution order is cached when somebody first asks for it. What is accepted must
  not depend on who asked before.
* **Nested control flow.** Conditions, the break flag and narrowed types are one
  stack and one table for all scopes: a jump or a test inside must leave what is
  outside as it was.
* **Staleness.** Texts, symbol tables and messages of a module outlive a recheck
  or not, and so do the values that other modules have cached.
* **Two ways to one file.** A file has a name from where it lies, and a name for
  whoever imports it; messages are asked for by path and kept by name.
* **Two passes over one test.** The reach of an `if` test is decided when definitions
  are collected and read again by inference, which must not go where nothing was collected.

`PROJECT.json` lists all components, those that are not modelled included, and
the hazards line by line.

## 2. The modules

| Module | What it models |
| --- | --- |
| `Manager` | the Manager's state and its operations on it, one operator each |
| `Pipeline` (extends `Manager`) | `process()` and `start_infer()` step by step, and a client that calls in any order |
| `CheckClient` (extends `Pipeline`) | the order of calls of the command line, the web view and the tests, with edits and rechecks |
| `Shell` (extends `CheckClient`) | the interactive shell, and a session of either client |
| `Definitions` | the tables of one block, filled by an arbitrary sequence of statements, up to `dump()` |
| `SymTable` | the tables of modules: entries, import cache, star imports, submodules; lookup, clear, dump |
| `ImportChain` (extends `SymTable`) | `resolve_import`: what the imported names of the modules of one batch stand for |
| `Batches` (extends `ImportChain`) | batch after batch, with files added, edited and rechecked, next to what the names mean |
| `TopoSort` | the order of resolution, with the loop search as an explicit stack |
| `ClassResolve` (extends `TopoSort`) | the dependency graph of nested classes, both passes over the sorted classes, the cached resolution order, attribute lookup, the search for methods |
| `Types` | pure: what a type is, for the two modules that follow |
| `Consistent` (extends `Types`) | pure: `is_consistent` on a universe of types, next to the assignability of PEP 484, and where the two are known to differ |
| `Calls` (extends `Types`) | attribute access, arguments and call of one function, up to `match_argument`, next to what Python does with the call |
| `Inbox` | abstract: what the message side of the Manager promises |
| `Mailbox` | error boxes, the manager's box and the message cache; implements `Inbox` |
| `Files` (extends `Mailbox`) | paths, names and the search path, and the clients that ask for messages by path |
| `StaticInfer` | pure: `static_infer` and the comparison of versions, next to what Python makes of the same test |
| `Flow` (extends `StaticInfer`) | inference walking over statements: conditions, the break flag, narrowing, nested scopes, next to the executions of the same program |
| `MCClients`, `MCDefinitions`, `MCImportChain`, `MCClasses`, `MCFiles`, `MCCalls`, `MCFlow` | values of the constants for TLC |
| `CheckProofs`, `DefinitionsProofs`, `ImportProofs`, `TableProofs`, `TopoSortProofs`, `FilesProofs`, `CallsProofs`, `FlowProofs` | theorems and their proofs; `CheckProofs` is about `Pipeline`, `CheckClient` and `Shell`, `ImportProofs` and, on top of it, `TableProofs` about `ImportChain` and `Batches`, `FilesProofs` about `Mailbox` and `Files`, `FlowProofs` about `StaticInfer` and `Flow` |

Composition: `DefineBlock` to `BlockDefined` in `Pipeline` is where `Definitions`
runs. `AllDefined` stands for `ImportChain` and then `ClassResolve`, which runs
`TopoSort` first. `DumpBlock` is the dump of `Definitions`, and seen from other
modules the `Dump` of `Batches`. The errors of all of them go through `Mailbox`,
which `Files` opens to clients that know paths. `Flow` is what `start_infer` does
inside one module; the marks it reads from `if` tests are left there by the pass
that `Definitions` is about. `Batches` abstracts the queues of `Pipeline` to what
matters for names: which modules come in the same batch, and in which order the
batches follow each other. It assumes of `Pipeline` that a batch is closed under
imports, which is `ImportsAtHand`. `Pipeline` needs of the resolution only that it
adds nothing but method targets to a queue. The method resolution orders that
`ClassResolve` caches are a constant of `Consistent`, and the relations between types
that `Consistent` defines are constants of `Calls`, to which `MCCalls` gives them.

### Pipeline

`pc` says where the running call is. `define` and `import` are the inner `while` of
`process()`: `DefineBlock` takes the head of `q_preprocess` and gives it a
`PrepInfo`, `AddImport` is one turn of the loop of `add_import_def`, with the whole of
`__add_check_symid` in it. `dump` and `promote` are the two last loops of the batch.
`infer` and `body` are the loop of `start_infer` and the visit of one module;
`EnterFunction` puts a function in the queue and enters `process()` again, with
`ret` telling where it returns to. Exceptions are transitions of their own:
`ImportRaises` (the file does not parse, or the name is a namespace in two places),
`DefinedTwice` (the assertion of `get_definition`), `ResolutionRaises` (the assertion of the sort,
a star import of a module that does not exist), `MethodsRaise` (a class method without
parameters), `IteratorRaises` (a deque that has changed under its iterator),
`FunctionUnknown` (the name of a function is not in the symbol table, or is `Any` there), a function
whose name a class has taken (`ret` is "class": its body is preprocessed before the
error shows), and the directory that `recheck` opens for a package. `LeaveCall` is what
unwinding does: locals are lost, the Manager and the environment stay. Exceptions out of the
inference of expressions are not modelled; they end `infer()` where `FunctionUnknown` does.

A source text is a model value with its imports, its methods and its functions, with what
resolution may raise because of it (`Faults`), and each function with what its name leads to (`Entry`).
A syntax error is `NoAst`. What a class or a function means is left out here.
The target of a package and that of its `__init__` file are two names.

A file that an import has brought in is a target, so that `add_check_file` passes it over and
nobody checks it (`AddIsIgnored`). `asked` remembers which files a client asked for
before, and which after they were targets.

`SessionNext` is a session up to its first exception. The command line and the tests do not
handle any; the shell prints a `SyntaxError` and goes on, and what comes of that is `shell_defined_once`.

### Definitions

A statement is its line, a program is any sequence of statements of seven kinds
over a few names, in classes that nest. A class that is defined again gets the
`PrepInfo` of the first one, so a `PrepInfo` is known by its path of class names.
`if` statements, nested functions and loops are not followed by the visitor or
only choose among statements; they are left out, and so are the values of
variables, aliases and type variables.

### SymTable, ImportChain and Batches

`SymTable` holds what is left of a module after its batch: definitions with the
version of the text that they come from, `ImportEntry`s whose values wait in the import
cache, star imports that are searched at every lookup, and the modules that a
package has got as attributes. Two entries that import the same thing share one
place in the cache, so the last one counts.

`ImportChain` resolves the imports of one batch, whose modules are visited in an
arbitrary order. An entry of `impt` is a module and a name in it, or a whole
module. `Lookup` is `PrepEnvironment.lookup`: own definitions, star imports one
level deep and only into the batch, then the symbol table and the builtins.
`Bound` is the larger half of `update_symtable_import_cache`: whatever is imported
from `p.m` also binds `p` and `p.m`, and makes `m` a submodule of `p`. The entries
that this adds have no name in common, so their order is left open (`SetToSeq`). The copy of
`impt` that the loop runs over is kept by its length, as only values and new
entries at its end change. `ImportLoop`, `Follow`, `NothingFound` and `ValueFound`
are the turns of `_resolve_import_chain`.

`Batches` adds the client: `AddCheckFiles` queues what is no target yet and puts it on check, `Recheck` clears a
table and reads an edited text, and queues the module if it is on check: one that is only imported
is at stage `Preprocess` for ever, so that its table stays empty (`cleared`). `Preprocess` closes what is queued under imports (`Closure` is the
least closed set, which is what the inner loop of `process()` ends with) and enters the
names of classes early (`add_cls_def` does that before anything is resolved), `Dump`
fills the tables. A text is a dict of imports, in which no name is twice (`IsText`). `Meaning` is the
reference: from `Onward` to `Onward` it follows a name through the texts as they are now (its `Route`), until that
stays where it is. Where the code takes a name for something else than Python does, `Muddled` says why: the name is
both imported and defined; it is a submodule's and has another meaning; two star imports bring it, or one over a builtin
or a submodule; it is the name of a module that something is imported from (`TakenOver`); or it stands for a
module that is also imported under a name that is taken over. Star imports inside functions and the tables of functions and classes
are left out.

### Files

A directory is the sequence of the names that lead to it; a module name is the
sequence of the names between its dots, where `.a` begins with an empty one. `FindModule` is
the walk of `find_module` along the search path: a module or a package of the first
directory that has one, else all directories together as a namespace (each with the
place of the search path it comes from). `Items` drops the empty name in front: no
other name is empty (`FilesAssumption`). `CrawlPath`
climbs while there is an `__init__.py`. `AddCheckFile` is `add_check_file`, with its
silent `Result(False)` where the name leads to another file; `Import`, `AddImported`,
`SkipImported` and `ImportRaises` are an import statement with the targets that it
adds one by one. `TakeMessagesOf` is `take_messages` with a path. All of it works on the
variables of `Mailbox`, and every step of `Files` is a step of it. The disk does not change.

### TopoSort

`Pop` is one turn of Kahn's loop. `Start`, `Descend`, `CloseLoop` and `Return` are the
recursion of `_resolve_loop`; each stack frame holds what is left of the set that
it walks. `Reaches` is the smallest set of definitions that is closed under
dependents, so that loops can be spoken of without recursion. Python's sets of objects are ordered by address, so every order is
allowed. A failed assertion is a phase of its own.

### ClassResolve

A class is the number of its statement; a program says in which class each one
stands and what its bases are. `DependsOn` gives every class of a tree the
dependencies of the outermost one, as `dependency.py` does. `Resolve` is one turn
of the two loops over the resolve order; the shallow pass reads the bases and
the deep one completes the class, and `WithMro` is `get_mro` with its cache. `FindMethods`
and `TypeMethods` are the work list of `resolve_cls_method`. `TypeAttribute` and
`InstanceAttribute` are the two attribute lookups, which do not use the resolution
order; each class may have an attribute in its body, or one that its methods assign to `self`
(`var_attr`), which comes first. `C3` is the reference: the linearization that Python makes. Bases from
other batches are left out, and type parameters.

### Consistent and Calls

A program of `Calls` is one function, plain or a method that a subclass inherits.
`open` is the stack of the calls that are being visited: `Access` infers what is
called and sets `self_bind` on the function, which all instances share; `AddArg` and
`AddKwarg` are the arguments, one of which may be the value of an inner call; `Call`
reads `self_bind` and runs `MatchArgument`. `Define` is what `modify_argument` does to
the first parameter. `IsConsistent` is `is_consistent` case by case. The answers
of `IsConsistent` were compared with those of the program for every pair of the
universe, and those of `MatchArgument` for a thousand calls.

The references are `Legal`, what Python does with a call, with `Own` for what it puts
before the arguments, and `Assignable`, which is PEP 484. The properties name the
causes for which the checker differs from them: `RightlyBound`, `SelfPosonly`,
`DefaultUsed`, `GivenTwice`, and for types `Loose` and `Strict`. `Calls` knows types only by the
four relations `Accepts`, `Allows`, `Loose` and `Strict`; in the run they are `IsConsistent`,
`Assignable`, `TooLoose` and `TooStrict`. That these fit together on all pairs that the programs
compare is `TypesAgree`, which TLC evaluates as an assumption of `MCCalls`: with covariant
parameters in `WithTypeVar`, say, it is false. `Compared` are the pairs that one call
compares. Left out are starred arguments,
overloads (only the first is ever matched), literals as type arguments, and
`Callable` types.

### Flow

The tree of statements is not a constant. It is chosen while it is visited: an
action is the next statement of the innermost open list, `Report` what happens
instead when that list is given up, `ToElse` and `End` the end of a list. `frames` is
thus the visitor's call stack, and each action is one `visit_` method up to where
it visits statements itself. There is one name, `x`, declared as a union in the
module and as a parameter of every function; `for` runs over containers of
one element type.

A test is a constant of the run: an operand or an `and` or `or` of operands, with
`not`, a plus or a minus sign before it or none. Operands are `isinstance(x, c)`,
the constants, `TYPE_CHECKING`, names of a literal type (`Truthy`, `Falsy`), chains of
comparisons with `sys.version_info`, and `Other`, of which nothing is known. `Static` is
`static_infer`, which marks the tests of `if` when definitions are collected;
`Collected` says which arms that pass has entered. `Infer` reads the mark where there is one
and otherwise does to `x`, `temp` and `narrowed` what inferring the test does.
`Outcomes` is what Python makes of the test, `Misjudged` names the tests where
`static_infer` differs from it, `Overlooked` those where only `ConditionInfer` does: an `or`
with `TYPE_CHECKING`, which `static_infer` leaves to it. (The proof of `ReportsExplained`
did not go through without it; the model, and then the program, gave the
counterexample.) `Static` gave the program's answer for each of some
20,000 tests under Python 3.8.

`live` is the other half. It holds the values that `x` can have here in executions of
the same program that pass each loop body at most once and whose `try` raises, if
at all, before its first statement. That is less than all executions;
`FalseReportsExplained` speaks about these only. `before`, `quiet`, `sound` and `loose` are history, and no guard reads them.

### Mailbox and Inbox

Errors wait in the box of a target or, reference loops, in the manager's box.
Whoever takes messages releases boxes into `message_cache`, where messages of
other modules stay. `Inbox` only knows tags, the messages that will be handed over (`pending`), those
that will be unless their module is analysed again first (`own`), and what the last take got. The refinement
maps `own` to the errboxes and `pending` to the cache and the manager's box together, so that a recheck
must take back what waits in the errbox of its module, all of it and nothing else.

## 3. The runs

Every cfg sets `CHECK_DEADLOCK FALSE`: a client may stop calling, nobody has to add
or save a file, and an algorithm ends.

| Run | Checks | Result |
| --- | --- | --- |
| `pipeline` | free client, files that parse, resolve and can be inferred, or not: `TypeOK`, `QueueDiscipline`, `OnlyPreprocessedPromoted`, `CallsReturn` | holds |
| `clients` | the same files, the clients of the repository and the shell, up to the first exception: `NoException`, `CheckedExactlyOnce`, `ImportsAtHand`, `InferredFromFilled`, `StatementAnalysed`, `RecheckQueues`, `EventuallyChecked` | holds |
| `shell_defined_once` | the shell over files that may not parse: `DefinedOnce` | violated: `definition.py:25` asserts |
| `classes` | four classes, nested or in inheritance loops: `DependenciesFirst`, `NothingLost`, `LoopsReported`, `MroExplained`, `AssignableToAncestors`, `ClassAndInstanceAgree`, `EveryClassResolved`, `ClassesEnd` | holds |
| `classes_c3` | the same: `MroIsC3` | violated: `typesys.py:530` |
| `classes_methods` | the same: `EveryMethodTyped` | violated: `resolve_cls.py:179` passes over the second level |
| `definitions` | programs of four statements, in a method and in a special stub file: `TablesFollowPriority`, `LossesReported`, `LookupsAgree`, `SkippedIsSuperseded` | holds |
| `mailbox` | ten file systems, clients by path, two messages: `WellFiled`, `FileAnswered`, `NamesStay`, `RelativeNames`, `InboxSpec` | holds |
| `mailbox_recheck` | those with errors, with rechecks: `OldMessagesFlushed` | violated: `manager.py:305` leaves the loops |
| `import_chain` | 4846 programs of three modules and a package with a module, added together, one by one or only imported, with edits: `ImportsAgree`, `TablesRight`, `TablesFound`, `OldTextGone`, `Terminates` | holds |
| `calls` | sixteen signatures and all pairs of types: `AcceptedIsLegal`, `ReportedIsIllegal`, `UniformUseAgrees` | holds |
| `flow` | programs of five statements and eleven tests: `FlagStaysInside`, `FalseReportsExplained`, `VisitedIsCollected`, `NarrowingUndone` | holds |

**Bounds.** `MCClients` has two modules that import each other, a package that is
imported from a module, a method and a function, a name that does not exist, and
builtins, a namespace in two places, a text that resolution fails on in two ways and one whose method it
fails on, and functions whose name is a class's or `Any`: enough for a queue that grows while it is drained, a module that is
imported before it is added, a second batch made of methods, re-entrance from
inference with an import in the function, and every exception. `MaxCalls` bounds
calls and edits together: seven are two files added, a check, an edit, a
recheck, another check, and one more; the free client needs fewer because each
call may be any. The shell types in the same texts, so a statement imports, defines
a class whose method imports, or does neither. Four classes with up to two bases give diamonds
with an ancestor above them, classes nested four deep, and an inner class that inherits from
an outer one of the same batch; a class followed by three that refer to each
other in all ways give every shape of loop
that the search distinguishes (to itself, to the node above, further up) and a
node that only depends on a loop. Three positional arguments are one more than
the parameters of a signature, two open calls are enough for an argument to
rebind the function that is about to be called, and the 32 types of the universe
have each kind of type on both sides of each comparison. Four lines are what the longest collisions
need: two definitions of one name, one of another kind, and a class around or
after them. Two messages can be in two of
the three places at once, for one name or two, and one recheck makes a text old.
`MCFiles` has a namespace directory around a module, packages with `.py` and `.pyi`
beside each other, a package in a package, two directories that each have part of a
namespace, a stub in the site path for a module of the user, an entry of the search path
that is itself a package, and a file that does not parse; the import statements reach the same files by two names, and
errors are reported in two of the file systems, the others being about paths. Three
modules make a chain with an entry in the middle and a loop that the start does
not lie on; they come in one batch, or one by one, or by an import only, with two of them edited, so that a value
is asked for before and after a recheck, and a table is emptied that nobody fills again; the package is imported
from by two modules that may come together or not, and may define a name that is also that of its
module. Four of the programs import one module under two
names, one of them a module's (`Mixed`). `MaxSteps` is no less than the
longest chain of imports without a loop; the properties ask for no more than that it is (`Traced`). The version tests, under Python 3.8.1, are one on the tie, a chain that only its
second link makes false, and one under a minus sign. Five statements, four deep, are
a binding, two tests inside each other, what stands in them and a jump; the
class outside the union makes a test that is always false, and a loop over `x` binds
without looking at the declaration.

**Fairness.** Weak fairness of `Process \/ Infer` says that a call that has been made
runs on: there is one thread and nothing in these loops waits. Nothing is assumed
of the client: `CallsReturn` and `EventuallyChecked` are about calls that were made.
`ClassNext` (with the sort in it) and `Work`, the resolution and the dump of a batch, are
weakly fair, being sequential code.

**What the violated runs show.** Each was reproduced with the program itself.
`shell_defined_once`: a statement imports a file with a syntax error; the shell
prints the error, and the next statement ends it with an `AssertionError`.
`classes_c3`: `class D(B, C)` over `B(A)` and `C(A)` gets the order D, B, A, C; and a
class whose inner class is resolved before its base class fixes an order without ancestors for the
base class, so that attributes are reported missing. `classes_methods`: a class with a
method inside a top-level class ends inference with an `AttributeError`.
`mailbox_recheck`: two definitions refer to each other; the module is rechecked without
them before anybody has asked for messages, and the client gets the loop all the same.

More observations that no run shows as a violation, all made with the program:

* Definitions that refer to each other in more than one loop can fail the assertion
  of `topo.py:26`, depending on addresses. `Pipeline` has the exception (`LoopAssertion`); `TopoSort`
  ends in the phase "failed".
* A loop of two definitions is reported with no name in it, so that no message comes of it (`topo.py:34`).
* Code that executions reach is reported as unreachable after a `return` in the body of a `for`, in a `try`, or in a
  `while True` that a `break` leaves; for an `isinstance` inside another one, one under `not`, and one after an arm that
  binds `x`; and for a minus sign before an `or` and a comparison with the version that is
  running. `FalseReportsExplained` names these causes.
* A file that an import has brought in before it is added is never checked (`manager.py:81`).
* Imported modules: `from b import x`, with `import c as x` in `b`, is `Any` or the module,
  depending on which of the two is visited first (`resolve_impt.py:66`).
  `ImportsAgree` is about values that are found, `TablesFound` about definitions.
* `from p import m as x` in `b`, and `from b import x` in `a`: if `p` defines an `m` of its own and
  also has a module `m`, `a` may be given the former and `b` the module, as `p` gets `m` as a
  submodule between the two (`resolve_impt.py:157`). That is the exception in `ImportsAgree`
  (`BoundSince`); the attempt to prove it without failed, and TLC and the program confirmed it.
* Importing from `p.m` binds `p` and `p.m` as names of the module, over a class or a
  variable of the same name (`resolve_impt.py:94`). And over an import of that name, with everything that
  shares its place in the cache: after `import a`, `import a as x`, `import a as p` and `import p.m`, all of `a`, `x`
  and `p` are the package `p` (`symtable.py:96`). The proof of `TablesRight` failed for `x`; the program confirmed it,
  and the last clause of `Muddled` is the result.
* A star import finds names in the modules of the batch only; of a module that was resolved
  before, the builtins are taken first (`prepinfo.py:411`). One of a module that does not
  exist ends the first lookup with an `AttributeError` (`symtable.py:195`; `StarNotFound` in `Pipeline`).
* After a recheck, modules that imported from the rechecked one keep the values of
  its old text until they are rechecked themselves (`Fresh` in `TablesRight`).
* A file that an import reaches through a directory without `__init__.py`, from an entry
  of the search path that has an `__init__.py` itself (the working directory inside a
  package, say), or by `from . import a` in a module at the top, gets a second target under another name.
  That takes over the file's place in `path_symid_map`, and the client that added the file gets
  no messages (`manager.py:158`).
* Two dots and three dots lead to the same package (`symid.py:81` and `symid.py:112`).
* `import n.k` with the directory `n` in two places of the search path, neither with an
  `__init__` file, fails the assertion of `manager.py:102` (`SplitNamespace`).
* `add_check_file` of a file whose name leads to another one (a `.pyi` beside it, a module of that
  name earlier on the path) does nothing (`manager.py:111`); with `recheck` it reads that other file again.
* Errors that the command line files under its own tag are never printed: the tag is no target
  (`cmdline.py:75`).
* An imported name that is used at module level is an unresolved reference to the
  recorder, or the builtin of that name (`recorder.py:125`).
* `-(True or y())` is negated (`staticinfer.py:22`), so the definitions of the arm that runs
  are not collected; `sys.version_info > (3, 8)` is false to the checker under 3.8.1.
* `TYPE_CHECKING or y` is false to inference when `y` is, because only `ALWAYS_TRUE` ends an
  `or` (`condition_infer.py:263`): the body of such an `if` is reported, though `TYPE_CHECKING`
  counts as true.
* Two functions and then a class of one name end inference with an
  `AttributeError`: only the first of the functions is marked, and `SkippedIsSuperseded` asks for no more.
  (`NotAFunction` in `Pipeline`.)
* A module that is only imported is cleared by `recheck` and put in no queue, as
  its stage is `Preprocess` already, so that its names are gone. `RecheckQueues` holds because the clients of the
  repository only recheck what is on check; `TablesRight` and `TablesFound` leave out by name
  what such a module is asked for (`cleared` in `Fresh`).
* The body of a redefined class is entered in the tables of the first class of
  that name: `TablesFollowPriority` holds for the statements of both together.
* `C.f(c, 1)` is reported after `c.f(1)`, and with `c.f(1)` as an argument; `D.f(d, 1)`
  always is when `D` inherits `f`; and `c + 1` is reported after `c.__add__(1)`.
* A call that leaves out a parameter with a default value is reported. A class
  method is given nothing or the instance. With `**kw`, `g(1, a=2)` passes for
  `a` twice. A class method without a named parameter ends the batch with an `IndexError`.
* A union or optional is not accepted where a wider one is declared, `None`
  accepts an optional, and unions as type arguments are not compared. A literal
  as a type argument ends inference with a `TypeError`.
* A `for` over a tuple target is not visited at all.

## 4. The proofs

Assumptions: those stated with the constants (`TextAssumption`, `DiskAssumption`,
`CallsAssumption`, `ShellAssumption`; `NodeAssumption`, `GraphAssumption`;
`BlocksAssumption`; `MailAssumption`, `FilesAssumption`; `StaticAssumption`,
`FlowAssumption`; `SymAssumption`, `BatchAssumption`; the `ProgramAssumption` of `Calls`), which every run of a module evaluates,
and one hypothesis, `TypesAgree`, which `MCCalls` has TLC evaluate.

**Pipeline.** `CheckProofs` first proves for any set of modules, texts and edits and any
bound on calls:

* `TypeCorrect`: `Spec => []TypeOK`. The part that is not a matter of types is that
  only targets are queued and that the iterator of `start_infer` stays inside
  `q_infer` while a function is preprocessed; it needs that nothing shortens
  `q_infer` while inference runs.
* `Discipline`: `Spec => []QueueDiscipline`. `QueuedAtPreprocess` and `QueuedOnce` are
  not inductive: a batch could hold a module that is queued again. `PipelineInv`
  adds `BatchInProcess` (the batch is local to `process()`) and `BatchFilled` (how far
  the two loops have come). The argument: `update_stage` queues a module only when it is
  not at stage `Preprocess`; whatever waits is at that stage; what is in the batch
  is too until its promotion, and is not queued by an import because it is a
  target, nor by a recheck because no client runs meanwhile.
* `Promotion`: `Spec => OnlyPreprocessedPromoted`, from `BatchFilled`.

**Sessions.** Its second half is about `ClientSpec`, the sessions of a program that checks
files and of the shell, up to their first exception, over any files: with syntax errors,
faults of resolution and functions that have lost their names. What comes after a first exception is not claimed, and
`shell_defined_once` shows why. `NeverRaises`, `CheckedOnce`, `ImportsFound`, `FilledBeforeInference`,
`StatementsAnalysed` and `RecheckedIsQueued` state the properties of the run `clients`. One inductive invariant,
`CheckInv`, carries all of them as long as nothing has been raised (`ClientInvariant` says what is left after that).
None is inductive without the others: that the order of the calls
never ends one needs an environment that is empty between calls (`EnvInv`), a queue of
inference that does not change under its iterator (`StageInv`: while a module is
inferred no file on check waits, so the batches of its functions promote nothing), and
names that are filled (`ReportsInv`); that they are filled needs that no call was cut short
(`SessionInv`). `AskedInv` ties what clients have asked for to what is on check. `ImportsInv` follows the imports of a block from its text to
`targets`, `EnvInv` from there into the environment or a filled table.

**Definition tables.** `DefinitionsProofs` proves `PriorityFollowed`, `LossReported`, `SameLookup`
and `SkippedSuperseded` for every set of names, kind of block and program of any
length. `DefInv` says of each name of each scope where it is (`Placed`), that what has lost it
has been reported (`Accounted`), what is marked (`Marked`), and what the symbol table holds of
it before `dump()` (`Registered`). `Placed` is stated with `Shape`, a relation between
the three tables and the lines of the three kinds, and a lemma per kind of statement says
how one more line changes it; the priority of the kinds is an argument about `Shape`
only.

**Sort.** `TopoSortProofs` proves, for every finite set of definitions, every dependency
relation and every order in which Python walks its sets:

* `SortedDependenciesFirst`: `Spec => []DependenciesFirst`. `SortInv` is the
  inductive invariant; its core, `KahnInv`, says that the indegree of a definition is
  the number of its dependencies that are not resolved yet and that the queue holds,
  once each, unresolved definitions that wait for nothing.
* `ResultNothingLost`: `Spec => []NothingLost`, and `ReportedLoops`: `Spec => []LoopsReported`. `SearchInv`
  adds what the search of loops keeps: it never meets a sorted definition
  (`ApartInv`), what waits for nothing any more is in the result or on the stack (`PassedInv`),
  the open calls are a path (`PathInv`), what is named lies on a loop (`NamedInv`), and as long
  as nothing is named, what the search has finished is closed under dependents and free of
  loops (`FreeInv`). That a loop is never missed is `FreeInv` together with this: each
  definition that is not sorted waits for another such, so that there would be
  an infinite descent in a finite set.

**Messages and files.** `FilesProofs` first proves, for any set of modules and any bound on
messages, rechecks and loop reports, that `WellFiled` holds (`WellFiledAlways`) and that
`Mailbox` implements `Inbox` (`MailboxImplementsInbox`). `WellFiled` is not inductive: a message
that the manager's box hands on could wait in the box of its module already.
`MailInv` adds `ManagerApart`. Each operation is mapped to one step of `Inbox`, a report to
`Post` (`Posting`), a take to the one that answers and removes what waits for the tag, a recheck to the one that
takes back what is `own`.

It then proves that a client that knows only paths is a client of the mailbox:
`FilesAreMail` is `FileSpec => Spec`, for all file systems, search paths and import
statements, and with it `WellFiled` (`FilesWellFiled`) and `InboxSpec`
(`FilesImplementInbox`) hold of `FileSpec`. A step that makes a target is `AddTarget`, one that answers
nothing is the report of an empty loop; `PathsNamed` is what taking by path needs.

And it proves the properties of the names themselves: `FilesAnswered` (`FileAnswered`),
`NamesAlwaysStay` (`NamesStay`) and `RelativeAlways` (`RelativeNames`), for all file systems,
search paths and import statements over non-empty names. `FilesInv` says that the name of a target
ends the path of its file, counted from the entry of the search path where it was found
(`Lands`), that a path leads to a target of this path, and that what clients added has the name
that `SymidFor` gives it. Three arguments carry it. The walk of `find_module` never leaves
the entries it started from (`Under`, `WalkUnder`). A name that goes through packages
only, up to an entry that is none, is the one that `crawl_path` gives (`OneProperName`):
this is where the attempt failed while `FileAnswered` did not except entries that are
packages, and TLC then confirmed it. And one more directory behind those of the user leaves the
first find of a name as it was, which decides the rest (`SamePlace`, `SameWalk`).

**Imports and symbol tables.** `ImportProofs` proves two properties of `Spec` in `Batches`,
for any modules, packages, texts and edits, any batches and any order of visits:

* `OldTextGoneAlways` (`OldTextGone`). `TextInv` says which of the queues a module
  may be in, that the entries of `impt` are the statements of its text in their order and
  behind them the modules that were bound on the way (`EntriesOf`), and what may stand
  in the table of a module at any time (`Fits`). The names on the way are those of `Taken`
  because each part of `p.m` is a part of the name that is imported (`PathIn`), and what a
  package gets as a submodule is called like a module (`LastName`).
* `ImportsAlwaysAgree` (`ImportsAgree`, of all entries at all times). `ChainInv` adds the
  invariant of the loop of `_resolve_import_chain`: each entry in `buf_targets` is without a value
  and leads to another of them, or to where the chain is now (`Onto`). So what is found there
  is what each of them stands for, and becomes what the others' lookups give (`LookupMoves`: a lookup is
  answered by one entry, or a definition, or a table). Nothing takes that away afterwards:
  values are given once, except to an `import m` that is visited after a
  chain has asked for it, and those had none (`WholeLater`); tables change inside a batch by
  submodules only (`LegbMoves`). Also needed: no table and no value is ever an entry of
  `impt` (`Kinds`), which is why imports in the tables find their value in the cache.

`TableProofs` builds on these and proves what the tables say, again for any modules, packages, texts,
edits, batches and orders of visits:

* `TablesAlwaysRight` (`TablesRight`). A value that a table holds was worked out in a batch long
  ago, along a chain of which other parts were worked out earlier still; to say of it that it is
  right, one would follow the chain, but the induction must not. A *trail* is a set of names that
  contains what one has to look at next for each of its members, none of them muddled, and nothing asked
  that was read again after who asks, or emptied (`Trail`). A value is right for a name if every trail through the name
  ends in this value (`Grounded`); where there is no trail nothing is said. `MeaningInv` says this of
  everything that holds values: the tables (`LocalRight` and `CacheRight`), the entries of the batch (`ValuesRight`),
  and of a chain that is followed that each entry it will give a value leads to where it is (`ChainLeads`).
  A trail survives every step, or is of no interest after it: what is read again
  gets a later stamp than all who have asked for it (`KeptTrail`, `Clocks`), and whatever is queued comes into one
  batch with all it asks (`Gathered`). At the end the `Route` of a clear and fresh name is a trail.
* `TablesAlwaysFound` (`TablesFound`). Resolving gives up in three places, when a chain comes back
  to where it was, when nothing is found, and when `Dump` meets an entry without a value. `FoundInv` says that it
  never does so to a name that is `Sound`: one with a trail on which every name is given by its module, and all of
  whose trails have a definition at their end. What has given up before has a reason that lasts
  (`CacheFull`, `ValuesFull`), what has no value yet will still be visited or waits for the chain
  (`Open`), and the chain is at a sound name if one waits for it (`ChainSound`). That the chain never
  goes round in front of a sound name is the heart of it: `seen` would be a trail without an end
  (`GivesUp`).

**Tests and control flow.** `FlowProofs` proves `StaticRight` first: whatever the version of
Python and however long the test, where `static_infer` decides it, every execution decides it
in the same way, unless the test is one of `Misjudged`. The core is `DecidedEarly` and
`LinkDecided`: tuples that differ before the shorter of them ends compare alike with the
micro number and without it. From there it goes over the first link of a chain
that is not true, and the first operand that ends an `and` or an `or`.

It then proves the four properties of `Flow`, for all programs, depths, tests, declarations
and versions, in three layers:

* `StackInv`: how the open statements and the conditions belong together. Each open
  `if`, `while` and `def` owns one condition, in the order in which they were opened;
  that of an `if` whose test `static_infer` has decided is the decision in its body and the
  opposite after `else`; and a condition that is true or false tells which of the two lists
  executions run, if the test was inferred from a type that covers them
  (`Decided`). The last comes from `StaticRight` where the test is marked and
  from `InferredRight`, the same fact about `ConditionInfer`, where it is not. `VisitedCollected`
  follows: inference goes only into arms that were collected.
* `DeadInv`: what is silenced, by the flag or by the reach of a test, is dead, unless the jump
  is `loose` or the test not `sound`. `FlagKeptInside` and `ReportsExplained` follow. The
  hard step is the end of an `if` that a flag outlives: its first list has jumped, so
  the condition must be true and no execution may come through the second one.
* `NarrowInv`: where the type that a quiet statement began with can be found, in `temp_type` if
  the last test has narrowed, otherwise inside the recorded type; and no condition
  above the statement holds a type saved by an assignment. `NarrowingGivenBack` is the
  action property `Spec => NarrowingUndone`.

**Calls.** `CallsProofs` proves the three properties of `Calls`, for every signature with
distinct names, all types and names of arguments, any number of arguments and any nesting:

* `CallsAcceptedIsLegal` (`AcceptedIsLegal`) and `CallsReportedIsIllegal`
  (`ReportedIsIllegal`), from `TypesAgree`. `match_argument` works through two lists with two indices
  and takes out of `kwargs` what it has used; Python's rules are about names. `Naming` is the bridge:
  what is looked up by name is what may be given by name and is not filled by position, and a
  name stands for one parameter. With it `Compared` is exactly what Python compares, as soon
  as no argument is too much or comes twice (`ComparedIs`), and each error corresponds to a
  rule (`ErrorsAre`, `LegalIs`). The two directions are `AcceptedLegal` and
  `ReportedIllegal`; where they fail are the causes.
* `CallsUniformUseAgrees` (`UniformUseAgrees`). What is bound may be left from another call, but it
  is an instance whenever all receivers were (`Uniform`), and it makes no difference
  which one (`AnyInstance`): it meets the parameter `self` and nothing else.

`CallsInv` is the inductive invariant: nothing is accessed before `modify_argument` has run,
open calls hold only what the program can pass, and what was recorded of the last
call is what `MatchArgument` says of it with the type that was bound.

`PipelineInv`, `CheckInv`, `SortInv`, `SearchInv`, `DefInv`, `TextInv`, `ChainInv`, `MailInv`, `FilesInv`, `CallsInv`, `DeadInv`
and `NarrowInv`, and of `MeaningInv` and `FoundInv` what `Route` can say without the set of all trails, were
model-checked before they were proved; the runs only keep what they were made for.
`StackInv` says that an assignment of conditions to statements exists, out of the many that TLC
would have to try; TLC was given the one that counts the open statements.

**Only model-checked:** all liveness properties, and everything about
`ClassResolve` and `Consistent`, whose recursive operators (the merge of
`get_mro`, consistency of nested types) the prover cannot reason about. So `TypesAgree`, that
`is_consistent` is right up to its known cases, is evaluated for the universe of `MCCalls` only.

## 5. Not modelled, and the plan

Left out for good: the stub generator and the viewer (output only), plugins and the
configuration beyond the version (constant data), the stub files in `faketypeshed` and
`typeshed` (data), and where Python keeps its site packages.

What is left, in this order:

1. `Flow`: class bodies, loops over tuples of several types, and the return types that
   a function collects; the recorder's scopes of names (`recorder.py:125`, the
   one hazard without a property).
2. Expression inference: its containers of results (`infer_expr.py`), operators and
   subscripts, type parameters of classes.
3. Tables of functions and classes in `SymTable`; type aliases and variables.
4. An abstract specification of the pipeline (a module is absent, queued,
   processed or inferred), refined by `Pipeline`.
5. Proofs: the invariants of `ClassResolve`, once its recursion is written without `RECURSIVE`, and
   the refinement of 4.
