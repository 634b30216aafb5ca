------------------------------ MODULE Pipeline ------------------------------
(***************************************************************************)
(* The analysis pipeline: Preprocessor.process (preprocess/preprocessor.py) *)
(* and InferStarter.start_infer (infer/infer.py) draining the Manager's    *)
(* two queues, and the clients that call the Manager.                      *)
(*                                                                         *)
(* Everything runs in one thread, yet the calls interleave: defining a     *)
(* block adds the modules it imports to the queue being drained, finishing *)
(* a module adds its methods to it, inferring a module calls process() for *)
(* each function it enters, and an exception leaves a call between two of  *)
(* its steps and returns to a client that may go on.                       *)
(***************************************************************************)
EXTENDS Manager

CONSTANTS
  MaxCalls,  \* bound on the calls and edits of one behaviour
  Faults,    \* Text -> how the resolution of a batch may fail because of it
  Entry      \* Text -> what the symbol table has for the name of a function
             \* when inference comes to it

\* AssertionError at topo.py:26, for which loops of definitions depends on the
\* order of the walk; AttributeError at symtable.py:195, a star import of a
\* module that was not found; IndexError at resolve_cls.py:206, a class method
\* without parameters.
Fault == {"LoopAssertion", "StarNotFound", "NoParameter"}

ASSUME CallsAssumption == MaxCalls \in Nat
ASSUME FaultAssumption ==
  /\ Faults \in [Text -> SUBSET Fault]
  /\ Entry \in [Text -> {"function", "class", "any"}]

VARIABLES
  pc,       \* where the running call is
  ret,      \* where process() goes on when it returns
  env,      \* PrepEnvironment.symid_prepinfo: modules that have a PrepInfo
  batch,    \* process(): its local list to_check
  todo,     \* imports of the block being defined that are still to be added
  k,        \* position in the loops over batch
  it,       \* position of the iterator over q_infer
  size,     \* Len(q_infer) when that iterator was made
  fns,      \* functions of the module being inferred still to be entered
  raised,   \* the exception that ended the last call, "none" if it returned
  calls,    \* number of client calls and edits so far
  asked     \* history: what each module was when a client first asked to
            \* check it: "new", or "known", a target already

control == <<pc, ret, batch, todo, k, it, size, fns>>
history == <<calls, asked>>
vars == <<disk, managerVars, control, env, raised, history>>

PC == {"idle", "define", "import", "dump", "promote", "infer", "body"}

\* Exceptions, by what raises them: DefinedTwice is the AssertionError of
\* definition.py:23, DequeChanged the RuntimeError of the iterator over q_infer,
\* SplitNamespace the AssertionError of manager.py:102, NoSuchName and
\* NotAFunction the AttributeErrors of a function that inference cannot enter.
Exception == {"none", "SyntaxError", "SplitNamespace", "OSError", "DefinedTwice",
              "DequeChanged", "NoSuchName", "NotAFunction"} \cup Fault

ControlTypeOK ==
  /\ pc \in PC
  /\ ret \in {"idle", "check", "body", "class"}
  /\ env \in SUBSET targets
  /\ batch \in Seq(Block)
  /\ \A i \in 1..Len(batch) : batch[i].symid \in targets
  /\ todo \in Seq(Symid)
  /\ k \in Nat \ {0}
  /\ it \in Nat \ {0}
  /\ size \in Nat
  /\ fns \in Seq(Text)
  /\ raised \in Exception
  /\ calls \in Nat
  /\ asked \in [Symid -> {"no", "new", "known"}]
  /\ pc \in {"idle", "infer", "body"} => ret = "idle"
  /\ pc \in {"infer", "body"} => size <= Len(qInf)
  /\ pc = "body" \/ ret \in {"body", "class"} => it <= size /\ size <= Len(qInf)

TypeOK == ManagerTypeOK /\ ControlTypeOK

NothingRunning ==
  /\ pc = "idle" /\ ret = "idle"
  /\ env = {}
  /\ batch = <<>> /\ todo = <<>> /\ fns = <<>>
  /\ k = 1 /\ it = 1 /\ size = 0
  /\ raised = "none"
  /\ calls = 0 /\ asked = [s \in Symid |-> "no"]

Init == ManagerInit /\ NothingRunning

-----------------------------------------------------------------------------
(* Ways out of a call *)

\* The locals of the functions on the stack are gone; the Manager's queues
\* and the PrepEnvironment stay as they are.
LeaveCall(exc) ==
  /\ pc' = "idle" /\ ret' = "idle"
  /\ batch' = <<>> /\ todo' = <<>> /\ fns' = <<>>
  /\ k' = 1 /\ it' = 1 /\ size' = 0
  /\ raised' = exc

\* process() is entered with batch = <<>>.
EnterProcess(to) ==
  /\ pc' = "define" /\ ret' = to
  /\ UNCHANGED <<batch, todo, k, it, size, fns>>

\* for target in self.q_infer: the iterator remembers the deque it runs over.
EnterInfer ==
  /\ pc' = "infer" /\ ret' = "idle"
  /\ it' = 1 /\ size' = Len(qInf)
  /\ UNCHANGED <<batch, todo, k, fns>>

-----------------------------------------------------------------------------
(* The client: one call at a time, in any order *)

CanCall == pc = "idle" /\ calls < MaxCalls

\* The user saves another text to the file of a module, between two calls.
Edit(s) ==
  /\ CanCall
  /\ \E t \in Edits[s] \ {disk[s]} : disk' = [disk EXCEPT ![s] = t]
  /\ calls' = calls + 1 /\ asked' = asked
  /\ UNCHANGED <<managerVars, control, env, raised>>

\* A call that returns without having changed anything, or raises so.
NothingDone(exc) ==
  /\ raised' = exc
  /\ UNCHANGED managerVars

Recheck(s) ==
  /\ CanCall
  /\ s \in targets
  /\ \/ RecheckRaises(s) /\ NothingDone("OSError")
     \/ ~RecheckRaises(s) /\ disk[s] = NoAst /\ NothingDone("none")
     \/ RecheckFromBegin(s) /\ raised' = "none"
  /\ calls' = calls + 1 /\ asked' = asked
  /\ UNCHANGED <<disk, control, env>>

\* add_check_file(path, to_check): the path names a file, never a package.
AddCheckFile(s, check) ==
  /\ CanCall
  /\ Kind[s] = "module"
  /\ \/ AddIsIgnored(s) /\ NothingDone("none")
     \/ AddRaises(s) /\ NothingDone(AddFault(s))
     \/ AddTarget(s, check) /\ raised' = "none"
  /\ calls' = calls + 1
  /\ asked' = IF check /\ asked[s] = "no"
              THEN [asked EXCEPT ![s] = IF s \in targets THEN "known" ELSE "new"]
              ELSE asked
  /\ UNCHANGED <<disk, control, env>>

CallPreprocess ==
  /\ CanCall
  /\ EnterProcess("idle")
  /\ calls' = calls + 1 /\ asked' = asked
  /\ UNCHANGED <<disk, managerVars, env, raised>>

CallInfer ==
  /\ CanCall
  /\ EnterInfer
  /\ calls' = calls + 1 /\ asked' = asked
  /\ UNCHANGED <<disk, managerVars, env, raised>>

\* What cmdline.py, web.py and the tests do: preprocess(), then infer().
CallCheck ==
  /\ CanCall
  /\ EnterProcess("check")
  /\ calls' = calls + 1 /\ asked' = asked
  /\ UNCHANGED <<disk, managerVars, env, raised>>

-----------------------------------------------------------------------------
(* Preprocessor.process *)

\* The head of the queue is taken off and gets its PrepInfo; get_definition
\* asserts that its module has none yet.
DefineBlock ==
  /\ pc = "define" /\ qPre # <<>>
  /\ LET b == Head(qPre) IN
     /\ ~(b.body = Top /\ b.symid \in env)
     /\ env' = IF b.body = Top THEN env \cup {b.symid} ELSE env
     /\ batch' = Append(batch, b)
     /\ todo' = Imports[TextOf(b)]
  /\ qPre' = Tail(qPre)
  /\ pc' = "import"
  /\ UNCHANGED <<disk, targets, toCheck, text, stage, symtab, reports, qInf,
                 ret, k, it, size, fns, raised, history>>

DefinedTwice ==
  /\ pc = "define" /\ qPre # <<>>
  /\ Head(qPre).body = Top /\ Head(qPre).symid \in env
  /\ qPre' = Tail(qPre)
  /\ LeaveCall("DefinedTwice")
  /\ UNCHANGED <<disk, targets, toCheck, text, stage, symtab, reports, qInf,
                 env, history>>

\* add_import_def: every imported name goes through add_check_symid.
AddImport ==
  /\ pc = "import" /\ todo # <<>>
  /\ \/ AddIsIgnored(Head(todo)) /\ UNCHANGED managerVars
     \/ AddTarget(Head(todo), FALSE)
  /\ todo' = Tail(todo)
  /\ UNCHANGED <<disk, pc, ret, batch, k, it, size, fns, env, raised, history>>

\* ... and nobody on the way up to the client handles its exceptions.
ImportRaises ==
  /\ pc = "import" /\ todo # <<>>
  /\ AddRaises(Head(todo))
  /\ LeaveCall(AddFault(Head(todo)))
  /\ UNCHANGED <<disk, managerVars, env, history>>

BlockDefined ==
  /\ pc = "import" /\ todo = <<>>
  /\ pc' = "define"
  /\ UNCHANGED <<disk, managerVars, ret, batch, todo, k, it, size, fns, env,
                 raised, history>>

\* Mutation of AllDefined: the batch is one block.
OneDefined ==
  /\ pc = "define" /\ (qPre = <<>> \/ batch # <<>>)
  /\ pc' = "dump" /\ k' = 1
  /\ UNCHANGED <<disk, managerVars, ret, batch, todo, it, size, fns, env,
                 raised, history>>

\* The queue is empty: the whole batch is resolved, which touches nothing of
\* this state ...
AllDefined ==
  /\ pc = "define" /\ qPre = <<>>
  /\ pc' = "dump" /\ k' = 1
  /\ UNCHANGED <<disk, managerVars, ret, batch, todo, it, size, fns, env,
                 raised, history>>

\* ... unless it raises: get_prepinfo's modules stay in the environment, and the
\* blocks of the batch, which have left the queue, are lost.
ResolutionRaises ==
  /\ pc = "define" /\ qPre = <<>>
  /\ \E i \in 1..Len(batch) :
       \E exc \in Faults[TextOf(batch[i])] \ {"NoParameter"} : LeaveCall(exc)
  /\ UNCHANGED <<disk, managerVars, env, history>>

\* ... then, block by block, the methods become blocks of their own, put in
\* the queue directly, and the names go to the symbol table.
DumpBlock ==
  /\ pc = "dump" /\ k <= Len(batch)
  /\ "NoParameter" \notin Faults[TextOf(batch[k])]
  /\ LET b == batch[k]
         ms == Methods[TextOf(b)]
     IN  /\ qPre' = qPre \o [i \in 1..Len(ms) |-> InnerBlock(b.symid, ms[i])]
         /\ symtab' = IF b.body = Top
                      THEN [symtab EXCEPT ![b.symid] = "filled"] ELSE symtab
  /\ k' = k + 1
  /\ UNCHANGED <<disk, targets, toCheck, text, stage, reports, qInf,
                 pc, ret, batch, todo, it, size, fns, env, raised, history>>

\* resolve_cls_method raises, after it has queued the methods of some classes.
MethodsRaise ==
  /\ pc = "dump" /\ k <= Len(batch)
  /\ "NoParameter" \in Faults[TextOf(batch[k])]
  /\ \E n \in 0..Len(Methods[TextOf(batch[k])]) :
       qPre' = qPre \o [i \in 1..n |-> InnerBlock(batch[k].symid, Methods[TextOf(batch[k])][i])]
  /\ LeaveCall("NoParameter")
  /\ UNCHANGED <<disk, targets, toCheck, text, stage, symtab, reports, qInf, env, history>>

\* Mutation of AllDumped: the last block is left out.
AllButLastDumped ==
  /\ pc = "dump" /\ k >= Len(batch)
  /\ pc' = "promote" /\ k' = 1
  /\ UNCHANGED <<disk, managerVars, ret, batch, todo, it, size, fns, env,
                 raised, history>>

AllDumped ==
  /\ pc = "dump" /\ k > Len(batch)
  /\ pc' = "promote" /\ k' = 1
  /\ UNCHANGED <<disk, managerVars, ret, batch, todo, it, size, fns, env,
                 raised, history>>

\* Mutation of PromoteBlock: imported modules are inferred too.
PromoteAny ==
  /\ pc = "promote" /\ k <= Len(batch)
  /\ IF batch[k].body = Top THEN ToInfer(batch[k].symid) ELSE UNCHANGED <<stage, qInf>>
  /\ k' = k + 1
  /\ UNCHANGED <<disk, targets, toCheck, text, symtab, reports, qPre,
                 pc, ret, batch, todo, it, size, fns, env, raised, history>>

\* A module that is on check is handed over to inference; other blocks stay
\* at stage Preprocess for ever.
PromoteBlock ==
  /\ pc = "promote" /\ k <= Len(batch)
  /\ LET b == batch[k] IN
       IF b.body = Top /\ b.symid \in toCheck
       THEN ToInfer(b.symid)
       ELSE UNCHANGED <<stage, qInf>>
  /\ k' = k + 1
  /\ UNCHANGED <<disk, targets, toCheck, text, symtab, reports, qPre,
                 pc, ret, batch, todo, it, size, fns, env, raised, history>>

\* The outer while: methods have been put in the queue, start another batch.
NextBatch ==
  /\ pc = "promote" /\ k > Len(batch) /\ qPre # <<>>
  /\ pc' = "define" /\ batch' = <<>> /\ k' = 1
  /\ UNCHANGED <<disk, managerVars, ret, todo, it, size, fns, env, raised,
                 history>>

\* Mutation of ProcessReturns: the environment is not cleared.
ProcessReturnsUncleared ==
  /\ pc = "promote" /\ k > Len(batch) /\ qPre = <<>>
  /\ \/ ret = "idle" /\ LeaveCall("none")
     \/ ret = "class" /\ LeaveCall("NotAFunction")
     \/ /\ ret = "check"
        /\ pc' = "infer" /\ ret' = "idle" /\ it' = 1 /\ size' = Len(qInf)
        /\ batch' = <<>> /\ k' = 1
        /\ UNCHANGED <<todo, fns, raised>>
     \/ /\ ret = "body"
        /\ pc' = "body" /\ ret' = "idle"
        /\ batch' = <<>> /\ k' = 1
        /\ UNCHANGED <<todo, it, size, fns, raised>>
  /\ UNCHANGED <<disk, managerVars, env, history>>

\* env.clear(), and process() returns to whoever called it.
ProcessReturns ==
  /\ pc = "promote" /\ k > Len(batch) /\ qPre = <<>>
  /\ env' = {}
  /\ \/ ret = "idle" /\ LeaveCall("none")
     \/ ret = "class" /\ LeaveCall("NotAFunction")
     \/ /\ ret = "check"
        /\ pc' = "infer" /\ ret' = "idle" /\ it' = 1 /\ size' = Len(qInf)
        /\ batch' = <<>> /\ k' = 1
        /\ UNCHANGED <<todo, fns, raised>>
     \/ /\ ret = "body"
        /\ pc' = "body" /\ ret' = "idle"
        /\ batch' = <<>> /\ k' = 1
        /\ UNCHANGED <<todo, it, size, fns, raised>>
  /\ UNCHANGED <<disk, managerVars, history>>

-----------------------------------------------------------------------------
(* InferStarter.start_infer and the part of InferVisitor that calls back *)

InferModule ==
  /\ pc = "infer" /\ Len(qInf) = size /\ it <= size
  /\ reports' = [reports EXCEPT ![qInf[it]] = @ + 1]
  /\ fns' = Funcs[text[qInf[it]]]
  /\ pc' = "body"
  /\ UNCHANGED <<disk, targets, toCheck, text, stage, symtab, qPre, qInf,
                 ret, batch, todo, k, it, size, env, raised, history>>

\* The iterator of a deque that has changed raises, at the end of it too.
IteratorRaises ==
  /\ pc = "infer" /\ Len(qInf) # size
  /\ LeaveCall("DequeChanged")
  /\ UNCHANGED <<disk, managerVars, env, history>>

\* Mutation of AllInferred: the queue is not emptied.
AllInferredKept ==
  /\ pc = "infer" /\ Len(qInf) = size /\ it > size
  /\ LeaveCall("none")
  /\ UNCHANGED <<disk, managerVars, env, history>>

AllInferred ==
  /\ pc = "infer" /\ Len(qInf) = size /\ it > size
  /\ qInf' = <<>>
  /\ LeaveCall("none")
  /\ UNCHANGED <<disk, targets, toCheck, text, stage, symtab, reports, qPre,
                 env, history>>

\* Mutation of EnterFunction: the visitor does not get past the function.
EnterFunctionAgain ==
  /\ pc = "body" /\ fns # <<>>
  /\ symtab[qInf[it]] = "filled" /\ Entry[Head(fns)] # "any"
  /\ qPre' = Append(qPre, InnerBlock(qInf[it], Head(fns)))
  /\ pc' = "define" /\ ret' = "body"
  /\ UNCHANGED <<disk, targets, toCheck, text, stage, symtab, reports, qInf,
                 batch, todo, k, it, size, fns, env, raised, history>>

\* visit_FunctionDef: the body is preprocessed first, and with it whatever
\* else is in the queue; after that the entry must be a function's.
EnterFunction ==
  /\ pc = "body" /\ fns # <<>>
  /\ symtab[qInf[it]] = "filled" /\ Entry[Head(fns)] # "any"
  /\ qPre' = Append(qPre, InnerBlock(qInf[it], Head(fns)))
  /\ fns' = Tail(fns)
  /\ pc' = "define" /\ ret' = IF Entry[Head(fns)] = "class" THEN "class" ELSE "body"
  /\ UNCHANGED <<disk, targets, toCheck, text, stage, symtab, reports, qInf,
                 batch, todo, k, it, size, env, raised, history>>

\* visit_scope finds nothing, or Any: the method of a class whose methods were
\* never typed, say.
FunctionUnknown ==
  /\ pc = "body" /\ fns # <<>>
  /\ \/ symtab[qInf[it]] = "empty" /\ LeaveCall("NoSuchName")
     \/ /\ symtab[qInf[it]] = "filled" /\ Entry[Head(fns)] = "any"
        /\ LeaveCall("NotAFunction")
  /\ UNCHANGED <<disk, managerVars, env, history>>

ModuleInferred ==
  /\ pc = "body" /\ fns = <<>>
  /\ it' = it + 1
  /\ pc' = "infer"
  /\ UNCHANGED <<disk, managerVars, ret, batch, todo, k, size, fns, env,
                 raised, history>>

-----------------------------------------------------------------------------
Process ==
  \/ DefineBlock \/ DefinedTwice \/ AddImport \/ ImportRaises \/ BlockDefined
  \/ AllDefined \/ ResolutionRaises \/ DumpBlock \/ MethodsRaise \/ AllDumped
  \/ PromoteBlock \/ NextBatch \/ ProcessReturns

Infer ==
  \/ InferModule \/ IteratorRaises \/ AllInferred
  \/ EnterFunction \/ FunctionUnknown \/ ModuleInferred

Client ==
  \/ \E s \in Symid : Edit(s) \/ Recheck(s)
  \/ \E s \in Symid, check \in BOOLEAN : AddCheckFile(s, check)
  \/ CallPreprocess \/ CallInfer \/ CallCheck

Next == Client \/ Process \/ Infer

\* One thread: a call that has started runs on to its end.
Spec == Init /\ [][Next]_vars /\ WF_vars(Process \/ Infer)

-----------------------------------------------------------------------------
(* Properties *)

Queued(s) == \E i \in 1..Len(qPre) : qPre[i] = ModuleBlock(s)
InBatch(s) == \E i \in 1..Len(batch) : batch[i] = ModuleBlock(s)

\* Every module that waits for preprocessing is at stage Preprocess: the
\* assertion of process() (preprocessor.py:41) can never fail, in whatever
\* order the client calls and wherever an exception has cut a call short.
QueuedAtPreprocess == \A s \in Symid : Queued(s) => stage[s] = "Preprocess"

\* No module waits twice, and none waits that is also in the batch being
\* worked on, so no batch resolves a module two times.
QueuedOnce ==
  /\ \A i, j \in 1..Len(qPre) :
       qPre[i].body = Top /\ qPre[j] = qPre[i] => i = j
  /\ \A i, j \in 1..Len(batch) :
       batch[i].body = Top /\ batch[j] = batch[i] => i = j
  /\ \A s \in Symid : ~(Queued(s) /\ InBatch(s))

QueueDiscipline == QueuedAtPreprocess /\ QueuedOnce

\* The facts about the batch that make it inductive, and with it the next
\* property: the batch lives inside process(), and its symbol tables are
\* filled one by one before any of its modules is promoted.
BatchInProcess == pc \in {"idle", "infer", "body"} => batch = <<>>
BatchFilled ==
  \A i \in 1..Len(batch) :
    batch[i].body = Top /\ (pc = "promote" \/ (pc = "dump" /\ i < k))
      => symtab[batch[i].symid] = "filled"

PipelineInv == TypeOK /\ QueueDiscipline /\ BatchInProcess /\ BatchFilled

\* A module is handed to inference only by a batch that has filled its symbol
\* table, and only if somebody asked to check it; imports alone are never
\* inferred (the end of process(), preprocessor.py:78).
OnlyPreprocessedPromoted ==
  [][\A s \in Symid : stage'[s] = "Infer" /\ stage[s] # "Infer"
        => InBatch(s) /\ symtab[s] = "filled" /\ s \in toCheck]_vars

\* Every call comes to an end, with modules that import each other, methods
\* and functions that import again, and inference calling process().
CallsReturn == pc # "idle" ~> pc = "idle"

\* What get_definition asserts: process() never meets a module that the
\* environment already holds a PrepInfo of.
DefinedOnce ==
  pc = "define" /\ qPre # <<>> /\ Head(qPre).body = Top
    => Head(qPre).symid \notin env

\* What recheck's docstring says: a module on check whose recheck succeeded is
\* going to be analysed again.  (Of one that is only imported it is not true:
\* its stage is Preprocess for ever.  Module Batches shows what that does.)
RecheckQueues ==
  [][\A s \in Symid : pc = "idle" /\ RecheckFromBegin(s) => Queued(s)']_vars
=============================================================================
