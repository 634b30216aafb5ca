------------------------------- MODULE Manager -------------------------------
(***************************************************************************)
(* The Manager of pystatic (pystatic/manager.py): the modules it knows     *)
(* (targets), the stage each of them has reached, the queue of blocks that *)
(* wait for preprocessing and the queue of modules that wait for type      *)
(* inference.  Preprocessor.process and InferStarter.start_infer, which    *)
(* drain the two queues, are in module Pipeline.                           *)
(*                                                                         *)
(* A source text is abstracted to what the two queues depend on: the       *)
(* modules it imports, the methods of its classes and the functions that   *)
(* inference enters.                                                       *)
(***************************************************************************)
EXTENDS Naturals, Sequences, FiniteSets

CONSTANTS
  Symid,      \* module names; a package's __init__ file is a name of its own
  Text,       \* parsed sources: of a module, of a method, of a function
  NoAst,      \* not a Text: what parsing a file with a syntax error gives
  Top,        \* not a Text: the body of a block that is a whole module
  Kind,       \* what Filesys.find_module finds for a name; "split": a
              \* namespace that has a directory in two places of the path
  Typeshed,   \* builtins, typing, typing_extensions and what they import
  Imports,    \* Text -> the names add_import_def hands to the manager, in order
  Methods,    \* Text -> the methods for which resolve_cls_method makes targets
  Funcs,      \* Text -> the functions that inference enters, in order
  Edits       \* Symid -> what a user may save to the file of the module

ASSUME TextAssumption ==
  /\ NoAst \notin Text
  /\ Top \notin Text
  /\ Imports \in [Text -> Seq(Symid)]
  /\ Methods \in [Text -> Seq(Text)]
  /\ Funcs \in [Text -> Seq(Text)]

ASSUME DiskAssumption ==
  /\ Kind \in [Symid -> {"module", "package", "namespace", "split", "absent"}]
  /\ Edits \in [Symid -> SUBSET (Text \cup {NoAst})]
  /\ Typeshed \subseteq Symid
  /\ \A s \in Typeshed : Edits[s] \cap Text # {}

Stage == {"Parse", "Preprocess", "Infer", "FINISH"}

\* A BlockTarget: a whole module, or a method or a function of it.
Block == [symid : Symid, body : Text \cup {Top}]
ModuleBlock(s) == [symid |-> s, body |-> Top]
InnerBlock(s, t) == [symid |-> s, body |-> t]

VARIABLES
  disk,     \* Symid -> the text now in the file, NoAst if it does not parse
  targets,  \* Manager.targets
  toCheck,  \* Manager.to_check
  text,     \* Symid -> Target.ast
  stage,    \* Symid -> Target.stage
  symtab,   \* Symid -> has Target.symtable got the module's names?
  reports,  \* Symid -> inferences of the module whose errors are in its errbox
  qPre,     \* Manager.q_preprocess
  qInf      \* Manager.q_infer (the Targets, by name)

managerVars == <<targets, toCheck, text, stage, symtab, reports, qPre, qInf>>

ManagerTypeOK ==
  /\ disk \in [Symid -> Text \cup {NoAst}]
  /\ targets \in SUBSET Symid
  /\ toCheck \in SUBSET targets
  /\ text \in [Symid -> Text \cup {NoAst}]
  /\ \A s \in targets : text[s] \in Text
  /\ stage \in [Symid -> Stage]
  /\ symtab \in [Symid -> {"empty", "filled"}]
  /\ reports \in [Symid -> Nat]
  /\ qPre \in Seq(Block)
  /\ \A i \in 1..Len(qPre) : qPre[i].symid \in targets
  /\ qInf \in Seq(targets)

DiskInit ==
  /\ disk \in [Symid -> Text \cup {NoAst}]
  /\ \A s \in Symid : disk[s] \in Edits[s]
  /\ \A s \in Typeshed : disk[s] # NoAst

NothingAnalysed ==
  /\ symtab = [s \in Symid |-> IF s \in Typeshed THEN "filled" ELSE "empty"]
  /\ reports = [s \in Symid |-> 0]
  /\ qPre = <<>>
  /\ qInf = <<>>

\* Manager.__init__: __init_typeshed has added and preprocessed the special
\* modules, which nobody asked to check.
ManagerInit ==
  /\ DiskInit
  /\ targets = Typeshed
  /\ toCheck = {}
  /\ text = [s \in Symid |-> IF s \in Typeshed THEN disk[s] ELSE NoAst]
  /\ stage = [s \in Symid |-> IF s \in Typeshed THEN "Preprocess" ELSE "Parse"]
  /\ NothingAnalysed

\* ast of a block: a module's ast is an attribute of the target, which
\* recheck replaces while the block may be waiting in a queue.
TextOf(b) == IF b.body = Top THEN text[b.symid] ELSE b.body

IsModuleFile(s) == Kind[s] \in {"module", "package"}

\* Mutation of ToPreprocess: a target is put in the queue whatever its stage.
ToPreprocessAgain(s) ==
  /\ stage' = [stage EXCEPT ![s] = "Preprocess"]
  /\ qPre' = Append(qPre, ModuleBlock(s))

(***************************************************************************)
(* update_stage(target, Stage.Preprocess, False) and                       *)
(* update_stage(target, Stage.Infer, False): nothing happens if the target *)
(* is at that stage already.                                               *)
(***************************************************************************)
ToPreprocess(s) ==
  IF stage[s] = "Preprocess"
  THEN UNCHANGED <<stage, qPre>>
  ELSE /\ stage' = [stage EXCEPT ![s] = "Preprocess"]
       /\ qPre' = Append(qPre, ModuleBlock(s))

\* Mutation of ToInfer: the stage is set and the queue forgotten.
ToInferUnqueued(s) ==
  /\ stage' = [stage EXCEPT ![s] = "Infer"]
  /\ UNCHANGED qInf

ToInfer(s) ==
  IF stage[s] = "Infer"
  THEN UNCHANGED <<stage, qInf>>
  ELSE /\ stage' = [stage EXCEPT ![s] = "Infer"]
       /\ qInf' = Append(qInf, s)

(***************************************************************************)
(* __add_check_symid(symid, ...).  A name that is a target already, a name *)
(* find_module does not find and a namespace package change nothing (in    *)
(* the first case not even to_check: what an import has brought in cannot  *)
(* be put on check any more).  The assertion that a name leads to one      *)
(* place and the parsing come first: they leave the manager as it was.     *)
(***************************************************************************)
AddIsIgnored(s) == s \in targets \/ Kind[s] \in {"namespace", "absent"}

AddRaises(s) == ~AddIsIgnored(s) /\ (Kind[s] = "split" \/ disk[s] = NoAst)
AddFault(s) == IF Kind[s] = "split" THEN "SplitNamespace" ELSE "SyntaxError"

\* Mutation of AddTarget: the target is added although it did not parse.
AddTargetUnparsed(s, check) ==
  /\ ~AddIsIgnored(s)
  /\ targets' = targets \cup {s}
  /\ toCheck' = IF check THEN toCheck \cup {s} ELSE toCheck
  /\ text' = [text EXCEPT ![s] = disk[s]]
  /\ ToPreprocess(s)
  /\ UNCHANGED <<symtab, reports, qInf>>

AddTarget(s, check) ==
  /\ ~AddIsIgnored(s)
  /\ ~AddRaises(s)
  /\ targets' = targets \cup {s}
  /\ toCheck' = IF check THEN toCheck \cup {s} ELSE toCheck
  /\ text' = [text EXCEPT ![s] = disk[s]]
  /\ ToPreprocess(s)
  /\ UNCHANGED <<symtab, reports, qInf>>

(***************************************************************************)
(* recheck(symid, from_begin).  From the beginning, the file is read again *)
(* (Target.path is a directory for a package, so open() raises), and       *)
(* Target.clear empties the symbol table and the errbox before             *)
(* update_stage decides whether there is anything to do.                   *)
(***************************************************************************)
RecheckRaises(s) == s \notin targets \/ Kind[s] = "package"

\* Mutation of RecheckFromBegin: the stage is set without update_stage.
RecheckUnqueued(s) ==
  /\ ~RecheckRaises(s)
  /\ disk[s] # NoAst
  /\ text' = [text EXCEPT ![s] = disk[s]]
  /\ symtab' = [symtab EXCEPT ![s] = "empty"]
  /\ reports' = [reports EXCEPT ![s] = 0]
  /\ stage' = [stage EXCEPT ![s] = "Preprocess"]
  /\ UNCHANGED <<targets, toCheck, qPre, qInf>>

RecheckFromBegin(s) ==
  /\ ~RecheckRaises(s)
  /\ disk[s] # NoAst
  /\ text' = [text EXCEPT ![s] = disk[s]]
  /\ symtab' = [symtab EXCEPT ![s] = "empty"]
  /\ reports' = [reports EXCEPT ![s] = 0]
  /\ ToPreprocess(s)
  /\ UNCHANGED <<targets, toCheck, qInf>>

=============================================================================
