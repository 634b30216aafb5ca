---------------------------- MODULE CheckClient ----------------------------
(***************************************************************************)
(* The Manager as the programs of the repository use it (tool/cmdline.py,  *)
(* tool/instaviz/web.py, tests/util.py): files are added to be checked,    *)
(* preprocess() is always followed by infer() and, in a session that stays *)
(* open, a file that was added can be rechecked after an edit.             *)
(***************************************************************************)
EXTENDS Pipeline, Functions

CheckFile(s) == AddCheckFile(s, TRUE)

RecheckFile(s) == s \in toCheck /\ Recheck(s)

CheckNext ==
  \/ \E s \in Symid : Edit(s) \/ CheckFile(s) \/ RecheckFile(s)
  \/ CallCheck
  \/ Process
  \/ Infer

CheckSpec == Init /\ [][CheckNext]_vars /\ WF_vars(Process \/ Infer)

-----------------------------------------------------------------------------
\* Whatever ends a call of these clients is a fault of the files: one does not
\* parse or cannot be resolved, or a function has lost its name.  It is never
\* the order of the calls: get_definition never meets a module twice
\* (definition.py:23), the deque never changes under the iterator of start_infer
\* (infer.py:367), and inference never asks an empty table for a function
\* (infer.py:217).
NoException == raised \notin {"DefinedTwice", "DequeChanged", "NoSuchName"}

\* When nothing is left to preprocess and nothing has been raised, every file
\* that a client has asked for has been inferred, exactly once since its source
\* was last read: no message is missing and none appears twice.  The exception:
\* a file that an import had brought in before it was asked for is never put on
\* check (manager.py:81), and never inferred.
CheckedExactlyOnce ==
  pc = "idle" /\ qPre = <<>> /\ raised = "none"
    => \A s \in Symid :
         /\ asked[s] = "new" => stage[s] = "Infer" /\ reports[s] = 1
         /\ asked[s] = "known" => reports[s] = 0

\* When a batch has been resolved, whatever its blocks import and the file
\* system has is at hand: it is in the same environment or its symbol
\* table is filled, so that resolve_import has found it.
ImportsAtHand ==
  pc = "dump" =>
    \A b \in Range(batch) : \A s \in Range(Imports[TextOf(b)]) :
      IsModuleFile(s) => s \in env \/ symtab[s] = "filled"

\* Inference of a module never runs on the names of an older text: the text
\* that is being inferred is the one its symbol table was filled from.
InferredFromFilled ==
  pc = "infer" => \A i \in it..Len(qInf) : symtab[qInf[i]] = "filled"

\* Whatever is asked for before an import brings it in is checked by the next
\* call of preprocess() and infer(), if no fault of the files ends that call.
Requested(s) ==
  asked[s] = "new" /\ pc = "define" /\ ret = "check" /\ stage[s] = "Preprocess"
EventuallyChecked == \A s \in Symid : Requested(s) ~> reports[s] > 0 \/ raised # "none"
=============================================================================
