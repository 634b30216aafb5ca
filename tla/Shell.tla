------------------------------- MODULE Shell -------------------------------
(***************************************************************************)
(* The interactive shell (tool/shell.py) on top of the pipeline.  Its      *)
(* target "__shell__" has no file: each statement that is typed in becomes *)
(* the ast of the target, which is rechecked in place and preprocessed.    *)
(* The shell never calls infer().                                          *)
(***************************************************************************)
EXTENDS CheckClient

CONSTANTS
  ShellSymid,   \* "__shell__"
  Inputs        \* the statements a user may type in (SUBSET Text)

ASSUME ShellAssumption ==
  /\ ShellSymid \in Symid \ Typeshed
  /\ Kind[ShellSymid] = "absent"
  /\ Inputs \subseteq Text

\* Shell.__init__: add_check_target of a target at stage FINISH makes it a
\* target on check and puts it in no queue.  Its ast is set by the first
\* statement, before anybody reads it.
ShellInit ==
  /\ DiskInit
  /\ targets = Typeshed \cup {ShellSymid}
  /\ toCheck = {ShellSymid}
  /\ \E t \in Inputs :
       text = [s \in Symid |-> IF s \in Typeshed THEN disk[s]
                               ELSE IF s = ShellSymid THEN t ELSE NoAst]
  /\ stage = [s \in Symid |-> IF s \in Typeshed THEN "Preprocess"
                              ELSE IF s = ShellSymid THEN "FINISH" ELSE "Parse"]
  /\ NothingAnalysed
  /\ NothingRunning

\* A statement: run() handles a SyntaxError by printing it, and no other
\* exception.
Input(t) ==
  /\ CanCall
  /\ raised \in {"none", "SyntaxError"}
  /\ text' = [text EXCEPT ![ShellSymid] = t]
  /\ ToPreprocess(ShellSymid)
  /\ UNCHANGED <<targets, toCheck, symtab, reports, qInf>>
  /\ EnterProcess("idle")
  /\ raised' = "none"
  /\ calls' = calls + 1 /\ asked' = asked
  /\ UNCHANGED <<disk, env>>

ShellNext ==
  \/ \E t \in Inputs : Input(t)
  \/ \E s \in Symid : Edit(s)
  \/ Process

ShellSpec == ShellInit /\ [][ShellNext]_vars /\ WF_vars(Process)

\* A session of either client, of the shell or of one that checks files, up to
\* its first exception.  (Only the shell survives one, a SyntaxError; what comes
\* of that is the run of DefinedOnce.)
InShell == ShellSymid \in targets

SessionNext ==
  /\ raised = "none"
  /\ (InShell /\ ShellNext) \/ (~InShell /\ CheckNext)

ClientSpec ==
  /\ Init \/ ShellInit
  /\ [][SessionNext]_vars
  /\ WF_vars(Process \/ Infer)

-----------------------------------------------------------------------------
\* A statement that has been typed in has gone through a whole batch when the
\* prompt comes back, unless a fault of the files has raised, and nothing of the
\* call is left in the environment or in the queue, where the next one would
\* meet it.
StatementAnalysed ==
  InShell /\ pc = "idle" /\ raised = "none" =>
    /\ env = {}
    /\ qPre = <<>>
    /\ stage[ShellSymid] \in {"FINISH", "Infer"}
=============================================================================
