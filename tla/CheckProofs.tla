---------------------------- MODULE CheckProofs ----------------------------
(***************************************************************************)
(* What holds of the pipeline for every set of modules, every text they    *)
(* may have, every sequence of client calls and every exception; and what  *)
(* the clients of the repository can rely on: in every session of the      *)
(* shell and of a program that checks files, for all modules and texts,    *)
(* only a fault of the files ends a call, and until one does every file    *)
(* that was asked for, and not imported before, is inferred exactly once.  *)
(***************************************************************************)
EXTENDS Shell, TLAPS

USE DEF history

-----------------------------------------------------------------------------
(* The operations of the Manager *)

\* The text of a block of a target is a parsed text.
LEMMA TextOfBlock ==
  ASSUME ManagerTypeOK, NEW b \in Block, b.symid \in targets
  PROVE  TextOf(b) \in Text
BY DEF ManagerTypeOK, TextOf, Block

\* update_stage(target, Preprocess) keeps the queue a queue of blocks.
LEMMA ToPreprocessType ==
  ASSUME ManagerTypeOK, NEW s \in Symid, ToPreprocess(s)
  PROVE  /\ stage' \in [Symid -> Stage]
         /\ qPre' \in Seq(Block)
         /\ \A i \in 1..Len(qPre') : qPre'[i].symid \in targets \cup {s}
<1>. stage \in [Symid -> Stage] /\ qPre \in Seq(Block)
     /\ \A i \in 1..Len(qPre) : qPre[i].symid \in targets
  BY DEF ManagerTypeOK
<1>. ModuleBlock(s) \in Block /\ ModuleBlock(s).symid = s
  BY DEF ModuleBlock, Block
<1>1. CASE stage[s] = "Preprocess"
  BY <1>1 DEF ToPreprocess
<1>2. CASE stage[s] # "Preprocess"
  <2>1. stage' = [stage EXCEPT ![s] = "Preprocess"]
    BY <1>2 DEF ToPreprocess
  <2>2. qPre' = Append(qPre, ModuleBlock(s))
    BY <1>2 DEF ToPreprocess
  <2>. QED BY <2>1, <2>2 DEF Stage
<1>. QED BY <1>1, <1>2

\* __add_check_symid keeps the manager well typed.
LEMMA AddTargetType ==
  ASSUME ManagerTypeOK, NEW s \in Symid, NEW check \in BOOLEAN,
         AddTarget(s, check), disk' = disk
  PROVE  ManagerTypeOK' /\ targets \subseteq targets' /\ qInf' = qInf
<1>. USE DEF AddTarget
<1>1. stage' \in [Symid -> Stage] /\ qPre' \in Seq(Block)
      /\ \A i \in 1..Len(qPre') : qPre'[i].symid \in targets'
  BY ToPreprocessType
<1>2. toCheck' \in SUBSET targets' /\ targets' \in SUBSET Symid
  BY DEF ManagerTypeOK
<1>3. text' \in [Symid -> Text \cup {NoAst}] /\ \A r \in targets' : text'[r] \in Text
  BY DEF ManagerTypeOK, AddRaises
<1>4. qInf' \in Seq(targets')
  BY DEF ManagerTypeOK
<1>. QED BY <1>1, <1>2, <1>3, <1>4 DEF ManagerTypeOK

\* recheck keeps the manager well typed.
LEMMA RecheckType ==
  ASSUME ManagerTypeOK, NEW s \in Symid, RecheckFromBegin(s), disk' = disk
  PROVE  ManagerTypeOK' /\ targets' = targets /\ qInf' = qInf
<1>. USE DEF RecheckFromBegin
<1>1. s \in targets
  BY DEF RecheckRaises
<1>2. stage' \in [Symid -> Stage] /\ qPre' \in Seq(Block)
      /\ \A i \in 1..Len(qPre') : qPre'[i].symid \in targets'
  BY <1>1, ToPreprocessType
<1>3. text' \in [Symid -> Text \cup {NoAst}] /\ \A r \in targets' : text'[r] \in Text
  BY DEF ManagerTypeOK
<1>4. symtab' \in [Symid -> {"empty", "filled"}] /\ reports' \in [Symid -> Nat]
  BY DEF ManagerTypeOK
<1>. QED BY <1>2, <1>3, <1>4 DEF ManagerTypeOK

-----------------------------------------------------------------------------
(* Type correctness *)

\* A call that is left, by return or by exception, leaves nothing running.
LEMMA LeaveCallType ==
  ASSUME NEW exc \in Exception, LeaveCall(exc), ManagerTypeOK',
         env' \in SUBSET targets', calls' \in Nat,
         asked' \in [Symid -> {"no", "new", "known"}]
  PROVE  TypeOK'
BY DEF LeaveCall, TypeOK, ControlTypeOK, PC

LEMMA ClientType ==
  ASSUME TypeOK, Client
  PROVE  TypeOK'
<1>. USE DEF TypeOK
<1>1. calls' \in Nat /\ asked' \in [Symid -> {"no", "new", "known"}]
  <2>1. calls' \in Nat
    BY DEF Client, Edit, Recheck, AddCheckFile, CallPreprocess, CallInfer,
           CallCheck, ControlTypeOK
  <2>2. ASSUME NEW s \in Symid, NEW check \in BOOLEAN, AddCheckFile(s, check)
        PROVE  asked' \in [Symid -> {"no", "new", "known"}]
    BY <2>2 DEF AddCheckFile, ControlTypeOK
  <2>3. asked' = asked \/ \E s \in Symid, check \in BOOLEAN : AddCheckFile(s, check)
    BY DEF Client, Edit, Recheck, CallPreprocess, CallInfer, CallCheck
  <2>. QED BY <2>1, <2>2, <2>3 DEF ControlTypeOK
<1>2. ASSUME NEW s \in Symid, Edit(s)
      PROVE  TypeOK'
  <2>1. disk' \in [Symid -> Text \cup {NoAst}]
    BY <1>2, DiskAssumption DEF Edit, ManagerTypeOK
  <2>2. ManagerTypeOK'
    BY <1>2, <2>1 DEF Edit, ManagerTypeOK, managerVars
  <2>. QED BY <1>1, <1>2, <2>2 DEF Edit, ControlTypeOK, managerVars, control
<1>3. ASSUME NEW s \in Symid, Recheck(s)
      PROVE  TypeOK'
  <2>1. ManagerTypeOK' /\ targets' = targets /\ qInf' = qInf
    <3>1. CASE RecheckFromBegin(s)
      BY <1>3, <3>1, RecheckType DEF Recheck
    <3>2. CASE UNCHANGED managerVars
      BY <1>3, <3>2 DEF Recheck, managerVars, ManagerTypeOK
    <3>. QED BY <1>3, <3>1, <3>2 DEF Recheck, NothingDone
  <2>2. raised' \in Exception
    BY <1>3 DEF Recheck, NothingDone, Exception
  <2>. QED BY <1>1, <1>3, <2>1, <2>2 DEF Recheck, ControlTypeOK, control
<1>4. ASSUME NEW s \in Symid, NEW check \in BOOLEAN, AddCheckFile(s, check)
      PROVE  TypeOK'
  <2>1. ManagerTypeOK' /\ targets \subseteq targets' /\ qInf' = qInf
    <3>1. CASE AddTarget(s, check)
      BY <1>4, <3>1, AddTargetType DEF AddCheckFile
    <3>2. CASE UNCHANGED managerVars
      BY <1>4, <3>2 DEF AddCheckFile, managerVars, ManagerTypeOK
    <3>. QED BY <1>4, <3>1, <3>2 DEF AddCheckFile, NothingDone
  <2>2. raised' \in Exception
    BY <1>4 DEF AddCheckFile, NothingDone, Exception, AddFault
  <2>. QED BY <1>1, <1>4, <2>1, <2>2 DEF AddCheckFile, ControlTypeOK, control
<1>5. ASSUME CallPreprocess \/ CallCheck \/ CallInfer
      PROVE  TypeOK'
  <2>1. ManagerTypeOK'
    BY <1>5 DEF CallPreprocess, CallCheck, CallInfer, managerVars, ManagerTypeOK
  <2>. QED
    BY SMTT(30), <1>1, <1>5, <2>1 DEF CallPreprocess, CallCheck, CallInfer, CanCall,
       EnterProcess, EnterInfer, managerVars, ControlTypeOK, PC, ManagerTypeOK
<1>. QED BY <1>2, <1>3, <1>4, <1>5 DEF Client

\* Taking the head off a list.
LEMMA HeadTail ==
  ASSUME NEW S, NEW q \in Seq(S), q # <<>>
  PROVE  /\ Head(q) \in S /\ Head(q) = q[1] /\ 1 \in 1..Len(q)
         /\ Tail(q) \in Seq(S) /\ Len(Tail(q)) = Len(q) - 1
         /\ \A i \in 1..Len(Tail(q)) :
              Tail(q)[i] = q[i + 1] /\ i + 1 \in 1..Len(q)
<1>1. Head(q) \in S /\ Tail(q) \in Seq(S) /\ Len(Tail(q)) = Len(q) - 1
  OBVIOUS
<1>2. Head(q) = q[1] /\ 1 \in 1..Len(q)
  OBVIOUS
<1>3. ASSUME NEW i \in 1..Len(Tail(q))
      PROVE  Tail(q)[i] = q[i + 1] /\ i + 1 \in 1..Len(q)
  BY <1>1
<1>. QED BY <1>1, <1>2, <1>3

\* Some of the methods of a block are queued before resolution raises.
LEMMA MethodsRaiseQueues ==
  ASSUME TypeOK, MethodsRaise
  PROVE  \E new \in Seq(Block) :
           /\ qPre' = qPre \o new
           /\ \A i \in 1..Len(new) : new[i].body # Top /\ new[i].symid \in targets
<1>. DEFINE b == batch[k]
            ms == Methods[TextOf(b)]
<1>1. b \in Block /\ b.symid \in targets /\ b.symid \in Symid
  BY DEF MethodsRaise, TypeOK, ControlTypeOK, ManagerTypeOK
<1>2. ms \in Seq(Text)
  BY <1>1, TextOfBlock, TextAssumption DEF TypeOK
<1>3. PICK n \in 0..Len(ms) : qPre' = qPre \o [i \in 1..n |-> InnerBlock(b.symid, ms[i])]
  BY DEF MethodsRaise
<1>. HIDE DEF ms, b
<1>4. \A i \in 1..n : ms[i] \in Text
  BY <1>2
<1>5. \A t \in Text : /\ InnerBlock(b.symid, t) \in Block
                      /\ InnerBlock(b.symid, t).body # Top
                      /\ InnerBlock(b.symid, t).symid \in targets
  BY <1>1, TextAssumption DEF InnerBlock, Block
<1>. DEFINE new == [i \in 1..n |-> InnerBlock(b.symid, ms[i])]
<1>6. /\ new \in Seq(Block) /\ Len(new) = n
      /\ \A i \in 1..n : new[i].body # Top /\ new[i].symid \in targets
  BY <1>2, <1>4, <1>5
<1>. QED BY <1>3, <1>6

LEMMA ProcessType ==
  ASSUME TypeOK, Process
  PROVE  TypeOK'
<1>. USE DEF TypeOK
<1>1. ASSUME DefineBlock PROVE TypeOK'
  <2>. DEFINE b == Head(qPre)
  <2>1. b \in Block /\ b.symid \in targets /\ Tail(qPre) \in Seq(Block)
        /\ \A i \in 1..Len(Tail(qPre)) : Tail(qPre)[i] = qPre[i + 1]
        /\ Len(Tail(qPre)) = Len(qPre) - 1
    <3>1. qPre \in Seq(Block) /\ qPre # <<>>
          /\ \A i \in 1..Len(qPre) : qPre[i].symid \in targets
      BY <1>1 DEF DefineBlock, ManagerTypeOK
    <3>. QED BY <3>1, HeadTail
  <2>2. Imports[TextOf(b)] \in Seq(Symid)
    BY <2>1, TextOfBlock, TextAssumption
  <2>3. ManagerTypeOK'
    BY <1>1, <2>1 DEF DefineBlock, ManagerTypeOK
  <2>4. batch' \in Seq(Block) /\ \A i \in 1..Len(batch') : batch'[i].symid \in targets'
    BY <1>1, <2>1 DEF DefineBlock, ControlTypeOK
  <2>5. env' \in SUBSET targets'
    BY <1>1, <2>1 DEF DefineBlock, ControlTypeOK
  <2>. QED BY <1>1, <2>2, <2>3, <2>4, <2>5 DEF DefineBlock, ControlTypeOK, PC
<1>2. ASSUME DefinedTwice PROVE TypeOK'
  <2>1. Tail(qPre) \in Seq(Block)
        /\ \A i \in 1..Len(Tail(qPre)) : Tail(qPre)[i] = qPre[i + 1]
        /\ Len(Tail(qPre)) = Len(qPre) - 1
    BY <1>2, HeadTail DEF DefinedTwice, ManagerTypeOK
  <2>2. ManagerTypeOK'
    BY <1>2, <2>1 DEF DefinedTwice, ManagerTypeOK
  <2>. QED BY <1>2, <2>2, LeaveCallType DEF DefinedTwice, Exception, ControlTypeOK
<1>3. ASSUME AddImport PROVE TypeOK'
  <2>1. Head(todo) \in Symid /\ Tail(todo) \in Seq(Symid)
    BY <1>3 DEF AddImport, ControlTypeOK
  <2>2. ManagerTypeOK' /\ targets \subseteq targets' /\ qInf' = qInf
    <3>1. CASE AddTarget(Head(todo), FALSE)
      BY <1>3, <3>1, <2>1, AddTargetType DEF AddImport
    <3>2. CASE UNCHANGED managerVars
      BY <1>3, <3>2 DEF AddImport, managerVars, ManagerTypeOK
    <3>. QED BY <1>3, <3>1, <3>2 DEF AddImport
  <2>. QED BY <1>3, <2>1, <2>2 DEF AddImport, ControlTypeOK
<1>4. ASSUME ImportRaises PROVE TypeOK'
  <2>1. ManagerTypeOK'
    BY <1>4 DEF ImportRaises, managerVars, ManagerTypeOK
  <2>. QED
    BY <1>4, <2>1, LeaveCallType
    DEF ImportRaises, AddFault, Exception, ControlTypeOK, managerVars
<1>5. ASSUME BlockDefined \/ AllDefined \/ AllDumped \/ NextBatch PROVE TypeOK'
  <2>1. ManagerTypeOK'
    BY <1>5 DEF BlockDefined, AllDefined, AllDumped, NextBatch, managerVars,
       ManagerTypeOK
  <2>2. CASE BlockDefined
    BY <2>1, <2>2 DEF BlockDefined, managerVars, ControlTypeOK, PC
  <2>3. CASE AllDefined
    BY <2>1, <2>3 DEF AllDefined, managerVars, ControlTypeOK, PC
  <2>4. CASE AllDumped
    BY <2>1, <2>4 DEF AllDumped, managerVars, ControlTypeOK, PC
  <2>5. CASE NextBatch
    BY <2>1, <2>5 DEF NextBatch, managerVars, ControlTypeOK, PC
  <2>. QED BY <1>5, <2>2, <2>3, <2>4, <2>5
<1>6. ASSUME DumpBlock PROVE TypeOK'
  <2>. DEFINE b == batch[k]
              ms == Methods[TextOf(b)]
              blocks == [i \in 1..Len(ms) |-> InnerBlock(b.symid, ms[i])]
  <2>1. b \in Block /\ b.symid \in targets /\ b.symid \in Symid
    BY <1>6 DEF DumpBlock, ControlTypeOK, ManagerTypeOK
  <2>2. ms \in Seq(Text)
    BY <2>1, TextOfBlock, TextAssumption
  <2>3. /\ blocks \in Seq(Block)
        /\ Len(blocks) = Len(ms)
        /\ \A i \in 1..Len(blocks) : blocks[i].symid \in targets
    BY <2>1, <2>2 DEF InnerBlock, Block
  <2>. HIDE DEF blocks
  <2>4. /\ qPre' = qPre \o blocks
        /\ symtab' = IF b.body = Top
                     THEN [symtab EXCEPT ![b.symid] = "filled"] ELSE symtab
    BY <1>6 DEF DumpBlock, blocks
  <2>5. qPre' \in Seq(Block) /\ \A i \in 1..Len(qPre') : qPre'[i].symid \in targets
    BY <2>3, <2>4 DEF ManagerTypeOK
  <2>6. symtab' \in [Symid -> {"empty", "filled"}]
    BY <2>1, <2>4 DEF ManagerTypeOK
  <2>7. ManagerTypeOK'
    BY <1>6, <2>5, <2>6 DEF DumpBlock, ManagerTypeOK
  <2>. QED BY <1>6, <2>7 DEF DumpBlock, ControlTypeOK
<1>7. ASSUME PromoteBlock PROVE TypeOK'
  <2>1. batch[k] \in Block /\ batch[k].symid \in targets /\ batch[k].symid \in Symid
    BY <1>7 DEF PromoteBlock, ControlTypeOK, ManagerTypeOK
  <2>2. /\ stage' \in [Symid -> Stage]
        /\ qInf' \in Seq(targets)
        /\ Len(qInf) <= Len(qInf')
    <3>1. CASE UNCHANGED <<stage, qInf>>
      BY <3>1 DEF ManagerTypeOK
    <3>2. ASSUME NEW s \in targets, s \in Symid, ToInfer(s), stage[s] # "Infer"
          PROVE  /\ stage' \in [Symid -> Stage]
                 /\ qInf' \in Seq(targets)
                 /\ Len(qInf) <= Len(qInf')
      <4>1. stage' = [stage EXCEPT ![s] = "Infer"] /\ qInf' = Append(qInf, s)
        BY <3>2 DEF ToInfer
      <4>. QED BY <3>2, <4>1 DEF ManagerTypeOK, Stage
    <3>. QED BY <1>7, <2>1, <3>1, <3>2 DEF PromoteBlock, ToInfer
  <2>3. ManagerTypeOK'
    BY <1>7, <2>2 DEF PromoteBlock, ManagerTypeOK
  <2>. QED BY <1>7, <2>2, <2>3 DEF PromoteBlock, ControlTypeOK, ManagerTypeOK
<1>8. ASSUME ProcessReturns PROVE TypeOK'
  <2>1. ManagerTypeOK'
    BY <1>8 DEF ProcessReturns, managerVars, ManagerTypeOK
  <2>2. CASE ret = "idle"
    BY <1>8, <2>1, <2>2, LeaveCallType
    DEF ProcessReturns, Exception, ControlTypeOK, managerVars
  <2>3. CASE ret = "check"
    <3>1. Len(qInf) \in Nat /\ qInf' = qInf
      BY <1>8 DEF ProcessReturns, ManagerTypeOK, managerVars
    <3>. QED
      BY <1>8, <2>1, <2>3, <3>1 DEF ProcessReturns, ControlTypeOK, managerVars, PC
  <2>4. CASE ret = "body"
    BY <1>8, <2>1, <2>4 DEF ProcessReturns, ControlTypeOK, managerVars, PC
  <2>5. CASE ret = "class"
    BY <1>8, <2>1, <2>5, LeaveCallType
    DEF ProcessReturns, Exception, ControlTypeOK, managerVars
  <2>. QED BY <2>2, <2>3, <2>4, <2>5 DEF ControlTypeOK
<1>9. ASSUME ResolutionRaises PROVE TypeOK'
  <2>0. PICK n \in 1..Len(batch) : \E exc \in Faults[TextOf(batch[n])] : LeaveCall(exc)
    BY <1>9 DEF ResolutionRaises
  <2>1. PICK exc \in Faults[TextOf(batch[n])] : LeaveCall(exc)
    BY <2>0
  <2>2. batch[n] \in Block /\ batch[n].symid \in targets
    BY DEF ControlTypeOK
  <2>3. exc \in Exception
    BY <2>1, <2>2, TextOfBlock, FaultAssumption DEF Exception
  <2>4. ManagerTypeOK'
    BY <1>9 DEF ResolutionRaises, managerVars, ManagerTypeOK
  <2>. QED
    BY <1>9, <2>1, <2>3, <2>4, LeaveCallType
    DEF ResolutionRaises, ControlTypeOK, managerVars
<1>10. ASSUME MethodsRaise PROVE TypeOK'
  <2>1. PICK new \in Seq(Block) :
          /\ qPre' = qPre \o new
          /\ \A i \in 1..Len(new) : new[i].symid \in targets
    BY <1>10, MethodsRaiseQueues DEF ControlTypeOK
  <2>2. qPre' \in Seq(Block) /\ \A i \in 1..Len(qPre') : qPre'[i].symid \in targets
    <3>1. qPre \in Seq(Block) /\ \A i \in 1..Len(qPre) : qPre[i].symid \in targets
      BY DEF ManagerTypeOK
    <3>. QED BY ONLY <2>1, <3>1
  <2>3. ManagerTypeOK'
    BY <1>10, <2>2 DEF MethodsRaise, ManagerTypeOK
  <2>. QED
    BY <1>10, <2>3, LeaveCallType DEF MethodsRaise, Exception, Fault, ControlTypeOK
<1>. QED
  BY <1>1, <1>2, <1>3, <1>4, <1>5, <1>6, <1>7, <1>8, <1>9, <1>10 DEF Process

LEMMA InferType ==
  ASSUME TypeOK, Infer
  PROVE  TypeOK'
<1>. USE DEF TypeOK
<1>1. ASSUME InferModule PROVE TypeOK'
  <2>1. qInf[it] \in targets /\ qInf[it] \in Symid
    BY <1>1 DEF InferModule, ControlTypeOK, ManagerTypeOK
  <2>2. Funcs[text[qInf[it]]] \in Seq(Text)
    BY <2>1, TextAssumption DEF ManagerTypeOK
  <2>3. ManagerTypeOK'
    <3>1. reports' \in [Symid -> Nat]
      BY <1>1, <2>1 DEF InferModule, ManagerTypeOK
    <3>. QED BY <1>1, <3>1 DEF InferModule, ManagerTypeOK
  <2>. QED BY <1>1, <2>2, <2>3 DEF InferModule, ControlTypeOK, PC
<1>2. ASSUME IteratorRaises \/ FunctionUnknown PROVE TypeOK'
  <2>1. ManagerTypeOK'
    BY <1>2 DEF IteratorRaises, FunctionUnknown, managerVars, ManagerTypeOK
  <2>. QED
    BY <1>2, <2>1, LeaveCallType
    DEF IteratorRaises, FunctionUnknown, Exception, ControlTypeOK, managerVars
<1>3. ASSUME AllInferred PROVE TypeOK'
  <2>1. ManagerTypeOK'
    BY <1>3 DEF AllInferred, ManagerTypeOK
  <2>. QED
    BY <1>3, <2>1, LeaveCallType DEF AllInferred, Exception, ControlTypeOK
<1>4. ASSUME EnterFunction PROVE TypeOK'
  <2>. DEFINE b == InnerBlock(qInf[it], Head(fns))
  <2>1. b \in Block /\ b.symid \in targets
    BY <1>4 DEF EnterFunction, ControlTypeOK, ManagerTypeOK, InnerBlock, Block
  <2>. HIDE DEF b
  <2>2. qPre' = Append(qPre, b)
    BY <1>4 DEF EnterFunction, b
  <2>3. qPre' \in Seq(Block) /\ \A i \in 1..Len(qPre') : qPre'[i].symid \in targets
    BY <2>1, <2>2 DEF ManagerTypeOK
  <2>4. ManagerTypeOK'
    BY <1>4, <2>3 DEF EnterFunction, ManagerTypeOK
  <2>. QED BY <1>4, <2>4 DEF EnterFunction, ControlTypeOK, PC
<1>5. ASSUME ModuleInferred PROVE TypeOK'
  <2>1. ManagerTypeOK'
    BY <1>5 DEF ModuleInferred, managerVars, ManagerTypeOK
  <2>. QED BY <1>5, <2>1 DEF ModuleInferred, ControlTypeOK, PC, managerVars
<1>. QED BY <1>1, <1>2, <1>3, <1>4, <1>5 DEF Infer

LEMMA TypeInit == Init => TypeOK
<1>1. ManagerInit => ManagerTypeOK
  BY DiskAssumption DEF ManagerInit, DiskInit, NothingAnalysed, ManagerTypeOK, Stage
<1>2. NothingRunning => ControlTypeOK
  BY DEF NothingRunning, ControlTypeOK, PC, Exception
<1>. QED BY <1>1, <1>2 DEF Init, TypeOK

LEMMA TypeStep == TypeOK /\ [Next]_vars => TypeOK'
<1>1. TypeOK /\ UNCHANGED vars => TypeOK'
  BY DEF vars, managerVars, control, TypeOK, ManagerTypeOK, ControlTypeOK
<1>. QED BY <1>1, ClientType, ProcessType, InferType DEF Next

\* Every state of the pipeline is well typed, so every lookup it makes (of
\* the text of a queued block, of a queued module) is defined.
THEOREM TypeCorrect == Spec => []TypeOK
BY TypeInit, TypeStep, PTL DEF Spec

-----------------------------------------------------------------------------
(* The discipline of the queue *)

\* update_stage puts a module in the queue only if it is not there yet; it
\* must not be in the batch either.
LEMMA ToPreprocessDiscipline ==
  ASSUME TypeOK, QueueDiscipline, NEW s \in Symid, ToPreprocess(s),
         ~InBatch(s), batch' = batch
  PROVE  QueueDiscipline'
<1>. USE DEF QueueDiscipline, QueuedAtPreprocess, QueuedOnce, Queued, InBatch
<1>1. CASE stage[s] = "Preprocess"
  BY <1>1 DEF ToPreprocess
<1>2. CASE stage[s] # "Preprocess"
  <2>1. /\ stage \in [Symid -> Stage] /\ qPre \in Seq(Block)
        /\ ModuleBlock(s) \in Block
    BY DEF TypeOK, ManagerTypeOK, ModuleBlock, Block
  <2>2. /\ stage' = [stage EXCEPT ![s] = "Preprocess"]
        /\ qPre' = Append(qPre, ModuleBlock(s))
    BY <1>2 DEF ToPreprocess
  <2>3. /\ Len(qPre) \in Nat /\ Len(qPre') = Len(qPre) + 1
        /\ \A i \in 1..Len(qPre) : qPre'[i] = qPre[i]
        /\ qPre'[Len(qPre) + 1] = ModuleBlock(s)
    BY <2>1, <2>2
  <2>4. \A i \in 1..Len(qPre) : qPre[i] # ModuleBlock(s)
    BY <1>2
  <2>5. \A r \in Symid : r # s => ModuleBlock(r) # ModuleBlock(s)
    BY DEF ModuleBlock
  <2>6. QueuedAtPreprocess'
    BY <2>1, <2>2, <2>3, <2>5 DEF ModuleBlock
  <2>7. QueuedOnce'
    <3>1. \A i, j \in 1..Len(qPre') :
            qPre'[i].body = Top /\ qPre'[j] = qPre'[i] => i = j
      BY <2>3, <2>4
    <3>2. \A r \in Symid : ~(Queued(r)' /\ InBatch(r)')
      BY <2>3, <2>5
    <3>. QED BY <3>1, <3>2
  <2>. QED BY <2>6, <2>7
<1>. QED BY <1>1, <1>2

\* Methods and functions put in the queue do not disturb the modules in it.
LEMMA InnerBlocksDiscipline ==
  ASSUME TypeOK, QueueDiscipline, NEW new \in Seq(Block),
         \A i \in 1..Len(new) : new[i].body # Top,
         qPre' = qPre \o new, UNCHANGED stage, batch' = batch \/ batch' = <<>>
  PROVE  QueueDiscipline'
<1>. USE DEF QueueDiscipline, QueuedAtPreprocess, QueuedOnce, Queued, InBatch
<1>1. /\ Len(qPre) \in Nat /\ Len(new) \in Nat
      /\ Len(qPre') = Len(qPre) + Len(new)
      /\ \A i \in 1..Len(qPre) : qPre'[i] = qPre[i]
      /\ \A i \in 1..Len(new) : qPre'[Len(qPre) + i] = new[i]
  BY DEF TypeOK, ManagerTypeOK
<1>2. ASSUME NEW i \in 1..Len(qPre'), qPre'[i].body = Top
      PROVE  i \in 1..Len(qPre) /\ qPre'[i] = qPre[i]
  <2>1. CASE i \in 1..Len(qPre)
    BY <1>1, <2>1
  <2>2. CASE i > Len(qPre)
    <3>1. i - Len(qPre) \in 1..Len(new) /\ i = Len(qPre) + (i - Len(qPre))
      BY <1>1, <2>2
    <3>2. qPre'[i] = new[i - Len(qPre)]
      BY <1>1, <3>1
    <3>. QED BY <1>2, <3>1, <3>2
  <2>. QED BY <1>1, <2>1, <2>2
<1>3. \A s : Queued(s)' => Queued(s)
  BY <1>2 DEF ModuleBlock
<1>4. \A i, j \in 1..Len(qPre') :
        qPre'[i].body = Top /\ qPre'[j] = qPre'[i] => i = j
  BY <1>2
<1>5. \A i, j \in 1..Len(batch') :
        batch'[i].body = Top /\ batch'[j] = batch'[i] => i = j
  OBVIOUS
<1>6. \A s : InBatch(s)' => InBatch(s)
  OBVIOUS
<1>7. \A s \in Symid : Queued(s)' => stage'[s] = "Preprocess"
  BY <1>3
<1>8. \A s \in Symid : ~(Queued(s)' /\ InBatch(s)')
  BY <1>3, <1>6
<1>. HIDE DEF Queued, InBatch
<1>. QED BY <1>4, <1>5, <1>7, <1>8

\* Taking the head off the queue, as the batch grows by it or is dropped.
LEMMA TailDiscipline ==
  ASSUME TypeOK, QueueDiscipline, qPre # <<>>, qPre' = Tail(qPre),
         UNCHANGED stage, batch' = Append(batch, Head(qPre)) \/ batch' = <<>>
  PROVE  QueueDiscipline'
<1>. USE DEF QueueDiscipline, QueuedAtPreprocess, QueuedOnce, Queued, InBatch
<1>1. /\ qPre \in Seq(Block) /\ batch \in Seq(Block)
      /\ Len(qPre) \in Nat \ {0} /\ Len(batch) \in Nat
      /\ Len(qPre') = Len(qPre) - 1
      /\ \A i \in 1..Len(qPre') : qPre'[i] = qPre[i + 1]
      /\ Head(qPre) = qPre[1] /\ Head(qPre) \in Block
  BY DEF TypeOK, ManagerTypeOK, ControlTypeOK
<1>2. \A s : Queued(s)' => Queued(s)
  BY <1>1
<1>3. \A i, j \in 1..Len(qPre') :
        qPre'[i].body = Top /\ qPre'[j] = qPre'[i] => i = j
  <2>. SUFFICES ASSUME NEW i \in 1..Len(qPre'), NEW j \in 1..Len(qPre'),
                       qPre'[i].body = Top, qPre'[j] = qPre'[i]
                PROVE  i = j
    OBVIOUS
  <2>1. i + 1 \in 1..Len(qPre) /\ j + 1 \in 1..Len(qPre)
    BY <1>1
  <2>. QED BY <1>1, <2>1
<1>4. CASE batch' = <<>>
  BY <1>2, <1>3, <1>4
<1>5. CASE batch' = Append(batch, Head(qPre))
  <2>1. /\ Len(batch') = Len(batch) + 1
        /\ \A i \in 1..Len(batch) : batch'[i] = batch[i]
        /\ batch'[Len(batch) + 1] = qPre[1]
    BY <1>1, <1>5
  <2>2. ASSUME qPre[1].body = Top
        PROVE  \A i \in 1..Len(batch) : batch[i] # qPre[1]
    <3>1. qPre[1] = ModuleBlock(qPre[1].symid) /\ qPre[1].symid \in Symid
      BY <1>1, <2>2 DEF Block, ModuleBlock
    <3>. QED BY <1>1, <3>1
  <2>3. \A i, j \in 1..Len(batch') :
          batch'[i].body = Top /\ batch'[j] = batch'[i] => i = j
    BY <1>1, <2>1, <2>2
  <2>4. ASSUME NEW s \in Symid, Queued(s)', InBatch(s)' PROVE FALSE
    <3>1. PICK j \in 1..Len(qPre') : qPre'[j] = ModuleBlock(s)
      BY <2>4
    <3>2. qPre[j + 1] = ModuleBlock(s) /\ j + 1 \in 1..Len(qPre) /\ j + 1 # 1
      BY <1>1, <3>1
    <3>3. qPre[1] # ModuleBlock(s)
      BY <1>1, <3>2 DEF ModuleBlock
    <3>4. InBatch(s)
      BY SMTT(30), <1>1, <2>1, <2>4, <3>3
    <3>. QED BY <1>2, <2>4, <3>4
  <2>. QED BY <1>2, <1>3, <2>3, <2>4
<1>. QED BY <1>4, <1>5

\* Nothing happens to the queues.
LEMMA SameQueues ==
  ASSUME QueueDiscipline, UNCHANGED <<qPre, stage>>, batch' = batch \/ batch' = <<>>
  PROVE  QueueDiscipline'
BY DEF QueueDiscipline, QueuedAtPreprocess, QueuedOnce, Queued, InBatch

LEMMA NoBatchNoMember == ASSUME batch = <<>> PROVE \A s : ~InBatch(s)
BY DEF InBatch

LEMMA ClientInv ==
  ASSUME PipelineInv, Client
  PROVE  (QueueDiscipline /\ BatchInProcess /\ BatchFilled)'
<1>. USE DEF PipelineInv
<1>1. batch = <<>> /\ batch' = <<>>
  BY DEF Client, CanCall, Edit, Recheck, AddCheckFile, CallPreprocess, CallInfer,
     CallCheck, EnterProcess, EnterInfer, control, BatchInProcess
<1>2. (BatchInProcess /\ BatchFilled)'
  BY <1>1 DEF BatchInProcess, BatchFilled
<1>3. CASE UNCHANGED <<qPre, stage>>
  BY <1>1, <1>2, <1>3, SameQueues
<1>4. ASSUME NEW s \in Symid, ToPreprocess(s) PROVE QueueDiscipline'
  BY <1>1, <1>4, NoBatchNoMember, ToPreprocessDiscipline
<1>5. \/ UNCHANGED <<qPre, stage>>
      \/ \E s \in Symid : ToPreprocess(s)
  BY DEF Client, Edit, Recheck, AddCheckFile, CallPreprocess, CallInfer,
     CallCheck, NothingDone, RecheckFromBegin, AddTarget, managerVars
<1>. QED BY <1>2, <1>3, <1>4, <1>5

LEMMA ProcessInv ==
  ASSUME PipelineInv, Process
  PROVE  (QueueDiscipline /\ BatchInProcess /\ BatchFilled)'
<1>. USE DEF PipelineInv
<1>0. /\ batch \in Seq(Block) /\ Len(batch) \in Nat /\ k \in Nat
      /\ symtab \in [Symid -> {"empty", "filled"}]
  BY DEF TypeOK, ControlTypeOK, ManagerTypeOK
<1>1. ASSUME DefineBlock
      PROVE  (QueueDiscipline /\ BatchInProcess /\ BatchFilled)'
  <2>1. QueueDiscipline'
    BY <1>1, TailDiscipline DEF DefineBlock
  <2>. QED BY <1>1, <2>1 DEF DefineBlock, BatchInProcess, BatchFilled
<1>2. ASSUME DefinedTwice
      PROVE  (QueueDiscipline /\ BatchInProcess /\ BatchFilled)'
  <2>1. QueueDiscipline'
    BY <1>2, TailDiscipline DEF DefinedTwice, LeaveCall
  <2>. QED BY <1>2, <2>1 DEF DefinedTwice, LeaveCall, BatchInProcess, BatchFilled
<1>3. ASSUME AddImport
      PROVE  (QueueDiscipline /\ BatchInProcess /\ BatchFilled)'
  <2>1. CASE UNCHANGED managerVars
    BY <1>3, <2>1, SameQueues
    DEF AddImport, managerVars, BatchInProcess, BatchFilled
  <2>2. CASE AddTarget(Head(todo), FALSE)
    <3>. DEFINE s == Head(todo)
    <3>1. s \in Symid
      BY <1>3 DEF AddImport, TypeOK, ControlTypeOK
    <3>2. ~InBatch(s)
      BY <2>2 DEF AddTarget, AddIsIgnored, InBatch, ModuleBlock, TypeOK, ControlTypeOK
    <3>3. QueueDiscipline'
      BY <1>3, <2>2, <3>1, <3>2, ToPreprocessDiscipline DEF AddImport, AddTarget
    <3>. QED BY <1>3, <2>2, <3>3 DEF AddImport, AddTarget, BatchInProcess, BatchFilled
  <2>. QED BY <1>3, <2>1, <2>2 DEF AddImport
<1>4. ASSUME ImportRaises \/ BlockDefined \/ AllDefined \/ NextBatch \/ ProcessReturns
      PROVE  (QueueDiscipline /\ BatchInProcess /\ BatchFilled)'
  <2>1. QueueDiscipline'
    BY <1>4, SameQueues
    DEF ImportRaises, BlockDefined, AllDefined, NextBatch, ProcessReturns,
        LeaveCall, managerVars
  <2>2. BatchInProcess'
    BY <1>4 DEF ImportRaises, BlockDefined, AllDefined, NextBatch, ProcessReturns,
       LeaveCall, BatchInProcess
  <2>3. BatchFilled'
    BY <1>0, <1>4 DEF ImportRaises, BlockDefined, AllDefined, NextBatch,
       ProcessReturns, LeaveCall, BatchFilled
  <2>. QED BY <2>1, <2>2, <2>3
<1>5. ASSUME DumpBlock
      PROVE  (QueueDiscipline /\ BatchInProcess /\ BatchFilled)'
  <2>. DEFINE b == batch[k]
              ms == Methods[TextOf(b)]
              blocks == [i \in 1..Len(ms) |-> InnerBlock(b.symid, ms[i])]
  <2>1. b \in Block /\ b.symid \in targets /\ b.symid \in Symid
    BY <1>5 DEF DumpBlock, TypeOK, ControlTypeOK, ManagerTypeOK
  <2>2. ms \in Seq(Text)
    BY <2>1, TextOfBlock, TextAssumption DEF TypeOK
  <2>3. /\ blocks \in Seq(Block)
        /\ \A i \in 1..Len(blocks) : blocks[i].body # Top
    BY SMTT(30), <2>1, <2>2, TextAssumption DEF InnerBlock, Block
  <2>. HIDE DEF blocks
  <2>4. qPre' = qPre \o blocks
    BY <1>5 DEF DumpBlock, blocks
  <2>5. QueueDiscipline'
    BY <1>5, <2>3, <2>4, InnerBlocksDiscipline DEF DumpBlock
  <2>6. BatchInProcess'
    BY <1>5 DEF DumpBlock, BatchInProcess
  <2>7. BatchFilled'
    <3>1. /\ symtab' = IF b.body = Top
                       THEN [symtab EXCEPT ![b.symid] = "filled"] ELSE symtab
          /\ k' = k + 1 /\ pc = "dump" /\ UNCHANGED <<pc, batch>>
      BY <1>5 DEF DumpBlock
    <3>2. \A i \in 1..Len(batch) : batch[i].symid \in Symid
      <4>1. \A i \in 1..Len(batch) : batch[i] \in Block
        BY <1>0
      <4>. QED BY <4>1 DEF Block
    <3>3. ASSUME NEW i \in 1..Len(batch), batch[i].body = Top, i < k + 1
          PROVE  symtab'[batch[i].symid] = "filled"
      <4>1. CASE i < k
        <5>1. symtab[batch[i].symid] = "filled"
          BY <3>1, <3>3, <4>1 DEF BatchFilled
        <5>. QED BY <1>0, <2>1, <3>1, <3>2, <3>3, <5>1
      <4>2. CASE i = k
        BY <1>0, <2>1, <3>1, <3>3, <4>2
      <4>. QED BY <1>0, <3>3, <4>1, <4>2
    <3>. QED BY <3>1, <3>3 DEF BatchFilled
  <2>. QED BY <2>5, <2>6, <2>7
<1>6. ASSUME AllDumped
      PROVE  (QueueDiscipline /\ BatchInProcess /\ BatchFilled)'
  <2>1. QueueDiscipline' /\ BatchInProcess'
    BY <1>6, SameQueues DEF AllDumped, managerVars, BatchInProcess
  <2>2. BatchFilled'
    BY <1>0, <1>6 DEF AllDumped, managerVars, BatchFilled
  <2>. QED BY <2>1, <2>2
<1>7. ASSUME PromoteBlock
      PROVE  (QueueDiscipline /\ BatchInProcess /\ BatchFilled)'
  <2>. DEFINE b == batch[k]
  <2>0. k \in 1..Len(batch) /\ b \in Block
    BY <1>0, <1>7 DEF PromoteBlock, TypeOK, ControlTypeOK
  <2>1. b \in Block /\ (b.body = Top => InBatch(b.symid))
    BY <2>0 DEF InBatch, Block, ModuleBlock
  <2>2. \A s \in Symid : Queued(s) => stage'[s] = stage[s]
    BY <1>7, <2>1 DEF PromoteBlock, ToInfer, QueueDiscipline, QueuedOnce, Block,
       TypeOK, ManagerTypeOK
  <2>3. QueueDiscipline'
    BY <1>7, <2>2 DEF PromoteBlock, QueueDiscipline, QueuedAtPreprocess, QueuedOnce,
       Queued, InBatch
  <2>. QED BY <1>7, <2>3 DEF PromoteBlock, BatchInProcess, BatchFilled
<1>8. ASSUME ResolutionRaises
      PROVE  (QueueDiscipline /\ BatchInProcess /\ BatchFilled)'
  <2>1. /\ UNCHANGED <<qPre, stage>> /\ batch' = <<>>
    BY <1>8 DEF ResolutionRaises, LeaveCall, managerVars
  <2>. QED BY <2>1, SameQueues DEF BatchInProcess, BatchFilled
<1>9. ASSUME MethodsRaise
      PROVE  (QueueDiscipline /\ BatchInProcess /\ BatchFilled)'
  <2>1. UNCHANGED stage /\ batch' = <<>>
    BY <1>9 DEF MethodsRaise, LeaveCall
  <2>2. PICK new \in Seq(Block) :
          qPre' = qPre \o new /\ \A i \in 1..Len(new) : new[i].body # Top
    BY <1>9, MethodsRaiseQueues
  <2>3. QueueDiscipline'
    BY <2>1, <2>2, InnerBlocksDiscipline
  <2>. QED BY <2>1, <2>3 DEF BatchInProcess, BatchFilled
<1>. QED BY <1>1, <1>2, <1>3, <1>4, <1>5, <1>6, <1>7, <1>8, <1>9 DEF Process

LEMMA InferInv ==
  ASSUME PipelineInv, Infer
  PROVE  (QueueDiscipline /\ BatchInProcess /\ BatchFilled)'
<1>. USE DEF PipelineInv
<1>1. batch = <<>> /\ batch' = <<>>
  BY DEF Infer, InferModule, IteratorRaises, AllInferred, EnterFunction,
     FunctionUnknown, ModuleInferred, LeaveCall, BatchInProcess
<1>2. (BatchInProcess /\ BatchFilled)'
  BY <1>1 DEF BatchInProcess, BatchFilled
<1>3. CASE UNCHANGED <<qPre, stage>>
  BY <1>1, <1>2, <1>3, SameQueues
<1>4. CASE EnterFunction
  <2>. DEFINE b == InnerBlock(qInf[it], Head(fns))
  <2>0. qInf[it] \in Symid /\ Head(fns) \in Text
    BY <1>4 DEF EnterFunction, TypeOK, ControlTypeOK, ManagerTypeOK
  <2>1. b \in Block /\ b.body # Top
    BY <2>0, TextAssumption DEF InnerBlock, Block
  <2>2. qPre' = Append(qPre, b) /\ UNCHANGED stage
    BY <1>4 DEF EnterFunction
  <2>. HIDE DEF b
  <2>3. <<b>> \in Seq(Block) /\ \A i \in 1..Len(<<b>>) : <<b>>[i].body # Top
    BY <2>1
  <2>4. qPre' = qPre \o <<b>>
    BY <2>1, <2>2 DEF TypeOK, ManagerTypeOK
  <2>5. QueueDiscipline'
    BY <1>1, <2>2, <2>3, <2>4, InnerBlocksDiscipline
  <2>. QED BY <1>2, <2>5
<1>5. UNCHANGED <<qPre, stage>> \/ EnterFunction
  BY DEF Infer, InferModule, IteratorRaises, AllInferred, FunctionUnknown,
     ModuleInferred, managerVars
<1>. QED BY <1>2, <1>3, <1>4, <1>5

\* PipelineInv is inductive.
LEMMA PipelineInvInit == Init => PipelineInv
<1>. SUFFICES ASSUME Init PROVE PipelineInv
  OBVIOUS
<1>1. TypeOK
  BY TypeInit
<1>2. qPre = <<>> /\ batch = <<>>
  BY DEF Init, ManagerInit, NothingAnalysed, NothingRunning
<1>. QED
  BY <1>1, <1>2 DEF PipelineInv, QueueDiscipline, QueuedAtPreprocess, QueuedOnce,
     Queued, InBatch, BatchInProcess, BatchFilled

LEMMA PipelineInvStep == PipelineInv /\ [Next]_vars => PipelineInv'
<1>. SUFFICES ASSUME PipelineInv, [Next]_vars PROVE PipelineInv'
  OBVIOUS
<1>1. TypeOK'
  BY TypeStep DEF PipelineInv
<1>2. CASE UNCHANGED vars
  BY <1>1, <1>2, SameQueues
  DEF vars, managerVars, control, PipelineInv, BatchInProcess, BatchFilled
<1>. QED BY <1>1, <1>2, ClientInv, ProcessInv, InferInv DEF Next, PipelineInv

LEMMA PipelineInvariant == Spec => []PipelineInv
BY PipelineInvInit, PipelineInvStep, PTL DEF Spec

\* The assertion of process() on the stage of a queued block never fails and
\* no module is ever resolved twice in a batch, whatever the client does.
THEOREM Discipline == Spec => []QueueDiscipline
<1>1. PipelineInv => QueueDiscipline
  BY DEF PipelineInv
<1>. QED BY <1>1, PipelineInvariant, PTL

\* A step that moves a module to stage Infer is a PromoteBlock of a batch
\* whose symbol tables are all filled.
LEMMA PromotionStep ==
  ASSUME PipelineInv, [Next]_vars, NEW s \in Symid,
         stage'[s] = "Infer", stage[s] # "Infer"
  PROVE  InBatch(s) /\ symtab[s] = "filled" /\ s \in toCheck
<1>. USE DEF PipelineInv
<1>1. stage \in [Symid -> Stage]
  BY DEF TypeOK, ManagerTypeOK
<1>2. ASSUME NEW r \in Symid, ToPreprocess(r) PROVE FALSE
  BY <1>1, <1>2 DEF ToPreprocess
<1>3. CASE UNCHANGED stage
  BY <1>3
<1>4. CASE PromoteBlock
  <2>. DEFINE b == batch[k]
  <2>1. /\ b \in Block /\ k \in 1..Len(batch) /\ pc = "promote"
    BY <1>4 DEF PromoteBlock, TypeOK, ControlTypeOK
  <2>2. b.body = Top /\ b.symid \in toCheck /\ ToInfer(b.symid)
    BY <1>4 DEF PromoteBlock
  <2>3. s = b.symid
    BY <1>1, <2>1, <2>2 DEF ToInfer, Block
  <2>. QED BY <2>1, <2>2, <2>3 DEF BatchFilled, InBatch, ModuleBlock, Block
<1>5. \/ UNCHANGED stage \/ PromoteBlock
      \/ \E r \in Symid : ToPreprocess(r)
  <2>1. Client => UNCHANGED stage \/ \E r \in Symid : ToPreprocess(r)
    BY DEF Client, Edit, Recheck, AddCheckFile, CallPreprocess, CallInfer, CallCheck,
       NothingDone, RecheckFromBegin, AddTarget, managerVars
  <2>2. AddImport => UNCHANGED stage \/ \E r \in Symid : ToPreprocess(r)
    BY DEF AddImport, AddTarget, TypeOK, ControlTypeOK, managerVars
  <2>3. Process => UNCHANGED stage \/ PromoteBlock \/ AddImport
    BY DEF Process, DefineBlock, DefinedTwice, ImportRaises, BlockDefined, AllDefined,
       ResolutionRaises, DumpBlock, MethodsRaise, AllDumped, NextBatch, ProcessReturns,
       managerVars
  <2>4. Infer => UNCHANGED stage
    BY DEF Infer, InferModule, IteratorRaises, AllInferred, EnterFunction,
       FunctionUnknown, ModuleInferred, managerVars
  <2>. QED BY <2>1, <2>2, <2>3, <2>4 DEF Next, vars, managerVars
<1>. QED BY <1>2, <1>3, <1>4, <1>5

\* Only modules on check, preprocessed by the batch they are in, ever reach
\* inference.
THEOREM Promotion == Spec => OnlyPreprocessedPromoted
<1>1. PipelineInv /\ [Next]_vars =>
        [\A s \in Symid : stage'[s] = "Infer" /\ stage[s] # "Infer"
           => InBatch(s) /\ symtab[s] = "filled" /\ s \in toCheck]_vars
  BY PromotionStep
<1>. QED BY <1>1, PipelineInvariant, PTL DEF Spec, OnlyPreprocessedPromoted

-----------------------------------------------------------------------------
(* The sessions of the clients: the inductive invariant *)

Inferring == pc \in {"infer", "body"} \/ ret \in {"body", "class"}

\* What is still to be inferred: the rest of the queue.
NextToInfer ==
  IF pc = "infer" THEN it
  ELSE IF pc = "body" \/ ret \in {"body", "class"} THEN it + 1 ELSE 1

Waits(s) == \E i \in NextToInfer..Len(qInf) : qInf[i] = s

\* A block of the batch that has not been promoted yet.
Promotable(s) ==
  \E i \in 1..Len(batch) : batch[i] = ModuleBlock(s) /\ (pc = "promote" => i >= k)

\* Who calls process(), and what the queues hold when nobody drains them.
SessionInv ==
  /\ raised = "none"
  /\ InShell => toCheck = {ShellSymid} /\ ret = "idle" /\ pc \notin {"infer", "body"}
  /\ InShell /\ pc = "idle" => qPre = <<>>
  /\ ~InShell => \A s \in toCheck : Kind[s] = "module"
  /\ ~InShell /\ pc = "idle" => qInf = <<>>
  /\ ~InShell /\ pc \in {"define", "import", "dump", "promote"} => ret # "idle"
  /\ pc \in {"infer", "body"} => qPre = <<>>

\* The environment lives inside process(), and every target is in it, waits to
\* enter it or has left it with a filled symbol table.
EnvInv ==
  /\ pc \in {"idle", "infer", "body"} => env = {}
  /\ \A s \in env : ~Queued(s) /\ (InBatch(s) \/ symtab[s] = "filled")
  /\ \A s \in targets \ {ShellSymid} : symtab[s] = "filled" \/ s \in env \/ Queued(s)
  /\ pc \in {"dump", "promote"} => \A s \in Symid : ~Queued(s)

\* What the blocks of the batch import has been handed to the manager, but for
\* the rest of the imports of the block being defined.
ImportsInv ==
  pc \in {"define", "import", "dump"} =>
    \A i \in 1..Len(batch) : \A s \in Range(Imports[TextOf(batch[i])]) :
      IsModuleFile(s) =>
        s \in targets \/ (pc = "import" /\ i = Len(batch) /\ s \in Range(todo))

\* A file on check that waits for preprocessing is really waiting somewhere,
\* and none does while a module is being inferred.
StageInv ==
  /\ \A s \in Symid \ targets : stage[s] = "Parse" /\ reports[s] = 0
  /\ \A s \in toCheck :
       stage[s] # "Parse" /\ (stage[s] = "Preprocess" => Queued(s) \/ Promotable(s))
  /\ Inferring =>
       Len(qInf) = size /\ \A s \in toCheck : ~Queued(s) /\ ~InBatch(s)

\* The queue of inference and the errors that have been reported.
ReportsInv ==
  ~InShell =>
    /\ \A i, j \in 1..Len(qInf) : qInf[i] = qInf[j] => i = j
    /\ \A i \in 1..Len(qInf) :
         /\ qInf[i] \in toCheck
         /\ stage[qInf[i]] = "Infer"
         /\ symtab[qInf[i]] = "filled"
    /\ \A s \in toCheck :
         /\ stage[s] \in {"Preprocess", "Infer"}
         /\ stage[s] = "Infer" /\ ~Waits(s) => reports[s] = 1
         /\ stage[s] = "Preprocess" \/ Waits(s) => reports[s] = 0

\* What has been asked for is on check, unless it was a target already.
AskedInv ==
  /\ InShell => \A s \in Symid : asked[s] = "no"
  /\ ~InShell => \A s \in Symid :
       /\ asked[s] = "new" <=> s \in toCheck
       /\ asked[s] = "known" => s \in targets
       /\ s \notin toCheck => reports[s] = 0

\* What holds as long as no call has raised, and what holds for good.
CheckInv ==
  /\ PipelineInv /\ SessionInv /\ EnvInv /\ ImportsInv /\ StageInv /\ ReportsInv
  /\ AskedInv

RaisedIdle == raised # "none" => pc = "idle"

ClientInvariant ==
  PipelineInv /\ NoException /\ RaisedIdle /\ (raised = "none" => CheckInv)

-----------------------------------------------------------------------------
(* What the steps do to the queue and to the batch *)

LEMMA ToPreprocessQueued ==
  ASSUME TypeOK, NEW s \in Symid, ToPreprocess(s)
  PROVE  /\ \A r \in Symid :
              Queued(r)' <=> Queued(r) \/ (r = s /\ stage[s] # "Preprocess")
         /\ \A r \in Symid : stage'[r] = IF r = s THEN "Preprocess" ELSE stage[r]
<1>1. /\ stage \in [Symid -> Stage] /\ qPre \in Seq(Block)
      /\ ModuleBlock(s) \in Block
      /\ \A r \in Symid : ModuleBlock(r) = ModuleBlock(s) => r = s
  BY DEF TypeOK, ManagerTypeOK, ModuleBlock, Block
<1>2. CASE stage[s] = "Preprocess"
  BY <1>1, <1>2 DEF ToPreprocess, Queued
<1>3. CASE stage[s] # "Preprocess"
  <2>1. /\ stage' = [stage EXCEPT ![s] = "Preprocess"]
        /\ qPre' = Append(qPre, ModuleBlock(s))
    BY <1>3 DEF ToPreprocess
  <2>2. /\ Len(qPre) \in Nat /\ Len(qPre') = Len(qPre) + 1
        /\ \A i \in 1..Len(qPre) : qPre'[i] = qPre[i]
        /\ qPre'[Len(qPre) + 1] = ModuleBlock(s)
    BY <1>1, <2>1
  <2>3. ASSUME NEW r \in Symid
        PROVE  Queued(r)' <=> Queued(r) \/ r = s
    BY <1>1, <2>2 DEF Queued
  <2>. QED BY <1>1, <1>3, <2>1, <2>3
<1>. QED BY <1>2, <1>3

LEMMA InnerQueued ==
  ASSUME TypeOK, DumpBlock \/ EnterFunction
  PROVE  \A r \in Symid : Queued(r)' <=> Queued(r)
<1>1. PICK new \in Seq(Block) :
        qPre' = qPre \o new /\ \A i \in 1..Len(new) : new[i].body # Top
  <2>1. CASE DumpBlock
    <3>. DEFINE b == batch[k]
                ms == Methods[TextOf(b)]
                blocks == [i \in 1..Len(ms) |-> InnerBlock(b.symid, ms[i])]
    <3>1. b \in Block /\ b.symid \in targets /\ b.symid \in Symid
      BY <2>1 DEF DumpBlock, TypeOK, ControlTypeOK, ManagerTypeOK
    <3>2. ms \in Seq(Text)
      BY <3>1, TextOfBlock, TextAssumption DEF TypeOK
    <3>3. blocks \in Seq(Block) /\ \A i \in 1..Len(blocks) : blocks[i].body # Top
      <4>1. \A t \in Text : InnerBlock(b.symid, t) \in Block /\ InnerBlock(b.symid, t).body # Top
        BY <3>1, TextAssumption DEF InnerBlock, Block
      <4>2. Len(ms) \in Nat /\ \A i \in 1..Len(ms) : ms[i] \in Text
        BY <3>2
      <4>. HIDE DEF ms, b
      <4>. QED BY <4>1, <4>2
    <3>. HIDE DEF blocks
    <3>4. qPre' = qPre \o blocks
      BY <2>1 DEF DumpBlock, blocks
    <3>. QED BY <3>3, <3>4
  <2>2. CASE EnterFunction
    <3>. DEFINE b == InnerBlock(qInf[it], Head(fns))
    <3>1. qInf[it] \in Symid /\ Head(fns) \in Text
      BY <2>2 DEF EnterFunction, TypeOK, ControlTypeOK, ManagerTypeOK
    <3>2. b \in Block /\ b.body # Top
      BY <3>1, TextAssumption DEF InnerBlock, Block
    <3>3. qPre' = Append(qPre, b)
      BY <2>2 DEF EnterFunction
    <3>. HIDE DEF b
    <3>4. <<b>> \in Seq(Block) /\ \A i \in 1..Len(<<b>>) : <<b>>[i].body # Top
      BY <3>2
    <3>5. qPre' = qPre \o <<b>>
      BY <3>2, <3>3 DEF TypeOK, ManagerTypeOK
    <3>. QED BY <3>4, <3>5
  <2>. QED BY <2>1, <2>2
<1>2. /\ Len(qPre) \in Nat /\ Len(new) \in Nat
      /\ Len(qPre') = Len(qPre) + Len(new)
      /\ \A i \in 1..Len(qPre) : qPre'[i] = qPre[i]
      /\ \A i \in 1..Len(qPre') : i > Len(qPre) => qPre'[i] = new[i - Len(qPre)]
  BY <1>1 DEF TypeOK, ManagerTypeOK
<1>3. ASSUME NEW i \in 1..Len(qPre'), qPre'[i].body = Top
      PROVE  i \in 1..Len(qPre)
  BY <1>1, <1>2, <1>3
<1>. QED BY <1>2, <1>3 DEF Queued, ModuleBlock

LEMMA HeadTaken ==
  ASSUME TypeOK, QueueDiscipline, DefineBlock
  PROVE  /\ Head(qPre) \in Block /\ Head(qPre).symid \in targets
         /\ \A r \in Symid : Head(qPre) = ModuleBlock(r) => Queued(r)
         /\ \A r \in Symid : Queued(r)' <=> Queued(r) /\ Head(qPre) # ModuleBlock(r)
         /\ \A r \in Symid : InBatch(r)' <=> InBatch(r) \/ Head(qPre) = ModuleBlock(r)
<1>1. /\ qPre \in Seq(Block) /\ batch \in Seq(Block) /\ qPre # <<>>
      /\ Len(batch) \in Nat /\ qPre' = Tail(qPre) /\ batch' = Append(batch, Head(qPre))
  BY DEF TypeOK, ManagerTypeOK, ControlTypeOK, DefineBlock
<1>2. /\ Head(qPre) \in Block /\ Head(qPre) = qPre[1] /\ 1 \in 1..Len(qPre)
      /\ Len(qPre') = Len(qPre) - 1
      /\ \A i \in 1..Len(qPre') : qPre'[i] = qPre[i + 1] /\ i + 1 \in 1..Len(qPre)
      /\ Len(qPre) \in Nat
  BY <1>1, HeadTail
<1>3. \A i \in 2..Len(qPre) : i - 1 \in 1..Len(qPre') /\ qPre'[i - 1] = qPre[i]
  BY <1>2
<1>4. ASSUME NEW r \in Symid
      PROVE  Queued(r)' <=> Queued(r) /\ Head(qPre) # ModuleBlock(r)
  <2>1. ASSUME Queued(r)' PROVE Queued(r) /\ Head(qPre) # ModuleBlock(r)
    <3>1. PICK i \in 1..Len(qPre') : qPre'[i] = ModuleBlock(r)
      BY <2>1 DEF Queued
    <3>2. i + 1 \in 1..Len(qPre) /\ qPre[i + 1] = ModuleBlock(r) /\ i + 1 # 1
      BY <1>2, <3>1
    <3>. QED
      BY <1>2, <3>2 DEF Queued, QueueDiscipline, QueuedOnce, ModuleBlock
  <2>2. ASSUME Queued(r), Head(qPre) # ModuleBlock(r) PROVE Queued(r)'
    <3>1. PICK i \in 1..Len(qPre) : qPre[i] = ModuleBlock(r)
      BY <2>2 DEF Queued
    <3>2. i \in 2..Len(qPre)
      BY <1>2, <2>2, <3>1
    <3>. QED BY <1>3, <3>1, <3>2 DEF Queued
  <2>. QED BY <2>1, <2>2
<1>5. \A r \in Symid : InBatch(r)' <=> InBatch(r) \/ Head(qPre) = ModuleBlock(r)
  <2>1. /\ Len(batch') = Len(batch) + 1
        /\ \A i \in 1..Len(batch) : batch'[i] = batch[i]
        /\ batch'[Len(batch) + 1] = Head(qPre)
    BY <1>1, <1>2
  <2>. QED BY <1>1, <2>1 DEF InBatch
<1>6. Head(qPre).symid \in targets
  BY <1>2 DEF TypeOK, ManagerTypeOK
<1>. QED BY <1>2, <1>4, <1>5, <1>6 DEF Queued

-----------------------------------------------------------------------------
(* The sessions are behaviours of the pipeline, statements of the shell      *)
(* included                                                                  *)

LEMMA ShellInitInv == ShellInit => PipelineInv
<1>. SUFFICES ASSUME ShellInit PROVE PipelineInv
  OBVIOUS
<1>1. /\ disk \in [Symid -> Text \cup {NoAst}]
      /\ \A s \in Typeshed : disk[s] \in Text
  BY DiskAssumption DEF ShellInit, DiskInit
<1>2. /\ text \in [Symid -> Text \cup {NoAst}]
      /\ \A s \in targets : text[s] \in Text
      /\ targets \in SUBSET Symid /\ toCheck \in SUBSET targets
  BY <1>1, ShellAssumption, DiskAssumption DEF ShellInit
<1>3. ManagerTypeOK
  <2>1. /\ disk \in [Symid -> Text \cup {NoAst}]
        /\ stage \in [Symid -> Stage] /\ qPre = <<>> /\ qInf = <<>>
        /\ symtab \in [Symid -> {"empty", "filled"}] /\ reports \in [Symid -> Nat]
    BY <1>1 DEF ShellInit, NothingAnalysed, Stage
  <2>. QED BY <1>2, <2>1 DEF ManagerTypeOK
<1>4. ControlTypeOK
  BY DEF ShellInit, NothingRunning, ControlTypeOK, PC, Exception
<1>5. qPre = <<>> /\ batch = <<>>
  BY DEF ShellInit, NothingAnalysed, NothingRunning
<1>. QED
  BY <1>3, <1>4, <1>5 DEF PipelineInv, TypeOK, QueueDiscipline, QueuedAtPreprocess,
     QueuedOnce, Queued, InBatch, BatchInProcess, BatchFilled

LEMMA InputInv ==
  ASSUME PipelineInv, InShell, NEW t \in Inputs, Input(t)
  PROVE  PipelineInv'
<1>. USE DEF PipelineInv
<1>. DEFINE s == ShellSymid
<1>1. s \in Symid /\ s \in targets /\ t \in Text
  BY ShellAssumption DEF InShell
<1>2. /\ pc = "idle" /\ ToPreprocess(s)
      /\ text' = [text EXCEPT ![s] = t]
      /\ UNCHANGED <<targets, toCheck, symtab, reports, qInf, disk, env>>
      /\ pc' = "define" /\ ret' = "idle" /\ calls' = calls + 1 /\ raised' = "none"
      /\ UNCHANGED <<batch, todo, k, it, size, fns>>
  BY DEF Input, CanCall, EnterProcess
<1>3. /\ stage' \in [Symid -> Stage] /\ qPre' \in Seq(Block)
      /\ \A i \in 1..Len(qPre') : qPre'[i].symid \in targets
  BY <1>1, <1>2, ToPreprocessType DEF TypeOK
<1>4. text' \in [Symid -> Text \cup {NoAst}] /\ \A r \in targets : text'[r] \in Text
  BY <1>1, <1>2 DEF TypeOK, ManagerTypeOK
<1>5. ManagerTypeOK'
  BY <1>2, <1>3, <1>4 DEF TypeOK, ManagerTypeOK
<1>6. ControlTypeOK'
  <2>1. asked' = asked
    BY DEF Input
  <2>. QED BY <1>2, <2>1 DEF TypeOK, ControlTypeOK, PC, Exception
<1>7. batch = <<>> /\ batch' = <<>>
  BY <1>2 DEF BatchInProcess
<1>8. QueueDiscipline'
  BY <1>1, <1>2, <1>7, NoBatchNoMember, ToPreprocessDiscipline
<1>. QED BY <1>5, <1>6, <1>7, <1>8 DEF TypeOK, BatchInProcess, BatchFilled

LEMMA SessionPipeline ==
  ASSUME PipelineInv, SessionNext
  PROVE  PipelineInv'
<1>1. ASSUME ~(\E t \in Inputs : InShell /\ Input(t)) PROVE Next
  BY <1>1 DEF SessionNext, ShellNext, CheckNext, CheckFile, RecheckFile, Client, Next
<1>. QED BY <1>1, InputInv, PipelineInvStep

-----------------------------------------------------------------------------
(* The steps that a session really takes *)

\* Steps of a session of the shell, of a program that checks files, and of
\* process(), which both of them call.
ShellStep == InShell /\ \E t \in Inputs : Input(t)

AddStep(s) == CheckFile(s) /\ AddTarget(s, TRUE) /\ raised' = "none"
AddNothing(s) == CheckFile(s) /\ NothingDone("none")
RecheckStep(s) ==
  /\ CanCall /\ s \in toCheck /\ RecheckFromBegin(s) /\ raised' = "none"
  /\ asked' = asked
  /\ UNCHANGED <<disk, control, env>>
RecheckNothing(s) == RecheckFile(s) /\ NothingDone("none")

CheckStep ==
  /\ ~InShell
  /\ \/ \E s \in Symid :
          AddStep(s) \/ AddNothing(s) \/ RecheckStep(s) \/ RecheckNothing(s)
     \/ CallCheck
     \/ InferModule \/ AllInferred \/ EnterFunction \/ ModuleInferred

ProcessStep ==
  \/ DefineBlock \/ AddImport \/ BlockDefined \/ AllDefined \/ DumpBlock
  \/ AllDumped \/ PromoteBlock \/ NextBatch \/ ProcessReturns

\* No assertion of process() on its environment fails, the deque is not changed
\* under its iterator and inference asks no empty table.
LEMMA NothingInternal ==
  ASSUME CheckInv, SessionNext
  PROVE  NoException'
<1>. USE DEF CheckInv
<1>1. ~DefinedTwice
  <2>. SUFFICES ASSUME DefinedTwice PROVE FALSE
    OBVIOUS
  <2>1. /\ Head(qPre) \in Block /\ Head(qPre) = qPre[1] /\ 1 \in 1..Len(qPre)
        /\ Head(qPre).body = Top /\ Head(qPre).symid \in env
    BY HeadTail DEF DefinedTwice, PipelineInv, TypeOK, ManagerTypeOK
  <2>. QED BY <2>1 DEF Queued, ModuleBlock, Block, EnvInv
<1>2. ~IteratorRaises
  BY DEF IteratorRaises, StageInv, Inferring
<1>3. FunctionUnknown => raised' = "NotAFunction"
  <2>. SUFFICES ASSUME FunctionUnknown PROVE raised' = "NotAFunction"
    OBVIOUS
  <2>1. pc = "body" /\ it \in 1..Len(qInf)
    BY DEF FunctionUnknown, PipelineInv, TypeOK, ManagerTypeOK, ControlTypeOK
  <2>2. ~InShell
    BY <2>1 DEF SessionInv
  <2>3. symtab[qInf[it]] = "filled"
    BY <2>1, <2>2 DEF ReportsInv
  <2>. QED BY <2>3 DEF FunctionUnknown, LeaveCall
<1>4. raised = "none"
  BY DEF SessionInv
<1>5. ASSUME Process PROVE NoException'
  <2>1. ResolutionRaises => raised' \in Fault
    <3>. SUFFICES ASSUME ResolutionRaises PROVE raised' \in Fault
      OBVIOUS
    <3>0. PICK i \in 1..Len(batch) : \E exc \in Faults[TextOf(batch[i])] : LeaveCall(exc)
      BY DEF ResolutionRaises
    <3>1. PICK exc \in Faults[TextOf(batch[i])] : LeaveCall(exc)
      BY <3>0
    <3>2. batch[i] \in Block /\ batch[i].symid \in targets
      BY DEF PipelineInv, TypeOK, ControlTypeOK
    <3>. QED
      BY <3>1, <3>2, TextOfBlock, FaultAssumption DEF LeaveCall, PipelineInv, TypeOK
  <2>2. MethodsRaise => raised' = "NoParameter"
    BY DEF MethodsRaise, LeaveCall
  <2>3. ImportRaises => raised' \in {"SyntaxError", "SplitNamespace"}
    BY DEF ImportRaises, LeaveCall, AddFault
  <2>4. ProcessReturns => raised' \in {"none", "NotAFunction"}
    BY <1>4 DEF ProcessReturns, LeaveCall, PipelineInv, TypeOK, ControlTypeOK
  <2>5. DefineBlock \/ AddImport \/ BlockDefined \/ AllDefined \/ DumpBlock \/ AllDumped
          \/ PromoteBlock \/ NextBatch => raised' = raised
    BY DEF DefineBlock, AddImport, BlockDefined, AllDefined, DumpBlock, AllDumped,
       PromoteBlock, NextBatch
  <2>. QED
    BY <1>1, <1>4, <1>5, <2>1, <2>2, <2>3, <2>4, <2>5 DEF Process, NoException, Fault
<1>6. ASSUME Infer PROVE NoException'
  BY <1>2, <1>3, <1>4, <1>6
  DEF Infer, InferModule, AllInferred, EnterFunction, ModuleInferred, LeaveCall, NoException
<1>7. ASSUME NEW t \in Inputs, Input(t) PROVE NoException'
  BY <1>7 DEF Input, NoException
<1>8. ASSUME Client PROVE NoException'
  BY <1>4, <1>8
  DEF Client, Edit, Recheck, AddCheckFile, AddFault, CallPreprocess, CallInfer, CallCheck,
      NothingDone, NoException
<1>. QED
  BY <1>5, <1>6, <1>7, <1>8
  DEF SessionNext, ShellNext, CheckNext, CheckFile, RecheckFile, Client

LEMMA SessionSteps ==
  ASSUME CheckInv, SessionNext, raised' = "none"
  PROVE  ShellStep \/ (\E s \in Symid : Edit(s)) \/ CheckStep \/ ProcessStep
<1>. USE DEF CheckInv
<1>1. ASSUME Process PROVE ProcessStep
  <2>1. ~DefinedTwice /\ ~ImportRaises /\ ~MethodsRaise
    BY DEF DefinedTwice, ImportRaises, MethodsRaise, LeaveCall, AddFault
  <2>2. ~ResolutionRaises
    <3>. SUFFICES ASSUME ResolutionRaises PROVE FALSE
      OBVIOUS
    <3>0. PICK i \in 1..Len(batch) : \E exc \in Faults[TextOf(batch[i])] : LeaveCall(exc)
      BY DEF ResolutionRaises
    <3>1. PICK exc \in Faults[TextOf(batch[i])] : LeaveCall(exc)
      BY <3>0
    <3>2. batch[i] \in Block /\ batch[i].symid \in targets
      BY DEF PipelineInv, TypeOK, ControlTypeOK
    <3>. QED
      BY <3>1, <3>2, TextOfBlock, FaultAssumption
      DEF LeaveCall, PipelineInv, TypeOK, Fault
  <2>. QED BY <1>1, <2>1, <2>2 DEF Process, ProcessStep
<1>2. ASSUME Infer PROVE InferModule \/ AllInferred \/ EnterFunction \/ ModuleInferred
  BY <1>2 DEF Infer, IteratorRaises, FunctionUnknown, LeaveCall
<1>3. ASSUME ~InShell, NEW s \in Symid, CheckFile(s)
      PROVE  AddStep(s) \/ AddNothing(s)
  BY <1>3 DEF CheckFile, AddCheckFile, AddStep, AddNothing, NothingDone, AddFault
<1>4. ASSUME ~InShell, NEW s \in Symid, RecheckFile(s)
      PROVE  RecheckStep(s) \/ RecheckNothing(s)
  <2>1. s \in toCheck /\ Kind[s] = "module" /\ s \in targets
    BY <1>4 DEF RecheckFile, SessionInv, PipelineInv, TypeOK, ManagerTypeOK
  <2>2. ~RecheckRaises(s)
    BY <2>1 DEF RecheckRaises
  <2>. QED BY <1>4, <2>1, <2>2 DEF RecheckFile, Recheck, RecheckStep, RecheckNothing
<1>. QED
  BY <1>1, <1>2, <1>3, <1>4 DEF SessionNext, ShellNext, CheckNext, ShellStep, CheckStep

\* A client stays what it is: nothing ever adds the shell's target.
LEMMA SameClient ==
  ASSUME CheckInv, SessionNext, raised' = "none"
  PROVE  InShell' <=> InShell
<1>1. \A s \in Symid, check \in BOOLEAN :
        AddTarget(s, check) => targets' = targets \cup {s} /\ s # ShellSymid
  BY ShellAssumption DEF AddTarget, AddIsIgnored, IsModuleFile
<1>2. ShellStep => targets' = targets
  BY DEF ShellStep, Input
<1>3. (\E s \in Symid : Edit(s)) => targets' = targets
  BY DEF Edit, managerVars
<1>4. CheckStep => targets' = targets \/ \E s \in Symid : AddTarget(s, TRUE)
  BY DEF CheckStep, AddStep, AddNothing, NothingDone, RecheckStep, RecheckNothing,
     RecheckFromBegin, CallCheck, InferModule, AllInferred, EnterFunction, ModuleInferred, managerVars
<1>5. AddImport => targets' = targets \/ \E s \in Symid : AddTarget(s, FALSE)
  <2>1. AddImport => Head(todo) \in Symid
    BY DEF AddImport, CheckInv, PipelineInv, TypeOK, ControlTypeOK
  <2>. QED BY <2>1 DEF AddImport, managerVars
<1>6. ProcessStep => targets' = targets \/ AddImport
  BY DEF ProcessStep, DefineBlock, BlockDefined, AllDefined, DumpBlock, AllDumped,
     PromoteBlock, NextBatch, ProcessReturns, managerVars
<1>. QED BY <1>1, <1>2, <1>3, <1>4, <1>5, <1>6, SessionSteps DEF InShell

-----------------------------------------------------------------------------
(* SessionInv *)

LEMMA SessionInvStep ==
  ASSUME CheckInv, SessionNext, raised' = "none"
  PROVE  SessionInv'
<1>. USE DEF SessionInv
<1>0. SessionInv /\ (InShell' <=> InShell)
  BY SameClient DEF CheckInv
<1>1. ASSUME NEW s \in Symid, Edit(s) PROVE SessionInv'
  BY <1>0, <1>1 DEF Edit, managerVars, control
<1>2. ASSUME ShellStep PROVE SessionInv'
  BY <1>0, <1>2 DEF ShellStep, Input, EnterProcess
<1>3. ASSUME CheckStep PROVE SessionInv'
  <2>1. ASSUME NEW s \in Symid, AddStep(s) PROVE SessionInv'
    BY <1>0, <1>3, <2>1
    DEF CheckStep, AddStep, CheckFile, AddCheckFile, AddTarget, CanCall, control
  <2>2. ASSUME NEW s \in Symid, AddNothing(s) PROVE SessionInv'
    BY <1>0, <1>3, <2>2
    DEF CheckStep, AddNothing, NothingDone, CheckFile, AddCheckFile, CanCall, control,
        managerVars
  <2>3. ASSUME NEW s \in Symid, RecheckStep(s) PROVE SessionInv'
    BY <1>0, <1>3, <2>3
    DEF CheckStep, RecheckStep, RecheckFromBegin, CanCall, control
  <2>7. ASSUME NEW s \in Symid, RecheckNothing(s) PROVE SessionInv'
    BY <1>0, <1>3, <2>7
    DEF CheckStep, RecheckNothing, RecheckFile, Recheck, NothingDone, CanCall, control,
        managerVars
  <2>4. ASSUME CallCheck PROVE SessionInv'
    BY <1>0, <1>3, <2>4 DEF CheckStep, CallCheck, CanCall, EnterProcess, managerVars
  <2>5. ASSUME InferModule \/ EnterFunction \/ ModuleInferred PROVE SessionInv'
    BY <1>0, <1>3, <2>5 DEF CheckStep, InferModule, EnterFunction, ModuleInferred, managerVars
  <2>6. ASSUME AllInferred PROVE SessionInv'
    BY <1>0, <1>3, <2>6 DEF CheckStep, AllInferred, LeaveCall
  <2>. QED BY <1>3, <2>1, <2>2, <2>3, <2>4, <2>5, <2>6, <2>7 DEF CheckStep
<1>4. ASSUME ProcessStep PROVE SessionInv'
  <2>1. ASSUME DefineBlock \/ BlockDefined \/ AllDefined \/ AllDumped \/ NextBatch
        PROVE  SessionInv'
    BY <1>0, <2>1 DEF DefineBlock, BlockDefined, AllDefined, AllDumped, NextBatch, managerVars
  <2>2. ASSUME DumpBlock \/ PromoteBlock PROVE SessionInv'
    BY <1>0, <2>2 DEF DumpBlock, PromoteBlock
  <2>3. ASSUME AddImport PROVE SessionInv'
    BY <1>0, <2>3 DEF AddImport, AddTarget, managerVars
  <2>4. ASSUME ProcessReturns PROVE SessionInv'
    BY <1>0, <2>4 DEF ProcessReturns, LeaveCall, managerVars
  <2>. QED BY <1>4, <2>1, <2>2, <2>3, <2>4 DEF ProcessStep
<1>. QED BY <1>1, <1>2, <1>3, <1>4, SessionSteps

-----------------------------------------------------------------------------
(* EnvInv *)

LEMMA EnvInvStep ==
  ASSUME CheckInv, SessionNext, raised' = "none"
  PROVE  EnvInv'
<1>. USE DEF EnvInv
<1>0. /\ EnvInv /\ TypeOK /\ SessionInv /\ env \subseteq targets
      /\ symtab \in [Symid -> {"empty", "filled"}]
      /\ stage \in [Symid -> Stage] /\ targets \subseteq Symid
  BY DEF CheckInv, PipelineInv, TypeOK, ManagerTypeOK, ControlTypeOK
<1>1. ASSUME UNCHANGED <<targets, symtab, env, qPre, batch>>,
             pc' \in {"idle", "infer", "body"} => env = {},
             pc' \in {"dump", "promote"} => pc \in {"dump", "promote"} \/ qPre = <<>>
      PROVE  EnvInv'
  BY <1>0, <1>1 DEF Queued, InBatch
<1>2. ASSUME ShellStep PROVE EnvInv'
  <2>1. /\ UNCHANGED <<targets, symtab, env>> /\ pc = "idle" /\ pc' = "define"
        /\ ToPreprocess(ShellSymid)
    BY <1>2 DEF ShellStep, Input, CanCall, EnterProcess
  <2>2. \A r \in Symid : Queued(r) => Queued(r)'
    BY <1>0, <2>1, ShellAssumption, ToPreprocessQueued
  <2>. QED BY <1>0, <2>1, <2>2
<1>3. ASSUME CheckStep PROVE EnvInv'
  <2>1. ASSUME NEW s \in Symid, AddStep(s) PROVE EnvInv'
    <3>1. /\ UNCHANGED <<symtab, env>> /\ pc = "idle" /\ pc' = "idle"
          /\ targets' = targets \cup {s} /\ ToPreprocess(s) /\ s \notin targets
      BY <2>1 DEF AddStep, CheckFile, AddCheckFile, AddTarget, AddIsIgnored, CanCall, control
    <3>2. stage[s] # "Preprocess"
      BY <3>1 DEF CheckInv, StageInv
    <3>3. \A r \in Symid : Queued(r)' <=> Queued(r) \/ r = s
      BY <1>0, <3>1, <3>2, ToPreprocessQueued
    <3>. QED BY <1>0, <3>1, <3>3
  <2>2. ASSUME NEW s \in Symid, AddNothing(s) PROVE EnvInv'
    BY <1>0, <1>1, <2>2
    DEF AddNothing, CheckFile, AddCheckFile, NothingDone, CanCall, control, managerVars
  <2>3. ASSUME NEW s \in Symid, RecheckStep(s) PROVE EnvInv'
    <3>1. /\ UNCHANGED <<targets, env, batch>> /\ pc = "idle" /\ pc' = "idle"
          /\ symtab' = [symtab EXCEPT ![s] = "empty"] /\ ToPreprocess(s) /\ s \in toCheck
      BY <2>3 DEF RecheckStep, RecheckFromBegin, CanCall, control
    <3>2. batch = <<>>
      BY <3>1 DEF CheckInv, PipelineInv, BatchInProcess
    <3>3. stage[s] = "Preprocess" => Queued(s)
      BY <3>1, <3>2 DEF CheckInv, StageInv, Promotable
    <3>4. \A r \in Symid : Queued(r)' <=> Queued(r) \/ r = s
      BY <1>0, <3>1, <3>3, ToPreprocessQueued
    <3>. QED BY <1>0, <3>1, <3>4
  <2>7. ASSUME NEW s \in Symid, RecheckNothing(s) PROVE EnvInv'
    BY <1>0, <1>1, <2>7
    DEF RecheckNothing, RecheckFile, Recheck, NothingDone, CanCall, control, managerVars
  <2>4. ASSUME CallCheck \/ InferModule \/ ModuleInferred PROVE EnvInv'
    BY <1>0, <1>1, <2>4
    DEF CallCheck, CanCall, EnterProcess, InferModule, ModuleInferred, managerVars
  <2>5. ASSUME AllInferred PROVE EnvInv'
    BY <1>0, <2>5 DEF AllInferred, LeaveCall, Queued, InBatch
  <2>6. ASSUME EnterFunction PROVE EnvInv'
    <3>1. \A r \in Symid : Queued(r)' <=> Queued(r)
      BY <1>0, <2>6, InnerQueued
    <3>. QED BY <1>0, <2>6, <3>1 DEF EnterFunction
  <2>. QED BY <1>3, <2>1, <2>2, <2>3, <2>4, <2>5, <2>6, <2>7 DEF CheckStep
<1>4. ASSUME ProcessStep PROVE EnvInv'
  <2>1. ASSUME DefineBlock PROVE EnvInv'
    <3>. DEFINE b == Head(qPre)
    <3>1. /\ b \in Block /\ b.symid \in targets
          /\ \A r \in Symid : b = ModuleBlock(r) => Queued(r)
          /\ \A r \in Symid : Queued(r)' <=> Queued(r) /\ b # ModuleBlock(r)
          /\ \A r \in Symid : InBatch(r)' <=> InBatch(r) \/ b = ModuleBlock(r)
      BY <1>0, <2>1, HeadTaken DEF CheckInv, PipelineInv
    <3>2. /\ UNCHANGED <<targets, symtab>> /\ pc' = "import"
          /\ env' = IF b.body = Top THEN env \cup {b.symid} ELSE env
      BY <2>1 DEF DefineBlock
    <3>3. \A r \in Symid : b = ModuleBlock(r) <=> b.body = Top /\ b.symid = r
      BY <3>1 DEF Block, ModuleBlock
    <3>. HIDE DEF b
    <3>. QED BY <1>0, <3>1, <3>2, <3>3
  <2>2. ASSUME AddImport PROVE EnvInv'
    <3>1. CASE UNCHANGED managerVars
      BY <1>0, <1>1, <2>2, <3>1 DEF AddImport, managerVars
    <3>2. ASSUME NEW s \in Symid, AddTarget(s, FALSE) PROVE EnvInv'
      <4>1. /\ UNCHANGED <<symtab, env, batch, pc>> /\ pc = "import"
            /\ targets' = targets \cup {s} /\ ToPreprocess(s) /\ s \notin targets
        BY <2>2, <3>2 DEF AddImport, AddTarget, AddIsIgnored
      <4>2. stage[s] # "Preprocess"
        BY <4>1 DEF CheckInv, StageInv
      <4>3. \A r \in Symid : Queued(r)' <=> Queued(r) \/ r = s
        BY <1>0, <4>1, <4>2, ToPreprocessQueued
      <4>4. \A r \in Symid : InBatch(r)' <=> InBatch(r)
        BY <4>1 DEF InBatch
      <4>. QED BY <1>0, <4>1, <4>3, <4>4
    <3>3. Head(todo) \in Symid
      BY <1>0, <2>2 DEF AddImport, TypeOK, ControlTypeOK
    <3>. QED BY <2>2, <3>1, <3>2, <3>3 DEF AddImport
  <2>3. ASSUME BlockDefined \/ AllDefined \/ AllDumped PROVE EnvInv'
    BY <1>0, <1>1, <2>3 DEF BlockDefined, AllDefined, AllDumped, managerVars
  <2>4. ASSUME DumpBlock PROVE EnvInv'
    <3>1. \A r \in Symid : (Queued(r)' <=> Queued(r)) /\ (InBatch(r)' <=> InBatch(r))
      BY <1>0, <2>4, InnerQueued DEF DumpBlock, InBatch
    <3>2. \A r \in Symid : symtab[r] = "filled" => symtab'[r] = "filled"
      BY <1>0, <2>4 DEF DumpBlock
    <3>. QED BY <1>0, <2>4, <3>1, <3>2 DEF DumpBlock
  <2>5. ASSUME PromoteBlock PROVE EnvInv'
    BY <1>0, <1>1, <2>5 DEF PromoteBlock
  <2>6. ASSUME NextBatch \/ ProcessReturns PROVE EnvInv'
    <3>1. /\ UNCHANGED <<targets, symtab, qPre>> /\ pc = "promote"
          /\ \/ pc' = "define" /\ env' = env
             \/ pc' \in {"idle", "infer", "body"} /\ env' = {}
      BY <2>6 DEF NextBatch, ProcessReturns, LeaveCall, managerVars
    <3>2. \A r \in env : symtab[r] = "filled"
      <4>1. \A r \in Symid : InBatch(r) => symtab[r] = "filled"
        BY <3>1 DEF CheckInv, PipelineInv, BatchFilled, InBatch, ModuleBlock
      <4>. QED BY <1>0, <4>1
    <3>3. \A r \in Symid : Queued(r)' <=> Queued(r)
      BY <3>1 DEF Queued
    <3>. QED BY <1>0, <3>1, <3>2, <3>3
  <2>. QED BY <1>4, <2>1, <2>2, <2>3, <2>4, <2>5, <2>6 DEF ProcessStep
<1>5. ASSUME NEW s \in Symid, Edit(s) PROVE EnvInv'
  BY <1>0, <1>1, <1>5 DEF Edit, CanCall, managerVars, control
<1>. QED BY <1>2, <1>3, <1>4, <1>5, SessionSteps

-----------------------------------------------------------------------------
(* ImportsInv *)

LEMMA ImportsInvStep ==
  ASSUME CheckInv, SessionNext, raised' = "none"
  PROVE  ImportsInv'
<1>0. /\ ImportsInv /\ TypeOK /\ batch \in Seq(Block) /\ todo \in Seq(Symid)
      /\ text \in [Symid -> Text \cup {NoAst}] /\ targets \subseteq Symid
      /\ \A i \in 1..Len(batch) : batch[i].symid \in targets
  BY DEF CheckInv, PipelineInv, TypeOK, ManagerTypeOK, ControlTypeOK
<1>1. CASE pc' \notin {"define", "import", "dump"} \/ batch' = <<>>
  BY <1>1 DEF ImportsInv
<1>2. ASSUME DefineBlock PROVE ImportsInv'
  <2>. DEFINE b == Head(qPre)
  <2>1. b \in Block
    BY <1>2, HeadTaken DEF CheckInv, PipelineInv
  <2>2. /\ pc = "define" /\ batch' = Append(batch, b) /\ todo' = Imports[TextOf(b)]
        /\ pc' = "import" /\ UNCHANGED <<text, targets>>
    BY <1>2 DEF DefineBlock
  <2>. HIDE DEF b
  <2>3. /\ Len(batch) \in Nat /\ Len(batch') = Len(batch) + 1
        /\ \A i \in 1..Len(batch) : batch'[i] = batch[i]
        /\ batch'[Len(batch) + 1] = b
    BY <1>0, <2>1, <2>2
  <2>4. \A c : TextOf(c)' = TextOf(c')
    BY <2>2 DEF TextOf
  <2>. SUFFICES ASSUME NEW i \in 1..Len(batch'),
                       NEW s \in Range(Imports[TextOf(batch'[i])]),
                       IsModuleFile(s)
                PROVE  s \in targets \/ (i = Len(batch') /\ s \in Range(todo'))
    BY <2>2, <2>4 DEF ImportsInv, TextOf
  <2>5. CASE i \in 1..Len(batch)
    BY <1>0, <2>2, <2>3, <2>5 DEF ImportsInv
  <2>6. CASE i = Len(batch) + 1
    BY <2>2, <2>3, <2>6
  <2>. QED BY <2>3, <2>5, <2>6
<1>3. ASSUME AddImport PROVE ImportsInv'
  <2>. DEFINE r == Head(todo)
  <2>1. /\ r \in Symid /\ pc = "import" /\ pc' = "import" /\ batch' = batch
        /\ todo' = Tail(todo) /\ todo # <<>>
    BY <1>0, <1>3 DEF AddImport
  <2>2. \A s \in Range(todo) : s = r \/ s \in Range(todo')
    <3>1. /\ r = todo[1] /\ Len(todo') = Len(todo) - 1
          /\ DOMAIN todo = 1..Len(todo) /\ DOMAIN todo' = 1..Len(todo')
          /\ \A i \in 2..Len(todo) : i - 1 \in 1..Len(todo') /\ todo'[i - 1] = todo[i]
      BY <1>0, <2>1
    <3>2. \A i \in DOMAIN todo : i = 1 \/ i \in 2..Len(todo)
      BY <3>1
    <3>. QED BY <3>1, <3>2 DEF Range
  <2>3. /\ targets \subseteq targets'
        /\ IsModuleFile(r) => r \in targets'
        /\ \A s \in targets : text'[s] = text[s]
    <3>1. CASE AddIsIgnored(r) /\ UNCHANGED managerVars
      BY <3>1 DEF AddIsIgnored, IsModuleFile, managerVars
    <3>2. CASE AddTarget(r, FALSE)
      BY <1>0, <2>1, <3>2 DEF AddTarget, AddIsIgnored
    <3>. QED BY <1>3, <3>1, <3>2 DEF AddImport
  <2>. HIDE DEF r
  <2>. SUFFICES ASSUME NEW i \in 1..Len(batch),
                       NEW s \in Range(Imports[TextOf(batch[i])']),
                       IsModuleFile(s)
                PROVE  s \in targets' \/ (i = Len(batch) /\ s \in Range(todo'))
    BY <2>1 DEF ImportsInv, TextOf
  <2>4. TextOf(batch[i])' = TextOf(batch[i])
    BY <1>0, <2>1, <2>3 DEF TextOf
  <2>. QED BY <1>0, <2>1, <2>2, <2>3, <2>4 DEF ImportsInv
<1>4. ASSUME BlockDefined PROVE ImportsInv'
  <2>1. /\ todo = <<>> /\ pc = "import" /\ pc' = "define"
        /\ UNCHANGED <<batch, text, targets>>
    BY <1>4 DEF BlockDefined, managerVars
  <2>2. Range(todo) = {}
    BY <2>1 DEF Range
  <2>. QED BY <1>0, <2>1, <2>2 DEF ImportsInv, TextOf
<1>5. ASSUME AllDefined \/ DumpBlock PROVE ImportsInv'
  <2>1. pc \in {"define", "dump"} /\ pc' = "dump" /\ UNCHANGED <<batch, text, targets>>
    BY <1>5 DEF AllDefined, DumpBlock, managerVars
  <2>. QED BY <1>0, <2>1 DEF ImportsInv, TextOf
<1>6. ASSUME ProcessStep
      PROVE  \/ DefineBlock \/ AddImport \/ BlockDefined \/ AllDefined \/ DumpBlock
             \/ pc' \notin {"define", "import", "dump"} \/ batch' = <<>>
  BY <1>6 DEF ProcessStep, AllDumped, PromoteBlock, NextBatch, ProcessReturns, LeaveCall
<1>7. ASSUME ShellStep \/ CheckStep \/ \E s \in Symid : Edit(s)
      PROVE  batch' = <<>>
  <2>1. pc \in {"idle", "infer", "body"} /\ (batch' = batch \/ batch' = <<>>)
    BY <1>7 DEF ShellStep, Input, CheckStep, AddStep, AddNothing, CheckFile, AddCheckFile,
       RecheckStep, RecheckNothing, RecheckFile, Recheck, CallCheck, CanCall, EnterProcess,
       InferModule, AllInferred, LeaveCall, EnterFunction, ModuleInferred, Edit, control
  <2>. QED BY <2>1 DEF CheckInv, PipelineInv, BatchInProcess
<1>. QED BY <1>1, <1>2, <1>3, <1>4, <1>5, <1>6, <1>7, SessionSteps

-----------------------------------------------------------------------------
(* StageInv *)

\* A module that becomes a target of a kind the caller chooses.
LEMMA AddedStage ==
  ASSUME CheckInv, NEW s \in Symid, NEW check \in BOOLEAN, AddTarget(s, check),
         UNCHANGED <<batch, pc, ret, k, size>>, check => ~Inferring
  PROVE  StageInv'
<1>0. /\ StageInv /\ TypeOK /\ toCheck \subseteq targets /\ targets \subseteq Symid
  BY DEF CheckInv, PipelineInv, TypeOK, ManagerTypeOK
<1>1. /\ targets' = targets \cup {s} /\ s \notin targets
      /\ toCheck' = IF check THEN toCheck \cup {s} ELSE toCheck
      /\ ToPreprocess(s) /\ UNCHANGED <<reports, qInf>>
  BY DEF AddTarget, AddIsIgnored
<1>2. stage[s] = "Parse"
  BY <1>0, <1>1 DEF StageInv
<1>3. /\ \A r \in Symid : Queued(r)' <=> Queued(r) \/ r = s
      /\ \A r \in Symid : stage'[r] = IF r = s THEN "Preprocess" ELSE stage[r]
  BY <1>0, <1>1, <1>2, ToPreprocessQueued
<1>4. \A r \in Symid : (Promotable(r)' <=> Promotable(r)) /\ (InBatch(r)' <=> InBatch(r))
  BY DEF Promotable, InBatch
<1>5. Inferring' <=> Inferring
  BY DEF Inferring
<1>. QED BY <1>0, <1>1, <1>3, <1>4, <1>5 DEF StageInv

LEMMA StageInvStep ==
  ASSUME CheckInv, SessionNext, raised' = "none"
  PROVE  StageInv'
<1>0. /\ StageInv /\ TypeOK /\ PipelineInv /\ SessionInv /\ EnvInv
      /\ toCheck \subseteq targets /\ targets \subseteq Symid
      /\ batch \in Seq(Block) /\ k \in Nat \ {0} /\ Len(batch) \in Nat
      /\ stage \in [Symid -> Stage] /\ reports \in [Symid -> Nat]
  <2>1. StageInv /\ TypeOK /\ PipelineInv /\ SessionInv /\ EnvInv
    BY DEF CheckInv, PipelineInv
  <2>2. ControlTypeOK /\ ManagerTypeOK
    BY <2>1 DEF TypeOK
  <2>3. batch \in Seq(Block) /\ k \in Nat \ {0} /\ Len(batch) \in Nat
    BY <2>2 DEF ControlTypeOK
  <2>. QED BY <2>1, <2>2, <2>3 DEF ManagerTypeOK
<1>1. ASSUME UNCHANGED <<targets, toCheck, stage, reports, qInf, size>>,
             \A s \in Symid : Queued(s)' <=> Queued(s),
             \A s \in Symid : Promotable(s) => Promotable(s)',
             Inferring' => Inferring /\ \A s \in Symid : InBatch(s)' => InBatch(s)
      PROVE  StageInv'
  BY <1>0, <1>1 DEF StageInv
<1>2. ASSUME NEW s \in Symid, ToPreprocess(s), s \in toCheck, s \in targets,
             \A r \in Symid : r # s => reports'[r] = reports[r],
             batch = <<>>, stage[s] = "Preprocess" => Queued(s),
             UNCHANGED <<targets, toCheck, batch>>, ~(Inferring')
      PROVE  StageInv'
  <2>1. /\ \A r \in Symid : Queued(r)' <=> Queued(r) \/ r = s
        /\ \A r \in Symid : stage'[r] = IF r = s THEN "Preprocess" ELSE stage[r]
    BY <1>0, <1>2, ToPreprocessQueued
  <2>2. \A r \in Symid : ~Promotable(r)
    BY <1>2 DEF Promotable
  <2>. QED BY <1>0, <1>2, <2>1, <2>2 DEF StageInv
<1>3. ASSUME ShellStep PROVE StageInv'
  <2>1. /\ UNCHANGED <<targets, toCheck, reports, batch>> /\ pc = "idle" /\ pc' = "define"
        /\ ret' = "idle" /\ ToPreprocess(ShellSymid) /\ InShell
    BY <1>3 DEF ShellStep, Input, CanCall, EnterProcess
  <2>2. ShellSymid \in toCheck /\ ShellSymid \in Symid
    BY <1>0, <2>1, ShellAssumption DEF SessionInv
  <2>3. batch = <<>>
    BY <1>0, <2>1 DEF PipelineInv, BatchInProcess
  <2>4. ~(Inferring') /\ (stage[ShellSymid] = "Preprocess" => Queued(ShellSymid))
    BY <1>0, <2>1, <2>2, <2>3 DEF Inferring, StageInv, Promotable
  <2>. QED BY <1>0, <1>2, <2>1, <2>2, <2>3, <2>4
<1>4. ASSUME CheckStep PROVE StageInv'
  <2>1. ASSUME NEW s \in Symid, AddStep(s) PROVE StageInv'
    <3>1. AddTarget(s, TRUE) /\ UNCHANGED <<batch, pc, ret, k, size>> /\ ~Inferring
      BY <1>0, <2>1
      DEF AddStep, CheckFile, AddCheckFile, CanCall, control, Inferring, TypeOK, ControlTypeOK
    <3>. QED BY <3>1, AddedStage
  <2>2. ASSUME NEW s \in Symid, RecheckStep(s) PROVE StageInv'
    <3>1. /\ UNCHANGED <<targets, toCheck, batch>> /\ pc = "idle"
          /\ pc' = "idle" /\ ret' = ret /\ ret = "idle"
          /\ reports' = [reports EXCEPT ![s] = 0]
          /\ ToPreprocess(s) /\ s \in toCheck /\ s \in targets
      BY <1>0, <2>2
      DEF RecheckStep, RecheckFromBegin, CanCall, control, TypeOK, ControlTypeOK
    <3>2. batch = <<>>
      BY <1>0, <3>1 DEF PipelineInv, BatchInProcess
    <3>3. ~(Inferring') /\ (stage[s] = "Preprocess" => Queued(s))
      BY <1>0, <3>1, <3>2 DEF Inferring, StageInv, Promotable
    <3>. QED BY <1>0, <1>2, <3>1, <3>2, <3>3
  <2>3. ASSUME NEW s \in Symid, AddNothing(s) PROVE StageInv'
    BY <1>1, <2>3 DEF AddNothing, CheckFile, AddCheckFile, NothingDone, control, managerVars,
       Queued, Promotable, InBatch, Inferring
  <2>8. ASSUME NEW s \in Symid, RecheckNothing(s) PROVE StageInv'
    BY <1>1, <2>8 DEF RecheckNothing, RecheckFile, Recheck, NothingDone, control,
       managerVars, Queued, Promotable, InBatch, Inferring
  <2>4. ASSUME CallCheck \/ ModuleInferred PROVE StageInv'
    BY <1>1, <2>4 DEF CallCheck, EnterProcess, CanCall, ModuleInferred, managerVars,
       Queued, Promotable, InBatch, Inferring
  <2>5. ASSUME InferModule PROVE StageInv'
    <3>1. /\ UNCHANGED <<targets, toCheck, stage, qInf, size, qPre, batch, k, ret>>
          /\ pc = "infer" /\ pc' = "body" /\ qInf[it] \in targets
          /\ reports' = [reports EXCEPT ![qInf[it]] = @ + 1]
      BY <1>0, <2>5 DEF InferModule, TypeOK, ManagerTypeOK, ControlTypeOK
    <3>2. \A s \in Symid : (Queued(s)' <=> Queued(s)) /\ (InBatch(s)' <=> InBatch(s))
                           /\ (Promotable(s) => Promotable(s)')
      BY <3>1 DEF Queued, InBatch, Promotable
    <3>. QED BY <1>0, <3>1, <3>2 DEF StageInv, Inferring
  <2>6. ASSUME AllInferred PROVE StageInv'
    <3>1. /\ UNCHANGED <<targets, toCheck, stage, reports, qPre>> /\ batch = <<>>
          /\ ~(Inferring')
      BY <1>0, <2>6 DEF AllInferred, LeaveCall, PipelineInv, BatchInProcess, Inferring
    <3>2. \A s \in Symid : (Queued(s)' <=> Queued(s)) /\ ~Promotable(s)
      BY <3>1 DEF Queued, Promotable
    <3>. QED BY <1>0, <3>1, <3>2 DEF StageInv
  <2>7. ASSUME EnterFunction PROVE StageInv'
    <3>1. \A r \in Symid : Queued(r)' <=> Queued(r)
      BY <1>0, <2>7, InnerQueued
    <3>2. UNCHANGED <<targets, toCheck, stage, reports, qInf, size>>
      BY <2>7 DEF EnterFunction
    <3>3. \A r \in Symid : Promotable(r) => Promotable(r)'
      BY <2>7 DEF EnterFunction, Promotable
    <3>4. Inferring' => Inferring /\ \A s \in Symid : InBatch(s)' => InBatch(s)
      BY <2>7 DEF EnterFunction, InBatch, Inferring
    <3>. QED BY <1>1, <3>1, <3>2, <3>3, <3>4
  <2>. QED BY <1>4, <2>1, <2>2, <2>3, <2>4, <2>5, <2>6, <2>7, <2>8 DEF CheckStep
<1>5. ASSUME ProcessStep PROVE StageInv'
  <2>1. ASSUME DefineBlock PROVE StageInv'
    <3>. DEFINE b == Head(qPre)
    <3>1. /\ b \in Block /\ b.symid \in targets
          /\ \A r \in Symid : b = ModuleBlock(r) => Queued(r)
          /\ \A r \in Symid : Queued(r)' <=> Queued(r) /\ b # ModuleBlock(r)
          /\ \A r \in Symid : InBatch(r)' <=> InBatch(r) \/ b = ModuleBlock(r)
      BY <1>0, <2>1, HeadTaken DEF PipelineInv
    <3>2. /\ UNCHANGED <<targets, toCheck, stage, reports, qInf, size, ret>>
          /\ pc = "define" /\ pc' = "import" /\ batch' = Append(batch, b)
      BY <2>1 DEF DefineBlock
    <3>. HIDE DEF b
    <3>3. /\ Len(batch') = Len(batch) + 1 /\ batch'[Len(batch) + 1] = b
          /\ \A i \in 1..Len(batch) : batch'[i] = batch[i] /\ i \in 1..Len(batch')
          /\ Len(batch) + 1 \in 1..Len(batch')
      BY <1>0, <3>1, <3>2
    <3>4. \A r \in Symid : Promotable(r) \/ b = ModuleBlock(r) => Promotable(r)'
      BY <3>2, <3>3 DEF Promotable
    <3>. QED BY <1>0, <3>1, <3>2, <3>4 DEF StageInv, Inferring
  <2>2. ASSUME AddImport PROVE StageInv'
    <3>1. CASE UNCHANGED managerVars
      BY <1>1, <2>2, <3>1 DEF AddImport, managerVars, Queued, Promotable, InBatch, Inferring
    <3>2. CASE AddTarget(Head(todo), FALSE)
      <4>1. Head(todo) \in Symid
        BY <1>0, <2>2 DEF AddImport, TypeOK, ControlTypeOK
      <4>. QED BY <2>2, <3>2, <4>1, AddedStage DEF AddImport
    <3>. QED BY <2>2, <3>1, <3>2 DEF AddImport
  <2>3. ASSUME BlockDefined \/ AllDefined PROVE StageInv'
    BY <1>1, <2>3 DEF BlockDefined, AllDefined, managerVars, Queued, Promotable, InBatch,
       Inferring
  <2>4. ASSUME AllDumped PROVE StageInv'
    <3>1. /\ UNCHANGED <<targets, toCheck, stage, reports, qInf, size, qPre, batch, ret>>
          /\ pc = "dump" /\ pc' = "promote" /\ k' = 1
      BY <2>4 DEF AllDumped, managerVars
    <3>2. \A s \in Symid : Promotable(s) => Promotable(s)'
      BY <1>0, <3>1 DEF Promotable
    <3>. QED BY <1>1, <3>1, <3>2 DEF Queued, InBatch, Inferring
  <2>5. ASSUME DumpBlock PROVE StageInv'
    <3>1. \A r \in Symid : Queued(r)' <=> Queued(r)
      BY <1>0, <2>5, InnerQueued
    <3>2. /\ UNCHANGED <<targets, toCheck, stage, reports, qInf, size, batch, ret, pc>>
          /\ pc = "dump"
      BY <2>5 DEF DumpBlock
    <3>3. \A s \in Symid : Promotable(s) => Promotable(s)'
      BY <3>2 DEF Promotable
    <3>. QED BY <1>1, <3>1, <3>2, <3>3 DEF InBatch, Inferring
  <2>6. ASSUME PromoteBlock PROVE StageInv'
    <3>. DEFINE b == batch[k]
    <3>1. /\ UNCHANGED <<targets, toCheck, reports, qPre, size, batch, ret, pc>>
          /\ pc = "promote" /\ k' = k + 1 /\ k \in 1..Len(batch) /\ b \in Block
          /\ IF b.body = Top /\ b.symid \in toCheck
             THEN ToInfer(b.symid) ELSE UNCHANGED <<stage, qInf>>
      BY <1>0, <2>6 DEF PromoteBlock
    <3>2. /\ \A s \in Symid : Queued(s)' <=> Queued(s)
          /\ \A s \in Symid : InBatch(s)' <=> InBatch(s)
          /\ Inferring' <=> Inferring
      BY <3>1 DEF Queued, InBatch, Inferring
    <3>3. b.body = Top => b = ModuleBlock(b.symid) /\ b.symid \in Symid /\ InBatch(b.symid)
      BY <3>1 DEF Block, ModuleBlock, InBatch
    <3>4. \A s \in Symid : Promotable(s) => Promotable(s)' \/ b = ModuleBlock(s)
      BY <1>0, <3>1 DEF Promotable
    <3>. HIDE DEF b
    <3>5. CASE b.body = Top /\ b.symid \in toCheck
      <4>1. /\ ~Inferring
            /\ \A s \in Symid : stage'[s] = IF s = b.symid THEN "Infer" ELSE stage[s]
        BY <1>0, <3>1, <3>3, <3>5 DEF StageInv, ToInfer
      <4>2. \A s \in Symid : b = ModuleBlock(s) => s = b.symid
        BY DEF ModuleBlock
      <4>. QED BY <1>0, <3>1, <3>2, <3>4, <3>5, <4>1, <4>2 DEF StageInv
    <3>6. CASE ~(b.body = Top /\ b.symid \in toCheck)
      <4>1. UNCHANGED <<stage, qInf>>
        BY <3>1, <3>6
      <4>2. \A s \in toCheck : b # ModuleBlock(s)
        BY <3>6 DEF ModuleBlock
      <4>. QED BY <1>0, <3>1, <3>2, <3>4, <4>1, <4>2 DEF StageInv
    <3>. QED BY <3>5, <3>6
  <2>7. ASSUME NextBatch \/ ProcessReturns PROVE StageInv'
    <3>1. /\ UNCHANGED <<targets, toCheck, stage, reports, qPre, qInf>> /\ pc = "promote"
          /\ batch' = <<>> /\ k > Len(batch)
      BY <2>7 DEF NextBatch, ProcessReturns, LeaveCall, managerVars
    <3>2. \A s \in Symid : (Queued(s)' <=> Queued(s)) /\ ~Promotable(s) /\ ~Queued(s)
      BY <1>0, <3>1 DEF Queued, Promotable, EnvInv
    <3>3. \A s \in Symid : ~(InBatch(s)')
      BY <3>1 DEF InBatch
    <3>4. Inferring' => Len(qInf) = size'
      <4>1. CASE NextBatch
        BY <1>0, <4>1 DEF NextBatch, Inferring, StageInv
      <4>2. CASE ProcessReturns
        BY <1>0, <4>2 DEF ProcessReturns, LeaveCall, Inferring, StageInv
      <4>. QED BY <2>7, <4>1, <4>2
    <3>. QED BY <1>0, <3>1, <3>2, <3>3, <3>4 DEF StageInv
  <2>. QED BY <1>5, <2>1, <2>2, <2>3, <2>4, <2>5, <2>6, <2>7 DEF ProcessStep
<1>6. ASSUME NEW s \in Symid, Edit(s) PROVE StageInv'
  BY <1>1, <1>6 DEF Edit, managerVars, control, Queued, Promotable, InBatch, Inferring
<1>. QED BY <1>3, <1>4, <1>5, <1>6, SessionSteps

-----------------------------------------------------------------------------
(* ReportsInv *)

LEMMA ReportsInvStep ==
  ASSUME CheckInv, SessionNext, raised' = "none"
  PROVE  ReportsInv'
<1>0. /\ StageInv /\ TypeOK /\ PipelineInv /\ SessionInv
      /\ toCheck \subseteq targets /\ targets \subseteq Symid
      /\ k \in Nat \ {0} /\ it \in Nat \ {0} /\ size \in Nat
      /\ qInf \in Seq(targets) /\ Len(qInf) \in Nat
      /\ \A i \in 1..Len(qInf) : qInf[i] \in targets
      /\ stage \in [Symid -> Stage] /\ reports \in [Symid -> Nat]
      /\ symtab \in [Symid -> {"empty", "filled"}]
  BY DEF CheckInv, PipelineInv, TypeOK, ManagerTypeOK, ControlTypeOK
<1>1. InShell' <=> InShell
  BY SameClient
<1>2. CASE InShell
  BY <1>1, <1>2 DEF ReportsInv
<1>3. ASSUME ~InShell,
             UNCHANGED <<toCheck, stage, reports, qInf>>,
             \A s \in Symid : symtab[s] = "filled" => symtab'[s] = "filled",
             NextToInfer' = NextToInfer
      PROVE  ReportsInv'
  <2>1. \A s : Waits(s)' <=> Waits(s)
    BY <1>3 DEF Waits
  <2>2. ReportsInv
    BY DEF CheckInv
  <2>. QED BY <1>0, <1>3, <2>1, <2>2 DEF ReportsInv
<1>4. ASSUME ~InShell PROVE ReportsInv
  BY DEF CheckInv
<1>5. ASSUME ~InShell, CheckStep PROVE ReportsInv'
  <2>1. ASSUME NEW s \in Symid, AddStep(s) PROVE ReportsInv'
    <3>1. /\ s \notin targets /\ toCheck' = toCheck \cup {s} /\ qInf = <<>> /\ qInf' = <<>>
          /\ UNCHANGED <<symtab, reports>> /\ ToPreprocess(s)
      BY <1>0, <1>5, <2>1
      DEF AddStep, CheckFile, AddCheckFile, AddTarget, AddIsIgnored, CanCall, SessionInv
    <3>2. /\ reports[s] = 0
          /\ \A r \in Symid : stage'[r] = IF r = s THEN "Preprocess" ELSE stage[r]
      BY <1>0, <3>1, ToPreprocessQueued DEF StageInv
    <3>3. \A r : ~Waits(r) /\ ~(Waits(r)')
      BY <1>0, <2>1, <3>1
      DEF Waits, NextToInfer, AddStep, CheckFile, AddCheckFile, CanCall, control,
          TypeOK, ControlTypeOK
    <3>. QED BY <1>0, <1>4, <1>5, <3>1, <3>2, <3>3 DEF ReportsInv
  <2>2. ASSUME NEW s \in Symid, RecheckStep(s) PROVE ReportsInv'
    <3>1. /\ s \in toCheck /\ toCheck' = toCheck /\ qInf = <<>> /\ qInf' = <<>>
          /\ reports' = [reports EXCEPT ![s] = 0] /\ ToPreprocess(s)
      BY <1>0, <1>5, <2>2 DEF RecheckStep, RecheckFromBegin, CanCall, SessionInv
    <3>2. \A r \in Symid : stage'[r] = IF r = s THEN "Preprocess" ELSE stage[r]
      BY <1>0, <3>1, ToPreprocessQueued
    <3>3. \A r : ~Waits(r) /\ ~(Waits(r)')
      BY <1>0, <2>2, <3>1
      DEF Waits, NextToInfer, RecheckStep, CanCall, control, TypeOK, ControlTypeOK
    <3>. QED BY <1>0, <1>4, <1>5, <3>1, <3>2, <3>3 DEF ReportsInv
  <2>3. ASSUME NEW s \in Symid, AddNothing(s) PROVE ReportsInv'
    BY <1>3, <1>5, <2>3
    DEF AddNothing, CheckFile, AddCheckFile, NothingDone, control, managerVars, NextToInfer
  <2>9. ASSUME NEW s \in Symid, RecheckNothing(s) PROVE ReportsInv'
    BY <1>3, <1>5, <2>9
    DEF RecheckNothing, RecheckFile, Recheck, NothingDone, control, managerVars, NextToInfer
  <2>4. ASSUME CallCheck PROVE ReportsInv'
    BY <1>0, <1>3, <1>5, <2>4
    DEF CallCheck, EnterProcess, CanCall, managerVars, NextToInfer, TypeOK, ControlTypeOK
  <2>5. ASSUME InferModule PROVE ReportsInv'
    <3>. DEFINE m == qInf[it]
    <3>1. /\ UNCHANGED <<toCheck, stage, symtab, qInf>> /\ it' = it
          /\ pc = "infer" /\ pc' = "body" /\ it \in 1..Len(qInf) /\ m \in targets
          /\ reports' = [reports EXCEPT ![m] = @ + 1]
      BY <1>0, <2>5 DEF InferModule
    <3>2. m \in toCheck /\ stage[m] = "Infer"
      BY <1>4, <1>5, <3>1 DEF ReportsInv
    <3>3. NextToInfer = it /\ NextToInfer' = it + 1
      BY <3>1 DEF NextToInfer
    <3>4. \A s \in toCheck : s = m => Waits(s) /\ ~(Waits(s)')
      BY <1>0, <1>4, <1>5, <3>1, <3>3 DEF Waits, ReportsInv
    <3>5. \A s \in toCheck : s # m => (Waits(s)' <=> Waits(s))
      BY <1>0, <3>1, <3>3 DEF Waits
    <3>. HIDE DEF m
    <3>6. reports[m] = 0 /\ reports'[m] = 1 /\ \A s \in toCheck : s # m => reports'[s] = reports[s]
      BY <1>0, <1>4, <1>5, <3>1, <3>2, <3>4 DEF ReportsInv
    <3>7. \A s \in toCheck :
            /\ stage[s] = "Infer" /\ ~(Waits(s)') => reports'[s] = 1
            /\ stage[s] = "Preprocess" \/ Waits(s)' => reports'[s] = 0
      BY <1>4, <1>5, <3>2, <3>4, <3>5, <3>6 DEF ReportsInv
    <3>8. UNCHANGED <<toCheck, stage, symtab, qInf>>
      BY <3>1
    <3>. QED BY <1>1, <1>4, <1>5, <3>7, <3>8 DEF ReportsInv
  <2>6. ASSUME ModuleInferred PROVE ReportsInv'
    <3>1. NextToInfer' = NextToInfer
      BY <2>6 DEF ModuleInferred, NextToInfer
    <3>. QED BY <1>3, <1>5, <2>6, <3>1 DEF ModuleInferred, managerVars
  <2>7. ASSUME AllInferred PROVE ReportsInv'
    <3>1. /\ UNCHANGED <<toCheck, stage, reports, symtab>> /\ qInf' = <<>>
          /\ pc = "infer" /\ it > Len(qInf)
      BY <2>7 DEF AllInferred
    <3>2. \A s : ~Waits(s) /\ ~(Waits(s)')
      BY <1>0, <2>7, <3>1 DEF Waits, NextToInfer, AllInferred, LeaveCall
    <3>. QED BY <1>0, <1>4, <1>5, <3>1, <3>2 DEF ReportsInv
  <2>8. ASSUME EnterFunction PROVE ReportsInv'
    BY <1>3, <1>5, <2>8 DEF EnterFunction, NextToInfer
  <2>. QED BY <1>5, <2>1, <2>2, <2>3, <2>4, <2>5, <2>6, <2>7, <2>8, <2>9 DEF CheckStep
<1>6. ASSUME ~InShell, ProcessStep PROVE ReportsInv'
  <2>1. ASSUME DefineBlock \/ BlockDefined \/ AllDefined \/ AllDumped \/ NextBatch
        PROVE  ReportsInv'
    <3>1. NextToInfer' = NextToInfer /\ UNCHANGED <<toCheck, stage, reports, qInf, symtab>>
      BY <2>1 DEF DefineBlock, BlockDefined, AllDefined, AllDumped, NextBatch, managerVars,
         NextToInfer
    <3>. QED BY <1>3, <1>6, <3>1
  <2>2. ASSUME AddImport PROVE ReportsInv'
    <3>1. NextToInfer' = NextToInfer
      BY <2>2 DEF AddImport, NextToInfer
    <3>2. CASE UNCHANGED managerVars
      BY <1>3, <1>6, <3>1, <3>2 DEF managerVars
    <3>3. CASE AddTarget(Head(todo), FALSE)
      <4>. DEFINE s == Head(todo)
      <4>1. s \in Symid
        BY <1>0, <2>2 DEF AddImport, TypeOK, ControlTypeOK
      <4>2. s \notin targets /\ UNCHANGED <<toCheck, symtab, reports, qInf>> /\ ToPreprocess(s)
        BY <3>3 DEF AddTarget, AddIsIgnored
      <4>3. \A r \in Symid : stage'[r] = IF r = s THEN "Preprocess" ELSE stage[r]
        BY <1>0, <4>1, <4>2, ToPreprocessQueued
      <4>4. \A r : Waits(r)' <=> Waits(r)
        BY <3>1, <4>2 DEF Waits
      <4>. HIDE DEF s
      <4>. QED BY <1>0, <1>4, <1>6, <4>2, <4>3, <4>4 DEF ReportsInv
    <3>. QED BY <2>2, <3>2, <3>3 DEF AddImport
  <2>3. ASSUME DumpBlock PROVE ReportsInv'
    <3>1. NextToInfer' = NextToInfer /\ UNCHANGED <<toCheck, stage, reports, qInf>>
      BY <2>3 DEF DumpBlock, NextToInfer
    <3>2. \A s \in Symid : symtab[s] = "filled" => symtab'[s] = "filled"
      BY <1>0, <2>3 DEF DumpBlock
    <3>. QED BY <1>3, <1>6, <3>1, <3>2
  <2>4. ASSUME PromoteBlock PROVE ReportsInv'
    <3>. DEFINE b == batch[k]
    <3>1. /\ UNCHANGED <<toCheck, reports, symtab, ret, pc, it>>
          /\ pc = "promote" /\ k \in 1..Len(batch) /\ b \in Block
          /\ IF b.body = Top /\ b.symid \in toCheck
             THEN ToInfer(b.symid) ELSE UNCHANGED <<stage, qInf>>
      BY <1>0, <2>4 DEF PromoteBlock, TypeOK, ControlTypeOK
    <3>2. NextToInfer' = NextToInfer
      BY <3>1 DEF NextToInfer
    <3>3. CASE UNCHANGED <<stage, qInf>>
      BY <1>3, <1>6, <3>1, <3>2, <3>3
    <3>4. CASE b.body = Top /\ b.symid \in toCheck /\ stage[b.symid] # "Infer"
      <4>. DEFINE s == b.symid
      <4>1. InBatch(s) /\ symtab[s] = "filled" /\ s \in Symid
        BY <1>0, <3>1, <3>4 DEF InBatch, ModuleBlock, Block, PipelineInv, BatchFilled
      <4>2. NextToInfer = 1
        BY <1>0, <3>1, <3>4, <4>1 DEF StageInv, Inferring, NextToInfer
      <4>3. stage' = [stage EXCEPT ![s] = "Infer"] /\ qInf' = Append(qInf, s)
        BY <3>1, <3>4 DEF ToInfer
      <4>4. \A i \in 1..Len(qInf) : qInf[i] # s
        BY <1>4, <1>6, <3>4 DEF ReportsInv
      <4>5. s \in toCheck /\ stage[s] # "Infer" /\ reports[s] = 0
        BY <1>4, <1>6, <3>4 DEF ReportsInv
      <4>. HIDE DEF s, b
      <4>6. /\ Len(qInf') = Len(qInf) + 1 /\ qInf'[Len(qInf) + 1] = s
            /\ \A i \in 1..Len(qInf) : qInf'[i] = qInf[i]
        BY <1>0, <4>3, <4>5
      <4>7. /\ \A i \in 1..Len(qInf') : i \in 1..Len(qInf) \/ i = Len(qInf) + 1
            /\ \A i \in 1..Len(qInf) : i \in 1..Len(qInf')
            /\ Len(qInf) + 1 \in 1..Len(qInf')
        BY <1>0, <4>6
      <4>8. ASSUME NEW r \in Symid PROVE Waits(r)' <=> Waits(r) \/ r = s
        <5>1. /\ Waits(r) <=> \E i \in 1..Len(qInf) : qInf[i] = r
              /\ Waits(r)' <=> \E i \in 1..Len(qInf') : qInf'[i] = r
          BY <3>2, <4>2 DEF Waits
        <5>2. Waits(r)' => Waits(r) \/ r = s
          BY <4>6, <4>7, <5>1
        <5>3. Waits(r) => Waits(r)'
          BY <4>6, <4>7, <5>1
        <5>4. r = s => Waits(r)'
          BY <4>6, <4>7, <5>1
        <5>. QED BY <5>2, <5>3, <5>4
      <4>9. /\ \A i, j \in 1..Len(qInf') : qInf'[i] = qInf'[j] => i = j
            /\ \A i \in 1..Len(qInf') :
                 /\ qInf'[i] \in toCheck
                 /\ stage'[qInf'[i]] = "Infer"
                 /\ symtab[qInf'[i]] = "filled"
        <5>1. /\ \A i, j \in 1..Len(qInf) : qInf[i] = qInf[j] => i = j
              /\ \A i \in 1..Len(qInf) : qInf[i] \in toCheck /\ stage[qInf[i]] = "Infer"
                                         /\ symtab[qInf[i]] = "filled"
          BY <1>4, <1>6 DEF ReportsInv
        <5>2. stage'[s] = "Infer" /\ \A r \in toCheck : r # s => stage'[r] = stage[r]
          BY <1>0, <4>1, <4>3
        <5>3. \A i, j \in 1..Len(qInf') : qInf'[i] = qInf'[j] => i = j
          BY <4>4, <4>6, <4>7, <5>1
        <5>. QED BY <4>1, <4>4, <4>5, <4>6, <4>7, <5>1, <5>2, <5>3
      <4>10. \A r \in toCheck :
                 /\ stage'[r] \in {"Preprocess", "Infer"}
                 /\ stage'[r] = "Infer" /\ ~(Waits(r)') => reports[r] = 1
                 /\ stage'[r] = "Preprocess" \/ Waits(r)' => reports[r] = 0
        <5>1. \A r \in toCheck : r \in Symid /\ stage'[r] = IF r = s THEN "Infer" ELSE stage[r]
          BY <1>0, <4>3
        <5>. QED BY <1>4, <1>6, <4>5, <4>8, <5>1 DEF ReportsInv
      <4>. QED BY <3>1, <4>9, <4>10 DEF ReportsInv
    <3>. QED BY <3>1, <3>3, <3>4 DEF ToInfer
  <2>5. ASSUME ProcessReturns PROVE ReportsInv'
    <3>1. ret \in {"check", "body"}
      BY <1>0, <1>6, <2>5 DEF ProcessReturns, LeaveCall, SessionInv, TypeOK, ControlTypeOK
    <3>2. NextToInfer' = NextToInfer
      BY <2>5, <3>1 DEF ProcessReturns, NextToInfer
    <3>. QED BY <1>3, <1>6, <2>5, <3>2 DEF ProcessReturns, managerVars
  <2>. QED BY <1>6, <2>1, <2>2, <2>3, <2>4, <2>5 DEF ProcessStep
<1>7. ASSUME ~InShell, NEW s \in Symid, Edit(s) PROVE ReportsInv'
  BY <1>3, <1>7 DEF Edit, managerVars, control, NextToInfer
<1>. QED BY <1>2, <1>5, <1>6, <1>7, SessionSteps DEF ShellStep

-----------------------------------------------------------------------------
(* AskedInv *)

LEMMA AskedInvStep ==
  ASSUME CheckInv, SessionNext, raised' = "none"
  PROVE  AskedInv'
<1>0. /\ AskedInv /\ ReportsInv /\ (InShell' <=> InShell)
      /\ toCheck \subseteq targets /\ targets \subseteq Symid
      /\ asked \in [Symid -> {"no", "new", "known"}] /\ reports \in [Symid -> Nat]
  BY SameClient DEF CheckInv, PipelineInv, TypeOK, ManagerTypeOK, ControlTypeOK
<1>1. ASSUME asked' = asked, toCheck' = toCheck, targets \subseteq targets',
             ~InShell => \A s \in Symid \ toCheck : reports'[s] = reports[s] \/ reports'[s] = 0
      PROVE  AskedInv'
  BY <1>0, <1>1 DEF AskedInv
<1>2. ASSUME ShellStep PROVE AskedInv'
  BY <1>1, <1>2 DEF ShellStep, Input
<1>3. ASSUME NEW s \in Symid, Edit(s) PROVE AskedInv'
  BY <1>1, <1>3 DEF Edit, managerVars
<1>4. ASSUME CheckStep PROVE AskedInv'
  <2>0. ~InShell /\ ~(InShell')
    BY <1>0, <1>4 DEF CheckStep
  <2>1. ASSUME NEW s \in Symid, AddStep(s) PROVE AskedInv'
    <3>1. /\ s \notin targets /\ targets' = targets \cup {s} /\ toCheck' = toCheck \cup {s}
          /\ reports' = reports
          /\ asked[s] = "no" => asked' = [asked EXCEPT ![s] = "new"]
      BY <2>1 DEF AddStep, CheckFile, AddCheckFile, AddTarget, AddIsIgnored
    <3>2. asked[s] = "no"
      BY <1>0, <2>0, <3>1 DEF AskedInv
    <3>. QED BY <1>0, <2>0, <3>1, <3>2 DEF AskedInv
  <2>2. ASSUME NEW s \in Symid, AddNothing(s) PROVE AskedInv'
    <3>1. UNCHANGED <<targets, toCheck, reports>>
      BY <2>2 DEF AddNothing, NothingDone, managerVars
    <3>2. s \in targets
      BY <2>2, <3>1 DEF AddNothing, NothingDone, CheckFile, AddCheckFile, AddIsIgnored,
         AddTarget, AddFault
    <3>3. asked' = asked \/ (asked[s] = "no" /\ asked' = [asked EXCEPT ![s] = "known"])
      BY <2>2, <3>2 DEF AddNothing, CheckFile, AddCheckFile
    <3>. QED BY <1>0, <2>0, <3>1, <3>2, <3>3 DEF AskedInv
  <2>3. ASSUME NEW s \in Symid, RecheckStep(s) PROVE AskedInv'
    BY <1>0, <1>1, <2>3 DEF RecheckStep, RecheckFromBegin
  <2>4. ASSUME NEW s \in Symid, RecheckNothing(s) PROVE AskedInv'
    BY <1>1, <2>4 DEF RecheckNothing, RecheckFile, Recheck, NothingDone, managerVars
  <2>5. ASSUME CallCheck \/ AllInferred \/ EnterFunction \/ ModuleInferred PROVE AskedInv'
    BY <1>1, <2>5 DEF CallCheck, AllInferred, EnterFunction, ModuleInferred, managerVars
  <2>6. ASSUME InferModule PROVE AskedInv'
    <3>1. /\ UNCHANGED <<asked, targets, toCheck>> /\ it \in 1..Len(qInf)
          /\ reports' = [reports EXCEPT ![qInf[it]] = @ + 1]
      BY <2>6 DEF InferModule, CheckInv, PipelineInv, TypeOK, ManagerTypeOK, ControlTypeOK
    <3>2. qInf[it] \in toCheck
      BY <1>0, <2>0, <3>1 DEF ReportsInv
    <3>. QED BY <1>0, <1>1, <3>1, <3>2
  <2>. QED BY <1>4, <2>1, <2>2, <2>3, <2>4, <2>5, <2>6 DEF CheckStep
<1>5. ASSUME ProcessStep PROVE AskedInv'
  <2>1. /\ UNCHANGED <<asked, toCheck, reports>> /\ targets \subseteq targets'
    BY <1>5 DEF ProcessStep, DefineBlock, AddImport, AddTarget, BlockDefined, AllDefined,
       DumpBlock, AllDumped, PromoteBlock, NextBatch, ProcessReturns, managerVars
  <2>. QED BY <1>1, <2>1
<1>. QED BY <1>2, <1>3, <1>4, <1>5, SessionSteps

-----------------------------------------------------------------------------
(* CheckInv is inductive *)

\* A call that raises leaves nothing running.
LEMMA RaisedIdleStep ==
  ASSUME CheckInv, SessionNext
  PROVE  RaisedIdle'
<1>. USE DEF RaisedIdle
<1>0. raised = "none"
  BY DEF CheckInv, SessionInv
<1>1. Process => RaisedIdle'
  BY <1>0 DEF Process, DefineBlock, DefinedTwice, AddImport, ImportRaises, BlockDefined,
     AllDefined, ResolutionRaises, DumpBlock, MethodsRaise, AllDumped, PromoteBlock,
     NextBatch, ProcessReturns, LeaveCall
<1>2. Infer => RaisedIdle'
  BY <1>0 DEF Infer, InferModule, IteratorRaises, AllInferred, EnterFunction,
     FunctionUnknown, ModuleInferred, LeaveCall
<1>3. Client => RaisedIdle'
  BY <1>0 DEF Client, Edit, Recheck, AddCheckFile, CallPreprocess, CallInfer, CallCheck,
     CanCall, control
<1>4. ASSUME NEW t \in Inputs, Input(t) PROVE RaisedIdle'
  BY <1>4 DEF Input
<1>. QED
  BY <1>1, <1>2, <1>3, <1>4
  DEF SessionNext, ShellNext, CheckNext, CheckFile, RecheckFile, Client

LEMMA CheckInvInit ==
  ASSUME Init \/ ShellInit
  PROVE  CheckInv
<1>. USE DEF SessionInv, EnvInv, ImportsInv, StageInv, ReportsInv, AskedInv
<1>1. PipelineInv
  BY PipelineInvInit, ShellInitInv
<1>2. /\ DiskInit /\ NothingAnalysed /\ NothingRunning
      /\ \A s \in Symid \ targets : stage[s] = "Parse"
      /\ \A s \in targets \ {ShellSymid} : s \in Typeshed
      /\ \/ toCheck = {} /\ ~InShell
         \/ toCheck = {ShellSymid} /\ InShell /\ stage[ShellSymid] = "FINISH"
      /\ targets \subseteq Symid
  BY ShellAssumption, DiskAssumption DEF Init, ManagerInit, ShellInit, InShell
<1>3. SessionInv
  BY <1>2 DEF NothingAnalysed, NothingRunning
<1>4. \A s \in Symid : ~Queued(s)
  BY <1>2 DEF NothingAnalysed, Queued
<1>5. EnvInv
  BY <1>2, <1>4 DEF NothingAnalysed, NothingRunning
<1>6. ImportsInv
  BY <1>2 DEF NothingRunning
<1>7. StageInv
  BY <1>2 DEF NothingAnalysed, NothingRunning, Inferring
<1>8. ReportsInv
  BY <1>2 DEF NothingAnalysed
<1>9. AskedInv
  BY <1>2 DEF NothingAnalysed, NothingRunning
<1>. QED BY <1>1, <1>3, <1>5, <1>6, <1>7, <1>8, <1>9 DEF CheckInv

LEMMA ClientInvariantStep ==
  ASSUME ClientInvariant, [SessionNext]_vars
  PROVE  ClientInvariant'
<1>. USE DEF ClientInvariant
<1>1. CASE SessionNext
  <2>1. CheckInv
    BY <1>1 DEF SessionNext
  <2>2. PipelineInv' /\ NoException' /\ RaisedIdle'
    BY <1>1, <2>1, SessionPipeline, NothingInternal, RaisedIdleStep DEF CheckInv
  <2>3. ASSUME raised' = "none" PROVE CheckInv'
    BY <1>1, <2>1, <2>2, <2>3, SessionInvStep, EnvInvStep, ImportsInvStep, StageInvStep,
       ReportsInvStep, AskedInvStep DEF CheckInv
  <2>. QED BY <2>2, <2>3
<1>2. CASE UNCHANGED vars
  <2>1. PipelineInv' /\ NoException' /\ RaisedIdle' /\ raised' = raised
    BY <1>2, PipelineInvStep DEF NoException, RaisedIdle, vars, control
  <2>2. CheckInv => (SessionInv /\ EnvInv /\ ImportsInv /\ StageInv /\ ReportsInv
                       /\ AskedInv)'
    BY <1>2 DEF CheckInv, vars, managerVars, control, SessionInv, EnvInv, ImportsInv,
       StageInv, ReportsInv, AskedInv, InShell, Queued, InBatch, Promotable, Waits,
       NextToInfer, Inferring, TextOf
  <2>. QED BY <2>1, <2>2 DEF CheckInv
<1>. QED BY <1>1, <1>2

LEMMA ClientSafe == ClientSpec => []ClientInvariant
<1>1. Init \/ ShellInit => ClientInvariant
  <2>. SUFFICES ASSUME Init \/ ShellInit PROVE ClientInvariant
    OBVIOUS
  <2>1. CheckInv
    BY CheckInvInit
  <2>. QED BY <2>1 DEF ClientInvariant, CheckInv, SessionInv, NoException, RaisedIdle
<1>2. ClientInvariant /\ [SessionNext]_vars => ClientInvariant'
  BY ClientInvariantStep
<1>. QED BY <1>1, <1>2, PTL DEF ClientSpec

-----------------------------------------------------------------------------
(* What the sessions promise *)

\* Only a fault of the files ends a call of a client.
THEOREM NeverRaises == ClientSpec => []NoException
<1>1. ClientInvariant => NoException
  BY DEF ClientInvariant
<1>. QED BY <1>1, ClientSafe, PTL

\* Every file that was asked for is inferred exactly once since it was read,
\* unless it was a target already when a client first asked for it: that one
\* never is.
THEOREM CheckedOnce == ClientSpec => []CheckedExactlyOnce
<1>1. ClientInvariant => CheckedExactlyOnce
  <2>. SUFFICES ASSUME CheckInv, pc = "idle", qPre = <<>>, NEW s \in Symid
                PROVE  /\ asked[s] = "new" => stage[s] = "Infer" /\ reports[s] = 1
                       /\ asked[s] = "known" => reports[s] = 0
    BY DEF CheckedExactlyOnce, ClientInvariant
  <2>. USE DEF CheckInv
  <2>1. CASE InShell
    BY <2>1 DEF AskedInv
  <2>2. CASE ~InShell
    <3>1. qInf = <<>> /\ batch = <<>> /\ ret = "idle"
      BY <2>2 DEF SessionInv, PipelineInv, BatchInProcess, TypeOK, ControlTypeOK
    <3>2. ~Queued(s) /\ ~Promotable(s) /\ ~Waits(s)
      BY <3>1 DEF Queued, Promotable, Waits, NextToInfer
    <3>3. s \in toCheck => stage[s] = "Infer"
      BY <2>2, <3>2 DEF StageInv, ReportsInv
    <3>. QED BY <2>2, <3>2, <3>3 DEF ReportsInv, AskedInv
  <2>. QED BY <2>1, <2>2
<1>. QED BY <1>1, ClientSafe, PTL

\* A batch starts to be resolved only when everything it imports is at hand.
THEOREM ImportsFound == ClientSpec => []ImportsAtHand
<1>1. ClientInvariant => ImportsAtHand
  <2>. SUFFICES ASSUME ClientInvariant, pc = "dump", NEW b \in Range(batch),
                       NEW s \in Range(Imports[TextOf(b)]), IsModuleFile(s)
                PROVE  s \in env \/ symtab[s] = "filled"
    BY DEF ImportsAtHand
  <2>0. CheckInv
    BY DEF ClientInvariant, RaisedIdle
  <2>. USE <2>0 DEF CheckInv
  <2>1. PICK i \in 1..Len(batch) : b = batch[i]
    BY DEF Range, PipelineInv, TypeOK, ControlTypeOK
  <2>2. s \in targets \ {ShellSymid}
    BY <2>1, ShellAssumption DEF ImportsInv, IsModuleFile
  <2>. QED BY <2>2 DEF EnvInv, PipelineInv, TypeOK, ManagerTypeOK
<1>. QED BY <1>1, ClientSafe, PTL

\* Inference never runs on a module whose names are not those of its text.
THEOREM FilledBeforeInference == ClientSpec => []InferredFromFilled
<1>1. ClientInvariant => InferredFromFilled
  BY DEF ClientInvariant, RaisedIdle, CheckInv, SessionInv, ReportsInv, InferredFromFilled,
     PipelineInv, TypeOK, ControlTypeOK
<1>. QED BY <1>1, ClientSafe, PTL

\* A statement of the shell is through when the prompt comes back.
THEOREM StatementsAnalysed == ClientSpec => []StatementAnalysed
<1>1. ClientInvariant => StatementAnalysed
  <2>. SUFFICES ASSUME CheckInv, InShell, pc = "idle"
                PROVE  /\ env = {} /\ qPre = <<>>
                       /\ stage[ShellSymid] \in {"FINISH", "Infer"}
    BY DEF StatementAnalysed, ClientInvariant
  <2>. USE DEF CheckInv
  <2>1. env = {} /\ qPre = <<>> /\ batch = <<>> /\ ShellSymid \in toCheck
    BY DEF SessionInv, EnvInv, PipelineInv, BatchInProcess
  <2>2. ~Queued(ShellSymid) /\ ~Promotable(ShellSymid)
    BY <2>1 DEF Queued, Promotable
  <2>3. stage[ShellSymid] \in Stage
    BY ShellAssumption DEF PipelineInv, TypeOK, ManagerTypeOK
  <2>. QED BY <2>1, <2>2, <2>3 DEF StageInv, Stage
<1>. QED BY <1>1, ClientSafe, PTL

\* A module whose recheck succeeds waits for a new analysis, whatever it was
\* doing before.  (Sessions recheck only what is on check; a step of another
\* kind that has the effects of a recheck finds the module waiting already.)
LEMMA RecheckStepQueues ==
  ASSUME CheckInv, SessionNext, NEW s \in Symid,
         pc = "idle", RecheckFromBegin(s)
  PROVE  Queued(s)'
<1>. USE DEF CheckInv
<1>1. /\ TypeOK /\ s \in targets /\ ToPreprocess(s) /\ batch = <<>>
      /\ env = {} /\ symtab' = [symtab EXCEPT ![s] = "empty"]
      /\ symtab \in [Symid -> {"empty", "filled"}] /\ toCheck \subseteq targets
      /\ targets \subseteq Symid
  BY DEF RecheckFromBegin, RecheckRaises, PipelineInv, BatchInProcess, EnvInv, TypeOK,
     ManagerTypeOK
<1>2. CASE s \in toCheck
  <2>1. stage[s] = "Preprocess" => Queued(s)
    BY <1>1, <1>2 DEF StageInv, Promotable
  <2>. QED BY <1>1, <2>1, ToPreprocessQueued
<1>3. CASE s \notin toCheck
  <2>1. s # ShellSymid
    BY <1>1, <1>3 DEF SessionInv, InShell
  <2>2. symtab[s] = symtab'[s]
    <3>1. ~Process /\ ~Infer
      BY DEF Process, DefineBlock, DefinedTwice, AddImport, ImportRaises, BlockDefined,
         AllDefined, ResolutionRaises, DumpBlock, MethodsRaise, AllDumped, PromoteBlock,
         NextBatch, ProcessReturns, Infer, InferModule, IteratorRaises, AllInferred,
         EnterFunction, FunctionUnknown, ModuleInferred
    <3>2. ASSUME NEW r \in Symid, Edit(r) \/ CheckFile(r) PROVE symtab' = symtab
      BY <3>2 DEF Edit, CheckFile, AddCheckFile, AddTarget, NothingDone, managerVars
    <3>3. ASSUME NEW r \in Symid, RecheckFile(r)
          PROVE  symtab' = symtab \/ (r \in toCheck /\ symtab' = [symtab EXCEPT ![r] = "empty"])
      BY <3>3 DEF RecheckFile, Recheck, RecheckFromBegin, NothingDone, managerVars
    <3>4. ASSUME CallCheck \/ \E t \in Inputs : Input(t) PROVE symtab' = symtab
      BY <3>4 DEF CallCheck, Input, managerVars
    <3>5. \/ symtab' = symtab
          \/ \E r \in toCheck : symtab' = [symtab EXCEPT ![r] = "empty"]
      BY <3>1, <3>2, <3>3, <3>4 DEF SessionNext, ShellNext, CheckNext
    <3>. QED BY <1>1, <1>3, <3>5
  <2>3. Queued(s)
    BY <1>1, <2>1, <2>2 DEF EnvInv
  <2>. QED BY <1>1, <2>3, ToPreprocessQueued
<1>. QED BY <1>2, <1>3

\* A module on check whose recheck succeeds will be preprocessed again.
THEOREM RecheckedIsQueued == ClientSpec => RecheckQueues
<1>1. ClientInvariant /\ [SessionNext]_vars =>
        [\A s \in Symid : pc = "idle" /\ RecheckFromBegin(s) => Queued(s)']_vars
  BY RecheckStepQueues DEF ClientInvariant, SessionNext
<1>. QED BY <1>1, ClientSafe, PTL DEF ClientSpec, RecheckQueues

=============================================================================
