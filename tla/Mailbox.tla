------------------------------- MODULE Mailbox -------------------------------
(***************************************************************************)
(* How an error becomes a message that a client gets: errors wait in the   *)
(* ErrorBox of a target or, reference loops, in that of the Manager; they  *)
(* are sent when a client asks for messages, and wait in message_cache for *)
(* a client that asks for their module (pystatic/manager.py,               *)
(* error/errorbox.py, error/errorcode.py).                                 *)
(*                                                                         *)
(* A list of errors is modelled as a set: every error has its own number.  *)
(***************************************************************************)
EXTENDS Naturals, Sequences, FiniteSets

CONSTANTS
  Symid,
  PackageOf,    \* "p.__init__" -> "p": the names that end with ".__init__"
  MaxMessage,   \* bound on the number of messages
  MaxRound,     \* bound on the rechecks of a target
  MaxLoop       \* bound on the definitions that a reference loop names

ASSUME MailAssumption ==
  /\ DOMAIN PackageOf \subseteq Symid
  /\ \A s \in DOMAIN PackageOf : PackageOf[s] \in Symid
  /\ MaxMessage \in Nat /\ MaxRound \in Nat /\ MaxLoop \in Nat

VARIABLES
  targets,  \* Manager.targets
  box,      \* Target.errbox.error
  manager,  \* manager_errbox.error, as the messages its loops will send
  cache,    \* Manager.message_cache
  round,    \* how often a target has been analysed again
  count,    \* number of messages so far
  answer    \* what the call that has just returned gave to the client

vars == <<targets, box, manager, cache, round, count, answer>>

\* A message: the tag it is sent to, the module it is about and the round of
\* that module which found it.
Message == [id : 1..MaxMessage, tag : Symid, about : Symid, round : 0..MaxRound]
NewMessage(i, tag, s) == [id |-> i, tag |-> tag, about |-> s, round |-> round[s]]

TypeOK ==
  /\ targets \subseteq Symid
  /\ box \in [Symid -> SUBSET Message]
  /\ manager \subseteq Message
  /\ cache \in [Symid -> SUBSET Message]
  /\ round \in [Symid -> 0..MaxRound]
  /\ count \in 0..MaxMessage
  /\ answer \subseteq Message

Init ==
  /\ targets = {}
  /\ box = [s \in Symid |-> {}] /\ manager = {} /\ cache = box
  /\ round = [s \in Symid |-> 0]
  /\ count = 0 /\ answer = {}

AddTarget(s) ==
  /\ targets' = targets \cup {s}
  /\ answer' = {}
  /\ UNCHANGED <<box, manager, cache, round, count>>

\* ErrorBox.add_err on the box of a target.
Report(s) ==
  /\ s \in targets /\ count < MaxMessage
  /\ box' = [box EXCEPT ![s] = @ \cup {NewMessage(count + 1, s, s)}]
  /\ count' = count + 1
  /\ answer' = {}
  /\ UNCHANGED <<targets, manager, cache, round>>

\* A ReferenceLoop over definitions of the modules in list, in that order; it
\* is sent once for each of them, to what glob has for the module: the
\* glob_symid of its symbol table.
ReportLoop(list, glob) ==
  /\ \A i \in DOMAIN list : list[i] \in targets
  /\ count + Len(list) <= MaxMessage
  /\ manager' = manager \cup
       {NewMessage(count + i, glob[list[i]], list[i]) : i \in DOMAIN list}
  /\ count' = count + Len(list)
  /\ answer' = {}
  /\ UNCHANGED <<targets, box, cache, round>>

\* Mutation of Sent: a message to a module without messages starts a new list.
SentOver(new) ==
  [t \in Symid |->
     IF \E m \in new : m.tag = t /\ t \in targets
     THEN {m \in new : m.tag = t} ELSE cache[t]]

\* Mutation of Sent: a message to nobody is cached too.
SentToAnyone(new) == [t \in Symid |-> cache[t] \cup {m \in new : m.tag = t}]

\* send(): a message whose tag is not a target is dropped.  (message_cache only
\* ever has keys that are targets, and a target stays one.)
Sent(new) ==
  [t \in Symid |-> cache[t] \cup {m \in new : m.tag = t /\ t \in targets}]

\* The target whose box take_messages_by_symid(s) releases.
Owner(s) ==
  IF s \in targets THEN {s}
  ELSE IF s \in DOMAIN PackageOf THEN {PackageOf[s]} \cap targets
  ELSE {}

\* take_messages_by_symid(s).
TakeMessages(s) ==
  /\ LET sent == Sent(manager \cup UNION {box[o] : o \in Owner(s)})
     IN  answer' = sent[s] /\ cache' = [sent EXCEPT ![s] = {}]
  /\ box' = [t \in Symid |-> IF t \in Owner(s) THEN {} ELSE box[t]]
  /\ manager' = {}
  /\ UNCHANGED <<targets, round, count>>

TakeAllMessages ==
  /\ LET sent == Sent(manager \cup UNION {box[s] : s \in targets})
     IN  answer' = UNION {sent[s] : s \in Symid}
  /\ cache' = [s \in Symid |-> {}]
  /\ box' = [s \in Symid |-> IF s \in targets THEN {} ELSE box[s]]
  /\ manager' = {}
  /\ UNCHANGED <<targets, round, count>>

\* recheck of a target: Target.clear empties its errbox.
Recheck(s) ==
  /\ s \in targets /\ round[s] < MaxRound
  /\ box' = [box EXCEPT ![s] = {}]
  /\ round' = [round EXCEPT ![s] = @ + 1]
  /\ answer' = {}
  /\ UNCHANGED <<targets, manager, cache, count>>

Lists == UNION {[1..n -> Symid] : n \in 0..MaxLoop}

Next ==
  \/ \E s \in Symid : AddTarget(s) \/ Report(s) \/ TakeMessages(s) \/ Recheck(s)
  \/ \E list \in Lists, glob \in [Symid -> Symid] : ReportLoop(list, glob)
  \/ TakeAllMessages

Spec == Init /\ [][Next]_vars

-----------------------------------------------------------------------------
(* Properties *)

\* Every error is in the place that its module's messages are taken from: the
\* box and the cache of a module hold nothing that was sent to another one, no
\* error waits in both, and what is in the box is about the last text of the
\* module, a recheck having thrown away the rest.
WellFiled ==
  /\ \A s \in Symid : \A m \in box[s] \cup cache[s] : m.tag = s /\ s \in targets
  /\ \A s \in Symid : box[s] \cap cache[s] = {}
  /\ \A m \in manager \cup UNION {box[s] \cup cache[s] : s \in Symid} :
       m.id <= count
  /\ \A s \in Symid : \A m \in box[s] : m.about = s /\ m.round = round[s]

\* Each take hands over what has been reported for the module since the last
\* one, wherever it waited, and hands over nothing twice; a recheck takes back
\* what is still in the errbox of the module, and no more.
Ids(messages) == {m.id : m \in messages}
Kept == [s \in Symid |-> Ids(cache[s] \cup {m \in manager : m.tag = s})]
Own == [s \in Symid |-> Ids(box[s])]
Inbox == INSTANCE Inbox WITH
  Tag <- Symid,
  Alias <- PackageOf,
  inboxes <- targets,
  pending <- Kept,
  own <- Own,
  used <- 1..count,
  got <- Ids(answer)

InboxSpec == Inbox!Spec

\* What the docstring of recheck promises (manager.py:298): "this will flush old
\* message of that module automatically".  So what a client gets is about the
\* text that was read last.
OldMessagesFlushed == \A m \in answer : m.round = round[m.about]
=============================================================================
