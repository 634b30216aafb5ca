----------------------------- MODULE FilesProofs -----------------------------
(***************************************************************************)
(* The message side of the Manager, for every set of modules, any number   *)
(* of messages and any order of calls: messages wait where they are looked *)
(* for, and together the three places implement an inbox per module.       *)
(*                                                                         *)
(* Clients that know paths are clients of the mailbox: whatever files there*)
(* are and whatever they import, each step of Files is one of Mailbox.     *)
(* And their names are sound: where a module is found, that it is still    *)
(* found there later, and that the client gets the messages of its file.   *)
(***************************************************************************)
EXTENDS Files, NaturalsInduction, WellFoundedInduction, SequenceTheorems, TLAPS

-----------------------------------------------------------------------------
(* Mailbox *)

\* WellFiled is not inductive: a message that the manager's box releases must
\* not wait in the box of its module already.
ManagerApart == \A s \in Symid : (box[s] \cup cache[s]) \cap manager = {}

MailInv == TypeOK /\ WellFiled /\ ManagerApart

\* A message made now is one that waits nowhere.
LEMMA NewMessageIsNew ==
  ASSUME MailInv, NEW i \in 1..MaxMessage, i > count,
         NEW t \in Symid, NEW s \in Symid
  PROVE  /\ NewMessage(i, t, s) \in Message
         /\ NewMessage(i, t, s).id = i /\ NewMessage(i, t, s).tag = t
         /\ NewMessage(i, t, s).about = s /\ NewMessage(i, t, s).round = round[s]
         /\ NewMessage(i, t, s) \notin manager
         /\ \A u \in Symid : NewMessage(i, t, s) \notin box[u] \cup cache[u]
<1>. DEFINE new == NewMessage(i, t, s)
<1>1. new \in Message /\ new.id = i /\ new.tag = t /\ new.about = s /\ new.round = round[s]
  BY DEF NewMessage, Message, MailInv, TypeOK
<1>2. \A m \in manager \cup UNION {box[u] \cup cache[u] : u \in Symid} : m.id <= count
  BY DEF MailInv, WellFiled
<1>3. count \in Nat
  BY MailAssumption DEF MailInv, TypeOK
<1>4. ~ (i <= count)
  BY <1>3
<1>5. new \notin manager
  BY <1>1, <1>2, <1>4
<1>6. \A u \in Symid : new \notin box[u] \cup cache[u]
  BY <1>1, <1>2, <1>4
<1>. QED BY <1>1, <1>5, <1>6

LEMMA InitMail == Init => MailInv
<1>. SUFFICES ASSUME Init PROVE MailInv
  OBVIOUS
<1>1. TypeOK
  BY MailAssumption DEF Init, TypeOK
<1>2. \A s \in Symid : box[s] = {} /\ cache[s] = {}
  BY DEF Init
<1>3. WellFiled /\ ManagerApart
  BY <1>2 DEF Init, WellFiled, ManagerApart
<1>. QED BY <1>1, <1>3 DEF MailInv

LEMMA ReportKeeps ==
  ASSUME MailInv, NEW s \in Symid, Report(s)
  PROVE  MailInv'
<1>. DEFINE new == NewMessage(count + 1, s, s)
<1>0. count \in Nat /\ count + 1 \in 1..MaxMessage /\ count + 1 > count
  BY MailAssumption DEF MailInv, TypeOK, Report
<1>1. /\ new \in Message /\ new.id = count + 1 /\ new.tag = s
      /\ new.about = s /\ new.round = round[s] /\ new \notin manager
      /\ \A u \in Symid : new \notin box[u] \cup cache[u]
  BY <1>0, NewMessageIsNew
<1>2. /\ box' = [box EXCEPT ![s] = box[s] \cup {new}]
      /\ count' = count + 1 /\ answer' = {} /\ s \in targets
      /\ UNCHANGED <<targets, manager, cache, round>>
  BY DEF Report
<1>3. TypeOK'
  BY <1>0, <1>1, <1>2 DEF MailInv, TypeOK
<1>4. /\ box'[s] = box[s] \cup {new}
      /\ \A u \in Symid : u # s => box'[u] = box[u]
      /\ \A u \in Symid : cache'[u] = cache[u]
  BY <1>2 DEF MailInv, TypeOK
<1>5. \A u \in Symid : \A m \in box'[u] \cup cache'[u] : m.tag = u /\ u \in targets'
  BY <1>1, <1>2, <1>4 DEF MailInv, WellFiled
<1>6. \A u \in Symid : box'[u] \cap cache'[u] = {}
  BY <1>1, <1>4 DEF MailInv, WellFiled
<1>7. \A m \in manager \cup UNION {box[u] \cup cache[u] : u \in Symid} :
        m.id \in Nat /\ m.id <= count
  BY MailAssumption DEF MailInv, TypeOK, WellFiled, Message
<1>8. ASSUME NEW m \in manager' \cup UNION {box'[u] \cup cache'[u] : u \in Symid}
      PROVE  m.id <= count'
  <2>1. m = new \/ m \in manager \cup UNION {box[u] \cup cache[u] : u \in Symid}
    BY <1>2, <1>4
  <2>. QED BY <2>1, <1>0, <1>1, <1>2, <1>7
<1>9. \A u \in Symid : \A m \in box'[u] : m.about = u /\ m.round = round'[u]
  BY <1>1, <1>2, <1>4 DEF MailInv, WellFiled
<1>10. ManagerApart'
  BY <1>1, <1>2, <1>4 DEF MailInv, ManagerApart
<1>11. WellFiled'
  BY <1>5, <1>6, <1>8, <1>9 DEF WellFiled
<1>. QED BY <1>3, <1>10, <1>11 DEF MailInv

LEMMA ReportLoopKeeps ==
  ASSUME MailInv, NEW list \in Lists,
         NEW glob \in [Symid -> Symid], ReportLoop(list, glob)
  PROVE  MailInv'
<1>. DEFINE new(i) == NewMessage(count + i, glob[list[i]], list[i])
            sent == {new(i) : i \in DOMAIN list}
<1>1. PICK n \in 0..MaxLoop : list \in [1..n -> Symid]
  BY DEF Lists
<1>2. n \in Nat /\ DOMAIN list = 1..n /\ Len(list) = n
  BY <1>1, MailAssumption
<1>3. count \in Nat /\ count + n \in Nat /\ count + n <= MaxMessage
  BY <1>2, MailAssumption DEF MailInv, TypeOK, ReportLoop
<1>4. ASSUME NEW i \in DOMAIN list
      PROVE  /\ new(i) \in Message /\ new(i).id = count + i /\ new(i) \notin manager
             /\ count + i <= count + n
             /\ \A u \in Symid : new(i) \notin box[u] \cup cache[u]
  <2>1. count + i \in 1..MaxMessage /\ count + i > count /\ count + i <= count + n
    BY <1>2, <1>3, MailAssumption
  <2>2. list[i] \in Symid /\ glob[list[i]] \in Symid
    BY <1>1, <1>2, MailAssumption
  <2>. QED BY <2>1, <2>2, NewMessageIsNew
<1>5. /\ manager' = manager \cup sent
      /\ count' = count + n /\ answer' = {}
      /\ UNCHANGED <<targets, box, cache, round>>
  BY <1>2 DEF ReportLoop
<1>6. TypeOK'
  <2>1. manager' \subseteq Message
    BY <1>4, <1>5 DEF MailInv, TypeOK
  <2>. QED BY <1>3, <1>5, <2>1, MailAssumption DEF MailInv, TypeOK
<1>7. \A m \in manager \cup UNION {box[u] \cup cache[u] : u \in Symid} :
        m.id \in Nat /\ m.id <= count
  BY MailAssumption DEF MailInv, TypeOK, WellFiled, Message
<1>8. ASSUME NEW m \in manager' \cup UNION {box'[u] \cup cache'[u] : u \in Symid}
      PROVE  m.id <= count'
  <2>1. CASE m \in manager \cup UNION {box[u] \cup cache[u] : u \in Symid}
    BY <2>1, <1>2, <1>3, <1>5, <1>7
  <2>2. CASE m \in sent
    BY <2>2, <1>4, <1>5
  <2>. QED BY <2>1, <2>2, <1>5
<1>9. WellFiled'
  BY <1>5, <1>8 DEF MailInv, WellFiled
<1>10. ManagerApart'
  BY <1>4, <1>5 DEF MailInv, ManagerApart
<1>. QED BY <1>6, <1>9, <1>10 DEF MailInv

\* The cache once the manager's box and the boxes in owners are released.
Released(owners) == Sent(manager \cup UNION {box[o] : o \in owners})

\* What that adds to the cache, for owners that are targets.
LEMMA ReleasedFiles ==
  ASSUME MailInv, NEW owners \in SUBSET (Symid \cap targets)
  PROVE  /\ Released(owners) \in [Symid -> SUBSET Message]
         /\ \A t \in Symid : \A m \in Released(owners)[t] : m.tag = t /\ t \in targets
         /\ \A t \in Symid :
              Released(owners)[t] = cache[t] \cup {m \in manager : m.tag = t /\ t \in targets}
                          \cup (IF t \in owners THEN box[t] ELSE {})
<1>. DEFINE sent == Released(owners)
            new == manager \cup UNION {box[o] : o \in owners}
<1>1. new \subseteq Message
  BY DEF MailInv, TypeOK
<1>2. sent = [t \in Symid |-> cache[t] \cup {m \in new : m.tag = t /\ t \in targets}]
  BY DEF Sent, Released
<1>3. sent \in [Symid -> SUBSET Message]
  BY <1>1, <1>2 DEF MailInv, TypeOK
<1>4. \A t \in Symid : \A m \in box[t] \cup cache[t] : m.tag = t /\ t \in targets
  BY DEF MailInv, WellFiled
<1>5. \A t \in Symid : \A m \in sent[t] : m.tag = t /\ t \in targets
  BY <1>2, <1>4
<1>6. ASSUME NEW t \in Symid, NEW m
      PROVE  m \in sent[t] <=> \/ m \in cache[t]
                               \/ m \in manager /\ m.tag = t /\ t \in targets
                               \/ t \in owners /\ m \in box[t]
  <2>1. m \in sent[t] <=> m \in cache[t] \/ (m \in new /\ m.tag = t /\ t \in targets)
    BY <1>2
  <2>2. m \in new /\ m.tag = t /\ t \in targets
          => (m \in manager /\ m.tag = t /\ t \in targets) \/ (t \in owners /\ m \in box[t])
    <3>1. SUFFICES ASSUME NEW o \in owners, m \in box[o], m.tag = t
                   PROVE  t \in owners /\ m \in box[t]
      OBVIOUS
    <3>2. m.tag = o
      BY <1>4, <3>1
    <3>. QED BY <3>1, <3>2
  <2>3. t \in owners /\ m \in box[t] => m \in new /\ m.tag = t /\ t \in targets
    BY <1>4
  <2>. QED BY <2>1, <2>2, <2>3
<1>7. ASSUME NEW t \in Symid
      PROVE  sent[t] = cache[t] \cup {m \in manager : m.tag = t /\ t \in targets}
                         \cup (IF t \in owners THEN box[t] ELSE {})
  <2>1. CASE t \in owners
    BY <1>6, <2>1
  <2>2. CASE t \notin owners
    BY <1>6, <2>2
  <2>. QED BY <2>1, <2>2
<1>. QED BY <1>3, <1>5, <1>7

LEMMA OwnerIsTarget ==
  ASSUME NEW s \in Symid PROVE Owner(s) \subseteq Symid \cap targets
BY MailAssumption DEF Owner

\* The two ways to take messages have this in common.
LEMMA ReleaseKeeps ==
  ASSUME MailInv, NEW owners \in SUBSET (Symid \cap targets),
         NEW taken \in SUBSET Symid,
         cache' = [t \in Symid |-> IF t \in taken THEN {} ELSE Released(owners)[t]],
         box' = [t \in Symid |-> IF t \in owners THEN {} ELSE box[t]],
         manager' = {}, answer' \subseteq Message,
         UNCHANGED <<targets, round, count>>
  PROVE  MailInv'
<1>. DEFINE sent == Released(owners)
<1>1. /\ sent \in [Symid -> SUBSET Message]
      /\ \A t \in Symid : \A m \in sent[t] : m.tag = t /\ t \in targets
      /\ \A t \in Symid :
           sent[t] = cache[t] \cup {m \in manager : m.tag = t /\ t \in targets}
                       \cup (IF t \in owners THEN box[t] ELSE {})
  BY ReleasedFiles
<1>2. TypeOK'
  BY <1>1 DEF MailInv, TypeOK
<1>3. \A t \in Symid : cache'[t] \subseteq sent[t]
                       /\ box'[t] = IF t \in owners THEN {} ELSE box[t]
  OBVIOUS
<1>4. \A t \in Symid : \A m \in box'[t] \cup cache'[t] : m.tag = t /\ t \in targets'
  BY <1>1, <1>3 DEF MailInv, WellFiled
<1>5. ASSUME NEW t \in Symid PROVE box'[t] \cap cache'[t] = {}
  <2>1. CASE t \in owners
    BY <1>3, <2>1
  <2>2. CASE t \notin owners
    <3>1. cache'[t] \subseteq cache[t] \cup manager
      BY <1>1, <1>3, <2>2
    <3>. QED BY <1>3, <2>2, <3>1 DEF MailInv, WellFiled, ManagerApart
  <2>. QED BY <2>1, <2>2
<1>6. ASSUME NEW m \in manager' \cup UNION {box'[u] \cup cache'[u] : u \in Symid}
      PROVE  m.id <= count'
  <2>1. PICK u \in Symid : m \in box'[u] \cup cache'[u]
    OBVIOUS
  <2>2. m \in manager \cup box[u] \cup cache[u]
    BY <1>1, <1>3, <2>1
  <2>. QED BY <2>2 DEF MailInv, WellFiled
<1>7. \A t \in Symid : \A m \in box'[t] : m.about = t /\ m.round = round'[t]
  BY <1>3 DEF MailInv, WellFiled
<1>8. WellFiled'
  BY <1>4, <1>5, <1>6, <1>7 DEF WellFiled
<1>9. ManagerApart'
  BY DEF ManagerApart
<1>. QED BY <1>2, <1>8, <1>9 DEF MailInv

LEMMA AddTargetKeeps ==
  ASSUME MailInv, NEW s \in Symid, AddTarget(s)
  PROVE  MailInv'
<1>1. /\ targets' = targets \cup {s} /\ answer' = {}
      /\ UNCHANGED <<box, manager, cache, round, count>>
  BY DEF AddTarget
<1>2. TypeOK'
  BY <1>1 DEF MailInv, TypeOK
<1>3. WellFiled'
  BY <1>1 DEF MailInv, WellFiled
<1>4. ManagerApart'
  BY <1>1 DEF MailInv, ManagerApart
<1>. QED BY <1>2, <1>3, <1>4 DEF MailInv

LEMMA RecheckKeeps ==
  ASSUME MailInv, NEW s \in Symid, Recheck(s)
  PROVE  MailInv'
<1>1. /\ box' = [box EXCEPT ![s] = {}]
      /\ round[s] < MaxRound /\ round' = [round EXCEPT ![s] = round[s] + 1]
      /\ answer' = {} /\ UNCHANGED <<targets, manager, cache, count>>
  BY DEF Recheck
<1>2. round[s] + 1 \in 0..MaxRound
  BY <1>1, MailAssumption DEF MailInv, TypeOK
<1>3. TypeOK'
  BY <1>1, <1>2 DEF MailInv, TypeOK
<1>4. /\ box'[s] = {}
      /\ \A u \in Symid : u # s => box'[u] = box[u] /\ round'[u] = round[u]
  BY <1>1 DEF MailInv, TypeOK
<1>5. \A u \in Symid : box'[u] \subseteq box[u]
  BY <1>4
<1>6. WellFiled'
  BY <1>1, <1>4, <1>5 DEF MailInv, WellFiled
<1>7. ManagerApart'
  BY <1>1, <1>5 DEF MailInv, ManagerApart
<1>. QED BY <1>3, <1>6, <1>7 DEF MailInv

\* Both ways to take messages are a release, of all that the client gets.
LEMMA TakeMessagesReleases ==
  ASSUME NEW s \in Symid, TakeMessages(s)
  PROVE  /\ cache' = [t \in Symid |-> IF t \in {s} THEN {} ELSE Released(Owner(s))[t]]
         /\ box' = [t \in Symid |-> IF t \in Owner(s) THEN {} ELSE box[t]]
         /\ answer' = Released(Owner(s))[s]
         /\ manager' = {} /\ UNCHANGED <<targets, round, count>>
<1>. DEFINE sent == Released(Owner(s))
<1>1. /\ answer' = sent[s] /\ cache' = [sent EXCEPT ![s] = {}]
      /\ box' = [t \in Symid |-> IF t \in Owner(s) THEN {} ELSE box[t]]
      /\ manager' = {} /\ UNCHANGED <<targets, round, count>>
  BY DEF TakeMessages, Released
<1>2. DOMAIN sent = Symid
  BY DEF Released, Sent
<1>3. [sent EXCEPT ![s] = {}] = [t \in Symid |-> IF t \in {s} THEN {} ELSE sent[t]]
  BY <1>2
<1>. QED BY <1>1, <1>3

LEMMA TakeAllMessagesReleases ==
  ASSUME MailInv, TakeAllMessages
  PROVE  /\ cache' = [t \in Symid |-> IF t \in Symid THEN {} ELSE Released(targets)[t]]
         /\ box' = [t \in Symid |-> IF t \in targets THEN {} ELSE box[t]]
         /\ answer' = UNION {Released(targets)[t] : t \in Symid}
         /\ manager' = {} /\ UNCHANGED <<targets, round, count>>
<1>1. /\ cache' = [t \in Symid |-> {}]
      /\ box' = [t \in Symid |-> IF t \in targets THEN {} ELSE box[t]]
      /\ manager' = {} /\ UNCHANGED <<targets, round, count>>
  BY DEF TakeAllMessages
<1>2. answer' = UNION {Released(targets)[t] : t \in Symid}
  BY DEF TakeAllMessages, Released
<1>3. [t \in Symid |-> {}] = [t \in Symid |-> IF t \in Symid THEN {} ELSE Released(targets)[t]]
  OBVIOUS
<1>. QED BY <1>1, <1>2, <1>3

LEMMA NextKeeps == MailInv /\ [Next]_vars => MailInv'
<1>. SUFFICES ASSUME MailInv, [Next]_vars PROVE MailInv'
  OBVIOUS
<1>1. ASSUME NEW s \in Symid, TakeMessages(s) PROVE MailInv'
  <2>1. Owner(s) \in SUBSET (Symid \cap targets)
    BY OwnerIsTarget
  <2>2. Released(Owner(s)) \in [Symid -> SUBSET Message]
    BY <2>1, ReleasedFiles
  <2>3. answer' \subseteq Message
    BY <1>1, <2>2, TakeMessagesReleases
  <2>4. {s} \in SUBSET Symid
    OBVIOUS
  <2>. QED BY <1>1, <2>1, <2>3, <2>4, TakeMessagesReleases, ReleaseKeeps
<1>2. CASE TakeAllMessages
  <2>1. targets \in SUBSET (Symid \cap targets)
    BY DEF MailInv, TypeOK
  <2>2. Released(targets) \in [Symid -> SUBSET Message]
    BY <2>1, ReleasedFiles
  <2>3. answer' \subseteq Message
    BY <1>2, <2>2, TakeAllMessagesReleases
  <2>4. Symid \in SUBSET Symid
    OBVIOUS
  <2>. QED BY <1>2, <2>1, <2>3, <2>4, TakeAllMessagesReleases, ReleaseKeeps
<1>3. ASSUME NEW s \in Symid, AddTarget(s) PROVE MailInv'
  BY <1>3, AddTargetKeeps
<1>4. ASSUME NEW s \in Symid, Report(s) PROVE MailInv'
  BY <1>4, ReportKeeps
<1>5. ASSUME NEW s \in Symid, Recheck(s) PROVE MailInv'
  BY <1>5, RecheckKeeps
<1>6. ASSUME NEW list \in Lists,
         NEW glob \in [Symid -> Symid], ReportLoop(list, glob) PROVE MailInv'
  BY <1>6, ReportLoopKeeps
<1>7. CASE UNCHANGED vars
  BY <1>7 DEF vars, MailInv, TypeOK, WellFiled, ManagerApart, Message
<1>. QED BY <1>1, <1>2, <1>3, <1>4, <1>5, <1>6, <1>7 DEF Next

LEMMA MailInvAlways == Spec => []MailInv
<1>. QED BY InitMail, NextKeeps, PTL DEF Spec

\* No call files a message under another module than its own, in two places
\* at once, or keeps one in a box that is older than the module's text
\* (ErrorBox, Manager.message_cache).
THEOREM WellFiledAlways == Spec => [](TypeOK /\ WellFiled)
<1>1. MailInv => TypeOK /\ WellFiled
  BY DEF MailInv
<1>. QED BY <1>1, MailInvAlways, PTL
-----------------------------------------------------------------------------
(* Mailbox implements Inbox *)

\* The number of every message that waits is one of those given so far.
LEMMA WaitingUsed ==
  ASSUME MailInv, NEW t \in Symid
  PROVE  Kept[t] \subseteq 1..count /\ Own[t] \subseteq 1..count
<1>1. \A m \in box[t] \cup cache[t] \cup manager : m.id \in 1..MaxMessage /\ m.id <= count
  BY DEF MailInv, TypeOK, WellFiled, Message
<1>2. count \in Nat
  BY MailAssumption DEF MailInv, TypeOK
<1>3. Kept[t] = Ids(cache[t] \cup {m \in manager : m.tag = t}) /\ Own[t] = Ids(box[t])
  BY DEF Kept, Own
<1>. QED BY <1>1, <1>2, <1>3, MailAssumption DEF Ids

\* A report, of a loop or to the box of a module: the messages it adds are the
\* next n, and go to one tag each.
Posting(loops, errs, n) ==
  /\ loops = {} \/ errs = {}
  /\ \A t \in Symid :
       /\ Kept'[t] = Kept[t] \cup Ids({m \in loops : m.tag = t})
       /\ Own'[t] = Own[t] \cup Ids({m \in errs : m.tag = t})
  /\ \A m \in loops \cup errs : m.id > count
  /\ \A m, k \in loops \cup errs : m.id = k.id => m.tag = k.tag
  /\ \A i \in 1..n : \E m \in loops \cup errs : m.id = count + i /\ m.tag \in Symid

LEMMA PostMaps ==
  ASSUME MailInv, MailInv', NEW loops, NEW errs,
         NEW n \in Nat, count' = count + n, Posting(loops, errs, n),
         answer' = {}, UNCHANGED targets
  PROVE  Inbox!Post
<1>. USE DEF Posting
<1>0. count \in Nat /\ count' \in Nat
  BY MailAssumption DEF MailInv, TypeOK
<1>1. 1..count \subseteq 1..count'
  BY <1>0
<1>2. /\ Kept' \in [Symid -> SUBSET (1..count')]
      /\ Own' \in [Symid -> SUBSET (1..count')]
  <2>1. ASSUME NEW t \in Symid
        PROVE  Kept'[t] \subseteq 1..count' /\ Own'[t] \subseteq 1..count'
    <3>1. \A m \in box'[t] \cup cache'[t] \cup manager' :
            m.id \in 1..MaxMessage /\ m.id <= count'
      BY DEF MailInv, TypeOK, WellFiled, Message
    <3>2. /\ Kept'[t] = Ids(cache'[t] \cup {m \in manager' : m.tag = t})
          /\ Own'[t] = Ids(box'[t])
      BY DEF Kept, Own, Ids
    <3>. QED BY <1>0, <3>1, <3>2, MailAssumption DEF Ids
  <2>. QED BY <2>1 DEF Kept, Own
<1>3. ASSUME NEW t \in Symid
      PROVE  Kept'[t] \cap (1..count) = Kept[t] /\ Own'[t] \cap (1..count) = Own[t]
  <2>1. Kept[t] \subseteq 1..count /\ Own[t] \subseteq 1..count
    BY WaitingUsed
  <2>2. \A i \in Ids({m \in loops : m.tag = t}) \cup Ids({m \in errs : m.tag = t}) :
          i \notin 1..count
    BY <1>0 DEF Ids
  <2>. QED BY <2>1, <2>2
<1>4. ASSUME NEW k \in (1..count') \ (1..count)
      PROVE  \E t \in Symid : /\ k \in Kept'[t] <=> k \notin Own'[t]
                              /\ \A u \in Symid \ {t} : k \notin Kept'[u] \cup Own'[u]
  <2>1. k - count \in 1..n /\ k = count + (k - count)
    BY <1>0
  <2>2. PICK m \in loops \cup errs : m.id = k /\ m.tag \in Symid
    BY <2>1
  <2>3. k \in Kept'[m.tag] <=> k \notin Own'[m.tag]
    <3>1. k \notin Kept[m.tag] /\ k \notin Own[m.tag]
      BY <2>2, WaitingUsed
    <3>2. CASE m \in loops
      BY <2>2, <3>1, <3>2 DEF Ids
    <3>3. CASE m \in errs
      BY <2>2, <3>1, <3>3 DEF Ids
    <3>. QED BY <3>2, <3>3
  <2>4. ASSUME NEW u \in Symid \ {m.tag}, k \in Kept'[u] \cup Own'[u] PROVE FALSE
    <3>1. k \notin Kept[u] /\ k \notin Own[u]
      BY WaitingUsed
    <3>2. k \in Ids({x \in loops : x.tag = u}) \cup Ids({x \in errs : x.tag = u})
      BY <2>4, <3>1
    <3>3. PICK x \in loops \cup errs : x.tag = u /\ x.id = k
      BY <3>2 DEF Ids
    <3>. QED BY <2>2, <2>4, <3>3
  <2>. QED BY <2>2, <2>3, <2>4
<1>5. Ids(answer') = {}
  BY DEF Ids
<1>. QED BY <1>1, <1>2, <1>3, <1>4, <1>5 DEF Inbox!Post, Ids

LEMMA ReportMaps ==
  ASSUME MailInv, MailInv', NEW s \in Symid, Report(s)
  PROVE  Inbox!Post
<1>. DEFINE new == NewMessage(count + 1, s, s)
            errs == {new}
            loops == {}
<1>1. /\ box' = [box EXCEPT ![s] = box[s] \cup {new}]
      /\ count' = count + 1 /\ answer' = {}
      /\ UNCHANGED <<targets, manager, cache>>
  BY DEF Report
<1>2. new.id = count + 1 /\ new.tag = s
  BY DEF NewMessage
<1>3. box'[s] = box[s] \cup {new} /\ \A t \in Symid : t # s => box'[t] = box[t]
  BY <1>1 DEF MailInv, TypeOK
<1>4. ASSUME NEW t \in Symid
      PROVE  /\ Kept'[t] = Kept[t] \cup Ids({m \in loops : m.tag = t})
             /\ Own'[t] = Own[t] \cup Ids({m \in errs : m.tag = t})
  <2>1. Kept'[t] = Kept[t] /\ Own[t] = Ids(box[t]) /\ Own'[t] = Ids(box'[t])
    BY <1>1 DEF Kept, Own, Ids
  <2>2. box'[t] = box[t] \cup {m \in errs : m.tag = t}
    BY <1>2, <1>3
  <2>. QED BY <2>1, <2>2 DEF Ids
<1>5. count \in Nat
  BY MailAssumption DEF MailInv, TypeOK
<1>6. \A m \in loops \cup errs : m.id > count /\ m.id = count + 1 /\ m.tag = s
  BY <1>2, <1>5
<1>7. \A i \in 1..1 : \E m \in loops \cup errs : m.id = count + i /\ m.tag \in Symid
  BY <1>2
<1>9. 1 \in Nat /\ (loops = {} \/ errs = {})
  OBVIOUS
<1>. HIDE DEF errs, loops
<1>8. \A m, k \in loops \cup errs : m.id = k.id => m.tag = k.tag
  BY <1>6
<1>10. Posting(loops, errs, 1)
  BY <1>4, <1>6, <1>7, <1>8, <1>9 DEF Posting
<1>. QED BY <1>1, <1>9, <1>10, PostMaps

LEMMA ReportLoopMaps ==
  ASSUME MailInv, MailInv', NEW list \in Lists,
         NEW glob \in [Symid -> Symid], ReportLoop(list, glob)
  PROVE  Inbox!Post
<1>. DEFINE new(i) == NewMessage(count + i, glob[list[i]], list[i])
            loops == {new(i) : i \in DOMAIN list}
            errs == {}
<1>1. PICK n \in 0..MaxLoop : list \in [1..n -> Symid]
  BY DEF Lists
<1>2. n \in Nat /\ DOMAIN list = 1..n /\ Len(list) = n /\ count \in Nat
  BY <1>1, MailAssumption DEF MailInv, TypeOK
<1>3. /\ manager' = manager \cup loops
      /\ count' = count + n /\ answer' = {}
      /\ UNCHANGED <<targets, box, cache>>
  BY <1>2 DEF ReportLoop
<1>4. ASSUME NEW i \in 1..n
      PROVE  /\ new(i).id = count + i /\ count + i > count
             /\ new(i).tag = glob[list[i]] /\ new(i).tag \in Symid
  <2>1. list[i] \in Symid /\ glob[list[i]] \in Symid
    BY <1>1, MailAssumption
  <2>2. count + i > count
    BY <1>2
  <2>. QED BY <2>1, <2>2 DEF NewMessage
<1>5. ASSUME NEW t \in Symid
      PROVE  /\ Kept'[t] = Kept[t] \cup Ids({m \in loops : m.tag = t})
             /\ Own'[t] = Own[t] \cup Ids({m \in errs : m.tag = t})
  <2>1. /\ Kept[t] = Ids(cache[t] \cup {m \in manager : m.tag = t})
        /\ Kept'[t] = Ids(cache'[t] \cup {m \in manager' : m.tag = t})
    BY DEF Kept, Ids
  <2>2. Own'[t] = Own[t]
    BY <1>3 DEF Own, Ids
  <2>. HIDE DEF loops
  <2>. QED BY <1>3, <2>1, <2>2 DEF Ids
<1>6. \A m \in loops \cup errs : m.id > count
  BY <1>2, <1>4
<1>7. \A m, k \in loops \cup errs : m.id = k.id => m.tag = k.tag
  <2>1. SUFFICES ASSUME NEW i \in 1..n, NEW j \in 1..n, new(i).id = new(j).id
                 PROVE  new(i).tag = new(j).tag
    BY <1>2
  <2>2. i = j
    BY <1>2, <1>4, <2>1
  <2>. QED BY <2>2
<1>8. \A i \in 1..n : \E m \in loops \cup errs : m.id = count + i /\ m.tag \in Symid
  BY <1>2, <1>4
<1>9. loops = {} \/ errs = {}
  OBVIOUS
<1>. HIDE DEF loops, errs
<1>10. Posting(loops, errs, n)
  BY <1>5, <1>6, <1>7, <1>8, <1>9 DEF Posting
<1>. QED BY <1>2, <1>3, <1>10, PostMaps

\* A release takes from the inboxes in taken: nothing that their clients do
\* not get is lost, and nothing that they get stays.  What the modules asked
\* for have found waits in the cache from now on.
LEMMA ReleaseMaps ==
  ASSUME MailInv, NEW owners \in SUBSET (Symid \cap targets),
         NEW asked, asked \cap targets = owners,
         NEW taken \in SUBSET Symid, taken \cap targets \subseteq owners,
         cache' = [t \in Symid |-> IF t \in taken THEN {} ELSE Released(owners)[t]],
         box' = [t \in Symid |-> IF t \in owners THEN {} ELSE box[t]],
         answer' = UNION {Released(owners)[t] : t \in taken},
         manager' = {}, UNCHANGED <<targets, count>>
  PROVE  Inbox!Take(taken, asked)
<1>. DEFINE sent == Released(owners)
            waiting(t) == {m \in manager : m.tag = t}
<1>1. \A t \in Symid :
        /\ \A m \in sent[t] : m.tag = t /\ t \in targets
        /\ sent[t] = cache[t] \cup {m \in manager : m.tag = t /\ t \in targets}
                       \cup (IF t \in owners THEN box[t] ELSE {})
  BY ReleasedFiles
<1>2. ASSUME NEW t \in Symid
      PROVE  /\ Kept[t] = Ids(cache[t] \cup waiting(t)) /\ Own[t] = Ids(box[t])
             /\ Kept'[t] = Ids(cache'[t]) /\ Own'[t] = Ids(box'[t])
  <2>1. {m \in manager' : m.tag = t} = {}
    OBVIOUS
  <2>. QED BY <2>1 DEF Kept, Own, Ids
<1>3. ASSUME NEW t \in Symid \ targets PROVE sent[t] = {} /\ box[t] = {}
  BY <1>1 DEF MailInv, WellFiled
<1>4. ASSUME NEW t \in Symid \cap targets
      PROVE  sent[t] = cache[t] \cup waiting(t) \cup (IF t \in owners THEN box[t] ELSE {})
  BY <1>1
<1>5. ASSUME NEW t \in taken \cap targets PROVE Ids(sent[t]) = Kept[t] \cup Own[t]
  <2>1. sent[t] = cache[t] \cup waiting(t) \cup box[t]
    BY <1>4
  <2>. QED BY <1>2, <2>1 DEF Ids
<1>6. Ids(answer') = UNION {Kept[t] \cup Own[t] : t \in taken \cap targets}
  <2>1. \A i : i \in Ids(answer') <=> \E t \in taken : i \in Ids(sent[t])
    BY DEF Ids
  <2>2. \A t \in taken : t \notin targets => Ids(sent[t]) = {}
    BY <1>3 DEF Ids
  <2>3. \A i : i \in Ids(answer') <=> \E t \in taken \cap targets : i \in Kept[t] \cup Own[t]
    BY <1>5, <2>1, <2>2
  <2>. QED BY <2>3
<1>7. ASSUME NEW t \in Symid
      PROVE  Kept'[t] = IF t \in taken \/ t \notin targets THEN {}
                        ELSE IF t \in asked THEN Kept[t] \cup Own[t] ELSE Kept[t]
  <2>1. CASE t \notin targets
    <3>1. cache'[t] = {}
      BY <1>3, <2>1
    <3>. QED BY <1>2, <2>1, <3>1 DEF Ids
  <2>2. CASE t \in taken /\ t \in targets
    <3>1. cache'[t] = {}
      BY <2>2
    <3>. QED BY <1>2, <2>2, <3>1 DEF Ids
  <2>3. CASE t \notin taken /\ t \in targets /\ t \in asked
    <3>1. cache'[t] = cache[t] \cup waiting(t) \cup box[t]
      BY <1>4, <2>3
    <3>2. Ids(cache'[t]) = Ids(cache[t] \cup waiting(t)) \cup Ids(box[t])
      BY <3>1 DEF Ids
    <3>3. Kept'[t] = Kept[t] \cup Own[t]
      BY <1>2, <3>2
    <3>. QED BY <2>3, <3>3
  <2>4. CASE t \notin taken /\ t \in targets /\ t \notin asked
    <3>1. cache'[t] = cache[t] \cup waiting(t)
      BY <1>4, <2>4
    <3>2. Ids(cache'[t]) = Ids(cache[t] \cup waiting(t))
      BY <3>1
    <3>3. Kept'[t] = Kept[t]
      BY <1>2, <3>2
    <3>. QED BY <2>4, <3>3
  <2>. QED BY <2>1, <2>2, <2>3, <2>4
<1>8. ASSUME NEW t \in Symid PROVE Own'[t] = IF t \in asked THEN {} ELSE Own[t]
  <2>1. CASE t \in asked
    <3>1. box'[t] = {}
      BY <1>3, <2>1
    <3>. QED BY <1>2, <2>1, <3>1 DEF Ids
  <2>2. CASE t \notin asked
    <3>1. box'[t] = box[t]
      BY <2>2
    <3>. QED BY <1>2, <2>2, <3>1
  <2>. QED BY <2>1, <2>2
<1>9. /\ Kept' = [t \in Symid |->
                    IF t \in taken \/ t \notin targets THEN {}
                    ELSE IF t \in asked THEN Kept[t] \cup Own[t] ELSE Kept[t]]
      /\ Own' = [t \in Symid |-> IF t \in asked THEN {} ELSE Own[t]]
  <2>1. Kept' = [t \in Symid |-> Kept'[t]] /\ Own' = [t \in Symid |-> Own'[t]]
    BY DEF Kept, Own
  <2>. QED BY <1>7, <1>8, <2>1
<1>. QED BY <1>6, <1>9 DEF Inbox!Take, Ids

LEMMA RecheckMaps ==
  ASSUME MailInv, NEW s \in Symid, Recheck(s)
  PROVE  Inbox!Recheck(s)
<1>1. /\ box' = [box EXCEPT ![s] = {}]
      /\ answer' = {} /\ UNCHANGED <<targets, manager, cache, count>>
  BY DEF Recheck
<1>2. box'[s] = {} /\ \A t \in Symid : t # s => box'[t] = box[t]
  BY <1>1 DEF MailInv, TypeOK
<1>3. \A t \in Symid : Own[t] = Ids(box[t]) /\ Own'[t] = Ids(box'[t])
  BY DEF Own, Ids
<1>4. \A t \in Symid : Own'[t] = IF t = s THEN {} ELSE Own[t]
  BY <1>2, <1>3 DEF Ids
<1>5. Own' = [t \in Symid |-> Own'[t]] /\ Own = [t \in Symid |-> Own[t]]
  BY DEF Own
<1>6. Own' = [Own EXCEPT ![s] = {}]
  BY <1>4, <1>5
<1>7. Kept' = Kept /\ Ids(answer') = {}
  BY <1>1 DEF Kept, Ids
<1>. QED BY <1>1, <1>6, <1>7 DEF Inbox!Recheck, Ids

LEMMA StepMaps == MailInv /\ MailInv' /\ [Next]_vars => [Inbox!Next]_Inbox!vars
<1>. SUFFICES ASSUME MailInv, MailInv', [Next]_vars
              PROVE  Inbox!Next \/ UNCHANGED Inbox!vars
  OBVIOUS
<1>1. ASSUME NEW s \in Symid, AddTarget(s) PROVE Inbox!Open(s)
  BY <1>1 DEF AddTarget, Inbox!Open, Kept, Own, Ids
<1>2. ASSUME NEW s \in Symid, TakeMessages(s) PROVE Inbox!Take({s}, Inbox!AskedBy(s))
  <2>1. Owner(s) \in SUBSET (Symid \cap targets) /\ {s} \in SUBSET Symid
    BY OwnerIsTarget
  <2>2. {s} \cap targets \subseteq Owner(s)
    BY DEF Owner
  <2>3. answer' = UNION {Released(Owner(s))[t] : t \in {s}}
    BY <1>2, TakeMessagesReleases
  <2>4. Inbox!AskedBy(s) \cap targets = Owner(s)
    BY DEF Inbox!AskedBy, Owner
  <2>. QED BY <1>2, <2>1, <2>2, <2>3, <2>4, TakeMessagesReleases, ReleaseMaps
<1>3. CASE TakeAllMessages
  <2>1. targets \in SUBSET (Symid \cap targets) /\ Symid \in SUBSET Symid
    BY DEF MailInv, TypeOK
  <2>2. Symid \cap targets \subseteq targets /\ Symid \cap targets = targets
    BY DEF MailInv, TypeOK
  <2>3. Inbox!Take(Symid, Symid)
    BY <1>3, <2>1, <2>2, TakeAllMessagesReleases, ReleaseMaps
  <2>. QED BY <2>3 DEF Inbox!Next
<1>4. CASE UNCHANGED vars
  BY <1>4 DEF vars, Inbox!vars, Kept, Own, Ids
<1>. QED
  BY <1>1, <1>2, <1>3, <1>4, ReportMaps, ReportLoopMaps, RecheckMaps
  DEF Next, Inbox!Next

\* Whatever clients ask for and in whatever order, each message is handed over
\* by the next take of its module, with all the others and only then; the only
\* exception is what a module's own analysis has found, when the module is
\* rechecked before anybody asks (Manager.take_messages_by_symid,
\* take_all_messages, recheck, Reporter and the error boxes against module
\* Inbox).
THEOREM MailboxImplementsInbox == Spec => InboxSpec
<1>1. Init => Inbox!Init
  <2>1. SUFFICES ASSUME Init PROVE Inbox!Init
    OBVIOUS
  <2>2. count = 0 /\ answer = {} /\ targets = {} /\ manager = {}
        /\ \A s \in Symid : box[s] = {} /\ cache[s] = {}
    BY <2>1 DEF Init
  <2>3. Kept = [t \in Symid |-> {}] /\ Own = [t \in Symid |-> {}]
    BY <2>2 DEF Kept, Own, Ids
  <2>4. 1..count = {} /\ Ids(answer) = {}
    BY <2>2 DEF Ids
  <2>. QED BY <2>2, <2>3, <2>4 DEF Inbox!Init, Ids
<1>. QED BY <1>1, MailInvAlways, StepMaps, PTL DEF Spec, InboxSpec, Inbox!Spec

-----------------------------------------------------------------------------
(* Files *)

\* What the steps need: paths lead to names.
PathsNamed == \A p \in DOMAIN symidOf : symidOf[p] \in Symid

LEMMA PathsNamedAlways == FileSpec => []PathsNamed
<1>1. FileInit => PathsNamed
  BY DEF FileInit, PathsNamed
<1>2. PathsNamed /\ [FileNext]_fileVars => PathsNamed'
  <2>. SUFFICES ASSUME PathsNamed, [FileNext]_fileVars PROVE PathsNamed'
    OBVIOUS
  <2>1. ASSUME NEW s, NEW r, IsAdded(s, r), NewTarget(s, r) PROVE PathsNamed'
    BY <2>1 DEF IsAdded, NewTarget, PathsNamed
  <2>2. ASSUME NEW p \in Paths, AddCheckFile(p) PROVE PathsNamed'
    BY <2>1, <2>2 DEF AddCheckFile, PathsNamed
  <2>3. CASE AddImported
    BY <2>1, <2>3 DEF AddImported
  <2>4. CASE UNCHANGED symidOf
    BY <2>4 DEF PathsNamed
  <2>5. FileNext => \/ \E p \in Paths : AddCheckFile(p)
                    \/ AddImported
                    \/ UNCHANGED symidOf
    BY DEF FileNext, TakeMessagesOf, RecheckFile, Import, SkipImported, ImportRaises,
           RecheckModule, Mail, names
  <2>. QED BY <2>2, <2>3, <2>4, <2>5 DEF fileVars, names
<1>. QED BY <1>1, <1>2, PTL DEF FileSpec

LEMMA FileStepIsMail == TypeOK /\ PathsNamed /\ [FileNext]_fileVars => [Next]_vars
<1>. SUFFICES ASSUME TypeOK, PathsNamed, [FileNext]_fileVars PROVE Next \/ UNCHANGED vars
  OBVIOUS
<1>. USE DEF Next
<1>1. ASSUME NEW s, NEW r, IsAdded(s, r), NewTarget(s, r) PROVE Next
  BY <1>1 DEF IsAdded, NewTarget
\* A call that answers nothing and changes nothing is an empty loop.
<1>2. ASSUME answer' = {}, UNCHANGED <<targets, box, manager, cache, round, count>>
      PROVE  Next
  <2>. DEFINE list == [i \in 1..0 |-> i]   glob == [s \in Symid |-> s]
  <2>1. list \in Lists /\ glob \in [Symid -> Symid] /\ DOMAIN list = {} /\ Len(list) = 0
    <3>1. list \in [1..0 -> Symid] /\ DOMAIN list = {} /\ 0 \in 0..MaxLoop
      BY MailAssumption
    <3>2. list \in Lists
      BY <3>1 DEF Lists
    <3>3. Len(list) = 0
      BY <3>1
    <3>. QED BY <3>1, <3>2, <3>3
  <2>. HIDE DEF list, glob
  <2>2. count \in Nat /\ count <= MaxMessage
    BY MailAssumption DEF TypeOK
  <2>3. ReportLoop(list, glob)
    BY <1>2, <2>1, <2>2 DEF ReportLoop
  <2>. QED BY <2>1, <2>3
<1>3. ASSUME NEW p \in Paths, AddCheckFile(p) PROVE Next
  BY <1>1, <1>2, <1>3 DEF AddCheckFile
<1>4. ASSUME NEW p \in Paths, TakeMessagesOf(p) PROVE Next
  BY <1>2, <1>4 DEF TakeMessagesOf, PathsNamed
<1>5. ASSUME NEW p \in Paths, RecheckFile(p) PROVE Next
  BY <1>5 DEF RecheckFile, TypeOK
<1>6. ASSUME NEW s \in targets, NEW stmt \in Statements, Import(s, stmt) PROVE Next
  BY <1>2, <1>6 DEF Import
<1>7. CASE AddImported
  BY <1>1, <1>7 DEF AddImported
<1>8. CASE SkipImported \/ ImportRaises
  BY <1>2, <1>8 DEF SkipImported, ImportRaises
<1>9. ASSUME NEW s \in Symid, RecheckModule(s) PROVE Next
  BY <1>9 DEF RecheckModule
<1>10. CASE Mail
  BY <1>10 DEF Mail
<1>11. CASE UNCHANGED fileVars
  BY <1>11 DEF fileVars
<1>. QED BY <1>3, <1>4, <1>5, <1>6, <1>7, <1>8, <1>9, <1>10, <1>11 DEF FileNext

\* A run of Manager calls that name paths is a run of the mailbox (manager.py,
\* add_check_file, take_messages): what is proved of every message holds for
\* every file system.
THEOREM FilesAreMail == FileSpec => Spec
<1>1. FileInit => Init /\ MailInv
  BY InitMail DEF FileInit
<1>2. MailInv /\ PathsNamed /\ [FileNext]_fileVars => [Next]_vars /\ MailInv'
  BY FileStepIsMail, NextKeeps DEF MailInv
<1>. QED BY <1>1, <1>2, PathsNamedAlways, PTL DEF FileSpec, Spec

\* With paths too, every error waits where its module's messages are taken.
THEOREM FilesWellFiled == FileSpec => []WellFiled
<1>1. MailInv => WellFiled
  BY DEF MailInv
<1>. QED BY <1>1, FilesAreMail, MailInvAlways, PTL

\* With paths too, the messages of a module are handed over whole and once.
THEOREM FilesImplementInbox == FileSpec => InboxSpec
<1>. QED BY FilesAreMail, MailboxImplementsInbox, PTL

-----------------------------------------------------------------------------
(* find_module *)

\* A step of the walk that a result leads to.
WalkStep(fs, path, list, walk, i) ==
  IF i = 0 THEN Result("namespace", path, NoFile)
  ELSE IF walk[i - 1].type \in {"module", "none"} THEN Nothing
  ELSE WalkSingle(fs, list[i], walk[i - 1].dirs)

LEMMA LeastNumber ==
  ASSUME NEW T \in SUBSET Nat, T # {}
  PROVE  \E n \in T : \A m \in T : n <= m
<1>1. PICK n \in T : \A m \in T : ~(<<m, n>> \in OpToRel(<, Nat))
  BY NatLessThanWellFounded, WFMin
<1>2. \A m \in T : ~(m < n)
  BY <1>1 DEF OpToRel
<1>. QED BY <1>2

\* There is such a walk.
LEMMA WalkExists ==
  ASSUME NEW fs, NEW path, NEW list, NEW n \in Nat
  PROVE  \E walk : walk = [i \in 0..n |-> WalkStep(fs, path, list, walk, i)]
<1>. DEFINE Is(walk, k) == walk = [i \in 0..k |-> WalkStep(fs, path, list, walk, i)]
            T == {k \in Nat : ~ \E walk : Is(walk, k)}
<1>1. SUFFICES T = {}
  OBVIOUS
<1>2. SUFFICES ASSUME T # {} PROVE FALSE
  OBVIOUS
<1>3. PICK k \in T : \A m \in T : k <= m
  BY <1>2, LeastNumber
<1>4. CASE k = 0
  <2>. DEFINE walk == [i \in 0..0 |-> Result("namespace", path, NoFile)]
  <2>1. Is(walk, 0)
    BY DEF WalkStep
  <2>. QED BY <1>3, <1>4, <2>1
<1>5. CASE k # 0
  <2>1. k - 1 \in Nat /\ k - 1 \notin T
    BY <1>3, <1>5
  <2>2. PICK old : Is(old, k - 1)
    BY <2>1
  <2>. DEFINE new == [i \in 0..k |-> IF i < k THEN old[i] ELSE WalkStep(fs, path, list, old, k)]
  <2>3. ASSUME NEW i \in 0..k PROVE WalkStep(fs, path, list, new, i) = WalkStep(fs, path, list, old, i)
    <3>1. CASE i = 0
      BY <3>1 DEF WalkStep
    <3>2. CASE i # 0
      <4>1. new[i - 1] = old[i - 1]
        BY <2>1, <3>2
      <4>. HIDE DEF new
      <4>. QED BY <3>2, <4>1 DEF WalkStep
    <3>. QED BY <3>1, <3>2
  <2>4. ASSUME NEW i \in 0..k PROVE new[i] = WalkStep(fs, path, list, new, i)
    <3>1. CASE i < k
      <4>1. i \in 0..(k - 1)
        BY <2>1, <3>1
      <4>2. old[i] = WalkStep(fs, path, list, old, i)
        <5>. HIDE DEF new
        <5>. QED BY <2>2, <4>1
      <4>. QED BY <2>3, <3>1, <4>2
    <3>2. CASE i = k
      BY <2>3, <3>2
    <3>. QED BY <2>1, <3>1, <3>2
  <2>5. new = [i \in 0..k |-> new[i]]
    OBVIOUS
  <2>6. Is(new, k)
    <3>. HIDE DEF new
    <3>. QED BY <2>4, <2>5
  <2>. QED BY <1>3, <2>6
<1>. QED BY <1>4, <1>5

\* What the walk is at each name of the list.
LEMMA WalkIs ==
  ASSUME NEW fs, NEW path, NEW list \in Seq(Names)
  PROVE  \A i \in 0..Len(list) : Walk(fs, path, list)[i] = WalkStep(fs, path, list, Walk(fs, path, list), i)
<1>. DEFINE W == CHOOSE walk : walk = [i \in 0..Len(list) |-> WalkStep(fs, path, list, walk, i)]
<1>1. Walk(fs, path, list) = W
  BY DEF Walk, WalkStep
<1>2. W = [i \in 0..Len(list) |-> WalkStep(fs, path, list, W, i)]
  BY WalkExists
<1>. HIDE DEF W
<1>. QED BY <1>1, <1>2

LEMMA Extended ==
  ASSUME NEW S, NEW root \in Seq(S), NEW list \in Seq(S), NEW k \in 1..Len(list)
  PROVE  Append(root \o SubSeq(list, 1, k - 1), list[k]) = root \o SubSeq(list, 1, k)
<1>. DEFINE a == SubSeq(list, 1, k - 1)
<1>1. a \in Seq(S) /\ list[k] \in S /\ <<list[k]>> \in Seq(S)
  <2>1. \A i \in 1..(k - 1) : list[i] \in S
    BY ElementOfSeq, LenProperties
  <2>. QED BY <2>1, SubSeqProperties, ElementOfSeq
<1>2. SubSeq(list, 1, k) = a \o <<list[k]>>
  <2>1. 1 \in 1..Len(list) /\ k \in 1..Len(list)
    BY LenProperties
  <2>. QED BY <2>1, SubSeqRecursiveSecond
<1>. HIDE DEF a
<1>3. Append(root \o a, list[k]) = (root \o a) \o <<list[k]>>
  BY <1>1, ConcatProperties, AppendIsConcat
<1>4. (root \o a) \o <<list[k]>> = root \o (a \o <<list[k]>>)
  BY <1>1, ConcatAssociative
<1>. QED BY <1>2, <1>3, <1>4 DEF a

\* What a step of the walk has found lies under one of the roots.
Under(roots, list, k, r) ==
  /\ r.type \in {"module", "package", "namespace", "none"}
  /\ r.type \in {"package", "namespace"} =>
       /\ DOMAIN r.dirs \subseteq Nat
       /\ \A i \in DOMAIN r.dirs : \E root \in roots : r.dirs[i] = root \o SubSeq(list, 1, k)
  /\ r.type = "package" => k > 0 /\ 1 \in DOMAIN r.dirs
  /\ r.type = "module" =>
       k > 0 /\ \E root \in roots, e \in Ext :
                  r.file = File(root \o SubSeq(list, 1, k - 1), list[k], e)

\* The first directory that has the module or the package is taken.
LEMMA FirstTaken ==
  ASSUME NEW fs, NEW n, NEW dirs, DOMAIN dirs \subseteq Nat,
         NEW i \in DOMAIN dirs,
         (\E e \in Ext : HasFile(fs, dirs[i], n, e)) \/ HasInit(fs, Append(dirs[i], n)),
         \A j \in DOMAIN dirs :
           (\E e \in Ext : HasFile(fs, dirs[j], n, e)) \/ HasInit(fs, Append(dirs[j], n)) => i <= j
  PROVE  WalkSingle(fs, n, dirs) =
           IF \E e \in Ext : HasFile(fs, dirs[i], n, e)
           THEN Result("module", <<>>, Preferred(fs, dirs[i], n, "pyi", "py"))
           ELSE Result("package", <<Append(dirs[i], n)>>,
                       Preferred(fs, Append(dirs[i], n), InitName, "py", "pyi"))
<1>. DEFINE subs == [j \in DOMAIN dirs |-> Append(dirs[j], n)]
            plain == {j \in DOMAIN dirs : \E e \in Ext : HasFile(fs, dirs[j], n, e)}
            packages == {j \in DOMAIN dirs : HasInit(fs, subs[j])}
            all == plain \cup packages
            first == CHOOSE j \in all : \A k \in all : j <= k
<1>1. i \in all /\ (\A j \in all : i <= j) /\ all \subseteq Nat
  OBVIOUS
<1>2. first = i
  <2>. HIDE DEF all
  <2>1. first \in all /\ \A k \in all : first <= k
    BY <1>1
  <2>2. first \in Nat /\ i \in Nat /\ first <= i /\ i <= first
    BY <1>1, <2>1
  <2>. QED BY <2>2
<1>3. i \in plain <=> \E e \in Ext : HasFile(fs, dirs[i], n, e)
  OBVIOUS
<1>4. subs[i] = Append(dirs[i], n)
  OBVIOUS
<1>5. WalkSingle(fs, n, dirs) =
        IF first \in plain THEN Result("module", <<>>, Preferred(fs, dirs[first], n, "pyi", "py"))
        ELSE Result("package", <<subs[first]>>, Preferred(fs, subs[first], InitName, "py", "pyi"))
  BY <1>1 DEF WalkSingle
<1>. HIDE DEF first, subs, plain
<1>. QED BY <1>2, <1>3, <1>4, <1>5

LEMMA NothingTaken ==
  ASSUME NEW fs, NEW n, NEW dirs,
         \A j \in DOMAIN dirs :
           ~(\E e \in Ext : HasFile(fs, dirs[j], n, e)) /\ ~HasInit(fs, Append(dirs[j], n))
  PROVE  \/ WalkSingle(fs, n, dirs) = Nothing
         \/ \E N \in SUBSET DOMAIN dirs :
              WalkSingle(fs, n, dirs)
                = Result("namespace", [j \in N |-> Append(dirs[j], n)], NoFile)
<1>. DEFINE subs == [j \in DOMAIN dirs |-> Append(dirs[j], n)]
            plain == {j \in DOMAIN dirs : \E e \in Ext : HasFile(fs, dirs[j], n, e)}
            packages == {j \in DOMAIN dirs : HasInit(fs, subs[j])}
            N == {j \in DOMAIN dirs : IsDir(fs, subs[j])}
<1>1. plain \cup packages = {}
  OBVIOUS
<1>2. WalkSingle(fs, n, dirs) =
        IF N # {} THEN Result("namespace", Restrict(subs, N), NoFile) ELSE Nothing
  BY <1>1 DEF WalkSingle
<1>3. Restrict(subs, N) = [j \in N |-> Append(dirs[j], n)]
  BY DEF Restrict
<1>4. N \in SUBSET DOMAIN dirs
  OBVIOUS
<1>. HIDE DEF N, subs
<1>. QED BY <1>2, <1>3, <1>4

LEMMA StepUnder ==
  ASSUME NEW fs, NEW roots \in SUBSET Seq(Names), NEW list \in Seq(Names),
         NEW k \in 1..Len(list), NEW n, n = list[k], NEW dirs, DOMAIN dirs \subseteq Nat,
         \A i \in DOMAIN dirs : \E root \in roots : dirs[i] = root \o SubSeq(list, 1, k - 1)
  PROVE  Under(roots, list, k, WalkSingle(fs, n, dirs))
<1>. DEFINE next == WalkSingle(fs, n, dirs)
            Has(j) == (\E e \in Ext : HasFile(fs, dirs[j], n, e)) \/ HasInit(fs, Append(dirs[j], n))
            all == {j \in DOMAIN dirs : Has(j)}
<1>1. k \in Nat /\ k > 0
  BY LenProperties
<1>2. ASSUME NEW i \in DOMAIN dirs
      PROVE  \E root \in roots : Append(dirs[i], n) = root \o SubSeq(list, 1, k)
  BY Extended
<1>3. CASE all = {}
  <2>1. next = Nothing \/ \E N \in SUBSET DOMAIN dirs :
              next = Result("namespace", [j \in N |-> Append(dirs[j], n)], NoFile)
    <3>1. \A j \in DOMAIN dirs :
            ~(\E e \in Ext : HasFile(fs, dirs[j], n, e)) /\ ~HasInit(fs, Append(dirs[j], n))
      BY <1>3
    <3>. HIDE DEF all
    <3>. QED BY ONLY <3>1, NothingTaken
  <2>. HIDE DEF next
  <2>2. CASE next = Nothing
    <3>1. next.type = "none"
      BY <2>2 DEF Nothing, Result
    <3>. QED BY <3>1 DEF Under, next
  <2>3. ASSUME NEW N \in SUBSET DOMAIN dirs,
               next = Result("namespace", [j \in N |-> Append(dirs[j], n)], NoFile)
        PROVE  Under(roots, list, k, next)
    BY <1>1, <1>2, <2>3 DEF Under, Result
  <2>. QED BY <2>1, <2>2, <2>3 DEF next
<1>4. CASE all # {}
  <2>1. PICK i \in all : \A j \in all : i <= j
    BY <1>4, LeastNumber
  <2>2. i \in DOMAIN dirs /\ Has(i) /\ \A j \in DOMAIN dirs : Has(j) => i <= j
    BY <2>1
  <2>3. next = IF \E e \in Ext : HasFile(fs, dirs[i], n, e)
           THEN Result("module", <<>>, Preferred(fs, dirs[i], n, "pyi", "py"))
           ELSE Result("package", <<Append(dirs[i], n)>>,
                       Preferred(fs, Append(dirs[i], n), InitName, "py", "pyi"))
    <3>1. DOMAIN dirs \subseteq Nat
      OBVIOUS
    <3>. HIDE DEF all
    <3>. QED BY ONLY <2>2, <3>1, FirstTaken
  <2>4. PICK root \in roots : dirs[i] = root \o SubSeq(list, 1, k - 1)
    BY <2>2
  <2>5. \E e \in Ext : Preferred(fs, dirs[i], n, "pyi", "py") = File(dirs[i], n, e)
    BY DEF Preferred, Ext
  <2>6. PICK rt \in roots : Append(dirs[i], n) = rt \o SubSeq(list, 1, k)
    BY <1>2, <2>2
  <2>. HIDE DEF next
  <2>7. CASE next = Result("module", <<>>, Preferred(fs, dirs[i], n, "pyi", "py"))
    <3>1. next.type = "module" /\ next.file = Preferred(fs, dirs[i], n, "pyi", "py")
      BY <2>7 DEF Result
    <3>. QED BY <1>1, <2>4, <2>5, <3>1 DEF Under, next
  <2>8. CASE next = Result("package", <<Append(dirs[i], n)>>,
                     Preferred(fs, Append(dirs[i], n), InitName, "py", "pyi"))
    <3>1. next.type = "package" /\ next.dirs = <<Append(dirs[i], n)>>
      BY <2>8 DEF Result
    <3>2. DOMAIN next.dirs = {1} /\ next.dirs[1] = Append(dirs[i], n)
      BY <3>1
    <3>3. \A j \in DOMAIN next.dirs : next.dirs[j] = rt \o SubSeq(list, 1, k)
      BY <2>6, <3>2
    <3>4. DOMAIN next.dirs \subseteq Nat /\ 1 \in DOMAIN next.dirs
      BY <3>2
    <3>5. Under(roots, list, k, next)
      BY <1>1, <3>1, <3>3, <3>4 DEF Under
    <3>. QED BY <3>5 DEF next
  <2>. QED BY <2>3, <2>7, <2>8
<1>. QED BY <1>3, <1>4

\* Once under the roots, always under the roots.
LEMMA WalkUnder ==
  ASSUME NEW fs, NEW path, NEW list \in Seq(Names), NEW roots \in SUBSET Seq(Names),
         NEW start \in 0..Len(list), Under(roots, list, start, Walk(fs, path, list)[start])
  PROVE  \A k \in start..Len(list) : Under(roots, list, k, Walk(fs, path, list)[k])
<1>. DEFINE walk == Walk(fs, path, list)
            T == {k \in start..Len(list) : ~Under(roots, list, k, walk[k])}
<1>1. Len(list) \in Nat
  BY LenProperties
<1>2. SUFFICES ASSUME T # {} PROVE FALSE
  OBVIOUS
<1>3. PICK k \in T : \A m \in T : k <= m
  <2>1. T \in SUBSET Nat
    BY <1>1
  <2>. HIDE DEF T
  <2>. QED BY <1>2, <2>1, LeastNumber
<1>4. k # start
  BY <1>3
<1>5. k - 1 \in start..Len(list) /\ k \in 1..Len(list) /\ k - 1 \notin T
  BY <1>1, <1>3, <1>4
<1>6. Under(roots, list, k - 1, walk[k - 1])
  BY <1>5
<1>7. walk[k] = IF walk[k - 1].type \in {"module", "none"} THEN Nothing
                ELSE WalkSingle(fs, list[k], walk[k - 1].dirs)
  BY <1>1, <1>5, WalkIs DEF WalkStep
<1>. HIDE DEF walk
<1>8. CASE walk[k - 1].type \in {"module", "none"}
  <2>1. Under(roots, list, k, Nothing)
    BY DEF Under, Nothing, Result
  <2>. QED BY <1>3, <1>7, <1>8, <2>1
<1>9. CASE walk[k - 1].type \in {"package", "namespace"}
  <2>1. walk[k] = WalkSingle(fs, list[k], walk[k - 1].dirs)
    BY <1>7, <1>9
  <2>2. DOMAIN walk[k - 1].dirs \subseteq Nat
        /\ \A i \in DOMAIN walk[k - 1].dirs :
             \E root \in roots : walk[k - 1].dirs[i] = root \o SubSeq(list, 1, k - 1)
    BY <1>6, <1>9 DEF Under
  <2>3. Under(roots, list, k, walk[k])
    BY <1>5, <2>1, <2>2, StepUnder
  <2>. QED BY <1>3, <2>3
<1>. QED BY <1>6, <1>8, <1>9 DEF Under

-----------------------------------------------------------------------------
(* Where a name is found *)

LEMMA FileParts == \A d, n, e : File(d, n, e).dir = d /\ File(d, n, e).base = n
BY DEF File

LEMMA ItemsOf ==
  ASSUME NEW s \in Symid
  PROVE  /\ Items(s) \in Seq(Names) /\ Items(s) # <<>> /\ Len(Items(s)) \in Nat \ {0}
         /\ s \in Seq(Names \cup {NoName}) /\ s # <<>>
         /\ Head(s) # NoName => Items(s) = s
<1>1. Items(s) \in Seq(Names) \ {<<>>} /\ s \in Seq(Names \cup {NoName})
  BY FilesAssumption
<1>2. Len(Items(s)) \in Nat \ {0}
  BY <1>1, EmptySeq
<1>3. s # <<>>
  BY <1>1 DEF Items
<1>4. Head(s) = s[1]
  BY <1>1, <1>3
<1>. QED BY <1>1, <1>2, <1>3, <1>4 DEF Items

LEMMA FrontLast ==
  ASSUME NEW S, NEW s \in Seq(S), s # <<>>
  PROVE  /\ Front(s) \in Seq(S) /\ Len(Front(s)) = Len(s) - 1
         /\ Front(s) = SubSeq(s, 1, Len(s) - 1) /\ Last(s) = s[Len(s)] /\ Last(s) \in S
         /\ \A i \in 1..(Len(s) - 1) : Front(s)[i] = s[i]
         /\ Append(Front(s), Last(s)) = s
<1>1. Len(s) \in Nat \ {0} /\ \A i \in 1..Len(s) : s[i] \in S
  BY EmptySeq, ElementOfSeq
<1>2. Front(s) = SubSeq(s, 1, Len(s) - 1) /\ Last(s) = s[Len(s)]
  BY DEF Front, Last
<1>3. /\ Front(s) \in Seq(S) /\ Len(Front(s)) = Len(s) - 1 /\ Last(s) \in S
      /\ \A i \in 1..(Len(s) - 1) : Front(s)[i] = s[i]
  <2>. DEFINE m == Len(s) - 1
  <2>1. m \in Nat /\ m + 1 = Len(s) /\ \A i \in 1..m : s[i] \in S
    BY <1>1
  <2>. HIDE DEF m
  <2>2. /\ SubSeq(s, 1, m) \in Seq(S) /\ Len(SubSeq(s, 1, m)) = m
        /\ \A i \in 1..m : SubSeq(s, 1, m)[i] = s[i]
    BY <2>1, SubSeqProperties
  <2>3. Last(s) \in S
    BY <1>1, <1>2
  <2>. QED BY <1>2, <2>2, <2>3 DEF m
<1>4. Append(Front(s), Last(s)) = s
  <2>. DEFINE t == Append(Front(s), Last(s))
  <2>1. /\ t \in Seq(S) /\ Len(t) = Len(s)
        /\ \A i \in 1..(Len(s) - 1) : t[i] = Front(s)[i]
        /\ t[Len(s)] = Last(s)
    BY <1>1, <1>3, AppendProperties
  <2>. HIDE DEF t
  <2>2. \A i \in 1..Len(s) : t[i] = s[i]
    BY <1>1, <1>2, <1>3, <2>1
  <2>3. t = s
    BY <2>1, <2>2, SeqEqual
  <2>. QED BY <2>3 DEF t
<1>. QED BY <1>2, <1>3, <1>4

\* A file or a package that is found is called as the name ends, and lies as
\* far under its root as the name is long.
LEMMA Landing ==
  ASSUME NEW s \in Symid, NEW roots \in SUBSET Seq(Names), NEW r,
         Under(roots, Items(s), Len(Items(s)), r), r.type \in {"module", "package"}
  PROVE  \E root \in roots : /\ PathOf(r).dir = root \o Front(Items(s))
                             /\ PathOf(r).base = Last(Items(s))
<1>. DEFINE list == Items(s)   n == Len(list)
<1>1. /\ list \in Seq(Names) /\ n \in Nat \ {0} /\ list # <<>>
      /\ SubSeq(list, 1, n) = list
      /\ Front(list) = SubSeq(list, 1, n - 1) /\ Last(list) = list[n]
  BY ItemsOf, FrontLast, SubSeqFull
<1>2. Under(roots, list, n, r)
  OBVIOUS
<1>. HIDE DEF list, n
<1>3. CASE r.type = "module"
  <2>1. PICK root \in roots, e \in Ext : r.file = File(root \o SubSeq(list, 1, n - 1), list[n], e)
    BY <1>2, <1>3 DEF Under
  <2>2. PathOf(r) = r.file
    BY <1>3 DEF PathOf
  <2>. DEFINE d == root \o SubSeq(list, 1, n - 1)
  <2>3. PathOf(r) = File(d, list[n], e)
    BY <2>1, <2>2
  <2>. HIDE DEF d
  <2>4. PathOf(r).dir = d /\ PathOf(r).base = list[n]
    BY <2>3, FileParts
  <2>. QED BY <1>1, <2>4 DEF list, d
<1>4. CASE r.type = "package"
  <2>1. PICK root \in roots : r.dirs[1] = root \o SubSeq(list, 1, n)
    BY <1>2, <1>4 DEF Under
  <2>2. PathOf(r) = DirPath(root \o list)
    BY <1>1, <1>4, <2>1 DEF PathOf
  <2>. DEFINE d == root \o list
  <2>3. /\ d \in Seq(Names) /\ Len(d) = Len(root) + n /\ Len(root) \in Nat
        /\ \A i \in 1..(Len(root) + n) : d[i] = IF i <= Len(root) THEN root[i] ELSE list[i - Len(root)]
    BY <1>1, ConcatProperties, LenProperties DEF n
  <2>. HIDE DEF d
  <2>4. Last(d) = list[n]
    BY <1>1, <2>3 DEF Last
  <2>5. Front(d) = root \o Front(list)
    <3>1. d # <<>>
      BY <1>1, <2>3
    <3>2. /\ Front(d) \in Seq(Names) /\ Len(Front(d)) = Len(d) - 1
          /\ \A i \in 1..(Len(d) - 1) : Front(d)[i] = d[i]
      BY <2>3, <3>1, FrontLast
    <3>3. /\ Front(list) \in Seq(Names) /\ Len(Front(list)) = n - 1
          /\ \A i \in 1..(n - 1) : Front(list)[i] = list[i]
      BY <1>1, FrontLast DEF n
    <3>4. /\ root \o Front(list) \in Seq(Names) /\ Len(root \o Front(list)) = Len(root) + (n - 1)
          /\ \A i \in 1..(Len(root) + (n - 1)) :
               (root \o Front(list))[i] = IF i <= Len(root) THEN root[i] ELSE Front(list)[i - Len(root)]
      <4>. DEFINE t == Front(list)
      <4>1. /\ root \o t \in Seq(Names) /\ Len(root \o t) = Len(root) + Len(t)
            /\ \A i \in 1..(Len(root) + Len(t)) :
                 (root \o t)[i] = IF i <= Len(root) THEN root[i] ELSE t[i - Len(root)]
        BY <3>3, ConcatProperties
      <4>. QED BY <3>3, <4>1
    <3>5. \A i \in 1..(Len(d) - 1) : Front(d)[i] = (root \o Front(list))[i]
      BY <1>1, <2>3, <3>2, <3>3, <3>4
    <3>6. Len(Front(d)) = Len(root \o Front(list)) /\ Len(Front(d)) = Len(d) - 1
      BY <1>1, <2>3, <3>2, <3>4
    <3>7. \A i \in 1..Len(Front(d)) : Front(d)[i] = (root \o Front(list))[i]
      BY <3>5, <3>6
    <3>. QED BY <3>2, <3>4, <3>6, <3>7, SeqEqual
  <2>6. PathOf(r).dir = Front(d) /\ PathOf(r).base = Last(d)
    BY <2>2 DEF DirPath, File, d
  <2>. QED BY <1>1, <2>4, <2>5, <2>6 DEF list
<1>. QED BY <1>3, <1>4

LEMMA RootOf ==
  ASSUME NEW s \in Symid, NEW root \in Seq(Names), NEW r,
         PathOf(r).dir = root \o Front(Items(s))
  PROVE  /\ PathOf(r).dir \in Seq(Names) /\ Len(PathOf(r).dir) = Len(root) + Len(Items(s)) - 1
         /\ Depth(s, r) = Len(root) /\ SearchRoot(s, r) = root
<1>. DEFINE d == PathOf(r).dir   rest == Front(Items(s))
<1>1. rest \in Seq(Names) /\ Len(rest) = Len(Items(s)) - 1 /\ Len(rest) \in Nat /\ Len(root) \in Nat
  BY ItemsOf, FrontLast, LenProperties
<1>2. /\ d \in Seq(Names) /\ Len(d) = Len(root) + Len(rest)
      /\ \A i \in 1..Len(root) : d[i] = root[i] /\ d[i] \in Names
  <2>1. /\ root \o rest \in Seq(Names) /\ Len(root \o rest) = Len(root) + Len(rest)
        /\ \A i \in 1..(Len(root) + Len(rest)) :
             (root \o rest)[i] = IF i <= Len(root) THEN root[i] ELSE rest[i - Len(root)]
    BY <1>1, ConcatProperties
  <2>2. \A i \in 1..Len(root) : root[i] \in Names
    BY ElementOfSeq
  <2>. HIDE DEF rest
  <2>3. d = root \o rest
    BY DEF rest
  <2>. HIDE DEF d
  <2>. QED BY <1>1, <2>1, <2>2, <2>3
<1>. HIDE DEF d, rest
<1>3. Len(Items(s)) \in Nat \ {0}
  BY ItemsOf
<1>4. Len(d) - Len(Items(s)) + 1 = Len(root)
  BY <1>1, <1>2, <1>3
<1>5. SubSeq(d, 1, Len(root)) = root
  <2>1. /\ SubSeq(d, 1, Len(root)) \in Seq(Names) /\ Len(SubSeq(d, 1, Len(root))) = Len(root)
        /\ \A i \in 1..Len(root) : SubSeq(d, 1, Len(root))[i] = d[i]
    BY <1>1, <1>2, SubSeqProperties
  <2>. QED BY <1>2, <2>1, SeqEqual
<1>. QED BY <1>1, <1>2, <1>3, <1>4, <1>5 DEF d, Depth, SearchRoot

\* What find_module finds lies under an entry of the search path.
LEMMA FoundUnder ==
  ASSUME NEW fs, NEW user \in Seq(Seq(Names)), NEW s \in Symid
  PROVE  /\ SearchPath(user) \in Seq(Seq(Names))
         /\ FindModule(fs, user, s) = Walk(fs, SearchPath(user), Items(s))[Len(Items(s))]
         /\ Under({SearchPath(user)[i] : i \in DOMAIN SearchPath(user)}, Items(s), Len(Items(s)),
                  FindModule(fs, user, s))
<1>. DEFINE path == SearchPath(user)   list == Items(s)   roots == {path[i] : i \in DOMAIN path}
            walk == Walk(fs, path, list)
<1>1. path \in Seq(Seq(Names))
  BY FilesAssumption, ConcatProperties DEF SearchPath
<1>2. DOMAIN path \subseteq Nat /\ \A i \in DOMAIN path : path[i] \in Seq(Names)
  BY <1>1, LenProperties, ElementOfSeq
<1>3. roots \in SUBSET Seq(Names)
  BY <1>2
<1>4. list \in Seq(Names) /\ list # <<>> /\ Len(list) \in Nat
  BY ItemsOf
<1>5. FindModule(fs, user, s) = walk[Len(list)]
  BY <1>4 DEF FindModule
<1>. HIDE DEF path, list
<1>6. walk[0] = Result("namespace", path, NoFile)
  BY <1>4, WalkIs DEF WalkStep
<1>7. Under(roots, list, 0, walk[0])
  <2>1. \A i \in DOMAIN path : path[i] = path[i] \o SubSeq(list, 1, 0)
    <3>1. SubSeq(list, 1, 0) = <<>>
      BY SubSeqEmpty
    <3>. QED BY <1>2, <3>1, ConcatEmptySeq
  <2>. HIDE DEF walk
  <2>2. walk[0].type = "namespace" /\ walk[0].dirs = path
    BY <1>6 DEF Result
  <2>. QED BY <1>2, <2>1, <2>2 DEF Under
<1>. HIDE DEF roots
<1>8. Under(roots, list, Len(list), walk[Len(list)])
  <2>1. 0 \in 0..Len(list) /\ Len(list) \in 0..Len(list)
    BY <1>4
  <2>2. \A k \in 0..Len(list) : Under(roots, list, k, walk[k])
    BY <1>3, <1>4, <1>7, <2>1, WalkUnder
  <2>. HIDE DEF walk
  <2>. QED BY <2>1, <2>2
<1>. QED BY <1>1, <1>5, <1>8 DEF path, list, roots

\* A target's name and the place of its file.
Lands(s, r) ==
  /\ r.type \in {"module", "package"}
  /\ PathOf(r).dir \in Seq(Names) /\ Depth(s, r) >= 0
  /\ PathOf(r).dir = SearchRoot(s, r) \o Front(Items(s))
  /\ PathOf(r).base = Last(Items(s))

LEMMA FoundLands ==
  ASSUME NEW fs, NEW user \in Seq(Seq(Names)), NEW s \in Symid,
         FindModule(fs, user, s).type \in {"module", "package"}
  PROVE  Lands(s, FindModule(fs, user, s))
<1>. DEFINE r == FindModule(fs, user, s)   path == SearchPath(user)
            roots == {path[i] : i \in DOMAIN path}
<1>1. Under(roots, Items(s), Len(Items(s)), r) /\ path \in Seq(Seq(Names))
  BY FoundUnder
<1>2. roots \in SUBSET Seq(Names)
  BY <1>1, LenProperties, ElementOfSeq
<1>. HIDE DEF r, roots
<1>3. PICK root \in roots : PathOf(r).dir = root \o Front(Items(s)) /\ PathOf(r).base = Last(Items(s))
  BY <1>1, <1>2, Landing DEF r
<1>4. /\ PathOf(r).dir \in Seq(Names) /\ Depth(s, r) = Len(root) /\ SearchRoot(s, r) = root
  BY <1>2, <1>3, RootOf
<1>5. Len(root) \in Nat
  BY <1>2, <1>3, LenProperties
<1>. QED BY <1>3, <1>4, <1>5 DEF Lands, r

\* The name of a file where every directory below the root is a package, and the
\* root is none, is the one that add_check_file gives it.
LEMMA OneProperName ==
  ASSUME NEW fs, NEW s \in Symid, NEW r, Lands(s, r), Head(s) # NoName,
         ~HasFile(fs, SearchRoot(s, r), InitName, "py"),
         \A d \in Between(s, r) : HasFile(fs, d, InitName, "py")
  PROVE  SymidFor(fs, PathOf(r)) = s
<1>. DEFINE d == PathOf(r).dir   m == Depth(s, r)
            tops == {k \in 0..Len(d) : \A j \in (k + 1)..Len(d) : HasFile(fs, SubSeq(d, 1, j), InitName, "py")}
            top == CHOOSE k \in tops : \A j \in tops : k <= j
<1>1. /\ Items(s) = s /\ s \in Seq(Names) /\ s # <<>> /\ Len(s) \in Nat \ {0}
  BY ItemsOf
<1>2. d \in Seq(Names) /\ d = SearchRoot(s, r) \o Front(s) /\ PathOf(r).base = Last(s)
  BY <1>1 DEF Lands
<1>3. Len(d) \in Nat /\ m = Len(d) - Len(s) + 1 /\ m \in Nat /\ m <= Len(d)
  BY <1>1, <1>2, LenProperties DEF Depth, Lands
<1>4. m \in tops
  <2>1. ASSUME NEW j \in (m + 1)..Len(d) PROVE HasFile(fs, SubSeq(d, 1, j), InitName, "py")
    <3>1. SubSeq(d, 1, j) \in Between(s, r)
      BY DEF Between
    <3>. QED BY <3>1
  <2>. QED BY <1>3, <2>1
<1>5. \A j \in tops : m <= j
  <2>1. SUFFICES ASSUME NEW j \in tops, j < m PROVE FALSE
    BY <1>3
  <2>2. m \in (j + 1)..Len(d)
    BY <1>3, <2>1
  <2>3. HasFile(fs, SubSeq(d, 1, m), InitName, "py")
    BY <2>1, <2>2
  <2>. QED BY <2>3 DEF SearchRoot
<1>6. top = m
  <2>1. tops \subseteq Nat
    BY <1>3
  <2>. HIDE DEF tops, m
  <2>2. top \in tops /\ \A j \in tops : top <= j
    BY <1>4, <1>5
  <2>. HIDE DEF top
  <2>3. top \in Nat /\ m \in Nat /\ top <= m /\ m <= top
    BY <1>4, <1>5, <2>1, <2>2
  <2>. QED BY <2>3
<1>7. CrawlPath(fs, d) = SubSeq(d, 1, m)
  <2>1. CrawlPath(fs, d) = SubSeq(d, 1, top)
    BY DEF CrawlPath
  <2>. QED BY <1>6, <2>1
<1>8. SubSeq(d, 1, m) = SearchRoot(s, r)
  BY DEF SearchRoot
<1>. HIDE DEF d, m, tops, top
<1>9. SubSeq(d, 1, m) \in Seq(Names) /\ Len(SubSeq(d, 1, m)) = m
  <2>1. \A i \in 1..m : d[i] \in Names
    BY <1>2, <1>3, ElementOfSeq
  <2>. QED BY <1>3, <2>1, SubSeqProperties
<1>10. SubSeq(d, m + 1, Len(d)) = Front(s)
  <2>. DEFINE root == SubSeq(d, 1, m)   rest == SubSeq(d, m + 1, Len(d))
  <2>1. root \o rest = d
    <3>1. /\ 1 \in 1..(Len(d) + 1) /\ m \in (1 - 1)..Len(d) /\ Len(d) \in m..Len(d)
      BY <1>3
    <3>2. SubSeq(d, 1, m) \o SubSeq(d, m + 1, Len(d)) = SubSeq(d, 1, Len(d))
      BY <1>2, <3>1, ConcatAdjacentSubSeq
    <3>. QED BY <1>2, <3>2, SubSeqFull
  <2>2. rest \in Seq(Names)
    <3>1. \A i \in (m + 1)..Len(d) : d[i] \in Names
      BY <1>2, <1>3, ElementOfSeq
    <3>. QED BY <1>3, <3>1, SubSeqProperties
  <2>3. Front(s) \in Seq(Names)
    BY <1>1, FrontLast
  <2>4. root \o Front(s) = d /\ root \in Seq(Names)
    BY <1>2, <1>8, <1>9
  <2>. HIDE DEF root, rest
  <2>5. rest = Front(s)
    BY <2>1, <2>2, <2>3, <2>4, ConcatSimplifications
  <2>. QED BY <2>5 DEF rest
<1>11. Append(Front(s), Last(s)) = s
  BY <1>1, FrontLast
<1>12. SymidFor(fs, PathOf(r)) = Append(SubSeq(d, m + 1, Len(d)), PathOf(r).base)
  BY <1>7, <1>9 DEF SymidFor, RelPathToSymid, d
<1>. QED BY <1>2, <1>10, <1>11, <1>12

-----------------------------------------------------------------------------
(* A name that leads to a file still does when the user has another        *)
(* directory on the search path.                                           *)

\* What is found at the first name decides the rest.
LEMMA SameWalk ==
  ASSUME NEW fs, NEW p, NEW q, NEW list \in Seq(Names), list # <<>>,
         Walk(fs, p, list)[1] = Walk(fs, q, list)[1]
  PROVE  Walk(fs, p, list)[Len(list)] = Walk(fs, q, list)[Len(list)]
<1>. DEFINE v == Walk(fs, p, list)   w == Walk(fs, q, list)
            T == {k \in 1..Len(list) : v[k] # w[k]}
<1>1. Len(list) \in Nat \ {0}
  BY EmptySeq
<1>2. SUFFICES ASSUME T # {} PROVE FALSE
  BY <1>1
<1>3. PICK k \in T : \A m \in T : k <= m
  <2>1. T \in SUBSET Nat
    BY <1>1
  <2>. HIDE DEF T
  <2>. QED BY <1>2, <2>1, LeastNumber
<1>4. k - 1 \in 1..Len(list) /\ k \in 0..Len(list) /\ k # 0 /\ k - 1 \notin T
  BY <1>1, <1>3
<1>5. v[k - 1] = w[k - 1]
  BY <1>4
<1>6. /\ v[k] = WalkStep(fs, p, list, v, k)
      /\ w[k] = WalkStep(fs, q, list, w, k)
  BY <1>4, WalkIs
<1>. HIDE DEF v, w
<1>7. WalkStep(fs, p, list, v, k) = WalkStep(fs, q, list, w, k)
  BY <1>4, <1>5 DEF WalkStep
<1>. QED BY <1>3, <1>6, <1>7

LEMMA UserPathSeq ==
  ASSUME NEW user \in Seq(Seq(Names)), NEW d \in Seq(Names)
  PROVE  /\ UserPathWith(user, d) \in Seq(Seq(Names))
         /\ UserPathWith(user, d) # user => UserPathWith(user, d) = Append(user, d)
BY AppendProperties DEF UserPathWith

\* The three parts of the search path.
LEMMA PathParts ==
  ASSUME NEW user \in Seq(Seq(Names))
  PROVE  LET a == Len(ManualPath)
             b == Len(user)
             c == Len(SitePath)
             p == SearchPath(user)
         IN  /\ a \in Nat /\ b \in Nat /\ c \in Nat
             /\ DOMAIN p = 1..(a + b + c) /\ DOMAIN SitePath = 1..c
             /\ \A i \in 1..(a + b + c) :
                  p[i] = IF i <= a THEN ManualPath[i]
                         ELSE IF i <= a + b THEN user[i - a] ELSE SitePath[i - (a + b)]
<1>. DEFINE S == Seq(Names)   a == Len(ManualPath)   b == Len(user)   c == Len(SitePath)
            v == ManualPath \o user
<1>1. ManualPath \in Seq(S) /\ SitePath \in Seq(S) /\ user \in Seq(S)
  BY FilesAssumption
<1>. HIDE DEF S
<1>2. a \in Nat /\ b \in Nat /\ c \in Nat /\ DOMAIN SitePath = 1..c
  BY <1>1, LenProperties
<1>3. /\ v \in Seq(S) /\ Len(v) = a + b
      /\ \A i \in 1..(a + b) : v[i] = IF i <= a THEN ManualPath[i] ELSE user[i - a]
  BY <1>1, ConcatProperties
<1>. HIDE DEF v
<1>. DEFINE p == v \o SitePath
<1>4. /\ p \in Seq(S) /\ Len(p) = Len(v) + c
      /\ \A i \in 1..(Len(v) + c) : p[i] = IF i <= Len(v) THEN v[i] ELSE SitePath[i - Len(v)]
  <2>1. v \in Seq(S) /\ SitePath \in Seq(S)
    BY <1>1, <1>3
  <2>. QED BY ONLY <2>1, ConcatProperties
<1>5. DOMAIN p = 1..Len(p)
  BY <1>4, LenProperties
<1>. HIDE DEF p
<1>6. DOMAIN p = 1..(a + b + c)
  BY <1>3, <1>4, <1>5
<1>. HIDE DEF a, b, c
<1>7. ASSUME NEW i \in 1..(a + b + c)
      PROVE  p[i] = IF i <= a THEN ManualPath[i]
                    ELSE IF i <= a + b THEN user[i - a] ELSE SitePath[i - (a + b)]
  <2>1. i \in 1..(Len(v) + c) /\ (i <= a + b => i \in 1..(a + b)) /\ (i <= a => i <= a + b)
    BY <1>2, <1>3
  <2>2. p[i] = IF i <= a + b THEN v[i] ELSE SitePath[i - (a + b)]
    BY <1>3, <1>4, <2>1
  <2>3. i <= a + b => v[i] = IF i <= a THEN ManualPath[i] ELSE user[i - a]
    BY <1>3, <2>1
  <2>. QED BY <2>1, <2>2, <2>3
<1>8. SearchPath(user) = p
  BY DEF SearchPath, p, v
<1>. QED BY <1>2, <1>6, <1>7, <1>8 DEF a, b, c

\* The path up to the end of the user's directories is as it was.
LEMMA SameStart ==
  ASSUME NEW user \in Seq(Seq(Names)), NEW d \in Seq(Names)
  PROVE  LET m == Len(ManualPath) + Len(user)
             p == SearchPath(user)
             q == SearchPath(Append(user, d))
         IN  /\ m \in Nat
             /\ DOMAIN p = 1..(m + Len(SitePath)) /\ DOMAIN q = 1..(m + 1 + Len(SitePath))
             /\ Len(SitePath) \in Nat
             /\ \A i \in 1..m : q[i] = p[i]
             /\ \A i \in DOMAIN p : i > m =>
                  i - m \in DOMAIN SitePath /\ p[i] = SitePath[i - m]
<1>. DEFINE a == Len(ManualPath)   b == Len(user)   c == Len(SitePath)   more == Append(user, d)
            p == SearchPath(user)   q == SearchPath(more)
<1>1. /\ more \in Seq(Seq(Names)) /\ Len(more) = b + 1
      /\ \A i \in 1..b : more[i] = user[i]
  BY AppendProperties
<1>. HIDE DEF more
<1>2. /\ a \in Nat /\ b \in Nat /\ c \in Nat
      /\ DOMAIN p = 1..(a + b + c) /\ DOMAIN SitePath = 1..c
      /\ \A i \in 1..(a + b + c) :
           p[i] = IF i <= a THEN ManualPath[i]
                  ELSE IF i <= a + b THEN user[i - a] ELSE SitePath[i - (a + b)]
  BY PathParts
<1>3. /\ DOMAIN q = 1..(a + Len(more) + c)
      /\ \A i \in 1..(a + Len(more) + c) :
           q[i] = IF i <= a THEN ManualPath[i]
                  ELSE IF i <= a + Len(more) THEN more[i - a] ELSE SitePath[i - (a + Len(more))]
  BY <1>1, PathParts
<1>. HIDE DEF a, b, c, p, q
<1>4. ASSUME NEW i \in 1..(a + b) PROVE q[i] = p[i]
  <2>1. i \in 1..(a + b + c) /\ i \in 1..(a + Len(more) + c) /\ i <= a + b /\ i <= a + Len(more)
        /\ (i > a => i - a \in 1..b)
    BY <1>1, <1>2
  <2>2. p[i] = IF i <= a THEN ManualPath[i] ELSE user[i - a]
    BY <1>2, <2>1
  <2>3. q[i] = IF i <= a THEN ManualPath[i] ELSE more[i - a]
    BY <1>3, <2>1
  <2>. QED BY <1>1, <1>2, <2>1, <2>2, <2>3
<1>5. ASSUME NEW i \in DOMAIN p, i > a + b
      PROVE  i - (a + b) \in DOMAIN SitePath /\ p[i] = SitePath[i - (a + b)]
  <2>1. i \in 1..(a + b + c) /\ ~(i <= a) /\ ~(i <= a + b) /\ i - (a + b) \in 1..c
    BY <1>2, <1>5
  <2>2. p[i] = SitePath[i - (a + b)]
    BY <1>2, <2>1
  <2>. QED BY <1>2, <2>1, <2>2
<1>6. DOMAIN q = 1..(a + b + 1 + c)
  BY <1>1, <1>2, <1>3
<1>. QED BY <1>2, <1>4, <1>5, <1>6 DEF a, b, c, p, q, more

LEMMA SamePlace ==
  ASSUME NEW fs, NEW user \in Seq(Seq(Names)), NEW d \in Seq(Names), NEW s \in Symid, NEW r,
         r = FindModule(fs, user, s), r.type \in {"module", "package"},
         \A b \in Between(s, r) : HasInit(fs, b),
         \A i \in DOMAIN SitePath : SitePath[i] # SearchRoot(s, r)
  PROVE  FindModule(fs, Append(user, d), s) = r
<1>. DEFINE list == Items(s)   n == Len(list)   x == list[1]   m == Len(ManualPath) + Len(user)
            p == SearchPath(user)   q == SearchPath(Append(user, d))
            v == Walk(fs, p, list)   w == Walk(fs, q, list)
            Here(dir) == (\E e \in Ext : HasFile(fs, dir, x, e)) \/ HasInit(fs, Append(dir, x))
            Taken(dir) ==
              IF \E e \in Ext : HasFile(fs, dir, x, e)
              THEN Result("module", <<>>, Preferred(fs, dir, x, "pyi", "py"))
              ELSE Result("package", <<Append(dir, x)>>,
                          Preferred(fs, Append(dir, x), InitName, "py", "pyi"))
            roots == {p[i] : i \in DOMAIN p}
<1>1. /\ list \in Seq(Names) /\ list # <<>> /\ n \in Nat \ {0} /\ x \in Names
      /\ 1 \in 1..n /\ 1 \in 0..n
  <2>1. list \in Seq(Names) /\ list # <<>> /\ n \in Nat \ {0}
    BY ItemsOf
  <2>. QED BY <2>1, ElementOfSeq
<1>2. /\ p \in Seq(Seq(Names)) /\ r = v[n] /\ Under(roots, list, n, r)
  BY FoundUnder
<1>3. Append(user, d) \in Seq(Seq(Names))
  BY AppendProperties
<1>4. /\ FindModule(fs, Append(user, d), s) = w[n]
  BY <1>3, FoundUnder
<1>5. /\ m \in Nat /\ DOMAIN p \subseteq Nat /\ DOMAIN q \subseteq Nat
      /\ \A i \in DOMAIN p : i <= m => i \in DOMAIN q
      /\ \A i \in DOMAIN q : i <= m => i \in DOMAIN p /\ q[i] = p[i]
      /\ \A i \in DOMAIN p : i > m => \E j \in DOMAIN SitePath : p[i] = SitePath[j]
  <2>1. /\ m \in Nat
        /\ DOMAIN p = 1..(m + Len(SitePath)) /\ DOMAIN q = 1..(m + 1 + Len(SitePath))
        /\ Len(SitePath) \in Nat
        /\ \A i \in 1..m : q[i] = p[i]
        /\ \A i \in DOMAIN p : i > m => i - m \in DOMAIN SitePath /\ p[i] = SitePath[i - m]
    BY SameStart
  <2>. HIDE DEF m, p, q
  <2>2. \A i \in DOMAIN p : i <= m => i \in DOMAIN q
    BY <2>1
  <2>3. \A i \in DOMAIN q : i <= m => i \in DOMAIN p /\ q[i] = p[i]
    BY <2>1
  <2>. QED BY <2>1, <2>2, <2>3
<1>6. \A i \in DOMAIN p : p[i] \in Seq(Names)
  BY <1>2, LenProperties, ElementOfSeq
<1>7. /\ v[1] = WalkSingle(fs, x, p) /\ w[1] = WalkSingle(fs, x, q)
  <2>1. v[0] = Result("namespace", p, NoFile) /\ w[0] = Result("namespace", q, NoFile)
    <3>. HIDE DEF p, q, list
    <3>1. 0 \in 0..Len(list)
      BY <1>1 DEF n
    <3>2. v[0] = WalkStep(fs, p, list, v, 0) /\ w[0] = WalkStep(fs, q, list, w, 0)
      BY <1>1, <3>1, WalkIs
    <3>. HIDE DEF v, w
    <3>. QED BY <3>2 DEF WalkStep
  <2>2. v[1] = WalkStep(fs, p, list, v, 1) /\ w[1] = WalkStep(fs, q, list, w, 1)
    BY <1>1, WalkIs
  <2>. HIDE DEF v, w, p, q, list
  <2>. QED BY <2>1, <2>2 DEF WalkStep, Result
<1>. HIDE DEF list, n, x, m, p, q, v, w
<1>8. PICK j \in DOMAIN p : PathOf(r).dir = p[j] \o Front(list)
  <2>1. roots \in SUBSET Seq(Names)
    BY <1>6
  <2>. HIDE DEF roots
  <2>2. \E root \in roots : PathOf(r).dir = root \o Front(list)
    <3>1. Under(roots, Items(s), Len(Items(s)), r)
      BY <1>2 DEF list, n
    <3>2. s \in Symid /\ r.type \in {"module", "package"}
      OBVIOUS
    <3>3. \E root \in roots : PathOf(r).dir = root \o Front(Items(s))
      BY ONLY <2>1, <3>1, <3>2, Landing
    <3>. QED BY <3>3 DEF list
  <2>. QED BY <2>2 DEF roots
<1>9. \E i \in DOMAIN p : Here(p[i])
  <2>1. CASE n = 1
    <3>1. SUFFICES ASSUME \A i \in DOMAIN p : ~Here(p[i]) PROVE FALSE
      OBVIOUS
    <3>2. \/ WalkSingle(fs, x, p) = Nothing
          \/ \E N \in SUBSET DOMAIN p :
               WalkSingle(fs, x, p) = Result("namespace", [i \in N |-> Append(p[i], x)], NoFile)
      BY <3>1, NothingTaken
    <3>3. r.type \in {"none", "namespace"}
      BY <1>2, <1>7, <2>1, <3>2 DEF Nothing, Result
    <3>. QED BY <3>3
  <2>2. CASE n # 1
    <3>. DEFINE dir == PathOf(r).dir   root == p[j]
    <3>1. root \in Seq(Names) /\ Len(root) \in Nat
      BY <1>6, <1>8, LenProperties
    <3>2. /\ dir \in Seq(Names) /\ Len(dir) = Len(root) + n - 1 /\ Depth(s, r) = Len(root)
      BY <1>8, <3>1, RootOf DEF list, n
    <3>3. SubSeq(dir, 1, Len(root) + 1) \in Between(s, r)
      <4>1. Len(root) + 1 \in (Depth(s, r) + 1)..Len(dir)
        BY <1>1, <2>2, <3>1, <3>2
      <4>. QED BY <4>1 DEF Between
    <3>4. SubSeq(dir, 1, Len(root) + 1) = Append(root, x)
      <4>1. /\ Front(list) \in Seq(Names) /\ Len(Front(list)) = n - 1 /\ Front(list)[1] = list[1]
        <5>1. 1 \in 1..(n - 1)
          BY <1>1, <2>2
        <5>. QED BY <1>1, <5>1, FrontLast DEF n
      <4>. DEFINE rest == Front(list)
      <4>2. /\ \A i \in 1..(Len(root) + Len(rest)) :
                 (root \o rest)[i] = IF i <= Len(root) THEN root[i] ELSE rest[i - Len(root)]
        BY <3>1, <4>1, ConcatProperties
      <4>3. dir = root \o rest
        BY <1>8
      <4>. HIDE DEF root, rest, dir
      <4>4. /\ \A i \in 1..Len(root) : dir[i] = root[i] /\ dir[i] \in Names
            /\ dir[Len(root) + 1] = x
        <5>1. \A i \in 1..Len(root) : root[i] \in Names
          BY <3>1, ElementOfSeq
        <5>2. Len(rest) = n - 1 /\ rest[1] = x
          BY <4>1 DEF rest, x
        <5>3. Len(root) + 1 \in 1..(Len(root) + Len(rest)) /\ ~(Len(root) + 1 <= Len(root))
              /\ (Len(root) + 1) - Len(root) = 1
          BY <1>1, <2>2, <3>1, <5>2
        <5>4. dir[Len(root) + 1] = x
          BY <4>2, <4>3, <5>2, <5>3
        <5>5. \A i \in 1..Len(root) : i \in 1..(Len(root) + Len(rest)) /\ i <= Len(root)
          BY <1>1, <3>1, <5>2
        <5>. QED BY <4>2, <4>3, <5>1, <5>4, <5>5
      <4>. DEFINE k == Len(root) + 1   t == SubSeq(dir, 1, k)   u == Append(root, x)
      <4>5. k \in Nat /\ \A i \in 1..k : i \in 1..Len(root) \/ i = k
        <5>1. Len(root) \in Nat
          BY <3>1
        <5>. DEFINE L == Len(root)
        <5>. HIDE DEF L
        <5>2. L \in Nat /\ k = L + 1
          BY <5>1 DEF L
        <5>3. k \in Nat /\ \A i \in 1..k : i \in 1..L \/ i = k
          <6>. HIDE DEF k
          <6>. QED BY <5>2
        <5>. QED BY <5>3 DEF L
      <4>6. \A i \in 1..k : dir[i] \in Names
        BY <1>1, <4>4, <4>5
      <4>7. t \in Seq(Names) /\ Len(t) = k /\ \A i \in 1..k : t[i] = dir[i]
        <5>. HIDE DEF k
        <5>. QED BY <4>5, <4>6, SubSeqProperties
      <4>8. u \in Seq(Names) /\ Len(u) = k /\ (\A i \in 1..Len(root) : u[i] = root[i]) /\ u[k] = x
        BY <1>1, <3>1, AppendProperties
      <4>. HIDE DEF t, u
      <4>9. \A i \in 1..Len(t) : t[i] = u[i]
        <5>1. \A i \in 1..k : dir[i] = u[i]
          BY <4>4, <4>5, <4>8
        <5>. HIDE DEF k
        <5>. QED BY <4>7, <5>1
      <4>10. t = u
        <5>. HIDE DEF k
        <5>. QED BY <4>7, <4>8, <4>9, SeqEqual
      <4>. QED BY <4>10 DEF t, u
    <3>5. HasInit(fs, Append(p[j], x))
      BY <3>3, <3>4
    <3>. QED BY <1>8, <3>5
  <2>. QED BY <2>1, <2>2
<1>10. PICK i \in DOMAIN p : Here(p[i]) /\ \A k \in DOMAIN p : Here(p[k]) => i <= k
  <2>. DEFINE all == {k \in DOMAIN p : Here(p[k])}
  <2>1. all \in SUBSET Nat /\ all # {}
    BY <1>5, <1>9
  <2>2. \E k \in all : \A l \in all : k <= l
    <3>. HIDE DEF all
    <3>. QED BY <2>1, LeastNumber
  <2>. QED BY <2>2
<1>11. v[1] = Taken(p[i])
  <2>1. DOMAIN p \subseteq Nat /\ i \in DOMAIN p
        /\ Here(p[i]) /\ \A k \in DOMAIN p : Here(p[k]) => i <= k
    BY <1>5, <1>10
  <2>2. WalkSingle(fs, x, p) = Taken(p[i])
    BY ONLY <2>1, FirstTaken
  <2>. QED BY <1>7, <2>2
<1>12. Under({p[i]}, list, 1, v[1])
  <2>. DEFINE one == [k \in {i} |-> p[i]]
  <2>1. DOMAIN one = {i} /\ one[i] = p[i] /\ DOMAIN one \subseteq Nat /\ i \in Nat
    BY <1>5
  <2>. HIDE DEF one
  <2>2. WalkSingle(fs, x, one) = Taken(one[i])
    <3>1. Here(one[i]) /\ \A k \in DOMAIN one : Here(one[k]) => i <= k
      BY <1>10, <2>1
    <3>. QED BY <2>1, <3>1, FirstTaken
  <2>3. \A k \in DOMAIN one : \E root \in {p[i]} : one[k] = root \o SubSeq(list, 1, 1 - 1)
    <3>1. SubSeq(list, 1, 1 - 1) = <<>>
      BY SubSeqEmpty
    <3>2. p[i] = p[i] \o <<>>
      BY <1>6, ConcatEmptySeq
    <3>. QED BY <2>1, <3>1, <3>2
  <2>4. {p[i]} \in SUBSET Seq(Names)
    BY <1>6
  <2>5. Under({p[i]}, list, 1, WalkSingle(fs, x, one))
    BY <1>1, <2>1, <2>3, <2>4, StepUnder DEF x, n
  <2>. QED BY <1>11, <2>1, <2>2, <2>5
<1>13. SearchRoot(s, r) = p[i]
  <2>1. {p[i]} \in SUBSET Seq(Names) /\ p[i] \in Seq(Names)
    BY <1>6
  <2>2. \A k \in 1..Len(list) : Under({p[i]}, list, k, v[k])
    BY <1>1, <1>12, <2>1, WalkUnder DEF n, v
  <2>3. Under({p[i]}, list, n, r)
    <3>1. n \in 1..Len(list) /\ r = v[n]
      BY <1>1, <1>2 DEF n
    <3>. QED BY <2>2, <3>1
  <2>4. PathOf(r).dir = p[i] \o Front(list)
    BY <2>1, <2>3, Landing DEF list, n
  <2>. QED BY <2>1, <2>4, RootOf DEF list
<1>14. i <= m
  BY <1>5, <1>13
<1>15. i \in DOMAIN q /\ q[i] = p[i]
  BY <1>5, <1>14
<1>16. \A k \in DOMAIN q : Here(q[k]) => i <= k
  <2>1. SUFFICES ASSUME NEW k \in DOMAIN q, Here(q[k]), ~(i <= k) PROVE FALSE
    OBVIOUS
  <2>2. k <= m
    BY <1>5, <1>14, <2>1
  <2>. QED BY <1>5, <1>10, <2>1, <2>2
<1>17. w[1] = Taken(q[i])
  <2>1. Here(q[i])
    BY <1>10, <1>15
  <2>2. DOMAIN q \subseteq Nat /\ i \in DOMAIN q /\ \A k \in DOMAIN q : Here(q[k]) => i <= k
    BY <1>5, <1>15, <1>16
  <2>3. WalkSingle(fs, x, q) = Taken(q[i])
    BY ONLY <2>1, <2>2, FirstTaken
  <2>. QED BY <1>7, <2>3
<1>18. v[1] = w[1]
  BY <1>11, <1>15, <1>17
<1>. QED BY <1>1, <1>2, <1>4, <1>18, SameWalk DEF v, w, n

-----------------------------------------------------------------------------
(* The invariant of the files *)

\* The names of a target still lead where they did.
Stays(fs, user, s, r) ==
  \/ FindModule(fs, user, s) = r
  \/ \E b \in Between(s, r) : ~HasInit(fs, b)
  \/ \E i \in DOMAIN SitePath : SitePath[i] = SearchRoot(s, r)

\* Targets lie where their names say; a path leads to a target of that path;
\* what clients added has the name that add_check_file gives it.
FilesInv ==
  /\ disk \in Disks /\ userPath \in Seq(Seq(Names))
  /\ targets \subseteq Symid /\ DOMAIN found = Symid
  /\ \A s \in targets : Lands(s, found[s]) /\ Stays(disk, userPath, s, found[s])
  /\ \A p \in DOMAIN symidOf : symidOf[p] \in targets /\ PathOf(found[symidOf[p]]) = p
  /\ \A a \in added :
       /\ a.path \in DOMAIN symidOf /\ a.symid \in targets
       /\ PathOf(found[a.symid]) = a.path /\ a.symid = SymidFor(disk, a.path)

LEMMA InitFiles == FileInit => FilesInv
<1>. SUFFICES ASSUME FileInit PROVE FilesInv
  OBVIOUS
<1>1. <<Cwd>> \in Seq(Seq(Names))
  BY FilesAssumption
<1>. QED BY <1>1 DEF FileInit, Init, FilesInv

LEMMA PathsPlaced ==
  ASSUME NEW fs \in Disks, NEW p \in fs \cup {DirPath(f.dir) : f \in {f \in fs : f.dir # <<>>}}
  PROVE  p.dir \in Seq(Names)
<1>1. CASE p \in fs
  BY <1>1, FilesAssumption
<1>2. ASSUME NEW f \in fs, f.dir # <<>>, p = DirPath(f.dir) PROVE p.dir \in Seq(Names)
  <2>1. f.dir \in Seq(Names)
    BY FilesAssumption
  <2>2. Front(f.dir) \in Seq(Names)
    BY <1>2, <2>1, FrontLast
  <2>3. p.dir = Front(f.dir)
    BY <1>2, FileParts DEF DirPath
  <2>. QED BY <2>2, <2>3
<1>. QED BY <1>1, <1>2

LEMMA CrawlIn ==
  ASSUME NEW fs, NEW d \in Seq(Names)
  PROVE  CrawlPath(fs, d) \in Seq(Names)
<1>. DEFINE tops == {k \in 0..Len(d) : \A j \in (k + 1)..Len(d) : HasFile(fs, SubSeq(d, 1, j), InitName, "py")}
            top == CHOOSE k \in tops : \A j \in tops : k <= j
<1>1. Len(d) \in Nat
  BY LenProperties
<1>2. Len(d) \in tops /\ tops \in SUBSET Nat
  BY <1>1
<1>3. top \in tops
  <2>1. \E k \in tops : \A j \in tops : k <= j
    <3>. HIDE DEF tops
    <3>. QED BY <1>2, LeastNumber
  <2>. HIDE DEF tops
  <2>. QED BY <2>1
<1>4. CrawlPath(fs, d) = SubSeq(d, 1, top)
  BY DEF CrawlPath
<1>5. top \in 0..Len(d)
  <2>. HIDE DEF top
  <2>. QED BY <1>3
<1>. HIDE DEF top
<1>6. \A i \in 1..top : d[i] \in Names
  BY <1>1, <1>5, ElementOfSeq
<1>7. SubSeq(d, 1, top) \in Seq(Names)
  BY <1>1, <1>5, <1>6, SubSeqProperties
<1>. QED BY <1>4, <1>7

LEMMA StaysKept ==
  ASSUME NEW fs, NEW user \in Seq(Seq(Names)), NEW d \in Seq(Names), NEW s \in Symid, NEW r,
         r.type \in {"module", "package"}, Stays(fs, user, s, r)
  PROVE  Stays(fs, UserPathWith(user, d), s, r)
<1>1. CASE UserPathWith(user, d) = user
  BY <1>1
<1>2. CASE UserPathWith(user, d) # user
  <2>1. UserPathWith(user, d) = Append(user, d)
    BY <1>2, UserPathSeq
  <2>2. CASE \/ \E b \in Between(s, r) : ~HasInit(fs, b)
             \/ \E i \in DOMAIN SitePath : SitePath[i] = SearchRoot(s, r)
    BY <2>2 DEF Stays
  <2>3. CASE ~ \/ \E b \in Between(s, r) : ~HasInit(fs, b)
               \/ \E i \in DOMAIN SitePath : SitePath[i] = SearchRoot(s, r)
    <3>1. r = FindModule(fs, user, s)
      BY <2>3 DEF Stays
    <3>2. FindModule(fs, Append(user, d), s) = r
      BY <2>3, <3>1, SamePlace
    <3>. QED BY <2>1, <3>2 DEF Stays
  <2>. QED BY <2>2, <2>3
<1>. QED BY <1>1, <1>2

\* A step that makes no target.
LEMMA NoTargetKeeps ==
  ASSUME FilesInv, UNCHANGED <<disk, targets, found, symidOf, added>>,
         userPath' = userPath \/ \E d \in Seq(Names) : userPath' = UserPathWith(userPath, d)
  PROVE  FilesInv'
<1>1. userPath' \in Seq(Seq(Names))
  BY UserPathSeq DEF FilesInv
<1>2. ASSUME NEW s \in targets PROVE Stays(disk, userPath', s, found[s])
  <2>1. Lands(s, found[s]) /\ Stays(disk, userPath, s, found[s]) /\ s \in Symid
        /\ userPath \in Seq(Seq(Names))
    BY DEF FilesInv
  <2>2. found[s].type \in {"module", "package"}
    BY <2>1 DEF Lands
  <2>. QED BY <2>1, <2>2, StaysKept
<1>. QED BY <1>1, <1>2 DEF FilesInv

\* A step that makes one.
LEMMA NewTargetKeeps ==
  ASSUME FilesInv, NEW s, NEW r, disk' = disk,
         userPath' = userPath \/ \E d \in Seq(Names) : userPath' = UserPathWith(userPath, d),
         r = FindModule(disk, userPath', s), IsAdded(s, r), NewTarget(s, r),
         \/ added' = added
         \/ /\ added' = added \cup {[path |-> PathOf(r), symid |-> s]}
            /\ s = SymidFor(disk, PathOf(r))
  PROVE  FilesInv'
<1>1. /\ userPath \in Seq(Seq(Names)) /\ disk \in Disks /\ targets \subseteq Symid
      /\ DOMAIN found = Symid
  BY DEF FilesInv
<1>2. userPath' \in Seq(Seq(Names))
  BY <1>1, UserPathSeq
<1>3. /\ s \in Symid /\ s \notin targets /\ r.type \in {"module", "package"}
      /\ targets' = targets \cup {s}
      /\ found' = [found EXCEPT ![s] = r]
      /\ DOMAIN symidOf' = {PathOf(r)} \cup DOMAIN symidOf
      /\ \A p \in DOMAIN symidOf' : symidOf'[p] = IF p = PathOf(r) THEN s ELSE symidOf[p]
  BY DEF IsAdded, NewTarget, AddTarget
<1>4. found'[s] = r /\ DOMAIN found' = Symid /\ \A t \in targets : t # s /\ found'[t] = found[t]
  BY <1>1, <1>3
<1>5. ASSUME NEW t \in targets' PROVE Lands(t, found'[t]) /\ Stays(disk', userPath', t, found'[t])
  <2>1. CASE t = s
    <3>1. Lands(s, r)
      BY <1>2, <1>3, FoundLands
    <3>2. Stays(disk', userPath', s, r)
      BY DEF Stays
    <3>. QED BY <1>4, <2>1, <3>1, <3>2
  <2>2. CASE t \in targets
    <3>1. Lands(t, found[t]) /\ Stays(disk, userPath, t, found[t]) /\ t \in Symid
      BY <1>1, <2>2 DEF FilesInv
    <3>2. found[t].type \in {"module", "package"}
      BY <3>1 DEF Lands
    <3>3. Stays(disk, userPath', t, found[t])
      BY <1>1, <3>1, <3>2, StaysKept
    <3>. QED BY <1>4, <2>2, <3>1, <3>3
  <2>. QED BY <1>3, <2>1, <2>2
<1>6. ASSUME NEW p \in DOMAIN symidOf'
      PROVE  symidOf'[p] \in targets' /\ PathOf(found'[symidOf'[p]]) = p
  <2>1. CASE p = PathOf(r)
    BY <1>3, <1>4, <2>1
  <2>2. CASE p # PathOf(r)
    <3>1. p \in DOMAIN symidOf /\ symidOf'[p] = symidOf[p]
      BY <1>3, <2>2
    <3>2. symidOf[p] \in targets /\ PathOf(found[symidOf[p]]) = p
      BY <3>1 DEF FilesInv
    <3>. QED BY <1>3, <1>4, <3>1, <3>2
  <2>. QED BY <2>1, <2>2
<1>7. ASSUME NEW a \in added'
      PROVE  /\ a.path \in DOMAIN symidOf' /\ a.symid \in targets'
             /\ PathOf(found'[a.symid]) = a.path /\ a.symid = SymidFor(disk', a.path)
  <2>1. CASE a \in added
    <3>1. /\ a.path \in DOMAIN symidOf /\ a.symid \in targets
          /\ PathOf(found[a.symid]) = a.path /\ a.symid = SymidFor(disk, a.path)
      BY <2>1 DEF FilesInv
    <3>. QED BY <1>3, <1>4, <3>1
  <2>2. CASE a = [path |-> PathOf(r), symid |-> s] /\ s = SymidFor(disk, PathOf(r))
    BY <1>3, <1>4, <2>2
  <2>. QED BY <2>1, <2>2
<1>. QED BY <1>1, <1>2, <1>3, <1>4, <1>5, <1>6, <1>7 DEF FilesInv

LEMMA FilesInvNext == FilesInv /\ [FileNext]_fileVars => FilesInv'
<1>. SUFFICES ASSUME FilesInv, [FileNext]_fileVars PROVE FilesInv'
  OBVIOUS
<1>1. ASSUME NEW p \in Paths PROVE CrawlPath(disk, p.dir) \in Seq(Names)
  <2>1. disk \in Disks
    BY DEF FilesInv
  <2>2. p.dir \in Seq(Names)
    BY <2>1, PathsPlaced DEF Paths
  <2>. QED BY <2>2, CrawlIn
<1>2. ASSUME NEW p \in Paths, AddCheckFile(p) PROVE FilesInv'
  <2>. DEFINE s == SymidFor(disk, p)   r == FindModule(disk, userPath', s)
  <2>1. userPath' = UserPathWith(userPath, CrawlPath(disk, p.dir)) /\ disk' = disk
    BY <1>2 DEF AddCheckFile
  <2>2. CASE IsAdded(s, r) /\ TakenFor(p, r) /\ Parses(r)
    <3>1. NewTarget(s, r) /\ added' = added \cup {[path |-> p, symid |-> s]} /\ PathOf(r) = p
      BY <1>2, <2>2 DEF AddCheckFile, TakenFor
    <3>. QED BY <1>1, <2>1, <2>2, <3>1, NewTargetKeeps
  <2>3. CASE UNCHANGED <<targets, found, symidOf, added>>
    BY <1>1, <2>1, <2>3, NoTargetKeeps
  <2>4. (IsAdded(s, r) /\ TakenFor(p, r) /\ Parses(r)) \/ UNCHANGED <<targets, found, symidOf, added>>
    BY <1>2 DEF AddCheckFile
  <2>. QED BY <2>2, <2>3, <2>4
<1>3. ASSUME NEW p \in Paths, RecheckFile(p) PROVE FilesInv'
  <2>1. /\ userPath' = UserPathWith(userPath, CrawlPath(disk, p.dir))
        /\ UNCHANGED <<disk, targets, found, symidOf, added>>
    BY <1>3 DEF RecheckFile, Recheck
  <2>. QED BY <1>1, <2>1, NoTargetKeeps
<1>4. CASE AddImported
  <2>. DEFINE s == Head(adding)   r == FindModule(disk, userPath, s)
  <2>1. IsAdded(s, r) /\ NewTarget(s, r) /\ UNCHANGED <<disk, userPath, added>>
    BY <1>4 DEF AddImported
  <2>. QED BY <2>1, NewTargetKeeps
<1>5. CASE UNCHANGED <<disk, userPath, targets, found, symidOf, added>>
  BY <1>5, NoTargetKeeps
<1>6. FileNext => \/ \E p \in Paths : AddCheckFile(p) \/ RecheckFile(p)
                  \/ AddImported
                  \/ UNCHANGED <<disk, userPath, targets, found, symidOf, added>>
  <2>1. ASSUME NEW p \in Paths, TakeMessagesOf(p)
        PROVE  UNCHANGED <<disk, userPath, targets, found, symidOf, added>>
    BY <2>1 DEF TakeMessagesOf, TakeMessages, names
  <2>2. ASSUME NEW s, NEW stmt, Import(s, stmt)
        PROVE  UNCHANGED <<disk, userPath, targets, found, symidOf, added>>
    BY <2>2 DEF Import
  <2>3. ASSUME SkipImported \/ ImportRaises
        PROVE  UNCHANGED <<disk, userPath, targets, found, symidOf, added>>
    BY <2>3 DEF SkipImported, ImportRaises
  <2>4. ASSUME NEW s, RecheckModule(s)
        PROVE  UNCHANGED <<disk, userPath, targets, found, symidOf, added>>
    BY <2>4 DEF RecheckModule, Recheck, names
  <2>5. ASSUME Mail
        PROVE  UNCHANGED <<disk, userPath, targets, found, symidOf, added>>
    BY <2>5 DEF Mail, Report, TakeMessages, ReportLoop, TakeAllMessages, names
  <2>. QED BY <2>1, <2>2, <2>3, <2>4, <2>5 DEF FileNext
<1>. QED BY <1>2, <1>3, <1>4, <1>5, <1>6 DEF fileVars, vars, names

LEMMA FilesInvAlways == FileSpec => []FilesInv
<1>1. FilesInv /\ [FileNext]_fileVars => FilesInv'
  BY FilesInvNext
<1>. QED BY <1>1, InitFiles, PTL DEF FileSpec

\* Who added a file gets the messages of the target that analyses it (manager.py,
\* add_check_file and take_messages; fsys.py, path_symid_map), unless an import
\* has reached the file by another name: for every file system and search path.
THEOREM FilesAnswered == FileSpec => []FileAnswered
<1>1. FilesInv => FileAnswered
  <2>. SUFFICES ASSUME FilesInv PROVE FileAnswered
    OBVIOUS
  <2>1. ASSUME NEW a \in added
        PROVE  LET p == a.path
                   s == symidOf[p]
               IN  /\ a.symid \in targets /\ PathOf(found[a.symid]) = p
                   /\ \/ s = a.symid
                      \/ Head(s) = NoName
                      \/ HasFile(disk, SearchRoot(s, found[s]), InitName, "py")
                      \/ \E d \in Between(s, found[s]) : ~HasFile(disk, d, InitName, "py")
    <3>. DEFINE p == a.path   s == symidOf[p]   r == found[s]
    <3>1. /\ p \in DOMAIN symidOf /\ a.symid \in targets
          /\ PathOf(found[a.symid]) = p /\ a.symid = SymidFor(disk, p)
      BY DEF FilesInv
    <3>2. s \in targets /\ PathOf(r) = p /\ s \in Symid /\ Lands(s, r)
      BY <3>1 DEF FilesInv
    <3>. HIDE DEF p, s, r
    <3>3. ASSUME Head(s) # NoName, ~HasFile(disk, SearchRoot(s, r), InitName, "py"),
                 \A d \in Between(s, r) : HasFile(disk, d, InitName, "py")
          PROVE  s = a.symid
      BY <3>1, <3>2, <3>3, OneProperName
    <3>. QED BY <3>1, <3>3 DEF p, s, r
  <2>. QED BY <2>1 DEF FileAnswered, FilesInv
<1>. QED BY <1>1, FilesInvAlways, PTL

\* A module's name means the same file whichever files clients add (fsys.py,
\* find_module and add_userpath), but for namespace directories and what is found
\* behind the user's directories.
THEOREM NamesAlwaysStay == FileSpec => []NamesStay
<1>1. FilesInv => NamesStay
  BY DEF FilesInv, NamesStay, Stays
<1>. QED BY <1>1, FilesInvAlways, PTL

\* A relative import of one or two dots names what it names to Python (symid.py,
\* rel2abssymid and symid_parent; manager.py, the symid of a package's table).
THEOREM RelativeAlways == FileSpec => []RelativeNames
<1>1. FilesInv => RelativeNames
  <2>. SUFFICES ASSUME FilesInv, NEW s \in targets, NEW stmt \in Statements,
                       Head(s) # NoName, stmt.level \in 1..2,
                       stmt.level <= Len(PackageOfModule(s))
                PROVE  LET pkg == PackageOfModule(s)
                       IN  RelToAbs(Parent(GlobSymid(s)), stmt.level, stmt.module)
                             = SubSeq(pkg, 1, Len(pkg) - (stmt.level - 1)) \o stmt.module
    BY DEF RelativeNames
  <2>. DEFINE pkg == PackageOfModule(s)
  <2>1. s \in Symid /\ s \in Seq(Names) /\ s # <<>> /\ Len(s) \in Nat \ {0} /\ Head(s) = s[1]
        /\ s[1] \in Names /\ NoName \notin Names /\ InitName \in Names
    BY ItemsOf, FilesAssumption DEF FilesInv
  <2>2. pkg \in Seq(Names) /\ pkg # <<>> /\ Len(pkg) \in Nat \ {0} /\ Parent(GlobSymid(s)) = pkg
    <3>1. CASE found[s].type = "package"
      <4>. DEFINE glob == Append(s, InitName)
      <4>1. pkg = s /\ GlobSymid(s) = glob
        BY <3>1 DEF PackageOfModule, GlobSymid
      <4>2. /\ glob \in Seq(Names) /\ glob # <<>> /\ Len(glob) = Len(s) + 1
            /\ \A i \in 1..Len(s) : glob[i] = s[i]
        BY <2>1, AppendProperties
      <4>. HIDE DEF glob, pkg
      <4>3. Items(glob) = glob
        BY <2>1, <4>2 DEF Items
      <4>4. Front(glob) = s
        <5>1. /\ Front(glob) \in Seq(Names) /\ Len(Front(glob)) = Len(s)
              /\ \A i \in 1..Len(s) : Front(glob)[i] = glob[i]
          BY <2>1, <4>2, FrontLast
        <5>. QED BY <2>1, <4>2, <5>1, SeqEqual
      <4>5. Parent(glob) = Front(glob)
        BY <4>2, <4>3 DEF Parent
      <4>. QED BY <2>1, <4>1, <4>4, <4>5
    <3>2. CASE found[s].type # "package"
      <4>1. pkg = Front(s) /\ GlobSymid(s) = s /\ Items(s) = s
        BY <2>1, <3>2, ItemsOf DEF PackageOfModule, GlobSymid
      <4>2. Front(s) \in Seq(Names) /\ Len(Front(s)) = Len(s) - 1
        BY <2>1, FrontLast
      <4>3. Len(Front(s)) >= 1
        BY <4>1, <4>2
      <4>4. Parent(s) = Front(s)
        BY <2>1, <4>1 DEF Parent
      <4>. QED BY <2>1, <4>1, <4>2, <4>3, <4>4
    <3>. QED BY <3>1, <3>2
  <2>. HIDE DEF pkg
  <2>3. pkg[1] # NoName
    BY <2>1, <2>2, ElementOfSeq
  <2>4. Items(pkg) = pkg
    BY <2>2, <2>3 DEF Items
  <2>5. RelToAbs(pkg, stmt.level, stmt.module)
          = SubSeq(pkg, 1, Len(pkg) - (stmt.level - 1)) \o stmt.module
    <3>1. CASE stmt.level = 1
      BY <2>2, <2>4, <3>1 DEF RelToAbs
    <3>2. CASE stmt.level = 2
      <4>1. 2 \div 2 = 1
        OBVIOUS
      <4>. QED BY <2>2, <2>4, <3>2, <4>1 DEF RelToAbs
    <3>3. \A l \in 1..2 : l = 1 \/ l = 2
      OBVIOUS
    <3>. QED BY <3>1, <3>2, <3>3
  <2>. QED BY <2>2, <2>5 DEF pkg
<1>. QED BY <1>1, FilesInvAlways, PTL
=============================================================================
