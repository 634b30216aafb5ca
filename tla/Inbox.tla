-------------------------------- MODULE Inbox --------------------------------
(***************************************************************************)
(* What the message side of the Manager promises its clients: every        *)
(* message that is posted to an inbox is handed over by the next take of   *)
(* that inbox, whole and once.  A recheck of a module throws away what the *)
(* last analysis of it has found, if nobody has asked since; nothing else, *)
(* so that what is about the old text but has been posted by others, or    *)
(* has been asked for under another name, still comes.  Messages to nobody *)
(* disappear.  Module Mailbox implements it.                               *)
(***************************************************************************)
CONSTANTS
  Tag,
  Alias   \* names that no inbox needs to have, and the inbox they stand for

VARIABLES
  inboxes,   \* the tags somebody may take messages of
  pending,   \* messages that will be handed over, by tag
  own,       \* those that will be, unless their module is analysed again
  used,      \* messages that have ever been posted
  got        \* what the last step handed over

vars == <<inboxes, pending, own, used, got>>

Init ==
  /\ inboxes = {} /\ used = {} /\ got = {}
  /\ pending = [t \in Tag |-> {}] /\ own = [t \in Tag |-> {}]

Open(t) ==
  /\ inboxes' = inboxes \cup {t}
  /\ got' = {}
  /\ UNCHANGED <<pending, own, used>>

\* Messages that have never been posted come in, each to one tag.
Post ==
  /\ used \subseteq used'
  /\ pending' \in [Tag -> SUBSET used'] /\ own' \in [Tag -> SUBSET used']
  /\ \A t \in Tag : pending'[t] \cap used = pending[t] /\ own'[t] \cap used = own[t]
  /\ \A m \in used' \ used : \E t \in Tag :
       /\ m \in pending'[t] <=> m \notin own'[t]
       /\ \A u \in Tag \ {t} : m \notin pending'[u] \cup own'[u]
  /\ got' = {}
  /\ UNCHANGED inboxes

\* The modules in asked cannot take back any more what they have found.
Take(taken, asked) ==
  /\ got' = UNION {pending[t] \cup own[t] : t \in taken \cap inboxes}
  /\ pending' = [t \in Tag |->
                   IF t \in taken \/ t \notin inboxes THEN {}
                   ELSE IF t \in asked THEN pending[t] \cup own[t]
                   ELSE pending[t]]
  /\ own' = [t \in Tag |-> IF t \in asked THEN {} ELSE own[t]]
  /\ UNCHANGED <<inboxes, used>>

AskedBy(t) == IF t \notin inboxes /\ t \in DOMAIN Alias THEN {Alias[t]} ELSE {t}

Recheck(t) ==
  /\ own' = [own EXCEPT ![t] = {}]
  /\ got' = {}
  /\ UNCHANGED <<inboxes, pending, used>>

Next ==
  \/ \E t \in Tag : Open(t) \/ Take({t}, AskedBy(t)) \/ Recheck(t)
  \/ Post
  \/ Take(Tag, Tag)

Spec == Init /\ [][Next]_vars
=============================================================================
