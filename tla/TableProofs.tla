----------------------------- MODULE TableProofs -----------------------------
(***************************************************************************)
(* The symbol tables against the texts, for all files, batches, imports    *)
(* and rereads: what a table gives for a name is what the name means       *)
(* (TablesRight).                                                          *)
(*                                                                         *)
(* What a name means is where the chain of its imports ends.  Nothing is   *)
(* said here of how long a chain is: a trail is any set of names that is   *)
(* closed under the next step, without muddled names and without modules   *)
(* that were read again after they were asked or that are empty since      *)
(* they were read again (Serves, the Fresh of the property).  A value is grounded in a   *)
(* name if it is what an end of every trail of the name stands for.        *)
(* MeaningInv says that every value in a cache, in an entry of the batch   *)
(* and on the chain that is followed is grounded; the theorem then takes   *)
(* the steps of Meaning as the trail.                                      *)
(***************************************************************************)
EXTENDS ImportProofs

Node == Symid \X Ident

\* The batch that answers for a module: the next one if it is not done.
Stamp(s) == IF s \in done THEN stamp[s] ELSE clock + 1
\* Read again while it was not on check: its table is empty, and stays so.
Emptied == done \cap cleared
Serves(s, m) == s \notin Emptied /\ Stamp(s) <= Stamp(m)

Trail(D) ==
  \A e \in D :
    /\ Onward(e[1], e[2]) \in D /\ ~Muddled(e[1], e[2])
    /\ \A s \in Asked(e[1], e[2]) : Serves(s, e[1])
Trails(x) == {D \in SUBSET Node : x \in D /\ Trail(D)}
EndsIn(D, v) == \E e \in D : Onward(e[1], e[2]) = e /\ Ending(e[1], e[2]) = v
Grounded(x, v) == \A D \in Trails(x) : EndsIn(D, v)
LeadsTo(x, y) == \A D \in Trails(x) : y \in D

\* What a module may hold for an import of k.
Right(m, k, v) ==
  IF k[2] = Whole
  THEN \/ v = AnyIns
       \/ k[1] \in Symid /\ v = Mod(k[1])
       \/ \E j \in DOMAIN text[m].impt :
            /\ Key(text[m].impt[j]) = k /\ v = Mod(text[m].impt[j].as)
            /\ text[m].impt[j].as \in Symid \cap Taken(m)
  ELSE v # AnyIns => k[1] \in Symid /\ (Serves(k[1], m) => Grounded(k, v))

Stands(m, n, entry) ==
  /\ entry.kind = "def" => n \in Defined(m)
  /\ entry.kind = "module" => m \o n \in Symid /\ entry = Mod(m \o n)
  /\ entry.kind = "import" =>
       \/ \E i \in ImportsOf(m, n) : Key(text[m].impt[i]) = Key(entry)
       \/ n \in Symid \cap Taken(m) /\ ImportsOf(m, n) = {}
LocalRight == \A m \in Symid : \A n \in DOMAIN local[m] : Stands(m, n, local[m][n])
LocalFull ==
  \A m \in done \ cleared :
    /\ Defined(m) \subseteq DOMAIN local[m]
    /\ \A i \in DOMAIN text[m].impt : text[m].impt[i].as \in DOMAIN local[m]
ClassesIn == \A m \in batch : text[m].cls \subseteq DOMAIN local[m]
CacheRight ==
  \A m \in done : \A k \in DOMAIN cache[m] :
    k \in Ident \X Seq(STRING) /\ cache[m][k] # None /\ Right(m, k, cache[m][k])
ValuesRight ==
  \A m \in batch : \A i \in DOMAIN impt[m] :
    impt[m][i].value # None => Right(m, Key(impt[m][i]), impt[m][i].value)
ChainLeads ==
  phase = "chain" =>
    /\ state \in Ident \X Seq(STRING)
    /\ state \in Node =>
         \A m \in batch : \A i \in DOMAIN impt[m] :
           <<m, i>> \in buf /\ Key(impt[m][i]) \in Node => LeadsTo(Key(impt[m][i]), state)
Clocks == clock \in Nat /\ stamp \in [Symid -> Nat] /\ \A m \in Symid : stamp[m] <= clock
Gathered ==
  \A m \in (done \ cleared) \cup batch : Mentioned(m) \cap Symid \subseteq done \cup batch \cup waiting

MeaningInv ==
  /\ ChainInv /\ LocalRight /\ LocalFull /\ ClassesIn /\ CacheRight /\ ValuesRight /\ ChainLeads
  /\ Clocks /\ Gathered

-----------------------------------------------------------------------------
(* Texts *)

LEMMA OneStatement ==
  ASSUME NEW m, IsText(text[m]), NEW n, NEW i \in ImportsOf(m, n)
  PROVE  /\ ImportsOf(m, n) = {i} /\ Statement(m, n) = text[m].impt[i]
         /\ i \in DOMAIN text[m].impt /\ IsEntry(text[m].impt[i]) /\ text[m].impt[i].as = n
<1>1. i \in DOMAIN text[m].impt /\ text[m].impt[i].as = n
  BY DEF ImportsOf
<1>2. ImportsOf(m, n) = {i}
  BY <1>1 DEF ImportsOf, IsText
<1>3. Statement(m, n) = text[m].impt[i]
  BY <1>2 DEF Statement
<1>4. IsEntry(text[m].impt[i])
  <2>1. EntriesOf(text[m].impt, text[m].impt, {}) /\ DOMAIN text[m].impt = 1..Len(text[m].impt)
    BY TextEntries, SeqFacts DEF EntriesOf
  <2>. QED BY <1>1, <2>1 DEF EntriesOf
<1>. QED BY <1>1, <1>2, <1>3, <1>4

\* What a name is in a text depends on this text, and on those that it stars if
\* it does not give the name itself.
LEMMA SameNode ==
  ASSUME NEW m, NEW n, text'[m] = text[m], version'[m] = version[m],
         \A s \in Starred(m, n) : text'[s] = text[s]
  PROVE  /\ Onward(m, n)' = Onward(m, n) /\ Ending(m, n)' = Ending(m, n)
         /\ Muddled(m, n)' <=> Muddled(m, n)
         /\ Asked(m, n)' = Asked(m, n) /\ (Gives(m, n)' <=> Gives(m, n))
<1>1. \A s : text'[s] = text[s] =>
        /\ Defined(s)' = Defined(s) /\ ImportsOf(s, n)' = ImportsOf(s, n)
        /\ Statement(s, n)' = Statement(s, n)
        /\ (Gives(s, n)' <=> Gives(s, n)) /\ Taken(s)' = Taken(s)
        /\ (IsPlainImport(s, n)' <=> IsPlainImport(s, n))
  BY DEF Defined, ImportsOf, Statement, Gives, Taken, IsPlainImport
<1>2. Starred(m, n)' = Starred(m, n)
  BY <1>1 DEF Starred
<1>3. \A s \in {m} \cup Starred(m, n) : TakenOver(s, n)' <=> TakenOver(s, n)
  BY <1>1 DEF TakenOver
<1>4. \A x : TakenOver(m, x)' <=> TakenOver(m, x)
  BY DEF TakenOver, Taken, IsPlainImport, ImportsOf
<1>5. ~Gives(m, n) => Stars(m, n)' = Stars(m, n)
  <2>. SUFFICES ASSUME ~Gives(m, n) PROVE Stars(m, n)' = Stars(m, n)
    OBVIOUS
  <2>1. \A i \in DOMAIN text[m].star : text[m].star[i] # m => text[m].star[i] \in Starred(m, n)
    BY DEF Starred, Range
  <2>. QED BY <1>1, <2>1 DEF Stars
<1>6. Onward(m, n)' = Onward(m, n)
  <2>1. CASE Gives(m, n)
    BY <1>1, <2>1 DEF Onward, Gives
  <2>2. CASE ~Gives(m, n)
    <3>1. Onward(m, n) = IF Stars(m, n) # {} THEN <<text[m].star[FirstOf(Stars(m, n))], n>> ELSE <<m, n>>
      BY <2>2 DEF Onward, Gives, FirstOf
    <3>2. Onward(m, n)' = IF Stars(m, n)' # {} THEN <<text'[m].star[FirstOf(Stars(m, n)')], n>> ELSE <<m, n>>
      BY <1>1, <2>2 DEF Onward, Gives, FirstOf
    <3>. QED BY <1>5, <2>2, <3>1, <3>2
  <2>. QED BY <2>1, <2>2
<1>7. Ending(m, n)' = Ending(m, n)
  BY <1>1 DEF Ending, Def, Mod, Builtin
<1>8. Muddled(m, n)' <=> Muddled(m, n)
  BY <1>1, <1>2, <1>3, <1>4, <1>5 DEF Muddled, Key
<1>. QED BY <1>1, <1>2, <1>6, <1>7, <1>8 DEF Asked

-----------------------------------------------------------------------------
(* Trails *)

LEMMA TrailAt ==
  ASSUME NEW m, NEW n, NEW D \in Trails(<<m, n>>)
  PROVE  /\ m \in Symid /\ n \in Ident /\ Onward(m, n) \in D /\ ~Muddled(m, n)
         /\ m \in done => m \notin cleared
         /\ \A s \in Asked(m, n) : Serves(s, m)
         /\ \A s \in Starred(m, n) : Serves(s, m)
         /\ Serves(Onward(m, n)[1], m)
         /\ \A y \in D : D \in Trails(y)
BY DEF Trails, Trail, Node, Asked, Serves, Emptied

\* The name is where the chain ends.
LEMMA TrailEnds ==
  ASSUME NEW m, NEW n, NEW D \in Trails(<<m, n>>), Onward(m, n) = <<m, n>>
  PROVE  EndsIn(D, Ending(m, n))
BY DEF Trails, EndsIn

LEMMA StatementGrounded ==
  ASSUME TextInv, NEW m, NEW n, NEW D \in Trails(<<m, n>>), NEW i \in ImportsOf(m, n),
         NEW v, v \notin {None, AnyIns}, Right(m, Key(text[m].impt[i]), v)
  PROVE  EndsIn(D, v)
<1>. DEFINE e == text[m].impt[i]
            k == Key(e)
<1>1. /\ m \in Symid /\ Onward(m, n) \in D /\ ~Muddled(m, n)
      /\ Serves(Onward(m, n)[1], m)
      /\ \A y \in D : D \in Trails(y)
  BY TrailAt
<1>2. IsText(text[m])
  BY <1>1 DEF TextInv, Texts
<1>3. /\ ImportsOf(m, n) # {} /\ Statement(m, n) = e
      /\ i \in DOMAIN text[m].impt /\ e.as = n
  BY <1>2, OneStatement
<1>4. n \notin Defined(m)
  BY <1>1, <1>3 DEF Muddled
<1>5. k[1] = e.symid /\ k[2] = e.origin
  BY DEF Key
<1>6. CASE e.origin = Whole
  <2>1. Onward(m, n) = <<m, n>>
    BY <1>3, <1>4, <1>6 DEF Onward
  <2>2. k[1] \in Symid /\ v = Mod(k[1])
    <3>1. SUFFICES ASSUME NEW j \in DOMAIN text[m].impt, Key(text[m].impt[j]) = k,
                          v = Mod(text[m].impt[j].as), text[m].impt[j].as \in Symid \cap Taken(m)
          PROVE k[1] \in Symid /\ v = Mod(k[1])
      BY <1>5, <1>6 DEF Right
    <3>. DEFINE p == text[m].impt[j].as
    <3>2. text[m].impt[j].origin = Whole /\ text[m].impt[j].symid = k[1]
      BY <1>5, <1>6, <3>1 DEF Key
    <3>3. ~TakenOver(m, p)
      BY <1>1, <3>1, <3>2 DEF Muddled
    <3>4. IsPlainImport(m, p)
      BY <3>1, <3>3 DEF TakenOver
    <3>5. j \in ImportsOf(m, p)
      BY DEF ImportsOf
    <3>6. ImportsOf(m, p) = {j}
      BY <1>2, <3>5, OneStatement
    <3>7. text[m].impt[j].symid = p
      BY <3>4, <3>6 DEF IsPlainImport
    <3>. QED BY <3>1, <3>2, <3>7
  <2>3. Ending(m, n) = v
    BY <1>3, <1>4, <1>5, <2>2 DEF Ending
  <2>. QED BY <2>1, <2>3, TrailEnds
<1>7. CASE e.origin # Whole
  <2>1. k[1] \in Symid /\ (Serves(k[1], m) => Grounded(k, v))
    BY <1>5, <1>7 DEF Right
  <2>2. Onward(m, n) = k
    BY <1>3, <1>4, <1>5, <1>7, <2>1 DEF Onward, Key
  <2>3. Grounded(k, v) /\ D \in Trails(k)
    BY <1>1, <2>1, <2>2
  <2>. QED BY <2>3 DEF Grounded
<1>. QED BY <1>6, <1>7

\* One star import is searched, and only if it gives the name.
LEMMA StarStep ==
  ASSUME TextInv, NEW m, NEW n, NEW D \in Trails(<<m, n>>), ~Gives(m, n),
         NEW i \in DOMAIN text[m].star, NEW s, s = text[m].star[i], s # m,
         Gives(s, n) \/ n \in Symid \cap Taken(s) \/ s \o n \in Symid
  PROVE  /\ s \in Symid /\ Gives(s, n) /\ Stars(m, n) = {i} /\ n \notin Builtins
         /\ Onward(m, n) = <<s, n>> /\ D \in Trails(<<s, n>>)
<1>1. /\ m \in Symid /\ Onward(m, n) \in D /\ ~Muddled(m, n)
      /\ \A y \in D : D \in Trails(y)
  BY TrailAt
<1>2. text[m].star \in Seq(Symid)
  BY <1>1 DEF TextInv, Texts, IsText
<1>3. s \in Starred(m, n) /\ s \in Symid
  BY <1>2, ElementOfSeq DEF Starred, Range
<1>4. ~TakenOver(s, n) /\ s \o n \notin Symid
  BY <1>1, <1>3 DEF Muddled
<1>5. Gives(s, n)
  BY <1>4 DEF TakenOver, IsPlainImport, Gives
<1>6. i \in Stars(m, n)
  BY <1>5 DEF Stars
<1>7. IsFiniteSet(Stars(m, n))
  <2>1. DOMAIN text[m].star = 1..Len(text[m].star) /\ Len(text[m].star) \in Nat
    BY <1>2
  <2>2. PICK k \in Nat : k = Len(text[m].star)
    BY <2>1
  <2>3. IsFiniteSet(1..k)
    BY FS_Interval
  <2>4. Stars(m, n) \subseteq 1..k
    BY <2>1, <2>2 DEF Stars
  <2>. QED BY <2>3, <2>4, FS_Subset
<1>8. Cardinality(Stars(m, n)) \in Nat /\ Cardinality(Stars(m, n)) # 0
  BY <1>6, <1>7, FS_CardinalityType, FS_EmptySet
<1>9. ~(Cardinality(Stars(m, n)) > (IF n \in Builtins THEN 0 ELSE 1))
  BY <1>1 DEF Muddled
<1>10. n \notin Builtins /\ Cardinality(Stars(m, n)) = 1
  BY <1>8, <1>9
<1>11. Stars(m, n) = {i}
  BY <1>6, <1>7, <1>10, FS_Singleton
<1>12. Onward(m, n) = <<s, n>>
  <2>1. i \in Nat
    BY <1>2
  <2>2. FirstOf({i}) = i
    BY <2>1 DEF FirstOf
  <2>. QED BY <1>11, <2>2 DEF Onward, Gives, FirstOf
<1>. QED BY <1>1, <1>3, <1>5, <1>10, <1>11, <1>12

\* No star import is searched.
LEMMA NoStar ==
  ASSUME TextInv, NEW m, NEW n, NEW D \in Trails(<<m, n>>), ~Gives(m, n),
         n \in Builtins \/ m \o n \in Symid
  PROVE  Onward(m, n) = <<m, n>> /\ ~(n \in Builtins /\ m \o n \in Symid)
<1>1. m \in Symid /\ ~Muddled(m, n)
  BY TrailAt
<1>2. Stars(m, n) = {}
  <2>1. CASE m \o n \in Symid
    BY <1>1, <2>1 DEF Muddled
  <2>2. CASE n \in Builtins
    <3>1. ASSUME NEW i \in Stars(m, n) PROVE FALSE
      <4>1. i \in DOMAIN text[m].star /\ text[m].star[i] # m /\ Gives(text[m].star[i], n)
        BY <3>1 DEF Stars
      <4>2. PICK s : s = text[m].star[i]
        OBVIOUS
      <4>3. n \notin Builtins
        <5>1. PICK j \in DOMAIN text[m].star : j = i
          BY <4>1
        <5>2. s = text[m].star[j] /\ s # m /\ Gives(s, n)
          BY <4>1, <4>2, <5>1
        <5>3. D \in Trails(<<s, n>>) /\ n \notin Builtins
          BY <5>2, StarStep
        <5>. QED BY <5>3
      <4>. QED BY <2>2, <4>3
    <3>. QED BY <3>1
  <2>. QED BY <2>1, <2>2
<1>. QED BY <1>1, <1>2 DEF Onward, Gives, Muddled

-----------------------------------------------------------------------------
(* Lookups *)

\* What a table has under a name, if it is not looked for elsewhere.
LEMMA TypeRight ==
  ASSUME TextInv, Kinds, LocalRight, CacheRight, NEW m, NEW n, NEW D \in Trails(<<m, n>>),
         n \in DOMAIN local[m], TypeIn(local, m, n) \notin {None, AnyIns}
  PROVE  EndsIn(D, TypeIn(local, m, n))
<1>. DEFINE v == TypeIn(local, m, n)
            entry == local[m][n]
<1>1. m \in Symid /\ ~Muddled(m, n)
  BY TrailAt
<1>2. entry.kind \in {"def", "module", "import"}
  BY <1>1 DEF Kinds
<1>3. CASE entry.kind = "def"
  <2>1. n \in Defined(m) /\ v = Def(m, n, version[m])
    BY <1>1, <1>3 DEF LocalRight, Stands, TextInv, Tables, Fits, TypeIn
  <2>2. Onward(m, n) = <<m, n>> /\ Ending(m, n) = v
    BY <2>1 DEF Onward, Ending
  <2>. QED BY <2>2, TrailEnds
<1>4. CASE entry.kind = "module"
  <2>1. m \o n \in Symid /\ v = Mod(m \o n)
    BY <1>1, <1>4 DEF LocalRight, Stands, TypeIn
  <2>2. ~Gives(m, n)
    BY <1>1, <2>1 DEF Muddled
  <2>3. Onward(m, n) = <<m, n>> /\ Ending(m, n) = v
    BY <2>1, <2>2, NoStar DEF Ending, Gives
  <2>. QED BY <2>3, TrailEnds
<1>5. CASE entry.kind = "import"
  <2>1. m \in done /\ Key(entry) \in DOMAIN cache[m] /\ v = cache[m][Key(entry)]
    BY <1>1, <1>5 DEF Kinds, TypeIn
  <2>2. Right(m, Key(entry), v)
    BY <2>1 DEF CacheRight
  <2>3. ~(n \in Symid \cap Taken(m) /\ ImportsOf(m, n) = {})
    BY <1>1 DEF Muddled, TakenOver, IsPlainImport
  <2>4. PICK i \in ImportsOf(m, n) : Key(text[m].impt[i]) = Key(entry)
    BY <1>1, <1>5, <2>3 DEF LocalRight, Stands
  <2>5. Right(m, Key(text[m].impt[i]), v)
    BY <2>2, <2>4
  <2>. HIDE DEF v
  <2>. QED BY <2>5, StatementGrounded DEF v
<1>. QED BY <1>2, <1>3, <1>4, <1>5

LEMMA TypeThere ==
  ASSUME Kinds, CacheRight, NEW m \in Symid, NEW n \in DOMAIN local[m]
  PROVE  TypeIn(local, m, n) # None
<1>1. local[m][n].kind = "import" => m \in done /\ Key(local[m][n]) \in DOMAIN cache[m]
  BY DEF Kinds
<1>2. local[m][n].kind # "import" => TypeIn(local, m, n) # None
  BY DEF Kinds, TypeIn, None
<1>3. local[m][n].kind = "import" => TypeIn(local, m, n) # None
  BY <1>1 DEF CacheRight, TypeIn
<1>. QED BY <1>2, <1>3

\* What a table says, of a module that is done or does not give the name.
LEMMA TableRight ==
  ASSUME TextInv, Kinds, LocalRight, LocalFull, CacheRight,
         NEW m, NEW n, NEW D \in Trails(<<m, n>>), m \in done \/ ~Gives(m, n),
         LegbLookup(m, n) \notin {None, AnyIns}
  PROVE  EndsIn(D, LegbLookup(m, n))
<1>1. m \in Symid /\ ~Muddled(m, n) /\ (m \in done => m \notin cleared)
  BY TrailAt
<1>2. LookupLocal(m, n) = LocalIn(local, m, n)
  BY LookupLocalIs
<1>3. LegbLookup(m, n) = IF LocalIn(local, m, n) # None THEN LocalIn(local, m, n) ELSE Builtin(n)
  BY <1>2 DEF LegbLookup
<1>4. CASE n \in DOMAIN local[m]
  <2>1. TypeIn(local, m, n) # None
    BY <1>1, <1>4, TypeThere
  <2>2. LegbLookup(m, n) = TypeIn(local, m, n)
    BY <1>3, <1>4, <2>1 DEF LocalIn
  <2>. QED BY <1>4, <2>2, TypeRight
<1>5. n \notin DOMAIN local[m] => ~Gives(m, n)
  BY <1>1 DEF LocalFull, Gives, ImportsOf
<1>6. CASE n \notin DOMAIN local[m] /\ TableHits(local, m, n) # {}
  <2>. DEFINE i == FirstOf(TableHits(local, m, n))
  <2>1. i \in TableHits(local, m, n) /\ starOf[m][i] \in Symid /\ n \in DOMAIN local[starOf[m][i]]
    BY <1>1, <1>6, TableHit
  <2>2. starOf[m] = text[m].star
    BY <1>1, <2>1 DEF TextInv, Tables, TableHits
  <2>3. PICK s \in Symid : s = text[m].star[i]
    BY <2>1, <2>2
  <2>4. i \in DOMAIN text[m].star /\ s # m /\ n \in DOMAIN local[s]
    BY <2>1, <2>2, <2>3 DEF TableHits
  <2>5. LocalIn(local, m, n) = TypeIn(local, s, n)
    BY <1>6, <2>2, <2>3 DEF LocalIn
  <2>. HIDE DEF i
  <2>6. Gives(s, n) \/ n \in Symid \cap Taken(s) \/ s \o n \in Symid
    <3>1. local[s][n].kind \in {"def", "module", "import"}
      BY <2>4 DEF Kinds
    <3>. QED BY <2>4, <3>1 DEF LocalRight, Stands, Gives
  <2>7. D \in Trails(<<s, n>>)
    BY <1>5, <1>6, <2>3, <2>4, <2>6, StarStep
  <2>8. TypeIn(local, s, n) # None
    BY <2>4, TypeThere
  <2>9. LegbLookup(m, n) = TypeIn(local, s, n)
    BY <1>3, <2>5, <2>8
  <2>. QED BY <2>4, <2>7, <2>9, TypeRight
<1>7. CASE n \notin DOMAIN local[m] /\ TableHits(local, m, n) = {}
  <2>1. LegbLookup(m, n) = Builtin(n)
    BY <1>3, <1>7 DEF LocalIn
  <2>2. n \in Builtins
    BY <2>1 DEF Builtin
  <2>3. ~Gives(m, n)
    BY <1>5, <1>7
  <2>4. Onward(m, n) = <<m, n>> /\ m \o n \notin Symid
    BY <2>2, <2>3, NoStar
  <2>5. Ending(m, n) = Builtin(n)
    BY <2>3, <2>4 DEF Ending, Gives
  <2>. QED BY <2>1, <2>4, <2>5, TrailEnds
<1>. QED BY <1>4, <1>6, <1>7

\* What a module of the batch has under a name: a definition, or one of its
\* statements; if it has anything, the name is of one of the three kinds.
LEMMA GetRight ==
  ASSUME TextInv, NEW s \in batch, NEW n, GetDef(s, n) # None
  PROVE  /\ Gives(s, n) \/ n \in Symid \cap Taken(s)
         /\ ~TakenOver(s, n) =>
              \/ n \in Defined(s) /\ GetDef(s, n) = Def(s, n, version[s])
              \/ \E i \in ImportsOf(s, n) :
                   /\ i \in DOMAIN impt[s] /\ Key(impt[s][i]) = Key(text[s].impt[i])
                   /\ GetDef(s, n) = Shown(impt, s, i)
<1>. DEFINE t == text[s].impt
            i == CHOOSE j \in EntriesFor(impt, s, n) : TRUE
<1>1. s \in Symid /\ EntriesOf(impt[s], t, Taken(s)) /\ IsText(text[s])
  BY DEF TextInv, Queues, Texts, Entries
<1>2. /\ Len(t) \in Nat /\ DOMAIN t = 1..Len(t)
      /\ Len(impt[s]) \in Nat /\ DOMAIN impt[s] = 1..Len(impt[s])
  BY <1>1, TextEntries, SeqFacts DEF EntriesOf
<1>3. GetDef(s, n) = GetIn(impt, s, n)
  BY GetDefIs
<1>4. CASE n \in Defined(s)
  BY <1>3, <1>4 DEF GetIn, Gives
<1>5. CASE n \notin Defined(s)
  <2>1. EntriesFor(impt, s, n) # {} /\ GetDef(s, n) = Shown(impt, s, i)
    BY <1>3, <1>5 DEF GetIn
  <2>2. i \in DOMAIN impt[s] /\ impt[s][i].as = n
    BY <2>1 DEF EntriesFor
  <2>. HIDE DEF i
  <2>3. CASE i <= Len(t)
    <3>1. i \in 1..Len(t)
      BY <1>2, <2>2, <2>3
    <3>2. /\ t[i].as = n /\ impt[s][i].symid = t[i].symid
          /\ impt[s][i].origin = t[i].origin
      BY <1>1, <2>2, <3>1 DEF EntriesOf
    <3>3. i \in ImportsOf(s, n) /\ Key(impt[s][i]) = Key(t[i])
      BY <1>2, <3>1, <3>2 DEF ImportsOf, Key
    <3>. QED BY <2>1, <2>2, <3>3 DEF Gives
  <2>4. CASE i > Len(t)
    <3>1. n \in Symid \cap Taken(s) /\ \A j \in 1..Len(t) : t[j].as # n
      BY <1>1, <1>2, <2>2, <2>4 DEF EntriesOf
    <3>2. ImportsOf(s, n) = {}
      BY <1>2, <3>1 DEF ImportsOf
    <3>. QED BY <3>1, <3>2 DEF TakenOver, IsPlainImport
  <2>5. i \in Nat
    BY <1>2, <2>2
  <2>. QED BY <1>2, <2>3, <2>4, <2>5
<1>. QED BY <1>4, <1>5

\* A module of the batch has every name that its text gives.
LEMMA GivesGet ==
  ASSUME TextInv, NEW s \in batch, NEW n, Gives(s, n)
  PROVE  GetDef(s, n) # None
<1>. DEFINE t == text[s].impt
<1>1. s \in Symid /\ EntriesOf(impt[s], t, Taken(s)) /\ IsText(text[s])
  BY DEF TextInv, Queues, Texts, Entries
<1>2. /\ Len(t) \in Nat /\ DOMAIN t = 1..Len(t)
      /\ Len(impt[s]) \in Nat /\ DOMAIN impt[s] = 1..Len(impt[s])
  BY <1>1, TextEntries, SeqFacts DEF EntriesOf
<1>3. n \in Defined(s) \/ EntriesFor(impt, s, n) # {}
  <2>1. ASSUME NEW i \in ImportsOf(s, n) PROVE i \in EntriesFor(impt, s, n)
    BY <1>1, <1>2 DEF ImportsOf, EntriesOf, EntriesFor
  <2>. QED BY <2>1 DEF Gives
<1>4. \A j : Shown(impt, s, j) # None
  BY DEF Shown, None
<1>5. Def(s, n, version[s]) # None
  BY DEF Def, None
<1>6. GetDef(s, n) = GetIn(impt, s, n)
  BY GetDefIs
<1>. QED BY <1>3, <1>4, <1>5, <1>6 DEF GetIn

\* Where a lookup finds a name of a trail.
LEMMA LookupTrail ==
  ASSUME TextInv, NEW m, NEW n, NEW D \in Trails(<<m, n>>)
  PROVE  \/ \E s \in batch : D \in Trails(<<s, n>>) /\ GetDef(s, n) # None /\ Lookup(m, n) = GetDef(s, n)
         \/ (m \in done \/ ~Gives(m, n)) /\ Lookup(m, n) = LegbLookup(m, n)
         \/ m \notin Targets /\ Lookup(m, n) = None
<1>1. m \in Symid /\ ~Muddled(m, n)
  BY TrailAt
<1>2. Lookup(m, n) = LookupIn(impt, LegbLookup(m, n), m, n)
  BY LookupIs
<1>3. CASE m \in batch /\ GetDef(m, n) # None
  BY <1>2, <1>3, GetDefIs DEF LookupIn
<1>4. CASE ~(m \in batch /\ GetDef(m, n) # None) /\ BatchHits(impt, m, n) # {}
  <2>. DEFINE i == FirstOf(BatchHits(impt, m, n))
  <2>1. m \in batch /\ ~Gives(m, n)
    BY <1>4, GivesGet DEF BatchHits
  <2>2. text[m].star \in Seq(Symid)
    BY <1>1 DEF TextInv, Texts, IsText
  <2>3. BatchHits(impt, m, n) \in SUBSET Nat
    BY <2>2 DEF BatchHits
  <2>4. i \in BatchHits(impt, m, n)
    BY <1>4, <2>3, FirstHit
  <2>5. PICK s : s = text[m].star[i]
    OBVIOUS
  <2>6. Lookup(m, n) = GetDef(s, n)
    BY <1>2, <1>4, <2>5, GetDefIs DEF LookupIn
  <2>7. i \in DOMAIN text[m].star /\ s \in batch /\ GetDef(s, n) # None
    BY <2>1, <2>4, <2>5, GetDefIs DEF BatchHits
  <2>8. s # m
    BY <1>4, <2>7
  <2>9. Gives(s, n) \/ n \in Symid \cap Taken(s)
    BY <2>7, GetRight
  <2>. HIDE DEF i
  <2>10. D \in Trails(<<s, n>>)
    BY <2>1, <2>5, <2>7, <2>8, <2>9, StarStep
  <2>. QED BY <2>6, <2>7, <2>10
<1>5. CASE ~(m \in batch /\ GetDef(m, n) # None) /\ BatchHits(impt, m, n) = {}
  <2>1. Lookup(m, n) = IF m \in Targets THEN LegbLookup(m, n) ELSE None
    BY <1>2, <1>5, GetDefIs DEF LookupIn
  <2>2. m \in batch => ~Gives(m, n)
    BY <1>5, GivesGet
  <2>. QED BY <2>1, <2>2 DEF Targets
<1>. QED BY <1>3, <1>4, <1>5

\* A value that is found is right for the name that was looked up.
LEMMA LookupRight ==
  ASSUME MeaningInv, NEW m, NEW n, NEW D \in Trails(<<m, n>>),
         Lookup(m, n) \notin {None, AnyIns}, Lookup(m, n).kind # "entry"
  PROVE  EndsIn(D, Lookup(m, n))
<1>. DEFINE v == Lookup(m, n)
<1>1. TextInv /\ Kinds /\ LocalRight /\ LocalFull /\ CacheRight /\ ValuesRight
  BY DEF MeaningInv, ChainInv
<1>2. CASE \E s \in batch : D \in Trails(<<s, n>>) /\ GetDef(s, n) # None /\ v = GetDef(s, n)
  <2>1. PICK s \in batch : D \in Trails(<<s, n>>) /\ GetDef(s, n) # None /\ v = GetDef(s, n)
    BY <1>2
  <2>2. ~Muddled(s, n)
    BY <2>1, TrailAt
  <2>3. ~TakenOver(s, n)
    BY <2>2 DEF Muddled
  <2>. HIDE DEF v
  <2>4. CASE n \in Defined(s) /\ GetDef(s, n) = Def(s, n, version[s])
    <3>1. Onward(s, n) = <<s, n>> /\ Ending(s, n) = v
      BY <2>1, <2>4 DEF Onward, Ending
    <3>. QED BY <2>1, <3>1, TrailEnds DEF v
  <2>5. ASSUME NEW i \in ImportsOf(s, n), i \in DOMAIN impt[s],
               Key(impt[s][i]) = Key(text[s].impt[i]), GetDef(s, n) = Shown(impt, s, i)
        PROVE  EndsIn(D, v)
    <3>1. impt[s][i].value # None /\ v = impt[s][i].value
      BY <2>1, <2>5 DEF Shown, v
    <3>2. Right(s, Key(text[s].impt[i]), v)
      BY <1>1, <2>5, <3>1 DEF ValuesRight
    <3>3. v \notin {None, AnyIns}
      BY DEF v
    <3>. QED BY <1>1, <2>1, <3>2, <3>3, StatementGrounded
  <2>. QED BY <1>1, <2>1, <2>3, <2>4, <2>5, GetRight DEF v
<1>3. CASE (m \in done \/ ~Gives(m, n)) /\ v = LegbLookup(m, n)
  BY <1>1, <1>3, TableRight
<1>. QED BY <1>1, <1>2, <1>3, LookupTrail

\* An entry that is found leads on along the trail.
LEMMA LookupLeads ==
  ASSUME MeaningInv, NEW m, NEW n, NEW D \in Trails(<<m, n>>), NEW s, NEW i,
         Lookup(m, n) = [kind |-> "entry", module |-> s, index |-> i],
         Key(impt[s][i]) \in Node
  PROVE  Key(impt[s][i]) \in D
<1>1. TextInv /\ Kinds
  BY DEF MeaningInv, ChainInv
<1>2. m \in Symid
  BY TrailAt
<1>3. LegbLookup(m, n).kind # "entry" /\ None.kind # "entry"
  BY <1>1, <1>2, LegbKind DEF None
<1>4. PICK r \in batch : D \in Trails(<<r, n>>) /\ GetDef(r, n) # None /\ Lookup(m, n) = GetDef(r, n)
  BY <1>1, <1>3, LookupTrail
<1>5. ~Muddled(r, n) /\ Onward(r, n) \in D /\ r \in Symid
  BY <1>4, TrailAt
<1>6. ~TakenOver(r, n)
  BY <1>5 DEF Muddled
<1>7. Def(r, n, version[r]).kind # "entry"
  BY DEF Def
<1>8. PICK j \in ImportsOf(r, n) :
           /\ j \in DOMAIN impt[r] /\ Key(impt[r][j]) = Key(text[r].impt[j])
           /\ GetDef(r, n) = Shown(impt, r, j)
  BY <1>1, <1>4, <1>6, <1>7, GetRight
<1>9. impt[r][j].value.kind # "entry"
  BY <1>1, <1>4, <1>5, <1>8 DEF Kinds
<1>10. s = r /\ i = j
  BY <1>4, <1>8, <1>9 DEF Shown
<1>11. IsText(text[r])
  BY <1>1, <1>5 DEF TextInv, Texts
<1>12. Statement(r, n) = text[r].impt[j] /\ ImportsOf(r, n) # {}
  BY <1>11, OneStatement
<1>13. n \notin Defined(r)
  BY <1>5, <1>12 DEF Muddled
<1>14. Key(text[r].impt[j]) \in Node
  BY <1>8, <1>10
<1>15. text[r].impt[j].symid \in Symid /\ text[r].impt[j].origin # Whole
  BY <1>14, Typed DEF Node, Key, Whole
<1>16. Onward(r, n) = Key(text[r].impt[j])
  BY <1>12, <1>13, <1>15 DEF Onward, Key
<1>. QED BY <1>5, <1>8, <1>10, <1>16

-----------------------------------------------------------------------------
(* What steps leave of the trails *)

\* The modules of S keep their texts, and ask no others.
Keeps(S) ==
  /\ S \subseteq Symid
  /\ \A m \in S : text'[m] = text[m] /\ version'[m] = version[m]
  /\ \A m \in S, s \in Symid : Serves(s, m)' => s \in S /\ Serves(s, m)

LEMMA KeptTrail ==
  ASSUME TextInv, NEW S, Keeps(S), NEW x \in Node, x[1] \in S, NEW D \in Trails(x)'
  PROVE  \E E \in Trails(x) : \A e \in E :
           /\ e \in D /\ Onward(e[1], e[2])' = Onward(e[1], e[2])
           /\ Ending(e[1], e[2])' = Ending(e[1], e[2])
           /\ (Gives(e[1], e[2])' <=> Gives(e[1], e[2]))
<1>. DEFINE E == {e \in D : e[1] \in S}
<1>1. D \subseteq Node /\ x \in D
  BY DEF Trails
<1>2. ASSUME NEW e \in D
      PROVE  /\ Onward(e[1], e[2])' \in D /\ ~(Muddled(e[1], e[2])')
             /\ \A s \in Asked(e[1], e[2])' : Serves(s, e[1])'
  BY DEF Trails, Trail
<1>3. ASSUME NEW e \in E
      PROVE  /\ Onward(e[1], e[2])' = Onward(e[1], e[2])
             /\ Ending(e[1], e[2])' = Ending(e[1], e[2])
             /\ (Gives(e[1], e[2])' <=> Gives(e[1], e[2]))
             /\ Onward(e[1], e[2]) \in E /\ ~Muddled(e[1], e[2])
             /\ \A s \in Asked(e[1], e[2]) : Serves(s, e[1])
  <2>. DEFINE m == e[1]
              n == e[2]
  <2>1. m \in S /\ m \in Symid /\ text'[m] = text[m] /\ version'[m] = version[m]
    BY DEF Keeps
  <2>2. /\ Onward(m, n)' \in D /\ ~(Muddled(m, n)')
        /\ \A s \in Asked(m, n)' : Serves(s, m)'
    BY <1>2
  <2>3. text[m].star \in Seq(Symid)
    BY <2>1 DEF TextInv, Texts, IsText
  <2>. HIDE DEF m, n
  <2>4. Starred(m, n)' \subseteq Symid
    BY <2>1, <2>3, RangeOfSeq DEF Starred
  <2>5. \A s \in Starred(m, n)' : s \in S
    BY <2>1, <2>2, <2>4 DEF Asked, Keeps
  <2>6. Starred(m, n)' = Starred(m, n)
    BY <2>1 DEF Starred, Gives, Defined, ImportsOf
  <2>7. \A s \in Starred(m, n) : text'[s] = text[s]
    BY <2>5, <2>6 DEF Keeps
  <2>8. /\ Onward(m, n)' = Onward(m, n) /\ Ending(m, n)' = Ending(m, n)
        /\ (Muddled(m, n)' <=> Muddled(m, n))
        /\ Asked(m, n)' = Asked(m, n) /\ (Gives(m, n)' <=> Gives(m, n))
    BY <2>1, <2>7, SameNode
  <2>9. Onward(m, n)[1] \in Symid /\ Onward(m, n) \in D
    BY <1>1, <2>2, <2>8 DEF Node
  <2>10. Asked(m, n) \subseteq Symid
    BY <2>1, <2>4, <2>6, <2>9 DEF Asked
  <2>11. \A s \in Asked(m, n) : s \in S /\ Serves(s, m)
    BY <2>1, <2>2, <2>8, <2>10 DEF Keeps
  <2>12. Onward(m, n) \in E
    BY <2>9, <2>11 DEF Asked
  <2>. QED BY <2>2, <2>8, <2>11, <2>12 DEF m, n
<1>4. E \in Trails(x)
  BY <1>1, <1>3 DEF Trails, Trail
<1>. QED BY <1>3, <1>4

LEMMA RightKept ==
  ASSUME TextInv, NEW S, Keeps(S), NEW m \in S, NEW k \in Ident \X Seq(STRING), NEW v,
         Right(m, k, v)
  PROVE  Right(m, k, v)'
<1>1. text'[m] = text[m] /\ m \in Symid /\ S \subseteq Symid
  BY DEF Keeps
<1>2. Taken(m)' = Taken(m)
  BY <1>1 DEF Taken
<1>3. CASE k[2] = Whole
  BY <1>1, <1>2, <1>3 DEF Right, Key
<1>4. CASE k[2] # Whole
  <2>. SUFFICES ASSUME v # AnyIns, Serves(k[1], m)', k[1] \in Symid,
                       Serves(k[1], m) => Grounded(k, v)
       PROVE  Grounded(k, v)'
    BY <1>4 DEF Right
  <2>1. k[1] \in S /\ Grounded(k, v)
    BY DEF Keeps
  <2>2. k \in Node
    BY <1>4 DEF Node, Ident, Whole
  <2>3. ASSUME NEW D \in Trails(k)' PROVE EndsIn(D, v)'
    <3>1. PICK E \in Trails(k) : \A e \in E :
           /\ e \in D /\ Onward(e[1], e[2])' = Onward(e[1], e[2])
           /\ Ending(e[1], e[2])' = Ending(e[1], e[2])
      BY <2>1, <2>2, KeptTrail
    <3>2. EndsIn(E, v)
      BY <2>1 DEF Grounded
    <3>. QED BY <3>1, <3>2 DEF EndsIn
  <2>. QED BY <2>3 DEF Grounded
<1>. QED BY <1>3, <1>4

LEMMA LeadsKept ==
  ASSUME TextInv, NEW S, Keeps(S), NEW x \in Node, x[1] \in S, NEW y, LeadsTo(x, y)
  PROVE  LeadsTo(x, y)'
<1>1. ASSUME NEW D \in Trails(x)' PROVE y \in D
  <2>1. PICK E \in Trails(x) : \A e \in E : e \in D
    BY KeptTrail
  <2>. QED BY <2>1 DEF LeadsTo
<1>. QED BY <1>1 DEF LeadsTo

LEMMA KeepsAll ==
  ASSUME Clocks, UNCHANGED <<text, version, done, cleared, stamp, clock>>
  PROVE  Keeps(Symid)
BY DEF Keeps, Serves, Emptied, Stamp

LEMMA KeepsDump ==
  ASSUME TextInv, Clocks, Dump
  PROVE  Keeps(Symid) /\ Clocks'
<1>1. /\ clock' = clock + 1 /\ done' = done \cup batch /\ cleared' = cleared \ batch
      /\ stamp' = [m \in Symid |-> IF m \in batch THEN clock + 1 ELSE stamp[m]]
      /\ UNCHANGED <<text, version>>
  BY DEF Dump, sources
<1>2. batch \subseteq Symid /\ done \subseteq Symid /\ batch \cap done = {}
  BY DEF TextInv, Queues
<1>3. Clocks'
  BY <1>1 DEF Clocks
<1>4. ASSUME NEW m \in Symid, NEW s \in Symid, Serves(s, m)' PROVE Serves(s, m)
  BY <1>1, <1>2, <1>4 DEF Serves, Emptied, Stamp, Clocks
<1>. QED BY <1>1, <1>3, <1>4 DEF Keeps

LEMMA KeepsRecheck ==
  ASSUME TextInv, Clocks, NEW x, NEW t, Recheck(x, t)
  PROVE  Keeps(done \ {x}) /\ Clocks'
<1>1. /\ text' = [text EXCEPT ![x] = t] /\ version' = [version EXCEPT ![x] = @ + 1]
      /\ cleared' = cleared \cup {x} /\ UNCHANGED <<stamp, clock>>
      /\ done' = done \ {x} \/ done' = done
  BY DEF Recheck
<1>2. done \subseteq Symid /\ DOMAIN text = Symid /\ DOMAIN version = Symid
  BY DEF TextInv, Queues, TotalFunctions
<1>3. ASSUME NEW m \in done \ {x}, NEW s \in Symid, Serves(s, m)'
      PROVE  s \in done \ {x} /\ Serves(s, m)
  <2>1. s \in done'
    BY <1>1, <1>2, <1>3 DEF Serves, Stamp, Clocks
  <2>2. s # x /\ s \in done /\ s \notin cleared
    BY <1>1, <1>3, <2>1 DEF Serves, Emptied
  <2>. QED BY <1>1, <1>3, <2>2 DEF Serves, Emptied, Stamp
<1>. QED BY <1>1, <1>2, <1>3 DEF Keeps, Clocks

-----------------------------------------------------------------------------
(* The tables *)

LEMMA SameStands ==
  ASSUME NEW m, NEW n, NEW entry, text'[m] = text[m]
  PROVE  Stands(m, n, entry)' <=> Stands(m, n, entry)
<1>1. Defined(m)' = Defined(m) /\ ImportsOf(m, n)' = ImportsOf(m, n) /\ Taken(m)' = Taken(m)
  BY DEF Defined, ImportsOf, Taken
<1>. QED BY <1>1 DEF Stands, Key, Mod

\* Every entry of impt is one of the statements, or was added for a module.
LEMMA EntryOf ==
  ASSUME TextInv, NEW m \in batch, NEW i \in DOMAIN impt[m]
  PROVE  /\ m \in Symid /\ IsSeq(impt[m]) /\ IsEntry(impt[m][i])
         /\ \/ /\ i \in ImportsOf(m, impt[m][i].as) /\ i \in DOMAIN text[m].impt
               /\ Key(text[m].impt[i]) = Key(impt[m][i])
            \/ /\ impt[m][i].as \in Symid \cap Taken(m) /\ ImportsOf(m, impt[m][i].as) = {}
               /\ Key(impt[m][i]) = <<impt[m][i].as, Whole>>
<1>. DEFINE t == text[m].impt
            e == impt[m][i]
<1>1. m \in Symid /\ EntriesOf(impt[m], t, Taken(m)) /\ IsText(text[m])
  BY DEF TextInv, Queues, Texts, Entries
<1>2. /\ Len(t) \in Nat /\ DOMAIN t = 1..Len(t) /\ i \in 1..Len(impt[m])
      /\ Len(impt[m]) \in Nat /\ IsSeq(impt[m]) /\ IsEntry(e)
  BY <1>1, TextEntries, SeqFacts DEF EntriesOf
<1>3. CASE i <= Len(t)
  <2>1. i \in 1..Len(t)
    BY <1>2, <1>3
  <2>2. t[i].as = e.as /\ e.symid = t[i].symid /\ e.origin = t[i].origin
    BY <1>1, <2>1 DEF EntriesOf
  <2>3. i \in ImportsOf(m, e.as) /\ Key(e) = Key(t[i])
    BY <1>2, <2>1, <2>2 DEF ImportsOf, Key
  <2>. QED BY <1>1, <1>2, <2>1, <2>3
<1>4. CASE i > Len(t)
  <2>1. e.as \in Symid \cap Taken(m) /\ e.symid = e.as /\ e.origin = Whole /\ \A j \in 1..Len(t) : t[j].as # e.as
    BY <1>1, <1>2, <1>4 DEF EntriesOf
  <2>2. ImportsOf(m, e.as) = {}
    BY <1>2, <2>1 DEF ImportsOf
  <2>. QED BY <1>1, <1>2, <2>1, <2>2 DEF Key
<1>. QED BY <1>2, <1>3, <1>4

LEMMA DumpedStands ==
  ASSUME TextInv, NEW m \in batch, NEW d, d = Dumped(m, impt[m], text[m].own, version[m])
  PROVE  /\ \A n \in DOMAIN d : Stands(m, n, d[n])
         /\ text[m].own \subseteq DOMAIN d
         /\ \A i \in DOMAIN text[m].impt : text[m].impt[i].as \in DOMAIN d
<1>. DEFINE imports == impt[m]
<1>1. ASSUME NEW n \in DOMAIN d PROVE Stands(m, n, d[n])
  <2>1. CASE n \in Imported(imports)
    <3>. DEFINE i == CHOOSE j \in DOMAIN imports : imports[j].as = n
    <3>1. i \in DOMAIN imports /\ imports[i].as = n
      BY <2>1 DEF Imported
    <3>2. d[n] = ImportEntry(imports[i].symid, imports[i].origin)
      BY <2>1 DEF Dumped
    <3>3. Key(d[n]) = Key(imports[i]) /\ d[n].kind = "import"
      BY <3>2 DEF Key, ImportEntry
    <3>. HIDE DEF i
    <3>4. \/ i \in ImportsOf(m, n) /\ Key(text[m].impt[i]) = Key(d[n])
          \/ n \in Symid \cap Taken(m) /\ ImportsOf(m, n) = {}
      BY <3>1, <3>3, EntryOf
    <3>. QED BY <3>3, <3>4 DEF Stands
  <2>2. CASE n \notin Imported(imports)
    BY <2>2 DEF Dumped, Def, Stands, Defined
  <2>. QED BY <2>1, <2>2
<1>2. ASSUME NEW i \in DOMAIN text[m].impt PROVE text[m].impt[i].as \in DOMAIN d
  <2>. DEFINE t == text[m].impt
  <2>1. EntriesOf(imports, t, Taken(m)) /\ IsText(text[m])
    BY DEF TextInv, Queues, Texts, Entries
  <2>2. /\ Len(t) \in Nat /\ DOMAIN t = 1..Len(t)
        /\ Len(imports) \in Nat /\ DOMAIN imports = 1..Len(imports)
    BY <2>1, TextEntries, SeqFacts DEF EntriesOf
  <2>3. i \in DOMAIN imports /\ imports[i].as = t[i].as
    BY <2>1, <2>2 DEF EntriesOf
  <2>. QED BY <2>3 DEF Dumped, Imported
<1>. QED BY <1>1, <1>2 DEF Dumped

LEMMA LocalStep ==
  ASSUME MeaningInv, [Next]_vars
  PROVE  LocalRight' /\ LocalFull' /\ ClassesIn'
<1>. TextInv /\ LocalRight /\ LocalFull /\ ClassesIn
  BY DEF MeaningInv, ChainInv
<1>1. DOMAIN local = Symid /\ DOMAIN text = Symid /\ done \subseteq Symid /\ batch \subseteq Symid
  BY DEF TextInv, TotalFunctions, Queues
<1>2. CASE UNCHANGED <<text, local, done, batch, cleared>>
  <2>1. LocalRight'
    BY <1>2, SameStands DEF LocalRight
  <2>. QED BY <1>2, <2>1 DEF LocalFull, ClassesIn, Defined
<1>3. ASSUME NEW e \in edits, Recheck(e[1], e[2]) PROVE LocalRight' /\ LocalFull' /\ ClassesIn'
  <2>. DEFINE x == e[1]
  <2>1. /\ text' = [text EXCEPT ![x] = e[2]] /\ local' = [local EXCEPT ![x] = Empty]
        /\ cleared' = cleared \cup {x} /\ done' \subseteq done /\ x \in Symid /\ batch' = {}
    BY <1>3 DEF Recheck, Clear, TextInv, Texts, Queues
  <2>. HIDE DEF x
  <2>2. DOMAIN local'[x] = {} /\ \A m \in Symid \ {x} : local'[m] = local[m] /\ text'[m] = text[m]
    BY <1>1, <2>1 DEF Empty
  <2>3. LocalRight'
    BY <2>2, SameStands DEF LocalRight
  <2>. QED BY <1>1, <2>1, <2>2, <2>3 DEF LocalFull, ClassesIn, Defined
<1>4. CASE Preprocess
  <2>. DEFINE new == waiting \cup (Closure(waiting) \ done)
  <2>1. /\ local' = [m \in Symid |->
                     IF m \in new
                     THEN Entered(local[m], [n \in text[m].cls |-> Def(m, n, version[m])])
                     ELSE local[m]]
        /\ text' = text /\ done' = done /\ cleared' = cleared /\ batch' = new
    BY <1>4 DEF Preprocess, sources, clients
  <2>0. new \subseteq Symid
    BY DEF Closure, TextInv, Queues
  <2>. HIDE DEF new
  <2>2. ASSUME NEW m \in Symid
        PROVE  /\ DOMAIN local[m] \subseteq DOMAIN local'[m]
               /\ m \in batch' => text[m].cls \subseteq DOMAIN local'[m]
               /\ \A n \in DOMAIN local'[m] :
                    \/ n \in DOMAIN local[m] /\ local'[m][n] = local[m][n]
                    \/ n \in text[m].cls /\ local'[m][n] = Def(m, n, version[m])
    BY <2>1 DEF Entered
  <2>3. \A m, n : n \in text[m].cls => Stands(m, n, Def(m, n, version[m]))
    BY DEF Stands, Defined, Def
  <2>4. LocalRight'
    BY <2>1, <2>2, <2>3, SameStands DEF LocalRight
  <2>. QED BY <1>1, <2>0, <2>1, <2>2, <2>4 DEF LocalFull, ClassesIn, Defined
<1>5. CASE (ImportModule \/ ImportFrom) /\ UNCHANGED clients
  <2>1. at > 0 /\ UNCHANGED <<text, done, batch, cleared>>
    BY <1>5 DEF ImportModule, ImportFrom, sources, clients
  <2>2. PICK M \in SUBSET Symid : AddSubmodules(M)
    BY <1>5, <2>1, SubmodulesOfImport
  <2>3. \A m \in Symid :
          /\ DOMAIN local[m] \subseteq DOMAIN local'[m]
          /\ \A n \in DOMAIN local'[m] :
               \/ n \in DOMAIN local[m] /\ local'[m][n] = local[m][n]
               \/ n # <<>> /\ m \o n \in Symid /\ local'[m][n] = Mod(m \o n)
    BY <1>1, <2>2, SubmodulesAdded
  <2>4. \A m, n : m \o n \in Symid => Stands(m, n, Mod(m \o n))
    BY DEF Stands, Mod
  <2>5. LocalRight'
    BY <2>1, <2>3, <2>4, SameStands DEF LocalRight
  <2>. QED BY <1>1, <2>1, <2>3, <2>5 DEF LocalFull, ClassesIn, Defined
<1>6. CASE Dump
  <2>1. /\ local' = [m \in Symid |->
            IF m \in batch THEN Entered(local[m], Dumped(m, impt[m], text[m].own, version[m])) ELSE local[m]]
        /\ text' = text /\ done' = done \cup batch /\ cleared' = cleared \ batch /\ batch' = {}
    BY <1>6 DEF Dump, sources
  <2>2. ASSUME NEW m \in Symid
        PROVE  /\ DOMAIN local[m] \subseteq DOMAIN local'[m]
               /\ \A n \in DOMAIN local'[m] : Stands(m, n, local'[m][n])
               /\ m \in batch => /\ Defined(m) \subseteq DOMAIN local'[m]
                                 /\ \A i \in DOMAIN text[m].impt : text[m].impt[i].as \in DOMAIN local'[m]
    <3>1. CASE m \notin batch
      BY <2>1, <3>1 DEF LocalRight
    <3>2. CASE m \in batch
      <4>1. PICK d : d = Dumped(m, impt[m], text[m].own, version[m])
        OBVIOUS
      <4>2. local'[m] = Entered(local[m], d)
        BY <2>1, <3>2, <4>1
      <4>3. /\ \A n \in DOMAIN d : Stands(m, n, d[n])
            /\ text[m].own \subseteq DOMAIN d
            /\ \A i \in DOMAIN text[m].impt : text[m].impt[i].as \in DOMAIN d
        BY <3>2, <4>1, DumpedStands
      <4>. QED BY <3>2, <4>2, <4>3 DEF Entered, LocalRight, ClassesIn, Defined
    <3>. QED BY <3>1, <3>2
  <2>3. LocalRight'
    BY <2>1, <2>2, SameStands DEF LocalRight
  <2>4. \A m : Defined(m)' = Defined(m)
    BY <2>1 DEF Defined
  <2>. QED BY <1>1, <2>1, <2>2, <2>3, <2>4 DEF LocalFull, ClassesIn
<1>7. ASSUME NEW M, AddCheckFiles(M) PROVE UNCHANGED <<text, local, done, batch, cleared>>
  BY <1>7 DEF AddCheckFiles, sources, tables
<1>8. CASE Resolve /\ UNCHANGED clients
  <2>1. (\E m \in Symid : VisitModule(m)) \/ ImportLoop \/ Follow \/ NothingFound \/ ValueFound \/ AllVisited
          => UNCHANGED <<text, local, done, batch>>
    BY DEF VisitModule, ImportLoop, Follow, NothingFound, ValueFound, AllVisited, sources, tables
  <2>. QED BY <1>2, <1>5, <1>8, <2>1 DEF Resolve, clients
<1>9. UNCHANGED vars => UNCHANGED <<text, local, done, batch, cleared>>
  BY DEF vars, sources, tables, clients
<1>. QED BY <1>2, <1>3, <1>4, <1>6, <1>7, <1>8, <1>9 DEF Next

-----------------------------------------------------------------------------
(* The batches *)

LEMMA QuietKeeps ==
  ASSUME Clocks, Preprocess \/ (Resolve /\ UNCHANGED clients) \/ (\E M : AddCheckFiles(M)) \/ UNCHANGED vars
  PROVE  Keeps(Symid) /\ UNCHANGED <<text, version, done, cache, cleared, stamp, clock>>
<1>1. UNCHANGED <<text, version, done, cache, cleared, stamp, clock>>
  <2>1. AddSubmodules(NewSubmodules(Visited.symid, Whole)) \/ AddSubmodules(NewSubmodules(Visited.symid, Visited.origin))
          => UNCHANGED cache
    BY DEF AddSubmodules
  <2>. QED BY <2>1 DEF Preprocess, Resolve, AddCheckFiles, VisitModule, ImportModule, ImportFrom, ImportLoop, Follow,
       NothingFound, ValueFound, AllVisited, vars, sources, tables, clients
<1>. QED BY <1>1, KeepsAll

LEMMA ClockStep ==
  ASSUME MeaningInv, [Next]_vars
  PROVE  Clocks'
<1>. TextInv /\ Clocks
  BY DEF MeaningInv, ChainInv
<1>1. ASSUME NEW e \in edits, Recheck(e[1], e[2]) PROVE Clocks'
  BY <1>1, KeepsRecheck
<1>2. Dump => Clocks'
  BY KeepsDump
<1>3. UNCHANGED <<stamp, clock>> => Clocks'
  BY DEF Clocks
<1>. QED BY <1>1, <1>2, <1>3, QuietKeeps DEF Next

LEMMA ClosureClosed ==
  ASSUME NEW M \in SUBSET Symid
  PROVE  /\ M \subseteq Closure(M) /\ Closure(M) \subseteq Symid
         /\ \A m \in Closure(M) \ done : Mentioned(m) \cap Symid \subseteq Closure(M)
<1>1. M \subseteq Closure(M) /\ Closure(M) \subseteq Symid
  BY DEF Closure
<1>2. ASSUME NEW m \in Closure(M) \ done, NEW s \in Mentioned(m) \cap Symid PROVE s \in Closure(M)
  <2>1. ASSUME NEW N \in SUBSET Symid, M \subseteq N, Closed(N) PROVE s \in N
    <3>1. m \in N
      BY <2>1 DEF Closure
    <3>. QED BY <2>1, <3>1 DEF Closed
  <2>. QED BY <2>1 DEF Closure
<1>. QED BY <1>1, <1>2

LEMMA GatherStep ==
  ASSUME MeaningInv, [Next]_vars
  PROVE  Gathered'
<1>. TextInv /\ Gathered
  BY DEF MeaningInv, ChainInv
<1>1. /\ DOMAIN text = Symid /\ done \subseteq Symid /\ batch \subseteq Symid /\ waiting \subseteq Symid
      /\ phase = "idle" => batch = {}
      /\ phase # "idle" => waiting \subseteq batch
  BY DEF TextInv, TotalFunctions, Queues
<1>2. ASSUME NEW m, text'[m] = text[m] PROVE Mentioned(m)' = Mentioned(m)
  BY <1>2 DEF Mentioned
<1>3. CASE /\ text' = text /\ cleared' = cleared /\ UNCHANGED <<done, batch>>
           /\ done' \cup batch' \cup waiting' = done \cup batch \cup waiting
  BY <1>2, <1>3 DEF Gathered
<1>4. ASSUME NEW M \in adds, AddCheckFiles(M) PROVE Gathered'
  <2>1. UNCHANGED <<text, done, cleared, batch>> /\ waiting' = waiting \cup (M \ (done \cup waiting))
    BY <1>4 DEF AddCheckFiles, sources
  <2>. QED BY <1>2, <2>1 DEF Gathered
<1>5. ASSUME NEW e \in edits, Recheck(e[1], e[2]) PROVE Gathered'
  <2>. DEFINE x == e[1]
  <2>1. /\ text' = [text EXCEPT ![x] = e[2]] /\ phase = "idle" /\ batch' = batch
        /\ \/ done' = done \ {x} /\ waiting' = waiting \cup {x}
           \/ done' = done /\ waiting' = waiting
        /\ cleared' = cleared \cup {x}
    BY <1>5 DEF Recheck
  <2>. HIDE DEF x
  <2>2. \A m \in Symid \ {x} : text'[m] = text[m]
    BY <1>1, <2>1
  <2>. QED BY <1>1, <1>2, <2>1, <2>2 DEF Gathered
<1>6. CASE Preprocess
  <2>1. /\ batch' = waiting \cup (Closure(waiting) \ done) /\ waiting' = batch'
        /\ UNCHANGED <<text, done, cleared>> /\ phase = "idle"
    BY <1>6 DEF Preprocess, sources, clients
  <2>2. /\ waiting \subseteq Closure(waiting) /\ waiting \cap done = {}
        /\ \A m \in Closure(waiting) \ done : Mentioned(m) \cap Symid \subseteq Closure(waiting)
    BY <1>1, ClosureClosed DEF TextInv, Queues
  <2>. QED BY <1>1, <1>2, <2>1, <2>2 DEF Gathered
<1>7. CASE Resolve /\ UNCHANGED clients
  <2>1. cleared' = cleared /\ text' = text /\ done' = done /\ batch' = batch /\ phase # "idle" /\ waiting' \subseteq waiting
    BY <1>7 DEF Resolve, VisitModule, ImportModule, ImportFrom, ImportLoop, Follow,
       NothingFound, ValueFound, AllVisited, sources, visit, clients
  <2>. QED BY <1>1, <1>2, <2>1 DEF Gathered
<1>8. CASE Dump
  <2>1. /\ text' = text /\ done' = done \cup batch /\ batch' = {} /\ waiting' = waiting
        /\ cleared' = cleared \ batch
    BY <1>8 DEF Dump, sources
  <2>. QED BY <1>2, <2>1 DEF Gathered
<1>9. CASE UNCHANGED vars
  BY <1>3, <1>9 DEF vars, sources, visit, clients
<1>. QED BY <1>4, <1>5, <1>6, <1>7, <1>8, <1>9 DEF Next

LEMMA LookupNothing ==
  ASSUME TextInv, Kinds, NEW m, NEW n, m \notin Symid \/ n = <<>>
  PROVE  Lookup(m, n) = None
<1>1. CASE n = <<>>
  BY <1>1, LookupFrom
<1>2. CASE m \notin Symid
  <2>1. m \notin batch /\ m \notin Targets
    BY <1>2 DEF TextInv, Queues, Targets
  <2>. QED BY <2>1 DEF Lookup
<1>. QED BY <1>1, <1>2

\* A name that a chain has come through leads to where the chain is.
LEMMA ChainAt ==
  ASSUME MeaningInv, phase = "chain", Found # None,
         NEW m \in batch, NEW i \in DOMAIN impt[m], <<m, i>> \in buf
  PROVE  /\ state \in Node /\ state = <<state[1], state[2]>> /\ Key(impt[m][i]) \in Node
         /\ LeadsTo(Key(impt[m][i]), state)
<1>. TextInv /\ Kinds /\ Followed /\ ChainLeads
  BY DEF MeaningInv, ChainInv
<1>1. state \in Ident \X Seq(STRING)
  BY DEF ChainLeads
<1>2. state[1] \in Symid /\ state[2] # <<>>
  BY LookupNothing DEF Found
<1>3. state \in Node
  BY <1>1, <1>2 DEF Node, Ident
<1>. DEFINE e == impt[m][i]
<1>4. e.symid \in Ident /\ e.origin \in Seq(STRING)
  BY EntryOf DEF IsEntry
<1>5. Onto(m, i)
  BY DEF Followed
<1>6. Lookup(e.symid, e.origin) # None
  <2>1. CASE <<e.symid, e.origin>> = state
    <3>1. state[1] = e.symid /\ state[2] = e.origin
      BY <2>1
    <3>. QED BY <3>1 DEF Found
  <2>2. ASSUME NEW s, NEW j, Lookup(e.symid, e.origin) = [kind |-> "entry", module |-> s, index |-> j]
        PROVE  Lookup(e.symid, e.origin) # None
    BY <2>2 DEF None
  <2>. QED BY <1>5, <2>1, <2>2 DEF Onto
<1>7. e.symid \in Symid /\ e.origin # <<>>
  BY <1>6, LookupNothing
<1>8. Key(e) \in Node
  BY <1>4, <1>7 DEF Key, Node, Ident
<1>. QED BY <1>1, <1>3, <1>8 DEF ChainLeads

LEMMA ValuesFrom ==
  ASSUME TextInv, TextInv', Keeps(Symid), batch' = batch,
         \A m \in batch : \A i \in DOMAIN impt'[m] :
           impt'[m][i].value # None => Right(m, Key(impt'[m][i]), impt'[m][i].value)
  PROVE  ValuesRight'
<1>1. ASSUME NEW m \in batch, NEW i \in DOMAIN impt'[m], impt'[m][i].value # None
      PROVE  Right(m, Key(impt[m][i]), impt[m][i].value)'
  <2>1. PICK e : e = impt'[m][i]
    OBVIOUS
  <2>2. IsEntry(e) /\ m \in Symid
    <3>1. m \in Symid /\ EntriesOf(impt'[m], text'[m].impt, Taken(m)')
      BY DEF TextInv, Queues, Entries
    <3>2. i \in 1..Len(impt'[m])
      BY <3>1, SeqFacts DEF EntriesOf
    <3>. QED BY <2>1, <3>1, <3>2 DEF EntriesOf
  <2>3. PICK k : k = Key(e)
    OBVIOUS
  <2>4. k \in Ident \X Seq(STRING)
    BY <2>2, <2>3 DEF IsEntry, Key
  <2>5. PICK v : v = e.value
    OBVIOUS
  <2>6. Right(m, k, v)
    BY <1>1, <2>1, <2>3, <2>5
  <2>7. Right(m, k, v)'
    BY <2>2, <2>4, <2>6, RightKept
  <2>8. k = Key(impt'[m][i]) /\ v = impt'[m][i].value
    BY <2>1, <2>3, <2>5
  <2>. QED BY <2>7, <2>8
<1>. QED BY <1>1 DEF ValuesRight, Key

LEMMA BoundRight ==
  ASSUME MeaningInv, ImportModule \/ ImportFrom, UNCHANGED clients
  PROVE  ValuesRight'
<1>. TextInv /\ ValuesRight /\ Clocks /\ at > 0
  BY DEF MeaningInv, ChainInv, ImportModule, ImportFrom
<1>1. TextInv' /\ Keeps(Symid) /\ batch' = batch /\ current \in batch
  BY ImportText, QuietKeeps, VisitedFacts DEF Resolve, ImportModule, ImportFrom
<1>. DEFINE new == impt'[current]
            old == impt[current]
            t == text[current].impt
<1>2. /\ \A m \in Symid \ {current} : impt'[m] = impt[m]
      /\ EntriesOf(new, t, Taken(current)) /\ Len(old) <= Len(new)
      /\ \A i \in 1..Len(old) : BoundOrSame(current, i)
      /\ \A i \in 1..Len(new) : i > Len(old) => new[i].value = Mod(new[i].as)
  BY BindStep
<1>3. /\ Len(t) \in Nat /\ Len(old) \in Nat /\ DOMAIN old = 1..Len(old) /\ Len(t) <= Len(old)
      /\ Len(new) \in Nat /\ DOMAIN new = 1..Len(new)
  BY <1>2, VisitedFacts, SeqFacts DEF EntriesOf
<1>4. ASSUME NEW i \in DOMAIN new, new[i].value # None
      PROVE  Right(current, Key(new[i]), new[i].value)
  <2>1. CASE i > Len(old)
    <3>1. new[i].value = Mod(new[i].as) /\ new[i].as \in Symid
          /\ new[i].symid = new[i].as /\ new[i].origin = Whole
      BY <1>2, <1>3, <2>1 DEF EntriesOf
    <3>. QED BY <3>1 DEF Right, Key
  <2>2. CASE i \in 1..Len(old)
    <3>1. BoundOrSame(current, i)
      BY <1>2, <2>2
    <3>2. Key(new[i]) = Key(old[i]) /\ new[i].as = old[i].as
      BY <3>1 DEF BoundOrSame, Key
    <3>3. CASE new[i].value = old[i].value
      BY <1>1, <1>3, <1>4, <2>2, <3>2, <3>3 DEF ValuesRight
    <3>4. CASE new[i].as \in Symid \cap Taken(current) /\ new[i].origin = Whole /\ new[i].value = Mod(new[i].as)
      <4>1. \/ i \in ImportsOf(current, old[i].as) /\ i \in DOMAIN t /\ Key(t[i]) = Key(old[i])
            \/ Key(old[i]) = <<old[i].as, Whole>>
        BY <1>1, <1>3, <2>2, EntryOf
      <4>2. CASE i \in ImportsOf(current, old[i].as) /\ i \in DOMAIN t /\ Key(t[i]) = Key(old[i])
        <5>1. t[i].as = new[i].as /\ Key(new[i])[2] = Whole
          BY <3>2, <3>4, <4>2 DEF ImportsOf, Key
        <5>. QED BY <3>2, <3>4, <4>2, <5>1 DEF Right
      <4>3. CASE Key(old[i]) = <<old[i].as, Whole>>
        BY <3>2, <3>4, <4>3 DEF Right
      <4>. QED BY <4>1, <4>2, <4>3
    <3>5. CASE new[i].origin = Whole /\ new[i].value = Mod(new[i].symid) /\ new[i].symid \in Symid
      BY <3>5 DEF Right, Key
    <3>. QED BY <1>4, <3>1, <3>3, <3>4, <3>5 DEF BoundOrSame
  <2>. QED BY <1>3, <2>1, <2>2
<1>5. ASSUME NEW m \in batch, NEW i \in DOMAIN impt'[m], impt'[m][i].value # None
      PROVE  Right(m, Key(impt'[m][i]), impt'[m][i].value)
  <2>1. CASE m = current
    BY <1>4, <1>5, <2>1
  <2>2. CASE m # current
    <3>1. m \in Symid
      BY DEF TextInv, Queues
    <3>. QED BY <1>2, <1>5, <2>2, <3>1 DEF ValuesRight
  <2>. QED BY <2>1, <2>2
<1>. QED BY <1>1, <1>5, ValuesFrom

LEMMA FoundRight ==
  ASSUME MeaningInv, ValueFound, UNCHANGED clients
  PROVE  ValuesRight'
<1>. TextInv /\ ValuesRight /\ Clocks
  BY DEF MeaningInv, ChainInv
<1>1. TextInv' /\ Keeps(Symid) /\ batch' = batch
  BY ValueFoundText, QuietKeeps DEF Resolve, ValueFound
<1>2. phase = "chain" /\ Found # None /\ Found.kind # "entry"
  BY DEF ValueFound, None
<1>3. ASSUME NEW m \in batch, NEW i \in DOMAIN impt[m], <<m, i>> \in buf
      PROVE  Right(m, Key(impt[m][i]), Found)
  <2>. DEFINE k == Key(impt[m][i])
  <2>1. state \in Node /\ state = <<state[1], state[2]>> /\ k \in Node /\ LeadsTo(k, state)
    BY <1>2, <1>3, ChainAt
  <2>2. ASSUME Found # AnyIns, NEW D \in Trails(k) PROVE EndsIn(D, Found)
    <3>1. D \in Trails(<<state[1], state[2]>>)
      BY <2>1 DEF LeadsTo, Trails
    <3>. QED BY <1>2, <2>2, <3>1, LookupRight DEF Found
  <2>3. k[1] \in Symid /\ k[2] # Whole
    BY <2>1, Typed DEF Node, Whole
  <2>. QED BY <2>2, <2>3 DEF Right, Grounded
<1>4. ASSUME NEW m \in batch, NEW i \in DOMAIN impt'[m], impt'[m][i].value # None
      PROVE  Right(m, Key(impt'[m][i]), impt'[m][i].value)
  <2>1. /\ i \in DOMAIN impt[m]
        /\ impt'[m][i].symid = impt[m][i].symid /\ impt'[m][i].origin = impt[m][i].origin
        /\ impt'[m][i].value = IF <<m, i>> \in buf THEN Found ELSE impt[m][i].value
    BY ValueStep
  <2>2. Key(impt'[m][i]) = Key(impt[m][i])
    BY <2>1 DEF Key
  <2>. QED BY <1>3, <1>4, <2>1, <2>2 DEF ValuesRight
<1>. QED BY <1>1, <1>4, ValuesFrom

LEMMA ValuesStep ==
  ASSUME MeaningInv, [Next]_vars
  PROVE  ValuesRight'
<1>. TextInv /\ ValuesRight /\ Clocks
  BY DEF MeaningInv, ChainInv
<1>1. TextInv'
  BY TextStep
<1>2. CASE batch' = {}
  BY <1>2 DEF ValuesRight
<1>3. CASE Preprocess
  <2>1. ASSUME NEW m \in batch', NEW i \in DOMAIN impt'[m] PROVE impt'[m][i].value = None
    <3>1. batch' \subseteq Symid
      BY <1>1 DEF TextInv, Queues
    <3>2. impt'[m] = text[m].impt /\ IsText(text[m])
      BY <1>3, <3>1 DEF Preprocess, TextInv, Texts
    <3>. QED BY <3>2, TextEntries
  <2>. QED BY <2>1 DEF ValuesRight
<1>4. CASE UNCHANGED <<batch, impt>> /\ ((Resolve /\ UNCHANGED clients) \/ UNCHANGED vars)
  <2>1. Keeps(Symid)
    BY <1>4, QuietKeeps
  <2>. QED BY <1>1, <1>4, <2>1, ValuesFrom DEF ValuesRight
<1>5. (\E M : AddCheckFiles(M)) \/ (\E x, t : Recheck(x, t)) \/ Dump => batch' = {}
  BY DEF AddCheckFiles, Recheck, Dump, TextInv, Queues
<1>6. (\E m \in Symid : VisitModule(m)) \/ ImportLoop \/ Follow \/ NothingFound \/ AllVisited
        => Resolve /\ UNCHANGED <<batch, impt>>
  BY DEF Resolve, VisitModule, ImportLoop, Follow, NothingFound, AllVisited, visit
<1>7. UNCHANGED vars => UNCHANGED <<batch, impt>>
  BY DEF vars, visit
<1>8. CASE Resolve /\ UNCHANGED clients
  <2>1. ImportModule \/ ImportFrom => ValuesRight'
    BY <1>8, BoundRight
  <2>2. ValueFound => ValuesRight'
    BY <1>8, FoundRight
  <2>. QED BY <1>4, <1>6, <1>8, <2>1, <2>2 DEF Resolve
<1>. QED BY <1>2, <1>3, <1>4, <1>5, <1>7, <1>8 DEF Next

LEMMA DumpedRight ==
  ASSUME MeaningInv, Dump, NEW m \in batch, NEW k \in DOMAIN cache'[m]
  PROVE  k \in Ident \X Seq(STRING) /\ cache'[m][k] # None /\ Right(m, k, cache'[m][k])
<1>. TextInv /\ ValuesRight
  BY DEF MeaningInv, ChainInv
<1>. DEFINE imports == impt[m]
<1>1. m \in Symid /\ IsSeq(imports)
  BY DEF TextInv, Queues, Entries, EntriesOf
<1>2. cache'[m] = DumpedCache(imports)
  BY <1>1 DEF Dump
<1>3. k \in {Key(imports[i]) : i \in DOMAIN imports}
  BY <1>2 DEF DumpedCache
<1>4. cache'[m][k] = IF CachedFor(imports, k) = None THEN AnyIns ELSE CachedFor(imports, k)
  BY <1>2, <1>3 DEF DumpedCache
<1>5. PICK i \in DOMAIN imports : Key(imports[i]) = k /\ CachedFor(imports, k) = imports[i].value
  BY <1>1, <1>3, LastEntry
<1>6. k \in Ident \X Seq(STRING)
  BY <1>5, EntryOf DEF IsEntry, Key
<1>7. CASE imports[i].value = None
  BY <1>4, <1>5, <1>6, <1>7 DEF Right, None, AnyIns
<1>8. CASE imports[i].value # None
  <2>1. Right(m, k, imports[i].value)
    BY <1>5, <1>8 DEF ValuesRight
  <2>. QED BY <1>4, <1>5, <1>6, <1>8, <2>1
<1>. QED BY <1>7, <1>8

LEMMA CacheStep ==
  ASSUME MeaningInv, [Next]_vars
  PROVE  CacheRight'
<1>. TextInv /\ CacheRight /\ Clocks
  BY DEF MeaningInv, ChainInv
<1>1. DOMAIN cache = Symid /\ done \subseteq Symid /\ batch \subseteq Symid
  BY DEF TextInv, TotalFunctions, Queues
<1>2. ASSUME NEW S, Keeps(S), NEW m \in S, m \in Symid, NEW k \in DOMAIN cache'[m],
             \/ m \in done /\ cache'[m] = cache[m]
             \/ k \in Ident \X Seq(STRING) /\ cache'[m][k] # None /\ Right(m, k, cache'[m][k])
      PROVE  k \in Ident \X Seq(STRING) /\ cache'[m][k] # None /\ Right(m, k, cache[m][k])'
  <2>1. k \in Ident \X Seq(STRING) /\ cache'[m][k] # None /\ Right(m, k, cache'[m][k])
    BY <1>2 DEF CacheRight
  <2>2. PICK v : v = cache'[m][k]
    OBVIOUS
  <2>3. Right(m, k, v)
    BY <2>1, <2>2
  <2>4. Right(m, k, v)'
    BY <1>2, <2>1, <2>3, RightKept
  <2>. QED BY <2>1, <2>2, <2>4
<1>3. CASE Keeps(Symid) /\ done' = done /\ cache' = cache
  BY <1>1, <1>2, <1>3 DEF CacheRight
<1>4. ASSUME NEW e \in edits, Recheck(e[1], e[2]) PROVE CacheRight'
  <2>. DEFINE x == e[1]
  <2>1. Keeps(done \ {x}) /\ cache' = [cache EXCEPT ![x] = Empty] /\ done' \subseteq done
    BY <1>4, KeepsRecheck DEF Recheck, Clear
  <2>. HIDE DEF x
  <2>2. /\ \A m \in done' \ {x} : m \in done \ {x} /\ m \in Symid /\ cache'[m] = cache[m]
        /\ x \in done' => DOMAIN cache'[x] = {}
    BY <1>1, <2>1 DEF Empty
  <2>. QED BY <1>2, <2>1, <2>2 DEF CacheRight
<1>5. CASE Dump
  <2>1. Keeps(Symid) /\ done' = done \cup batch
        /\ cache' = [m \in Symid |-> IF m \in batch THEN DumpedCache(impt[m]) ELSE cache[m]]
    BY <1>5, KeepsDump DEF Dump
  <2>2. \A m \in done' : m \in batch \/ (m \in done /\ cache'[m] = cache[m])
    BY <1>1, <2>1
  <2>. QED BY <1>1, <1>2, <1>5, <2>1, <2>2, DumpedRight DEF CacheRight
<1>. QED BY <1>3, <1>4, <1>5, QuietKeeps DEF Next

LEMMA ChainLeadsStep ==
  ASSUME MeaningInv, [Next]_vars
  PROVE  ChainLeads'
<1>. TextInv /\ ChainLeads /\ Clocks /\ Kinds
  BY DEF MeaningInv, ChainInv
<1>1. CASE phase' # "chain"
  BY <1>1 DEF ChainLeads
<1>2. CASE UNCHANGED vars
  <2>1. Keeps(Symid)
    BY <1>2, QuietKeeps
  <2>2. UNCHANGED <<phase, state, batch, impt, buf>>
    BY <1>2 DEF vars, visit, chain
  <2>3. \A x \in Node : x[1] \in Symid
    BY DEF Node
  <2>4. ASSUME phase = "chain", state \in Node, NEW m \in batch, NEW i \in DOMAIN impt[m],
               <<m, i>> \in buf, Key(impt[m][i]) \in Node
        PROVE  LeadsTo(Key(impt[m][i]), state)'
    <3>1. LeadsTo(Key(impt[m][i]), state)
      BY <2>4 DEF ChainLeads
    <3>2. PICK x, y : x = Key(impt[m][i]) /\ y = state
      OBVIOUS
    <3>3. LeadsTo(x, y)'
      BY <2>1, <2>3, <2>4, <3>1, <3>2, LeadsKept
    <3>4. Key(impt'[m][i]) = x /\ state' = y
      BY <2>2, <3>2
    <3>. QED BY <3>3, <3>4 DEF Key
  <2>. QED BY <2>2, <2>4 DEF ChainLeads
<1>3. CASE ImportFrom /\ UNCHANGED clients
  <2>1. at > 0
    BY <1>3 DEF ImportFrom
  <2>2. /\ current \in batch /\ Index \in 1..Len(impt[current]) /\ IsEntry(Visited)
        /\ BoundOrSame(current, Index)
    BY <1>3, <2>1, VisitedFacts, BindStep
  <2>3. Key(impt'[current][Index]) = <<Visited.symid, Visited.origin>>
    BY <2>2 DEF BoundOrSame, Key, Visited
  <2>. SUFFICES ASSUME phase' = "chain" PROVE ChainLeads'
    BY <1>1
  <2>4. /\ state' = <<Visited.symid, Visited.origin>> /\ buf' = {<<current, Index>>}
        /\ batch' = batch
    BY <1>3 DEF ImportFrom
  <2>5. state' \in Ident \X Seq(STRING)
    BY <2>2, <2>4 DEF IsEntry
  <2>6. ASSUME NEW m, NEW i, <<m, i>> \in buf' PROVE Key(impt'[m][i]) = state'
    BY <2>3, <2>4, <2>6
  <2>7. \A x : LeadsTo(x, x)'
    BY DEF LeadsTo, Trails
  <2>8. ASSUME NEW m, NEW i, <<m, i>> \in buf' PROVE LeadsTo(Key(impt[m][i]), state)'
    <3>1. PICK x : x = state'
      OBVIOUS
    <3>2. Key(impt'[m][i]) = x /\ state' = x
      BY <2>6, <2>8, <3>1
    <3>. QED BY <2>7, <3>2 DEF Key
  <2>. QED BY <2>5, <2>8 DEF ChainLeads
<1>4. CASE Follow /\ UNCHANGED clients
  <2>1. /\ phase = "chain" /\ Found.kind = "entry"
        /\ state' = <<FoundEntry.symid, FoundEntry.origin>>
        /\ buf' = buf \cup {<<Found.module, Found.index>>}
        /\ UNCHANGED <<batch, impt>> /\ Keeps(Symid)
    BY <1>4, QuietKeeps DEF Follow, visit, Resolve
  <2>2. PICK s \in batch : \E i \in DOMAIN impt[s] : Found = [kind |-> "entry", module |-> s, index |-> i]
    BY <2>1, LookupFrom DEF Found, EntriesFor
  <2>3. PICK i \in DOMAIN impt[s] : Found = [kind |-> "entry", module |-> s, index |-> i]
    BY <2>2
  <2>4. state' = Key(impt[s][i]) /\ buf' = buf \cup {<<s, i>>}
    BY <2>1, <2>3 DEF FoundEntry, Key
  <2>5. state' \in Ident \X Seq(STRING)
    BY <2>4, EntryOf DEF IsEntry, Key
  <2>6. Found # None
    BY <2>1 DEF None
  <2>7. ASSUME state' \in Node, NEW m \in batch, NEW j \in DOMAIN impt[m], <<m, j>> \in buf',
               Key(impt[m][j]) \in Node
        PROVE  LeadsTo(Key(impt[m][j]), state)'
    <3>1. PICK x, y : x = Key(impt[m][j]) /\ y = Key(impt[s][i])
      OBVIOUS
    <3>2. ASSUME <<m, j>> \in buf, NEW D \in Trails(x) PROVE y \in D
      <4>1. state = <<state[1], state[2]>> /\ LeadsTo(x, state)
        BY <2>1, <2>6, <3>1, <3>2, ChainAt
      <4>2. D \in Trails(<<state[1], state[2]>>)
        BY <3>2, <4>1 DEF LeadsTo, Trails
      <4>3. Key(impt[s][i]) \in D
        BY <2>3, <2>4, <2>7, <4>2, LookupLeads DEF Found
      <4>. QED BY <3>1, <4>3
    <3>3. LeadsTo(x, y)
      <4>1. CASE <<m, j>> \in buf
        BY <3>2, <4>1 DEF LeadsTo
      <4>2. CASE <<m, j>> = <<s, i>>
        BY <3>1, <4>2 DEF LeadsTo, Trails
      <4>. QED BY <2>4, <2>7, <4>1, <4>2
    <3>4. x \in Node /\ x[1] \in Symid
      BY <2>7, <3>1 DEF Node
    <3>5. LeadsTo(x, y)'
      BY <2>1, <3>3, <3>4, LeadsKept
    <3>6. Key(impt'[m][j]) = x /\ state' = y
      BY <2>1, <2>4, <3>1
    <3>. QED BY <3>5, <3>6 DEF Key
  <2>. QED BY <2>1, <2>5, <2>7 DEF ChainLeads
<1>5. (\E M : AddCheckFiles(M)) \/ (\E x, t : Recheck(x, t)) \/ Preprocess \/ Dump => phase' # "chain"
  BY DEF AddCheckFiles, Recheck, Preprocess, Dump
<1>6. (\E m \in Symid : VisitModule(m)) \/ ImportModule \/ ImportLoop \/ NothingFound \/ ValueFound \/ AllVisited
        => phase' # "chain"
  BY DEF VisitModule, ImportModule, ImportLoop, NothingFound, ValueFound, AllVisited
<1>7. CASE Resolve /\ UNCHANGED clients
  BY <1>1, <1>3, <1>4, <1>6, <1>7 DEF Resolve
<1>. QED BY <1>1, <1>2, <1>5, <1>7 DEF Next

LEMMA MeaningInit == Init => MeaningInv
<1>. SUFFICES ASSUME Init PROVE MeaningInv
  OBVIOUS
<1>1. ChainInv
  BY ChainInit
<1>2. /\ batch = {} /\ done = {} /\ phase = "idle" /\ clock = 0 /\ stamp = [m \in Symid |-> 0]
      /\ \A m \in Symid : local[m] = Empty
  BY DEF Init, TablesInit
<1>3. LocalRight
  BY <1>2 DEF LocalRight, Empty
<1>4. Clocks
  BY <1>2 DEF Clocks
<1>. QED BY <1>1, <1>2, <1>3, <1>4
     DEF MeaningInv, LocalFull, ClassesIn, CacheRight, ValuesRight, ChainLeads, Gathered

LEMMA MeaningStep == MeaningInv /\ [Next]_vars => MeaningInv'
<1>. SUFFICES ASSUME MeaningInv, [Next]_vars PROVE MeaningInv'
  OBVIOUS
<1>1. ChainInv'
  BY ChainStep DEF MeaningInv
<1>. QED BY <1>1, LocalStep, CacheStep, ValuesStep, ChainLeadsStep, ClockStep, GatherStep DEF MeaningInv

-----------------------------------------------------------------------------
(* The steps of Meaning are a trail *)

StepsFrom(f, K, m, n) ==
  /\ DOMAIN f = 0..K /\ f[0] = <<m, n>>
  /\ \A k \in 1..K : f[k] = Onward(f[k - 1][1], f[k - 1][2])

LEMMA StepsAre ==
  ASSUME NEW m, NEW n, MaxSteps \in Nat
  PROVE  StepsFrom(Steps(m, n), MaxSteps, m, n)
<1>. DEFINE T == {K \in 0..MaxSteps : ~\E f : StepsFrom(f, K, m, n)}
<1>1. T = {}
  <2>. SUFFICES ASSUME T # {} PROVE FALSE
    OBVIOUS
  <2>1. T \in SUBSET Nat
    OBVIOUS
  <2>2. PICK K \in T : \A j \in T : K <= j
    BY <2>1, FirstHit
  <2>3. CASE K = 0
    <3>1. StepsFrom([k \in 0..0 |-> <<m, n>>], K, m, n)
      BY <2>3 DEF StepsFrom
    <3>. QED BY <3>1
  <2>4. CASE K # 0
    <3>1. K - 1 \in 0..MaxSteps /\ ~(K <= K - 1)
      BY <2>4
    <3>2. PICK g : StepsFrom(g, K - 1, m, n)
      BY <2>2, <3>1
    <3>3. PICK x : x = Onward(g[K - 1][1], g[K - 1][2])
      OBVIOUS
    <3>. DEFINE f == [k \in 0..K |-> IF k = K THEN x ELSE g[k]]
    <3>4. DOMAIN f = 0..K /\ f[0] = <<m, n>>
      BY <2>4, <3>2 DEF StepsFrom
    <3>5. ASSUME NEW k \in 1..K PROVE f[k] = Onward(f[k - 1][1], f[k - 1][2])
      <4>1. f[k - 1] = g[k - 1]
        OBVIOUS
      <4>2. k # K => f[k] = g[k] /\ k \in 1..(K - 1)
        OBVIOUS
      <4>3. k = K => f[k] = x
        OBVIOUS
      <4>. HIDE DEF f
      <4>. QED BY <3>2, <3>3, <4>1, <4>2, <4>3 DEF StepsFrom
    <3>. HIDE DEF f
    <3>6. StepsFrom(f, K, m, n)
      BY <3>4, <3>5 DEF StepsFrom
    <3>. QED BY <3>6
  <2>. QED BY <2>3, <2>4
<1>2. PICK f : StepsFrom(f, MaxSteps, m, n)
  BY <1>1
<1>. DEFINE Is(g) == g = [k \in 0..MaxSteps |-> IF k = 0 THEN <<m, n>> ELSE Onward(g[k - 1][1], g[k - 1][2])]
<1>3. PICK h : h = [k \in 0..MaxSteps |-> IF k = 0 THEN <<m, n>> ELSE Onward(f[k - 1][1], f[k - 1][2])]
  OBVIOUS
<1>4. \A k \in 0..MaxSteps : h[k] = f[k]
  BY <1>2, <1>3 DEF StepsFrom
<1>5. Is(h)
  <2>1. \A k \in 0..MaxSteps : k # 0 => h[k - 1] = f[k - 1]
    BY <1>4
  <2>. QED BY <1>3, <2>1
<1>6. Steps(m, n) = CHOOSE g : Is(g)
  BY DEF Steps
<1>7. Is(Steps(m, n))
  BY <1>5, <1>6
<1>8. PICK s : s = Steps(m, n)
  OBVIOUS
<1>9. s = [k \in 0..MaxSteps |-> IF k = 0 THEN <<m, n>> ELSE Onward(s[k - 1][1], s[k - 1][2])]
  BY <1>7, <1>8
<1>10. StepsFrom(s, MaxSteps, m, n)
  BY <1>9 DEF StepsFrom
<1>. QED BY <1>8, <1>10

LEMMA MentionedHas ==
  ASSUME NEW m
  PROVE  /\ \A s \in Range(text[m].star) : PathSet(s) \subseteq Mentioned(m)
         /\ \A i \in DOMAIN text[m].impt : PathSet(text[m].impt[i].symid) \subseteq Mentioned(m)
<1>. DEFINE entries == {text[m].impt[i] : i \in DOMAIN text[m].impt}
            S == {e.symid : e \in entries} \cup Range(text[m].star)
<1>1. \A s \in S : PathSet(s) \subseteq Mentioned(m)
  BY DEF Mentioned
<1>. QED BY <1>1

\* With nothing waiting, what a module that is done asks is done.
LEMMA OnwardDone ==
  ASSUME TextInv, Gathered, Settled, NEW m \in done \ cleared, NEW n \in Ident
  PROVE  Onward(m, n) \in done \X Ident /\ Starred(m, n) \subseteq done
<1>1. batch = {} /\ waiting = {} /\ m \in Symid
  BY DEF TextInv, Queues, Settled
<1>2. Mentioned(m) \cap Symid \subseteq done
  BY <1>1 DEF Gathered
<1>3. IsText(text[m]) /\ text[m].star \in Seq(Symid)
  BY <1>1 DEF TextInv, Texts, IsText
<1>4. \A s \in Ident : s \in PathSet(s)
  BY WholePath DEF PathSet
<1>5. ASSUME NEW s \in Range(text[m].star) PROVE s \in done
  <2>1. s \in Symid /\ s \in Ident
    BY <1>3, RangeOfSeq, Typed
  <2>2. s \in Mentioned(m)
    BY <1>4, <2>1, MentionedHas
  <2>. QED BY <1>2, <2>1, <2>2
<1>6. \A i \in DOMAIN text[m].star : text[m].star[i] \in done
  BY <1>5 DEF Range
<1>7. \A i \in DOMAIN text[m].impt : text[m].impt[i].symid \in Ident /\ text[m].impt[i].origin \in Seq(STRING)
  <2>1. EntriesOf(text[m].impt, text[m].impt, {}) /\ DOMAIN text[m].impt = 1..Len(text[m].impt)
    BY <1>3, TextEntries, SeqFacts DEF EntriesOf
  <2>. QED BY <2>1 DEF EntriesOf, IsEntry
<1>8. ASSUME NEW i \in DOMAIN text[m].impt, text[m].impt[i].symid \in Symid
      PROVE  text[m].impt[i].symid \in done
  <2>1. PICK s : s = text[m].impt[i].symid
    OBVIOUS
  <2>2. s \in Mentioned(m)
    BY <1>4, <1>7, <2>1, MentionedHas
  <2>. QED BY <1>2, <1>8, <2>1, <2>2
<1>9. Starred(m, n) \subseteq done
  BY <1>5 DEF Starred
<1>10. CASE n \in Defined(m)
  BY <1>9, <1>10 DEF Onward
<1>11. CASE n \notin Defined(m) /\ ImportsOf(m, n) # {}
  <2>1. PICK i \in ImportsOf(m, n) : TRUE
    BY <1>11
  <2>2. Statement(m, n) = text[m].impt[i] /\ i \in DOMAIN text[m].impt
    BY <1>3, OneStatement
  <2>. QED BY <1>7, <1>8, <1>9, <1>11, <2>2 DEF Onward, Whole, Ident
<1>12. CASE n \notin Defined(m) /\ ImportsOf(m, n) = {}
  <2>1. Onward(m, n) = IF Stars(m, n) # {} THEN <<text[m].star[FirstOf(Stars(m, n))], n>> ELSE <<m, n>>
    BY <1>12 DEF Onward, FirstOf
  <2>2. Stars(m, n) \in SUBSET Nat /\ Stars(m, n) \subseteq DOMAIN text[m].star
    BY <1>3 DEF Stars
  <2>3. Stars(m, n) # {} => FirstOf(Stars(m, n)) \in DOMAIN text[m].star
    BY <2>2, FirstHit
  <2>. QED BY <1>6, <1>9, <2>1, <2>3
<1>. QED BY <1>10, <1>11, <1>12

LEMMA RouteTrail ==
  ASSUME MeaningInv, Settled, NEW m \in done, NEW n \in Ident,
         Traced(m, n), AllClear(m, n), Fresh(m, n)
  PROVE  Route(m, n) \in Trails(<<m, n>>) /\ \A e \in Route(m, n) : e \in done \X Ident
<1>. TextInv /\ Gathered
  BY DEF MeaningInv, ChainInv
<1>1. PICK s : s = Steps(m, n)
  OBVIOUS
<1>2. MaxSteps \in Nat
  BY BatchAssumption
<1>3. s[0] = <<m, n>> /\ \A k \in 1..MaxSteps : s[k] = Onward(s[k - 1][1], s[k - 1][2])
  BY <1>1, <1>2, StepsAre DEF StepsFrom
<1>4. PICK D : D = Route(m, n)
  OBVIOUS
<1>5. D = {s[k] : k \in 0..MaxSteps}
  BY <1>1, <1>4 DEF Route
<1>6. \A k \in 0..MaxSteps : s[k] \in done \X Ident
  <2>. DEFINE T == {k \in 0..MaxSteps : s[k] \notin done \X Ident}
  <2>. SUFFICES ASSUME T # {} PROVE FALSE
    OBVIOUS
  <2>1. T \in SUBSET Nat
    OBVIOUS
  <2>2. PICK k \in T : \A j \in T : k <= j
    BY <2>1, FirstHit
  <2>3. k # 0
    BY <1>3
  <2>4. k - 1 \in 0..MaxSteps /\ ~(k <= k - 1) /\ k \in 1..MaxSteps
    BY <1>2, <2>3
  <2>5. s[k - 1] \in done \X Ident
    BY <2>2, <2>4
  <2>6. s[k - 1][1] \in done \ cleared
    BY <1>1, <2>4, <2>5 DEF Fresh, Route, Asked
  <2>7. Onward(s[k - 1][1], s[k - 1][2]) \in done \X Ident
    BY <2>5, <2>6, OnwardDone
  <2>. QED BY <1>3, <2>4, <2>7
<1>7. \A e \in D : e \in done \X Ident
  BY <1>5, <1>6
<1>8. ASSUME NEW e \in D PROVE Onward(e[1], e[2]) \in D
  <2>1. PICK k \in 0..MaxSteps : e = s[k]
    BY <1>5
  <2>2. CASE k = MaxSteps
    BY <1>1, <1>4, <2>1, <2>2 DEF Traced
  <2>3. CASE k # MaxSteps
    <3>1. k + 1 \in 1..MaxSteps /\ (k + 1) - 1 = k /\ k + 1 \in 0..MaxSteps
      BY <1>2, <2>3
    <3>2. s[k + 1] = Onward(e[1], e[2])
      BY <1>3, <2>1, <3>1
    <3>. QED BY <1>5, <3>1, <3>2
  <2>. QED BY <2>2, <2>3
<1>9. ASSUME NEW e \in D
      PROVE  ~Muddled(e[1], e[2]) /\ \A x \in Asked(e[1], e[2]) : Serves(x, e[1])
  <2>1. e[1] \in done /\ e[2] \in Ident /\ e \in Route(m, n)
    BY <1>4, <1>7
  <2>2. e[1] \notin cleared
    BY <2>1 DEF Fresh, Asked
  <2>3. Asked(e[1], e[2]) \subseteq done
    BY <2>1, <2>2, OnwardDone DEF Asked
  <2>4. \A x \in Asked(e[1], e[2]) : x \notin cleared /\ stamp[x] <= stamp[e[1]]
    BY <2>1, <2>3 DEF Fresh
  <2>. QED BY <2>1, <2>3, <2>4 DEF AllClear, Serves, Emptied, Stamp
<1>10. <<m, n>> \in D
  BY <1>2, <1>3, <1>5
<1>11. done \subseteq Symid
  BY DEF TextInv, Queues
<1>12. D \in Trails(<<m, n>>)
  BY <1>7, <1>8, <1>9, <1>10, <1>11 DEF Trails, Trail, Node
<1>. QED BY <1>4, <1>7, <1>12

\* Where the steps come to an end they stay.
LEMMA RouteEnds ==
  ASSUME NEW m, NEW n, NEW v, EndsIn(Route(m, n), v)
  PROVE  Meaning(m, n) = v
<1>1. PICK s : s = Steps(m, n)
  OBVIOUS
<1>2. MaxSteps \in Nat
  BY BatchAssumption
<1>3. \A k \in 1..MaxSteps : s[k] = Onward(s[k - 1][1], s[k - 1][2])
  BY <1>1, <1>2, StepsAre DEF StepsFrom
<1>4. PICK e \in Route(m, n) : Onward(e[1], e[2]) = e /\ Ending(e[1], e[2]) = v
  BY DEF EndsIn
<1>5. PICK i \in 0..MaxSteps : e = s[i]
  BY <1>1, <1>4 DEF Route
<1>6. s[MaxSteps] = e
  <2>. DEFINE T == {k \in i..MaxSteps : s[k] # e}
  <2>. SUFFICES ASSUME T # {} PROVE FALSE
    BY <1>2
  <2>1. T \in SUBSET Nat
    OBVIOUS
  <2>2. PICK k \in T : \A j \in T : k <= j
    BY <2>1, FirstHit
  <2>3. k # i
    BY <1>5
  <2>4. k - 1 \in i..MaxSteps /\ ~(k <= k - 1) /\ k \in 1..MaxSteps
    BY <1>2, <2>3
  <2>5. s[k - 1] = e
    BY <2>2, <2>4
  <2>. QED BY <1>3, <1>4, <2>4, <2>5
<1>. QED BY <1>1, <1>4, <1>6 DEF Meaning

\* What the table of a module says that a name is, is what the name means in the
\* files as they were read last (LegbLookup over what Dump and AddSubmodules left
\* there): for all files, orders of visits, batches and rereads.
THEOREM TablesAlwaysRight == Spec => []TablesRight
<1>1. MeaningInv => TablesRight
  <2>. SUFFICES ASSUME MeaningInv, Settled, NEW m \in done, NEW n \in Name,
                       LegbLookup(m, n) \notin {None, AnyIns},
                       Traced(m, n), AllClear(m, n), Fresh(m, n)
       PROVE  LegbLookup(m, n) = Meaning(m, n)
    BY DEF TablesRight
  <2>1. n \in Ident
    BY SymAssumption
  <2>2. Route(m, n) \in Trails(<<m, n>>)
    BY <2>1, RouteTrail
  <2>3. TextInv /\ Kinds /\ LocalRight /\ LocalFull /\ CacheRight
    BY DEF MeaningInv, ChainInv
  <2>4. EndsIn(Route(m, n), LegbLookup(m, n))
    BY <2>2, <2>3, TableRight
  <2>. QED BY <2>4, RouteEnds
<1>. QED BY <1>1, MeaningInit, MeaningStep, PTL DEF Spec

-----------------------------------------------------------------------------
(* What is found *)

\* Every name of a trail is given by its module, and every trail ends in a
\* definition: then resolving must not give up on the name.  FoundInv says
\* where it has given up.
Named(x) == \E D \in Trails(x) : \A e \in D : Gives(e[1], e[2])
Sound(x) ==
  /\ Named(x)
  /\ \A D \in Trails(x) : \E e \in D : Onward(e[1], e[2]) = e /\ Ending(e[1], e[2]).kind = "def"

CacheFull ==
  \A m \in done : \A k \in DOMAIN cache[m] \cap Node :
    cache[m][k] = AnyIns /\ Serves(k[1], m) => ~Sound(k)
Open(m, i) == NotVisited(m, i) \/ (phase = "chain" /\ <<m, i>> \in buf)
ValuesFull ==
  \A m \in batch : \A i \in DOMAIN impt[m] :
    /\ Key(impt[m][i]) \in Node
    /\ impt[m][i].value = AnyIns \/ (impt[m][i].value = None /\ ~Open(m, i))
    => ~Sound(Key(impt[m][i]))
ChainSound ==
  phase = "chain" =>
    /\ state \in Node => state[1] \in Targets
    /\ \A m \in batch : \A i \in DOMAIN impt[m] :
         <<m, i>> \in buf /\ Key(impt[m][i]) \in Node /\ Sound(Key(impt[m][i]))
           => state \in Node /\ Sound(state)
    /\ \A s \in seen \cap Node :
         Named(s) => /\ Onward(s[1], s[2]) \in seen \cup {state}
                     /\ Onward(s[1], s[2]) = s => Ending(s[1], s[2]).kind # "def"
FoundInv == MeaningInv /\ CacheFull /\ ValuesFull /\ ChainSound

LEMMA NotFixed ==
  ASSUME NEW m, NEW n, Sound(<<m, n>>), Onward(m, n) = <<m, n>>
  PROVE  Ending(m, n).kind = "def"
<1>1. PICK D \in Trails(<<m, n>>) : TRUE
  BY DEF Sound, Named
<1>2. {<<m, n>>} \in Trails(<<m, n>>)
  BY <1>1 DEF Trails, Trail
<1>. QED BY <1>2 DEF Sound

LEMMA SoundOn ==
  ASSUME NEW m, NEW n, Sound(<<m, n>>), NEW y, y = Onward(m, n)
  PROVE  Sound(y)
<1>. DEFINE x == <<m, n>>
<1>1. PICK D \in Trails(x) : \A e \in D : Gives(e[1], e[2])
  BY DEF Sound, Named
<1>2. D \in Trails(y)
  BY TrailAt
<1>3. ASSUME NEW F \in Trails(y)
      PROVE  \E e \in F : Onward(e[1], e[2]) = e /\ Ending(e[1], e[2]).kind = "def"
  <2>. DEFINE E == F \cup {x}
  <2>1. E \in Trails(x)
    <3>1. E \in SUBSET Node /\ x \in E
      BY <1>1 DEF Trails
    <3>2. ASSUME NEW e \in E
          PROVE  /\ Onward(e[1], e[2]) \in E /\ ~Muddled(e[1], e[2])
                 /\ \A s \in Asked(e[1], e[2]) : Serves(s, e[1])
      <4>1. CASE e = x
        BY <1>1, <4>1 DEF Trails, Trail
      <4>2. CASE e \in F
        BY <1>1, <4>2 DEF Trails, Trail
      <4>. QED BY <4>1, <4>2
    <3>. QED BY <3>1, <3>2 DEF Trails, Trail
  <2>2. PICK e \in E : Onward(e[1], e[2]) = e /\ Ending(e[1], e[2]).kind = "def"
    BY <2>1 DEF Sound
  <2>3. e = x => e \in F
    BY <2>2 DEF Trails
  <2>. QED BY <2>2, <2>3
<1>. QED BY <1>1, <1>2, <1>3 DEF Sound, Named

LEMMA StatementSound ==
  ASSUME TextInv, NEW m, NEW n, Sound(<<m, n>>), NEW i \in ImportsOf(m, n),
         NEW k, k = Key(text[m].impt[i])
  PROVE  k \in Node /\ Onward(m, n) = k /\ Sound(k) /\ Serves(k[1], m)
<1>. DEFINE e == text[m].impt[i]
<1>1. PICK D \in Trails(<<m, n>>) : TRUE
  BY DEF Sound, Named
<1>2. m \in Symid /\ ~Muddled(m, n) /\ Serves(Onward(m, n)[1], m) /\ Onward(m, n) \in D
  BY TrailAt
<1>3. IsText(text[m])
  BY <1>2 DEF TextInv, Texts
<1>4. Statement(m, n) = e /\ ImportsOf(m, n) # {}
  BY <1>3, OneStatement
<1>5. n \notin Defined(m)
  BY <1>2, <1>4 DEF Muddled
<1>6. e.origin # Whole /\ e.symid \in Symid
  <2>. SUFFICES ASSUME e.origin = Whole \/ e.symid \notin Symid PROVE FALSE
    OBVIOUS
  <2>1. Onward(m, n) = <<m, n>>
    BY <1>4, <1>5 DEF Onward
  <2>2. Ending(m, n) = None \/ Ending(m, n) = Mod(e.symid)
    BY <1>4, <1>5 DEF Ending
  <2>3. Ending(m, n).kind # "def"
    BY <2>2 DEF None, Mod
  <2>. QED BY <2>1, <2>3, NotFixed
<1>7. Onward(m, n) = k
  BY <1>4, <1>5, <1>6 DEF Onward, Key
<1>8. k \in Node
  BY <1>1, <1>2, <1>7 DEF Trails
<1>. QED BY <1>2, <1>7, <1>8, SoundOn

LEMMA TableFound ==
  ASSUME TextInv, Kinds, LocalRight, LocalFull, CacheRight, CacheFull,
         NEW m \in done, NEW n, Sound(<<m, n>>)
  PROVE  LegbLookup(m, n) \notin {None, AnyIns}
<1>1. PICK D \in Trails(<<m, n>>) : \A e \in D : Gives(e[1], e[2])
  BY DEF Sound, Named
<1>2. m \in Symid /\ ~Muddled(m, n) /\ Gives(m, n) /\ m \notin cleared
  BY <1>1, TrailAt DEF Trails
<1>3. n \in DOMAIN local[m]
  BY <1>2 DEF LocalFull, Gives, ImportsOf
<1>. DEFINE v == TypeIn(local, m, n)
            entry == local[m][n]
<1>4. v # None
  BY <1>2, <1>3, TypeThere
<1>5. LegbLookup(m, n) = v
  BY <1>3, <1>4, LookupLocalIs DEF LegbLookup, LocalIn
<1>6. v # AnyIns
  <2>. SUFFICES ASSUME v = AnyIns PROVE FALSE
    OBVIOUS
  <2>1. entry.kind \in {"def", "module", "import"}
    BY <1>2, <1>3 DEF Kinds
  <2>2. entry.kind = "import"
    BY <2>1 DEF TypeIn, AnyIns
  <2>3. Key(entry) \in DOMAIN cache[m] /\ cache[m][Key(entry)] = AnyIns
    BY <1>2, <1>3, <2>2 DEF Kinds, TypeIn
  <2>4. ~(n \in Symid \cap Taken(m) /\ ImportsOf(m, n) = {})
    BY <1>2 DEF Muddled, TakenOver, IsPlainImport
  <2>5. PICK i \in ImportsOf(m, n) : Key(text[m].impt[i]) = Key(entry)
    BY <1>2, <1>3, <2>2, <2>4 DEF LocalRight, Stands
  <2>6. PICK k : k = Key(entry)
    OBVIOUS
  <2>7. k \in Node /\ Sound(k) /\ Serves(k[1], m)
    BY <2>5, <2>6, StatementSound
  <2>. QED BY <2>3, <2>6, <2>7 DEF CacheFull
<1>. QED BY <1>4, <1>5, <1>6

\* A name that a module gives is not looked for elsewhere.
LEMMA LookupGiven ==
  ASSUME TextInv, NEW m, NEW n, Gives(m, n)
  PROVE  /\ m \in batch => GetDef(m, n) # None /\ Lookup(m, n) = GetDef(m, n)
         /\ m \notin batch => Lookup(m, n) = IF m \in done THEN LegbLookup(m, n) ELSE None
<1>1. Lookup(m, n) = LookupIn(impt, LegbLookup(m, n), m, n)
  BY LookupIs
<1>2. CASE m \in batch
  BY <1>1, <1>2, GetDefIs, GivesGet DEF LookupIn
<1>3. CASE m \notin batch
  BY <1>1, <1>3 DEF LookupIn, BatchHits, Targets
<1>. QED BY <1>2, <1>3

LEMMA LookupFound ==
  ASSUME FoundInv, NEW m \in Targets, NEW n, Sound(<<m, n>>)
  PROVE  Lookup(m, n) \notin {None, AnyIns}
<1>. TextInv /\ Kinds /\ LocalRight /\ LocalFull /\ CacheRight /\ CacheFull /\ ValuesFull
  BY DEF FoundInv, MeaningInv, ChainInv
<1>1. PICK D \in Trails(<<m, n>>) : \A e \in D : Gives(e[1], e[2])
  BY DEF Sound, Named
<1>2. ~Muddled(m, n) /\ Gives(m, n)
  BY <1>1, TrailAt DEF Trails
<1>3. CASE m \notin batch
  <2>1. m \in done
    BY <1>3 DEF Targets
  <2>. QED BY <1>2, <1>3, <2>1, LookupGiven, TableFound
<1>4. CASE m \in batch
  <2>. DEFINE v == GetDef(m, n)
  <2>1. v # None /\ Lookup(m, n) = v
    BY <1>2, <1>4, LookupGiven
  <2>2. ~TakenOver(m, n)
    BY <1>2 DEF Muddled
  <2>. HIDE DEF v
  <2>3. v # AnyIns
    <3>. SUFFICES ASSUME v = AnyIns PROVE FALSE
      OBVIOUS
    <3>1. \A x : Def(m, n, x) # AnyIns
      BY DEF Def, AnyIns
    <3>2. PICK i \in ImportsOf(m, n) :
             /\ i \in DOMAIN impt[m] /\ Key(impt[m][i]) = Key(text[m].impt[i])
             /\ v = Shown(impt, m, i)
      BY <1>4, <2>1, <2>2, <3>1, GetRight DEF v
    <3>3. impt[m][i].value = AnyIns
      BY <3>2 DEF Shown, AnyIns
    <3>4. PICK k : k = Key(text[m].impt[i])
      OBVIOUS
    <3>5. k \in Node /\ Sound(k)
      BY <3>4, StatementSound
    <3>. QED BY <1>4, <3>2, <3>3, <3>4, <3>5 DEF ValuesFull
  <2>. QED BY <2>1, <2>3
<1>. QED BY <1>3, <1>4

\* An entry that is found for a name of its module is where to look next, if any.
LEMMA NamedStep ==
  ASSUME TextInv, Kinds, NEW m, NEW n, Named(<<m, n>>), NEW s, NEW i,
         Lookup(m, n) = [kind |-> "entry", module |-> s, index |-> i]
  PROVE  Onward(m, n) \in {Key(impt[s][i]), <<m, n>>} /\ Ending(m, n).kind # "def"
<1>1. PICK D \in Trails(<<m, n>>) : \A e \in D : Gives(e[1], e[2])
  BY DEF Named
<1>2. m \in Symid /\ ~Muddled(m, n) /\ Gives(m, n)
  BY <1>1, TrailAt DEF Trails
<1>3. LegbLookup(m, n).kind # "entry" /\ None.kind # "entry"
  BY <1>2, LegbKind DEF None
<1>4. m \in batch /\ GetDef(m, n) # None /\ Lookup(m, n) = GetDef(m, n)
  BY <1>2, <1>3, LookupGiven
<1>5. ~TakenOver(m, n)
  BY <1>2 DEF Muddled
<1>6. Def(m, n, version[m]).kind # "entry"
  BY DEF Def
<1>7. PICK j \in ImportsOf(m, n) :
           /\ j \in DOMAIN impt[m] /\ Key(impt[m][j]) = Key(text[m].impt[j])
           /\ GetDef(m, n) = Shown(impt, m, j)
  BY <1>4, <1>5, <1>6, GetRight
<1>8. impt[m][j].value.kind # "entry"
  BY <1>2, <1>4, <1>7 DEF Kinds
<1>9. s = m /\ i = j
  BY <1>4, <1>7, <1>8 DEF Shown
<1>10. IsText(text[m])
  BY <1>2 DEF TextInv, Texts
<1>11. Statement(m, n) = text[m].impt[j] /\ ImportsOf(m, n) # {}
  BY <1>10, OneStatement
<1>12. n \notin Defined(m)
  BY <1>2, <1>11 DEF Muddled
<1>13. Onward(m, n) \in {Key(text[m].impt[j]), <<m, n>>}
  BY <1>11, <1>12 DEF Onward, Key
<1>14. Ending(m, n) = None \/ Ending(m, n) = Mod(text[m].impt[j].symid)
  BY <1>11, <1>12 DEF Ending
<1>15. Ending(m, n).kind # "def"
  BY <1>14 DEF None, Mod
<1>. QED BY <1>7, <1>9, <1>13, <1>15

LEMMA SoundSame ==
  ASSUME UNCHANGED <<text, version, done, cleared, stamp, clock>>
  PROVE  \A x : (Named(x)' <=> Named(x)) /\ (Sound(x)' <=> Sound(x))
<1>1. \A m, n : /\ Onward(m, n)' = Onward(m, n) /\ Ending(m, n)' = Ending(m, n)
                /\ (Muddled(m, n)' <=> Muddled(m, n))
                /\ Asked(m, n)' = Asked(m, n) /\ (Gives(m, n)' <=> Gives(m, n))
  BY SameNode
<1>2. \A s, m : Serves(s, m)' <=> Serves(s, m)
  BY DEF Serves, Emptied, Stamp
<1>3. \A D : Trail(D)' <=> Trail(D)
  BY <1>1, <1>2 DEF Trail
<1>4. \A x : Trails(x)' = Trails(x)
  BY <1>3 DEF Trails, Node
<1>. QED BY <1>1, <1>4 DEF Named, Sound

LEMMA SoundKept ==
  ASSUME TextInv, NEW S, Keeps(S), NEW x \in Node, x[1] \in S, Sound(x)'
  PROVE  Sound(x)
<1>1. PICK D \in Trails(x)' : \A e \in D : Gives(e[1], e[2])'
  BY DEF Sound, Named
<1>2. PICK E \in Trails(x) : \A e \in E :
           /\ e \in D /\ Onward(e[1], e[2])' = Onward(e[1], e[2])
           /\ Ending(e[1], e[2])' = Ending(e[1], e[2])
           /\ (Gives(e[1], e[2])' <=> Gives(e[1], e[2]))
  BY <1>1, KeptTrail
<1>3. ASSUME NEW F \in Trails(x)
      PROVE  \E e \in F : Onward(e[1], e[2]) = e /\ Ending(e[1], e[2]).kind = "def"
  <2>. DEFINE G == F \cap E
  <2>1. G \in SUBSET Node /\ x \in G
    BY <1>2 DEF Trails
  <2>2. ASSUME NEW e \in G
        PROVE  /\ Onward(e[1], e[2])' \in G /\ ~(Muddled(e[1], e[2])')
               /\ \A s \in Asked(e[1], e[2])' : Serves(s, e[1])'
    <3>1. Onward(e[1], e[2]) \in G
      BY DEF Trails, Trail
    <3>2. e \in D /\ Onward(e[1], e[2])' = Onward(e[1], e[2])
      BY <1>2
    <3>. QED BY <1>1, <3>1, <3>2 DEF Trails, Trail
  <2>. HIDE DEF G
  <2>3. G \in Trails(x)'
    BY <2>1, <2>2 DEF Trails, Trail
  <2>4. PICK e \in G : Onward(e[1], e[2])' = e /\ Ending(e[1], e[2])'.kind = "def"
    BY <2>3 DEF Sound
  <2>. QED BY <1>2, <2>4 DEF G
<1>. QED BY <1>1, <1>2, <1>3 DEF Sound, Named

LEMMA NodeEntry ==
  ASSUME TextInv, NEW m \in batch, NEW i \in DOMAIN impt[m], Key(impt[m][i]) \in Node
  PROVE  /\ m \in Symid /\ i \in 1..Len(text[m].impt) /\ i \in Nat /\ Len(text[m].impt) \in Nat
<1>. DEFINE t == text[m].impt
<1>1. m \in Symid /\ EntriesOf(impt[m], t, Taken(m)) /\ IsText(text[m])
  BY DEF TextInv, Queues, Texts, Entries
<1>2. /\ Len(t) \in Nat /\ DOMAIN t = 1..Len(t) /\ i \in 1..Len(impt[m]) /\ Len(impt[m]) \in Nat
  BY <1>1, TextEntries, SeqFacts DEF EntriesOf
<1>3. impt[m][i].origin # Whole /\ impt[m][i].symid \in Symid
  BY Typed DEF Node, Key, Whole
<1>4. i <= Len(t)
  BY <1>1, <1>2, <1>3 DEF EntriesOf
<1>. QED BY <1>1, <1>2, <1>4

\* In a batch it is known who answers for a module that is imported from.
LEMMA NodeTarget ==
  ASSUME TextInv, Gathered, NEW m \in batch, NEW i \in DOMAIN impt[m], Key(impt[m][i]) \in Node
  PROVE  Key(impt[m][i])[1] \in Targets
<1>. DEFINE t == text[m].impt
            s == impt[m][i].symid
<1>1. i \in 1..Len(t) /\ m \in Symid /\ EntriesOf(impt[m], t, Taken(m)) /\ IsText(text[m])
  BY NodeEntry DEF TextInv, Queues, Texts, Entries
<1>2. i \in DOMAIN t /\ s = t[i].symid
  BY <1>1, TextEntries, SeqFacts DEF EntriesOf
<1>3. s \in Symid /\ s \in Ident
  BY Typed DEF Node, Key
<1>4. s \in PathSet(s)
  BY <1>3, WholePath DEF PathSet
<1>5. s \in Mentioned(m)
  BY <1>2, <1>4, MentionedHas
<1>6. waiting \subseteq batch
  BY DEF TextInv, Queues
<1>. QED BY <1>3, <1>5, <1>6 DEF Gathered, Targets, Key

LEMMA NotVisitedStep ==
  ASSUME TextInv, NEW m \in batch, NEW i \in 1..Len(text[m].impt), NotVisited(m, i),
         Resolve, UNCHANGED clients, ImportModule \/ ImportFrom => ~(m = current /\ i = Index)
  PROVE  NotVisited(m, i)'
<1>1. m \in Symid /\ Len(text[m].impt) \in Nat
  <2>1. m \in Symid /\ IsText(text[m])
    BY DEF TextInv, Queues, Texts
  <2>. QED BY <2>1, TextEntries, SeqFacts DEF EntriesOf
<1>2. CASE UNCHANGED <<text, waiting, current, at>>
  BY <1>2 DEF NotVisited, Index
<1>3. ASSUME NEW s \in Symid, VisitModule(s) PROVE NotVisited(m, i)'
  <2>1. /\ phase = "visit" /\ at = 0 /\ s \in waiting /\ current' = s /\ waiting' = waiting \ {s}
        /\ at' = Len(impt[s]) /\ text' = text
    BY <1>3 DEF VisitModule, sources
  <2>2. Len(impt[s]) = Len(text[s].impt)
    BY <2>1 DEF TextInv, Entries
  <2>3. m # s => m \in waiting'
    BY <1>1, <2>1 DEF NotVisited, Index
  <2>4. m = s => i >= Index'
    BY <1>1, <2>1, <2>2 DEF Index
  <2>. QED BY <2>1, <2>3, <2>4 DEF NotVisited
<1>4. CASE ImportModule \/ ImportFrom
  <2>1. /\ at > 0 /\ at' = at - 1 /\ waiting' = waiting /\ current' = current /\ text' = text
        /\ at \in Nat
    BY <1>4 DEF ImportModule, ImportFrom, sources, TextInv, Queues
  <2>2. ~(m = current /\ i = Index)
    BY <1>4
  <2>. QED BY <1>1, <2>1, <2>2 DEF NotVisited, Index
<1>5. ImportLoop \/ Follow \/ NothingFound \/ ValueFound \/ AllVisited
        => UNCHANGED <<text, waiting, current, at>>
  BY DEF ImportLoop, Follow, NothingFound, ValueFound, AllVisited, sources, visit
<1>. QED BY <1>2, <1>3, <1>4, <1>5 DEF Resolve

\* The chain gives up only on names that are not sound.
LEMMA GivesUp ==
  ASSUME FoundInv, phase = "chain", state \in Node, state \in seen \/ Found \in {None, AnyIns}
  PROVE  ~Sound(state)
<1>. SUFFICES ASSUME Sound(state) PROVE FALSE
  OBVIOUS
<1>1. state = <<state[1], state[2]>>
  BY DEF Node
<1>2. CASE Found \in {None, AnyIns}
  <2>1. state[1] \in Targets
    BY DEF FoundInv, ChainSound
  <2>2. Sound(<<state[1], state[2]>>)
    BY <1>1
  <2>. QED BY <1>2, <2>1, <2>2, LookupFound DEF Found
<1>3. CASE state \in seen
  <2>1. PICK D \in Trails(state) : \A e \in D : Gives(e[1], e[2])
    BY DEF Sound, Named
  <2>. DEFINE C == D \cap seen
  <2>2. ASSUME NEW e \in C
        PROVE  Onward(e[1], e[2]) \in C /\ (Onward(e[1], e[2]) = e => Ending(e[1], e[2]).kind # "def")
    <3>1. e \in Node /\ D \in Trails(e) /\ Onward(e[1], e[2]) \in D
      BY DEF Trails, Trail
    <3>2. Named(e)
      BY <2>1, <3>1 DEF Named
    <3>. QED BY <1>3, <3>1, <3>2 DEF FoundInv, ChainSound
  <2>3. C \in Trails(state)
    BY <1>3, <2>2 DEF Trails, Trail
  <2>. QED BY <2>2, <2>3 DEF Sound
<1>. QED BY <1>2, <1>3

LEMMA CacheFullStep ==
  ASSUME FoundInv, [Next]_vars
  PROVE  CacheFull'
<1>. TextInv /\ Clocks /\ CacheFull /\ ValuesFull
  BY DEF FoundInv, MeaningInv, ChainInv
<1>1. DOMAIN cache = Symid /\ done \subseteq Symid /\ batch \subseteq Symid
  BY DEF TextInv, TotalFunctions, Queues
<1>2. ASSUME NEW S, Keeps(S), NEW m \in S, NEW k \in DOMAIN cache'[m] \cap Node,
             Serves(k[1], m)',
             (m \in done /\ cache'[m] = cache[m] /\ cache'[m][k] = AnyIns) \/ ~Sound(k)
      PROVE  ~(Sound(k)')
  <2>1. k[1] \in S /\ Serves(k[1], m)
    BY <1>2 DEF Keeps, Node
  <2>2. ~Sound(k)
    BY <1>2, <2>1 DEF CacheFull
  <2>. QED BY <1>2, <2>1, <2>2, SoundKept
<1>3. CASE Keeps(Symid) /\ done' = done /\ cache' = cache
  BY <1>1, <1>2, <1>3 DEF CacheFull, Node
<1>4. ASSUME NEW e \in edits, Recheck(e[1], e[2]) PROVE CacheFull'
  <2>. DEFINE x == e[1]
  <2>1. Keeps(done \ {x}) /\ cache' = [cache EXCEPT ![x] = Empty] /\ done' \subseteq done
    BY <1>4, KeepsRecheck DEF Recheck, Clear
  <2>. HIDE DEF x
  <2>2. /\ \A m \in done' \ {x} : m \in done \ {x} /\ m \in done /\ cache'[m] = cache[m]
        /\ x \in done' => DOMAIN cache'[x] = {}
    BY <1>1, <2>1 DEF Empty
  <2>. QED BY <1>2, <2>1, <2>2 DEF CacheFull, Node
<1>5. CASE Dump
  <2>1. Keeps(Symid) /\ done' = done \cup batch
        /\ cache' = [m \in Symid |-> IF m \in batch THEN DumpedCache(impt[m]) ELSE cache[m]]
    BY <1>5, KeepsDump DEF Dump
  <2>2. \A m \in done' : m \in Symid /\ (m \in batch \/ (m \in done /\ cache'[m] = cache[m]))
    BY <1>1, <2>1
  <2>3. ASSUME NEW m \in batch, NEW k \in DOMAIN cache'[m] \cap Node, cache'[m][k] = AnyIns
        PROVE  ~Sound(k)
    <3>. DEFINE imports == impt[m]
    <3>1. m \in Symid /\ IsSeq(imports)
      BY DEF TextInv, Queues, Entries, EntriesOf
    <3>2. cache'[m] = DumpedCache(imports)
      BY <2>1, <3>1
    <3>3. k \in {Key(imports[i]) : i \in DOMAIN imports}
      BY <3>2 DEF DumpedCache
    <3>4. AnyIns = IF CachedFor(imports, k) = None THEN AnyIns ELSE CachedFor(imports, k)
      BY <2>3, <3>2, <3>3 DEF DumpedCache
    <3>5. PICK i \in DOMAIN imports : Key(imports[i]) = k /\ CachedFor(imports, k) = imports[i].value
      BY <3>1, <3>3, LastEntry
    <3>6. i \in 1..Len(text[m].impt) /\ i \in Nat /\ Len(text[m].impt) \in Nat
      BY <3>5, NodeEntry
    <3>7. phase = "resolved" /\ waiting = {} /\ at = 0
      BY <1>5 DEF Dump, TextInv, Queues
    <3>8. ~Open(m, i)
      BY <3>6, <3>7 DEF Open, NotVisited, Index
    <3>. QED BY <3>4, <3>5, <3>8 DEF ValuesFull
  <2>. QED BY <1>2, <2>1, <2>2, <2>3 DEF CacheFull, Node
<1>. QED BY <1>3, <1>4, <1>5, QuietKeeps DEF Next

LEMMA ValuesFullFrom ==
  ASSUME UNCHANGED <<text, version, done, cleared, stamp, clock>>, batch' = batch,
         \A m \in batch : \A i \in DOMAIN impt'[m] :
           /\ Key(impt'[m][i]) \in Node
           /\ impt'[m][i].value = AnyIns \/ (impt'[m][i].value = None /\ ~(Open(m, i)'))
           => ~Sound(Key(impt'[m][i]))
  PROVE  ValuesFull'
<1>1. ASSUME NEW m \in batch, NEW i \in DOMAIN impt'[m], Key(impt'[m][i]) \in Node,
             impt'[m][i].value = AnyIns \/ (impt'[m][i].value = None /\ ~(Open(m, i)'))
      PROVE  ~(Sound(Key(impt[m][i]))')
  <2>1. PICK k : k = Key(impt'[m][i])
    OBVIOUS
  <2>2. ~(Sound(k)')
    BY <1>1, <2>1, SoundSame
  <2>3. k = Key(impt[m][i])'
    BY <2>1 DEF Key
  <2>. QED BY <2>2, <2>3
<1>. QED BY <1>1 DEF ValuesFull, Key, Node

\* Steps that give no value: what was open for them stays so, or the chain gives up.
LEMMA QuietFull ==
  ASSUME FoundInv, UNCHANGED clients,
         (\E s \in Symid : VisitModule(s)) \/ ImportLoop \/ Follow \/ NothingFound \/ AllVisited
  PROVE  ValuesFull'
<1>. TextInv /\ ValuesFull /\ ChainSound
  BY DEF FoundInv, MeaningInv, ChainInv
<1>1. Resolve /\ ~(ImportModule \/ ImportFrom) /\ UNCHANGED <<text, version, done, cleared, stamp, clock, batch, impt>>
  <2>1. UNCHANGED <<text, version, done, cleared, stamp, clock, batch, impt>>
    BY DEF VisitModule, ImportLoop, Follow, NothingFound, AllVisited, sources, visit, clients
  <2>2. (\E s \in Symid : VisitModule(s)) => phase = "visit" /\ at = 0
    BY DEF VisitModule
  <2>. QED BY <2>1, <2>2 DEF Resolve, VisitModule, ImportLoop, Follow, NothingFound, AllVisited, ImportModule, ImportFrom
<1>2. ASSUME NEW m \in batch, NEW i \in DOMAIN impt[m], Key(impt[m][i]) \in Node,
             impt[m][i].value = AnyIns \/ (impt[m][i].value = None /\ ~(Open(m, i)'))
      PROVE  ~Sound(Key(impt[m][i]))
  <2>1. NotVisited(m, i) => NotVisited(m, i)'
    BY <1>1, <1>2, NodeEntry, NotVisitedStep
  <2>2. CASE phase = "chain" /\ <<m, i>> \in buf /\ (ImportLoop \/ NothingFound)
    <3>1. state \in seen \/ Found \in {None, AnyIns}
      BY <2>2 DEF ImportLoop, NothingFound
    <3>. QED BY <1>2, <2>2, <3>1, GivesUp DEF ChainSound
  <2>3. CASE ~(phase = "chain" /\ <<m, i>> \in buf /\ (ImportLoop \/ NothingFound))
    <3>1. phase = "chain" /\ <<m, i>> \in buf => phase' = "chain" /\ <<m, i>> \in buf'
      BY <2>3 DEF Follow, VisitModule, AllVisited
    <3>. QED BY <1>2, <2>1, <3>1 DEF ValuesFull, Open
  <2>. QED BY <2>2, <2>3
<1>. QED BY <1>1, <1>2, ValuesFullFrom

LEMMA FoundFull ==
  ASSUME FoundInv, ValueFound, UNCHANGED clients
  PROVE  ValuesFull'
<1>. TextInv /\ ValuesFull /\ ChainSound
  BY DEF FoundInv, MeaningInv, ChainInv
<1>1. /\ Resolve /\ ~(ImportModule \/ ImportFrom) /\ phase = "chain" /\ Found # None
      /\ UNCHANGED <<text, version, done, cleared, stamp, clock, batch>>
  BY DEF Resolve, ValueFound, ImportModule, ImportFrom, sources, clients, None
<1>2. ASSUME NEW m \in batch, NEW i \in DOMAIN impt'[m], Key(impt'[m][i]) \in Node,
             impt'[m][i].value = AnyIns \/ (impt'[m][i].value = None /\ ~(Open(m, i)'))
      PROVE  ~Sound(Key(impt'[m][i]))
  <2>1. /\ i \in DOMAIN impt[m]
        /\ impt'[m][i].symid = impt[m][i].symid /\ impt'[m][i].origin = impt[m][i].origin
        /\ impt'[m][i].value = IF <<m, i>> \in buf THEN Found ELSE impt[m][i].value
    BY ValueStep
  <2>2. Key(impt'[m][i]) = Key(impt[m][i])
    BY <2>1 DEF Key
  <2>3. NotVisited(m, i) => NotVisited(m, i)'
    BY <1>1, <1>2, <2>1, <2>2, NodeEntry, NotVisitedStep
  <2>4. CASE <<m, i>> \in buf
    BY <1>1, <1>2, <2>1, <2>2, <2>4, GivesUp DEF ChainSound
  <2>5. CASE <<m, i>> \notin buf
    BY <1>2, <2>1, <2>2, <2>3, <2>5 DEF ValuesFull, Open
  <2>. QED BY <2>4, <2>5
<1>. QED BY <1>1, <1>2, ValuesFullFrom

LEMMA BoundFull ==
  ASSUME FoundInv, ImportModule \/ ImportFrom, UNCHANGED clients
  PROVE  ValuesFull'
<1>. TextInv /\ ValuesFull /\ at > 0 /\ phase = "visit"
  BY DEF FoundInv, MeaningInv, ChainInv, ImportModule, ImportFrom
<1>1. Resolve /\ current \in batch /\ UNCHANGED <<text, version, done, cleared, stamp, clock, batch>>
  BY VisitedFacts DEF Resolve, ImportModule, ImportFrom, sources, clients
<1>. DEFINE new == impt'[current]
            old == impt[current]
            t == text[current].impt
<1>2. /\ \A m \in Symid \ {current} : impt'[m] = impt[m]
      /\ EntriesOf(new, t, Taken(current)) /\ Len(old) <= Len(new)
      /\ \A i \in 1..Len(old) : BoundOrSame(current, i)
      /\ \A i \in 1..Len(new) : i > Len(old) => new[i].value = Mod(new[i].as)
  BY BindStep
<1>3. /\ Len(old) \in Nat /\ DOMAIN old = 1..Len(old)
      /\ Len(new) \in Nat /\ DOMAIN new = 1..Len(new)
  BY <1>2, VisitedFacts, SeqFacts DEF EntriesOf
<1>4. \A x : Mod(x) \notin {None, AnyIns}
  BY DEF Mod, None, AnyIns
<1>5. ASSUME NEW m \in batch, NEW i \in DOMAIN impt'[m], Key(impt'[m][i]) \in Node,
             impt'[m][i].value = AnyIns \/ (impt'[m][i].value = None /\ ~(Open(m, i)'))
      PROVE  ~Sound(Key(impt'[m][i]))
  <2>1. m \in Symid
    BY DEF TextInv, Queues
  <2>2. /\ i \in DOMAIN impt[m] /\ Key(impt'[m][i]) = Key(impt[m][i])
        /\ impt'[m][i].value = impt[m][i].value
    <3>1. CASE m # current
      BY <1>2, <1>5, <2>1, <3>1
    <3>2. CASE m = current
      <4>1. i \in 1..Len(old)
        BY <1>2, <1>3, <1>4, <1>5, <3>2
      <4>2. BoundOrSame(current, i)
        BY <1>2, <4>1
      <4>3. new[i].origin # Whole
        BY <1>5, <3>2, Typed DEF Key, Node, Whole
      <4>. QED BY <1>3, <3>2, <4>1, <4>2, <4>3 DEF BoundOrSame, Key
    <3>. QED BY <3>1, <3>2
  <2>3. i \in 1..Len(text[m].impt)
    BY <1>5, <2>2, NodeEntry
  <2>4. CASE impt[m][i].value = AnyIns
    BY <1>5, <2>2, <2>4 DEF ValuesFull
  <2>5. CASE impt[m][i].value = None /\ ~(Open(m, i)')
    <3>1. ~(m = current /\ i = Index)
      <4>. SUFFICES ASSUME m = current, i = Index PROVE FALSE
        OBVIOUS
      <4>1. Visited.value = None /\ Visited.origin # Whole
        BY <1>5, <2>2, <2>5, Typed DEF Visited, Key, Node, Whole
      <4>2. phase' = "chain" /\ buf' = {<<current, Index>>}
        BY <4>1 DEF ImportModule, ImportFrom
      <4>. QED BY <2>5, <4>2 DEF Open
    <3>2. NotVisited(m, i) => NotVisited(m, i)'
      BY <1>1, <2>3, <3>1, NotVisitedStep
    <3>. QED BY <1>5, <2>2, <2>5, <3>2 DEF ValuesFull, Open
  <2>. QED BY <1>5, <2>2, <2>4, <2>5
<1>. QED BY <1>1, <1>5, ValuesFullFrom

LEMMA ValuesFullStep ==
  ASSUME FoundInv, [Next]_vars
  PROVE  ValuesFull'
<1>. TextInv /\ ValuesFull
  BY DEF FoundInv, MeaningInv, ChainInv
<1>1. CASE batch' = {}
  BY <1>1 DEF ValuesFull
<1>2. CASE Preprocess
  <2>1. ASSUME NEW m \in batch', NEW i \in DOMAIN impt'[m]
        PROVE  impt'[m][i].value # AnyIns /\ Open(m, i)'
    <3>1. m \in Symid /\ m \in waiting'
      BY <1>2, TextStep DEF Preprocess, TextInv, Queues
    <3>2. impt'[m] = text[m].impt /\ IsText(text[m])
      BY <1>2, <3>1 DEF Preprocess, TextInv, Texts
    <3>3. impt'[m][i].value = None
      BY <3>2, TextEntries
    <3>. QED BY <3>1, <3>3 DEF Open, NotVisited, None, AnyIns
  <2>. QED BY <2>1 DEF ValuesFull
<1>3. CASE UNCHANGED vars
  <2>1. UNCHANGED <<text, version, done, cleared, stamp, clock, batch, impt, waiting, current, at, phase, buf>>
    BY <1>3 DEF vars, sources, visit, chain, clients
  <2>2. \A m, i : Open(m, i)' <=> Open(m, i)
    BY <2>1 DEF Open, NotVisited, Index
  <2>. QED BY <2>1, <2>2, ValuesFullFrom DEF ValuesFull
<1>4. (\E M : AddCheckFiles(M)) \/ (\E x, t : Recheck(x, t)) \/ Dump => batch' = {}
  BY DEF AddCheckFiles, Recheck, Dump, TextInv, Queues
<1>5. CASE Resolve /\ UNCHANGED clients
  BY <1>5, QuietFull, FoundFull, BoundFull DEF Resolve
<1>. QED BY <1>1, <1>2, <1>3, <1>4, <1>5 DEF Next

LEMMA ChainSoundStep ==
  ASSUME FoundInv, [Next]_vars
  PROVE  ChainSound'
<1>. TextInv /\ Kinds /\ Gathered /\ ChainSound /\ ChainLeads /\ MeaningInv
  BY DEF FoundInv, MeaningInv, ChainInv
<1>1. CASE phase' # "chain"
  BY <1>1 DEF ChainSound
<1>2. ASSUME UNCHANGED <<text, version, done, cleared, stamp, clock, batch>>,
             state' \in Node => state'[1] \in Targets,
             \A m \in batch : \A i \in DOMAIN impt'[m] :
               <<m, i>> \in buf' /\ Key(impt'[m][i]) \in Node /\ Sound(Key(impt'[m][i]))
                 => state' \in Node /\ Sound(state'),
             \A s \in seen' \cap Node :
               Named(s) => /\ Onward(s[1], s[2]) \in seen' \cup {state'}
                           /\ Onward(s[1], s[2]) = s => Ending(s[1], s[2]).kind # "def"
      PROVE  ChainSound'
  <2>1. \A m, n : Onward(m, n)' = Onward(m, n) /\ Ending(m, n)' = Ending(m, n)
    BY <1>2, SameNode
  <2>2. \A x : (Named(x)' <=> Named(x)) /\ (Sound(x)' <=> Sound(x))
    BY <1>2, SoundSame
  <2>3. Targets' = Targets
    BY <1>2 DEF Targets
  <2>4. ASSUME NEW m \in batch, NEW i \in DOMAIN impt'[m], <<m, i>> \in buf',
               Key(impt'[m][i]) \in Node, Sound(Key(impt[m][i]))'
        PROVE  state' \in Node /\ Sound(state)'
    <3>1. PICK k, y : k = Key(impt'[m][i]) /\ y = state'
      OBVIOUS
    <3>2. k = Key(impt[m][i])' /\ y = state'
      BY <3>1 DEF Key
    <3>3. Sound(k)'
      BY <2>4, <3>2
    <3>4. y \in Node /\ Sound(y)
      BY <1>2, <2>2, <2>4, <3>1, <3>3
    <3>5. Sound(y)'
      BY <2>2, <3>4
    <3>. QED BY <3>2, <3>4, <3>5
  <2>5. \A m \in batch' : \A i \in DOMAIN impt'[m] :
          <<m, i>> \in buf' /\ Key(impt[m][i])' \in Node /\ Sound(Key(impt[m][i]))'
            => state' \in Node /\ Sound(state)'
    BY <1>2, <2>4 DEF Key
  <2>6. \A s \in seen' \cap Node :
          Named(s)' => /\ Onward(s[1], s[2])' \in seen' \cup {state'}
                       /\ Onward(s[1], s[2])' = s => Ending(s[1], s[2])'.kind # "def"
    BY <1>2, <2>1, <2>2
  <2>. QED BY <1>2, <2>3, <2>5, <2>6 DEF ChainSound, Node
<1>3. CASE UNCHANGED vars
  <2>1. UNCHANGED <<text, version, done, cleared, stamp, clock, batch, impt, phase, state, seen, buf>>
    BY <1>3 DEF vars, sources, visit, chain, clients
  <2>. QED BY <1>1, <1>2, <2>1 DEF ChainSound
<1>4. CASE ImportFrom /\ UNCHANGED clients
  <2>. SUFFICES ASSUME phase' = "chain" PROVE ChainSound'
    BY <1>1
  <2>1. at > 0 /\ phase = "visit" /\ UNCHANGED <<text, version, done, cleared, stamp, clock, batch>>
    BY <1>4 DEF ImportFrom, sources, clients
  <2>2. /\ current \in batch /\ Index \in DOMAIN impt[current] /\ BoundOrSame(current, Index)
    BY <1>4, <2>1, VisitedFacts, BindStep
  <2>3. Key(impt[current][Index]) = <<Visited.symid, Visited.origin>>
        /\ Key(impt'[current][Index]) = <<Visited.symid, Visited.origin>>
    BY <2>2 DEF BoundOrSame, Key, Visited
  <2>4. state' = <<Visited.symid, Visited.origin>> /\ seen' = {} /\ buf' = {<<current, Index>>}
    BY <1>4, <2>1 DEF ImportFrom
  <2>5. state' \in Node => state'[1] \in Targets
    BY <2>2, <2>3, <2>4, NodeTarget
  <2>6. ASSUME NEW m, NEW i, <<m, i>> \in buf' PROVE Key(impt'[m][i]) = state'
    BY <2>3, <2>4, <2>6
  <2>. QED BY <1>2, <2>1, <2>4, <2>5, <2>6
<1>5. CASE Follow /\ UNCHANGED clients
  <2>1. /\ phase = "chain" /\ Found.kind = "entry" /\ seen' = seen \cup {state}
        /\ state' = <<FoundEntry.symid, FoundEntry.origin>>
        /\ buf' = buf \cup {<<Found.module, Found.index>>}
        /\ UNCHANGED <<text, version, done, cleared, stamp, clock, batch, impt>>
    BY <1>5 DEF Follow, visit, sources, clients
  <2>2. PICK s \in batch : \E i \in DOMAIN impt[s] : Found = [kind |-> "entry", module |-> s, index |-> i]
    BY <2>1, LookupFrom DEF Found, EntriesFor
  <2>3. PICK i \in DOMAIN impt[s] : Found = [kind |-> "entry", module |-> s, index |-> i]
    BY <2>2
  <2>4. PICK y : y = Key(impt[s][i])
    OBVIOUS
  <2>5. state' = y /\ buf' = buf \cup {<<s, i>>}
    BY <2>1, <2>3, <2>4 DEF FoundEntry, Key
  <2>6. y \in Node => y[1] \in Targets
    BY <2>4, NodeTarget
  <2>7. PICK m, n : m = state[1] /\ n = state[2]
    OBVIOUS
  <2>8. state = <<m, n>>
    BY <2>1, <2>7 DEF ChainLeads
  <2>9. Lookup(m, n) = [kind |-> "entry", module |-> s, index |-> i]
    BY <2>3, <2>7 DEF Found
  <2>10. ASSUME Named(<<m, n>>)
         PROVE  Onward(m, n) \in {y, <<m, n>>} /\ Ending(m, n).kind # "def"
    BY <2>4, <2>9, <2>10, NamedStep
  <2>11. ASSUME NEW r \in batch, NEW j \in DOMAIN impt[r], <<r, j>> \in buf',
                Key(impt[r][j]) \in Node, Sound(Key(impt[r][j]))
         PROVE  y \in Node /\ Sound(y)
    <3>1. CASE <<r, j>> \in buf
      <4>1. state \in Node /\ Sound(state)
        BY <2>1, <2>11, <3>1 DEF ChainSound
      <4>2. Onward(m, n) \in {y, <<m, n>>} /\ Ending(m, n).kind # "def"
        BY <2>8, <2>10, <4>1 DEF Sound
      <4>3. Onward(m, n) = y
        BY <2>8, <4>1, <4>2, NotFixed
      <4>4. PICK D \in Trails(<<m, n>>) : TRUE
        BY <2>8, <4>1 DEF Sound, Named
      <4>5. y \in Node
        BY <4>3, <4>4 DEF Trails, Trail
      <4>. QED BY <2>8, <4>1, <4>3, <4>5, SoundOn
    <3>2. CASE <<r, j>> = <<s, i>>
      BY <2>4, <2>11, <3>2
    <3>. QED BY <2>5, <2>11, <3>1, <3>2
  <2>12. ASSUME NEW x \in seen' \cap Node, Named(x)
         PROVE  /\ Onward(x[1], x[2]) \in seen' \cup {y}
                /\ Onward(x[1], x[2]) = x => Ending(x[1], x[2]).kind # "def"
    <3>1. CASE x = state
      BY <2>1, <2>7, <2>8, <2>10, <2>12, <3>1
    <3>2. CASE x \in seen
      BY <2>1, <2>12, <3>2 DEF ChainSound
    <3>. QED BY <2>1, <3>1, <3>2
  <2>. QED BY <1>2, <2>1, <2>5, <2>6, <2>11, <2>12
<1>6. (\E M : AddCheckFiles(M)) \/ (\E x, t : Recheck(x, t)) \/ Preprocess \/ Dump => phase' # "chain"
  BY DEF AddCheckFiles, Recheck, Preprocess, Dump
<1>7. (\E m \in Symid : VisitModule(m)) \/ ImportModule \/ ImportLoop \/ NothingFound \/ ValueFound \/ AllVisited
        => phase' # "chain"
  BY DEF VisitModule, ImportModule, ImportLoop, NothingFound, ValueFound, AllVisited
<1>8. CASE Resolve /\ UNCHANGED clients
  BY <1>1, <1>4, <1>5, <1>7, <1>8 DEF Resolve
<1>. QED BY <1>1, <1>3, <1>6, <1>8 DEF Next

LEMMA FoundInit == Init => FoundInv
<1>. SUFFICES ASSUME Init PROVE FoundInv
  OBVIOUS
<1>1. batch = {} /\ done = {} /\ phase = "idle"
  BY DEF Init, TablesInit
<1>. QED BY <1>1, MeaningInit DEF FoundInv, CacheFull, ValuesFull, ChainSound

LEMMA FoundStep == FoundInv /\ [Next]_vars => FoundInv'
<1>. SUFFICES ASSUME FoundInv, [Next]_vars PROVE FoundInv'
  OBVIOUS
<1>1. MeaningInv'
  BY MeaningStep DEF FoundInv
<1>. QED BY <1>1, CacheFullStep, ValuesFullStep, ChainSoundStep DEF FoundInv

\* Every trail follows the steps of the name, and so comes to what it means.
LEMMA RouteSound ==
  ASSUME MeaningInv, Settled, NEW m \in done, NEW n \in Ident,
         ByName(m, n), Meaning(m, n).kind = "def", AllClear(m, n), Fresh(m, n)
  PROVE  Traced(m, n) /\ Sound(<<m, n>>)
<1>1. PICK s : s = Steps(m, n)
  OBVIOUS
<1>2. MaxSteps \in Nat
  BY BatchAssumption
<1>3. s[0] = <<m, n>> /\ \A k \in 1..MaxSteps : s[k] = Onward(s[k - 1][1], s[k - 1][2])
  BY <1>1, <1>2, StepsAre DEF StepsFrom
<1>4. PICK e : e = s[MaxSteps]
  OBVIOUS
<1>5. Onward(e[1], e[2]) = e /\ Ending(e[1], e[2]).kind = "def"
  BY <1>1, <1>4 DEF Meaning, None
<1>6. Traced(m, n)
  BY <1>1, <1>2, <1>4, <1>5 DEF Traced, Route
<1>7. Route(m, n) \in Trails(<<m, n>>)
  BY <1>6, RouteTrail
<1>8. Named(<<m, n>>)
  BY <1>7 DEF Named, ByName
<1>9. ASSUME NEW F \in Trails(<<m, n>>) PROVE e \in F
  <2>. DEFINE T == {k \in 0..MaxSteps : s[k] \notin F}
  <2>. SUFFICES ASSUME T # {} PROVE FALSE
    BY <1>2, <1>4
  <2>1. T \in SUBSET Nat
    OBVIOUS
  <2>2. PICK k \in T : \A j \in T : k <= j
    BY <2>1, FirstHit
  <2>3. k # 0
    BY <1>3 DEF Trails
  <2>4. k - 1 \in 0..MaxSteps /\ ~(k <= k - 1) /\ k \in 1..MaxSteps
    BY <1>2, <2>3
  <2>5. s[k - 1] \in F
    BY <2>2, <2>4
  <2>6. Onward(s[k - 1][1], s[k - 1][2]) \in F
    BY <2>5 DEF Trails, Trail
  <2>. QED BY <1>3, <2>4, <2>6
<1>. QED BY <1>5, <1>6, <1>8, <1>9 DEF Sound

\* A name whose meaning is a definition, and that is reached from name to name,
\* is known to the table (Follow, ValueFound, AllVisited and Dump have not given
\* up on it), and as that definition.
THEOREM TablesAlwaysFound == Spec => []TablesFound
<1>1. FoundInv => TablesFound
  <2>. SUFFICES ASSUME FoundInv, Settled, NEW m \in done, NEW n \in Name,
                       ByName(m, n), Meaning(m, n).kind = "def", AllClear(m, n), Fresh(m, n)
       PROVE  LegbLookup(m, n) = Meaning(m, n)
    BY DEF TablesFound
  <2>1. n \in Ident
    BY SymAssumption
  <2>2. /\ TextInv /\ Kinds /\ LocalRight /\ LocalFull /\ CacheRight /\ CacheFull
        /\ MeaningInv
    BY DEF FoundInv, MeaningInv, ChainInv
  <2>3. Traced(m, n) /\ Sound(<<m, n>>)
    BY <2>1, <2>2, RouteSound
  <2>4. LegbLookup(m, n) \notin {None, AnyIns}
    BY <2>2, <2>3, TableFound
  <2>5. Route(m, n) \in Trails(<<m, n>>)
    BY <2>1, <2>2, <2>3, RouteTrail
  <2>6. EndsIn(Route(m, n), LegbLookup(m, n))
    BY <2>2, <2>4, <2>5, TableRight
  <2>. QED BY <2>6, RouteEnds
<1>. QED BY <1>1, FoundInit, FoundStep, PTL DEF Spec
=============================================================================
