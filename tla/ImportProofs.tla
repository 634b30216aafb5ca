---------------------------- MODULE ImportProofs ----------------------------
(***************************************************************************)
(* What resolving imports leaves behind, for all files, batches, chains of *)
(* imports, orders of visits and rereads: nothing of an old text is left   *)
(* in a table (OldTextGone), and an imported name that has a value stands  *)
(* for what the module gives that it is imported from (ImportsAgree).      *)
(*                                                                         *)
(* TextInv says how the entries of impt belong to the text of their module *)
(* and who may be in which queue.  ChainInv adds what a chain that is      *)
(* followed knows: each entry on it leads to the next or to where the      *)
(* chain is now, so the value found is right for all of them.              *)
(***************************************************************************)
EXTENDS Batches, FiniteSetTheorems, SequenceTheorems, TLAPS

IsSeq(s) == \E S : s \in Seq(S)
IsEntry(e) == \E V : e \in [as : Ident, symid : Ident, origin : Seq(STRING), value : V]

\* The statements come first, what Bound has added behind them.
EntriesOf(imports, t, names) ==
  /\ IsSeq(imports) /\ Len(t) <= Len(imports)
  /\ \A i \in 1..Len(imports) : IsEntry(imports[i])
  /\ \A i \in 1..Len(t) :
       /\ imports[i].as = t[i].as
       /\ imports[i].symid = t[i].symid /\ imports[i].origin = t[i].origin
  /\ \A i \in 1..Len(imports) : i > Len(t) =>
       /\ imports[i].as \in names \cap Symid /\ imports[i].symid = imports[i].as
       /\ imports[i].origin = Whole /\ \A j \in 1..Len(t) : t[j].as # imports[i].as

TotalFunctions ==
  /\ DOMAIN text = Symid /\ DOMAIN version = Symid /\ DOMAIN impt = Symid
  /\ DOMAIN local = Symid /\ DOMAIN cache = Symid /\ DOMAIN starOf = Symid

Queues ==
  /\ phase \in {"idle", "visit", "chain", "resolved"}
  /\ waiting \subseteq Symid /\ done \subseteq Symid /\ batch \subseteq Symid
  /\ waiting \cap done = {} /\ batch \cap done = {}
  /\ IF phase = "idle" THEN batch = {} ELSE waiting \subseteq batch
  /\ phase \in {"resolved"} => waiting = {}
  /\ at \in Nat
  /\ at > 0 => phase \in {"visit", "chain"}
  /\ at > 0 \/ phase = "chain" => current \in batch \ waiting
  /\ at > 0 => at <= Len(text[current].impt)
  /\ phase = "visit" \/ phase = "chain" => current \notin waiting
  /\ phase = "idle" => current = <<>>

Texts ==
  /\ \A m \in Symid : IsText(text[m])
  /\ adds \subseteq SUBSET Symid
  /\ \A e \in edits : e[1] \in Symid /\ IsText(e[2])

Entries ==
  \A m \in Symid :
    /\ m \notin batch => impt[m] = <<>>
    /\ m \in batch => EntriesOf(impt[m], text[m].impt, Taken(m))
    /\ phase # "idle" /\ m \in waiting => Len(impt[m]) = Len(text[m].impt)

Fits(m, n) ==
  /\ n # <<>>
  /\ Gives(m, n) \/ n \in Taken(m) \/ m \o n \in Symid
  /\ local[m][n].kind = "def" => local[m][n] = Def(m, n, version[m])

Tables ==
  \A m \in Symid :
    /\ starOf[m] = IF m \in done \ cleared THEN text[m].star ELSE <<>>
    /\ \A n \in DOMAIN local[m] : Fits(m, n)

TextInv == TotalFunctions /\ Queues /\ Texts /\ Entries /\ Tables

Kinds ==
  \A m \in Symid :
    /\ \A n \in DOMAIN local[m] :
         /\ local[m][n].kind \in {"def", "module", "import"}
         /\ local[m][n].kind = "import" => m \in done /\ Key(local[m][n]) \in DOMAIN cache[m]
    /\ \A k \in DOMAIN cache[m] : cache[m][k].kind # "entry"
    /\ m \in batch => \A i \in DOMAIN impt[m] : impt[m][i].value.kind # "entry"

NotVisited(m, i) == m \in waiting \/ (m = current /\ i >= Index)
WholeLater ==
  \A m \in batch : \A i \in 1..Len(text[m].impt) :
    impt[m][i].origin = Whole /\ impt[m][i].as \notin Symid /\ NotVisited(m, i)
      => impt[m][i].value = None

Onto(m, i) ==
  \/ <<impt[m][i].symid, impt[m][i].origin>> = state
  \/ \E s \in batch : \E j \in DOMAIN impt[s] :
       /\ <<s, j>> \in buf
       /\ Lookup(impt[m][i].symid, impt[m][i].origin) = [kind |-> "entry", module |-> s, index |-> j]
Followed ==
  phase = "chain" =>
    \A b \in buf : \E m \in batch : \E i \in DOMAIN impt[m] :
      b = <<m, i>> /\ impt[m][i].value = None /\ Onto(m, i)

AllAgree == \A m \in batch : \A i \in DOMAIN impt[m] : Agrees(m, i)

ChainInv == TextInv /\ Kinds /\ WholeLater /\ Followed /\ AllAgree

-----------------------------------------------------------------------------
(* Sequences and entries *)

LEMMA SeqFacts ==
  ASSUME NEW s, IsSeq(s)
  PROVE  Len(s) \in Nat /\ DOMAIN s = 1..Len(s) /\ s = [i \in 1..Len(s) |-> s[i]]
<1>1. PICK S : s \in Seq(S)
  BY DEF IsSeq
<1>. QED BY <1>1

LEMMA IsSeqBy ==
  ASSUME NEW n \in Nat, NEW f, f = [i \in 1..n |-> f[i]]
  PROVE  IsSeq(f) /\ Len(f) = n /\ DOMAIN f = 1..n
<1>. DEFINE S == {f[i] : i \in 1..n}
<1>1. f \in [1..n -> S]
  OBVIOUS
<1>2. f \in Seq(S)
  BY <1>1
<1>3. Len(f) \in Nat /\ 1..Len(f) = 1..n
  BY <1>1, <1>2
<1>4. ~(n < Len(f))
  <2>1. n < Len(f) => Len(f) \in 1..n
    BY <1>3
  <2>. QED BY <1>3, <2>1
<1>5. ~(Len(f) < n)
  <2>1. Len(f) < n => n \in 1..Len(f)
    BY <1>3
  <2>. QED BY <1>3, <2>1
<1>6. Len(f) = n
  BY <1>3, <1>4, <1>5
<1>. QED BY <1>1, <1>2, <1>6 DEF IsSeq

LEMMA SeqConcat ==
  ASSUME NEW s, NEW t, IsSeq(s), IsSeq(t)
  PROVE  /\ IsSeq(s \o t) /\ Len(s \o t) = Len(s) + Len(t)
         /\ \A i \in 1..Len(s) : (s \o t)[i] = s[i]
         /\ \A i \in 1..(Len(s) + Len(t)) : i > Len(s) => i - Len(s) \in 1..Len(t) /\ (s \o t)[i] = t[i - Len(s)]
<1>1. PICK S : s \in Seq(S)
  BY DEF IsSeq
<1>2. PICK T : t \in Seq(T)
  BY DEF IsSeq
<1>3. s \in Seq(S \cup T) /\ t \in Seq(S \cup T)
  BY <1>1, <1>2
<1>4. s \o t \in Seq(S \cup T)
  BY <1>3
<1>5. Len(s) \in Nat /\ Len(t) \in Nat
  BY <1>3
<1>. QED BY <1>3, <1>4, <1>5 DEF IsSeq

WithValue(e, v) == [e EXCEPT !.value = v]
LEMMA ValueSet ==
  ASSUME NEW e, IsEntry(e), NEW v
  PROVE  /\ IsEntry(WithValue(e, v))
         /\ WithValue(e, v).as = e.as /\ WithValue(e, v).symid = e.symid
         /\ WithValue(e, v).origin = e.origin /\ WithValue(e, v).value = v
<1>1. PICK V : e \in [as : Ident, symid : Ident, origin : Seq(STRING), value : V]
  BY DEF IsEntry
<1>2. WithValue(e, v) \in [as : Ident, symid : Ident, origin : Seq(STRING), value : V \cup {v}]
  BY <1>1 DEF WithValue
<1>. QED BY <1>1, <1>2 DEF IsEntry, WithValue

LEMMA NewEntry ==
  ASSUME NEW t \in Ident
  PROVE  LET e == [Import(t, t, Whole) EXCEPT !.value = Mod(t)]
         IN  IsEntry(e) /\ e.as = t /\ e.symid = t /\ e.origin = Whole /\ e.value = Mod(t)
<1>1. Whole \in Seq(STRING)
  BY DEF Whole
<1>2. Import(t, t, Whole) \in [as : Ident, symid : Ident, origin : Seq(STRING), value : {None}]
  BY <1>1 DEF Import
<1>3. IsEntry(Import(t, t, Whole))
  BY <1>2 DEF IsEntry
<1>4. Import(t, t, Whole).as = t /\ Import(t, t, Whole).symid = t /\ Import(t, t, Whole).origin = Whole
  BY DEF Import
<1>. DEFINE e == [Import(t, t, Whole) EXCEPT !.value = Mod(t)]
<1>5. e = WithValue(Import(t, t, Whole), Mod(t))
  BY DEF WithValue
<1>. HIDE DEF e
<1>6. IsEntry(e) /\ e.as = t /\ e.symid = t /\ e.origin = Whole /\ e.value = Mod(t)
  BY <1>3, <1>4, <1>5, ValueSet
<1>. QED BY <1>6 DEF e

LEMMA Listed ==
  ASSUME NEW S, IsFiniteSet(S)
  PROVE  /\ IsSeq(SetToSeq(S))
         /\ \A k \in DOMAIN SetToSeq(S) : SetToSeq(S)[k] \in S
<1>1. Cardinality(S) \in Nat
  BY FS_CardinalityType
<1>2. PICK n \in Nat : ExistsBijection(1..n, S)
  BY FS_NatBijection
<1>3. Cardinality(S) = n
  BY <1>2, FS_CountingElements
<1>4. PICK f : f \in Bijection(1..n, S)
  BY <1>2 DEF ExistsBijection
<1>5. f \in [1..Cardinality(S) -> S] /\ IsInjective(f)
  BY <1>3, <1>4 DEF Bijection, Injection, Surjection, IsInjective
<1>6. SetToSeq(S) \in [1..Cardinality(S) -> S]
  BY <1>5 DEF SetToSeq
<1>7. SetToSeq(S) \in Seq(S)
  BY <1>1, <1>6
<1>. QED BY <1>6, <1>7 DEF IsSeq

-----------------------------------------------------------------------------
(* What an import binds *)

LEMMA Typed ==
  /\ Package \subseteq Symid /\ Symid \subseteq Ident
  /\ <<>> \notin Ident /\ <<>> \notin Symid /\ <<>> \notin Builtins
BY SymAssumption DEF Ident

LEMMA PathIn ==
  ASSUME NEW s \in Ident, NEW o \in Seq(STRING), NEW k \in DOMAIN s
  PROVE  /\ s \o o \in Ident
         /\ k \in DOMAIN (s \o o) /\ Path(s)[k] = Path(s \o o)[k]
<1>. s \in Seq(STRING) /\ s # <<>>
  BY DEF Ident
<1>1. s \o o \in Seq(STRING) /\ Len(s \o o) = Len(s) + Len(o) /\ Len(s) > 0
  BY ConcatProperties, EmptySeq
<1>2. s \o o \in Ident /\ k \in DOMAIN (s \o o)
  BY <1>1 DEF Ident
<1>3. SubSeq(s, 1, k) = SubSeq(s \o o, 1, k)
  <2>1. k \in 1..Len(s)
    OBVIOUS
  <2>2. SubSeq(s, 1, k) = [i \in 1..k |-> s[i]]
    BY <2>1
  <2>3. SubSeq(s \o o, 1, k) = [i \in 1..k |-> (s \o o)[i]]
    BY <1>1, <2>1
  <2>4. \A i \in 1..k : (s \o o)[i] = s[i]
    BY <2>1, ConcatProperties
  <2>. QED BY <2>2, <2>3, <2>4
<1>. QED BY <1>2, <1>3 DEF Path

LEMMA WholePath ==
  ASSUME NEW s \in Ident
  PROVE  s = Path(s)[Len(s)] /\ Len(s) \in DOMAIN s
<1>1. s \in Seq(STRING) /\ s # <<>> /\ Len(s) > 0
  BY EmptySeq DEF Ident
<1>2. SubSeq(s, 1, Len(s)) = s
  BY <1>1
<1>. QED BY <1>1, <1>2 DEF Path

LEMMA BoundFacts ==
  ASSUME NEW s \in Ident, NEW o \in Seq(STRING), done \cup batch \subseteq Symid
  PROVE  /\ BoundOf(s, o) \subseteq Symid \cap {Path(s \o o)[k] : k \in DOMAIN (s \o o)}
         /\ IsFiniteSet(BoundOf(s, o))
         /\ NewSubmodules(s, o) \subseteq Symid
<1>. DEFINE all == {Path(s \o o)[k] : k \in DOMAIN (s \o o)}
<1>1. OnWay(s) \subseteq Targets \cap all
  BY PathIn DEF OnWay
<1>2. Inside(s, o) \subseteq Targets \cap all
  <2>1. s \o o \in Ident
    BY PathIn, WholePath
  <2>2. s \o o \in all
    BY <2>1, WholePath
  <2>. QED BY <2>2 DEF Inside
<1>3. Targets \subseteq Symid
  BY DEF Targets
<1>4. BoundOf(s, o) \subseteq Symid \cap all /\ NewSubmodules(s, o) \subseteq Symid
  BY <1>1, <1>2, <1>3 DEF BoundOf, NewSubmodules
<1>5. IsFiniteSet(all)
  <2>1. s \o o \in Ident
    BY PathIn, WholePath
  <2>2. s \o o \in Seq(STRING)
    BY <2>1 DEF Ident
  <2>3. DOMAIN (s \o o) = 1..Len(s \o o) /\ Len(s \o o) \in Nat
    BY <2>2
  <2>4. IsFiniteSet(DOMAIN (s \o o))
    BY <2>3, FS_Interval
  <2>5. DOMAIN Path(s \o o) = DOMAIN (s \o o) /\ Path(s \o o) \in [DOMAIN (s \o o) -> all]
    BY DEF Path
  <2>6. Path(s \o o) \in Surjection(DOMAIN (s \o o), all)
    BY <2>5 DEF Surjection
  <2>. HIDE DEF all
  <2>. QED BY <2>4, <2>6, FS_Surjection
<1>6. IsFiniteSet(BoundOf(s, o))
  <2>1. BoundOf(s, o) \subseteq all
    BY <1>4
  <2>. HIDE DEF all
  <2>. QED BY <1>5, <2>1, FS_Subset
<1>. QED BY <1>4, <1>6

PathsOf(e) == PathSet(e.symid \o e.origin)
LEMMA BoundEntries ==
  ASSUME NEW imports, NEW t, NEW names, EntriesOf(imports, t, names), NEW e, IsEntry(e),
         Len(t) \in Nat, done \cup batch \subseteq Symid,
         PathsOf(e) \subseteq names, NEW new, new = Bound(imports, e)
  PROVE  /\ EntriesOf(new, t, names) /\ Len(imports) <= Len(new)
         /\ \A i \in 1..Len(imports) :
              /\ new[i].as = imports[i].as
              /\ new[i].symid = imports[i].symid /\ new[i].origin = imports[i].origin
              /\ \/ new[i].value = imports[i].value
                 \/ new[i].as \in names \cap Symid /\ new[i].origin = Whole /\ new[i].value = Mod(new[i].as)
         /\ \A i \in 1..Len(new) : i > Len(imports) => new[i].value = Mod(new[i].as)
<1>. DEFINE bound == BoundOf(e.symid, e.origin)
            free == SetToSeq(bound \ Imported(imports))
            old == [i \in DOMAIN imports |->
                      IF imports[i].as \in bound /\ imports[i].origin = Whole
                      THEN [imports[i] EXCEPT !.value = Mod(imports[i].as)] ELSE imports[i]]
            add == [k \in DOMAIN free |-> [Import(free[k], free[k], Whole) EXCEPT !.value = Mod(free[k])]]
<1>1. new = old \o add
  BY DEF Bound
<1>2. bound \subseteq Symid \cap names /\ IsFiniteSet(bound)
  <2>1. e.symid \in Ident /\ e.origin \in Seq(STRING)
    BY DEF IsEntry
  <2>. QED BY <2>1, BoundFacts DEF PathsOf, PathSet
<1>. HIDE DEF bound
<1>3. IsSeq(free) /\ \A k \in DOMAIN free : free[k] \in Symid \cap names /\ free[k] \notin Imported(imports)
  <2>1. IsFiniteSet(bound \ Imported(imports))
    BY <1>2, FS_Subset
  <2>2. IsSeq(free) /\ \A k \in DOMAIN free : free[k] \in bound \ Imported(imports)
    BY <2>1, Listed
  <2>. QED BY <1>2, <2>2
<1>. HIDE DEF free
<1>4. IsSeq(imports) /\ Len(imports) \in Nat /\ DOMAIN imports = 1..Len(imports)
  BY SeqFacts DEF EntriesOf
<1>5. Len(free) \in Nat /\ DOMAIN free = 1..Len(free)
  BY <1>3, SeqFacts
<1>6. IsSeq(old) /\ Len(old) = Len(imports)
  <2>1. old = [i \in 1..Len(imports) |-> old[i]]
    BY <1>4
  <2>. QED BY <1>4, <2>1, IsSeqBy
<1>7. IsSeq(add) /\ Len(add) = Len(free)
  <2>1. add = [i \in 1..Len(free) |-> add[i]]
    BY <1>5
  <2>. QED BY <1>5, <2>1, IsSeqBy
<1>8. \A i \in 1..Len(imports) :
        /\ IsEntry(old[i]) /\ old[i].as = imports[i].as
        /\ old[i].symid = imports[i].symid /\ old[i].origin = imports[i].origin
        /\ \/ old[i].value = imports[i].value
           \/ /\ old[i].as \in names \cap Symid /\ old[i].origin = Whole
              /\ old[i].value = Mod(old[i].as)
  <2>. TAKE i \in 1..Len(imports)
  <2>1. IsEntry(imports[i])
    BY DEF EntriesOf
  <2>2. CASE imports[i].as \in bound /\ imports[i].origin = Whole
    <3>1. old[i] = [imports[i] EXCEPT !.value = Mod(imports[i].as)]
      BY <1>4, <2>2
    <3>2. imports[i].as \in names \cap Symid
      BY <1>2, <2>2
    <3>. DEFINE x == old[i]
                y == imports[i]
                v == Mod(y.as)
    <3>3. x = WithValue(y, v) /\ IsEntry(y)
      BY <2>1, <3>1 DEF WithValue
    <3>. HIDE DEF x, y, v
    <3>4. IsEntry(x) /\ x.as = y.as /\ x.symid = y.symid /\ x.origin = y.origin /\ x.value = v
      BY ONLY <3>3, ValueSet
    <3>. QED BY <2>2, <3>2, <3>4 DEF x, y, v
  <2>3. CASE ~(imports[i].as \in bound /\ imports[i].origin = Whole)
    <3>1. old[i] = imports[i]
      BY <1>4, <2>3
    <3>. QED BY <2>1, <3>1
  <2>. QED BY <2>2, <2>3
<1>9. \A k \in 1..Len(free) :
        /\ IsEntry(add[k]) /\ add[k].as \in names \cap Symid /\ add[k].as \notin Imported(imports)
        /\ add[k].symid = add[k].as /\ add[k].origin = Whole /\ add[k].value = Mod(add[k].as)
  <2>. TAKE k \in 1..Len(free)
  <2>1. free[k] \in Symid \cap names /\ free[k] \in Ident /\ free[k] \notin Imported(imports)
    BY <1>3, <1>5, Typed
  <2>2. add[k] = [Import(free[k], free[k], Whole) EXCEPT !.value = Mod(free[k])]
    BY <1>5
  <2>. QED BY <2>1, <2>2, NewEntry
<1>. HIDE DEF old, add
<1>10. /\ IsSeq(new) /\ Len(new) = Len(imports) + Len(free)
       /\ \A i \in 1..Len(imports) : new[i] = old[i]
       /\ \A i \in 1..Len(new) : i > Len(imports) =>
            i - Len(imports) \in 1..Len(free) /\ new[i] = add[i - Len(imports)]
  BY <1>1, <1>6, <1>7, SeqConcat
<1>11. \A i \in 1..Len(new) : i <= Len(imports) => i \in 1..Len(imports)
  BY <1>4, <1>5, <1>10
<1>12. \A i \in 1..Len(new) : IsEntry(new[i])
  BY <1>4, <1>5, <1>8, <1>9, <1>10, <1>11
<1>13. \A i \in 1..Len(t) : i \in 1..Len(imports)
  BY <1>4 DEF EntriesOf
<1>14. \A i \in 1..Len(t) :
       /\ new[i].as = t[i].as
       /\ new[i].symid = t[i].symid /\ new[i].origin = t[i].origin
  BY <1>8, <1>10, <1>13 DEF EntriesOf
<1>15. ASSUME NEW i \in 1..Len(new), i > Len(t)
       PROVE  /\ new[i].as \in names \cap Symid /\ new[i].symid = new[i].as
              /\ new[i].origin = Whole /\ \A j \in 1..Len(t) : t[j].as # new[i].as
  <2>1. CASE i <= Len(imports)
    BY <1>8, <1>10, <1>11, <1>15, <2>1 DEF EntriesOf
  <2>2. CASE i > Len(imports)
    <3>1. \A j \in 1..Len(t) : t[j].as \in Imported(imports)
      BY <1>4, <1>13 DEF EntriesOf, Imported
    <3>. QED BY <1>9, <1>10, <2>2, <3>1
  <2>. QED BY <1>4, <1>5, <1>10, <2>1, <2>2
<1>16. EntriesOf(new, t, names)
  BY <1>4, <1>5, <1>10, <1>12, <1>14, <1>15 DEF EntriesOf
<1>17. \A i \in 1..Len(new) : i > Len(imports) => new[i].value = Mod(new[i].as)
  BY <1>9, <1>10
<1>18. Len(imports) <= Len(new)
  BY <1>4, <1>5, <1>10
<1>. QED BY <1>8, <1>10, <1>16, <1>17, <1>18

LEMMA LastName ==
  ASSUME NEW s \in Symid, NEW m, Front(s) = m
  PROVE  m \o <<Last(s)>> = s
<1>. s \in Seq(STRING) /\ s # <<>>
  BY Typed DEF Ident
<1>1. Len(s) \in Nat /\ Len(s) > 0 /\ DOMAIN s = 1..Len(s)
  BY EmptySeq
<1>. DEFINE k == Len(s) - 1
<1>2. m = [i \in 1..k |-> s[i]]
  BY <1>1 DEF Front
<1>3. m \in Seq(STRING) /\ Len(m) = k
  BY <1>1, <1>2
<1>4. Last(s) \in STRING /\ Last(s) = s[k + 1]
  BY <1>1 DEF Last
<1>5. <<Last(s)>> \in Seq(STRING) /\ Len(<<Last(s)>>) = 1
  BY <1>4
<1>6. m \o <<Last(s)>> \in Seq(STRING) /\ Len(m \o <<Last(s)>>) = k + 1
  BY <1>3, <1>5
<1>8. k \in Nat /\ Len(s) = k + 1
  BY <1>1
<1>. HIDE DEF k
<1>7. \A i \in 1..(k + 1) : (m \o <<Last(s)>>)[i] = s[i]
  <2>. TAKE i \in 1..(k + 1)
  <2>1. CASE i <= k
    BY <1>2, <1>3, <1>5, <1>8, <2>1
  <2>2. CASE i = k + 1
    BY <1>3, <1>4, <1>5, <1>8, <2>2
  <2>3. i <= k \/ i = k + 1
    BY <1>8
  <2>. QED BY ONLY <2>1, <2>2, <2>3
<1>. QED BY <1>6, <1>7, <1>8, SeqEqual

\* A package gets modules as submodules, and loses nothing else.
LEMMA SubmodulesAdded ==
  ASSUME NEW M, M \subseteq Symid, AddSubmodules(M), DOMAIN local = Symid
  PROVE  /\ DOMAIN local' = Symid /\ UNCHANGED <<cache, starOf>>
         /\ \A m \in Symid :
              /\ DOMAIN local[m] \subseteq DOMAIN local'[m]
              /\ \A n \in DOMAIN local'[m] :
                   \/ n \in DOMAIN local[m] /\ local'[m][n] = local[m][n]
                   \/ n # <<>> /\ m \o n \in Symid /\ local'[m][n] = Mod(m \o n)
<1>. DEFINE of(p) == {Last(s) : s \in {t \in M : Front(t) = p}}
            f(m) == [n \in {<<x>> : x \in of(m)} |-> Mod(m \o n)]
<1>1. local' = [m \in Symid |-> Entered(local[m], f(m))] /\ UNCHANGED <<cache, starOf>>
  BY DEF AddSubmodules
<1>2. \A m \in Symid : \A n \in DOMAIN f(m) : n # <<>> /\ m \o n \in Symid /\ f(m)[n] = Mod(m \o n)
  <2>. TAKE m \in Symid
  <2>. TAKE n \in DOMAIN f(m)
  <2>1. PICK s \in M : Front(s) = m /\ n = <<Last(s)>>
    OBVIOUS
  <2>2. n # <<>> /\ m \o n = s
    BY <2>1, LastName
  <2>. QED BY <2>2
<1>. HIDE DEF f
<1>. SUFFICES ASSUME NEW m \in Symid
     PROVE  /\ DOMAIN local[m] \subseteq DOMAIN local'[m]
            /\ \A n \in DOMAIN local'[m] :
                   \/ n \in DOMAIN local[m] /\ local'[m][n] = local[m][n]
                   \/ n # <<>> /\ m \o n \in Symid /\ local'[m][n] = Mod(m \o n)
  BY <1>1
<1>3. local'[m] = Entered(local[m], f(m))
  BY <1>1
<1>4. /\ DOMAIN local'[m] = DOMAIN f(m) \cup DOMAIN local[m]
      /\ \A n \in DOMAIN local'[m] : local'[m][n] = IF n \in DOMAIN f(m) THEN f(m)[n] ELSE local[m][n]
  BY <1>3 DEF Entered
<1>. QED BY <1>2, <1>4

LEMMA VisitedFacts ==
  ASSUME TextInv, at > 0
  PROVE  /\ current \in batch /\ current \in Symid /\ current \notin waiting
         /\ phase = "visit" \/ phase = "chain"
         /\ EntriesOf(impt[current], text[current].impt, Taken(current))
         /\ Len(text[current].impt) \in Nat /\ Len(impt[current]) \in Nat
         /\ Index \in 1..Len(text[current].impt) /\ Index \in 1..Len(impt[current])
         /\ DOMAIN impt[current] = 1..Len(impt[current])
         /\ IsEntry(Visited)
         /\ PathsOf(Visited) \subseteq Taken(current)
<1>1. /\ current \in batch /\ current \in Symid /\ current \notin waiting /\ at \in Nat
      /\ at <= Len(text[current].impt) /\ (phase = "visit" \/ phase = "chain")
  BY DEF TextInv, Queues
<1>2. EntriesOf(impt[current], text[current].impt, Taken(current))
  BY <1>1 DEF TextInv, Entries
<1>3. text[current].impt \in Seq([as : Ident, symid : Ident, origin : Seq(STRING), value : {None}])
  BY <1>1 DEF TextInv, Texts, IsText
<1>4. Len(text[current].impt) \in Nat /\ DOMAIN text[current].impt = 1..Len(text[current].impt)
  BY <1>3
<1>5. Len(impt[current]) \in Nat /\ DOMAIN impt[current] = 1..Len(impt[current])
  BY <1>2, SeqFacts DEF EntriesOf
<1>6. Index \in 1..Len(text[current].impt)
  BY <1>1, <1>4 DEF Index
<1>7. Index \in 1..Len(impt[current])
  BY <1>2, <1>4, <1>5, <1>6 DEF EntriesOf
<1>8. /\ IsEntry(Visited) /\ Visited.symid = text[current].impt[Index].symid
      /\ Visited.origin = text[current].impt[Index].origin
  BY <1>2, <1>6, <1>7 DEF Visited, EntriesOf
<1>. DEFINE e == text[current].impt[Index]
<1>9. e \in {text[current].impt[i] : i \in DOMAIN text[current].impt}
  BY <1>4, <1>6
<1>10. PathsOf(e) \subseteq Taken(current)
  BY <1>9 DEF Taken, PathsOf
<1>11. PathsOf(Visited) = PathsOf(e)
  BY <1>8 DEF PathsOf
<1>. QED BY <1>1, <1>2, <1>4, <1>5, <1>6, <1>7, <1>8, <1>10, <1>11

Replaced(s, i, x) == [s EXCEPT ![i] = x]
LEMMA SeqExcept ==
  ASSUME NEW s, IsSeq(s), NEW i \in 1..Len(s), NEW x, NEW t, t = Replaced(s, i, x)
  PROVE  /\ IsSeq(t) /\ Len(t) = Len(s)
         /\ \A j \in 1..Len(s) : t[j] = IF j = i THEN x ELSE s[j]
<1>1. Len(s) \in Nat /\ DOMAIN s = 1..Len(s)
  BY SeqFacts
<1>2. t = [j \in 1..Len(s) |-> IF j = i THEN x ELSE s[j]]
  BY <1>1 DEF Replaced
<1>3. t = [j \in 1..Len(s) |-> t[j]]
  BY <1>2
<1>4. IsSeq(t) /\ Len(t) = Len(s)
  BY <1>1, <1>3, IsSeqBy
<1>. QED BY <1>2, <1>4

\* What a visited import does to the entries of the module that is visited.
BoundOrSame(m, i) ==
  LET new == impt'[m][i]
      old == impt[m][i]
  IN  /\ new.as = old.as /\ new.symid = old.symid /\ new.origin = old.origin
      /\ \/ new.value = old.value
         \/ new.as \in Symid \cap Taken(m) /\ new.origin = Whole /\ new.value = Mod(new.as)
         \/ /\ i = Index /\ m = current /\ new.origin = Whole /\ new.value \in {None, Mod(new.symid)}
            /\ new.value # None => new.symid \in Symid

LEMMA BindStep ==
  ASSUME TextInv, at > 0, ImportModule \/ ImportFrom
  PROVE  /\ DOMAIN impt' = Symid /\ \A m \in Symid \ {current} : impt'[m] = impt[m]
         /\ EntriesOf(impt'[current], text[current].impt, Taken(current))
         /\ Len(impt[current]) <= Len(impt'[current])
         /\ \A i \in 1..Len(impt[current]) : BoundOrSame(current, i)
         /\ \A i \in 1..Len(impt'[current]) :
              i > Len(impt[current]) => impt'[current][i].value = Mod(impt'[current][i].as)
<1>. DEFINE t == text[current].impt
            old == impt[current]
            new == Bound(old, Visited)
<1>1. /\ current \in Symid /\ EntriesOf(old, t, Taken(current))
      /\ Len(t) \in Nat /\ Len(old) \in Nat /\ Index \in 1..Len(t) /\ Index \in 1..Len(old)
      /\ IsEntry(Visited)
      /\ PathsOf(Visited) \subseteq Taken(current)
  BY VisitedFacts
<1>2. done \cup batch \subseteq Symid /\ DOMAIN impt = Symid
  BY DEF TextInv, Queues, TotalFunctions
<1>3. /\ EntriesOf(new, t, Taken(current)) /\ Len(old) <= Len(new)
      /\ \A i \in 1..Len(old) :
                  /\ new[i].as = old[i].as
                  /\ new[i].symid = old[i].symid /\ new[i].origin = old[i].origin
                  /\ \/ new[i].value = old[i].value
                     \/ /\ new[i].as \in Symid \cap Taken(current) /\ new[i].origin = Whole
                        /\ new[i].value = Mod(new[i].as)
      /\ \A i \in 1..Len(new) : i > Len(old) => new[i].value = Mod(new[i].as)
  <2>1. new = Bound(old, Visited)
    OBVIOUS
  <2>. HIDE DEF new, old, t
  <2>. QED BY ONLY <1>1, <1>2, <2>1, BoundEntries
<1>. HIDE DEF new
<1>4. CASE ImportFrom
  <2>1. impt' = [impt EXCEPT ![current] = new]
    BY <1>4 DEF ImportFrom, new
  <2>2. impt'[current] = new /\ DOMAIN impt' = Symid /\ \A m \in Symid \ {current} : impt'[m] = impt[m]
    BY <1>1, <1>2, <2>1
  <2>. QED BY <1>3, <2>2 DEF BoundOrSame
<1>5. CASE ImportModule
  <2>. DEFINE v == IF Visited.symid \in Targets THEN Mod(Visited.symid) ELSE None
              last == [new EXCEPT ![Index].value = v]
  <2>1. impt' = [impt EXCEPT ![current] = last] /\ Visited.origin = Whole
    BY <1>5 DEF ImportModule, new
  <2>2. impt'[current] = last /\ DOMAIN impt' = Symid /\ \A m \in Symid \ {current} : impt'[m] = impt[m]
    BY <1>1, <1>2, <2>1
  <2>12. v \in {None, Mod(Visited.symid)} /\ (v # None => Visited.symid \in Symid)
    BY <1>2 DEF Targets
  <2>. DEFINE x == [new[Index] EXCEPT !.value = v]
  <2>3. IsSeq(new) /\ Index \in 1..Len(new) /\ IsEntry(new[Index]) /\ Len(new) \in Nat
    <3>1. IsSeq(new)
      BY <1>3 DEF EntriesOf
    <3>2. Len(new) \in Nat
      BY <3>1, SeqFacts
    <3>. QED BY <1>1, <1>3, <3>1, <3>2 DEF EntriesOf
  <2>4. last = Replaced(new, Index, x)
    BY <2>3 DEF Replaced
  <2>. HIDE DEF last
  <2>11. x = WithValue(new[Index], v)
    BY DEF WithValue
  <2>. HIDE DEF x, v
  <2>5. /\ IsEntry(x) /\ x.as = new[Index].as /\ x.symid = new[Index].symid
        /\ x.origin = new[Index].origin /\ x.value = v
    BY ONLY <2>3, <2>11, ValueSet
  <2>6. /\ IsSeq(last) /\ Len(last) = Len(new)
        /\ \A j \in 1..Len(new) : last[j] = IF j = Index THEN x ELSE new[j]
    BY ONLY <2>3, <2>4, SeqExcept
  <2>7. EntriesOf(last, t, Taken(current))
    BY <1>1, <1>3, <2>3, <2>5, <2>6 DEF EntriesOf
  <2>8. new[Index].origin = Whole /\ new[Index].symid = Visited.symid
    BY <1>1, <1>3, <2>1 DEF Visited
  <2>9. \A i \in 1..Len(old) : BoundOrSame(current, i)
    <3>. TAKE i \in 1..Len(old)
    <3>1. CASE i = Index
      BY <1>1, <1>3, <2>2, <2>3, <2>5, <2>6, <2>8, <2>12, <3>1 DEF BoundOrSame
    <3>2. CASE i # Index
      BY <1>1, <1>3, <2>2, <2>3, <2>6, <3>2 DEF BoundOrSame
    <3>. QED BY <3>1, <3>2
  <2>10. \A i \in 1..Len(last) : i > Len(old) => last[i].value = Mod(last[i].as)
    BY <1>1, <1>3, <2>3, <2>6
  <2>. QED BY <1>3, <2>2, <2>6, <2>7, <2>9, <2>10
<1>. QED BY <1>4, <1>5

-----------------------------------------------------------------------------
(* TextInv *)

LEMMA TextEntries ==
  ASSUME NEW t, IsText(t), NEW names
  PROVE  /\ EntriesOf(t.impt, t.impt, names)
         /\ \A i \in DOMAIN t.impt : t.impt[i].value = None
<1>1. t.impt \in Seq([as : Ident, symid : Ident, origin : Seq(STRING), value : {None}])
  BY DEF IsText
<1>2. IsSeq(t.impt)
  BY <1>1 DEF IsSeq
<1>3. Len(t.impt) \in Nat /\ DOMAIN t.impt = 1..Len(t.impt)
  BY <1>1
<1>4. \A i \in 1..Len(t.impt) : t.impt[i] \in [as : Ident, symid : Ident, origin : Seq(STRING), value : {None}]
  BY <1>1, ElementOfSeq
<1>5. \A i \in 1..Len(t.impt) : IsEntry(t.impt[i]) /\ t.impt[i].value = None
  BY <1>4 DEF IsEntry
<1>. QED BY <1>2, <1>3, <1>5 DEF EntriesOf

LEMMA TextInit == Init => TextInv
<1>. SUFFICES ASSUME Init PROVE TextInv
  OBVIOUS
<1>1. PICK p \in Programs : text = p.text /\ adds = p.adds /\ edits = p.edits
  BY DEF Init
<1>2. Texts /\ DOMAIN text = Symid
  BY <1>1, BatchAssumption DEF Texts
<1>3. TotalFunctions
  BY <1>2 DEF Init, TablesInit, TotalFunctions
<1>4. Queues
  BY DEF Init, Queues
<1>5. Entries
  BY DEF Init, Entries
<1>6. Tables
  BY DEF Init, TablesInit, Empty, Tables
<1>. QED BY <1>2, <1>3, <1>4, <1>5, <1>6 DEF TextInv

\* Steps that leave the texts, the entries and the tables alone.
LEMMA TextQuiet ==
  ASSUME TextInv, UNCHANGED <<text, version, done, batch, impt, adds, edits, cleared, local, cache, starOf>>,
         Queues', \A m \in Symid : phase' # "idle" /\ m \in waiting' => phase # "idle" /\ m \in waiting
  PROVE  TextInv'
<1>1. TotalFunctions' /\ Texts'
  BY DEF TextInv, TotalFunctions, Texts
<1>2. \A m \in Symid : Taken(m)' = Taken(m) /\ \A n : Gives(m, n)' = Gives(m, n)
  BY DEF Taken, Gives, Defined, ImportsOf
<1>3. Entries'
  BY <1>2 DEF TextInv, Entries
<1>4. Tables'
  BY <1>2 DEF TextInv, Tables, Fits
<1>. QED BY <1>1, <1>3, <1>4 DEF TextInv

LEMMA AddCheckFilesText ==
  ASSUME TextInv, NEW M \in adds, AddCheckFiles(M)
  PROVE  TextInv'
<1>1. M \subseteq Symid
  BY DEF TextInv, Texts
<1>2. Queues'
  BY <1>1 DEF TextInv, Queues, AddCheckFiles, sources, tables, chain, clients
<1>. QED BY <1>2, TextQuiet DEF AddCheckFiles, sources, tables, chain, clients

LEMMA VisitModuleText ==
  ASSUME TextInv, NEW m \in Symid, VisitModule(m), UNCHANGED clients
  PROVE  TextInv'
<1>1. m \in batch /\ m \in waiting /\ at' = Len(text[m].impt) /\ current' = m
  BY DEF TextInv, Queues, Entries, VisitModule
<1>2. at' \in Nat
  BY <1>1, TextEntries, SeqFacts DEF TextInv, Texts, EntriesOf
<1>3. Queues'
  BY <1>1, <1>2 DEF TextInv, Queues, VisitModule, sources, tables, chain
<1>. QED BY <1>3, TextQuiet DEF VisitModule, sources, tables, chain, clients

LEMMA ChainText ==
  ASSUME TextInv, ImportLoop \/ Follow \/ NothingFound \/ AllVisited, UNCHANGED clients
  PROVE  TextInv'
<1>1. UNCHANGED <<text, version, done, batch, impt, waiting, current, at, adds, edits, cleared, local,
                  cache, starOf>>
  BY DEF ImportLoop, Follow, NothingFound, AllVisited, sources, tables, visit, clients
<1>2. phase # "idle" /\ phase' # "idle"
  BY DEF ImportLoop, Follow, NothingFound, AllVisited
<1>3. Queues'
  BY <1>1 DEF TextInv, Queues, ImportLoop, Follow, NothingFound, AllVisited
<1>. QED BY <1>1, <1>2, <1>3, TextQuiet

LEMMA RecheckText ==
  ASSUME TextInv, NEW e \in edits, Recheck(e[1], e[2])
  PROVE  TextInv'
<1>. DEFINE m == e[1]
            t == e[2]
<1>1. m \in Symid /\ IsText(t) /\ phase = "idle" /\ phase' = "idle"
  BY DEF TextInv, Texts, Recheck, Queues
<1>2. /\ text' = [text EXCEPT ![m] = t] /\ version' = [version EXCEPT ![m] = @ + 1]
      /\ local' = [local EXCEPT ![m] = Empty] /\ cache' = [cache EXCEPT ![m] = Empty]
      /\ starOf' = [starOf EXCEPT ![m] = <<>>] /\ edits' \subseteq edits
      /\ cleared' = cleared \cup {m}
      /\ \/ done' = done \ {m} /\ waiting' = waiting \cup {m}
         \/ UNCHANGED <<done, waiting>>
      /\ UNCHANGED <<batch, impt, current, at, adds>>
  BY DEF Recheck, Clear
<1>. HIDE DEF m, t
<1>3. TotalFunctions'
  BY <1>2 DEF TextInv, TotalFunctions
<1>4. Texts'
  BY <1>1, <1>2 DEF TextInv, Texts, TotalFunctions
<1>5. Queues'
  BY <1>1, <1>2 DEF TextInv, Queues
<1>6. Entries'
  BY <1>1, <1>2 DEF TextInv, Queues, Entries
<1>7. ASSUME NEW k \in Symid
      PROVE  /\ starOf'[k] = IF k \in done' \ cleared' THEN text'[k].star ELSE <<>>
             /\ \A n \in DOMAIN local'[k] : Fits(k, n)'
  <2>1. CASE k = m
    BY <1>1, <1>2, <2>1 DEF TextInv, TotalFunctions, Empty
  <2>2. CASE k # m
    <3>1. /\ text'[k] = text[k] /\ version'[k] = version[k] /\ local'[k] = local[k]
          /\ starOf'[k] = starOf[k] /\ (k \in done' \ cleared' <=> k \in done \ cleared)
      BY <1>1, <1>2, <2>2 DEF TextInv, TotalFunctions
    <3>2. Taken(k)' = Taken(k) /\ \A n : Gives(k, n)' = Gives(k, n)
      BY <3>1 DEF Taken, Gives, Defined, ImportsOf
    <3>. QED BY <3>1, <3>2 DEF TextInv, Tables, Fits
  <2>. QED BY <2>1, <2>2
<1>8. Tables'
  BY <1>7 DEF Tables
<1>. QED BY <1>3, <1>4, <1>5, <1>6, <1>8 DEF TextInv

LEMMA PreprocessText ==
  ASSUME TextInv, Preprocess
  PROVE  TextInv'
<1>. DEFINE new == waiting \cup (Closure(waiting) \ done)
<1>1. Closure(waiting) \subseteq Symid
  BY DEF Closure
<1>2. new \subseteq Symid /\ new \cap done = {}
  BY <1>1 DEF TextInv, Queues
<1>3. /\ batch' = new /\ waiting' = new
      /\ impt' = [m \in Symid |-> IF m \in new THEN text[m].impt ELSE <<>>]
      /\ local' = [m \in Symid |->
                     IF m \in new
                     THEN Entered(local[m], [n \in text[m].cls |-> Def(m, n, version[m])])
                     ELSE local[m]]
      /\ phase = "idle" /\ phase' = "visit"
      /\ UNCHANGED <<text, version, done, cache, starOf, current, at, adds, edits, cleared>>
  BY DEF Preprocess, sources, chain, clients
<1>. HIDE DEF new
<1>4. TotalFunctions' /\ Texts'
  BY <1>3 DEF TextInv, TotalFunctions, Texts
<1>5. \A m \in Symid : Taken(m)' = Taken(m) /\ \A n : Gives(m, n)' = Gives(m, n)
  BY <1>3 DEF Taken, Gives, Defined, ImportsOf
<1>6. at = 0
  BY <1>3 DEF TextInv, Queues
<1>7. Queues'
  <2>1. current \notin new
    BY <1>2, <1>3, Typed DEF TextInv, Queues
  <2>. QED BY <1>2, <1>3, <1>6, <2>1 DEF TextInv, Queues
<1>8. Entries'
  BY <1>3, <1>5, TextEntries DEF TextInv, Entries, Texts
<1>9. ASSUME NEW m \in Symid
      PROVE  /\ starOf'[m] = IF m \in done' \ cleared' THEN text'[m].star ELSE <<>>
             /\ \A n \in DOMAIN local'[m] : Fits(m, n)'
  <2>1. starOf'[m] = IF m \in done' \ cleared' THEN text'[m].star ELSE <<>>
    BY <1>3 DEF TextInv, Tables
  <2>. SUFFICES ASSUME NEW n \in DOMAIN local'[m] PROVE Fits(m, n)'
    BY <2>1
  <2>2. CASE n \in DOMAIN local[m] /\ local'[m][n] = local[m][n]
    BY <1>3, <1>5, <2>2 DEF TextInv, Tables, Fits
  <2>3. CASE n \in text[m].cls /\ local'[m][n] = Def(m, n, version[m])
    <3>1. n # <<>>
      BY <2>3, Typed DEF TextInv, Texts, IsText
    <3>. QED BY <1>3, <2>3, <3>1 DEF Fits, Gives, Defined
  <2>. QED BY <1>3, <2>2, <2>3 DEF Entered
<1>10. Tables'
  BY <1>9 DEF Tables
<1>. QED BY <1>4, <1>7, <1>8, <1>10 DEF TextInv

LEMMA SubmodulesOfImport ==
  ASSUME TextInv, at > 0, ImportModule \/ ImportFrom
  PROVE  \E M \in SUBSET Symid : AddSubmodules(M)
<1>1. Visited.symid \in Ident /\ Visited.origin \in Seq(STRING) /\ Whole \in Seq(STRING)
  BY VisitedFacts DEF IsEntry, Whole
<1>2. done \cup batch \subseteq Symid
  BY DEF TextInv, Queues
<1>3. NewSubmodules(Visited.symid, Visited.origin) \subseteq Symid /\ NewSubmodules(Visited.symid, Whole) \subseteq Symid
  BY <1>1, <1>2, BoundFacts
<1>. QED BY <1>3 DEF ImportModule, ImportFrom

LEMMA ImportText ==
  ASSUME TextInv, ImportModule \/ ImportFrom, UNCHANGED clients
  PROVE  TextInv'
<1>1. at > 0 /\ phase = "visit"
  BY DEF ImportModule, ImportFrom
<1>2. /\ at' = at - 1 /\ phase' \in {"visit", "chain"}
      /\ UNCHANGED <<text, version, done, batch, waiting, current, adds, edits, cleared>>
  BY <1>1 DEF ImportModule, ImportFrom, sources, chain, clients
<1>3. /\ current \in batch /\ current \in Symid /\ current \notin waiting
      /\ IsEntry(Visited)
  BY <1>1, VisitedFacts
<1>4. /\ DOMAIN impt' = Symid /\ \A m \in Symid \ {current} : impt'[m] = impt[m]
      /\ EntriesOf(impt'[current], text[current].impt, Taken(current))
  BY <1>1, BindStep
<1>5. PICK M \in SUBSET Symid : AddSubmodules(M)
  BY <1>1, SubmodulesOfImport
<1>6. /\ DOMAIN local' = Symid /\ UNCHANGED <<cache, starOf>>
      /\ \A m \in Symid : \A n \in DOMAIN local'[m] :
              \/ n \in DOMAIN local[m] /\ local'[m][n] = local[m][n]
              \/ n # <<>> /\ m \o n \in Symid /\ local'[m][n] = Mod(m \o n)
  BY <1>5, SubmodulesAdded DEF TextInv, TotalFunctions
<1>7. \A m \in Symid : Taken(m)' = Taken(m) /\ \A n : Gives(m, n)' = Gives(m, n)
  BY <1>2 DEF Taken, Gives, Defined, ImportsOf
<1>8. TotalFunctions' /\ Texts'
  BY <1>2, <1>4, <1>6 DEF TextInv, TotalFunctions, Texts
<1>9. Queues'
  BY <1>1, <1>2 DEF TextInv, Queues
<1>10. Entries'
  BY <1>2, <1>3, <1>4, <1>7 DEF TextInv, Queues, Entries
<1>11. Tables'
  <2>1. ASSUME NEW m \in Symid, NEW n \in DOMAIN local'[m] PROVE Fits(m, n)'
    <3>1. CASE n \in DOMAIN local[m] /\ local'[m][n] = local[m][n]
      BY <1>2, <1>7, <3>1 DEF TextInv, Tables, Fits
    <3>2. CASE n # <<>> /\ m \o n \in Symid /\ local'[m][n] = Mod(m \o n)
      BY <3>2 DEF Fits, Mod
    <3>. QED BY <1>6, <3>1, <3>2
  <2>. QED BY <1>2, <1>6, <2>1 DEF TextInv, Tables
<1>. QED BY <1>8, <1>9, <1>10, <1>11 DEF TextInv

\* Values are given to some of the entries, nothing else changes.
Valued(imports, B, w) ==
  [i \in DOMAIN imports |-> IF i \in B THEN [imports[i] EXCEPT !.value = w] ELSE imports[i]]
LEMMA ValuesGiven ==
  ASSUME NEW imports, IsSeq(imports), NEW B, NEW w, NEW new, new = Valued(imports, B, w),
         \A i \in 1..Len(imports) : IsEntry(imports[i])
  PROVE  /\ IsSeq(new) /\ Len(new) = Len(imports) /\ DOMAIN new = DOMAIN imports
         /\ \A i \in 1..Len(imports) :
              /\ IsEntry(new[i]) /\ new[i].as = imports[i].as
              /\ new[i].symid = imports[i].symid /\ new[i].origin = imports[i].origin
              /\ new[i].value = IF i \in B THEN w ELSE imports[i].value
<1>1. Len(imports) \in Nat /\ DOMAIN imports = 1..Len(imports)
  BY SeqFacts
<1>2. new = [i \in 1..Len(imports) |-> new[i]]
  BY <1>1 DEF Valued
<1>3. IsSeq(new) /\ Len(new) = Len(imports) /\ DOMAIN new = DOMAIN imports
  BY <1>1, <1>2, IsSeqBy
<1>4. ASSUME NEW i \in 1..Len(imports)
      PROVE  /\ IsEntry(new[i]) /\ new[i].as = imports[i].as
             /\ new[i].symid = imports[i].symid /\ new[i].origin = imports[i].origin
             /\ new[i].value = IF i \in B THEN w ELSE imports[i].value
  <2>1. new[i] = IF i \in B THEN WithValue(imports[i], w) ELSE imports[i]
    BY <1>1 DEF WithValue, Valued
  <2>. QED BY <2>1, ValueSet
<1>. QED BY <1>3, <1>4

LEMMA ValueStep ==
  ASSUME TextInv, ValueFound, NEW m \in batch
  PROVE  /\ EntriesOf(impt'[m], text[m].impt, Taken(m)) /\ Len(impt'[m]) = Len(impt[m])
         /\ DOMAIN impt[m] = 1..Len(impt[m]) /\ DOMAIN impt'[m] = DOMAIN impt[m]
         /\ \A i \in DOMAIN impt[m] :
              /\ impt'[m][i].as = impt[m][i].as /\ impt'[m][i].symid = impt[m][i].symid
              /\ impt'[m][i].origin = impt[m][i].origin
              /\ impt'[m][i].value = IF <<m, i>> \in buf THEN Found ELSE impt[m][i].value
<1>. DEFINE B == {i \in DOMAIN impt[m] : <<m, i>> \in buf}
<1>1. m \in Symid /\ EntriesOf(impt[m], text[m].impt, Taken(m))
  BY DEF TextInv, Queues, Entries
<1>2. IsSeq(impt[m]) /\ (\A i \in 1..Len(impt[m]) : IsEntry(impt[m][i]))
      /\ DOMAIN impt[m] = 1..Len(impt[m]) /\ Len(impt[m]) \in Nat
  BY <1>1, SeqFacts DEF EntriesOf
<1>3. impt'[m] = [i \in DOMAIN impt[m] |-> IF i \in B THEN [impt[m][i] EXCEPT !.value = Found] ELSE impt[m][i]]
  BY <1>1 DEF ValueFound
<1>4. /\ IsSeq(impt'[m]) /\ Len(impt'[m]) = Len(impt[m]) /\ DOMAIN impt'[m] = DOMAIN impt[m]
      /\ \A i \in 1..Len(impt[m]) :
              /\ IsEntry(impt'[m][i]) /\ impt'[m][i].as = impt[m][i].as
              /\ impt'[m][i].symid = impt[m][i].symid /\ impt'[m][i].origin = impt[m][i].origin
              /\ impt'[m][i].value = IF i \in B THEN Found ELSE impt[m][i].value
  <2>. DEFINE imports == impt[m]
              new == impt'[m]
              w == Found
  <2>1. IsSeq(imports) /\ (\A i \in 1..Len(imports) : IsEntry(imports[i]))
        /\ new = Valued(imports, B, w)
    BY <1>2, <1>3 DEF Valued
  <2>. HIDE DEF imports, new, w, B
  <2>2. /\ IsSeq(new) /\ Len(new) = Len(imports) /\ DOMAIN new = DOMAIN imports
        /\ \A i \in 1..Len(imports) :
              /\ IsEntry(new[i]) /\ new[i].as = imports[i].as
              /\ new[i].symid = imports[i].symid /\ new[i].origin = imports[i].origin
              /\ new[i].value = IF i \in B THEN w ELSE imports[i].value
    BY ONLY <2>1, ValuesGiven
  <2>. QED BY <2>2 DEF imports, new, w
<1>5. EntriesOf(impt'[m], text[m].impt, Taken(m))
  <2>1. \A i \in 1..Len(text[m].impt) : i \in 1..Len(impt[m])
    <3>1. Len(text[m].impt) \in Nat
      BY <1>1, TextEntries, SeqFacts DEF TextInv, Texts, EntriesOf
    <3>. QED BY <1>1, <1>2, <3>1 DEF EntriesOf
  <2>2. ASSUME NEW i \in 1..Len(impt[m]), i > Len(text[m].impt)
        PROVE  /\ impt'[m][i].as \in Taken(m) \cap Symid /\ impt'[m][i].symid = impt'[m][i].as
               /\ impt'[m][i].origin = Whole
               /\ \A j \in 1..Len(text[m].impt) : text[m].impt[j].as # impt'[m][i].as
    <3>1. /\ impt[m][i].as \in Taken(m) \cap Symid /\ impt[m][i].symid = impt[m][i].as
          /\ impt[m][i].origin = Whole
          /\ \A j \in 1..Len(text[m].impt) : text[m].impt[j].as # impt[m][i].as
      BY <1>1, <2>2 DEF EntriesOf
    <3>2. /\ impt'[m][i].as = impt[m][i].as /\ impt'[m][i].symid = impt[m][i].symid
          /\ impt'[m][i].origin = impt[m][i].origin
      BY <1>4
    <3>. QED BY <3>1, <3>2
  <2>. QED BY <1>1, <1>4, <2>1, <2>2 DEF EntriesOf
<1>. QED BY <1>2, <1>4, <1>5

LEMMA ValueFoundText ==
  ASSUME TextInv, ValueFound, UNCHANGED clients
  PROVE  TextInv'
<1>1. /\ phase = "chain" /\ phase' = "visit"
      /\ UNCHANGED <<text, version, done, batch, waiting, current, at, adds, edits, cleared, local,
                     cache, starOf>>
  BY DEF ValueFound, sources, tables, clients
<1>2. TotalFunctions' /\ Texts'
  BY <1>1 DEF ValueFound, TextInv, TotalFunctions, Texts
<1>3. \A m \in Symid : Taken(m)' = Taken(m) /\ \A n : Gives(m, n)' = Gives(m, n)
  BY <1>1 DEF Taken, Gives, Defined, ImportsOf
<1>4. Queues'
  BY <1>1 DEF TextInv, Queues
<1>5. ASSUME NEW m \in Symid
      PROVE  /\ m \notin batch => impt'[m] = <<>>
             /\ m \in batch => EntriesOf(impt'[m], text[m].impt, Taken(m))
             /\ m \in waiting => Len(impt'[m]) = Len(text[m].impt)
  <2>1. CASE m \in batch
    BY <1>1, <2>1, ValueStep DEF TextInv, Entries
  <2>2. CASE m \notin batch
    <3>1. impt[m] = <<>> /\ m \notin waiting
      BY <1>1, <2>2 DEF TextInv, Entries, Queues
    <3>2. impt'[m] = [i \in DOMAIN impt[m] |->
                IF <<m, i>> \in buf THEN [impt[m][i] EXCEPT !.value = Found]
                ELSE impt[m][i]]
      BY DEF ValueFound
    <3>3. impt'[m] = <<>>
      BY <3>1, <3>2
    <3>. QED BY <2>2, <3>1, <3>3
  <2>. QED BY <2>1, <2>2
<1>6. Entries'
  BY <1>1, <1>3, <1>5 DEF Entries
<1>7. Tables'
  BY <1>1, <1>3 DEF TextInv, Tables, Fits
<1>. QED BY <1>2, <1>4, <1>6, <1>7 DEF TextInv

LEMMA DumpText ==
  ASSUME TextInv, Dump
  PROVE  TextInv'
<1>1. /\ phase = "resolved" /\ phase' = "idle"
      /\ local' = [m \in Symid |->
            IF m \in batch THEN Entered(local[m], Dumped(m, impt[m], text[m].own, version[m])) ELSE local[m]]
      /\ cache' = [m \in Symid |-> IF m \in batch THEN DumpedCache(impt[m]) ELSE cache[m]]
      /\ starOf' = [m \in Symid |-> IF m \in batch THEN starOf[m] \o text[m].star ELSE starOf[m]]
      /\ done' = done \cup batch /\ batch' = {} /\ cleared' = cleared \ batch
      /\ impt' = [m \in Symid |-> <<>>] /\ current' = <<>>
      /\ UNCHANGED <<text, version, waiting, at, adds, edits>>
  BY DEF Dump, sources
<1>2. waiting = {} /\ at = 0 /\ batch \subseteq Symid /\ batch \cap done = {}
  BY <1>1 DEF TextInv, Queues
<1>3. TotalFunctions' /\ Texts'
  BY <1>1 DEF TextInv, TotalFunctions, Texts
<1>4. Queues'
  BY <1>1, <1>2 DEF TextInv, Queues
<1>5. Entries'
  BY <1>1, <1>2 DEF Entries
<1>6. \A m \in Symid : Taken(m)' = Taken(m) /\ \A n : Gives(m, n)' = Gives(m, n)
  BY <1>1 DEF Taken, Gives, Defined, ImportsOf
<1>7. ASSUME NEW m \in batch, NEW n \in DOMAIN Dumped(m, impt[m], text[m].own, version[m])
      PROVE  /\ n # <<>> /\ (Gives(m, n) \/ n \in Taken(m))
             /\ \/ Dumped(m, impt[m], text[m].own, version[m])[n] = Def(m, n, version[m])
                \/ Dumped(m, impt[m], text[m].own, version[m])[n].kind = "import"
  <2>1. m \in Symid /\ IsText(text[m]) /\ EntriesOf(impt[m], text[m].impt, Taken(m))
    BY <1>2 DEF TextInv, Texts, Entries
  <2>2. \/ Dumped(m, impt[m], text[m].own, version[m])[n] = Def(m, n, version[m])
        \/ Dumped(m, impt[m], text[m].own, version[m])[n].kind = "import"
    BY DEF Dumped, ImportEntry
  <2>3. n \in Defined(m) \/ n \in Imported(impt[m])
    BY DEF Dumped, Defined
  <2>4. CASE n \in Defined(m)
    BY <2>1, <2>2, <2>4, Typed DEF Gives, Defined, IsText
  <2>5. CASE n \in Imported(impt[m])
    <3>1. PICK i \in 1..Len(impt[m]) : impt[m][i].as = n
      BY <2>1, <2>5, SeqFacts DEF Imported, EntriesOf
    <3>2. n # <<>>
      BY <2>1, <3>1, Typed DEF EntriesOf, IsEntry
    <3>3. Len(text[m].impt) \in Nat /\ Len(impt[m]) \in Nat /\ DOMAIN text[m].impt = 1..Len(text[m].impt)
      BY <2>1, TextEntries, SeqFacts DEF EntriesOf
    <3>4. CASE i <= Len(text[m].impt)
      <4>1. i \in DOMAIN text[m].impt /\ text[m].impt[i].as = n
        BY <2>1, <3>1, <3>3, <3>4 DEF EntriesOf
      <4>. QED BY <2>2, <3>2, <4>1 DEF Gives, ImportsOf
    <3>5. CASE i > Len(text[m].impt)
      BY <2>1, <2>2, <3>1, <3>2, <3>5 DEF EntriesOf
    <3>. QED BY <3>3, <3>4, <3>5
  <2>. QED BY <2>3, <2>4, <2>5
<1>8. ASSUME NEW m \in Symid
      PROVE  /\ starOf'[m] = IF m \in done' \ cleared' THEN text'[m].star ELSE <<>>
             /\ \A n \in DOMAIN local'[m] : Fits(m, n)'
  <2>1. CASE m \notin batch
    BY <1>1, <1>6, <2>1 DEF TextInv, Tables, Fits
  <2>2. CASE m \in batch
    <3>1. starOf[m] = <<>> /\ m \in done' /\ starOf'[m] = starOf[m] \o text[m].star
      BY <1>1, <1>2, <2>2 DEF TextInv, Tables
    <3>2. text[m].star \in Seq(Symid)
      BY DEF TextInv, Texts, IsText
    <3>3. starOf'[m] = text[m].star
      BY <3>1, <3>2, ConcatEmptySeq
    <3>4. local'[m] = Entered(local[m], Dumped(m, impt[m], text[m].own, version[m]))
      BY <1>1, <2>2
    <3>5. ASSUME NEW n \in DOMAIN local'[m] PROVE Fits(m, n)'
      <4>1. CASE n \in DOMAIN local[m] /\ local'[m][n] = local[m][n]
        BY <1>1, <1>6, <4>1 DEF TextInv, Tables, Fits
      <4>2. CASE /\ n \in DOMAIN Dumped(m, impt[m], text[m].own, version[m])
                 /\ local'[m][n] = Dumped(m, impt[m], text[m].own, version[m])[n]
        BY <1>1, <1>6, <1>7, <2>2, <4>2 DEF Fits
      <4>. QED BY <3>4, <4>1, <4>2 DEF Entered
    <3>. QED BY <1>1, <3>1, <3>3, <3>5
  <2>. QED BY <2>1, <2>2
<1>9. Tables'
  BY <1>8 DEF Tables
<1>. QED BY <1>3, <1>4, <1>5, <1>9 DEF TextInv

LEMMA TextStep == TextInv /\ [Next]_vars => TextInv'
<1>. SUFFICES ASSUME TextInv, [Next]_vars PROVE TextInv'
  OBVIOUS
<1>1. ASSUME NEW M \in adds, AddCheckFiles(M) PROVE TextInv'
  BY <1>1, AddCheckFilesText
<1>2. ASSUME NEW e \in edits, Recheck(e[1], e[2]) PROVE TextInv'
  BY <1>2, RecheckText
<1>3. CASE Preprocess
  BY <1>3, PreprocessText
<1>4. CASE Resolve /\ UNCHANGED clients
  BY <1>4, VisitModuleText, ImportText, ChainText, ValueFoundText DEF Resolve
<1>5. CASE Dump
  BY <1>5, DumpText
<1>6. CASE UNCHANGED vars
  <2>1. Queues'
    BY <1>6 DEF TextInv, Queues, vars, sources, tables, visit, chain, clients
  <2>. QED BY <1>6, <2>1, TextQuiet DEF vars, sources, tables, visit, chain, clients
<1>. QED BY <1>1, <1>2, <1>3, <1>4, <1>5, <1>6 DEF Next

\* Nothing of an older text of a module is in its table after the module has
\* been read again (SymTable.clear in Manager.recheck), whatever was imported
\* and resolved before and after.
THEOREM OldTextGoneAlways == Spec => []OldTextGone
<1>1. TextInv => OldTextGone
  BY DEF TextInv, Tables, Fits, Queues, OldTextGone
<1>. QED BY TextInit, TextStep, <1>1, PTL DEF Spec

-----------------------------------------------------------------------------
(* Lookups *)

FirstOf(hits) == CHOOSE i \in hits : \A j \in hits : i <= j
LEMMA FirstHit ==
  ASSUME NEW T \in SUBSET Nat, T # {}
  PROVE  FirstOf(T) \in T /\ \A j \in T : FirstOf(T) <= j
<1>1. PICK n \in T : \A m \in T : ~(<<m, n>> \in OpToRel(<, Nat))
  BY NatLessThanWellFounded, WFMin
<1>2. \A m \in T : ~(m < n)
  BY <1>1 DEF OpToRel
<1>3. \A m \in T : n <= m
  BY <1>2
<1>. QED BY <1>3 DEF FirstOf

\* LookupLocal, for local as it is or as it will be.
TypeIn(loc, m, n) ==
  LET entry == loc[m][n] IN IF entry.kind = "import" THEN cache[m][Key(entry)] ELSE entry
TableHits(loc, m, n) == {i \in DOMAIN starOf[m] : starOf[m][i] # m /\ n \in DOMAIN loc[starOf[m][i]]}
LocalIn(loc, m, n) ==
  IF n \in DOMAIN loc[m] THEN TypeIn(loc, m, n)
  ELSE IF TableHits(loc, m, n) # {} THEN TypeIn(loc, starOf[m][FirstOf(TableHits(loc, m, n))], n)
  ELSE None

LEMMA LookupLocalIs == \A m, n : LookupLocal(m, n) = LocalIn(local, m, n)
BY DEF LookupLocal, LocalIn, GetType, TypeIn, TableHits, FirstOf

LEMMA TableHit ==
  ASSUME TextInv, NEW m \in Symid, NEW n, NEW loc
  PROVE  /\ TableHits(loc, m, n) \in SUBSET Nat
         /\ \A i \in TableHits(loc, m, n) : starOf[m][i] \in Symid /\ n \in DOMAIN loc[starOf[m][i]]
         /\ TableHits(loc, m, n) # {} =>
              /\ FirstOf(TableHits(loc, m, n)) \in TableHits(loc, m, n)
              /\ \A i \in TableHits(loc, m, n) : FirstOf(TableHits(loc, m, n)) <= i
<1>1. starOf[m] \in Seq(Symid)
  <2>1. starOf[m] = text[m].star \/ starOf[m] = <<>>
    BY DEF TextInv, Tables
  <2>2. text[m].star \in Seq(Symid)
    BY DEF TextInv, Texts, IsText
  <2>3. <<>> \in Seq(Symid)
    OBVIOUS
  <2>. QED BY <2>1, <2>2, <2>3
<1>2. TableHits(loc, m, n) \in SUBSET Nat
  BY <1>1 DEF TableHits
<1>3. \A i \in TableHits(loc, m, n) : starOf[m][i] \in Symid /\ n \in DOMAIN loc[starOf[m][i]]
  BY <1>1, ElementOfSeq DEF TableHits
<1>. QED BY <1>2, <1>3, FirstHit

LEMMA LookupLocalFrom ==
  ASSUME TextInv, NEW m \in Symid, NEW n
  PROVE  \/ LookupLocal(m, n) = None
         \/ \E s \in Symid : n \in DOMAIN local[s] /\ LookupLocal(m, n) = TypeIn(local, s, n)
<1>1. LookupLocal(m, n) = LocalIn(local, m, n)
  BY LookupLocalIs
<1>. QED BY <1>1, TableHit DEF LocalIn

\* A table never gives an entry of impt, and nothing under the empty name.
LEMMA LegbKind ==
  ASSUME TextInv, Kinds, NEW m \in Symid, NEW n
  PROVE  LegbLookup(m, n).kind # "entry" /\ (n = <<>> => LegbLookup(m, n) = None)
<1>1. \A s \in Symid : n \in DOMAIN local[s] => TypeIn(local, s, n).kind # "entry"
  BY DEF Kinds, TypeIn
<1>2. n = <<>> => \A s \in Symid : n \notin DOMAIN local[s]
  BY DEF TextInv, Tables, Fits
<1>3. Builtin(n).kind # "entry" /\ (n = <<>> => Builtin(n) = None)
  BY Typed DEF Builtin, Def, None
<1>4. LookupLocal(m, n) = None \/ LookupLocal(m, n).kind # "entry"
  BY <1>1, LookupLocalFrom
<1>5. n = <<>> => LookupLocal(m, n) = None
  BY <1>2, LookupLocalFrom
<1>. QED BY <1>3, <1>4, <1>5 DEF LegbLookup

\* What a table says of a name changes only if a package gets that submodule.
LEMMA LegbMoves ==
  ASSUME TextInv, NEW M \in SUBSET Symid, AddSubmodules(M), NEW m \in Symid, NEW n
  PROVE  LegbLookup(m, n)' = LegbLookup(m, n) \/ BoundSince(n, LegbLookup(m, n)')
<1>1. /\ UNCHANGED <<cache, starOf>>
      /\ \A s \in Symid :
              /\ DOMAIN local[s] \subseteq DOMAIN local'[s]
              /\ \A k \in DOMAIN local'[s] :
                   \/ k \in DOMAIN local[s] /\ local'[s][k] = local[s][k]
                   \/ k # <<>> /\ s \o k \in Symid /\ local'[s][k] = Mod(s \o k)
  BY SubmodulesAdded DEF TextInv, TotalFunctions
<1>2. PICK loc : loc = local'
  OBVIOUS
<1>3. ASSUME NEW s \in Symid, n \in DOMAIN loc[s]
      PROVE  \/ n \in DOMAIN local[s] /\ TypeIn(loc, s, n) = TypeIn(local, s, n)
             \/ s \o n \in Symid /\ TypeIn(loc, s, n) = Mod(s \o n)
  <2>1. CASE n \in DOMAIN local[s] /\ loc[s][n] = local[s][n]
    BY <2>1 DEF TypeIn
  <2>2. CASE s \o n \in Symid /\ loc[s][n] = Mod(s \o n)
    BY <2>2 DEF TypeIn, Mod
  <2>. QED BY <1>1, <1>2, <1>3, <2>1, <2>2
<1>4. LookupLocal(m, n) = LocalIn(local, m, n)
  BY LookupLocalIs
<1>5. LookupLocal(m, n)' = LocalIn(loc, m, n)
  BY <1>1, <1>2 DEF LookupLocal, LocalIn, GetType, TypeIn, TableHits, FirstOf
<1>6. n \in DOMAIN local[m] => n \in DOMAIN loc[m]
  BY <1>1, <1>2
<1>7. TableHits(local, m, n) \subseteq TableHits(loc, m, n)
  <2>1. \A i \in TableHits(local, m, n) : starOf[m][i] \in Symid
    BY TableHit
  <2>. QED BY <1>1, <1>2, <2>1 DEF TableHits
<1>8. \/ LocalIn(loc, m, n) = LocalIn(local, m, n)
      \/ \E s \in Symid : s \o n \in Symid /\ LocalIn(loc, m, n) = Mod(s \o n)
  <2>1. CASE n \in DOMAIN loc[m]
    BY <1>3, <2>1 DEF LocalIn
  <2>2. CASE n \notin DOMAIN loc[m] /\ TableHits(loc, m, n) # {}
    <3>. DEFINE i == FirstOf(TableHits(loc, m, n))
                j == FirstOf(TableHits(local, m, n))
                s == starOf[m][i]
    <3>1. /\ i \in TableHits(loc, m, n) /\ i \in Nat /\ s \in Symid /\ n \in DOMAIN loc[s]
          /\ \A k \in TableHits(loc, m, n) : i <= k
      BY <2>2, TableHit
    <3>2. LocalIn(loc, m, n) = TypeIn(loc, s, n)
      BY <2>2 DEF LocalIn
    <3>3. CASE n \in DOMAIN local[s] /\ TypeIn(loc, s, n) = TypeIn(local, s, n)
      <4>1. i \in TableHits(local, m, n)
        BY <3>1, <3>3 DEF TableHits
      <4>2. j \in TableHits(local, m, n) /\ j \in Nat /\ j <= i
        BY <4>1, TableHit
      <4>3. i <= j
        BY <1>7, <3>1, <4>2
      <4>4. i = j
        BY <3>1, <4>2, <4>3
      <4>5. LocalIn(local, m, n) = TypeIn(local, s, n)
        BY <1>6, <2>2, <4>1, <4>4 DEF LocalIn
      <4>. QED BY <3>2, <3>3, <4>5
    <3>4. CASE s \o n \in Symid /\ TypeIn(loc, s, n) = Mod(s \o n)
      BY <3>1, <3>2, <3>4
    <3>. QED BY <1>3, <3>1, <3>3, <3>4
  <2>3. CASE n \notin DOMAIN loc[m] /\ TableHits(loc, m, n) = {}
    BY <1>6, <1>7, <2>3 DEF LocalIn
  <2>. QED BY <2>1, <2>2, <2>3
<1>9. \A s : Mod(s) # None
  BY DEF Mod, None
<1>10. CASE LookupLocal(m, n)' = LookupLocal(m, n)
  BY <1>10 DEF LegbLookup, Builtin
<1>11. CASE \E s \in Symid : s \o n \in Symid /\ LookupLocal(m, n)' = Mod(s \o n)
  BY <1>9, <1>11 DEF LegbLookup, BoundSince
<1>. QED BY <1>4, <1>5, <1>8, <1>10, <1>11

\* Lookup, for impt as it is or as it will be.
Shown(imp, s, i) ==
  IF imp[s][i].value # None THEN imp[s][i].value ELSE [kind |-> "entry", module |-> s, index |-> i]
EntriesFor(imp, m, n) == {i \in DOMAIN imp[m] : imp[m][i].as = n}
GetIn(imp, m, n) ==
  IF n \in Defined(m) THEN Def(m, n, version[m])
  ELSE IF EntriesFor(imp, m, n) = {} THEN None
  ELSE Shown(imp, m, CHOOSE j \in EntriesFor(imp, m, n) : TRUE)
BatchHits(imp, m, n) ==
  IF m \in batch
  THEN {i \in DOMAIN text[m].star : text[m].star[i] \in batch /\ GetIn(imp, text[m].star[i], n) # None}
  ELSE {}
LookupIn(imp, leg, m, n) ==
  IF m \in batch /\ GetIn(imp, m, n) # None THEN GetIn(imp, m, n)
  ELSE IF BatchHits(imp, m, n) # {} THEN GetIn(imp, text[m].star[FirstOf(BatchHits(imp, m, n))], n)
  ELSE IF m \in Targets THEN leg ELSE None

LEMMA GetDefIs == \A m, n : GetDef(m, n) = GetIn(impt, m, n)
BY DEF GetDef, GetIn, EntriesFor, Shown

LEMMA LookupIs == \A m, n : Lookup(m, n) = LookupIn(impt, LegbLookup(m, n), m, n)
<1>. TAKE m, n
<1>1. CASE m \in batch
  <2>1. BatchHits(impt, m, n) = {i \in DOMAIN text[m].star : text[m].star[i] \in batch /\ GetDef(text[m].star[i], n) # None}
    BY <1>1, GetDefIs DEF BatchHits
  <2>. QED BY <1>1, <2>1, GetDefIs DEF Lookup, LookupIn, FirstOf
<1>2. CASE m \notin batch
  <2>1. {i \in DOMAIN <<>> : <<>>[i] \in batch /\ GetDef(<<>>[i], n) # None} = {}
    OBVIOUS
  <2>. QED BY <1>2, <2>1 DEF Lookup, LookupIn, BatchHits
<1>. QED BY <1>1, <1>2

LEMMA LookupThen ==
  ASSUME UNCHANGED <<text, version, batch, done>>, NEW imp, imp = impt'
  PROVE  \A m, n : Lookup(m, n)' = LookupIn(imp, LegbLookup(m, n)', m, n)
<1>. TAKE m, n
<1>1. \A s, k : GetDef(s, k)' = GetIn(imp, s, k)
  BY DEF GetDef, GetIn, EntriesFor, Shown, Defined
<1>2. Targets' = Targets
  BY DEF Targets
<1>3. CASE m \in batch
  <2>1. BatchHits(imp, m, n) = {i \in DOMAIN text[m].star : text[m].star[i] \in batch /\ GetDef(text[m].star[i], n)' # None}
    BY <1>1, <1>3 DEF BatchHits
  <2>. QED BY <1>1, <1>2, <1>3, <2>1 DEF Lookup, LookupIn, FirstOf
<1>4. CASE m \notin batch
  <2>1. {i \in DOMAIN <<>> : <<>>[i] \in batch /\ GetDef(<<>>[i], n)' # None} = {}
    OBVIOUS
  <2>. QED BY <1>2, <1>4, <2>1 DEF Lookup, LookupIn, BatchHits
<1>. QED BY <1>3, <1>4

DefOrNone(x, n) == x = None \/ \E s \in batch : n \in Defined(s) /\ x = Def(s, n, version[s])

\* What a lookup gives as long as no module gets or loses an entry of the name:
\* it comes from the same entry of the same module, or from a definition, or
\* from the table.
LEMMA LookupMoves ==
  ASSUME TextInv, NEW m, NEW n, NEW imp, NEW new, NEW leg, NEW leg2,
         \A s \in batch : EntriesFor(new, s, n) = EntriesFor(imp, s, n)
  PROVE  \/ \E s \in batch : \E i \in EntriesFor(imp, s, n) :
              LookupIn(imp, leg, m, n) = Shown(imp, s, i) /\ LookupIn(new, leg2, m, n) = Shown(new, s, i)
         \/ LookupIn(new, leg2, m, n) = LookupIn(imp, leg, m, n) /\ DefOrNone(LookupIn(imp, leg, m, n), n)
         \/ m \in Targets /\ LookupIn(imp, leg, m, n) = leg /\ LookupIn(new, leg2, m, n) = leg2
<1>1. \A s : Def(s, n, version[s]) # None
  BY DEF Def, None
<1>2. \A s, i : Shown(imp, s, i) # None /\ Shown(new, s, i) # None
  <2>1. \A s, i : [kind |-> "entry", module |-> s, index |-> i] # None
    BY DEF None
  <2>. QED BY <2>1 DEF Shown
<1>3. ASSUME NEW s \in batch
      PROVE  \/ \E i \in EntriesFor(imp, s, n) :
                  GetIn(imp, s, n) = Shown(imp, s, i) /\ GetIn(new, s, n) = Shown(new, s, i)
             \/ GetIn(imp, s, n) = GetIn(new, s, n) /\ DefOrNone(GetIn(imp, s, n), n)
  <2>1. CASE n \in Defined(s)
    BY <2>1 DEF GetIn, DefOrNone
  <2>2. CASE n \notin Defined(s) /\ EntriesFor(imp, s, n) = {}
    BY <2>2 DEF GetIn, DefOrNone
  <2>3. CASE n \notin Defined(s) /\ EntriesFor(imp, s, n) # {}
    <3>. DEFINE i == CHOOSE j \in EntriesFor(imp, s, n) : TRUE
    <3>1. i \in EntriesFor(imp, s, n)
      BY <2>3
    <3>2. GetIn(imp, s, n) = Shown(imp, s, i) /\ GetIn(new, s, n) = Shown(new, s, i)
      BY <2>3 DEF GetIn
    <3>. QED BY <3>1, <3>2
  <2>. QED BY <2>1, <2>2, <2>3
<1>4. \A s \in batch : GetIn(imp, s, n) # None <=> GetIn(new, s, n) # None
  BY <1>1, <1>2, <1>3
<1>5. BatchHits(imp, m, n) = BatchHits(new, m, n)
  BY <1>4 DEF BatchHits
<1>. DEFINE hits == BatchHits(imp, m, n)
            first == text[m].star[FirstOf(hits)]
<1>6. hits # {} => m \in batch /\ first \in batch
  <2>. SUFFICES ASSUME hits # {} PROVE m \in batch /\ first \in batch
    OBVIOUS
  <2>1. m \in batch
    BY DEF BatchHits
  <2>2. text[m].star \in Seq(Symid)
    BY <2>1 DEF TextInv, Queues, Texts, IsText
  <2>3. hits \in SUBSET Nat
    BY <2>2 DEF BatchHits
  <2>4. FirstOf(hits) \in hits
    BY <2>3, FirstHit
  <2>5. \A i \in hits : text[m].star[i] \in batch
    BY DEF BatchHits
  <2>. QED BY <2>1, <2>4, <2>5
<1>7. CASE m \in batch /\ GetIn(imp, m, n) # None
  <2>1. LookupIn(imp, leg, m, n) = GetIn(imp, m, n) /\ LookupIn(new, leg2, m, n) = GetIn(new, m, n)
    BY <1>4, <1>7 DEF LookupIn
  <2>. QED BY <1>3, <1>7, <2>1
<1>8. CASE ~(m \in batch /\ GetIn(imp, m, n) # None) /\ hits # {}
  <2>1. LookupIn(imp, leg, m, n) = GetIn(imp, first, n) /\ LookupIn(new, leg2, m, n) = GetIn(new, first, n)
    BY <1>4, <1>5, <1>8 DEF LookupIn
  <2>. HIDE DEF first
  <2>. QED BY <1>3, <1>6, <1>8, <2>1
<1>9. CASE ~(m \in batch /\ GetIn(imp, m, n) # None) /\ hits = {}
  BY <1>4, <1>5, <1>9 DEF LookupIn, DefOrNone
<1>. QED BY <1>7, <1>8, <1>9

LEMMA LookupFrom ==
  ASSUME TextInv, Kinds, NEW m, NEW n
  PROVE  /\ \/ \E s \in batch : \E i \in EntriesFor(impt, s, n) : Lookup(m, n) = Shown(impt, s, i)
            \/ DefOrNone(Lookup(m, n), n)
            \/ m \in Symid /\ Lookup(m, n) = LegbLookup(m, n)
         /\ Lookup(m, n).kind = "entry" =>
              \E s \in batch : \E i \in EntriesFor(impt, s, n) :
                /\ impt[s][i].value = None
                /\ Lookup(m, n) = [kind |-> "entry", module |-> s, index |-> i]
         /\ n = <<>> => Lookup(m, n) = None
<1>1. \/ \E s \in batch : \E i \in EntriesFor(impt, s, n) : Lookup(m, n) = Shown(impt, s, i)
      \/ DefOrNone(Lookup(m, n), n)
      \/ m \in Symid /\ Lookup(m, n) = LegbLookup(m, n)
  BY LookupMoves, LookupIs DEF TextInv, Queues, Targets
<1>2. ASSUME NEW s \in batch, NEW i \in EntriesFor(impt, s, n)
      PROVE  n # <<>> /\ s \in Symid /\ i \in DOMAIN impt[s]
  <2>1. s \in Symid /\ EntriesOf(impt[s], text[s].impt, Taken(s))
    BY DEF TextInv, Queues, Entries
  <2>2. i \in DOMAIN impt[s] /\ impt[s][i].as = n
    BY DEF EntriesFor
  <2>3. IsEntry(impt[s][i])
    BY <2>1, <2>2, SeqFacts DEF EntriesOf
  <2>. QED BY <2>1, <2>2, <2>3, Typed DEF IsEntry
<1>3. Lookup(m, n).kind = "entry" =>
              \E s \in batch : \E i \in EntriesFor(impt, s, n) :
                /\ impt[s][i].value = None
                /\ Lookup(m, n) = [kind |-> "entry", module |-> s, index |-> i]
  <2>1. DefOrNone(Lookup(m, n), n) => Lookup(m, n).kind # "entry"
    BY DEF DefOrNone, Def, None
  <2>2. m \in Symid /\ Lookup(m, n) = LegbLookup(m, n) => Lookup(m, n).kind # "entry"
    BY LegbKind
  <2>3. ASSUME NEW s \in batch, NEW i \in EntriesFor(impt, s, n),
               Lookup(m, n) = Shown(impt, s, i), Lookup(m, n).kind = "entry"
        PROVE  /\ impt[s][i].value = None
               /\ Lookup(m, n) = [kind |-> "entry", module |-> s, index |-> i]
    BY <1>2, <2>3 DEF Shown, Kinds
  <2>. QED BY <1>1, <2>1, <2>2, <2>3
<1>4. n = <<>> => Lookup(m, n) = None
  <2>1. \A s \in batch : <<>> \notin Defined(s)
    BY Typed DEF TextInv, Queues, Texts, IsText, Defined
  <2>2. n = <<>> => (DefOrNone(Lookup(m, n), n) => Lookup(m, n) = None)
    BY <2>1 DEF DefOrNone
  <2>3. n = <<>> => (m \in Symid /\ Lookup(m, n) = LegbLookup(m, n) => Lookup(m, n) = None)
    BY LegbKind
  <2>. QED BY <1>1, <1>2, <2>2, <2>3
<1>. QED BY <1>1, <1>3, <1>4

\* Steps after which every name is what it was.
LEMMA LookupSame ==
  ASSUME UNCHANGED <<text, version, batch, done, impt, local, cache, starOf>>
  PROVE  \A m, n : Lookup(m, n)' = Lookup(m, n)
BY DEF Lookup, GetDef, Defined, Targets, LegbLookup, LookupLocal, GetType, Builtin

LEMMA AgreesSame ==
  ASSUME UNCHANGED <<text, version, batch, done, impt, local, cache, starOf>>, AllAgree
  PROVE  AllAgree'
<1>1. \A m, n : Lookup(m, n)' = Lookup(m, n)
  BY LookupSame
<1>. QED BY <1>1 DEF AllAgree, Agrees, BoundSince

-----------------------------------------------------------------------------
(* ChainInv *)

LEMMA ChainInit == Init => ChainInv
<1>. SUFFICES ASSUME Init PROVE ChainInv
  OBVIOUS
<1>1. TextInv
  BY TextInit
<1>2. batch = {} /\ phase = "idle" /\ \A m \in Symid : local[m] = Empty /\ cache[m] = Empty
  BY DEF Init, TablesInit
<1>3. Kinds
  BY <1>2 DEF Kinds, Empty
<1>. QED BY <1>1, <1>2, <1>3 DEF ChainInv, WholeLater, Followed, AllAgree

\* Steps of the client, between batches.
LEMMA ClientChain ==
  ASSUME ChainInv, (\E M \in adds : AddCheckFiles(M)) \/ (\E e \in edits : Recheck(e[1], e[2]))
  PROVE  Kinds' /\ WholeLater' /\ Followed' /\ AllAgree'
<1>1. /\ phase' = "idle" /\ batch' = {} /\ batch = {} /\ done' \subseteq done
      /\ \A m \in Symid :
           \/ local'[m] = local[m] /\ cache'[m] = cache[m] /\ (m \in done' <=> m \in done)
           \/ DOMAIN local'[m] = {} /\ DOMAIN cache'[m] = {}
  <2>1. phase = "idle" /\ batch = {} /\ DOMAIN local = Symid /\ DOMAIN cache = Symid
    BY DEF ChainInv, TextInv, Queues, TotalFunctions, AddCheckFiles, Recheck
  <2>2. ASSUME NEW M, AddCheckFiles(M)
        PROVE UNCHANGED <<phase, batch, local, cache, done>>
    BY <2>2 DEF AddCheckFiles, tables
  <2>3. ASSUME NEW e, Recheck(e[1], e[2])
        PROVE /\ UNCHANGED <<phase, batch>> /\ (done' = done \/ done' = done \ {e[1]})
              /\ local' = [local EXCEPT ![e[1]] = Empty] /\ cache' = [cache EXCEPT ![e[1]] = Empty]
    BY <2>3 DEF Recheck, Clear
  <2>. QED BY <2>1, <2>2, <2>3 DEF Empty
<1>2. Kinds'
  BY <1>1 DEF ChainInv, Kinds
<1>. QED BY <1>1, <1>2 DEF WholeLater, Followed, AllAgree

LEMMA PreprocessChain ==
  ASSUME ChainInv, Preprocess
  PROVE  Kinds' /\ WholeLater' /\ Followed' /\ AllAgree'
<1>. DEFINE new == waiting \cup (Closure(waiting) \ done)
<1>1. /\ batch' = new /\ new \subseteq Symid
      /\ impt' = [m \in Symid |-> IF m \in new THEN text[m].impt ELSE <<>>]
      /\ local' = [m \in Symid |->
                     IF m \in new
                     THEN Entered(local[m], [n \in text[m].cls |-> Def(m, n, version[m])])
                     ELSE local[m]]
      /\ phase' = "visit" /\ UNCHANGED <<text, done, cache>>
  BY DEF Preprocess, sources, Closure, ChainInv, TextInv, Queues
<1>. HIDE DEF new
<1>2. \A m \in new : impt'[m] = text[m].impt /\ \A i \in DOMAIN impt'[m] : impt'[m][i].value = None
  BY <1>1, TextEntries DEF ChainInv, TextInv, Texts
<1>3. ASSUME NEW m \in Symid, NEW n \in DOMAIN local'[m]
      PROVE  (n \in DOMAIN local[m] /\ local'[m][n] = local[m][n]) \/ local'[m][n].kind = "def"
  BY <1>1 DEF Entered, Def
<1>4. Kinds'
  <2>1. None.kind # "entry"
    BY DEF None
  <2>2. \A m \in Symid : m \in batch' => \A i \in DOMAIN impt'[m] : impt'[m][i].value.kind # "entry"
    BY <1>1, <1>2, <2>1
  <2>3. ASSUME NEW m \in Symid, NEW n \in DOMAIN local'[m]
        PROVE  /\ local'[m][n].kind \in {"def", "module", "import"}
               /\ local'[m][n].kind = "import" => m \in done /\ Key(local'[m][n]) \in DOMAIN cache[m]
    BY <1>3 DEF ChainInv, Kinds
  <2>4. \A m \in Symid : \A k \in DOMAIN cache[m] : cache[m][k].kind # "entry"
    BY DEF ChainInv, Kinds
  <2>5. cache' = cache /\ done' = done
    BY <1>1
  <2>. QED BY <2>2, <2>3, <2>4, <2>5 DEF Kinds
<1>5. WholeLater'
  <2>. SUFFICES ASSUME NEW m \in batch', NEW i \in 1..Len(text'[m].impt) PROVE impt'[m][i].value = None
    BY DEF WholeLater
  <2>1. m \in new /\ m \in Symid /\ text'[m].impt = text[m].impt
    BY <1>1
  <2>2. DOMAIN text[m].impt = 1..Len(text[m].impt)
    BY <2>1, TextEntries, SeqFacts DEF ChainInv, TextInv, Texts, EntriesOf
  <2>. QED BY <1>2, <2>1, <2>2
<1>6. AllAgree'
  BY <1>1, <1>2 DEF AllAgree, Agrees
<1>. QED BY <1>1, <1>4, <1>5, <1>6 DEF Followed

LEMMA LastEntry ==
  ASSUME NEW imports, IsSeq(imports), NEW k \in {Key(imports[i]) : i \in DOMAIN imports}
  PROVE  \E i \in DOMAIN imports : Key(imports[i]) = k /\ CachedFor(imports, k) = imports[i].value
<1>. DEFINE I == {i \in DOMAIN imports : Key(imports[i]) = k}
            T == {Len(imports) - i : i \in I}
<1>1. Len(imports) \in Nat /\ DOMAIN imports = 1..Len(imports)
  BY SeqFacts
<1>2. T \in SUBSET Nat /\ T # {}
  BY <1>1
<1>3. PICK d \in T : \A e \in T : d <= e
  BY <1>2, FirstHit
<1>4. PICK i \in I : d = Len(imports) - i
  BY <1>3
<1>5. \A j \in I : j <= i
  <2>. TAKE j \in I
  <2>1. d <= Len(imports) - j
    BY <1>3
  <2>. QED BY <1>1, <1>4, <2>1
<1>6. \E l \in DOMAIN imports : Key(imports[l]) = k /\ \A j \in DOMAIN imports : Key(imports[j]) = k => j <= l
  BY <1>5
<1>. QED BY <1>6 DEF CachedFor

LEMMA DumpChain ==
  ASSUME ChainInv, Dump
  PROVE  Kinds' /\ WholeLater' /\ Followed' /\ AllAgree'
<1>1. /\ phase' = "idle" /\ batch' = {} /\ done' = done \cup batch
      /\ local' = [m \in Symid |->
            IF m \in batch THEN Entered(local[m], Dumped(m, impt[m], text[m].own, version[m])) ELSE local[m]]
      /\ cache' = [m \in Symid |-> IF m \in batch THEN DumpedCache(impt[m]) ELSE cache[m]]
  BY DEF Dump
<1>2. batch \subseteq Symid /\ batch \cap done = {}
  BY DEF ChainInv, TextInv, Queues
<1>3. ASSUME NEW m \in batch
      PROVE  /\ \A n \in DOMAIN local'[m] :
                  /\ local'[m][n].kind \in {"def", "module", "import"}
                  /\ local'[m][n].kind = "import" => Key(local'[m][n]) \in DOMAIN cache'[m]
             /\ \A k \in DOMAIN cache'[m] : cache'[m][k].kind # "entry"
  <2>. DEFINE imports == impt[m]
              dumped == Dumped(m, imports, text[m].own, version[m])
  <2>1. m \in Symid /\ m \notin done /\ local'[m] = Entered(local[m], dumped) /\ cache'[m] = DumpedCache(imports)
    BY <1>1, <1>2
  <2>2. IsSeq(imports)
    BY <2>1 DEF ChainInv, TextInv, Entries, EntriesOf
  <2>3. DOMAIN cache'[m] = {Key(imports[i]) : i \in DOMAIN imports}
    BY <2>1 DEF DumpedCache
  <2>4. \A k \in DOMAIN cache'[m] : cache'[m][k].kind # "entry"
    <3>. TAKE k \in DOMAIN cache'[m]
    <3>1. PICK i \in DOMAIN imports : CachedFor(imports, k) = imports[i].value
      BY <2>2, <2>3, LastEntry
    <3>2. imports[i].value.kind # "entry"
      BY <2>1 DEF ChainInv, Kinds
    <3>3. cache'[m][k] = IF CachedFor(imports, k) = None THEN AnyIns ELSE CachedFor(imports, k)
      BY <2>1, <2>3 DEF DumpedCache
    <3>. QED BY <3>1, <3>2, <3>3 DEF AnyIns
  <2>5. ASSUME NEW n \in DOMAIN dumped
        PROVE  \/ dumped[n].kind = "def"
               \/ dumped[n].kind = "import" /\ Key(dumped[n]) \in DOMAIN cache'[m]
    <3>1. CASE n \in Imported(imports)
      <4>. DEFINE i == CHOOSE j \in DOMAIN imports : imports[j].as = n
      <4>1. i \in DOMAIN imports
        BY <3>1 DEF Imported
      <4>2. dumped[n] = ImportEntry(imports[i].symid, imports[i].origin)
        BY <3>1 DEF Dumped
      <4>3. Key(dumped[n]) = Key(imports[i]) /\ dumped[n].kind = "import"
        BY <4>2 DEF Key, ImportEntry
      <4>. QED BY <2>3, <4>1, <4>3
    <3>2. CASE n \notin Imported(imports)
      BY <3>2 DEF Dumped, Def
    <3>. QED BY <3>1, <3>2
  <2>6. ASSUME NEW n \in DOMAIN local'[m]
        PROVE  /\ local'[m][n].kind \in {"def", "module", "import"}
               /\ local'[m][n].kind = "import" => Key(local'[m][n]) \in DOMAIN cache'[m]
    <3>1. \/ n \in DOMAIN dumped /\ local'[m][n] = dumped[n]
          \/ n \in DOMAIN local[m] /\ local'[m][n] = local[m][n]
      BY <2>1 DEF Entered
    <3>2. n \in DOMAIN local[m] => local[m][n].kind \in {"def", "module"}
      BY <2>1 DEF ChainInv, Kinds
    <3>. QED BY <2>5, <3>1, <3>2
  <2>. QED BY <2>4, <2>6
<1>4. ASSUME NEW m \in Symid \ batch
      PROVE  local'[m] = local[m] /\ cache'[m] = cache[m]
  BY <1>1
<1>5. Kinds'
  BY <1>1, <1>3, <1>4 DEF ChainInv, Kinds
<1>. QED BY <1>1, <1>5 DEF WholeLater, Followed, AllAgree

\* Turns of the loop that give no value and follow nothing.
LEMMA QuietChain ==
  ASSUME ChainInv, UNCHANGED clients,
         (\E m \in Symid : VisitModule(m)) \/ ImportLoop \/ NothingFound \/ AllVisited
  PROVE  Kinds' /\ WholeLater' /\ Followed' /\ AllAgree'
<1>1. UNCHANGED <<text, version, batch, done, impt, local, cache, starOf>> /\ phase' # "chain"
  BY DEF VisitModule, ImportLoop, NothingFound, AllVisited, sources, tables, visit
<1>2. Kinds'
  BY <1>1 DEF ChainInv, Kinds
<1>3. ASSUME NEW m \in batch, NEW i \in 1..Len(text[m].impt), NotVisited(m, i)'
      PROVE  NotVisited(m, i)
  <2>1. CASE ImportLoop \/ NothingFound \/ AllVisited
    BY <1>1, <1>3, <2>1 DEF NotVisited, Index, ImportLoop, NothingFound, AllVisited, visit
  <2>2. ASSUME NEW s \in Symid, VisitModule(s) PROVE NotVisited(m, i)
    BY <1>3, <2>2 DEF NotVisited, VisitModule
  <2>. QED BY <2>1, <2>2
<1>4. WholeLater'
  BY <1>1, <1>3 DEF ChainInv, WholeLater
<1>. QED BY <1>1, <1>2, <1>4, AgreesSame DEF ChainInv, Followed

LEMMA FollowChain ==
  ASSUME ChainInv, Follow, UNCHANGED clients
  PROVE  Kinds' /\ WholeLater' /\ Followed' /\ AllAgree'
<1>1. /\ UNCHANGED <<text, version, batch, done, impt, local, cache, starOf, waiting, current, at>>
      /\ phase = "chain" /\ Found.kind = "entry"
      /\ state' = <<FoundEntry.symid, FoundEntry.origin>>
      /\ buf' = buf \cup {<<Found.module, Found.index>>}
  BY DEF Follow, sources, tables, visit
<1>2. Kinds' /\ WholeLater'
  BY <1>1 DEF ChainInv, Kinds, WholeLater, NotVisited, Index
<1>3. PICK s \in batch : \E i \in EntriesFor(impt, s, state[2]) :
        /\ impt[s][i].value = None
        /\ Found = [kind |-> "entry", module |-> s, index |-> i]
  BY <1>1, LookupFrom DEF ChainInv, Found
<1>4. PICK i \in DOMAIN impt[s] :
        impt[s][i].value = None /\ Found = [kind |-> "entry", module |-> s, index |-> i]
  BY <1>3 DEF EntriesFor
<1>5. /\ Found.module = s /\ Found.index = i
      /\ state' = <<impt[s][i].symid, impt[s][i].origin>> /\ <<s, i>> \in buf'
  BY <1>1, <1>4 DEF FoundEntry
<1>6. \A m, n : Lookup(m, n)' = Lookup(m, n)
  BY <1>1, LookupSame
<1>7. ASSUME NEW b \in buf'
      PROVE  \E m \in batch : \E j \in DOMAIN impt[m] :
               b = <<m, j>> /\ impt[m][j].value = None /\ Onto(m, j)'
  <2>1. CASE b = <<s, i>>
    <3>1. Onto(s, i)'
      BY <1>1, <1>5 DEF Onto
    <3>. QED BY <1>4, <2>1, <3>1
  <2>2. CASE b \in buf
    <3>1. PICK m \in batch : \E j \in DOMAIN impt[m] : b = <<m, j>> /\ impt[m][j].value = None /\ Onto(m, j)
      BY <1>1, <2>2 DEF ChainInv, Followed
    <3>2. PICK j \in DOMAIN impt[m] : b = <<m, j>> /\ impt[m][j].value = None /\ Onto(m, j)
      BY <3>1
    <3>. DEFINE x == impt[m][j].symid
                y == impt[m][j].origin
    <3>3. CASE <<x, y>> = state
      <4>1. Lookup(x, y) = Found
        BY <3>3 DEF Found
      <4>2. Lookup(x, y)' = [kind |-> "entry", module |-> s, index |-> i]
        BY <1>1, <1>4, <1>6, <4>1
      <4>. QED BY <1>1, <1>5, <3>2, <4>2 DEF Onto
    <3>4. CASE \E t \in batch : \E k \in DOMAIN impt[t] :
                 <<t, k>> \in buf /\ Lookup(x, y) = [kind |-> "entry", module |-> t, index |-> k]
      BY <1>1, <1>6, <3>2, <3>4 DEF Onto
    <3>. QED BY <3>2, <3>3, <3>4 DEF Onto
  <2>. QED BY <1>1, <1>5, <2>1, <2>2
<1>8. Followed'
  BY <1>1, <1>7 DEF Followed
<1>. QED BY <1>1, <1>2, <1>8, AgreesSame DEF ChainInv

\* What agrees after a step, said of the lookups as they are then.
LEMMA AgreesThen ==
  ASSUME UNCHANGED <<text, version, batch, done>>, NEW m, NEW i, NEW imp, imp = impt',
         NEW e, e = imp[m][i], NEW leg, leg = LegbLookup(e.symid, e.origin)',
         NEW given, given = LookupIn(imp, leg, e.symid, e.origin),
         e.origin # Whole /\ e.value # None /\ e.origin \notin Symid
               => given = e.value \/ BoundSince(e.origin, given)
  PROVE  Agrees(m, i)'
<1>1. \A s, n : Lookup(s, n)' = LookupIn(imp, LegbLookup(s, n)', s, n)
  BY LookupThen
<1>2. given = Lookup(e.symid, e.origin)'
  BY <1>1
<1>. QED BY <1>2 DEF Agrees, BoundSince

LEMMA ValueFoundChain ==
  ASSUME ChainInv, ValueFound, UNCHANGED clients
  PROVE  Kinds' /\ WholeLater' /\ Followed' /\ AllAgree'
<1>1. /\ phase = "chain" /\ phase' = "visit" /\ Found.kind \notin {"none", "entry"}
      /\ UNCHANGED <<text, version, batch, done, local, cache, starOf, waiting, current, at>>
  BY DEF ValueFound, sources, tables
<1>2. TextInv /\ Kinds /\ WholeLater /\ Followed /\ AllAgree
  BY DEF ChainInv
<1>3. batch \subseteq Symid /\ Found # None /\ Found.kind # "entry"
  BY <1>1, <1>2 DEF TextInv, Queues, None
<1>4. \A m \in batch : \A i \in DOMAIN impt[m] :
        <<m, i>> \in buf => impt[m][i].value = None /\ Onto(m, i)
  BY <1>1, <1>2 DEF Followed
<1>5. ASSUME NEW m \in batch
      PROVE  /\ DOMAIN impt'[m] = DOMAIN impt[m]
             /\ Len(impt'[m]) = Len(impt[m]) /\ DOMAIN impt[m] = 1..Len(impt[m])
             /\ EntriesOf(impt[m], text[m].impt, Taken(m))
             /\ \A i \in DOMAIN impt[m] :
                  /\ impt'[m][i].as = impt[m][i].as /\ impt'[m][i].symid = impt[m][i].symid
                  /\ impt'[m][i].origin = impt[m][i].origin
                  /\ impt'[m][i].value = IF <<m, i>> \in buf THEN Found ELSE impt[m][i].value
  BY <1>2, <1>3, ValueStep DEF TextInv, Entries
<1>6. Kinds'
  <2>1. ASSUME NEW m \in batch, NEW i \in DOMAIN impt'[m]
        PROVE  impt'[m][i].value.kind # "entry"
    <3>1. i \in DOMAIN impt[m] /\ m \in Symid
      BY <1>3, <1>5
    <3>2. impt[m][i].value.kind # "entry"
      BY <1>2, <3>1 DEF Kinds
    <3>. QED BY <1>3, <1>5, <3>1, <3>2
  <2>. QED BY <1>1, <1>2, <2>1 DEF Kinds
<1>7. WholeLater'
  <2>. SUFFICES ASSUME NEW m \in batch, NEW i \in 1..Len(text[m].impt),
                       impt'[m][i].origin = Whole, impt'[m][i].as \notin Symid, NotVisited(m, i)
       PROVE  impt'[m][i].value = None
    BY <1>1 DEF WholeLater, NotVisited, Index
  <2>1. i \in DOMAIN impt[m]
    <3>1. Len(text[m].impt) \in Nat /\ Len(impt[m]) \in Nat /\ Len(text[m].impt) <= Len(impt[m])
      BY <1>2, <1>3, <1>5, TextEntries, SeqFacts DEF EntriesOf, TextInv, Texts
    <3>. QED BY <1>5, <3>1
  <2>2. impt[m][i].origin = <<>> /\ impt[m][i].value = None
    BY <1>2, <1>5, <2>1 DEF WholeLater, Whole
  <2>3. <<m, i>> \notin buf
    <3>. SUFFICES ASSUME <<m, i>> \in buf PROVE FALSE
      OBVIOUS
    <3>1. Onto(m, i)
      BY <1>4, <2>1
    <3>2. Lookup(impt[m][i].symid, impt[m][i].origin) = None
      BY <1>2, <2>2, LookupFrom
    <3>3. <<impt[m][i].symid, impt[m][i].origin>> # state
      BY <1>3, <3>2 DEF Found
    <3>4. \A s, j : Lookup(impt[m][i].symid, impt[m][i].origin) # [kind |-> "entry", module |-> s, index |-> j]
      BY <3>2 DEF None
    <3>. QED BY <3>1, <3>3, <3>4 DEF Onto
  <2>. QED BY <1>5, <2>1, <2>2, <2>3
<1>8. PICK imp : imp = impt'
  OBVIOUS
<1>9. \A m, n : LegbLookup(m, n)' = LegbLookup(m, n)
  BY <1>1 DEF LegbLookup, LookupLocal, GetType, Builtin
<1>10. ASSUME NEW x, NEW y
       PROVE  LET new == LookupIn(imp, LegbLookup(x, y), x, y)
              IN  /\ new = Lookup(x, y) \/ Lookup(x, y).kind = "entry"
                  /\ \A s \in batch : \A j \in DOMAIN impt[s] :
                       /\ <<s, j>> \in buf
                       /\ Lookup(x, y) = [kind |-> "entry", module |-> s, index |-> j]
                       => new = Found
  <2>. DEFINE leg == LegbLookup(x, y)
              new == LookupIn(imp, leg, x, y)
  <2>1. \A s \in batch : EntriesFor(imp, s, y) = EntriesFor(impt, s, y)
    BY <1>5, <1>8 DEF EntriesFor
  <2>2. Lookup(x, y) = LookupIn(impt, leg, x, y)
    BY LookupIs
  <2>3. \/ \E s \in batch : \E i \in EntriesFor(impt, s, y) :
             Lookup(x, y) = Shown(impt, s, i) /\ new = Shown(imp, s, i)
        \/ new = Lookup(x, y) /\ DefOrNone(Lookup(x, y), y)
        \/ x \in Targets /\ Lookup(x, y) = leg /\ new = leg
    BY <1>2, <2>1, <2>2, LookupMoves
  <2>. HIDE DEF new
  <2>4. ASSUME NEW s \in batch, NEW i \in EntriesFor(impt, s, y),
               Lookup(x, y) = Shown(impt, s, i), new = Shown(imp, s, i)
        PROVE  /\ new = Lookup(x, y) \/ Lookup(x, y).kind = "entry"
               /\ \A t \in batch : \A j \in DOMAIN impt[t] :
                       /\ <<t, j>> \in buf
                       /\ Lookup(x, y) = [kind |-> "entry", module |-> t, index |-> j]
                       => new = Found
    <3>1. i \in DOMAIN impt[s] /\ impt[s][i].value.kind # "entry"
      BY <1>2, <1>3 DEF EntriesFor, Kinds
    <3>2. imp[s][i].value = IF <<s, i>> \in buf THEN Found ELSE impt[s][i].value
      BY <1>5, <1>8, <3>1
    <3>3. CASE <<s, i>> \in buf
      <4>1. Lookup(x, y) = [kind |-> "entry", module |-> s, index |-> i] /\ new = Found
        BY <1>3, <1>4, <2>4, <3>1, <3>2, <3>3 DEF Shown
      <4>. QED BY <4>1
    <3>4. CASE <<s, i>> \notin buf
      <4>1. new = Lookup(x, y)
        BY <2>4, <3>2, <3>4 DEF Shown
      <4>2. ASSUME NEW t \in batch, NEW j \in DOMAIN impt[t],
                   Lookup(x, y) = [kind |-> "entry", module |-> t, index |-> j]
            PROVE  t = s /\ j = i
        BY <2>4, <3>1, <4>2 DEF Shown
      <4>. QED BY <3>4, <4>1, <4>2
    <3>. QED BY <3>3, <3>4
  <2>5. DefOrNone(Lookup(x, y), y) => Lookup(x, y).kind # "entry"
    BY DEF DefOrNone, Def, None
  <2>6. x \in Targets => leg.kind # "entry"
    BY <1>2, LegbKind DEF Targets, TextInv, Queues
  <2>7. ASSUME new = Lookup(x, y), Lookup(x, y).kind # "entry"
        PROVE  /\ new = Lookup(x, y) \/ Lookup(x, y).kind = "entry"
               /\ \A t \in batch : \A j \in DOMAIN impt[t] :
                       /\ <<t, j>> \in buf
                       /\ Lookup(x, y) = [kind |-> "entry", module |-> t, index |-> j]
                       => new = Found
    BY <2>7
  <2>8. /\ new = Lookup(x, y) \/ Lookup(x, y).kind = "entry"
        /\ \A t \in batch : \A j \in DOMAIN impt[t] :
                       /\ <<t, j>> \in buf
                       /\ Lookup(x, y) = [kind |-> "entry", module |-> t, index |-> j]
                       => new = Found
    BY <2>3, <2>4, <2>5, <2>6, <2>7
  <2>. QED BY <2>8 DEF new
<1>11. ASSUME NEW m \in batch, NEW i \in DOMAIN impt'[m]
       PROVE  Agrees(m, i)'
  <2>. DEFINE e == imp[m][i]
              x == e.symid
              y == e.origin
              leg == LegbLookup(x, y)
              given == LookupIn(imp, leg, x, y)
  <2>1. /\ i \in DOMAIN impt[m] /\ x = impt[m][i].symid /\ y = impt[m][i].origin
        /\ e.value = IF <<m, i>> \in buf THEN Found ELSE impt[m][i].value
    BY <1>5, <1>8
  <2>2. LegbLookup(e.symid, e.origin)' = leg
    BY <1>8, <1>9
  <2>. HIDE DEF e
  <2>3. ASSUME y # Whole, e.value # None, y \notin Symid
        PROVE  given = e.value \/ BoundSince(y, given)
    <3>. HIDE DEF x, y
    <3>1. CASE <<m, i>> \in buf
      <4>1. Onto(m, i)
        BY <1>4, <2>1, <3>1
      <4>2. CASE <<x, y>> = state
        <5>1. Lookup(x, y) = Found
          BY <4>2 DEF Found
        <5>. QED BY <1>3, <1>10, <2>1, <3>1, <5>1
      <4>3. CASE \E s \in batch : \E j \in DOMAIN impt[s] :
                   /\ <<s, j>> \in buf
                   /\ Lookup(x, y) = [kind |-> "entry", module |-> s, index |-> j]
        BY <1>10, <2>1, <3>1, <4>3
      <4>. QED BY <2>1, <4>1, <4>2, <4>3 DEF Onto
    <3>2. CASE <<m, i>> \notin buf
      <4>1. e.value = impt[m][i].value /\ e.value.kind # "entry"
        BY <1>2, <1>3, <2>1, <3>2 DEF Kinds
      <4>2. Lookup(x, y) = e.value \/ BoundSince(y, Lookup(x, y))
        BY <1>2, <2>1, <2>3, <4>1 DEF AllAgree, Agrees
      <4>3. Lookup(x, y).kind # "entry"
        BY <4>1, <4>2 DEF BoundSince, Mod
      <4>4. given = Lookup(x, y)
        BY <1>10, <4>3
      <4>. QED BY <4>2, <4>4
    <3>. QED BY <3>1, <3>2
  <2>4. e = imp[m][i]
    BY DEF e
  <2>. QED BY <1>1, <1>8, <2>2, <2>3, <2>4, AgreesThen
<1>12. AllAgree'
  BY <1>1, <1>11 DEF AllAgree
<1>. QED BY <1>1, <1>6, <1>7, <1>12 DEF Followed

LEMMA ImportStepChain ==
  ASSUME ChainInv, ImportModule \/ ImportFrom, UNCHANGED clients
  PROVE  Kinds' /\ WholeLater' /\ Followed' /\ AllAgree'
<1>1. /\ phase = "visit" /\ at > 0 /\ at' = at - 1
      /\ UNCHANGED <<text, version, batch, done, waiting, current>>
  BY DEF ImportModule, ImportFrom, sources
<1>2. TextInv /\ Kinds /\ WholeLater /\ Followed /\ AllAgree
  BY DEF ChainInv
<1>3. /\ batch \subseteq Symid /\ current \in batch /\ current \notin waiting /\ at \in Nat
      /\ Len(text[current].impt) \in Nat /\ Len(impt[current]) \in Nat
      /\ Index \in 1..Len(text[current].impt) /\ Index \in 1..Len(impt[current])
      /\ DOMAIN impt[current] = 1..Len(impt[current])
      /\ Len(text[current].impt) <= Len(impt[current])
  BY <1>1, <1>2, VisitedFacts DEF TextInv, Queues, EntriesOf
<1>4. /\ \A m \in Symid \ {current} : impt'[m] = impt[m]
      /\ EntriesOf(impt'[current], text[current].impt, Taken(current))
      /\ Len(impt[current]) <= Len(impt'[current])
      /\ \A i \in 1..Len(impt[current]) : BoundOrSame(current, i)
      /\ \A i \in 1..Len(impt'[current]) :
           i > Len(impt[current]) => impt'[current][i].value = Mod(impt'[current][i].as)
  BY <1>1, <1>2, BindStep
<1>5. DOMAIN impt'[current] = 1..Len(impt'[current]) /\ Len(impt'[current]) \in Nat
  BY <1>4, SeqFacts DEF EntriesOf
<1>6. PICK M \in SUBSET Symid : AddSubmodules(M)
  BY <1>1, <1>2, SubmodulesOfImport
<1>7. /\ UNCHANGED <<cache, starOf>>
      /\ \A m \in Symid : \A n \in DOMAIN local'[m] :
              \/ n \in DOMAIN local[m] /\ local'[m][n] = local[m][n]
              \/ n # <<>> /\ m \o n \in Symid /\ local'[m][n] = Mod(m \o n)
  BY <1>2, <1>6, SubmodulesAdded DEF TextInv, TotalFunctions
<1>8. Kinds'
  <2>1. ASSUME NEW m \in batch, NEW i \in DOMAIN impt'[m]
        PROVE  impt'[m][i].value.kind # "entry"
    <3>1. CASE m # current
      <4>1. impt'[m] = impt[m] /\ m \in Symid
        BY <1>3, <1>4, <3>1
      <4>. QED BY <1>2, <4>1 DEF Kinds
    <3>2. CASE m = current /\ i <= Len(impt[current])
      <4>1. i \in 1..Len(impt[current]) /\ BoundOrSame(current, i)
        BY <1>3, <1>4, <1>5, <3>2
      <4>2. impt[current][i].value.kind # "entry"
        BY <1>2, <1>3, <4>1 DEF Kinds
      <4>. QED BY <3>2, <4>1, <4>2 DEF BoundOrSame, Mod, None
    <3>3. CASE m = current /\ i > Len(impt[current])
      <4>1. impt'[m][i].value = Mod(impt'[m][i].as)
        BY <1>4, <1>5, <3>3
      <4>2. \A s : Mod(s).kind # "entry"
        BY DEF Mod
      <4>. QED BY <4>1, <4>2
    <3>. QED BY <1>3, <1>5, <3>1, <3>2, <3>3
  <2>2. ASSUME NEW m \in Symid, NEW n \in DOMAIN local'[m]
        PROVE  /\ local'[m][n].kind \in {"def", "module", "import"}
               /\ local'[m][n].kind = "import" => m \in done /\ Key(local'[m][n]) \in DOMAIN cache[m]
    <3>1. CASE n \in DOMAIN local[m] /\ local'[m][n] = local[m][n]
      BY <1>2, <3>1 DEF Kinds
    <3>2. CASE local'[m][n] = Mod(m \o n)
      BY <3>2 DEF Mod
    <3>. QED BY <1>7, <3>1, <3>2
  <2>3. \A m \in Symid : \A k \in DOMAIN cache[m] : cache[m][k].kind # "entry"
    BY <1>2 DEF Kinds
  <2>4. cache' = cache /\ done' = done /\ batch' = batch
    BY <1>1, <1>7
  <2>. QED BY <2>1, <2>2, <2>3, <2>4 DEF Kinds
<1>9. WholeLater'
  <2>1. Index' = Index + 1 /\ Index \in Nat
    BY <1>1, <1>3 DEF Index
  <2>. SUFFICES ASSUME NEW m \in batch, NEW i \in 1..Len(text[m].impt),
                       impt'[m][i].origin = Whole, impt'[m][i].as \notin Symid,
                       m \in waiting \/ (m = current /\ i >= Index + 1)
       PROVE  impt'[m][i].value = None
    BY <1>1, <2>1 DEF WholeLater, NotVisited
  <2>2. CASE m # current
    <3>1. impt'[m] = impt[m] /\ NotVisited(m, i)
      BY <1>3, <1>4, <2>2 DEF NotVisited
    <3>. QED BY <1>2, <3>1 DEF WholeLater
  <2>3. CASE m = current
    <3>1. i \in 1..Len(impt[current]) /\ i >= Index /\ i # Index
      BY <1>3, <2>1, <2>3
    <3>2. BoundOrSame(current, i) /\ NotVisited(m, i)
      BY <1>4, <2>3, <3>1 DEF NotVisited
    <3>3. impt'[m][i].value = impt[m][i].value /\ impt[m][i].origin = Whole /\ impt[m][i].as \notin Symid
      BY <2>3, <3>1, <3>2 DEF BoundOrSame
    <3>. QED BY <1>2, <3>2, <3>3 DEF WholeLater
  <2>. QED BY <2>2, <2>3
<1>10. Followed'
  <2>. SUFFICES ASSUME phase' = "chain"
       PROVE  \A b \in buf' : \E m \in batch : \E i \in DOMAIN impt'[m] :
                b = <<m, i>> /\ impt'[m][i].value = None /\ Onto(m, i)'
    BY <1>1 DEF Followed
  <2>1. /\ Visited.origin # Whole /\ Visited.value = None
        /\ state' = <<Visited.symid, Visited.origin>> /\ buf' = {<<current, Index>>}
    BY <1>1 DEF ImportModule, ImportFrom, chain
  <2>2. BoundOrSame(current, Index) /\ Index \in DOMAIN impt'[current]
    BY <1>3, <1>4, <1>5
  <2>3. /\ impt'[current][Index].value = None
        /\ <<impt'[current][Index].symid, impt'[current][Index].origin>> = state'
    BY <2>1, <2>2 DEF BoundOrSame, Visited
  <2>4. PICK c, i : c = current /\ i = Index
    OBVIOUS
  <2>5. Onto(c, i)'
    BY <1>1, <2>3, <2>4 DEF Onto
  <2>6. buf' = {<<c, i>>} /\ c \in batch /\ i \in DOMAIN impt'[c] /\ impt'[c][i].value = None
    BY <1>3, <2>1, <2>2, <2>3, <2>4
  <2>. QED BY <2>5, <2>6
<1>11. PICK imp : imp = impt'
  OBVIOUS
<1>12. ASSUME NEW n, n \notin Symid, NEW s \in batch
       PROVE  EntriesFor(imp, s, n) = EntriesFor(impt, s, n)
  <2>1. CASE s # current
    BY <1>3, <1>4, <1>11, <2>1 DEF EntriesFor
  <2>2. CASE s = current
    <3>1. ASSUME NEW i \in DOMAIN imp[current], imp[current][i].as = n
          PROVE  i \in DOMAIN impt[current]
      <4>1. ~(i > Len(text[current].impt) /\ i > Len(impt[current]))
        BY <1>4, <1>5, <1>11, <1>12, <3>1 DEF EntriesOf
      <4>. QED BY <1>3, <1>5, <1>11, <4>1
    <3>2. \A i \in DOMAIN impt[current] : i \in DOMAIN imp[current] /\ imp[current][i].as = impt[current][i].as
      BY <1>3, <1>4, <1>5, <1>11 DEF BoundOrSame
    <3>. QED BY <2>2, <3>1, <3>2 DEF EntriesFor
  <2>. QED BY <2>1, <2>2
<1>13. ASSUME NEW s \in batch, NEW j \in DOMAIN impt[s], impt[s][j].as \notin Symid
       PROVE  imp[s][j].value = impt[s][j].value \/ impt[s][j].value = None
  <2>1. CASE s # current
    BY <1>3, <1>4, <1>11, <2>1
  <2>2. CASE s = current
    <3>1. BoundOrSame(current, j)
      BY <1>3, <1>4, <2>2
    <3>2. CASE j = Index /\ impt[s][j].origin = Whole
      <4>1. NotVisited(s, j)
        BY <1>3, <2>2, <3>2 DEF NotVisited
      <4>. QED BY <1>2, <1>3, <1>13, <2>2, <3>2, <4>1 DEF WholeLater
    <3>3. CASE imp[s][j].value = impt[s][j].value
      BY <3>3
    <3>. QED BY <1>11, <1>13, <2>2, <3>1, <3>2, <3>3 DEF BoundOrSame
  <2>. QED BY <2>1, <2>2
<1>14. ASSUME NEW m \in batch, NEW i \in DOMAIN impt'[m]
       PROVE  Agrees(m, i)'
  <2>. DEFINE e == imp[m][i]
              x == e.symid
              y == e.origin
  <2>1. ASSUME y # Whole
        PROVE  /\ i \in DOMAIN impt[m] /\ x = impt[m][i].symid /\ y = impt[m][i].origin
               /\ e.value = impt[m][i].value
    <3>1. CASE m # current
      BY <1>3, <1>4, <1>11, <3>1
    <3>2. CASE m = current
      <4>1. i \in 1..Len(impt[current])
        <5>1. ~(i > Len(text[current].impt))
          BY <1>4, <1>5, <1>11, <2>1, <3>2 DEF EntriesOf
        <5>. QED BY <1>3, <1>5, <3>2, <5>1
      <4>2. BoundOrSame(current, i)
        BY <1>4, <4>1
      <4>. QED BY <1>3, <1>11, <2>1, <3>2, <4>1, <4>2 DEF BoundOrSame
    <3>. QED BY <3>1, <3>2
  <2>2. PICK leg : leg = LegbLookup(e.symid, e.origin)'
    OBVIOUS
  <2>3. e = imp[m][i]
    OBVIOUS
  <2>. DEFINE given == LookupIn(imp, leg, x, y)
  <2>. HIDE DEF e
  <2>4. ASSUME y # Whole, e.value # None, y \notin Symid
        PROVE  given = e.value \/ BoundSince(y, given)
    <3>1. Lookup(x, y) = e.value \/ BoundSince(y, Lookup(x, y))
      BY <1>2, <2>1, <2>4 DEF AllAgree, Agrees
    <3>2. Lookup(x, y).kind # "entry"
      <4>1. e.value.kind # "entry"
        BY <1>2, <1>3, <2>1, <2>4 DEF Kinds
      <4>2. \A s : Mod(s).kind # "entry"
        BY DEF Mod
      <4>. QED BY <3>1, <4>1, <4>2 DEF BoundSince
    <3>. HIDE DEF x, y
    <3>3. Lookup(x, y) = LookupIn(impt, LegbLookup(x, y), x, y)
      BY LookupIs
    <3>4. \A s \in batch : EntriesFor(imp, s, y) = EntriesFor(impt, s, y)
      BY <1>12, <2>4
    <3>5. \/ \E s \in batch : \E j \in EntriesFor(impt, s, y) :
               Lookup(x, y) = Shown(impt, s, j) /\ given = Shown(imp, s, j)
          \/ given = Lookup(x, y)
          \/ x \in Targets /\ Lookup(x, y) = LegbLookup(x, y) /\ given = leg
      BY <1>2, <3>3, <3>4, LookupMoves
    <3>. HIDE DEF given
    <3>6. CASE \E s \in batch : \E j \in EntriesFor(impt, s, y) :
               Lookup(x, y) = Shown(impt, s, j) /\ given = Shown(imp, s, j)
      <4>1. PICK s \in batch : \E j \in EntriesFor(impt, s, y) :
               Lookup(x, y) = Shown(impt, s, j) /\ given = Shown(imp, s, j)
        BY <3>6
      <4>2. PICK j \in DOMAIN impt[s] :
               impt[s][j].as = y /\ Lookup(x, y) = Shown(impt, s, j) /\ given = Shown(imp, s, j)
        BY <4>1 DEF EntriesFor
      <4>3. impt[s][j].value # None
        BY <3>2, <4>2 DEF Shown
      <4>4. imp[s][j].value = impt[s][j].value
        BY <1>13, <2>4, <4>2, <4>3
      <4>5. given = Lookup(x, y)
        BY <4>2, <4>4 DEF Shown
      <4>. QED BY <3>1, <4>5
    <3>7. CASE given = Lookup(x, y)
      BY <3>1, <3>7
    <3>8. CASE x \in Targets /\ Lookup(x, y) = LegbLookup(x, y) /\ given = leg
      <4>1. x \in Symid
        BY <1>2, <3>8 DEF Targets, TextInv, Queues
      <4>2. LegbLookup(x, y)' = leg
        BY <2>2 DEF x, y
      <4>3. PICK a, b : a = x /\ b = y /\ a \in Symid
        BY <4>1
      <4>4. LegbLookup(a, b)' = LegbLookup(a, b) \/ BoundSince(b, LegbLookup(a, b)')
        BY <1>2, <1>6, <4>3, LegbMoves
      <4>5. LegbLookup(a, b)' = leg
        BY <4>2, <4>3
      <4>. QED BY <3>1, <3>8, <4>3, <4>4, <4>5
    <3>. QED BY <3>5, <3>6, <3>7, <3>8
  <2>. QED BY <1>1, <1>11, <2>2, <2>3, <2>4, AgreesThen
<1>15. AllAgree'
  BY <1>1, <1>14 DEF AllAgree
<1>. QED BY <1>8, <1>9, <1>10, <1>15

LEMMA ChainStep == ChainInv /\ [Next]_vars => ChainInv'
<1>. SUFFICES ASSUME ChainInv, [Next]_vars PROVE ChainInv'
  OBVIOUS
<1>1. TextInv'
  BY TextStep DEF ChainInv
<1>. SUFFICES Kinds' /\ WholeLater' /\ Followed' /\ AllAgree'
  BY <1>1 DEF ChainInv
<1>2. CASE (\E M \in adds : AddCheckFiles(M)) \/ (\E e \in edits : Recheck(e[1], e[2]))
  BY <1>2, ClientChain
<1>3. CASE Preprocess
  BY <1>3, PreprocessChain
<1>4. CASE Resolve /\ UNCHANGED clients
  BY <1>4, QuietChain, FollowChain, ValueFoundChain, ImportStepChain DEF Resolve
<1>5. CASE Dump
  BY <1>5, DumpChain
<1>6. CASE UNCHANGED vars
  <2>1. UNCHANGED <<text, version, batch, done, impt, local, cache, starOf, waiting, current, at,
                    state, buf, phase>>
    BY <1>6 DEF vars, sources, tables, visit, chain
  <2>2. Kinds' /\ WholeLater'
    BY <2>1 DEF ChainInv, Kinds, WholeLater, NotVisited, Index
  <2>3. \A m, i : Onto(m, i)' = Onto(m, i)
    BY <2>1, LookupSame DEF Onto
  <2>4. Followed'
    BY <2>1, <2>3 DEF ChainInv, Followed
  <2>. QED BY <2>1, <2>2, <2>4, AgreesSame DEF ChainInv
<1>. QED BY <1>2, <1>3, <1>4, <1>5, <1>6 DEF Next

\* When a batch is resolved, an imported name that has a value stands for what
\* the module gives that it is imported from, or for a module of that name that
\* was bound since: whatever the texts, the order of the visits and the length
\* of the chains (_resolve_import_chain gives one value to all of buf_targets),
\* and whatever earlier batches and rereads have left in the symbol tables.
THEOREM ImportsAlwaysAgree == Spec => []ImportsAgree
<1>1. ChainInv => ImportsAgree
  BY DEF ChainInv, AllAgree, ImportsAgree
<1>. QED BY ChainInit, ChainStep, <1>1, PTL DEF Spec
=============================================================================
