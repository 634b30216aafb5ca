----------------------------- MODULE FlowProofs -----------------------------
(***************************************************************************)
(* Inference goes nowhere where TypeDefVisitor has not been; the break     *)
(* flag stays in its function and silences dead code only; a report of     *)
(* code that executions reach has one of the known causes; and the end of  *)
(* a statement gives back what its test has taken from the type of x.  All *)
(* of it for every program, tests, declaration and version of Python.      *)
(*                                                                         *)
(* StackInv says how the open statements (frames) and the conditions       *)
(* (conds) belong together: a condition is pushed for if, while and def    *)
(* only, its reach tells the list that executions run, and an assignment   *)
(* is saved with it only under statements that are not quiet.  DeadInv     *)
(* adds that what is silenced is dead, NarrowInv where the type that a     *)
(* quiet statement began with can still be found.                          *)
(***************************************************************************)
EXTENDS Flow, SequenceTheorems, WellFoundedInduction, TLAPS

(* What static_infer decides is what Python does with the test, under every *)
(* version of Python and for every test but those that Misjudged names.     *)

(* Versions.                                                                *)

Version == Seq(Nat)

LEMMA PrefixElementwise ==
  ASSUME NEW s \in Version, NEW t \in Version
  PROVE  IsPrefix(s, t) <=> Len(s) <= Len(t) /\ \A i \in 1..Len(s) : s[i] = t[i]
<1>1. CASE Len(s) <= Len(t)
  <2>1. SubSeq(s, 1, Len(s)) = [i \in 1..Len(s) |-> s[i]]
    BY DEF Version
  <2>2. SubSeq(t, 1, Len(s)) = [i \in 1..Len(s) |-> t[i]]
    BY <1>1 DEF Version
  <2>3. (SubSeq(s, 1, Len(s)) = SubSeq(t, 1, Len(s))) <=> \A i \in 1..Len(s) : s[i] = t[i]
    BY <2>1, <2>2
  <2>. QED BY <1>1, <2>3 DEF IsPrefix
<1>2. CASE ~(Len(s) <= Len(t))
  BY <1>2 DEF IsPrefix
<1>. QED BY <1>1, <1>2

LEMMA VersionLengths ==
  /\ PythonVersion \in Version /\ RealVersion \in Version
  /\ Len(PythonVersion) = 2 /\ Len(RealVersion) = 3
  /\ PythonVersion[1] = RealVersion[1] /\ PythonVersion[2] = RealVersion[2]
  /\ RealVersion[1] \in Nat /\ RealVersion[2] \in Nat
<1>1. RealVersion \in Version /\ Len(RealVersion) = 3
  BY StaticAssumption DEF Version
<1>2. PythonVersion = [i \in 1..2 |-> RealVersion[i]]
  BY <1>1 DEF PythonVersion, Version
<1>3. RealVersion \in [1..3 -> Nat]
  BY <1>1, LenProperties DEF Version
<1>4. PythonVersion \in Version /\ Len(PythonVersion) = 2
  <2>1. \A i \in 1..2 : RealVersion[i] \in Nat
    BY <1>3
  <2>. QED BY <2>1, SubSeqProperties DEF PythonVersion, Version
<1>5. PythonVersion[1] = RealVersion[1] /\ PythonVersion[2] = RealVersion[2]
  BY <1>2
<1>6. RealVersion[1] \in Nat /\ RealVersion[2] \in Nat
  BY <1>3
<1>. QED BY <1>1, <1>4, <1>5, <1>6

\* Where a version differs from the configured one before its end, the third
\* number of the real one plays no part.
LEMMA DecidedEarly ==
  ASSUME NEW w \in Version, ~IsPrefix(PythonVersion, w)
  PROVE  /\ Before(PythonVersion, w) <=> Before(RealVersion, w)
         /\ Before(w, PythonVersion) <=> Before(w, RealVersion)
         /\ w # PythonVersion /\ w # RealVersion
<1>. DEFINE p == PythonVersion  r == RealVersion
<1>1. Len(w) \in Nat /\ \A i \in 1..Len(w) : w[i] \in Nat
  BY DEF Version
<1>2. ~(Len(w) >= 2 /\ w[1] = p[1] /\ w[2] = p[2])
  <2>1. IsPrefix(p, w) <=> 2 <= Len(w) /\ \A i \in 1..2 : p[i] = w[i]
    BY PrefixElementwise, VersionLengths
  <2>. QED BY <2>1, <1>1
<1>3. w # p /\ w # r
  BY <1>2, VersionLengths
<1>4. ~IsStrictPrefix(p, w) /\ ~IsStrictPrefix(r, w)
  <2>1. IsPrefix(r, w) => IsPrefix(p, w)
    <3>1. IsPrefix(r, w) <=> 3 <= Len(w) /\ \A i \in 1..3 : r[i] = w[i]
      BY PrefixElementwise, VersionLengths
    <3>. QED BY <3>1, <1>1, <1>2, VersionLengths
  <2>. QED BY <2>1 DEF IsStrictPrefix
<1>5. IsStrictPrefix(w, p) <=> IsStrictPrefix(w, r)
  <2>1. IsPrefix(w, p) <=> Len(w) <= 2 /\ \A i \in 1..Len(w) : w[i] = p[i]
    BY PrefixElementwise, VersionLengths
  <2>2. IsPrefix(w, r) <=> Len(w) <= 3 /\ \A i \in 1..Len(w) : w[i] = r[i]
    BY PrefixElementwise, VersionLengths
  <2>3. IsPrefix(w, r) => Len(w) < 2
    BY <1>1, <1>2, <2>2, VersionLengths
  <2>4. IsPrefix(w, p) => Len(w) < 2
    BY <1>1, <1>2, <2>1, VersionLengths
  <2>5. Len(w) < 2 => \A i \in 1..Len(w) : p[i] = r[i]
    BY <1>1, VersionLengths
  <2>6. IsPrefix(w, p) <=> IsPrefix(w, r)
    BY <1>1, <2>1, <2>2, <2>3, <2>4, <2>5
  <2>. QED BY <1>3, <2>6 DEF IsStrictPrefix
<1>6. DOMAIN w = 1..Len(w) /\ DOMAIN p = 1..2 /\ DOMAIN r = 1..3
  BY VersionLengths DEF Version
<1>. DEFINE Smaller(s, t) == \E i \in DOMAIN s \cap DOMAIN t :
                               s[i] < t[i] /\ \A j \in 1..(i - 1) : s[j] = t[j]
<1>7. \A i \in 1..2 : p[i] = r[i] /\ \A j \in 1..(i - 1) : p[j] = r[j]
  BY VersionLengths
<1>8. ASSUME NEW i \in 1..Len(w), i \in 1..3, \A j \in 1..(i - 1) : r[j] = w[j]
      PROVE  i \in 1..2
  <2>1. SUFFICES ASSUME i = 3 PROVE FALSE
    BY <1>8
  <2>2. r[1] = w[1] /\ r[2] = w[2] /\ Len(w) >= 2
    BY <1>1, <1>8, <2>1
  <2>. QED BY <1>2, <2>2, VersionLengths
<1>9. Smaller(p, w) <=> Smaller(r, w)
  <2>1. ASSUME Smaller(p, w) PROVE Smaller(r, w)
    <3>1. PICK i \in 1..2 \cap 1..Len(w) : p[i] < w[i] /\ \A j \in 1..(i - 1) : p[j] = w[j]
      BY <1>6, <2>1
    <3>2. i \in 1..3
      OBVIOUS
    <3>. QED BY <1>6, <1>7, <3>1, <3>2
  <2>2. ASSUME Smaller(r, w) PROVE Smaller(p, w)
    <3>1. PICK i \in 1..3 \cap 1..Len(w) : r[i] < w[i] /\ \A j \in 1..(i - 1) : r[j] = w[j]
      BY <1>6, <2>2
    <3>2. i \in 1..2
      BY <1>8, <3>1
    <3>. QED BY <1>6, <1>7, <3>1, <3>2
  <2>. QED BY <2>1, <2>2
<1>10. Smaller(w, p) <=> Smaller(w, r)
  <2>1. ASSUME Smaller(w, p) PROVE Smaller(w, r)
    <3>1. PICK i \in 1..2 \cap 1..Len(w) : w[i] < p[i] /\ \A j \in 1..(i - 1) : w[j] = p[j]
      BY <1>6, <2>1
    <3>2. i \in 1..3
      OBVIOUS
    <3>. QED BY <1>6, <1>7, <3>1, <3>2
  <2>2. ASSUME Smaller(w, r) PROVE Smaller(w, p)
    <3>1. PICK i \in 1..3 \cap 1..Len(w) : w[i] < r[i] /\ \A j \in 1..(i - 1) : w[j] = r[j]
      BY <1>6, <2>2
    <3>2. i \in 1..2
      BY <1>8, <3>1
    <3>. QED BY <1>6, <1>7, <3>1, <3>2
  <2>. QED BY <2>1, <2>2
<1>. HIDE DEF p, r, Smaller
<1>. QED BY <1>3, <1>4, <1>5, <1>9, <1>10 DEF Before, p, r, Smaller

\* Min is a CHOOSE: what makes it an element is that there is a least one.
LEMMA MinInSet ==
  ASSUME NEW S \in SUBSET Nat, S # {}
  PROVE  Min(S) \in S
<1>. DEFINE less == OpToRel(<, Nat)
<1>1. \A x, y \in Nat : <<x, y>> \in less <=> x < y
  BY DEF OpToRel
<1>2. IsWellFoundedOn(less, Nat)
  BY NatLessThanWellFounded
<1>. HIDE DEF less
<1>3. PICK x \in S : \A y \in S : ~(<<y, x>> \in less)
  BY <1>2, WFMin
<1>4. ASSUME NEW y \in S PROVE x =< y
  <2>1. x \in Nat /\ y \in Nat
    OBVIOUS
  <2>2. ~(y < x)
    BY <1>1, <1>3, <2>1
  <2>. QED BY <2>1, <2>2
<1>. QED BY <1>4 DEF Min

\* Nothing is before itself, and the real version is not before its prefix.
LEMMA PrefixNotBefore ==
  /\ ~Before(PythonVersion, PythonVersion)
  /\ ~Before(RealVersion, PythonVersion)
<1>. DEFINE p == PythonVersion  r == RealVersion
<1>1. DOMAIN p = 1..2 /\ DOMAIN r = 1..3
  BY VersionLengths DEF Version
<1>2. ~IsStrictPrefix(p, p)
  BY DEF IsStrictPrefix
<1>3. ~IsPrefix(r, p)
  BY VersionLengths DEF IsPrefix
<1>4. ~IsStrictPrefix(r, p)
  BY <1>3 DEF IsStrictPrefix
<1>. QED BY <1>1, <1>2, <1>4, VersionLengths DEF Before
\* The link of a comparison comes out for the configured version as it does
\* for the real one, except when the two agree as far as the first goes.
LEMMA LinkDecided ==
  ASSUME NEW link \in Link, ~SameSoFar(link)
  PROVE  Holds(link, PythonVersion) <=> Holds(link, RealVersion)
<1>. DEFINE w == link.with
<1>1. w \in Version /\ link.op \in {"Eq", "NotEq", "Gt", "GtE", "Lt", "LtE"} /\ link.atright \in BOOLEAN
  BY DEF Link, Version
<1>2. CASE ~IsPrefix(PythonVersion, w)
  BY <1>1, <1>2, DecidedEarly DEF Holds, Compares
<1>3. CASE IsPrefix(PythonVersion, w)
  <2>1. /\ w = PythonVersion
        /\ link.op \in (IF link.atright THEN {"LtE", "Gt"} ELSE {"GtE", "Lt"})
    BY <1>3 DEF SameSoFar
  <2>2. CASE link.atright
    BY <2>1, <2>2, PrefixNotBefore DEF Holds, Compares
  <2>3. CASE ~link.atright
    BY <2>1, <2>3, PrefixNotBefore DEF Holds, Compares
  <2>. QED BY <2>2, <2>3
<1>. QED BY <1>2, <1>3

(* Operands.                                                                *)

LEMMA ChainDecided ==
  ASSUME NEW chain \in Seq(Link), \A i \in DOMAIN chain : ~SameSoFar(chain[i]),
         CompareChain(chain) # "UNKNOWN"
  PROVE  /\ CompareChain(chain) \in {"ALWAYS_TRUE", "ALWAYS_FALSE"}
         /\ (CompareChain(chain) = "ALWAYS_TRUE") <=> \A i \in DOMAIN chain : Holds(chain[i], RealVersion)
<1>. DEFINE others == {i \in DOMAIN chain : CompareVersion(chain[i]) # "ALWAYS_TRUE"}
<1>1. \A i \in DOMAIN chain :
        /\ CompareVersion(chain[i]) \in {"ALWAYS_TRUE", "ALWAYS_FALSE", "UNKNOWN"}
        /\ CompareVersion(chain[i]) = "ALWAYS_TRUE" => Holds(chain[i], RealVersion)
        /\ CompareVersion(chain[i]) = "ALWAYS_FALSE" => ~Holds(chain[i], RealVersion)
  <2>. TAKE i \in DOMAIN chain
  <2>1. chain[i] \in Link
    OBVIOUS
  <2>. QED BY <2>1, LinkDecided DEF CompareVersion
<1>2. CASE others = {}
  BY <1>1, <1>2 DEF CompareChain
<1>3. CASE others # {}
  <2>1. others \subseteq Nat
    OBVIOUS
  <2>2. Min(others) \in others
    BY <1>3, <2>1, MinInSet
  <2>3. CompareChain(chain) = CompareVersion(chain[Min(others)])
    BY <1>3 DEF CompareChain
  <2>. QED BY <1>1, <2>2, <2>3
<1>. QED BY <1>2, <1>3

IsTrue(reach) == reach \in {"ALWAYS_TRUE", "TYPE_TRUE"}

LEMMA OperandDecided ==
  ASSUME NEW a \in Operand, StaticOperand(a) # "UNKNOWN",
         a \in DOMAIN Comparison => \A j \in DOMAIN Comparison[a] : ~SameSoFar(Comparison[a][j]),
         NEW v, NEW b \in OperandOutcomes(a, v)
  PROVE  /\ StaticOperand(a) \in {"ALWAYS_TRUE", "ALWAYS_FALSE", "TYPE_TRUE"}
         /\ b <=> IsTrue(StaticOperand(a))
<1>1. CASE a \in DOMAIN Comparison
  <2>1. a \notin Classes /\ a \notin Constants
    BY <1>1, StaticAssumption
  <2>2. StaticOperand(a) = CompareChain(Comparison[a])
    BY <1>1, <2>1 DEF StaticOperand, Constants
  <2>3. Comparison[a] \in Seq(Link)
    BY <1>1, StaticAssumption
  <2>4. b <=> \A i \in DOMAIN Comparison[a] : Holds(Comparison[a][i], RealVersion)
    BY <1>1, <2>1 DEF OperandOutcomes, Constants
  <2>. QED BY <1>1, <2>2, <2>3, <2>4, ChainDecided DEF IsTrue
<1>2. CASE a \notin DOMAIN Comparison
  <2>1. a \in {"True", "False", "TYPE_CHECKING"}
    BY <1>2 DEF StaticOperand
  <2>2. a \notin Classes
    BY <2>1, StaticAssumption DEF Constants
  <2>. QED BY <1>2, <2>1, <2>2 DEF StaticOperand, OperandOutcomes, IsTrue
<1>. QED BY <1>1, <1>2

(* Tests.                                                                   *)

\* Where static_infer decides a test, Python decides it the same way in every
\* execution: what TypeDefVisitor leaves out does not run.
THEOREM StaticRight ==
  ASSUME NEW t \in Test, t.values # <<>>, t.op = "single" => Len(t.values) = 1,
         ~Misjudged(t), Static(t) # "UNKNOWN", NEW v, NEW b \in Outcomes(t, v)
  PROVE  b <=> IsTrue(Static(t))
<1>. DEFINE inner == IF t.op = "single" THEN StaticOperand(t.values[1]) ELSE StaticBoolOp(t)
            every(c) == \A i \in DOMAIN t.values : c \in OperandOutcomes(t.values[i], v)
            some(c) == \E i \in DOMAIN t.values : c \in OperandOutcomes(t.values[i], v)
            result == {c \in BOOLEAN : IF c = (t.op = "And") THEN every(c) ELSE some(c)}
<1>1. /\ t.unary \in {"none", "Not", "UAdd", "USub"} /\ t.op \in {"single", "And", "Or"}
      /\ t.values \in Seq(Operand)
  BY DEF Test
<1>2. 1 \in DOMAIN t.values /\ DOMAIN t.values \subseteq Nat
      /\ (t.op = "single" => DOMAIN t.values = {1})
  BY <1>1
<1>3. inner # "UNKNOWN"
  BY DEF Static, Unary, Neg
<1>4. ASSUME NEW i \in DOMAIN t.values, StaticOperand(t.values[i]) # "UNKNOWN",
             NEW c \in OperandOutcomes(t.values[i], v)
      PROVE  /\ StaticOperand(t.values[i]) \in {"ALWAYS_TRUE", "ALWAYS_FALSE", "TYPE_TRUE"}
             /\ c <=> IsTrue(StaticOperand(t.values[i]))
  <2>1. t.values[i] \in Operand
    BY <1>1
  <2>2. t.values[i] \in DOMAIN Comparison =>
          \A j \in DOMAIN Comparison[t.values[i]] : ~SameSoFar(Comparison[t.values[i]][j])
    BY DEF Misjudged
  <2>. QED BY <1>4, <2>1, <2>2, OperandDecided
<1>5. ASSUME NEW c \in result
      PROVE  inner \in {"ALWAYS_TRUE", "ALWAYS_FALSE", "TYPE_TRUE"} /\ (c <=> IsTrue(inner))
  <2>1. CASE t.op = "single"
    BY <1>2, <1>3, <1>4, <2>1
  <2>2. CASE t.op # "single"
    <3>. DEFINE ends == {i \in DOMAIN t.values : Settled(t.op, StaticOperand(t.values[i]))}
    <3>1. ends # {}
      BY <1>3, <2>2 DEF StaticBoolOp
    <3>2. Min(ends) \in ends
      BY <1>2, <3>1, MinInSet
    <3>3. inner = StaticOperand(t.values[Min(ends)])
      BY <2>2, <3>1 DEF StaticBoolOp
    <3>4. inner = IF t.op = "And" THEN "ALWAYS_FALSE" ELSE "ALWAYS_TRUE"
      BY <1>3, <3>2, <3>3 DEF Settled
    <3>5. IsTrue(inner) = (t.op # "And")
      BY <3>4 DEF IsTrue
    <3>6. (t.op = "And") \notin OperandOutcomes(t.values[Min(ends)], v)
      BY <1>3, <1>4, <3>2, <3>3, <3>5
    <3>7. c # (t.op = "And")
      BY <3>2, <3>6
    <3>. QED BY <3>4, <3>5, <3>7
  <2>. QED BY <2>1, <2>2
<1>6. CASE t.unary = "Not"
  <2>1. PICK c \in result : b = ~c
    BY <1>6 DEF Outcomes
  <2>2. Static(t) = Neg(inner)
    BY <1>6 DEF Static, Unary
  <2>. QED BY <1>5, <2>1, <2>2 DEF Neg, IsTrue
<1>7. CASE t.unary # "Not"
  <2>1. b \in result
    BY <1>7 DEF Outcomes
  <2>2. Static(t) = inner
    BY <1>1, <1>7 DEF Static, Unary, Misjudged
  <2>. QED BY <1>5, <2>1, <2>2
<1>. QED BY <1>6, <1>7

-----------------------------------------------------------------------------
(* Statements.                                                              *)

IsSequence(s) == \E S : s \in Seq(S)

IsFrame(f) ==
  /\ {"kind", "part", "test", "open", "seen", "quiet", "in", "out", "back", "before", "sound"} \subseteq DOMAIN f
  /\ f.part \in {"body", "orelse"}
  /\ f.kind \in {"module", "if", "while", "for", "try", "def"}

\* What the invariant says of an open statement stays true of f.
SameStatement(f, g) ==
  /\ f.kind = g.kind /\ f.part = g.part /\ f.test = g.test
  /\ f.sound = g.sound /\ f.in = g.in /\ f.before = g.before
  /\ f.kind = "if" => f.out = g.out
  /\ f.quiet => g.quiet

\* The statements of fs are those of frames, visited a little further.
SameStatements(fs) ==
  /\ IsSequence(fs) /\ Len(fs) = Len(frames)
  /\ \A i \in 1..Len(frames) : IsFrame(fs[i]) /\ SameStatement(fs[i], frames[i])

Reach == {"TYPE_TRUE", "TYPE_FALSE", "ALWAYS_TRUE", "ALWAYS_FALSE", "UNKNOWN"}
IsFalse(reach) == reach \in {"ALWAYS_FALSE", "TYPE_FALSE"}
IsCondition(c) == {"reach", "dirty"} \subseteq DOMAIN c /\ c.reach \in Reach

SameConditions(cs) ==
  /\ IsSequence(cs) /\ Len(cs) = Len(conds)
  /\ \A i \in 1..Len(conds) : IsCondition(cs[i]) /\ cs[i].reach = conds[i].reach

Tested(f) == f.kind \in {"if", "while"}
WithCondition(f) == Tested(f) \/ f.kind = "def"
Quiet(f) == Tested(f) /\ f.quiet

\* Unless an assignment has been recorded, which disturbs all statements.
SavedSame(fs, cs) ==
  \A i \in 1..Len(frames) : Quiet(fs[i]) => \A k \in 1..Len(conds) : cs[k].dirty = conds[k].dirty

\* The reach of a condition tells which of the two lists executions run, if
\* the test was inferred from a type that covers them.
Decided(f, c) ==
  \A v \in f.before : \A b \in Outcomes(f.test, v) :
    /\ IsTrue(c.reach) => (b <=> f.part = "body")
    /\ IsFalse(c.reach) => (b <=> f.part # "body")

\* The condition of an if with a test that TypeDefVisitor decided; of tests
\* that are not misjudged; and the first list of an if when the second is the
\* one that runs.
Agrees(f, c) ==
  /\ f.kind = "if" /\ Static(f.test) # "UNKNOWN"
       => c.reach = IF f.part = "body" THEN Static(f.test) ELSE Neg(Static(f.test))
  /\ Tested(f) /\ f.sound => f.in \subseteq f.before /\ Decided(f, c)
  /\ f.kind = "if" /\ f.sound /\ f.part = "orelse" /\ IsTrue(c.reach) => f.out = {}

\* A list whose condition is false is not gone into.
Entered(f, c) == Tested(f) => ~IsFalse(c.reach)

\* at[i] is the condition that holds in the i-th open statement.
Matching(at, fs, cs) ==
  /\ at \in [1..Len(fs) -> 1..Len(cs)]
  /\ at[Len(fs)] = Len(cs)
  /\ \A i, j \in 1..Len(fs) : i <= j => at[i] <= at[j]
  /\ \A i \in 1..(Len(fs) - 1) : at[i + 1] = at[i] + (IF WithCondition(fs[i + 1]) THEN 1 ELSE 0)
  /\ \A i \in 1..Len(fs) : Agrees(fs[i], cs[at[i]])
  /\ \A i \in 1..(Len(fs) - 1) : Entered(fs[i], cs[at[i]])
  /\ \A i \in 1..Len(fs), k \in 1..Len(cs) : Quiet(fs[i]) /\ at[i] <= k => cs[k].dirty.pre = {}

StackInv ==
  /\ IsSequence(frames) /\ Len(frames) > 0
  /\ \A i \in 1..Len(frames) : IsFrame(frames[i]) /\ (frames[i].kind = "module" => i = 1)
  /\ IsSequence(conds) /\ Len(conds) > 0
  /\ \A i \in 1..Len(conds) : IsCondition(conds[i])
  /\ \E at : Matching(at, frames, conds)

\* What is silenced, by the flag or by the reach of the test, is dead.
DeadInv ==
  /\ flag \in {"NORMAL", "BREAK", "CONTINUE", "RETURN"}
  /\ flag # "NORMAL" /\ ~loose => live = {}
  /\ Rejected /\ Top.sound => live = {}
  /\ Rejected /\ Top.kind = "if" /\ flag # "NORMAL" /\ ~loose
       => IF Top.part = "body" THEN Top.in = {} ELSE Top.out = {}
  /\ flag = "RETURN" => \E i \in 1..Len(frames) : frames[i].kind = "def"
  /\ reported.values # {} => reported.explained

-----------------------------------------------------------------------------
(* Sequences of anything.                                                   *)

LEMMA SequenceElements ==
  ASSUME NEW s, IsSequence(s)
  PROVE  /\ Len(s) \in Nat /\ DOMAIN s = 1..Len(s)
         /\ \A S : (\A i \in 1..Len(s) : s[i] \in S) => s \in Seq(S)
<1>1. PICK S : s \in Seq(S)
  BY DEF IsSequence
<1>2. Len(s) \in Nat /\ DOMAIN s = 1..Len(s) /\ s = [i \in 1..Len(s) |-> s[i]]
  BY <1>1, LenProperties
<1>3. ASSUME NEW T, \A i \in 1..Len(s) : s[i] \in T PROVE s \in Seq(T)
  <2>1. s \in [1..Len(s) -> T]
    BY <1>2, <1>3
  <2>. QED BY <1>2, <2>1, SeqDef
<1>. QED BY <1>2, <1>3

LEMMA AppendElements ==
  ASSUME NEW s, IsSequence(s), NEW e
  PROVE  /\ IsSequence(Append(s, e)) /\ Len(Append(s, e)) = Len(s) + 1
         /\ \A i \in 1..Len(s) : Append(s, e)[i] = s[i]
         /\ Append(s, e)[Len(s) + 1] = e
<1>. DEFINE S == {s[i] : i \in 1..Len(s)} \cup {e}
<1>1. s \in Seq(S)
  <2>1. \A i \in 1..Len(s) : s[i] \in S
    OBVIOUS
  <2>. QED BY <2>1, SequenceElements
<1>. HIDE DEF S
<1>2. e \in S
  BY DEF S
<1>3. Append(s, e) \in Seq(S)
  BY <1>1, <1>2, AppendProperties
<1>. QED BY <1>1, <1>2, <1>3, AppendProperties DEF IsSequence

LEMMA FrontElements ==
  ASSUME NEW s, IsSequence(s)
  PROVE  /\ IsSequence(Front(s))
         /\ Len(s) > 0 => Len(Front(s)) = Len(s) - 1
         /\ \A i \in 1..(Len(s) - 1) : Front(s)[i] = s[i]
<1>. DEFINE S == {s[i] : i \in 1..Len(s)}
<1>1. Len(s) \in Nat
  BY SequenceElements
<1>2. \A i \in 1..(Len(s) - 1) : s[i] \in S
  BY <1>1
<1>. HIDE DEF S
<1>. DEFINE n == Len(s) - 1
<1>3. n \in Int /\ (Len(s) > 0 => n >= 0)
  BY <1>1
<1>4. \A i \in 1..n : s[i] \in S
  BY <1>2
<1>. HIDE DEF n
<1>5. /\ SubSeq(s, 1, n) \in Seq(S)
      /\ Len(SubSeq(s, 1, n)) = (IF 1 <= n THEN n - 1 + 1 ELSE 0)
      /\ \A i \in 1..(n - 1 + 1) : SubSeq(s, 1, n)[i] = s[1 + i - 1]
  BY <1>3, <1>4, SubSeqProperties
<1>6. Front(s) = SubSeq(s, 1, n)
  BY DEF Front, n
<1>7. /\ Front(s) \in Seq(S) /\ (Len(s) > 0 => Len(Front(s)) = n)
      /\ \A i \in 1..n : Front(s)[i] = s[i]
  BY <1>3, <1>5, <1>6
<1>. QED BY <1>7 DEF IsSequence, n

LEMMA ReplaceLastElements ==
  ASSUME NEW s, IsSequence(s), NEW e
  PROVE  /\ IsSequence(ReplaceLast(s, e)) /\ Last(ReplaceLast(s, e)) = e
         /\ Len(s) > 0 => /\ Len(ReplaceLast(s, e)) = Len(s)
                          /\ ReplaceLast(s, e)[Len(s)] = e
         /\ \A i \in 1..(Len(s) - 1) : ReplaceLast(s, e)[i] = s[i]
<1>. DEFINE q == Front(s)
<1>1. /\ IsSequence(q) /\ (Len(s) > 0 => Len(q) = Len(s) - 1)
      /\ \A i \in 1..(Len(s) - 1) : q[i] = s[i]
  BY FrontElements
<1>2. Len(s) \in Nat
  BY SequenceElements
<1>. HIDE DEF q
<1>3. /\ IsSequence(Append(q, e)) /\ Len(Append(q, e)) = Len(q) + 1
      /\ \A i \in 1..Len(q) : Append(q, e)[i] = q[i]
      /\ Append(q, e)[Len(q) + 1] = e
  BY <1>1, AppendElements
<1>4. ReplaceLast(s, e) = Append(q, e)
  BY DEF ReplaceLast, q
<1>. QED BY <1>1, <1>2, <1>3, <1>4 DEF Last

LEMMA StaticReach ==
  ASSUME NEW t
  PROVE  Static(t) \in Reach
<1>1. \A link : CompareVersion(link) \in {"ALWAYS_TRUE", "ALWAYS_FALSE", "UNKNOWN"}
  BY DEF CompareVersion
<1>2. \A chain : CompareChain(chain) \in {"ALWAYS_TRUE", "ALWAYS_FALSE", "UNKNOWN"}
  BY <1>1 DEF CompareChain
<1>3. \A a : StaticOperand(a) \in {"TYPE_TRUE", "ALWAYS_TRUE", "ALWAYS_FALSE", "UNKNOWN"}
  BY <1>2 DEF StaticOperand
<1>4. StaticBoolOp(t) \in {"TYPE_TRUE", "ALWAYS_TRUE", "ALWAYS_FALSE", "UNKNOWN"}
  BY <1>3 DEF StaticBoolOp
<1>. QED BY <1>3, <1>4 DEF Static, Unary, Neg, Reach
-----------------------------------------------------------------------------
(* What steps do to the two stacks.                                         *)

LEMMA Lengths ==
  ASSUME StackInv
  PROVE  /\ Len(frames) \in Nat \ {0} /\ DOMAIN frames = 1..Len(frames)
         /\ Len(conds) \in Nat \ {0} /\ DOMAIN conds = 1..Len(conds)
         /\ Top = frames[Len(frames)] /\ IsFrame(Top)
         /\ Cond = conds[Len(conds)] /\ IsCondition(Cond)
<1>1. /\ Len(frames) \in Nat \ {0} /\ DOMAIN frames = 1..Len(frames)
      /\ Len(conds) \in Nat \ {0} /\ DOMAIN conds = 1..Len(conds)
  BY SequenceElements DEF StackInv
<1>. QED BY <1>1 DEF StackInv, Top, Cond, Last

\* A list that the checker goes into has been collected.
LEMMA EnteredIsCollected ==
  ASSUME NEW f, IsFrame(f), NEW c, Agrees(f, c), Entered(f, c)
  PROVE  Collected(f)
<1>1. CASE f.kind = "if" /\ Static(f.test) # "UNKNOWN"
  <2>1. c.reach = IF f.part = "body" THEN Static(f.test) ELSE Neg(Static(f.test))
    BY <1>1 DEF Agrees
  <2>2. c.reach \notin {"ALWAYS_FALSE", "TYPE_FALSE"}
    BY <1>1 DEF Entered, Tested, IsFalse
  <2>3. f.part \in {"body", "orelse"}
    BY DEF IsFrame
  <2>. QED BY <1>1, <2>1, <2>2, <2>3, StaticReach DEF Collected, Neg, Reach
<1>2. CASE ~(f.kind = "if" /\ Static(f.test) # "UNKNOWN")
  BY <1>2 DEF Collected
<1>. QED BY <1>1, <1>2

\* The innermost statement and its condition.
LEMMA TopAgrees ==
  ASSUME StackInv
  PROVE  Agrees(Top, Cond) /\ (~Rejected => Entered(Top, Cond))
<1>1. PICK at : Matching(at, frames, conds)
  BY DEF StackInv
<1>2. Agrees(Top, Cond)
  <2>1. Len(frames) \in 1..Len(frames)
    BY Lengths
  <2>. QED BY <1>1, <2>1, Lengths DEF Matching
<1>. QED BY <1>2 DEF Rejected, Entered, Tested, IsFalse

LEMMA NothingMoves == StackInv => SameStatements(frames) /\ SameConditions(conds)
BY DEF StackInv, SameStatements, SameStatement, SameConditions

LEMMA AgreesSame ==
  ASSUME NEW f, NEW g, SameStatement(f, g), NEW c, NEW d, c.reach = d.reach
  PROVE  (Agrees(g, d) => Agrees(f, c)) /\ (Entered(g, d) => Entered(f, c))
BY DEF SameStatement, Agrees, Entered, Tested, Decided

LEMMA StepStays ==
  ASSUME StackInv, SameStatements(frames'), SameConditions(conds'), SavedSame(frames', conds')
  PROVE  StackInv'
<1>. DEFINE n == Len(frames)  m == Len(conds)
<1>1. /\ IsSequence(frames') /\ Len(frames') = n /\ n > 0
      /\ \A i \in 1..n : IsFrame(frames'[i]) /\ SameStatement(frames'[i], frames[i])
  BY DEF StackInv, SameStatements
<1>2. /\ IsSequence(conds') /\ Len(conds') = m /\ m > 0
      /\ \A i \in 1..m : IsCondition(conds'[i]) /\ conds'[i].reach = conds[i].reach
  BY DEF StackInv, SameConditions
<1>3. n \in Nat /\ m \in Nat
  BY Lengths
<1>4. PICK at : Matching(at, frames, conds)
  BY DEF StackInv
<1>5. Matching(at, frames', conds')
  <2>1. /\ at \in [1..n -> 1..m] /\ at[n] = m
        /\ \A i, j \in 1..n : i <= j => at[i] <= at[j]
    BY <1>4 DEF Matching
  <2>2. \A i \in 1..(n - 1) : at[i + 1] = at[i] + (IF WithCondition(frames'[i + 1]) THEN 1 ELSE 0)
    <3>1. \A i \in 1..(n - 1) : i + 1 \in 1..n
      BY <1>3
    <3>. QED BY <1>1, <1>4, <3>1 DEF Matching, WithCondition, Tested, SameStatement
  <2>3. \A i \in 1..n : at[i] \in 1..m
    BY <2>1
  <2>4. \A i \in 1..n : Agrees(frames'[i], conds'[at[i]])
    BY <1>1, <1>2, <1>4, <2>3, AgreesSame DEF Matching
  <2>5. \A i \in 1..(n - 1) : Entered(frames'[i], conds'[at[i]])
    <3>1. \A i \in 1..(n - 1) : i \in 1..n
      BY <1>3
    <3>. QED BY <1>1, <1>2, <1>4, <2>3, <3>1, AgreesSame DEF Matching
  <2>6. ASSUME NEW i \in 1..n, NEW k \in 1..m, Quiet(frames'[i]), at[i] <= k PROVE conds'[k].dirty.pre = {}
    <3>1. Quiet(frames[i])
      BY <1>1, <2>6 DEF Quiet, Tested, SameStatement
    <3>2. conds'[k].dirty = conds[k].dirty
      BY <2>6 DEF SavedSame
    <3>. QED BY <1>4, <2>6, <3>1, <3>2 DEF Matching
  <2>. QED BY <1>1, <1>2, <2>1, <2>2, <2>4, <2>5, <2>6 DEF Matching
<1>6. \A i \in 1..n : frames'[i].kind = "module" => i = 1
  BY <1>1 DEF StackInv, SameStatement
<1>. QED BY <1>1, <1>2, <1>5, <1>6 DEF StackInv

\* A statement is entered; it brings a condition or not.
LEMMA StepPushes ==
  ASSUME StackInv, ~Rejected, NEW fs, SameStatements(fs),
         NEW f, IsFrame(f), f.kind # "module", frames' = Append(fs, f),
         IF WithCondition(f) THEN \E c : conds' = Append(conds, c) /\ IsCondition(c) /\ Agrees(f, c) /\ c.dirty.pre = {}
         ELSE SameConditions(conds') /\ SavedSame(fs, conds')
  PROVE  StackInv'
<1>. DEFINE n == Len(frames)  m == Len(conds)
<1>1. /\ IsSequence(fs) /\ Len(fs) = n
      /\ \A i \in 1..n : IsFrame(fs[i]) /\ SameStatement(fs[i], frames[i])
  BY DEF SameStatements
<1>2. n \in Nat \ {0} /\ m \in Nat \ {0}
  BY Lengths
<1>3. /\ IsSequence(frames') /\ Len(frames') = n + 1
      /\ \A i \in 1..n : frames'[i] = fs[i]
      /\ frames'[n + 1] = f
  BY <1>1, AppendElements
<1>4. \A i \in 1..(n + 1) : i \in 1..n \/ i = n + 1
  BY <1>2
<1>5. \A i \in 1..Len(frames') : IsFrame(frames'[i]) /\ (frames'[i].kind = "module" => i = 1)
  BY <1>1, <1>3, <1>4 DEF StackInv, SameStatement
<1>7. PICK k \in {0, 1} :
        /\ k = (IF WithCondition(f) THEN 1 ELSE 0)
        /\ IsSequence(conds') /\ Len(conds') = m + k
        /\ \A i \in 1..m : conds'[i].reach = conds[i].reach
        /\ \A i \in 1..(m + k) : IsCondition(conds'[i])
        /\ Agrees(f, conds'[m + k])
        /\ SavedSame(fs, conds')
        /\ k = 1 => conds'[m + k].dirty.pre = {}
  <2>1. CASE WithCondition(f)
    <3>1. PICK c : conds' = Append(conds, c) /\ IsCondition(c) /\ Agrees(f, c) /\ c.dirty.pre = {}
      BY <2>1
    <3>2. /\ IsSequence(conds') /\ Len(conds') = m + 1
          /\ \A i \in 1..m : conds'[i] = conds[i]
          /\ conds'[m + 1] = c
      BY <3>1, AppendElements DEF StackInv
    <3>3. \A i \in 1..(m + 1) : i \in 1..m \/ i = m + 1
      BY <1>2
    <3>4. \A i \in 1..(m + 1) : IsCondition(conds'[i])
      BY <3>1, <3>2, <3>3 DEF StackInv
    <3>5. SavedSame(fs, conds')
      BY <3>2 DEF SavedSame
    <3>. QED BY <2>1, <3>1, <3>2, <3>4, <3>5
  <2>2. CASE ~WithCondition(f)
    <3>1. SameConditions(conds') /\ SavedSame(fs, conds')
      BY <2>2
    <3>2. m + 0 = m
      BY <1>2
    <3>. QED BY <2>2, <3>1, <3>2 DEF SameConditions, Agrees, WithCondition, Tested
  <2>. QED BY <2>1, <2>2
<1>8. PICK at : Matching(at, frames, conds)
  BY DEF StackInv
<1>. DEFINE att == [i \in 1..(n + 1) |-> IF i = n + 1 THEN m + k ELSE at[i]]
<1>9. /\ at \in [1..n -> 1..m] /\ at[n] = m
      /\ \A i, j \in 1..n : i <= j => at[i] <= at[j]
      /\ \A i \in 1..(n - 1) : at[i + 1] = at[i] + (IF WithCondition(frames[i + 1]) THEN 1 ELSE 0)
      /\ \A i \in 1..n : Agrees(frames[i], conds[at[i]])
      /\ \A i \in 1..(n - 1) : Entered(frames[i], conds[at[i]])
      /\ \A i \in 1..n, j \in 1..m : Quiet(frames[i]) /\ at[i] <= j => conds[j].dirty.pre = {}
  BY <1>8 DEF Matching
<1>10. Matching(att, frames', conds')
  <2>1. att \in [1..(n + 1) -> 1..(m + k)] /\ att[n + 1] = m + k
    BY <1>2, <1>9
  <2>2. ASSUME NEW i \in 1..(n + 1), NEW j \in 1..(n + 1), i <= j PROVE att[i] <= att[j]
    <3>1. CASE j = n + 1 /\ i \in 1..n
      <4>1. at[i] \in 1..m /\ att[i] = at[i] /\ att[j] = m + k
        BY <1>2, <1>9, <3>1
      <4>. QED BY <1>2, <4>1
    <3>2. CASE i = n + 1
      BY <1>2, <2>2, <3>2
    <3>3. CASE i \in 1..n /\ j \in 1..n
      BY <1>2, <1>9, <2>2, <3>3
    <3>. QED BY <1>4, <3>1, <3>2, <3>3
  <2>3. ASSUME NEW i \in 1..n
        PROVE  att[i + 1] = att[i] + (IF WithCondition(frames'[i + 1]) THEN 1 ELSE 0)
    <3>1. CASE i = n
      BY <1>2, <1>3, <1>7, <1>9, <3>1
    <3>2. CASE i # n
      <4>1. i \in 1..(n - 1) /\ i + 1 \in 1..n /\ i + 1 # n + 1 /\ i # n + 1
        BY <1>2, <3>2
      <4>2. att[i + 1] = at[i + 1] /\ att[i] = at[i]
        BY <1>2, <4>1
      <4>3. frames'[i + 1].kind = frames[i + 1].kind
        BY <1>1, <1>3, <4>1 DEF SameStatement
      <4>. QED BY <1>9, <4>1, <4>2, <4>3 DEF WithCondition, Tested
    <3>. QED BY <3>1, <3>2
  <2>4. ASSUME NEW i \in 1..(n + 1) PROVE Agrees(frames'[i], conds'[att[i]])
    <3>1. CASE i = n + 1
      <4>1. att[i] = m + k /\ frames'[i] = f
        BY <1>2, <1>3, <3>1
      <4>. QED BY <1>7, <4>1
    <3>2. CASE i \in 1..n
      <4>1. att[i] = at[i] /\ at[i] \in 1..m
        BY <1>2, <1>9, <3>2
      <4>2. SameStatement(frames'[i], frames[i])
        BY <1>1, <1>3, <3>2
      <4>3. conds'[att[i]].reach = conds[at[i]].reach
        BY <1>7, <4>1
      <4>4. Agrees(frames[i], conds[at[i]])
        BY <1>9, <3>2
      <4>. QED BY <4>2, <4>3, <4>4, AgreesSame
    <3>. QED BY <1>4, <3>1, <3>2
  <2>5. ASSUME NEW i \in 1..n PROVE Entered(frames'[i], conds'[att[i]])
    <3>0. i # n + 1 /\ i \in 1..(n + 1)
      BY <1>2
    <3>1. att[i] = at[i] /\ at[i] \in 1..m
      BY <1>9, <3>0
    <3>2. SameStatement(frames'[i], frames[i]) /\ conds'[att[i]].reach = conds[at[i]].reach
      BY <1>1, <1>3, <1>7, <3>1
    <3>3. Entered(frames[i], conds[at[i]])
      <4>1. CASE i = n
        BY <1>9, <4>1, TopAgrees, Lengths
      <4>2. CASE i # n
        <5>1. i \in 1..(n - 1)
          BY <1>2, <4>2
        <5>. QED BY <1>9, <5>1
      <4>. QED BY <4>1, <4>2
    <3>. QED BY <3>2, <3>3, AgreesSame
  <2>7. ASSUME NEW i \in 1..(n + 1), NEW j \in 1..(m + k), Quiet(frames'[i]), att[i] <= j
        PROVE  conds'[j].dirty.pre = {}
    <3>1. CASE i = n + 1
      <4>1. k = 1
        BY <1>3, <1>7, <2>7, <3>1 DEF Quiet, WithCondition
      <4>2. j = m + k
        BY <1>2, <2>7, <3>1
      <4>. QED BY <1>7, <4>1, <4>2
    <3>2. CASE i \in 1..n
      <4>1. att[i] = at[i] /\ at[i] \in 1..m
        BY <1>2, <1>9, <3>2
      <4>2. Quiet(fs[i]) /\ Quiet(frames[i])
        BY <1>1, <1>3, <2>7, <3>2 DEF Quiet, Tested, SameStatement
      <4>3. CASE j \in 1..m
        <5>1. conds'[j].dirty = conds[j].dirty
          BY <1>7, <3>2, <4>2, <4>3 DEF SavedSame
        <5>. QED BY <1>9, <2>7, <3>2, <4>1, <4>2, <4>3, <5>1
      <4>4. CASE j \notin 1..m
        <5>1. k = 1 /\ j = m + k
          BY <1>2, <4>4
        <5>. QED BY <1>7, <5>1
      <4>. QED BY <4>3, <4>4
    <3>. QED BY <1>4, <3>1, <3>2
  <2>6. Len(frames') = n + 1 /\ Len(frames') - 1 = n /\ Len(conds') = m + k
    BY <1>2, <1>3, <1>7
  <2>. HIDE DEF att
  <2>. QED BY <2>1, <2>2, <2>3, <2>4, <2>5, <2>6, <2>7 DEF Matching
<1>11. Len(frames') > 0 /\ Len(conds') > 0
  BY <1>2, <1>3, <1>7
<1>12. \A i \in 1..Len(conds') : IsCondition(conds'[i])
  BY <1>7
<1>. HIDE DEF att
<1>. QED BY <1>3, <1>5, <1>7, <1>10, <1>11, <1>12 DEF StackInv

\* A statement ends, and with it its condition if it has one.
LEMMA StepPops ==
  ASSUME StackInv, Len(frames) > 1, frames' = Front(frames),
         conds' = IF WithCondition(Top) THEN Front(conds) ELSE conds
  PROVE  StackInv' /\ ~Rejected'
<1>. DEFINE n == Len(frames)  m == Len(conds)
            k == IF WithCondition(Top) THEN 1 ELSE 0
<1>1. n \in Nat \ {0, 1} /\ m \in Nat \ {0} /\ n - 1 \in 1..n /\ Top = frames[n]
  BY Lengths
<1>2. PICK at : Matching(at, frames, conds)
  BY DEF StackInv
<1>3. /\ at \in [1..n -> 1..m] /\ at[n] = m
      /\ \A i, j \in 1..n : i <= j => at[i] <= at[j]
      /\ \A i \in 1..(n - 1) : at[i + 1] = at[i] + (IF WithCondition(frames[i + 1]) THEN 1 ELSE 0)
      /\ \A i \in 1..n : Agrees(frames[i], conds[at[i]])
      /\ \A i \in 1..(n - 1) : Entered(frames[i], conds[at[i]])
      /\ \A i \in 1..n, j \in 1..m : Quiet(frames[i]) /\ at[i] <= j => conds[j].dirty.pre = {}
  BY <1>2 DEF Matching
<1>4. at[n - 1] = m - k /\ m - k \in 1..m
  <2>1. at[(n - 1) + 1] = at[n - 1] + (IF WithCondition(frames[(n - 1) + 1]) THEN 1 ELSE 0)
    BY <1>1, <1>3
  <2>2. (n - 1) + 1 = n
    BY <1>1
  <2>3. at[n - 1] \in 1..m
    BY <1>1, <1>3
  <2>4. m = at[n - 1] + k
    BY <1>1, <1>3, <2>1, <2>2
  <2>5. k \in {0, 1}
    OBVIOUS
  <2>. HIDE DEF k
  <2>. QED BY <1>1, <2>3, <2>4, <2>5
<1>5. /\ IsSequence(frames') /\ Len(frames') = n - 1
      /\ \A i \in 1..(n - 1) : frames'[i] = frames[i]
  BY <1>1, FrontElements DEF StackInv
<1>6. /\ IsSequence(conds') /\ Len(conds') = m - k
      /\ \A i \in 1..(m - k) : conds'[i] = conds[i]
  <2>1. CASE WithCondition(Top)
    BY <2>1, FrontElements DEF StackInv
  <2>2. CASE ~WithCondition(Top)
    BY <1>1, <2>2 DEF StackInv
  <2>. QED BY <2>1, <2>2
<1>. HIDE DEF k
<1>. DEFINE att == [i \in 1..(n - 1) |-> at[i]]
<1>7. \A i \in 1..(n - 1) : at[i] \in 1..(m - k)
  <2>. TAKE i \in 1..(n - 1)
  <2>1. i \in 1..n /\ i <= n - 1
    BY <1>1
  <2>2. at[i] <= at[n - 1] /\ at[i] \in 1..m
    BY <1>1, <1>3, <2>1
  <2>. QED BY <1>1, <1>4, <2>2
<1>8. Matching(att, frames', conds')
  <2>1. att \in [1..(n - 1) -> 1..(m - k)] /\ att[n - 1] = m - k
    BY <1>1, <1>4, <1>7
  <2>2. \A i, j \in 1..(n - 1) : i <= j => att[i] <= att[j]
    BY <1>1, <1>3
  <2>3. ASSUME NEW i \in 1..((n - 1) - 1)
        PROVE  att[i + 1] = att[i] + (IF WithCondition(frames'[i + 1]) THEN 1 ELSE 0)
    <3>1. i \in 1..(n - 1) /\ i + 1 \in 1..(n - 1)
      BY <1>1
    <3>. QED BY <1>3, <1>5, <3>1
  <2>4. ASSUME NEW i \in 1..(n - 1) PROVE Agrees(frames'[i], conds'[att[i]])
    <3>1. i \in 1..n
      BY <1>1
    <3>. QED BY <1>3, <1>5, <1>6, <1>7, <3>1
  <2>5. ASSUME NEW i \in 1..((n - 1) - 1) PROVE Entered(frames'[i], conds'[att[i]])
    <3>1. i \in 1..(n - 1)
      BY <1>1
    <3>. QED BY <1>3, <1>5, <1>6, <1>7, <3>1
  <2>6. ASSUME NEW i \in 1..(n - 1), NEW j \in 1..(m - k), Quiet(frames'[i]), att[i] <= j
        PROVE  conds'[j].dirty.pre = {}
    <3>1. i \in 1..n /\ j \in 1..m
      BY <1>1, <1>4
    <3>. QED BY <1>3, <1>5, <1>6, <2>6, <3>1
  <2>. HIDE DEF att
  <2>. QED BY <1>5, <1>6, <2>1, <2>2, <2>3, <2>4, <2>5, <2>6 DEF Matching
<1>10. \A i \in 1..(n - 1) : IsFrame(frames'[i]) /\ (frames'[i].kind = "module" => i = 1)
  <2>1. \A i \in 1..(n - 1) : i \in 1..n
    BY <1>1
  <2>. QED BY <1>5, <2>1 DEF StackInv
<1>11. \A i \in 1..(m - k) : IsCondition(conds'[i])
  <2>1. \A i \in 1..(m - k) : i \in 1..m
    BY <1>1, <1>4
  <2>. QED BY <1>6, <2>1 DEF StackInv
<1>. HIDE DEF att
<1>13. ~Rejected'
  <2>1. n - 1 \in 1..(n - 1)
    BY <1>1
  <2>2. Entered(frames[n - 1], conds[at[n - 1]])
    BY <1>3, <2>1
  <2>3. Top' = frames[n - 1] /\ Cond' = conds[m - k]
    <3>1. m - k \in 1..(m - k)
      BY <1>1, <1>4
    <3>. QED BY <1>5, <1>6, <2>1, <3>1 DEF Top, Cond, Last
  <2>. QED BY <1>4, <2>2, <2>3 DEF Rejected, Entered, Tested, IsFalse
<1>12. Len(frames') > 0 /\ Len(conds') > 0
  BY <1>1, <1>4, <1>5, <1>6
<1>. QED BY <1>5, <1>6, <1>8, <1>10, <1>11, <1>12, <1>13 DEF StackInv

\* From the first list of a statement to its second; the condition turns over.
LEMMA StepTurns ==
  ASSUME StackInv, Top.kind # "def",
         NEW f, IsFrame(f), f.kind = Top.kind, NEW c, IsCondition(c),
         Tested(f) => Agrees(f, c), f.quiet => Top.quiet, c.dirty = Cond.dirty,
         frames' = ReplaceLast(frames, f),
         conds' = IF Tested(f) THEN ReplaceLast(conds, c) ELSE conds
  PROVE  StackInv'
<1>. DEFINE n == Len(frames)  m == Len(conds)
<1>1. n \in Nat \ {0} /\ m \in Nat \ {0} /\ Top = frames[n] /\ Cond = conds[m]
  BY Lengths
<1>2. PICK at : Matching(at, frames, conds)
  BY DEF StackInv
<1>3. /\ at \in [1..n -> 1..m] /\ at[n] = m
      /\ \A i, j \in 1..n : i <= j => at[i] <= at[j]
      /\ \A i \in 1..(n - 1) : at[i + 1] = at[i] + (IF WithCondition(frames[i + 1]) THEN 1 ELSE 0)
      /\ \A i \in 1..n : Agrees(frames[i], conds[at[i]])
      /\ \A i \in 1..(n - 1) : Entered(frames[i], conds[at[i]])
      /\ \A i \in 1..n, j \in 1..m : Quiet(frames[i]) /\ at[i] <= j => conds[j].dirty.pre = {}
  BY <1>2 DEF Matching
<1>4. /\ IsSequence(frames') /\ Len(frames') = n
      /\ \A i \in 1..(n - 1) : frames'[i] = frames[i]
      /\ frames'[n] = f
  BY ReplaceLastElements DEF StackInv
<1>5. /\ IsSequence(conds') /\ Len(conds') = m
      /\ \A i \in 1..(m - 1) : conds'[i] = conds[i]
      /\ Tested(f) => conds'[m] = c
      /\ ~Tested(f) => conds'[m] = conds[m]
  <2>1. CASE Tested(f)
    BY <2>1, ReplaceLastElements DEF StackInv
  <2>2. CASE ~Tested(f)
    BY <2>2 DEF StackInv
  <2>. QED BY <2>1, <2>2
<1>6. \A i \in 1..n : i \in 1..(n - 1) \/ i = n
  BY <1>1
<1>7. \A i \in 1..m : i \in 1..(m - 1) \/ i = m
  BY <1>1
<1>8. \A i \in 1..n : frames'[i].kind = frames[i].kind
  BY <1>1, <1>4, <1>6
<1>9. \A i \in 1..(n - 1) : conds'[at[i]].reach = conds[at[i]].reach
  <2>. TAKE i \in 1..(n - 1)
  <2>1. CASE Tested(f)
    <3>1. n - 1 \in 1..(n - 1) /\ n - 1 \in 1..n /\ (n - 1) + 1 = n /\ i <= n - 1
      BY <1>1
    <3>2. at[n] = at[n - 1] + 1
      <4>1. at[(n - 1) + 1] = at[n - 1] + (IF WithCondition(frames[(n - 1) + 1]) THEN 1 ELSE 0)
        BY <1>3, <3>1
      <4>2. WithCondition(frames[n])
        BY <1>1, <2>1 DEF WithCondition, Tested
      <4>. QED BY <3>1, <4>1, <4>2
    <3>3. at[i] <= at[n - 1] /\ at[i] \in 1..m /\ at[n - 1] \in 1..m /\ at[n] = m
      <4>1. i \in 1..n
        BY <1>1
      <4>2. at[i] <= at[n - 1]
        BY <1>3, <3>1, <4>1
      <4>. QED BY <1>3, <3>1, <4>1, <4>2
    <3>4. at[i] \in 1..(m - 1)
      BY <1>1, <3>2, <3>3
    <3>. QED BY <1>5, <3>4
  <2>2. CASE ~Tested(f)
    <3>1. at[i] \in 1..m
      BY <1>3
    <3>. QED BY <1>5, <1>7, <2>2, <3>1
  <2>. QED BY <2>1, <2>2
<1>10. Matching(at, frames', conds')
  <2>1. \A i \in 1..(n - 1) : at[i + 1] = at[i] + (IF WithCondition(frames'[i + 1]) THEN 1 ELSE 0)
    <3>1. \A i \in 1..(n - 1) : i + 1 \in 1..n
      BY <1>1
    <3>. QED BY <1>3, <1>8, <3>1 DEF WithCondition, Tested
  <2>2. \A i \in 1..(n - 1) : Agrees(frames'[i], conds'[at[i]]) /\ Entered(frames'[i], conds'[at[i]])
    <3>1. \A i \in 1..(n - 1) : i \in 1..n
      BY <1>1
    <3>2. \A i \in 1..(n - 1) : SameStatement(frames'[i], frames[i])
      BY <1>4 DEF SameStatement
    <3>. QED BY <1>3, <1>9, <3>1, <3>2, AgreesSame
  <2>3. Agrees(frames'[n], conds'[at[n]])
    BY <1>3, <1>4, <1>5 DEF Agrees, Tested
  <2>4. \A i \in 1..n : Agrees(frames'[i], conds'[at[i]])
    BY <1>6, <2>2, <2>3
  <2>5. ASSUME NEW i \in 1..n, NEW j \in 1..m, Quiet(frames'[i]), at[i] <= j PROVE conds'[j].dirty.pre = {}
    <3>1. Quiet(frames[i])
      BY <1>1, <1>4, <1>6, <2>5 DEF Quiet, Tested
    <3>2. conds'[j].dirty = conds[j].dirty
      BY <1>1, <1>5, <1>7
    <3>. QED BY <1>3, <2>5, <3>1, <3>2
  <2>. QED BY <1>3, <1>4, <1>5, <2>1, <2>2, <2>4, <2>5 DEF Matching
<1>11. \A i \in 1..n : IsFrame(frames'[i]) /\ (frames'[i].kind = "module" => i = 1)
  BY <1>1, <1>4, <1>6 DEF StackInv
<1>12. \A i \in 1..m : IsCondition(conds'[i])
  BY <1>5, <1>7 DEF StackInv
<1>14. Len(frames') > 0 /\ Len(conds') > 0
  BY <1>1, <1>4, <1>5
<1>. QED BY <1>4, <1>5, <1>10, <1>11, <1>12, <1>14 DEF StackInv

-----------------------------------------------------------------------------
(* Tests.                                                                   *)

\* What ConditionInfer makes of an operand, for an x of a type that covers the
\* values it has.
LEMMA OperandRight ==
  ASSUME NEW a \in Operand, NEW s, "reach" \in DOMAIN s, InferOperand(s, a).reach # "UNKNOWN"
  PROVE  /\ InferOperand(s, a).reach \in {"ALWAYS_TRUE", "ALWAYS_FALSE", "TYPE_TRUE"}
         /\ InferOperand(s, a).reach = "TYPE_TRUE" => a = "TYPE_CHECKING"
         /\ \A v \in s.type : \A b \in OperandOutcomes(a, v) : b <=> IsTrue(InferOperand(s, a).reach)
<1>. DEFINE r == InferOperand(s, a).reach
<1>1. CASE a \in Classes
  <2>1. \A v : \A b \in OperandOutcomes(a, v) : b = (v = a)
    <3>1. a \notin DOMAIN Comparison /\ a # "Other"
      BY <1>1, StaticAssumption DEF Constants
    <3>. QED BY <1>1, <3>1 DEF OperandOutcomes
  <2>2. CASE a \in s.type
    <3>1. Consistent(s.type, {a})
      BY <2>2 DEF Consistent
    <3>2. r = IF s.type = {a} THEN "ALWAYS_TRUE" ELSE "UNKNOWN"
      BY <1>1, <3>1 DEF InferOperand
    <3>3. CASE s.type = {a}
      <4>1. \A v \in s.type : v = a
        BY <3>3
      <4>. QED BY <2>1, <3>2, <3>3, <4>1 DEF IsTrue
    <3>4. CASE s.type # {a}
      BY <3>2, <3>4
    <3>. QED BY <3>3, <3>4
  <2>3. CASE a \notin s.type
    <3>1. ~Consistent(s.type, {a})
      BY <2>3 DEF Consistent
    <3>2. r = "ALWAYS_FALSE"
      BY <1>1, <3>1 DEF InferOperand
    <3>. QED BY <2>1, <2>3, <3>2 DEF IsTrue
  <2>. QED BY <2>2, <2>3
<1>2. CASE a \notin Classes
  <2>1. r = PlainReach(a)
    BY <1>2 DEF InferOperand
  <2>2. CASE a \in DOMAIN Comparison
    BY <2>1, <2>2, StaticAssumption DEF PlainReach, Constants
  <2>3. CASE a \in Constants
    <3>1. a \notin DOMAIN Comparison
      BY <2>3, StaticAssumption
    <3>. QED BY <1>2, <2>1, <2>3, <3>1 DEF PlainReach, StaticOperand, OperandOutcomes, Constants, IsTrue
  <2>. QED BY <1>2, <2>2, <2>3 DEF Operand
<1>. QED BY <1>1, <1>2

\* A test that is neither Misjudged nor Overlooked comes out as ConditionInfer
\* decides it, in every execution that the type of x covers.
LEMMA InferredRight ==
  ASSUME NEW t \in Test, t.values # <<>>, t.op = "single" => Len(t.values) = 1,
         ~Misjudged(t), ~Overlooked(t), InferTest(t).reach # "UNKNOWN",
         NEW v \in Type, NEW b \in Outcomes(t, v)
  PROVE  b <=> IsTrue(InferTest(t).reach)
<1>. DEFINE s == [reach |-> "UNKNOWN", type |-> Type, temp |-> temp, narrowed |-> narrowed]
            of(i) == InferOperand(s, t.values[i]).reach
            inner == IF t.op = "single" THEN of(1) ELSE InferBoolOp(t.op, s, t.values).reach
            every(c) == \A i \in DOMAIN t.values : c \in OperandOutcomes(t.values[i], v)
            some(c) == \E i \in DOMAIN t.values : c \in OperandOutcomes(t.values[i], v)
            result == {c \in BOOLEAN : IF c = (t.op = "And") THEN every(c) ELSE some(c)}
<1>1. /\ t.unary \in {"none", "Not", "UAdd", "USub"} /\ t.op \in {"single", "And", "Or"}
      /\ t.values \in Seq(Operand)
  BY DEF Test
<1>2. 1 \in DOMAIN t.values /\ DOMAIN t.values \subseteq Nat
      /\ (t.op = "single" => DOMAIN t.values = {1})
  BY <1>1
<1>3. InferTest(t).reach = Unary(t, inner)
  BY DEF InferTest
<1>4. inner # "UNKNOWN"
  BY <1>3 DEF Unary, Neg
<1>5. ASSUME NEW i \in DOMAIN t.values, of(i) # "UNKNOWN"
      PROVE  /\ of(i) \in {"ALWAYS_TRUE", "ALWAYS_FALSE", "TYPE_TRUE"}
             /\ of(i) = "TYPE_TRUE" => t.values[i] = "TYPE_CHECKING"
             /\ \A c \in OperandOutcomes(t.values[i], v) : c <=> IsTrue(of(i))
  <2>1. t.values[i] \in Operand
    BY <1>1
  <2>2. "reach" \in DOMAIN s /\ v \in s.type
    OBVIOUS
  <2>. HIDE DEF s
  <2>. QED BY <1>5, <2>1, <2>2, OperandRight
<1>6. ASSUME NEW c \in result
      PROVE  inner \in {"ALWAYS_TRUE", "ALWAYS_FALSE", "TYPE_TRUE"} /\ (c <=> IsTrue(inner))
  <2>1. CASE t.op = "single"
    BY <1>2, <1>4, <1>5, <2>1
  <2>2. CASE t.op # "single"
    <3>. DEFINE ends == {i \in DOMAIN t.values : Settled(t.op, of(i))}
    <3>1. CASE ends # {}
      <4>1. Min(ends) \in ends
        BY <1>2, <3>1, MinInSet
      <4>2. inner = of(Min(ends))
        BY <2>2, <3>1 DEF InferBoolOp
      <4>3. inner = IF t.op = "And" THEN "ALWAYS_FALSE" ELSE "ALWAYS_TRUE"
        BY <1>4, <4>1, <4>2 DEF Settled
      <4>4. IsTrue(inner) = (t.op # "And")
        BY <4>3 DEF IsTrue
      <4>5. (t.op = "And") \notin OperandOutcomes(t.values[Min(ends)], v)
        BY <1>4, <1>5, <4>1, <4>2, <4>4
      <4>6. c # (t.op = "And")
        BY <4>1, <4>5
      <4>. QED BY <4>3, <4>4, <4>6
    <3>2. CASE ends = {}
      <4>1. inner = IF t.op = "And" THEN "ALWAYS_TRUE" ELSE "ALWAYS_FALSE"
        BY <2>2, <3>2 DEF InferBoolOp
      <4>2. \A i \in DOMAIN t.values : ~Settled(t.op, of(i))
        BY <3>2
      <4>3. \A i \in DOMAIN t.values : of(i) # "UNKNOWN" /\ IsTrue(of(i)) = (t.op = "And")
        <5>. TAKE i \in DOMAIN t.values
        <5>1. of(i) # "UNKNOWN"
          BY <4>2 DEF Settled
        <5>2. t.op = "And" => of(i) # "ALWAYS_FALSE"
          BY <4>2 DEF Settled
        <5>3. t.op = "Or" => of(i) # "ALWAYS_TRUE"
          BY <4>2 DEF Settled
        <5>4. t.op = "Or" => t.values[i] # "TYPE_CHECKING"
          BY DEF Overlooked
        <5>. QED BY <1>1, <1>5, <2>2, <5>1, <5>2, <5>3, <5>4 DEF IsTrue
      <4>4. c = (t.op = "And")
        <5>. SUFFICES ASSUME c # (t.op = "And") PROVE FALSE
          OBVIOUS
        <5>1. PICK i \in DOMAIN t.values : c \in OperandOutcomes(t.values[i], v)
          OBVIOUS
        <5>2. c <=> IsTrue(of(i))
          BY <1>5, <4>3, <5>1
        <5>. QED BY <4>3, <5>2
      <4>. QED BY <4>1, <4>4 DEF IsTrue
    <3>. QED BY <3>1, <3>2
  <2>. QED BY <2>1, <2>2
<1>7. CASE t.unary = "Not"
  <2>1. PICK c \in result : b = ~c
    BY <1>7 DEF Outcomes
  <2>2. InferTest(t).reach = Neg(inner)
    BY <1>3, <1>7 DEF Unary
  <2>. QED BY <1>6, <2>1, <2>2 DEF Neg, IsTrue
<1>8. CASE t.unary # "Not"
  <2>1. b \in result
    BY <1>8 DEF Outcomes
  <2>2. InferTest(t).reach = inner
    BY <1>1, <1>3, <1>8 DEF Unary, Misjudged
  <2>. QED BY <1>6, <2>1, <2>2
<1>. QED BY <1>7, <1>8

LEMMA FrameIsFrame ==
  ASSUME NEW kind, NEW t
  PROVE  kind \in {"module", "if", "while", "for", "try", "def"} =>
         LET f == Frame(kind, t)
         IN /\ IsFrame(f) /\ f.kind = kind /\ f.test = t /\ f.part = "body"
            /\ f.in = live /\ f.before = Type
            /\ f.sound => live \subseteq Type /\ ~Misjudged(t) /\ ~Overlooked(t)
BY DEF IsFrame, Frame

LEMMA InferReach ==
  ASSUME NEW kind, NEW t
  PROVE  Infer(kind, t).reach \in Reach
<1>. DEFINE s == [reach |-> "UNKNOWN", type |-> Type, temp |-> temp, narrowed |-> narrowed]
<1>1. \A link : CompareVersion(link) \in Reach
  BY DEF CompareVersion, Reach
<1>2. \A a : PlainReach(a) \in Reach
  <2>1. \A chain : CompareChain(chain) \in Reach
    BY <1>1 DEF CompareChain, Reach
  <2>. QED BY <2>1 DEF PlainReach, StaticOperand, Reach
<1>3. \A a : "reach" \in DOMAIN InferOperand(s, a) /\ InferOperand(s, a).reach \in Reach
  <2>. TAKE a
  <2>1. CASE a \notin Classes
    BY <1>2, <2>1 DEF InferOperand
  <2>2. CASE a \in Classes
    BY <2>2 DEF InferOperand, Reach
  <2>. QED BY <2>1, <2>2
<1>4. "reach" \in DOMAIN s
  OBVIOUS
<1>5. \A op, values : InferBoolOp(op, s, values).reach \in Reach
  <2>. HIDE DEF s
  <2>. QED BY <1>3, <1>4 DEF InferBoolOp, Reach
<1>6. InferTest(t).reach \in Reach
  <2>. DEFINE r == IF t.op = "single" THEN InferOperand(s, t.values[1])
                   ELSE InferBoolOp(t.op, s, t.values)
  <2>1. InferTest(t).reach = Unary(t, r.reach)
    BY DEF InferTest
  <2>2. r.reach \in Reach
    BY <1>3, <1>5
  <2>. QED BY <2>1, <2>2 DEF Unary, Neg, Reach
<1>. QED BY <1>6, StaticReach DEF Infer

\* An if or a while that begins.
LEMMA NewAgrees ==
  ASSUME NEW kind \in {"if", "while"}, NEW t \in Tests
  PROVE  /\ IsCondition(Condition(Infer(kind, t).reach))
         /\ Agrees(Frame(kind, t), Condition(Infer(kind, t).reach))
<1>. DEFINE f == Frame(kind, t)  c == Condition(Infer(kind, t).reach)
<1>1. IsCondition(c) /\ c.reach = Infer(kind, t).reach
  BY InferReach DEF IsCondition, Condition
<1>2. /\ f.kind = kind /\ f.test = t /\ f.part = "body" /\ f.in = live /\ f.before = Type
      /\ f.sound => live \subseteq Type /\ ~Misjudged(t) /\ ~Overlooked(t)
  BY FrameIsFrame
<1>3. kind = "if" /\ Static(t) # "UNKNOWN" => c.reach = Static(t)
  BY <1>1 DEF Infer
<1>. HIDE DEF f, c
<1>4. ASSUME f.sound, NEW v \in Type, NEW b \in Outcomes(t, v), c.reach # "UNKNOWN"
      PROVE  b <=> IsTrue(c.reach)
  <2>1. t \in Test /\ t.values # <<>> /\ (t.op = "single" => Len(t.values) = 1)
    BY FlowAssumption
  <2>2. CASE kind = "if" /\ Static(t) # "UNKNOWN"
    BY <1>2, <1>3, <1>4, <2>1, <2>2, StaticRight
  <2>3. CASE ~(kind = "if" /\ Static(t) # "UNKNOWN")
    <3>1. c.reach = InferTest(t).reach
      BY <1>1, <2>3 DEF Infer
    <3>. QED BY <1>2, <1>4, <2>1, <3>1, InferredRight
  <2>. QED BY <2>2, <2>3
<1>5. f.sound => Decided(f, c)
  BY <1>2, <1>4 DEF Decided, IsTrue, IsFalse
<1>6. Agrees(f, c)
  BY <1>2, <1>3, <1>5 DEF Agrees
<1>. QED BY <1>1, <1>6 DEF f, c

-----------------------------------------------------------------------------
(* The actions.                                                             *)

LEMMA FunctionIsSequence ==
  ASSUME NEW n \in Nat, NEW g, g = [i \in 1..n |-> g[i]]
  PROVE  IsSequence(g) /\ Len(g) = n
<1>. DEFINE S == {g[i] : i \in 1..n}
<1>1. g \in [1..n -> S]
  OBVIOUS
<1>. HIDE DEF S
<1>2. g \in Seq(S)
  BY <1>1, SeqDef
<1>3. Len(g) = n
  BY <1>1, <1>2, LenProperties
<1>. QED BY <1>2, <1>3 DEF IsSequence

LEMMA LastChanged ==
  ASSUME StackInv, NEW f, IsFrame(f), SameStatement(f, Top)
  PROVE  SameStatements(ReplaceLast(frames, f))
<1>. DEFINE fs == ReplaceLast(frames, f)  n == Len(frames)
<1>1. /\ IsSequence(fs) /\ Len(fs) = n
      /\ \A i \in 1..(n - 1) : fs[i] = frames[i]
      /\ fs[n] = f
  BY ReplaceLastElements DEF StackInv
<1>2. \A i \in 1..n : i \in 1..(n - 1) \/ i = n
  <2>1. n \in Nat
    BY Lengths
  <2>. QED BY <2>1
<1>. HIDE DEF fs
<1>3. SameStatements(fs)
  BY <1>1, <1>2, Lengths DEF SameStatements, SameStatement, StackInv
<1>. QED BY <1>3 DEF fs

LEMMA SeenSame == StackInv => SameStatements(Seen(frames))
<1>. SUFFICES ASSUME StackInv PROVE SameStatements(Seen(frames))
  OBVIOUS
<1>. DEFINE f == [Top EXCEPT !.seen = TRUE]
<1>1. IsFrame(f) /\ SameStatement(f, Top)
  BY Lengths DEF IsFrame, SameStatement
<1>2. Seen(frames) = ReplaceLast(frames, f)
  BY DEF Seen, Top
<1>. HIDE DEF f
<1>. QED BY <1>1, <1>2, LastChanged

LEMMA DisturbedSame ==
  ASSUME NEW fs, SameStatements(fs), StackInv
  PROVE  SameStatements(Disturbed(fs)) /\ \A i \in 1..Len(frames) : ~Disturbed(fs)[i].quiet
<1>. DEFINE n == Len(frames)  gs == [i \in 1..n |-> [fs[i] EXCEPT !.quiet = FALSE]]
<1>1. IsSequence(fs) /\ Len(fs) = n /\ n \in Nat
  BY Lengths DEF SameStatements
<1>2. DOMAIN fs = 1..n
  BY <1>1, SequenceElements
<1>3. Disturbed(fs) = gs
  BY <1>2 DEF Disturbed
<1>4. ASSUME NEW i \in 1..n
      PROVE  IsFrame(gs[i]) /\ SameStatement(gs[i], frames[i]) /\ ~gs[i].quiet
  <2>1. IsFrame(fs[i]) /\ SameStatement(fs[i], frames[i])
    BY DEF SameStatements
  <2>2. gs[i] = [fs[i] EXCEPT !.quiet = FALSE]
    OBVIOUS
  <2>. QED BY <2>1, <2>2 DEF IsFrame, SameStatement
<1>5. gs = [i \in 1..n |-> gs[i]]
  OBVIOUS
<1>. HIDE DEF gs
<1>6. IsSequence(gs) /\ Len(gs) = n
  BY <1>1, <1>5, FunctionIsSequence
<1>. QED BY <1>3, <1>4, <1>6 DEF SameStatements

\* What a jump leaves at the loop that it is for.
LEMMA JumpSame ==
  ASSUME NEW fs, SameStatements(fs), StackInv, NEW k \in 1..Len(frames), frames[k].kind # "if", NEW gs,
         \/ gs = [fs EXCEPT ![k].out = @ \cup live]
         \/ gs = [fs EXCEPT ![k].back = @ \cup live]
  PROVE  SameStatements(gs)
<1>. DEFINE n == Len(frames)
<1>1. IsSequence(fs) /\ Len(fs) = n /\ n \in Nat
  BY Lengths DEF SameStatements
<1>2. DOMAIN fs = 1..n
  BY <1>1, SequenceElements
<1>3. gs = [i \in 1..n |-> gs[i]]
  BY <1>2
<1>4. IsSequence(gs) /\ Len(gs) = n
  BY <1>1, <1>3, FunctionIsSequence
<1>5. ASSUME NEW i \in 1..n
      PROVE  IsFrame(gs[i]) /\ SameStatement(gs[i], frames[i])
  <2>1. IsFrame(fs[i]) /\ SameStatement(fs[i], frames[i])
    BY DEF SameStatements
  <2>2. \/ gs[i] = fs[i]
        \/ i = k /\ gs[i] = [fs[i] EXCEPT !.out = @ \cup live]
        \/ gs[i] = [fs[i] EXCEPT !.back = @ \cup live]
    BY <1>2
  <2>. QED BY <2>1, <2>2 DEF IsFrame, SameStatement
<1>. QED BY <1>4, <1>5 DEF SameStatements

LEMMA RecordSame ==
  ASSUME StackInv, NEW c, Record(c)
  PROVE  SameConditions(conds')
<1>. DEFINE m == Len(conds)
            e == [Cond EXCEPT !.dirty = [pre |-> Type, permanent |-> TRUE]]
<1>1. IsCondition(e) /\ e.reach = Cond.reach
  BY Lengths DEF IsCondition
<1>2. conds' = ReplaceLast(conds, e)
  BY DEF Record
<1>. HIDE DEF e
<1>3. /\ IsSequence(conds') /\ Len(conds') = m
      /\ \A i \in 1..(m - 1) : conds'[i] = conds[i]
      /\ conds'[m] = e
  BY <1>2, ReplaceLastElements DEF StackInv
<1>4. \A i \in 1..m : i \in 1..(m - 1) \/ i = m
  <2>1. m \in Nat
    BY Lengths
  <2>. QED BY <2>1
<1>. QED BY <1>1, <1>3, <1>4, Lengths DEF SameConditions, StackInv

\* The loop that a jump is for.
LEMMA JumpTarget ==
  ASSUME StackInv, Loops # {}
  PROVE  Max(Loops) \in 1..Len(frames) /\ frames[Max(Loops)].kind # "if"
<1>. DEFINE n == Len(frames)  after == {n - i : i \in Loops}
<1>1. n \in Nat /\ Loops \subseteq 1..n /\ \A i \in Loops : frames[i].kind # "if"
  BY Lengths DEF Loops, Kind
<1>2. after \in SUBSET Nat /\ after # {}
  <2>1. \A i \in Loops : n - i \in Nat
    BY <1>1
  <2>2. PICK i : i \in Loops
    OBVIOUS
  <2>3. n - i \in after
    BY <2>2
  <2>4. after \subseteq Nat
    BY <2>1
  <2>. QED BY <2>3, <2>4
<1>. HIDE DEF after
<1>3. PICK least \in after : \A y \in after : least <= y
  <2>. DEFINE less == OpToRel(<, Nat)
  <2>1. \A x, y \in Nat : <<x, y>> \in less <=> x < y
    BY DEF OpToRel
  <2>2. IsWellFoundedOn(less, Nat)
    BY NatLessThanWellFounded
  <2>. HIDE DEF less
  <2>3. PICK x \in after : \A y \in after : ~(<<y, x>> \in less)
    BY <1>2, <2>2, WFMin
  <2>4. \A y \in after : x \in Nat /\ y \in Nat /\ ~(y < x)
    BY <1>2, <2>1, <2>3
  <2>. QED BY <2>3, <2>4
<1>4. PICK i \in Loops : least = n - i
  BY DEF after
<1>5. \A j \in Loops : i >= j
  <2>. TAKE j \in Loops
  <2>1. least <= n - j
    BY <1>3 DEF after
  <2>. QED BY <1>1, <1>4, <2>1
<1>6. Max(Loops) \in Loops
  BY <1>5 DEF Max
<1>. QED BY <1>1, <1>6

LEMMA ReportSame ==
  ASSUME StackInv
  PROVE  SameStatements(ReplaceLast(frames, [Top EXCEPT !.seen = TRUE, !.open = FALSE]))
<1>. DEFINE f == [Top EXCEPT !.seen = TRUE, !.open = FALSE]
<1>1. IsFrame(f) /\ SameStatement(f, Top)
  BY Lengths DEF IsFrame, SameStatement
<1>. HIDE DEF f
<1>2. SameStatements(ReplaceLast(frames, f))
  BY <1>1, LastChanged
<1>. QED BY <1>2 DEF f

\* The statement f and the condition c that the second list goes on with.
Turned(f, c) ==
  /\ IsFrame(f) /\ f.kind = Top.kind /\ f.test = Top.test /\ f.part = "orelse"
  /\ f.in = Top.in /\ f.before = Top.before
  /\ f.sound => /\ Top.sound
                /\ Top.kind = "while" => live \cup Top.back \subseteq Top.before
  /\ f.kind = "if" => f.out = live
  /\ frames' = ReplaceLast(frames, f)
  /\ IsCondition(c) /\ c.reach = Neg(Cond.reach)
  /\ f.quiet => Top.quiet
  /\ c.dirty = Cond.dirty
  /\ conds' = IF Tested(f) THEN ReplaceLast(conds, c) ELSE conds

LEMMA ElseTurns ==
  ASSUME StackInv, ToElse
  PROVE  \E f, c : Turned(f, c)
<1>. DEFINE loop == Top.kind \in {"while", "for"}
            f == [Top EXCEPT !.part = "orelse", !.open = TRUE, !.seen = loop,
                             !.out = IF loop THEN @ ELSE live,
                             !.sound = @ /\ (loop => live \cup Top.back \subseteq Top.before)]
            c == [Cond EXCEPT !.reach = Neg(@)]
<1>1. /\ IsFrame(f) /\ f.kind = Top.kind /\ f.test = Top.test /\ f.part = "orelse"
      /\ f.in = Top.in /\ f.before = Top.before
      /\ f.sound = (Top.sound /\ (loop => live \cup Top.back \subseteq Top.before))
      /\ f.out = IF loop THEN Top.out ELSE live
      /\ f.quiet => Top.quiet
  BY Lengths DEF IsFrame
<1>2. frames' = ReplaceLast(frames, f)
  BY DEF ToElse
<1>3. IsCondition(c) /\ c.reach = Neg(Cond.reach) /\ c.dirty = Cond.dirty
  BY Lengths DEF IsCondition, Reach, Neg
<1>4. conds' = IF Tested(Top) THEN ReplaceLast(conds, c) ELSE conds
  BY DEF ToElse, Tested
<1>. HIDE DEF f, c
<1>5. Turned(f, c)
  BY <1>1, <1>2, <1>3, <1>4 DEF Turned, Tested
<1>. QED BY <1>5

LEMMA TurnedAgrees ==
  ASSUME StackInv, DeadInv, NEW f, NEW c, Turned(f, c), Tested(f), Top.part = "body"
  PROVE  Agrees(f, c)
<1>1. /\ f.kind = Top.kind /\ f.test = Top.test /\ f.part = "orelse"
      /\ f.in = Top.in /\ f.before = Top.before
      /\ f.sound => Top.sound
      /\ f.kind = "if" => f.out = live
      /\ c.reach = Neg(Cond.reach)
  BY DEF Turned
<1>2. Cond.reach \in Reach
  BY Lengths DEF IsCondition
<1>3. /\ IsTrue(c.reach) => IsFalse(Cond.reach)
      /\ IsFalse(c.reach) => IsTrue(Cond.reach)
  BY <1>1, <1>2 DEF IsTrue, IsFalse, Neg, Reach
<1>4. Agrees(Top, Cond)
  BY TopAgrees
<1>5. ASSUME f.sound PROVE f.in \subseteq f.before /\ Decided(f, c)
  BY <1>1, <1>3, <1>4, <1>5 DEF Agrees, Decided, Tested
<1>6. ASSUME f.kind = "if", f.sound, IsTrue(c.reach) PROVE f.out = {}
  <2>1. Rejected /\ Top.sound
    BY <1>1, <1>3, <1>6 DEF Rejected, IsFalse
  <2>. QED BY <1>1, <1>6, <2>1 DEF DeadInv
<1>. QED BY <1>1, <1>4, <1>5, <1>6 DEF Agrees

LEMMA InitStackInv == Init => StackInv
<1>. SUFFICES ASSUME Init PROVE StackInv
  OBVIOUS
<1>1. frames = <<Frame("module", EitherWay)>> /\ conds = <<Condition("ALWAYS_TRUE")>>
  BY DEF Init
<1>2. IsSequence(frames) /\ Len(frames) = 1 /\ frames[1] = Frame("module", EitherWay)
  <2>. DEFINE f == Frame("module", EitherWay)
  <2>. HIDE DEF f
  <2>1. <<f>> \in Seq({f}) /\ Len(<<f>>) = 1 /\ <<f>>[1] = f
    OBVIOUS
  <2>. QED BY <1>1, <2>1 DEF IsSequence, f
<1>3. IsSequence(conds) /\ Len(conds) = 1 /\ conds[1] = Condition("ALWAYS_TRUE")
  <2>. DEFINE c == Condition("ALWAYS_TRUE")
  <2>. HIDE DEF c
  <2>1. <<c>> \in Seq({c}) /\ Len(<<c>>) = 1 /\ <<c>>[1] = c
    OBVIOUS
  <2>. QED BY <1>1, <2>1 DEF IsSequence, c
<1>. DEFINE at == [i \in 1..1 |-> 1]
<1>4. Matching(at, frames, conds)
  <2>1. at \in [1..1 -> 1..1] /\ at[1] = 1
    OBVIOUS
  <2>2. Agrees(frames[1], conds[1])
    BY <1>2, FrameIsFrame DEF Agrees, Tested
  <2>3. ~Quiet(frames[1])
    BY <1>2, FrameIsFrame DEF Quiet, Tested
  <2>. HIDE DEF at
  <2>. QED BY <1>2, <1>3, <2>1, <2>2, <2>3 DEF Matching
<1>5. IsFrame(frames[1]) /\ IsCondition(conds[1])
  BY <1>2, <1>3, FrameIsFrame DEF Condition, IsCondition, Reach
<1>. HIDE DEF at
<1>. QED BY <1>2, <1>3, <1>4, <1>5 DEF StackInv

LEMMA NextStackInv == StackInv /\ DeadInv /\ [Next]_vars => StackInv'
<1>. SUFFICES ASSUME StackInv, DeadInv, [Next]_vars PROVE StackInv'
  OBVIOUS
<1>0. /\ SameStatements(frames) /\ SameConditions(conds)
      /\ SameStatements(Seen(frames)) /\ SameStatements(Disturbed(Seen(frames)))
      /\ \A fs : SavedSame(fs, conds)
      /\ \A cs : SavedSame(Disturbed(Seen(frames)), cs)
  BY NothingMoves, SeenSame, DisturbedSame DEF SavedSame, Quiet
<1>1. CASE Plain
  BY <1>0, <1>1, StepStays DEF Plain
<1>2. ASSUME NEW c \in Classes, Assign(c) PROVE StackInv'
  <2>1. CASE Consistent(Declared, {c})
    BY <1>0, <1>2, <2>1, RecordSame, StepStays DEF Assign
  <2>2. CASE ~Consistent(Declared, {c})
    BY <1>0, <1>2, <2>2, StepStays DEF Assign
  <2>. QED BY <2>1, <2>2
<1>3. ASSUME NEW t \in Tests, NEW kind \in {"if", "while"}, Branch(kind, t) PROVE StackInv'
  <2>. DEFINE f == Frame(kind, t)  c == Condition(Infer(kind, t).reach)
  <2>1. ~Rejected
    BY <1>3 DEF Branch, Visit
  <2>2. IsFrame(f) /\ f.kind = kind
    BY FrameIsFrame
  <2>3. IsCondition(c) /\ Agrees(f, c) /\ c.dirty.pre = {}
    BY NewAgrees DEF Condition, NotSaved
  <2>4. conds' = Append(conds, c)
    BY <1>3 DEF Branch
  <2>5. PICK fs : SameStatements(fs) /\ frames' = Append(fs, f)
    BY <1>0, <1>3 DEF Branch
  <2>. HIDE DEF f, c
  <2>6. WithCondition(f) /\ f.kind # "module"
    BY <2>2 DEF WithCondition, Tested
  <2>. QED BY <2>1, <2>2, <2>3, <2>4, <2>5, <2>6, StepPushes
<1>4. ASSUME NEW target \in LoopTargets, For(target) PROVE StackInv'
  <2>. DEFINE f == Frame("for", EitherWay)
  <2>1. ~Rejected
    BY <1>4 DEF For, Visit
  <2>2. IsFrame(f) /\ f.kind = "for"
    BY FrameIsFrame
  <2>3. SameConditions(conds')
    BY <1>0, <1>4, RecordSame DEF For
  <2>4. PICK fs : SameStatements(fs) /\ SavedSame(fs, conds') /\ frames' = Append(fs, f)
    BY <1>0, <1>4 DEF For
  <2>. HIDE DEF f
  <2>5. ~WithCondition(f) /\ f.kind # "module"
    BY <2>2 DEF WithCondition, Tested
  <2>. QED BY <2>1, <2>2, <2>3, <2>4, <2>5, StepPushes
<1>5. CASE Try
  <2>. DEFINE f == Frame("try", EitherWay)
  <2>1. ~Rejected
    BY <1>5 DEF Try, Visit
  <2>2. IsFrame(f) /\ f.kind = "try"
    BY FrameIsFrame
  <2>3. SameConditions(conds') /\ SavedSame(Seen(frames), conds') /\ frames' = Append(Seen(frames), f)
    BY <1>0, <1>5 DEF Try
  <2>. HIDE DEF f
  <2>4. ~WithCondition(f) /\ f.kind # "module"
    BY <2>2 DEF WithCondition, Tested
  <2>. QED BY <1>0, <2>1, <2>2, <2>3, <2>4, StepPushes
<1>6. CASE Def
  <2>. DEFINE g == Frame("def", EitherWay)
              f == [g EXCEPT !.sound = TRUE]
              c == Condition("ALWAYS_TRUE")
  <2>1. ~Rejected
    BY <1>6 DEF Def, Visit
  <2>2. IsFrame(g) /\ g.kind = "def"
    BY FrameIsFrame
  <2>3. conds' = Append(conds, c) /\ IsCondition(c) /\ c.dirty.pre = {}
    BY <1>6 DEF Def, Condition, NotSaved, IsCondition, Reach
  <2>4. frames' = Append(Disturbed(Seen(frames)), f)
    BY <1>6 DEF Def
  <2>. HIDE DEF g, c
  <2>5. IsFrame(f) /\ f.kind = "def"
    BY <2>2 DEF IsFrame
  <2>. HIDE DEF f
  <2>6. WithCondition(f) /\ Agrees(f, c) /\ f.kind # "module"
    BY <2>5 DEF WithCondition, Tested, Agrees
  <2>. QED BY <1>0, <2>1, <2>3, <2>4, <2>5, <2>6, StepPushes
<1>7. CASE Break
  <2>1. frames' = [Seen(frames) EXCEPT ![Max(Loops)].out = @ \cup live] /\ Loops # {}
    BY <1>7 DEF Break
  <2>2. conds' = conds
    BY <1>7 DEF Break, Jump
  <2>. QED BY <1>0, <2>1, <2>2, JumpTarget, JumpSame, StepStays
<1>8. CASE Continue
  <2>1. frames' = [Seen(frames) EXCEPT ![Max(Loops)].back = @ \cup live] /\ Loops # {}
    BY <1>8 DEF Continue
  <2>2. conds' = conds
    BY <1>8 DEF Continue, Jump
  <2>. QED BY <1>0, <2>1, <2>2, JumpTarget, JumpSame, StepStays
<1>9. CASE Return
  BY <1>0, <1>9, StepStays DEF Return, Jump
<1>10. CASE Report
  BY <1>0, <1>10, ReportSame, StepStays DEF Report
<1>11. CASE ToElse
  <2>1. PICK f, c : Turned(f, c)
    BY <1>11, ElseTurns
  <2>. QED BY <1>11, <2>1, TurnedAgrees, StepTurns DEF Turned, ToElse
<1>12. CASE End
  <2>1. frames' = Front(frames) /\ Len(frames) > 1
    BY <1>12 DEF End
  <2>2. conds' = IF WithCondition(Top) THEN Front(conds) ELSE conds
    BY <1>12 DEF End, WithCondition, Tested
  <2>. QED BY <2>1, <2>2, StepPops
<1>13. CASE UNCHANGED vars
  BY <1>0, <1>13, StepStays DEF vars
<1>. QED BY <1>1, <1>2, <1>3, <1>4, <1>5, <1>6, <1>7, <1>8, <1>9, <1>10, <1>11, <1>12, <1>13
     DEF Next

LEMMA TopStays ==
  ASSUME StackInv, SameStatements(frames'), SameConditions(conds')
  PROVE  /\ SameStatement(Top', Top) /\ (Rejected' <=> Rejected)
         /\ (\E i \in 1..Len(frames) : frames[i].kind = "def")
              => \E i \in 1..Len(frames') : frames'[i].kind = "def"
<1>. DEFINE n == Len(frames)  m == Len(conds)
<1>1. n \in Nat \ {0} /\ m \in Nat \ {0} /\ Top = frames[n] /\ Cond = conds[m]
  BY Lengths
<1>2. Len(frames') = n /\ \A i \in 1..n : SameStatement(frames'[i], frames[i])
  BY DEF SameStatements
<1>3. Len(conds') = m /\ \A i \in 1..m : conds'[i].reach = conds[i].reach
  BY DEF SameConditions
<1>4. Top' = frames'[n] /\ Cond' = conds'[m]
  BY <1>2, <1>3 DEF Top, Cond, Last
<1>5. SameStatement(Top', Top) /\ Cond'.reach = Cond.reach
  BY <1>1, <1>2, <1>3, <1>4
<1>. QED BY <1>2, <1>5 DEF Rejected, SameStatement

LEMMA InitDeadInv == Init => DeadInv
<1>. SUFFICES ASSUME Init PROVE DeadInv
  OBVIOUS
<1>1. StackInv
  BY InitStackInv
<1>2. Top.kind = "module"
  <2>1. frames = <<Frame("module", EitherWay)>>
    BY DEF Init
  <2>. DEFINE f == Frame("module", EitherWay)
  <2>2. f.kind = "module"
    BY FrameIsFrame
  <2>. HIDE DEF f
  <2>3. <<f>>[Len(<<f>>)] = f
    OBVIOUS
  <2>. QED BY <2>1, <2>2, <2>3 DEF Top, Last, f
<1>. QED BY <1>2 DEF Init, DeadInv, Rejected

\* Nothing is entered or left, and no flag is put up.
LEMMA DeadStays ==
  ASSUME StackInv, DeadInv, SameStatements(frames'), SameConditions(conds'),
         flag' = flag, loose' = loose, live = {} => live' = {},
         reported'.values # {} => reported'.explained
  PROVE  DeadInv'
BY TopStays DEF DeadInv, SameStatement

\* A jump.
LEMMA DeadJumps ==
  ASSUME StackInv, SameStatements(frames'), SameConditions(conds'), DeadInv,
         ~Rejected, flag' \in {"BREAK", "CONTINUE", "RETURN"}, live' = {},
         flag' = "RETURN" => Functions # {}, reported' = reported
  PROVE  DeadInv'
<1>1. Functions # {} => \E i \in 1..Len(frames) : frames[i].kind = "def"
  BY Lengths DEF Functions, Kind
<1>. QED BY <1>1, TopStays DEF DeadInv

\* A statement that is entered.
LEMMA DeadPushes ==
  ASSUME StackInv, DeadInv, NEW fs, SameStatements(fs), NEW f, frames' = Append(fs, f),
         f.part = "body", f.in = live,
         Tested(f) => \E c : /\ conds' = Append(conds, c) /\ Agrees(f, c)
                             /\ live' = May(f.test, live, TRUE),
         live = {} => live' = {}, flag' = flag, loose' = loose, reported' = reported
  PROVE  DeadInv'
<1>. DEFINE n == Len(frames)
<1>1. /\ IsSequence(fs) /\ Len(fs) = n /\ n \in Nat \ {0}
      /\ \A i \in 1..n : fs[i].kind = frames[i].kind
  BY Lengths DEF SameStatements, SameStatement
<1>2. /\ Len(frames') = n + 1 /\ frames'[n + 1] = f
      /\ \A i \in 1..n : frames'[i] = fs[i]
  BY <1>1, AppendElements
<1>3. Top' = f
  BY <1>2 DEF Top, Last
<1>4. ASSUME Rejected', f.sound PROVE live' = {}
  <2>1. Tested(f)
    BY <1>3, <1>4 DEF Rejected, Tested
  <2>2. PICK c : conds' = Append(conds, c) /\ Agrees(f, c) /\ live' = May(f.test, live, TRUE)
    BY <2>1
  <2>3. Cond' = c
    BY <2>2, AppendElements DEF StackInv, Cond, Last
  <2>4. IsFalse(c.reach)
    BY <1>4, <2>3 DEF Rejected, IsFalse
  <2>5. live \subseteq f.before /\ Decided(f, c)
    BY <1>4, <2>1, <2>2 DEF Agrees
  <2>. QED BY <2>2, <2>4, <2>5 DEF Decided, May
<1>5. ASSUME flag = "RETURN" PROVE \E i \in 1..Len(frames') : frames'[i].kind = "def"
  <2>1. PICK i \in 1..n : frames[i].kind = "def"
    BY <1>5 DEF DeadInv
  <2>2. i \in 1..Len(frames') /\ frames'[i].kind = "def"
    BY <1>1, <1>2, <2>1
  <2>. QED BY <2>2
<1>. QED BY <1>3, <1>4, <1>5 DEF DeadInv

\* What the end of a list does to the flag.
LEMMA FlagEnds ==
  ASSUME StackInv, DeadInv, ListEnds
  PROVE  /\ flag' \in {flag, "NORMAL"}
         /\ flag' # "NORMAL" => /\ Top.kind # "def"
                                /\ Top.kind = "if" => Rejected \/ Cond.reach # "UNKNOWN"
                                /\ ~loose' => ~loose /\ live = {}
         /\ flag' # "NORMAL" /\ ~loose' /\ Len(frames) > 1 => Top.kind = "if" /\ Top.sound
<1>1. flag \in {"NORMAL", "BREAK", "CONTINUE", "RETURN"}
  BY DEF DeadInv
<1>2. Eliminated \in {flag, "NORMAL"}
  BY <1>1 DEF Eliminated
<1>3. flag' = IF Detecting /\ ~Rejected THEN Eliminated ELSE flag
  BY DEF ListEnds
<1>4. flag' \in {flag, "NORMAL"}
  BY <1>2, <1>3
<1>5. ASSUME flag' # "NORMAL" PROVE Top.kind # "def" /\ (Top.kind = "if" => Rejected \/ Cond.reach # "UNKNOWN")
  <2>1. Top.kind \in {"def", "if"} => Detecting
    BY DEF Detecting
  <2>2. Top.kind = "def" => ~Rejected /\ OuterState = "FUNC"
    BY DEF Rejected, OuterState
  <2>3. OuterState = "FUNC" \/ Cond.reach = "UNKNOWN" => Eliminated = "NORMAL"
    BY <1>1 DEF Eliminated
  <2>. QED BY <1>3, <1>5, <2>1, <2>2, <2>3
<1>6. ASSUME flag' # "NORMAL", ~loose' PROVE ~loose /\ live = {} /\ Top.kind \notin {"while", "for", "try"} /\ Top.sound
  BY <1>4, <1>6 DEF ListEnds, DeadInv
<1>7. Len(frames) > 1 => Top.kind # "module"
  BY Lengths DEF StackInv
<1>8. Top.kind \in {"module", "if", "while", "for", "try", "def"}
  BY Lengths DEF IsFrame
<1>. QED BY <1>4, <1>5, <1>6, <1>7, <1>8

\* A flag that outlives the first list of an if: no execution takes the other.
LEMMA ElseDead ==
  ASSUME StackInv, DeadInv, Top.kind = "if", Top.part = "body", Top.sound,
         flag # "NORMAL", ~loose, Rejected \/ Cond.reach # "UNKNOWN"
  PROVE  ElseValues = {}
<1>1. ElseValues = May(Top.test, Top.in, FALSE)
  BY DEF ElseValues
<1>2. CASE Rejected
  <2>1. Top.in = {}
    BY <1>2 DEF DeadInv
  <2>. QED BY <1>1, <2>1 DEF May
<1>3. CASE ~Rejected
  <2>1. Cond.reach \in Reach
    BY Lengths DEF IsCondition
  <2>2. IsTrue(Cond.reach)
    BY <1>3, <2>1 DEF Rejected, IsTrue, Reach
  <2>3. Top.in \subseteq Top.before /\ Decided(Top, Cond)
    BY TopAgrees DEF Agrees, Tested
  <2>. QED BY <1>1, <2>2, <2>3 DEF Decided, May
<1>. QED BY <1>2, <1>3

\* From the first list to the second.
LEMMA DeadTurns ==
  ASSUME StackInv, DeadInv, ToElse
  PROVE  DeadInv'
<1>. DEFINE n == Len(frames)
<1>1. PICK f, c : Turned(f, c)
  BY ElseTurns
<1>2. /\ n > 1 /\ Top.kind # "def" /\ Top.part = "body" /\ ListEnds
      /\ live' = ElseValues /\ reported' = reported
  BY DEF ToElse, ListEnds
<1>3. /\ f.kind = Top.kind /\ f.test = Top.test /\ f.part = "orelse"
      /\ f.in = Top.in /\ f.before = Top.before
      /\ f.sound => /\ Top.sound
                    /\ Top.kind = "while" => live \cup Top.back \subseteq Top.before
      /\ f.kind = "if" => f.out = live
      /\ frames' = ReplaceLast(frames, f)
      /\ IsCondition(c) /\ c.reach = Neg(Cond.reach)
      /\ conds' = IF Tested(f) THEN ReplaceLast(conds, c) ELSE conds
  BY <1>1 DEF Turned
<1>4. /\ Len(frames') = n /\ frames'[n] = f /\ \A i \in 1..(n - 1) : frames'[i] = frames[i]
      /\ n \in Nat
  BY <1>3, ReplaceLastElements, Lengths DEF StackInv
<1>5. Top' = f
  BY <1>4 DEF Top, Last
<1>6. ASSUME flag' # "NORMAL", ~loose' PROVE live = {} /\ live' = {}
  BY <1>2, <1>6, FlagEnds, ElseDead
<1>7. ASSUME Rejected', f.sound PROVE live' = {}
  <2>1. Tested(f)
    BY <1>5, <1>7 DEF Rejected, Tested
  <2>2. Cond' = c
    BY <1>3, <2>1, ReplaceLastElements DEF StackInv, Cond, Last
  <2>3. IsFalse(Neg(Cond.reach)) /\ Cond.reach \in Reach
    BY <1>3, <1>7, <2>2, Lengths DEF Rejected, IsFalse, IsCondition
  <2>4. IsTrue(Cond.reach)
    BY <2>3 DEF IsFalse, IsTrue, Neg, Reach
  <2>5. Top.in \subseteq Top.before /\ Decided(Top, Cond)
    BY <1>3, <1>7, <2>1, TopAgrees DEF Agrees, Tested
  <2>6. PICK values : /\ ElseValues = May(Top.test, values, FALSE)
                      /\ values \subseteq Top.before
    <3>1. CASE Top.kind = "while"
      BY <1>3, <1>7, <2>5, <3>1 DEF ElseValues
    <3>2. CASE Top.kind = "if"
      BY <2>5, <3>2 DEF ElseValues
    <3>. QED BY <1>3, <2>1, <3>1, <3>2 DEF Tested
  <2>. QED BY <1>2, <2>4, <2>5, <2>6 DEF Decided, May
<1>8. ASSUME flag' = "RETURN" PROVE \E i \in 1..Len(frames') : frames'[i].kind = "def"
  <2>1. flag = "RETURN"
    BY <1>2, <1>8, FlagEnds
  <2>2. PICK i \in 1..n : frames[i].kind = "def"
    BY <2>1 DEF DeadInv
  <2>3. i \in 1..(n - 1)
    BY <1>2, <1>4, <2>2, Lengths
  <2>. QED BY <1>4, <2>2, <2>3
<1>9. flag' \in {"NORMAL", "BREAK", "CONTINUE", "RETURN"}
  BY <1>2, FlagEnds DEF DeadInv
<1>. QED BY <1>2, <1>3, <1>5, <1>6, <1>7, <1>8, <1>9 DEF DeadInv

\* The end of a statement.
LEMMA DeadPops ==
  ASSUME StackInv, DeadInv, End
  PROVE  DeadInv'
<1>. DEFINE n == Len(frames)
<1>1. /\ n > 1 /\ ListEnds /\ frames' = Front(frames) /\ reported' = reported
      /\ Top.kind \in {"if", "def"} \/ Top.part = "orelse"
  BY DEF End, ListEnds
<1>2. ~Rejected'
  <2>1. conds' = IF WithCondition(Top) THEN Front(conds) ELSE conds
    BY DEF End, WithCondition, Tested
  <2>. QED BY <1>1, <2>1, StepPops
<1>3. n \in Nat /\ Len(frames') = n - 1 /\ \A i \in 1..(n - 1) : frames'[i] = frames[i]
  BY <1>1, FrontElements, Lengths DEF StackInv
<1>4. ASSUME flag' # "NORMAL", ~loose' PROVE live' = {}
  <2>1. /\ flag' = flag /\ ~loose /\ live = {} /\ Top.kind = "if" /\ Top.sound
        /\ Rejected \/ Cond.reach # "UNKNOWN"
    BY <1>1, <1>4, FlagEnds
  <2>2. CASE Top.part = "body"
    <3>1. live' = live \cup ElseValues
      BY <2>1, <2>2 DEF End
    <3>. QED BY <1>4, <2>1, <2>2, <3>1, ElseDead
  <2>3. CASE Top.part = "orelse"
    <3>1. live' = Top.out \cup live
      BY <2>1, <2>3 DEF End
    <3>2. CASE Rejected
      <4>1. Top.out = {}
        BY <1>4, <2>1, <2>3, <3>2 DEF DeadInv
      <4>. QED BY <2>1, <3>1, <4>1
    <3>3. CASE ~Rejected
      <4>1. Cond.reach \in Reach
        BY Lengths DEF IsCondition
      <4>2. IsTrue(Cond.reach)
        BY <2>1, <3>3, <4>1 DEF Rejected, IsTrue, Reach
      <4>3. Top.out = {}
        BY <2>1, <2>3, <4>2, TopAgrees DEF Agrees
      <4>. QED BY <2>1, <3>1, <4>3
    <3>. QED BY <3>2, <3>3
  <2>. QED BY <2>2, <2>3, Lengths DEF IsFrame
<1>5. ASSUME flag' = "RETURN" PROVE \E i \in 1..Len(frames') : frames'[i].kind = "def"
  <2>1. flag = "RETURN" /\ Top.kind # "def"
    BY <1>1, <1>5, FlagEnds
  <2>2. PICK i \in 1..n : frames[i].kind = "def"
    BY <2>1 DEF DeadInv
  <2>3. i \in 1..(n - 1)
    BY <1>3, <2>1, <2>2, Lengths
  <2>. QED BY <1>3, <2>2, <2>3
<1>6. flag' \in {"NORMAL", "BREAK", "CONTINUE", "RETURN"}
  BY <1>1, FlagEnds DEF DeadInv
<1>. QED BY <1>1, <1>2, <1>4, <1>5, <1>6 DEF DeadInv

LEMMA NextDeadInv == StackInv /\ DeadInv /\ [Next]_vars => DeadInv'
<1>. SUFFICES ASSUME StackInv, DeadInv, [Next]_vars PROVE DeadInv'
  OBVIOUS
<1>0. /\ SameStatements(frames) /\ SameConditions(conds)
      /\ SameStatements(Seen(frames)) /\ SameStatements(Disturbed(Seen(frames)))
      /\ reported.values # {} => reported.explained
  BY NothingMoves, SeenSame, DisturbedSame DEF DeadInv
<1>1. CASE Plain
  BY <1>0, <1>1, DeadStays DEF Plain
<1>2. ASSUME NEW c \in Classes, Assign(c) PROVE DeadInv'
  <2>1. CASE Consistent(Declared, {c})
    BY <1>0, <1>2, <2>1, RecordSame, DeadStays DEF Assign
  <2>2. CASE ~Consistent(Declared, {c})
    BY <1>0, <1>2, <2>2, DeadStays DEF Assign
  <2>. QED BY <2>1, <2>2
<1>3. ASSUME NEW t \in Tests, NEW kind \in {"if", "while"}, Branch(kind, t) PROVE DeadInv'
  <2>. DEFINE f == Frame(kind, t)  c == Condition(Infer(kind, t).reach)
  <2>1. f.part = "body" /\ f.in = live /\ f.test = t
    BY FrameIsFrame
  <2>2. Agrees(f, c)
    BY NewAgrees
  <2>3. /\ conds' = Append(conds, c) /\ live' = May(t, live, TRUE)
        /\ flag' = flag /\ loose' = loose /\ reported' = reported
    BY <1>3 DEF Branch
  <2>4. PICK fs : SameStatements(fs) /\ frames' = Append(fs, f)
    BY <1>0, <1>3 DEF Branch
  <2>5. live = {} => live' = {}
    BY <2>3 DEF May
  <2>. HIDE DEF f, c
  <2>. QED BY <2>1, <2>2, <2>3, <2>4, <2>5, DeadPushes
<1>4. ASSUME NEW target \in LoopTargets, For(target) PROVE DeadInv'
  <2>. DEFINE f == Frame("for", EitherWay)
  <2>1. f.part = "body" /\ f.in = live /\ f.kind = "for"
    BY FrameIsFrame
  <2>2. PICK fs : SameStatements(fs) /\ frames' = Append(fs, f)
    BY <1>0, <1>4 DEF For
  <2>3. (live = {} => live' = {}) /\ flag' = flag /\ loose' = loose /\ reported' = reported
    BY <1>4 DEF For
  <2>. HIDE DEF f
  <2>4. ~Tested(f)
    BY <2>1 DEF Tested
  <2>. QED BY <2>1, <2>2, <2>3, <2>4, DeadPushes
<1>5. CASE Try
  <2>. DEFINE f == Frame("try", EitherWay)
  <2>1. f.part = "body" /\ f.in = live /\ f.kind = "try"
    BY FrameIsFrame
  <2>2. frames' = Append(Seen(frames), f) /\ live' = live /\ flag' = flag /\ loose' = loose /\ reported' = reported
    BY <1>5 DEF Try
  <2>. HIDE DEF f
  <2>3. ~Tested(f)
    BY <2>1 DEF Tested
  <2>. QED BY <1>0, <2>1, <2>2, <2>3, DeadPushes
<1>6. CASE Def
  <2>. DEFINE g == Frame("def", EitherWay)
              f == [g EXCEPT !.sound = TRUE]
  <2>1. g.part = "body" /\ g.in = live /\ g.kind = "def"
    BY FrameIsFrame
  <2>2. /\ frames' = Append(Disturbed(Seen(frames)), f) /\ (live = {} => live' = {})
        /\ flag' = flag /\ loose' = loose /\ reported' = reported
    BY <1>6 DEF Def
  <2>. HIDE DEF g
  <2>3. f.part = "body" /\ f.in = live /\ f.kind = "def"
    BY <2>1
  <2>. HIDE DEF f
  <2>4. ~Tested(f)
    BY <2>3 DEF Tested
  <2>. QED BY <1>0, <2>2, <2>3, <2>4, DeadPushes
<1>7. CASE Break
  <2>1. frames' = [Seen(frames) EXCEPT ![Max(Loops)].out = @ \cup live] /\ Loops # {}
    BY <1>7 DEF Break
  <2>2. SameStatements(frames')
    BY <1>0, <2>1, JumpTarget, JumpSame
  <2>. QED BY <1>0, <1>7, <2>2, DeadJumps DEF Break, Jump, Visit
<1>8. CASE Continue
  <2>1. frames' = [Seen(frames) EXCEPT ![Max(Loops)].back = @ \cup live] /\ Loops # {}
    BY <1>8 DEF Continue
  <2>2. SameStatements(frames')
    BY <1>0, <2>1, JumpTarget, JumpSame
  <2>. QED BY <1>0, <1>8, <2>2, DeadJumps DEF Continue, Jump, Visit
<1>9. CASE Return
  BY <1>0, <1>9, DeadJumps DEF Return, Jump, Visit
<1>10. CASE Report
  <2>1. /\ SameStatements(frames') /\ conds' = conds
        /\ flag' = flag /\ loose' = loose /\ live' = live
    BY <1>10, ReportSame DEF Report
  <2>2. reported'.values # {} => reported'.explained
    <3>1. /\ Rejected \/ flag # "NORMAL"
          /\ reported' = [values |-> live, explained |-> IF Rejected THEN ~Top.sound ELSE loose]
      BY <1>10 DEF Report
    <3>. QED BY <3>1 DEF DeadInv
  <2>. QED BY <1>0, <2>1, <2>2, DeadStays
<1>11. CASE ToElse
  BY <1>11, DeadTurns
<1>12. CASE End
  BY <1>12, DeadPops
<1>13. CASE UNCHANGED vars
  BY <1>0, <1>13, DeadStays DEF vars
<1>. QED BY <1>1, <1>2, <1>3, <1>4, <1>5, <1>6, <1>7, <1>8, <1>9, <1>10, <1>11, <1>12, <1>13
     DEF Next

-----------------------------------------------------------------------------
(* What narrowing has taken is still at hand.                               *)

\* The type that a quiet statement began with can be given back.
Kept(before, isNarrowed, saved, type) ==
  IF isNarrowed THEN saved = before ELSE before \subseteq type

NarrowInv ==
  /\ IsSequence(scopes)
  /\ ~narrowed => temp = {}
  /\ \A i \in 1..Len(frames) : Quiet(frames[i]) => Kept(frames[i].before, narrowed, temp, Type)
  /\ \A i, j \in 1..Len(frames) : i < j /\ frames[j].kind = "def" => ~frames[i].quiet

\* What NarrowInv says of the open statements stays true of fs.
NoQuieter(fs) ==
  /\ IsSequence(fs) /\ Len(fs) = Len(frames)
  /\ \A i \in 1..Len(frames) : /\ fs[i].kind = frames[i].kind /\ fs[i].before = frames[i].before
                               /\ fs[i].quiet => frames[i].quiet

LEMMA SameNoQuieter == \A fs : SameStatements(fs) => NoQuieter(fs)
BY DEF SameStatements, SameStatement, NoQuieter

\* A test narrows x to a class of its type, and keeps that type, or nothing.
LEMMA InferNarrow ==
  ASSUME NEW kind, NEW t
  PROVE  LET r == Infer(kind, t)
         IN \/ r.narrowed = narrowed /\ r.temp = temp /\ r.type = Type
            \/ r.narrowed = TRUE /\ r.temp = Type /\ \E a \in Type : r.type = {a}
<1>. DEFINE Whole(r) == {"reach", "narrowed", "temp", "type"} \subseteq DOMAIN r
            Same(r) == r.narrowed = narrowed /\ r.temp = temp /\ r.type = Type
            Narrow(r) == r.narrowed = TRUE /\ r.temp = Type /\ \E a \in Type : r.type = {a}
            Right(r) == Whole(r) /\ (Same(r) \/ Narrow(r))
            s == [reach |-> "UNKNOWN", type |-> Type, temp |-> temp, narrowed |-> narrowed]
<1>1. ASSUME NEW r, NEW e, Right(r) PROVE Right([r EXCEPT !.reach = e])
  <2>. DEFINE q == [r EXCEPT !.reach = e]
  <2>1. Whole(q) /\ q.narrowed = r.narrowed /\ q.temp = r.temp /\ q.type = r.type
    BY <1>1
  <2>. QED BY <1>1, <2>1
<1>2. Right(s)
  OBVIOUS
<1>3. ASSUME NEW a PROVE Right(InferOperand(s, a))
  <2>1. CASE a \notin Classes
    BY <1>1, <1>2, <2>1 DEF InferOperand
  <2>2. CASE a \in Classes /\ ~Consistent(s.type, {a})
    BY <1>1, <1>2, <2>2 DEF InferOperand
  <2>3. CASE a \in Classes /\ Consistent(s.type, {a})
    <3>1. a \in Type
      BY <2>3 DEF Consistent
    <3>2. PICK e : InferOperand(s, a) = [reach |-> e, temp |-> Type, type |-> {a}, narrowed |-> TRUE]
      BY <2>3 DEF InferOperand
    <3>. QED BY <3>1, <3>2
  <2>. QED BY <2>1, <2>2, <2>3
<1>. HIDE DEF Right, s
<1>4. ASSUME NEW op, NEW values PROVE Right(InferBoolOp(op, s, values))
  <2>1. PICK r, e : InferBoolOp(op, s, values) = [r EXCEPT !.reach = e] /\ Right(r)
    BY <1>2, <1>3 DEF InferBoolOp
  <2>. QED BY <1>1, <2>1
<1>5. Right(InferTest(t))
  <2>1. PICK r, e : InferTest(t) = [r EXCEPT !.reach = e] /\ Right(r)
    BY <1>3, <1>4 DEF InferTest, s
  <2>. QED BY <1>1, <2>1
<1>6. Right(Infer(kind, t))
  <2>1. Right([reach |-> Static(t), type |-> Type, temp |-> temp, narrowed |-> narrowed])
    BY DEF Right
  <2>. QED BY <1>5, <2>1 DEF Infer
<1>. QED BY <1>6 DEF Right

\* A step that keeps the type of x, or after which no open statement is quiet.
LEMMA NarrowStays ==
  ASSUME StackInv, NarrowInv, NEW fs, NoQuieter(fs),
         \/ UNCHANGED <<narrowed, temp, scopes>>
         \/ /\ \A i \in 1..Len(frames) : ~fs[i].quiet
            /\ IsSequence(scopes') /\ (~narrowed' => temp' = {}),
         \/ frames' = fs
         \/ \E f : /\ frames' = Append(fs, f) /\ ~Tested(f)
                   /\ f.kind = "def" => \A i \in 1..Len(frames) : ~fs[i].quiet
  PROVE  NarrowInv' /\ Len(frames') >= Len(frames)
<1>. DEFINE n == Len(frames)
<1>1. /\ n \in Nat /\ IsSequence(fs) /\ Len(fs) = n
      /\ \A i \in 1..n : /\ fs[i].kind = frames[i].kind /\ fs[i].before = frames[i].before
                         /\ fs[i].quiet => frames[i].quiet
  BY Lengths DEF NoQuieter
<1>2. \A i \in 1..n : Quiet(fs[i]) => Kept(fs[i].before, narrowed', temp', Type')
  <2>1. CASE UNCHANGED <<narrowed, temp, scopes>>
    <3>1. \A i \in 1..n : Quiet(fs[i]) => Kept(fs[i].before, narrowed, temp, Type)
      BY <1>1 DEF NarrowInv, Quiet, Tested
    <3>. QED BY <2>1, <3>1 DEF Kept, Type
  <2>2. CASE \A i \in 1..n : ~fs[i].quiet
    BY <2>2 DEF Quiet
  <2>. QED BY <2>1, <2>2
<1>3. IsSequence(scopes') /\ (~narrowed' => temp' = {})
  BY DEF NarrowInv
<1>4. \A i, j \in 1..n : i < j /\ fs[j].kind = "def" => ~fs[i].quiet
  BY <1>1 DEF NarrowInv
<1>5. CASE frames' = fs
  BY <1>1, <1>2, <1>3, <1>4, <1>5 DEF NarrowInv
<1>6. CASE frames' # fs
  <2>1. PICK f : /\ frames' = Append(fs, f) /\ ~Tested(f)
                 /\ f.kind = "def" => \A i \in 1..Len(frames) : ~fs[i].quiet
    BY <1>6
  <2>2. /\ Len(frames') = n + 1 /\ frames'[n + 1] = f
        /\ \A i \in 1..n : frames'[i] = fs[i]
    BY <1>1, <2>1, AppendElements
  <2>3. \A i \in 1..(n + 1) : i \in 1..n \/ i = n + 1
    BY <1>1
  <2>4. \A i \in 1..(n + 1) : Quiet(frames'[i]) => Kept(frames'[i].before, narrowed', temp', Type')
    BY <1>2, <2>1, <2>2, <2>3 DEF Quiet
  <2>5. ASSUME NEW i \in 1..(n + 1), NEW j \in 1..(n + 1), i < j, frames'[j].kind = "def"
        PROVE  ~frames'[i].quiet
    <3>1. i \in 1..n
      BY <1>1, <2>5
    <3>2. CASE j \in 1..n
      BY <1>4, <2>2, <2>5, <3>1, <3>2
    <3>3. CASE j = n + 1
      BY <2>1, <2>2, <2>5, <3>1, <3>3
    <3>. QED BY <2>3, <3>2, <3>3
  <2>. QED BY <1>1, <1>3, <2>2, <2>4, <2>5 DEF NarrowInv
<1>. QED BY <1>5, <1>6

\* A test that begins.
LEMMA NarrowBranch ==
  ASSUME StackInv, NarrowInv, NEW t \in Tests, NEW kind \in {"if", "while"}, Branch(kind, t)
  PROVE  NarrowInv' /\ Len(frames') >= Len(frames)
<1>. DEFINE n == Len(frames)
            r == Infer(kind, t)
            f == Frame(kind, t)
            narrows == r.temp # temp \/ r.type # Type
            fs == IF narrows THEN Disturbed(Seen(frames)) ELSE Seen(frames)
<1>1. /\ scopes' = ReplaceLast(scopes, r.type) /\ temp' = r.temp /\ narrowed' = r.narrowed
      /\ frames' = Append(fs, f)
  BY DEF Branch
<1>2. \/ r.narrowed = narrowed /\ r.temp = temp /\ r.type = Type
      \/ r.narrowed = TRUE /\ r.temp = Type /\ \E a \in Type : r.type = {a}
  BY InferNarrow
<1>3. f.kind = kind /\ f.before = Type /\ f.quiet = ~narrowed
  BY DEF Frame
<1>4. NoQuieter(fs) /\ (narrows => \A i \in 1..n : ~fs[i].quiet)
  <2>1. SameStatements(Seen(frames))
    BY SeenSame
  <2>. QED BY <2>1, DisturbedSame, SameNoQuieter
<1>. HIDE DEF r, f, fs
<1>5. IsSequence(scopes') /\ Type' = r.type
  BY <1>1, ReplaceLastElements DEF NarrowInv, Type
<1>6. /\ n \in Nat /\ Len(frames') = n + 1 /\ frames'[n + 1] = f
      /\ \A i \in 1..n : frames'[i] = fs[i]
  BY <1>1, <1>4, AppendElements, Lengths DEF NoQuieter
<1>7. ASSUME NEW i \in 1..n, Quiet(fs[i]) PROVE Kept(fs[i].before, narrowed', temp', Type')
  <2>1. ~narrows
    BY <1>4, <1>7 DEF Quiet
  <2>2. Kept(fs[i].before, narrowed, temp, Type)
    BY <1>4, <1>7 DEF NoQuieter, NarrowInv, Quiet, Tested
  <2>3. CASE r.narrowed = narrowed
    BY <1>1, <1>5, <2>1, <2>2, <2>3 DEF Kept
  <2>4. CASE r.narrowed = TRUE /\ r.temp = Type /\ \E a \in Type : r.type = {a}
    <3>1. temp # {}
      BY <2>1, <2>4
    <3>2. narrowed
      BY <3>1 DEF NarrowInv
    <3>. QED BY <1>1, <2>1, <2>2, <2>4, <3>2 DEF Kept
  <2>. QED BY <1>2, <2>3, <2>4
<1>8. f.quiet => Kept(f.before, narrowed', temp', Type')
  BY <1>1, <1>2, <1>3, <1>5 DEF Kept
<1>9. \A i \in 1..(n + 1) : i \in 1..n \/ i = n + 1
  BY <1>6
<1>10. \A i \in 1..(n + 1) : Quiet(frames'[i]) => Kept(frames'[i].before, narrowed', temp', Type')
  BY <1>6, <1>7, <1>8, <1>9 DEF Quiet
<1>11. ASSUME NEW i \in 1..(n + 1), NEW j \in 1..(n + 1), i < j, frames'[j].kind = "def"
       PROVE  ~frames'[i].quiet
  <2>1. i \in 1..n
    BY <1>6, <1>11
  <2>2. j \in 1..n
    BY <1>3, <1>6, <1>9, <1>11
  <2>. QED BY <1>4, <1>6, <1>11, <2>1, <2>2 DEF NoQuieter, NarrowInv
<1>12. ~narrowed' => temp' = {}
  BY <1>1, <1>2 DEF NarrowInv
<1>. QED BY <1>5, <1>6, <1>10, <1>11, <1>12 DEF NarrowInv

\* The end of an if or while gives every quiet statement its type back.
LEMMA RecoveredCovers ==
  ASSUME StackInv, NarrowInv, NEW i \in 1..Len(frames), Quiet(frames[i])
  PROVE  frames[i].before \subseteq Recovered(Type)
<1>1. Kept(frames[i].before, narrowed, temp, Type)
  BY DEF NarrowInv
<1>2. CASE narrowed
  BY <1>1, <1>2 DEF Kept, Recovered
<1>3. CASE ~narrowed
  <2>1. PICK at : Matching(at, frames, conds)
    BY DEF StackInv
  <2>2. at[i] <= Len(conds) /\ Len(conds) \in 1..Len(conds)
    BY <2>1, Lengths DEF Matching
  <2>3. Cond.dirty.pre = {}
    BY <2>1, <2>2, Lengths DEF Matching
  <2>4. Recovered(Type) = Type
    BY <1>3, <2>3 DEF Recovered
  <2>. QED BY <1>1, <1>3, <2>4 DEF Kept
<1>. QED BY <1>2, <1>3

LEMMA NarrowPops ==
  ASSUME StackInv, NarrowInv, End
  PROVE  /\ NarrowInv'
         /\ Top.kind \in {"if", "while"} /\ Top.quiet => Top.before \subseteq Last(scopes')
<1>. DEFINE n == Len(frames)
<1>1. /\ n \in Nat /\ n > 1 /\ Len(frames') = n - 1 /\ \A i \in 1..(n - 1) : frames'[i] = frames[i]
      /\ Top = frames[n]
  BY FrontElements, Lengths DEF StackInv, End
<1>2. \A i \in 1..(n - 1) : i \in 1..n /\ i < n
  BY <1>1
<1>3. \A i, j \in 1..(n - 1) : i < j /\ frames'[j].kind = "def" => ~frames'[i].quiet
  BY <1>1, <1>2 DEF NarrowInv
<1>4. CASE Tested(Top)
  <2>1. /\ scopes' = ReplaceLast(scopes, Recovered(Type))
        /\ narrowed' = FALSE /\ temp' = {}
    BY <1>4 DEF End, Tested, Type
  <2>2. IsSequence(scopes') /\ Last(scopes') = Recovered(Type)
    BY <2>1, ReplaceLastElements DEF NarrowInv
  <2>3. \A i \in 1..n : Quiet(frames[i]) => frames[i].before \subseteq Last(scopes')
    BY <2>2, RecoveredCovers
  <2>4. \A i \in 1..(n - 1) : Quiet(frames'[i]) => Kept(frames'[i].before, narrowed', temp', Type')
    BY <1>1, <1>2, <2>1, <2>3 DEF Kept, Type
  <2>5. NarrowInv'
    BY <1>1, <1>3, <2>1, <2>2, <2>4 DEF NarrowInv
  <2>6. n \in 1..n
    BY <1>1
  <2>. QED BY <1>1, <2>3, <2>5, <2>6 DEF Quiet, Tested
<1>5. CASE Top.kind = "def"
  <2>1. /\ \E e : scopes' = ReplaceLast(Front(scopes), e)
        /\ narrowed' = FALSE /\ temp' = {}
    BY <1>5 DEF End
  <2>2. IsSequence(scopes')
    BY <2>1, FrontElements, ReplaceLastElements DEF NarrowInv
  <2>3. \A i \in 1..(n - 1) : ~frames'[i].quiet
    <3>1. n \in 1..n
      BY <1>1
    <3>. QED BY <1>1, <1>2, <1>5, <3>1 DEF NarrowInv
  <2>4. NarrowInv'
    BY <1>1, <1>3, <2>1, <2>2, <2>3 DEF NarrowInv, Quiet
  <2>. QED BY <1>5, <2>4
<1>6. CASE ~Tested(Top) /\ Top.kind # "def"
  <2>1. UNCHANGED <<scopes, narrowed, temp>>
    BY <1>6 DEF End, Tested
  <2>2. \A i \in 1..(n - 1) : Quiet(frames'[i]) => Kept(frames'[i].before, narrowed, temp, Type)
    BY <1>1, <1>2 DEF NarrowInv
  <2>3. \A i \in 1..(n - 1) : Quiet(frames'[i]) => Kept(frames'[i].before, narrowed', temp', Type')
    BY <2>1, <2>2 DEF Kept, Type
  <2>4. NarrowInv'
    BY <1>1, <1>3, <2>1, <2>3 DEF NarrowInv
  <2>. QED BY <1>6, <2>4 DEF Tested
<1>. QED BY <1>4, <1>5, <1>6

\* Every step keeps NarrowInv, and only End takes a statement off.
LEMMA NarrowSteps ==
  ASSUME StackInv, NarrowInv, [Next]_vars
  PROVE  NarrowInv' /\ (Len(frames') >= Len(frames) \/ End)
<1>0. /\ NoQuieter(frames) /\ NoQuieter(Seen(frames)) /\ NoQuieter(Disturbed(Seen(frames)))
      /\ SameStatements(Seen(frames))
      /\ \A i \in 1..Len(frames) : ~Disturbed(Seen(frames))[i].quiet
  BY NothingMoves, SeenSame, DisturbedSame, SameNoQuieter
<1>1. CASE Plain
  BY <1>0, <1>1, NarrowStays DEF Plain
<1>2. ASSUME NEW c \in Classes, Record(c) PROVE IsSequence(scopes')
  BY <1>2, ReplaceLastElements DEF Record, NarrowInv
<1>3. ASSUME NEW c \in Classes, Assign(c) PROVE NarrowInv' /\ (Len(frames') >= Len(frames) \/ End)
  <2>1. CASE Consistent(Declared, {c})
    <3>1. /\ Record(c) /\ frames' = Disturbed(Seen(frames))
          /\ narrowed' = narrowed /\ temp' = temp
      BY <1>3, <2>1 DEF Assign
    <3>2. IsSequence(scopes') /\ (~narrowed' => temp' = {})
      BY <1>2, <3>1 DEF NarrowInv
    <3>. QED BY <1>0, <3>1, <3>2, NarrowStays
  <2>2. CASE ~Consistent(Declared, {c})
    BY <1>0, <1>3, <2>2, NarrowStays DEF Assign
  <2>. QED BY <2>1, <2>2
<1>4. ASSUME NEW t \in Tests, NEW kind \in {"if", "while"}, Branch(kind, t)
      PROVE  NarrowInv' /\ (Len(frames') >= Len(frames) \/ End)
  BY <1>4, NarrowBranch
<1>5. ASSUME NEW target \in LoopTargets, For(target) PROVE NarrowInv' /\ (Len(frames') >= Len(frames) \/ End)
  <2>. DEFINE f == Frame("for", EitherWay)
  <2>1. f.kind = "for"
    BY FrameIsFrame
  <2>2. ~Tested(f) /\ f.kind # "def"
    BY <2>1 DEF Tested
  <2>3. CASE target = Other
    <3>1. frames' = Append(Seen(frames), f) /\ UNCHANGED <<narrowed, temp, scopes>>
      BY <1>5, <2>3 DEF For
    <3>. QED BY <1>0, <2>2, <3>1, NarrowStays
  <2>4. CASE target # Other
    <3>1. /\ Record(target) /\ frames' = Append(Disturbed(Seen(frames)), f)
          /\ narrowed' = narrowed /\ temp' = temp /\ target \in Classes
      BY <1>5, <2>4, FlowAssumption DEF For
    <3>2. IsSequence(scopes') /\ (~narrowed' => temp' = {})
      BY <1>2, <3>1 DEF NarrowInv
    <3>. QED BY <1>0, <2>2, <3>1, <3>2, NarrowStays
  <2>. QED BY <2>3, <2>4
<1>6. CASE Try
  <2>. DEFINE f == Frame("try", EitherWay)
  <2>1. f.kind = "try"
    BY FrameIsFrame
  <2>2. ~Tested(f) /\ f.kind # "def"
    BY <2>1 DEF Tested
  <2>3. frames' = Append(Seen(frames), f) /\ UNCHANGED <<narrowed, temp, scopes>>
    BY <1>6 DEF Try
  <2>. QED BY <1>0, <2>2, <2>3, NarrowStays
<1>7. CASE Def
  <2>. DEFINE g == Frame("def", EitherWay)
              f == [g EXCEPT !.sound = TRUE]
  <2>1. frames' = Append(Disturbed(Seen(frames)), f) /\ narrowed' = narrowed /\ temp' = temp
    BY <1>7 DEF Def
  <2>2. IsSequence(scopes') /\ (~narrowed' => temp' = {})
    BY <1>7, <2>1, AppendElements DEF Def, NarrowInv
  <2>3. IsFrame(g) /\ g.kind = "def"
    BY FrameIsFrame
  <2>. HIDE DEF g
  <2>4. f.kind = "def"
    BY <2>3 DEF IsFrame
  <2>. HIDE DEF f
  <2>5. ~Tested(f)
    BY <2>4 DEF Tested
  <2>. QED BY <1>0, <2>1, <2>2, <2>5, NarrowStays
<1>8. CASE Break
  <2>1. /\ frames' = [Seen(frames) EXCEPT ![Max(Loops)].out = @ \cup live] /\ Loops # {}
        /\ UNCHANGED <<narrowed, temp, scopes>>
    BY <1>8 DEF Break, Jump
  <2>2. SameStatements(frames')
    BY <1>0, <2>1, JumpTarget, JumpSame
  <2>3. NoQuieter(frames')
    BY <2>2, SameNoQuieter
  <2>. QED BY <2>1, <2>3, NarrowStays
<1>9. CASE Continue
  <2>1. /\ frames' = [Seen(frames) EXCEPT ![Max(Loops)].back = @ \cup live] /\ Loops # {}
        /\ UNCHANGED <<narrowed, temp, scopes>>
    BY <1>9 DEF Continue, Jump
  <2>2. SameStatements(frames')
    BY <1>0, <2>1, JumpTarget, JumpSame
  <2>3. NoQuieter(frames')
    BY <2>2, SameNoQuieter
  <2>. QED BY <2>1, <2>3, NarrowStays
<1>10. CASE Return
  BY <1>0, <1>10, NarrowStays DEF Return, Jump
<1>11. CASE Report
  <2>1. NoQuieter(frames')
    BY <1>11, ReportSame, SameNoQuieter DEF Report
  <2>. QED BY <1>11, <2>1, NarrowStays DEF Report
<1>12. CASE ToElse
  <2>. DEFINE n == Len(frames)
  <2>1. PICK f, c : Turned(f, c)
    BY <1>12, ElseTurns
  <2>2. /\ frames' = ReplaceLast(frames, f) /\ f.kind = Top.kind /\ f.before = Top.before
        /\ f.quiet => Top.quiet
    BY <2>1 DEF Turned
  <2>3. /\ IsSequence(frames') /\ Len(frames') = n /\ frames'[n] = f
        /\ \A i \in 1..(n - 1) : frames'[i] = frames[i]
    BY <2>2, ReplaceLastElements DEF StackInv
  <2>4. n \in Nat /\ Top = frames[n]
    BY Lengths
  <2>5. \A i \in 1..n : i \in 1..(n - 1) \/ i = n
    BY <2>4
  <2>6. NoQuieter(frames')
    BY <2>2, <2>3, <2>4, <2>5 DEF NoQuieter
  <2>7. UNCHANGED <<narrowed, temp, scopes>>
    BY <1>12 DEF ToElse
  <2>. QED BY <2>6, <2>7, NarrowStays
<1>13. CASE End
  BY <1>13, NarrowPops
<1>14. CASE UNCHANGED vars
  BY <1>0, <1>14, NarrowStays DEF vars
<1>. QED BY <1>1, <1>3, <1>4, <1>5, <1>6, <1>7, <1>8, <1>9, <1>10, <1>11, <1>12, <1>13, <1>14
     DEF Next

LEMMA InitNarrowInv == Init => NarrowInv
<1>. SUFFICES ASSUME Init PROVE NarrowInv
  OBVIOUS
<1>. DEFINE f == Frame("module", EitherWay)
<1>1. frames = <<f>> /\ scopes = <<Declared>> /\ ~narrowed /\ temp = {}
  BY DEF Init
<1>2. f.kind = "module"
  BY FrameIsFrame
<1>. HIDE DEF f
<1>3. Len(<<f>>) = 1 /\ <<f>>[1] = f /\ <<Declared>> \in Seq({Declared})
  OBVIOUS
<1>4. IsSequence(scopes)
  BY <1>1, <1>3 DEF IsSequence
<1>. QED BY <1>1, <1>2, <1>3, <1>4 DEF NarrowInv, Quiet, Tested

-----------------------------------------------------------------------------
(* What the invariants give.                                                *)

LEMMA FlowInvariants == Spec => [](StackInv /\ DeadInv)
<1>1. Init => StackInv /\ DeadInv
  BY InitStackInv, InitDeadInv
<1>2. (StackInv /\ DeadInv) /\ [Next]_vars => (StackInv /\ DeadInv)'
  BY NextStackInv, NextDeadInv
<1>. QED BY <1>1, <1>2, PTL DEF Spec

\* Inference never visits a statement that TypeDefVisitor has left out.
THEOREM VisitedCollected == Spec => []VisitedIsCollected
<1>1. StackInv => VisitedIsCollected
  <2>. SUFFICES ASSUME StackInv, ~Rejected, NEW i \in DOMAIN frames PROVE Collected(frames[i])
    BY DEF VisitedIsCollected
  <2>1. PICK at : Matching(at, frames, conds)
    BY DEF StackInv
  <2>2. i \in 1..Len(frames) /\ (i \in 1..(Len(frames) - 1) \/ i = Len(frames))
    BY Lengths
  <2>3. Agrees(frames[i], conds[at[i]])
    BY <2>1, <2>2 DEF Matching
  <2>4. Entered(frames[i], conds[at[i]])
    BY <2>1, <2>2, TopAgrees, Lengths DEF Matching
  <2>. QED BY <2>2, <2>3, <2>4, EnteredIsCollected DEF StackInv
<1>. QED BY <1>1, FlowInvariants, PTL

\* The flag of a return stays in its function, and what a flag silences is dead
\* unless the jump has outlived a loop, a try or a misjudged test.
THEOREM FlagKeptInside == Spec => []FlagStaysInside
<1>1. StackInv /\ DeadInv => FlagStaysInside
  <2>. SUFFICES ASSUME StackInv, DeadInv PROVE FlagStaysInside
    OBVIOUS
  <2>1. flag = "RETURN" => Functions # {}
    BY Lengths DEF DeadInv, Functions, Kind
  <2>. QED BY <2>1 DEF FlagStaysInside, DeadInv
<1>. QED BY <1>1, FlowInvariants, PTL

\* Every false report of unreachable code has one of the known causes.
THEOREM ReportsExplained == Spec => []FalseReportsExplained
<1>1. DeadInv => FalseReportsExplained
  BY DEF DeadInv, FalseReportsExplained
<1>. QED BY <1>1, FlowInvariants, PTL

\* The end of an if or while whose test alone has narrowed x gives back at least
\* the type that x had before the statement.
THEOREM NarrowingGivenBack == Spec => NarrowingUndone
<1>1. Init => StackInv /\ DeadInv /\ NarrowInv
  BY InitStackInv, InitDeadInv, InitNarrowInv
<1>2. StackInv /\ DeadInv /\ NarrowInv /\ [Next]_vars => (StackInv /\ DeadInv /\ NarrowInv)'
  BY NextStackInv, NextDeadInv, NarrowSteps
<1>3. StackInv /\ NarrowInv /\ [Next]_vars
        => [Len(frames') < Len(frames) /\ Top.kind \in {"if", "while"} /\ Top.quiet
              => Top.before \subseteq Last(scopes')]_vars
  <2>. SUFFICES ASSUME StackInv, NarrowInv, [Next]_vars,
                       Len(frames') < Len(frames), Top.kind \in {"if", "while"}, Top.quiet
                PROVE  Top.before \subseteq Last(scopes')
    OBVIOUS
  <2>1. Len(frames') >= Len(frames) \/ End
    BY NarrowSteps
  <2>2. CASE End
    BY <2>2, NarrowPops
  <2>3. CASE Len(frames') >= Len(frames)
    <3>1. Len(frames) \in Nat /\ Len(frames') >= Len(frames) /\ Len(frames') < Len(frames)
      BY <2>3, Lengths
    <3>2. Len(frames') \in Nat
      BY NextStackInv
    <3>. QED BY <3>1, <3>2
  <2>. QED BY <2>1, <2>2, <2>3
<1>. QED BY <1>1, <1>2, <1>3, PTL DEF Spec, NarrowingUndone

=============================================================================
