----------------------------- MODULE CallsProofs -----------------------------
(***************************************************************************)
(* What match_argument does with a call is what Python does with it, for   *)
(* every signature, whatever is called inside the arguments and before,    *)
(* and whatever is_consistent accepts.                                     *)
(***************************************************************************)
EXTENDS Calls, TLAPS, SequenceTheorems

-----------------------------------------------------------------------------
(* Sequences *)

LEMMA SeqFacts ==
  ASSUME NEW S, NEW s \in Seq(S)
  PROVE  /\ Len(s) \in Nat /\ DOMAIN s = 1..Len(s) /\ (\A i \in 1..Len(s) : s[i] \in S)
         /\ s \in Seq(ToSet(s)) /\ ToSet(s) \subseteq S
         /\ s = <<>> <=> Len(s) = 0
<1>1. Len(s) \in Nat /\ DOMAIN s = 1..Len(s) /\ (\A i \in 1..Len(s) : s[i] \in S) /\ (s = <<>> <=> Len(s) = 0)
  OBVIOUS
<1>2. s \in Seq(ToSet(s)) /\ ToSet(s) \subseteq S
  BY <1>1 DEF ToSet
<1>. QED BY <1>1, <1>2

LEMMA Widen ==
  ASSUME NEW S, NEW U, S \subseteq U, NEW s \in Seq(S)
  PROVE  s \in Seq(U)
OBVIOUS

LEMMA FunctionSeq ==
  ASSUME NEW U, NEW k \in Nat, NEW f \in [1..k -> U]
  PROVE  f \in Seq(U) /\ Len(f) = k
OBVIOUS

LEMMA SubSeqSet ==
  ASSUME NEW S, NEW s \in Seq(S), NEW k \in Nat
  PROVE  /\ ToSet(SubSeq(s, k + 1, Len(s))) = {s[i] : i \in k + 1..Len(s)}
         /\ SubSeq(s, k + 1, Len(s)) = <<>> <=> k >= Len(s)
<1>. DEFINE t == SubSeq(s, k + 1, Len(s))
<1>1. Len(s) \in Nat
  OBVIOUS
<1>2. /\ t \in Seq(S) /\ Len(t) = IF k + 1 <= Len(s) THEN Len(s) - (k + 1) + 1 ELSE 0
      /\ \A i \in 1..Len(s) - (k + 1) + 1 : t[i] = s[k + 1 + i - 1]
  <2>1. \A i \in k + 1..Len(s) : s[i] \in S
    BY <1>1, ElementOfSeq
  <2>2. k + 1 \in Int /\ Len(s) \in Int
    BY <1>1
  <2>. QED BY <2>1, <2>2, SubSeqProperties
<1>. HIDE DEF t
<1>3. Len(t) \in Nat /\ DOMAIN t = 1..Len(t) /\ (t = <<>> <=> Len(t) = 0)
  BY <1>2, SeqFacts
<1>4. \A i \in 1..Len(t) : k + i \in k + 1..Len(s) /\ t[i] = s[k + i]
  BY <1>1, <1>2
<1>5. \A j \in k + 1..Len(s) : j - k \in 1..Len(t) /\ k + (j - k) = j
  BY <1>1, <1>2
<1>6. ToSet(t) = {s[i] : i \in k + 1..Len(s)}
  BY <1>3, <1>4, <1>5 DEF ToSet
<1>7. t = <<>> <=> k >= Len(s)
  BY <1>1, <1>2, <1>3
<1>. QED BY <1>6, <1>7 DEF t

LEMMA MinMax ==
  ASSUME NEW m \in Nat, NEW n \in Nat
  PROVE  /\ Min({m, n}) = IF m <= n THEN m ELSE n
         /\ Max({m, n}) = IF m <= n THEN n ELSE m
<1>1. \A S : Min(S) = CHOOSE x \in S : \A y \in S : x =< y
  BY DEF Min
<1>2. PICK a : a = IF m <= n THEN m ELSE n
  OBVIOUS
<1>3. PICK b : b = IF m <= n THEN n ELSE m
  OBVIOUS
<1>4. a \in {m, n} /\ (\A y \in {m, n} : a <= y) /\ \A x \in {m, n} : (\A y \in {m, n} : x <= y) => x = a
  BY <1>2
<1>5. b \in {m, n} /\ (\A y \in {m, n} : b >= y) /\ \A x \in {m, n} : (\A y \in {m, n} : x >= y) => x = b
  BY <1>3
<1>. QED BY <1>2, <1>3, <1>4, <1>5 DEF Min, Max

-----------------------------------------------------------------------------
(* The parameters *)

\* What Define makes of args.
Refined(p) ==
  CASE p.kind = "classmethod" -> [p.args EXCEPT ![1].ann = Type(Owner)]
    [] p.kind = "method" /\ p.args # <<>> -> [p.args EXCEPT ![1].ann = Class(Owner)]
    [] OTHER -> p.args

IsParam(q) == q = [name |-> q.name, ann |-> q.ann]

\* Parameters have different names, and those of the keyword-only ones are others.
Distinct(params, kwonly) ==
  /\ \A i, j \in 1..Len(params) : params[i].name = params[j].name => i = j
  /\ \A i \in 1..Len(params) : \A q \in kwonly : params[i].name # q.name
  /\ \A q, r \in kwonly : q.name = r.name => q = r

LEMMA ProgramFacts ==
  ASSUME NEW p \in Programs
  PROVE  /\ \E S : /\ p.posonly \in Seq(S) /\ p.args \in Seq(S) /\ p.kwonly \in Seq(S)
                   /\ p.posonly \o p.args \in Seq(S) /\ \A q \in S : IsParam(q)
         /\ \E S : p.vararg \in Seq(S) /\ p.kwarg \in Seq(S)
         /\ Distinct(p.posonly \o p.args, ToSet(p.kwonly))
         /\ ToSet(p.posonly) \cup ToSet(p.args) \cup ToSet(p.kwonly)
              \subseteq ToSet(p.posonly \o p.args \o p.kwonly)
<1>. DEFINE a == p.posonly
            b == p.args
            c == p.kwonly
            params == a \o b \o c
            S == ToSet(a) \cup ToSet(b) \cup ToSet(c)
<1>1. /\ a \in Seq(ToSet(a)) /\ b \in Seq(ToSet(b)) /\ c \in Seq(ToSet(c))
      /\ p.vararg \in Seq(ToSet(p.vararg)) /\ p.kwarg \in Seq(ToSet(p.kwarg))
      /\ \A q \in ToSet(params) : IsParam(q)
      /\ \A i, j \in DOMAIN params : params[i].name = params[j].name => i = j
  BY ProgramAssumption DEF IsParam
<1>. HIDE DEF a, b, c
<1>2. a \in Seq(S) /\ b \in Seq(S) /\ c \in Seq(S)
  <2>1. ToSet(a) \subseteq S /\ ToSet(b) \subseteq S /\ ToSet(c) \subseteq S
    OBVIOUS
  <2>. HIDE DEF S
  <2>. QED BY <1>1, <2>1
<1>. HIDE DEF S
<1>. DEFINE t == a \o b
<1>3. /\ t \in Seq(S) /\ Len(t) = Len(a) + Len(b)
      /\ \A i \in 1..Len(a) + Len(b) : t[i] = IF i <= Len(a) THEN a[i] ELSE b[i - Len(a)]
  BY <1>2, ConcatProperties
<1>. HIDE DEF t
<1>4. /\ params \in Seq(S) /\ Len(params) = Len(t) + Len(c)
      /\ \A i \in 1..Len(t) + Len(c) : params[i] = IF i <= Len(t) THEN t[i] ELSE c[i - Len(t)]
  BY <1>2, <1>3, ConcatProperties DEF t
<1>. HIDE DEF params
<1>5. /\ Len(a) \in Nat /\ Len(b) \in Nat /\ Len(c) \in Nat /\ Len(t) \in Nat /\ Len(params) \in Nat
      /\ DOMAIN params = 1..Len(params) /\ DOMAIN a = 1..Len(a)
      /\ DOMAIN b = 1..Len(b) /\ DOMAIN c = 1..Len(c)
  BY <1>2, <1>3, <1>4, SeqFacts
<1>6. \A i \in 1..Len(t) : i \in 1..Len(params) /\ params[i] = t[i]
  BY <1>4, <1>5
<1>7. \A i \in 1..Len(c) : /\ Len(t) + i \in 1..Len(params) /\ params[Len(t) + i] = c[i]
                           /\ \A j \in 1..Len(t) : j # Len(t) + i
  BY <1>4, <1>5
<1>8. S \subseteq ToSet(params)
  <2>1. ToSet(c) \subseteq ToSet(params)
    BY <1>5, <1>7 DEF ToSet
  <2>2. \A i \in 1..Len(a) : i \in 1..Len(t) /\ t[i] = a[i]
    BY <1>3, <1>5
  <2>3. \A i \in 1..Len(b) : Len(a) + i \in 1..Len(t) /\ t[Len(a) + i] = b[i]
    BY <1>3, <1>5
  <2>4. ToSet(a) \subseteq ToSet(params) /\ ToSet(b) \subseteq ToSet(params)
    BY <1>5, <1>6, <2>2, <2>3 DEF ToSet
  <2>. QED BY <2>1, <2>4 DEF S
<1>9. \A q \in S : IsParam(q)
  BY <1>1, <1>8 DEF params
<1>10. \A i, j \in 1..Len(params) : params[i].name = params[j].name => i = j
  BY <1>1, <1>5 DEF params
<1>11. Distinct(t, ToSet(c))
  <2>1. \A i, j \in 1..Len(t) : t[i].name = t[j].name => i = j
    BY <1>6, <1>10
  <2>2. ASSUME NEW i \in 1..Len(t), NEW q \in ToSet(c) PROVE t[i].name # q.name
    <3>1. PICK j \in 1..Len(c) : q = c[j]
      BY <1>5 DEF ToSet
    <3>. QED BY <1>6, <1>7, <1>10, <3>1
  <2>3. ASSUME NEW q \in ToSet(c), NEW r \in ToSet(c), q.name = r.name PROVE q = r
    <3>1. PICK i \in 1..Len(c), j \in 1..Len(c) : q = c[i] /\ r = c[j]
      BY <1>5 DEF ToSet
    <3>2. Len(t) + i = Len(t) + j
      BY <1>7, <1>10, <2>3, <3>1
    <3>. QED BY <1>5, <3>1, <3>2
  <2>. QED BY <2>1, <2>2, <2>3 DEF Distinct
<1>12. \E U : p.vararg \in Seq(U) /\ p.kwarg \in Seq(U)
  <2>. DEFINE U == ToSet(p.vararg) \cup ToSet(p.kwarg)
  <2>1. ToSet(p.vararg) \subseteq U /\ ToSet(p.kwarg) \subseteq U
    OBVIOUS
  <2>2. p.vararg \in Seq(U) /\ p.kwarg \in Seq(U)
    BY <1>1, <2>1, Widen
  <2>. QED BY <2>2
<1>. QED BY <1>2, <1>3, <1>8, <1>9, <1>11, <1>12 DEF a, b, c, t, S, params

\* t is s but for the annotation of the first parameter.
FirstIs(t, s, a) ==
  /\ \E U : t \in Seq(U)
  /\ Len(t) = Len(s)
  /\ \A i \in 1..Len(s) : /\ t[i].name = s[i].name
                          /\ t[i].ann = IF i = 1 THEN a ELSE s[i].ann

LEMMA FirstTyped ==
  ASSUME NEW S, NEW s \in Seq(S), \A q \in S : IsParam(q), NEW a
  PROVE  FirstIs([s EXCEPT ![1].ann = a], s, a)
<1>. DEFINE t == [s EXCEPT ![1].ann = a]
<1>1. Len(s) \in Nat /\ DOMAIN s = 1..Len(s) /\ \A i \in 1..Len(s) : s[i] \in S
  BY SeqFacts
<1>2. t = [i \in 1..Len(s) |-> IF i = 1 THEN [s[1] EXCEPT !.ann = a] ELSE s[i]]
  BY <1>1
<1>3. PICK U : \A i \in 1..Len(s) : t[i] \in U
  <2>1. \A i \in 1..Len(s) : t[i] \in S \cup {[s[1] EXCEPT !.ann = a]}
    BY <1>1, <1>2
  <2>. QED BY <2>1
<1>5. t \in Seq(U) /\ Len(t) = Len(s)
  <2>1. PICK k \in Nat : k = Len(s)
    BY <1>1
  <2>2. t \in [1..k -> U]
    BY <1>2, <1>3, <2>1
  <2>3. t \in Seq(U) /\ Len(t) = k
    BY ONLY <2>2, k \in Nat, FunctionSeq
  <2>. QED BY <2>1, <2>3
<1>4. ASSUME NEW i \in 1..Len(s)
      PROVE  t[i].name = s[i].name /\ t[i].ann = IF i = 1 THEN a ELSE s[i].ann
  <2>1. CASE i = 1
    <3>1. s[1] = [name |-> s[1].name, ann |-> s[1].ann]
      BY <1>1, <2>1 DEF IsParam
    <3>2. [s[1] EXCEPT !.ann = a] = [name |-> s[1].name, ann |-> a]
      BY <3>1
    <3>. QED BY <1>2, <2>1, <3>2
  <2>2. CASE i # 1
    BY <1>2, <2>2
  <2>. QED BY <2>1, <2>2
<1>. QED BY <1>4, <1>5 DEF FirstIs

LEMMA Refining ==
  ASSUME NEW p \in Programs
  PROVE  /\ \E U : Refined(p) \in Seq(U)
         /\ Len(Refined(p)) = Len(p.args)
         /\ \A i \in 1..Len(p.args) :
              /\ Refined(p)[i].name = p.args[i].name
              /\ Refined(p)[i].ann = IF i = 1 /\ p.kind = "classmethod" THEN Type(Owner)
                                     ELSE IF i = 1 /\ p.kind = "method" THEN Class(Owner)
                                     ELSE p.args[i].ann
<1>1. PICK S : p.args \in Seq(S) /\ \A q \in S : IsParam(q)
  BY ProgramFacts
<1>2. Len(p.args) \in Nat /\ (p.args = <<>> <=> Len(p.args) = 0)
  BY <1>1, SeqFacts
<1>3. CASE p.kind = "classmethod"
  <2>1. Refined(p) = [p.args EXCEPT ![1].ann = Type(Owner)]
    BY <1>3 DEF Refined
  <2>2. FirstIs([p.args EXCEPT ![1].ann = Type(Owner)], p.args, Type(Owner))
    BY <1>1, FirstTyped
  <2>. HIDE DEF Type, Class
  <2>. QED BY <1>3, <2>1, <2>2 DEF FirstIs
<1>4. CASE p.kind = "method" /\ p.args # <<>>
  <2>1. Refined(p) = [p.args EXCEPT ![1].ann = Class(Owner)]
    BY <1>4 DEF Refined
  <2>2. FirstIs([p.args EXCEPT ![1].ann = Class(Owner)], p.args, Class(Owner))
    BY <1>1, FirstTyped
  <2>. HIDE DEF Type, Class
  <2>. QED BY <1>4, <2>1, <2>2 DEF FirstIs
<1>5. CASE p.kind # "classmethod" /\ ~(p.kind = "method" /\ p.args # <<>>)
  <2>1. Refined(p) = p.args
    BY <1>5 DEF Refined
  <2>. QED BY <1>1, <1>2, <1>5, <2>1
<1>. QED BY <1>3, <1>4, <1>5

LEMMA PositionalFacts ==
  ASSUME program \in Programs, argument = Refined(program)
  PROVE  LET written == program.posonly \o program.args
         IN  /\ \E U : Positional \in Seq(U) /\ program.posonly \in Seq(U)
                       /\ program.kwonly \in Seq(U) /\ program.args \in Seq(U) /\ written \in Seq(U)
             /\ Len(Positional) = Len(program.posonly) + Len(program.args)
             /\ Len(written) = Len(Positional)
             /\ \A i \in 1..Len(Positional) : Positional[i].name = written[i].name
             /\ \A i \in 1..Len(program.args) :
                  written[Len(program.posonly) + i] = program.args[i]
             /\ \A i \in 1..Len(program.posonly) : Positional[i] = program.posonly[i]
             /\ \A i \in 1..Len(program.args) : Positional[Len(program.posonly) + i] = argument[i]
             /\ Distinct(Positional, ToSet(program.kwonly))
<1>. DEFINE a == program.posonly
            b == program.args
            w == a \o b
<1>1. PICK S : /\ a \in Seq(S) /\ b \in Seq(S) /\ program.kwonly \in Seq(S) /\ w \in Seq(S)
  BY ProgramFacts
<1>2. PICK V : argument \in Seq(V)
  BY Refining
<1>3. Len(argument) = Len(b) /\ \A i \in 1..Len(b) : argument[i].name = b[i].name
  BY Refining
<1>4. Distinct(w, ToSet(program.kwonly))
  BY ProgramFacts
<1>. HIDE DEF a, b, w
<1>5. PICK U : U = S \cup V
  OBVIOUS
<1>6. a \in Seq(U) /\ b \in Seq(U) /\ program.kwonly \in Seq(U) /\ w \in Seq(U) /\ argument \in Seq(U)
  BY <1>1, <1>2, <1>5, Widen
<1>7. Len(a) \in Nat /\ Len(b) \in Nat
  BY <1>6, SeqFacts
<1>8. /\ w \in Seq(U) /\ Len(w) = Len(a) + Len(b)
      /\ \A i \in 1..Len(a) + Len(b) : w[i] = IF i <= Len(a) THEN a[i] ELSE b[i - Len(a)]
  BY <1>6, ConcatProperties DEF w
<1>. DEFINE P == a \o argument
<1>9. /\ P \in Seq(U) /\ Len(P) = Len(a) + Len(b)
      /\ \A i \in 1..Len(a) + Len(b) : P[i] = IF i <= Len(a) THEN a[i] ELSE argument[i - Len(a)]
  <2>1. /\ P \in Seq(U) /\ Len(P) = Len(a) + Len(argument)
        /\ \A i \in 1..Len(a) + Len(argument) : P[i] = IF i <= Len(a) THEN a[i] ELSE argument[i - Len(a)]
    BY <1>6, ConcatProperties
  <2>. QED BY <1>3, <2>1
<1>. HIDE DEF P
<1>10. \A i \in 1..Len(a) : P[i] = a[i] /\ i \in 1..Len(P)
  BY <1>7, <1>9
<1>11. \A i \in 1..Len(b) : /\ P[Len(a) + i] = argument[i] /\ w[Len(a) + i] = b[i]
                            /\ Len(a) + i \in 1..Len(P)
  BY <1>7, <1>8, <1>9
<1>12. ASSUME NEW i \in 1..Len(P) PROVE P[i].name = w[i].name
  <2>1. CASE i <= Len(a)
    BY <1>7, <1>8, <1>9, <2>1
  <2>2. CASE i > Len(a)
    <3>1. i - Len(a) \in 1..Len(b)
      BY <1>7, <1>9, <2>2
    <3>. QED BY <1>3, <1>7, <1>8, <1>9, <2>2, <3>1
  <2>. QED BY <1>7, <2>1, <2>2
<1>13. Distinct(P, ToSet(program.kwonly))
  BY <1>4, <1>8, <1>9, <1>12 DEF Distinct
<1>14. P = Positional
  BY DEF P, Positional, a
<1>. QED BY <1>6, <1>8, <1>9, <1>10, <1>11, <1>12, <1>13, <1>14 DEF a, b, w

-----------------------------------------------------------------------------
(* Python's rules, over the parameters that match_argument works with *)

\* Attributes are looked up when the function has been defined.
Ready ==
  /\ program \in Programs /\ argument = Refined(program)
  /\ program.kind = "classmethod" => program.args # <<>>

Names(params) == {p.name : p \in params}
Nameable ==
  {Positional[i] : i \in Len(program.posonly) + 1..Len(Positional)} \cup ToSet(program.kwonly)
Filled(given) == {Positional[i].name : i \in 1..Met(given)}
Named(k) == CHOOSE q \in {r \in Nameable : r.name = k} : TRUE

\* The conjuncts of Legal.
Fits(given) == Len(given) > Len(Positional) => program.vararg # <<>>
NotTwice(given, kwargs) == DOMAIN kwargs \cap Names(Nameable) \cap Filled(given) = {}
Known(kwargs) == DOMAIN kwargs \ Names(Nameable) # {} => program.kwarg # <<>>
Complete(given, kwargs) ==
  \A p \in ToSet(Positional) \cup ToSet(program.kwonly) :
    p.name \in Filled(given) \cup program.valid \cup (Names(Nameable) \cap DOMAIN kwargs)
ArgType(given, i) == IF i <= Met(given) THEN Positional[i].ann ELSE program.vararg[1]
AllowsArgs(given) == \A i \in DOMAIN given : Allows(ArgType(given, i), given[i])
KwargType(k) == IF k \notin Names(Nameable) THEN program.kwarg[1] ELSE Named(k).ann
AllowsKwargs(kwargs) == \A k \in DOMAIN kwargs : Allows(KwargType(k), kwargs[k])

LEMMA TypedIs ==
  ASSUME Ready, ~SelfPosonly
  PROVE  Typed(program.posonly \o program.args) = Positional
<1>1. PICK S : program.posonly \in Seq(S) /\ program.args \in Seq(S)
  BY ProgramFacts DEF Ready
<1>2. program.posonly = <<>> => program.posonly \o program.args = program.args
  BY <1>1, ConcatEmptySeq
<1>3. CASE program.kind \in {"method", "classmethod"}
  <2>1. program.posonly = <<>>
    BY <1>3 DEF SelfPosonly
  <2>2. PICK V : argument \in Seq(V)
    BY Refining DEF Ready
  <2>3. Positional = argument
    BY <2>1, <2>2, ConcatEmptySeq DEF Positional
  <2>. QED BY <1>2, <1>3, <2>1, <2>3 DEF Ready, Typed, Refined
<1>4. CASE program.kind \notin {"method", "classmethod"}
  BY <1>4 DEF Ready, Typed, Refined, Positional
<1>. QED BY <1>3, <1>4

LEMMA LegalIs ==
  ASSUME Ready, ~SelfPosonly, NEW call, NEW given, given = Own(call) \o call.args
  PROVE  Legal(call) <=>
           /\ Fits(given) /\ NotTwice(given, call.kwargs) /\ Known(call.kwargs)
           /\ Complete(given, call.kwargs) /\ AllowsArgs(given) /\ AllowsKwargs(call.kwargs)
<1>1. PICK U : Positional \in Seq(U) /\ program.posonly \in Seq(U)
  BY PositionalFacts DEF Ready
<1>2. Len(program.posonly) \in Nat
  BY <1>1
<1>3. ToSet(SubSeq(Positional, Len(program.posonly) + 1, Len(Positional)))
      = {Positional[i] : i \in Len(program.posonly) + 1..Len(Positional)}
  BY <1>1, <1>2, SubSeqSet
<1>4. Typed(program.posonly \o program.args) = Positional
  BY TypedIs
<1>. DEFINE params == Typed(program.posonly \o program.args)
            g == Own(call) \o call.args
            n == Min({Len(g), Len(params)})
            filled == {params[i].name : i \in 1..n}
            byName == ToSet(SubSeq(params, Len(program.posonly) + 1, Len(params)))
                      \cup ToSet(program.kwonly)
            named == {p.name : p \in byName}
            keywords == DOMAIN call.kwargs
            TypeFor(k) == LET p == {q \in byName : q.name = k}
                          IN  IF p = {} THEN program.kwarg[1] ELSE (CHOOSE q \in p : TRUE).ann
<1>5. Legal(call) <=>
        /\ Len(g) > Len(params) => program.vararg # <<>>
        /\ keywords \cap named \cap filled = {}
        /\ keywords \ named # {} => program.kwarg # <<>>
        /\ \A p \in ToSet(params) \cup ToSet(program.kwonly) :
             p.name \in filled \cup program.valid \cup (named \cap keywords)
        /\ \A i \in DOMAIN g :
             Allows(IF i <= n THEN params[i].ann ELSE program.vararg[1], g[i])
        /\ \A k \in keywords : Allows(TypeFor(k), call.kwargs[k])
  BY DEF Legal
<1>6. params = Positional /\ g = given
  BY <1>4
<1>. HIDE DEF params, g
<1>7. n = Met(given)
  BY <1>6 DEF Met
<1>. HIDE DEF n
<1>8. filled = Filled(given)
  BY <1>6, <1>7 DEF Filled
<1>9. byName = Nameable
  BY <1>3, <1>6 DEF Nameable
<1>. HIDE DEF filled, byName
<1>10. named = Names(Nameable)
  BY <1>9 DEF Names
<1>11. ASSUME NEW k
       PROVE  TypeFor(k) = IF k \notin Names(Nameable) THEN program.kwarg[1] ELSE Named(k).ann
  <2>1. {q \in byName : q.name = k} = {} <=> k \notin Names(Nameable)
    BY <1>9 DEF Names
  <2>. QED BY <1>9, <2>1 DEF Named
<1>. HIDE DEF named, TypeFor
<1>12. (\A k \in keywords : Allows(TypeFor(k), call.kwargs[k])) <=> AllowsKwargs(call.kwargs)
  BY <1>11 DEF AllowsKwargs, KwargType
<1>13. (\A i \in DOMAIN g : Allows(IF i <= n THEN params[i].ann ELSE program.vararg[1], g[i]))
       <=> AllowsArgs(given)
  BY <1>6, <1>7 DEF AllowsArgs, ArgType
<1>14. (\A p \in ToSet(params) \cup ToSet(program.kwonly) :
          p.name \in filled \cup program.valid \cup (named \cap keywords))
       <=> Complete(given, call.kwargs)
  BY <1>6, <1>8, <1>10 DEF Complete
<1>. QED BY <1>5, <1>6, <1>8, <1>10, <1>12, <1>13, <1>14 DEF Fits, NotTwice, Known

\* What is looked up by name: what may be given by name and has no positional
\* argument.  Names are unique, so a name stands for one parameter.
LEMMA Naming ==
  ASSUME Ready, NEW given, Len(given) \in Nat
  PROVE  /\ Len(Positional) \in Nat /\ Len(program.posonly) \in Nat
         /\ Met(given) = IF Len(given) <= Len(Positional) THEN Len(given) ELSE Len(Positional)
         /\ ByName(given) = ToSet(program.kwonly) \cup
              {Positional[i] : i \in {j \in Met(given) + 1..Len(Positional) : j > Len(program.posonly)}}
         /\ ByName(given) \subseteq Nameable
         /\ \A q \in Nameable, r \in Nameable : q.name = r.name => q = r
         /\ \A q \in Nameable : Named(q.name) = q
         /\ \A i \in Met(given) + 1..Len(Positional) : Positional[i].name \notin Filled(given)
         /\ \A q \in ToSet(program.kwonly) : q.name \notin Filled(given)
         /\ \A q \in Nameable : q \in ByName(given) <=> q.name \notin Filled(given)
<1>1. PICK U : Positional \in Seq(U) /\ program.posonly \in Seq(U)
  BY PositionalFacts DEF Ready
<1>2. PICK L \in Nat, o \in Nat, n \in {Met(given)}, K \in {ToSet(program.kwonly)} :
        /\ L = Len(Positional) /\ o = Len(program.posonly) /\ n = Met(given)
        /\ K = ToSet(program.kwonly)
  BY <1>1
<1>3. n = IF Len(given) <= L THEN Len(given) ELSE L
  BY <1>2, MinMax DEF Met
<1>4. n \in Nat /\ n <= L
  BY <1>3
<1>5. Distinct(Positional, K)
  BY <1>2, PositionalFacts DEF Ready
<1>6. \A i \in 1..L, j \in 1..L : Positional[i].name = Positional[j].name => i = j
  BY <1>2, <1>5 DEF Distinct
<1>7. /\ \A i \in 1..L : \A q \in K : Positional[i].name # q.name
      /\ \A q \in K, r \in K : q.name = r.name => q = r
  BY <1>2, <1>5 DEF Distinct
<1>8. ByName(given) = K \cup {Positional[i] : i \in {j \in n + 1..L : j > o}}
  <2>1. Max({n, o}) = IF n <= o THEN o ELSE n
    BY <1>2, <1>4, MinMax
  <2>2. Max({n, o}) + 1..L = {j \in n + 1..L : j > o}
    BY <1>2, <1>4, <2>1
  <2>. QED BY <1>2, <2>2 DEF ByName
<1>9. Nameable = {Positional[i] : i \in o + 1..L} \cup K
  BY <1>2 DEF Nameable
<1>10. Filled(given) = {Positional[i].name : i \in 1..n}
  BY <1>2 DEF Filled
<1>11. ByName(given) \subseteq Nameable
  BY <1>2, <1>4, <1>8, <1>9
<1>12. ASSUME NEW q \in Nameable, NEW r \in Nameable, q.name = r.name PROVE q = r
  <2>1. CASE q \in K
    BY <1>2, <1>7, <1>9, <1>12, <2>1
  <2>2. CASE r \in K
    BY <1>2, <1>7, <1>9, <1>12, <2>2
  <2>3. CASE q \notin K /\ r \notin K
    <3>1. PICK i \in o + 1..L, j \in o + 1..L : q = Positional[i] /\ r = Positional[j]
      BY <1>9, <2>3
    <3>2. i \in 1..L /\ j \in 1..L
      BY <1>2
    <3>. QED BY <1>6, <1>12, <3>1, <3>2
  <2>. QED BY <2>1, <2>2, <2>3
<1>13. ASSUME NEW q \in Nameable PROVE Named(q.name) = q
  <2>1. q \in {r \in Nameable : r.name = q.name}
    OBVIOUS
  <2>2. Named(q.name) \in {r \in Nameable : r.name = q.name}
    BY <2>1 DEF Named
  <2>. QED BY <1>12, <2>2
<1>14. ASSUME NEW i \in n + 1..L PROVE Positional[i].name \notin Filled(given)
  <2>1. i \in 1..L /\ i > n
    BY <1>2, <1>4
  <2>2. \A j \in 1..n : j \in 1..L /\ j # i
    BY <1>2, <1>4, <2>1
  <2>. QED BY <1>6, <1>10, <2>1, <2>2
<1>15. ASSUME NEW q \in K PROVE q.name \notin Filled(given)
  <2>1. \A j \in 1..n : j \in 1..L
    BY <1>2, <1>4
  <2>. QED BY <1>7, <1>10, <2>1
<1>16. ASSUME NEW q \in Nameable PROVE q \in ByName(given) <=> q.name \notin Filled(given)
  <2>1. CASE q \in K
    BY <1>8, <1>15, <2>1
  <2>2. CASE q \notin K
    <3>1. PICK i \in o + 1..L : q = Positional[i]
      BY <1>9, <2>2
    <3>2. CASE i <= n
      <4>1. i \in 1..n
        BY <1>2, <1>4, <3>2
      <4>2. q.name \in Filled(given)
        BY <1>10, <3>1, <4>1
      <4>3. \A j \in n + 1..L : j # i /\ i \in 1..L /\ j \in 1..L
        BY <1>2, <1>4, <3>2
      <4>4. \A j \in n + 1..L : Positional[j] # q
        BY <1>6, <3>1, <4>3
      <4>. QED BY <1>8, <2>2, <4>2, <4>4
    <3>3. CASE i > n
      <4>1. i \in n + 1..L /\ i > o
        BY <1>2, <1>4, <3>3
      <4>. QED BY <1>8, <1>14, <3>1, <4>1
    <3>. QED BY <1>2, <1>4, <3>2, <3>3
  <2>. QED BY <2>1, <2>2
<1>. QED BY <1>2, <1>3, <1>8, <1>11, <1>12, <1>13, <1>14, <1>15, <1>16

-----------------------------------------------------------------------------
(* What match_argument reports and compares *)

LEMMA ErrorsAre ==
  ASSUME Ready, NEW U, NEW given \in Seq(U), NEW kwargs
  PROVE  /\ MatchArgument(given, kwargs) \subseteq {"few", "many", "type"}
         /\ "few" \in MatchArgument(given, kwargs) <=>
              \E p \in {Positional[i] : i \in Met(given) + 1..Len(Positional)} \cup ToSet(program.kwonly) :
                p \in ByName(given) => p.name \notin DOMAIN kwargs
         /\ "many" \in MatchArgument(given, kwargs) <=>
              \/ Len(given) > Len(Positional) /\ program.vararg = <<>>
              \/ Rest(given, kwargs) # {} /\ program.kwarg = <<>>
         /\ "type" \in MatchArgument(given, kwargs) <=>
              \E p \in Compared(given, kwargs) : ~Accepts(p[1], p[2])
         /\ \A k \in DOMAIN kwargs :
              k \in Rest(given, kwargs) <=> \A q \in ByName(given) : q.name # k
<1>1. PICK V : Positional \in Seq(V)
  BY PositionalFacts DEF Ready
<1>2. Len(given) \in Nat /\ Len(Positional) \in Nat
  BY <1>1
<1>3. Met(given) = IF Len(given) <= Len(Positional) THEN Len(given) ELSE Len(Positional)
  BY <1>2, Naming
<1>4. Met(given) \in Nat
  BY <1>2, <1>3
<1>. DEFINE unmet == SubSeq(Positional, Met(given) + 1, Len(Positional))
            few == \E p \in ToSet(unmet) \cup ToSet(program.kwonly) :
                     p \in ByName(given) => p.name \notin DOMAIN kwargs
            many == \/ More(given) # <<>> /\ program.vararg = <<>>
                    \/ Rest(given, kwargs) # {} /\ program.kwarg = <<>>
            type == \E p \in Compared(given, kwargs) : ~Accepts(p[1], p[2])
<1>5. MatchArgument(given, kwargs) =
        {e \in {"few", "many", "type"} : (e = "few" /\ few) \/ (e = "many" /\ many) \/ (e = "type" /\ type)}
  BY DEF MatchArgument
<1>6. ToSet(unmet) = {Positional[i] : i \in Met(given) + 1..Len(Positional)}
  BY <1>1, <1>4, SubSeqSet
<1>7. More(given) = <<>> <=> Met(given) >= Len(given)
  BY <1>4, SubSeqSet DEF More
<1>8. More(given) # <<>> <=> Len(given) > Len(Positional)
  BY <1>2, <1>3, <1>7
<1>9. \A k \in DOMAIN kwargs :
        k \in Rest(given, kwargs) <=> \A q \in ByName(given) : q.name # k
  BY DEF Rest
<1>. HIDE DEF unmet, few, many, type
<1>10. /\ MatchArgument(given, kwargs) \subseteq {"few", "many", "type"}
       /\ "few" \in MatchArgument(given, kwargs) <=> few
       /\ "many" \in MatchArgument(given, kwargs) <=> many
       /\ "type" \in MatchArgument(given, kwargs) <=> type
  BY <1>5
<1>. QED BY <1>6, <1>8, <1>9, <1>10 DEF few, many, type

\* The type that Python expects and the one it gets, for each argument.
Expected(given, kwargs) ==
  {<<ArgType(given, i), given[i]>> : i \in DOMAIN given}
  \cup {<<KwargType(k), kwargs[k]>> : k \in DOMAIN kwargs}

LEMMA ExpectedAllowed ==
  ASSUME NEW given, NEW kwargs
  PROVE  (\A p \in Expected(given, kwargs) : Allows(p[1], p[2]))
           <=> AllowsArgs(given) /\ AllowsKwargs(kwargs)
<1>1. ASSUME \A p \in Expected(given, kwargs) : Allows(p[1], p[2]), NEW i \in DOMAIN given
      PROVE  Allows(ArgType(given, i), given[i])
  <2>1. <<ArgType(given, i), given[i]>> \in Expected(given, kwargs)
    BY DEF Expected
  <2>. QED BY <1>1, <2>1
<1>2. ASSUME \A p \in Expected(given, kwargs) : Allows(p[1], p[2]), NEW k \in DOMAIN kwargs
      PROVE  Allows(KwargType(k), kwargs[k])
  <2>1. <<KwargType(k), kwargs[k]>> \in Expected(given, kwargs)
    BY DEF Expected
  <2>. QED BY <1>2, <2>1
<1>3. ASSUME AllowsArgs(given), AllowsKwargs(kwargs), NEW p \in Expected(given, kwargs)
      PROVE  Allows(p[1], p[2])
  <2>1. CASE \E i \in DOMAIN given : p = <<ArgType(given, i), given[i]>>
    BY <1>3, <2>1 DEF AllowsArgs
  <2>2. CASE \E k \in DOMAIN kwargs : p = <<KwargType(k), kwargs[k]>>
    BY <1>3, <2>2 DEF AllowsKwargs
  <2>. QED BY <2>1, <2>2 DEF Expected
<1>. QED BY <1>1, <1>2, <1>3 DEF AllowsArgs, AllowsKwargs

\* If no argument is too much or comes twice, each one is compared with the type
\* of the parameter that it has for Python, and nothing else is compared.
LEMMA ComparedIs ==
  ASSUME Ready, NEW U, NEW given \in Seq(U), NEW kwargs,
         Fits(given), NotTwice(given, kwargs), Known(kwargs)
  PROVE  Compared(given, kwargs) = Expected(given, kwargs)
<1>1. PICK L \in Nat, g \in Nat, n \in {Met(given)} : L = Len(Positional) /\ g = Len(given) /\ n = Met(given)
  BY Naming
<1>2. n = IF g <= L THEN g ELSE L
  BY <1>1, Naming
<1>3. n \in Nat /\ n <= g /\ DOMAIN given = 1..g
  BY <1>1, <1>2
<1>4. ToSet(More(given)) = {given[i] : i \in n + 1..g}
  BY <1>1, <1>3, SubSeqSet DEF More
<1>5. PICK V : program.vararg \in Seq(V) /\ program.kwarg \in Seq(V)
  BY ProgramFacts DEF Ready
<1>6. Len(program.vararg) <= 1 /\ Len(program.kwarg) <= 1
  BY ProgramAssumption DEF Ready
<1>7. \A s \in {program.vararg, program.kwarg} : s # <<>> => ToSet(s) = {s[1]}
  <2>1. ASSUME NEW s \in {program.vararg, program.kwarg}, s # <<>> PROVE ToSet(s) = {s[1]}
    <3>1. s \in Seq(V) /\ Len(s) <= 1
      BY <1>5, <1>6
    <3>2. Len(s) \in Nat /\ DOMAIN s = 1..Len(s) /\ (s = <<>> <=> Len(s) = 0)
      BY <3>1, SeqFacts
    <3>3. Len(s) = 1 /\ DOMAIN s = 1..1
      BY <2>1, <3>1, <3>2
    <3>. QED BY <3>3 DEF ToSet
  <2>. QED BY <2>1
<1>. DEFINE byArg == {<<Positional[i].ann, given[i]>> : i \in 1..n}
            byVararg == ToSet(program.vararg) \X ToSet(More(given))
            byName == {<<p.ann, kwargs[p.name]>> : p \in {q \in ByName(given) : q.name \in DOMAIN kwargs}}
            byKwarg == ToSet(program.kwarg) \X {kwargs[k] : k \in Rest(given, kwargs)}
<1>8. Compared(given, kwargs) = byArg \cup byVararg \cup byName \cup byKwarg
  BY <1>1 DEF Compared
<1>9. byVararg = {<<program.vararg[1], given[i]>> : i \in n + 1..g}
  <2>1. CASE g > L
    <3>1. ToSet(program.vararg) = {program.vararg[1]}
      BY <1>1, <1>7, <2>1 DEF Fits
    <3>. QED BY <1>4, <3>1
  <2>2. CASE g <= L
    <3>1. n + 1..g = {}
      BY <1>2, <2>2
    <3>. QED BY <1>4, <3>1
  <2>. QED BY <2>1, <2>2
<1>10. byArg \cup byVararg = {<<ArgType(given, i), given[i]>> : i \in DOMAIN given}
  <2>1. DOMAIN given = (1..n) \cup (n + 1..g)
    BY <1>3
  <2>2. \A i \in 1..n : ArgType(given, i) = Positional[i].ann
    BY <1>1, <1>3 DEF ArgType
  <2>3. \A i \in n + 1..g : ArgType(given, i) = program.vararg[1]
    BY <1>1, <1>3 DEF ArgType
  <2>4. byArg = {<<ArgType(given, i), given[i]>> : i \in 1..n}
    BY <2>2
  <2>5. byVararg = {<<ArgType(given, i), given[i]>> : i \in n + 1..g}
    BY <1>9, <2>3
  <2>. HIDE DEF byArg, byVararg
  <2>. QED BY <2>1, <2>4, <2>5
<1>11. ASSUME NEW k \in DOMAIN kwargs
       PROVE  k \in Rest(given, kwargs) <=> k \notin Names(Nameable)
  <2>1. k \in Rest(given, kwargs) <=> \A q \in ByName(given) : q.name # k
    BY ErrorsAre
  <2>2. CASE k \in Names(Nameable)
    <3>1. PICK q \in Nameable : q.name = k
      BY <2>2 DEF Names
    <3>2. q.name \notin Filled(given)
      BY <2>2, <3>1 DEF NotTwice
    <3>3. q \in ByName(given)
      BY <3>2, <1>1, Naming
    <3>. QED BY <2>1, <2>2, <3>1, <3>3
  <2>3. CASE k \notin Names(Nameable)
    <3>1. ByName(given) \subseteq Nameable
      BY <1>1, Naming
    <3>. QED BY <2>1, <2>3, <3>1 DEF Names
  <2>. QED BY <2>2, <2>3
<1>12. byName = {<<KwargType(k), kwargs[k]>> : k \in DOMAIN kwargs \cap Names(Nameable)}
  <2>1. ASSUME NEW p \in ByName(given), p.name \in DOMAIN kwargs
        PROVE  p.name \in Names(Nameable) /\ KwargType(p.name) = p.ann
    <3>1. p \in Nameable /\ Named(p.name) = p
      BY <1>1, Naming
    <3>. QED BY <3>1 DEF Names, KwargType
  <2>2. ASSUME NEW k \in DOMAIN kwargs \cap Names(Nameable)
        PROVE  \E p \in ByName(given) : p.name = k /\ KwargType(k) = p.ann
    <3>1. PICK q \in Nameable : q.name = k
      BY DEF Names
    <3>2. q.name \notin Filled(given)
      BY <3>1 DEF NotTwice
    <3>3. q \in ByName(given) /\ Named(q.name) = q
      BY <3>2, <1>1, Naming
    <3>. QED BY <3>1, <3>3 DEF KwargType
  <2>. QED BY <2>1, <2>2
<1>13. byKwarg = {<<KwargType(k), kwargs[k]>> : k \in DOMAIN kwargs \ Names(Nameable)}
  <2>1. Rest(given, kwargs) = DOMAIN kwargs \ Names(Nameable)
    <3>1. Rest(given, kwargs) \subseteq DOMAIN kwargs
      BY DEF Rest
    <3>. QED BY <1>11, <3>1
  <2>2. CASE DOMAIN kwargs \ Names(Nameable) = {}
    BY <2>1, <2>2
  <2>3. CASE DOMAIN kwargs \ Names(Nameable) # {}
    <3>1. ToSet(program.kwarg) = {program.kwarg[1]}
      BY <1>7, <2>3 DEF Known
    <3>2. \A k \in DOMAIN kwargs \ Names(Nameable) : KwargType(k) = program.kwarg[1]
      BY DEF KwargType
    <3>. QED BY <2>1, <3>1, <3>2
  <2>. QED BY <2>2, <2>3
<1>. HIDE DEF byArg, byVararg, byName, byKwarg
<1>14. byName \cup byKwarg = {<<KwargType(k), kwargs[k]>> : k \in DOMAIN kwargs}
  BY <1>12, <1>13
<1>15. Compared(given, kwargs) = {<<ArgType(given, i), given[i]>> : i \in DOMAIN given}
                                 \cup {<<KwargType(k), kwargs[k]>> : k \in DOMAIN kwargs}
  BY <1>8, <1>10, <1>14
<1>. QED BY <1>15 DEF Expected

\* What is compared are types that the program declares and passes.
LEMMA ComparedTypes ==
  ASSUME Ready, NEW given \in Seq(Passed(program)), NEW kwargs,
         \A k \in DOMAIN kwargs : kwargs[k] \in program.values
  PROVE  \A p \in Compared(given, kwargs) : p[1] \in Declared(program) /\ p[2] \in Passed(program)
<1>1. PICK U : Positional \in Seq(U) /\ program.posonly \in Seq(U) /\ program.args \in Seq(U)
  BY PositionalFacts DEF Ready
<1>2. PICK o \in Nat, b \in Nat : o = Len(program.posonly) /\ b = Len(program.args)
  BY <1>1
<1>3. Len(Positional) = o + b
  BY <1>2, PositionalFacts DEF Ready
<1>4. ToSet(program.posonly) \cup ToSet(program.args) \cup ToSet(program.kwonly)
      \subseteq ToSet(program.posonly \o program.args \o program.kwonly)
  BY ProgramFacts DEF Ready
<1>5. \A q \in ToSet(program.posonly) \cup ToSet(program.args) \cup ToSet(program.kwonly) :
        q.ann \in Declared(program)
  BY <1>4 DEF Declared
<1>6. \A i \in 1..o : program.posonly[i] \in ToSet(program.posonly)
  BY <1>1, <1>2, SeqFacts DEF ToSet
<1>7. \A i \in 1..b : program.args[i] \in ToSet(program.args)
  BY <1>1, <1>2, SeqFacts DEF ToSet
<1>8. ASSUME NEW i \in 1..Len(Positional) PROVE Positional[i].ann \in Declared(program)
  <2>1. CASE i <= o
    <3>1. i \in 1..o
      BY <1>2, <1>3, <2>1
    <3>2. Positional[i] = program.posonly[i]
      BY <3>1, <1>2, PositionalFacts DEF Ready
    <3>. QED BY <1>5, <1>6, <3>1, <3>2
  <2>2. CASE i > o
    <3>1. PICK j \in 1..b : i = o + j
      <4>1. i \in 1..o + b
        BY <1>3
      <4>2. i - o \in 1..b /\ i = o + (i - o)
        BY ONLY o \in Nat, b \in Nat, <2>2, <4>1
      <4>. QED BY <4>2
    <3>2. Positional[i] = argument[j]
      BY <3>1, <1>2, PositionalFacts DEF Ready
    <3>3. argument[j].ann = IF j = 1 /\ program.kind = "classmethod" THEN Type(Owner)
                            ELSE IF j = 1 /\ program.kind = "method" THEN Class(Owner)
                            ELSE program.args[j].ann
      BY <1>2, Refining DEF Ready
    <3>4. program.kind # "function" => {Class(Owner), Type(Owner)} \subseteq Declared(program)
      BY DEF Declared
    <3>5. program.args[j].ann \in Declared(program)
      BY <1>5, <1>7
    <3>. HIDE DEF Type, Class
    <3>. QED BY <3>2, <3>3, <3>4, <3>5
  <2>. QED BY <1>2, <2>1, <2>2
<1>9. Len(given) \in Nat /\ DOMAIN given = 1..Len(given)
      /\ \A i \in 1..Len(given) : given[i] \in Passed(program)
  BY SeqFacts
<1>10. /\ Met(given) = IF Len(given) <= Len(Positional) THEN Len(given) ELSE Len(Positional)
       /\ Len(Positional) \in Nat
       /\ ByName(given) = ToSet(program.kwonly) \cup
            {Positional[i] : i \in {j \in Met(given) + 1..Len(Positional) : j > Len(program.posonly)}}
  BY <1>9, Naming
<1>11. \A i \in 1..Met(given) : i \in 1..Len(given) /\ i \in 1..Len(Positional)
  BY <1>9, <1>10
<1>12. \A q \in ByName(given) : q.ann \in Declared(program)
  <2>1. \A i \in Met(given) + 1..Len(Positional) : i \in 1..Len(Positional)
    BY <1>9, <1>10
  <2>. QED BY <1>5, <1>8, <1>10, <2>1
<1>13. ToSet(More(given)) \subseteq Passed(program)
  <2>1. Met(given) \in Nat
    BY <1>9, <1>10
  <2>2. ToSet(More(given)) = {given[i] : i \in Met(given) + 1..Len(given)}
    BY <2>1, SubSeqSet DEF More
  <2>3. \A i \in Met(given) + 1..Len(given) : i \in 1..Len(given)
    BY <2>1, <1>9
  <2>. QED BY <1>9, <2>2, <2>3
<1>14. ToSet(program.vararg) \cup ToSet(program.kwarg) \subseteq Declared(program)
  BY DEF Declared
<1>15. program.values \subseteq Passed(program)
  BY DEF Passed
<1>16. ASSUME NEW p \in Compared(given, kwargs)
       PROVE  p[1] \in Declared(program) /\ p[2] \in Passed(program)
  <2>1. CASE p \in {<<Positional[i].ann, given[i]>> : i \in 1..Met(given)}
    BY <1>8, <1>9, <1>11, <2>1
  <2>2. CASE p \in ToSet(program.vararg) \X ToSet(More(given))
    BY <1>13, <1>14, <2>2
  <2>3. CASE p \in {<<q.ann, kwargs[q.name]>> : q \in {r \in ByName(given) : r.name \in DOMAIN kwargs}}
    BY <1>12, <1>15, <2>3
  <2>4. CASE p \in ToSet(program.kwarg) \X {kwargs[k] : k \in Rest(given, kwargs)}
    <3>1. Rest(given, kwargs) \subseteq DOMAIN kwargs
      BY DEF Rest
    <3>. QED BY <1>14, <1>15, <2>4, <3>1
  <2>. QED BY <2>1, <2>2, <2>3, <2>4 DEF Compared
<1>. QED BY <1>16

-----------------------------------------------------------------------------
(* One call *)

LEMMA AcceptedLegal ==
  ASSUME TypesAgree, Ready, ~SelfPosonly,
         NEW call, NEW given \in Seq(Passed(program)), given = Own(call) \o call.args,
         \A k \in DOMAIN call.kwargs : call.kwargs[k] \in program.values,
         MatchArgument(given, call.kwargs) = {},
         \A p \in Compared(given, call.kwargs) : ~Loose(p[1], p[2])
  PROVE  \/ Legal(call)
         \/ /\ program.kwarg # <<>>
            /\ \E i \in DOMAIN program.args : /\ Len(program.posonly) + i <= Len(given)
                                              /\ program.args[i].name \in DOMAIN call.kwargs
<1>1. PICK K : K = call.kwargs
  OBVIOUS
<1>14. Len(given) \in Nat
  OBVIOUS
<1>2. PICK L \in Nat, o \in Nat, g \in Nat, n \in {Met(given)} :
        L = Len(Positional) /\ o = Len(program.posonly) /\ n = Met(given) /\ g = Len(given)
  BY <1>14, Naming
<1>3. n = IF g <= L THEN g ELSE L
  BY <1>2, Naming
<1>4. n \in Nat /\ n <= L /\ n <= g
  BY <1>3
<1>5. /\ \A p \in {Positional[i] : i \in n + 1..L} \cup ToSet(program.kwonly) :
           p \in ByName(given) /\ p.name \in DOMAIN K
      /\ g > L => program.vararg # <<>>
      /\ Rest(given, K) # {} => program.kwarg # <<>>
      /\ \A p \in Compared(given, K) : Accepts(p[1], p[2])
  <2>1. "few" \notin MatchArgument(given, K) /\ "many" \notin MatchArgument(given, K)
        /\ "type" \notin MatchArgument(given, K)
    BY <1>1
  <2>. QED BY <1>2, <2>1, ErrorsAre
<1>6. \A k \in DOMAIN K : k \in Rest(given, K) <=> \A q \in ByName(given) : q.name # k
  BY ErrorsAre
<1>7. /\ ByName(given) \subseteq Nameable
      /\ \A q \in Nameable : q \in ByName(given) <=> q.name \notin Filled(given)
      /\ \A q \in Nameable, r \in Nameable : q.name = r.name => q = r
  BY <1>2, Naming
<1>8. Fits(given)
  BY <1>2, <1>5 DEF Fits
<1>9. Known(K)
  <2>1. \A k \in DOMAIN K \ Names(Nameable) : k \in Rest(given, K)
    BY <1>6, <1>7 DEF Names
  <2>. QED BY <1>5, <2>1 DEF Known
<1>10. Complete(given, K)
  <2>1. PICK V : Positional \in Seq(V)
    BY PositionalFacts DEF Ready
  <2>2. DOMAIN Positional = 1..L
    BY <1>2, <2>1
  <2>3. ASSUME NEW p \in {Positional[i] : i \in n + 1..L} \cup ToSet(program.kwonly)
        PROVE  p.name \in Names(Nameable) \cap DOMAIN K
    BY <1>5, <1>7 DEF Names
  <2>4. ASSUME NEW i \in DOMAIN Positional, i <= n PROVE Positional[i].name \in Filled(given)
    <3>1. i \in 1..n
      BY <1>4, <2>2, <2>4
    <3>. QED BY <1>2, <3>1 DEF Filled
  <2>5. \A i \in DOMAIN Positional : i <= n \/ i \in n + 1..L
    BY <1>4, <2>2
  <2>. QED BY <2>3, <2>4, <2>5 DEF Complete, ToSet
<1>11. CASE NotTwice(given, K)
  <2>1. Compared(given, K) = Expected(given, K)
    BY <1>8, <1>9, <1>11, ComparedIs
  <2>2. ASSUME NEW p \in Compared(given, K) PROVE Allows(p[1], p[2])
    <3>1. p[1] \in Declared(program) /\ p[2] \in Passed(program)
      BY <1>1, ComparedTypes
    <3>2. Accepts(p[1], p[2]) /\ ~Loose(p[1], p[2])
      BY <1>1, <1>5
    <3>. QED BY <3>1, <3>2 DEF TypesAgree, Ready
  <2>3. \A p \in Compared(given, K) : Allows(p[1], p[2])
    BY <2>2
  <2>4. AllowsArgs(given) /\ AllowsKwargs(K)
    BY <2>1, <2>3, ExpectedAllowed
  <2>. QED BY <1>1, <1>8, <1>9, <1>10, <1>11, <2>4, LegalIs
<1>12. CASE ~NotTwice(given, K)
  <2>1. PICK q \in Nameable : q.name \in DOMAIN K /\ q.name \in Filled(given)
    BY <1>12 DEF NotTwice, Names
  <2>2. q \notin ByName(given)
    BY <1>7, <2>1
  <2>3. q.name \in Rest(given, K)
    BY <1>6, <1>7, <2>1, <2>2
  <2>4. q \notin ToSet(program.kwonly)
    BY <1>2, <2>1, Naming
  <2>5. PICK j \in o + 1..L : q = Positional[j]
    BY <1>2, <2>4 DEF Nameable
  <2>6. j <= n
    <3>1. CASE j > n
      <4>1. j \in n + 1..L
        BY <1>2, <1>4, <3>1
      <4>. QED BY <1>2, <2>1, <2>5, <4>1, Naming
    <3>. QED BY <1>2, <1>4, <3>1
  <2>7. PICK b \in Nat : b = Len(program.args) /\ DOMAIN program.args = 1..b /\ L = o + b
    <3>1. PICK V : program.args \in Seq(V)
      BY PositionalFacts DEF Ready
    <3>2. Len(program.args) \in Nat /\ DOMAIN program.args = 1..Len(program.args)
      BY <3>1, SeqFacts
    <3>3. L = o + Len(program.args)
      BY <1>2, PositionalFacts DEF Ready
    <3>. QED BY <3>2, <3>3
  <2>8. PICK i \in 1..b : j = o + i
    <3>1. j \in o + 1..o + b
      BY <2>7
    <3>2. j - o \in 1..b /\ j = o + (j - o)
      BY ONLY o \in Nat, b \in Nat, <3>1
    <3>. QED BY <3>2
  <2>9. Positional[j] = argument[i] /\ argument[i].name = program.args[i].name
    BY <1>2, <2>7, <2>8, PositionalFacts, Refining DEF Ready
  <2>10. o + i <= g
    BY <1>2, <1>4, <2>6, <2>8
  <2>. QED BY <1>1, <1>2, <1>5, <2>1, <2>3, <2>5, <2>7, <2>9, <2>10
<1>. QED BY <1>11, <1>12

LEMMA ReportedIllegal ==
  ASSUME TypesAgree, Ready, ~SelfPosonly,
         NEW call, NEW given \in Seq(Passed(program)), given = Own(call) \o call.args,
         \A k \in DOMAIN call.kwargs : call.kwargs[k] \in program.values,
         Legal(call),
         \A p \in Compared(given, call.kwargs) : ~Strict(p[1], p[2]),
         \A p \in ToSet(program.kwonly) \cup
                  ToSet(SubSeq(program.posonly \o program.args, Len(given) + 1,
                               Len(program.posonly \o program.args))) :
           p.name \notin program.valid \ (DOMAIN call.kwargs \ Names(ToSet(program.posonly)))
  PROVE  MatchArgument(given, call.kwargs) = {}
<1>1. PICK K : K = call.kwargs
  OBVIOUS
<1>. DEFINE written == program.posonly \o program.args
<1>2. Len(given) \in Nat
  OBVIOUS
<1>3. PICK L \in Nat, o \in Nat, g \in Nat, n \in {Met(given)} :
        L = Len(Positional) /\ o = Len(program.posonly) /\ n = Met(given) /\ g = Len(given)
  BY <1>2, Naming
<1>4. n = IF g <= L THEN g ELSE L
  BY <1>3, Naming
<1>5. n \in Nat /\ n <= L /\ n <= g
  BY <1>4
<1>6. PICK V : /\ Positional \in Seq(V) /\ program.posonly \in Seq(V) /\ written \in Seq(V)
  BY PositionalFacts DEF Ready
<1>7. /\ Len(written) = L
      /\ \A i \in 1..L : Positional[i].name = written[i].name
      /\ \A i \in 1..o : Positional[i] = program.posonly[i]
  BY <1>3, PositionalFacts DEF Ready
<1>. HIDE DEF written
<1>8. /\ ByName(given) \subseteq Nameable
      /\ \A q \in Nameable : q \in ByName(given) <=> q.name \notin Filled(given)
      /\ \A q \in Nameable, r \in Nameable : q.name = r.name => q = r
  BY <1>3, Naming
<1>9. /\ \A i \in n + 1..L : Positional[i].name \notin Filled(given)
      /\ \A q \in ToSet(program.kwonly) : q.name \notin Filled(given)
  BY <1>3, Naming
<1>10. /\ Fits(given) /\ NotTwice(given, K) /\ Known(K)
       /\ Complete(given, K) /\ AllowsArgs(given) /\ AllowsKwargs(K)
  BY <1>1, LegalIs
<1>11. \A i \in 1..o : Positional[i].name \in Names(ToSet(program.posonly))
  <2>1. \A i \in 1..o : program.posonly[i] \in ToSet(program.posonly)
    BY <1>3, <1>6, SeqFacts DEF ToSet
  <2>. QED BY <1>7, <2>1 DEF Names
<1>12. ASSUME NEW p \in {Positional[i] : i \in n + 1..L} \cup ToSet(program.kwonly),
              p \in ByName(given) => p.name \notin DOMAIN K
       PROVE  FALSE
  <2>1. p.name \notin Filled(given)
    BY <1>9
  <2>2. p \in ToSet(Positional) \cup ToSet(program.kwonly)
    <3>1. DOMAIN Positional = 1..L /\ \A i \in n + 1..L : i \in 1..L
      BY <1>3, <1>5, <1>6, SeqFacts
    <3>. QED BY <3>1 DEF ToSet
  <2>3. p.name \in program.valid \/ p.name \in Names(Nameable) \cap DOMAIN K
    BY <1>10, <2>1, <2>2 DEF Complete
  <2>4. p.name \in DOMAIN K => p.name \in Names(ToSet(program.posonly))
    <3>1. CASE p \in ToSet(program.kwonly)
      BY <1>8, <1>12, <2>1, <3>1 DEF Nameable
    <3>2. CASE p \notin ToSet(program.kwonly)
      <4>1. PICK i \in n + 1..L : p = Positional[i]
        BY <3>2
      <4>2. CASE i <= o
        <5>1. i \in 1..o
          BY <1>3, <1>5, <4>2
        <5>. QED BY <1>11, <4>1, <5>1
      <4>3. CASE i > o
        <5>1. i \in o + 1..L
          BY <1>3, <1>5, <4>3
        <5>2. p \in Nameable
          BY <1>3, <4>1, <5>1 DEF Nameable
        <5>. QED BY <1>8, <1>12, <2>1, <5>2
      <4>. QED BY <1>3, <1>5, <4>2, <4>3
    <3>. QED BY <3>1, <3>2
  <2>5. p.name \notin Names(Nameable) \cap DOMAIN K
    <3>1. SUFFICES ASSUME p.name \in Names(Nameable), p.name \in DOMAIN K PROVE FALSE
      OBVIOUS
    <3>2. PICK q \in Nameable : q.name = p.name
      BY <3>1 DEF Names
    <3>3. q \in ByName(given)
      BY <1>8, <2>1, <3>2
    <3>4. q = p
      <4>1. CASE p \in ToSet(program.kwonly)
        BY <1>8, <3>2, <4>1 DEF Nameable
      <4>2. CASE p \notin ToSet(program.kwonly)
        <5>1. PICK i \in n + 1..L : p = Positional[i]
          BY <4>2
        <5>2. i \in 1..L
          BY <1>3, <1>5
        <5>3. Distinct(Positional, ToSet(program.kwonly))
          BY PositionalFacts DEF Ready
        <5>4. q \notin ToSet(program.kwonly)
          BY <1>3, <3>2, <5>1, <5>2, <5>3 DEF Distinct
        <5>5. PICK j \in o + 1..L : q = Positional[j]
          BY <1>3, <5>4 DEF Nameable
        <5>6. j \in 1..L
          BY <1>3
        <5>. QED BY <1>3, <3>2, <5>1, <5>2, <5>3, <5>5, <5>6 DEF Distinct
      <4>. QED BY <4>1, <4>2
    <3>. QED BY <1>12, <3>1, <3>3, <3>4
  <2>6. p.name \in program.valid \ (DOMAIN K \ Names(ToSet(program.posonly)))
    BY <2>3, <2>4, <2>5
  <2>7. \E q \in ToSet(program.kwonly) \cup ToSet(SubSeq(written, g + 1, Len(written))) :
          q.name = p.name
    <3>1. CASE p \in ToSet(program.kwonly)
      BY <3>1
    <3>2. CASE p \notin ToSet(program.kwonly)
      <4>1. PICK i \in n + 1..L : p = Positional[i]
        BY <3>2
      <4>2. i \in g + 1..L /\ i \in 1..L
        BY <1>3, <1>4, <1>5
      <4>3. ToSet(SubSeq(written, g + 1, Len(written))) = {written[k] : k \in g + 1..Len(written)}
        BY <1>6, SubSeqSet
      <4>4. written[i] \in ToSet(SubSeq(written, g + 1, Len(written)))
        BY <1>7, <4>2, <4>3
      <4>. QED BY <1>7, <4>1, <4>2, <4>4
    <3>. QED BY <3>1, <3>2
  <2>. QED BY <1>1, <1>3, <2>6, <2>7 DEF written
<1>13. ~(g > L /\ program.vararg = <<>>)
  BY <1>3, <1>10 DEF Fits
<1>14. ~(Rest(given, K) # {} /\ program.kwarg = <<>>)
  <2>1. SUFFICES ASSUME NEW k \in Rest(given, K), program.kwarg = <<>> PROVE FALSE
    OBVIOUS
  <2>2. k \in DOMAIN K
    BY DEF Rest
  <2>3. \A q \in ByName(given) : q.name # k
    BY <2>2, ErrorsAre
  <2>4. k \in Names(Nameable)
    BY <1>10, <2>1, <2>2 DEF Known
  <2>5. PICK q \in Nameable : q.name = k
    BY <2>4 DEF Names
  <2>6. q.name \in Filled(given)
    BY <1>8, <2>3, <2>5
  <2>. QED BY <1>10, <2>2, <2>4, <2>5, <2>6 DEF NotTwice
<1>15. \A p \in Compared(given, K) : Accepts(p[1], p[2])
  <2>1. Compared(given, K) = Expected(given, K)
    BY <1>10, ComparedIs
  <2>2. \A p \in Compared(given, K) : Allows(p[1], p[2])
    BY <1>10, <2>1, ExpectedAllowed
  <2>3. ASSUME NEW p \in Compared(given, K) PROVE Accepts(p[1], p[2])
    <3>1. p[1] \in Declared(program) /\ p[2] \in Passed(program)
      BY <1>1, ComparedTypes
    <3>2. Allows(p[1], p[2]) /\ ~Strict(p[1], p[2])
      BY <1>1, <2>2
    <3>. QED BY <3>1, <3>2 DEF TypesAgree, Ready
  <2>. QED BY <2>3
<1>16. /\ MatchArgument(given, K) \subseteq {"few", "many", "type"}
       /\ "few" \notin MatchArgument(given, K)
       /\ "many" \notin MatchArgument(given, K)
       /\ "type" \notin MatchArgument(given, K)
  <2>1. MatchArgument(given, K) \subseteq {"few", "many", "type"}
    BY ErrorsAre
  <2>2. "few" \notin MatchArgument(given, K)
    BY <1>3, <1>12, ErrorsAre
  <2>3. "many" \notin MatchArgument(given, K)
    BY <1>3, <1>13, <1>14, ErrorsAre
  <2>4. "type" \notin MatchArgument(given, K)
    BY <1>15, ErrorsAre
  <2>. QED BY <2>1, <2>2, <2>3, <2>4
<1>. QED BY <1>1, <1>16

-----------------------------------------------------------------------------
(* The inductive invariant *)

KwargSet == UNION {[D -> program.values] : D \in SUBSET program.keywords}
CallSet ==
  [receiver : through, args : Seq(program.values \cup {program.ret}), kwargs : KwargSet]

\* What self_bind may be.
Binds ==
  {<<>>} \cup IF program.kind \in {"method", "classmethod"}
              THEN {<<Class(Owner)>>, <<Class(Heir)>>} ELSE {}

\* While a method is used in one way only, a type is bound or none, accordingly.
Uniform(bind) ==
  program.kind = "method" /\ argument # <<>> =>
    /\ through \subseteq {Type(Owner)} => bind = <<>>
    /\ through # {} /\ (\A r \in through : r.kind = "class") => bind # <<>>

\* Nothing is accessed before the function is defined.
Idle ==
  phase # "infer" => open = <<>> /\ last = Nothing /\ selfBind = <<>> /\ through = {}
Defined ==
  /\ program \in Programs
  /\ phase = "define" => argument = program.args
  /\ phase = "infer" => Ready

Recorded ==
  last # Nothing =>
    /\ last.call \in CallSet /\ last.bound \in Binds /\ Uniform(last.bound)
    /\ last.errors = MatchArgument(last.bound \o last.call.args, last.call.kwargs)

CallsInv ==
  /\ Defined /\ Idle /\ Recorded
  /\ open \in Seq(CallSet) /\ through \subseteq Receivers
  /\ selfBind \in Binds /\ Uniform(selfBind)

LEMMA Initially == Init => CallsInv
<1>. SUFFICES ASSUME Init PROVE CallsInv
  OBVIOUS
<1>1. Defined /\ Idle /\ Recorded
  BY DEF Init, Defined, Idle, Recorded
<1>2. open \in Seq(CallSet) /\ through \subseteq Receivers
  BY DEF Init
<1>3. selfBind \in Binds /\ Uniform(selfBind)
  BY DEF Init, Binds, Uniform
<1>. QED BY <1>1, <1>2, <1>3 DEF CallsInv

\* What the program is and what it was called with before does not change.
LEMMA MatchSame ==
  ASSUME program' = program, argument' = argument, NEW given, NEW kwargs
  PROVE  MatchArgument(given, kwargs)' = MatchArgument(given, kwargs)
<1>1. Positional' = Positional
  BY DEF Positional
<1>2. Met(given)' = Met(given)
  BY <1>1 DEF Met
<1>3. More(given)' = More(given) /\ ByName(given)' = ByName(given)
  BY <1>1, <1>2 DEF More, ByName
<1>4. Rest(given, kwargs)' = Rest(given, kwargs)
  BY <1>3 DEF Rest
<1>5. Compared(given, kwargs)' = Compared(given, kwargs)
  BY <1>1, <1>2, <1>3, <1>4 DEF Compared
<1>. QED BY <1>1, <1>2, <1>3, <1>4, <1>5 DEF MatchArgument

LEMMA LastFront ==
  ASSUME NEW S, NEW s \in Seq(S), s # <<>>
  PROVE  /\ Len(s) \in Nat \ {0} /\ DOMAIN s = 1..Len(s)
         /\ Last(s) = s[Len(s)] /\ Last(s) \in S
         /\ Front(s) \in Seq(S) /\ Len(Front(s)) = Len(s) - 1
<1>1. Len(s) \in Nat /\ DOMAIN s = 1..Len(s) /\ (\A i \in 1..Len(s) : s[i] \in S) /\ Len(s) # 0
  BY SeqFacts
<1>2. Last(s) = s[Len(s)]
  BY DEF Last
<1>3. Front(s) \in Seq(S) /\ Len(Front(s)) = Len(s) - 1
  <2>1. \A i \in 1..Len(s) - 1 : s[i] \in S
    BY <1>1
  <2>2. Front(s) = SubSeq(s, 1, Len(s) - 1)
    BY DEF Front
  <2>. QED BY <1>1, <2>1, <2>2, SubSeqProperties
<1>. QED BY <1>1, <1>2, <1>3

\* The last call gets another argument.
LEMMA Given ==
  ASSUME NEW R, NEW V, NEW K,
         NEW s \in Seq([receiver : R, args : Seq(V), kwargs : K]), s # <<>>, NEW v \in V
  PROVE  [s EXCEPT ![Len(s)].args = Append(@, v)]
         \in Seq([receiver : R, args : Seq(V), kwargs : K])
<1>1. PICK C : C = [receiver : R, args : Seq(V), kwargs : K]
  OBVIOUS
<1>2. PICK n \in Nat : n = Len(s) /\ n # 0 /\ DOMAIN s = 1..n /\ s[n] \in C /\ s \in [1..n -> C]
  <2>1. Len(s) \in Nat \ {0} /\ DOMAIN s = 1..Len(s) /\ s[Len(s)] \in C
    BY <1>1, LastFront
  <2>3. s \in Seq(C)
    BY <1>1
  <2>2. s \in [1..Len(s) -> C]
    BY ONLY <2>3, LenProperties
  <2>. QED BY <2>1, <2>2
<1>3. Append(s[n].args, v) \in Seq(V)
  BY <1>1, <1>2, AppendProperties
<1>4. PICK c : c = [s[n] EXCEPT !.args = Append(s[n].args, v)]
  OBVIOUS
<1>5. c \in C
  BY <1>1, <1>2, <1>3, <1>4
<1>6. [s EXCEPT ![n].args = Append(@, v)] = [s EXCEPT ![n] = c]
  BY <1>2, <1>4
<1>7. [s EXCEPT ![n] = c] \in [1..n -> C]
  BY <1>2, <1>5
<1>8. [s EXCEPT ![n] = c] \in Seq(C)
  BY ONLY <1>7, n \in Nat, FunctionSeq
<1>. QED BY <1>1, <1>2, <1>6, <1>8

\* After one more access the calls so far are still of the same kind.
LEMMA CallSetGrows ==
  ASSUME program' = program, through \subseteq through'
  PROVE  CallSet \subseteq CallSet'
BY DEF CallSet, KwargSet

LEMMA ReceiverFacts ==
  ASSUME NEW r \in Receivers
  PROVE  /\ r.kind = "class" => r \in {Class(Owner), Class(Heir)} /\ BindOf(r) = <<r>>
         /\ r = Type(Owner) => BindOf(r) = <<>>
         /\ program.kind # "function" =>
              BindOf(r) \in {<<>>, <<Class(Owner)>>, <<Class(Heir)>>}
         /\ NoCall.args = <<>> /\ NoCall.kwargs = <<>>
<1>1. Owner # Heir
  BY ProgramAssumption
<1>2. /\ AnyIns.kind = "any" /\ \A c : Class(c).kind = "class" /\ Type(c).kind = "type"
      /\ Type(Owner) # Type(Heir)
  BY <1>1 DEF AnyIns, Class, Type, Ins
<1>3. r \in {AnyIns, Class(Owner), Class(Heir), Type(Owner), Type(Heir)}
      /\ (program.kind # "function" => r # AnyIns \/ r.kind = "class")
  BY <1>2 DEF Receivers, AnyIns, Class, Type, Ins
<1>4. BindOf(r) = IF r.kind = "class" THEN <<r>>
                  ELSE IF r = Type(Heir) THEN <<Class(Owner)>> ELSE <<>>
  <2>. HIDE DEF Class, Type
  <2>1. CASE r.kind = "class"
    BY <1>2, <2>1 DEF BindOf
  <2>2. CASE r.kind # "class" /\ r = Type(Heir)
    BY <2>2 DEF BindOf
  <2>3. CASE r.kind # "class" /\ r # Type(Heir)
    BY <2>3 DEF BindOf
  <2>. QED BY <2>1, <2>2, <2>3
<1>5. r.kind = "class" => r \in {Class(Owner), Class(Heir)}
  BY <1>2, <1>3
<1>6. NoCall.args = <<>> /\ NoCall.kwargs = <<>>
  BY DEF NoCall
<1>7. r = Type(Owner) => BindOf(r) = <<>>
  BY <1>2, <1>4
<1>. HIDE DEF Class, Type
<1>. QED BY <1>4, <1>5, <1>6, <1>7

LEMMA StepDefine == CallsInv /\ (Define \/ DefineRaises) => CallsInv'
<1>. SUFFICES ASSUME CallsInv, Define \/ DefineRaises PROVE CallsInv'
  OBVIOUS
<1>1. /\ phase = "define" /\ argument = program.args /\ program \in Programs
      /\ open = <<>> /\ last = Nothing /\ selfBind = <<>> /\ through = {}
  BY DEF CallsInv, Defined, Idle, Define, DefineRaises
<1>2. program' = program /\ open' = <<>> /\ last' = Nothing /\ selfBind' = <<>> /\ through' = {}
  BY <1>1 DEF Define, DefineRaises
<1>3. Defined'
  <2>1. CASE Define
    <3>1. argument' = Refined(program)
      BY <1>1, <2>1 DEF Define, Refined
    <3>2. Refined(program)' = Refined(program)
      BY <1>2 DEF Refined
    <3>3. program.kind = "classmethod" => program.args # <<>>
      BY <1>1, <2>1 DEF Define
    <3>4. phase' = "infer"
      BY <2>1 DEF Define
    <3>. HIDE DEF Refined
    <3>. QED BY <1>1, <1>2, <3>1, <3>2, <3>3, <3>4 DEF Defined, Ready
  <2>2. CASE DefineRaises
    <3>1. phase' = "failed"
      BY <2>2 DEF DefineRaises
    <3>. QED BY <1>1, <1>2, <3>1 DEF Defined
  <2>. QED BY <2>1, <2>2
<1>4. Idle' /\ Recorded'
  BY <1>2 DEF Idle, Recorded, Nothing, NoCall
<1>5. open' \in Seq(CallSet') /\ through' \subseteq Receivers'
  BY <1>2
<1>6. selfBind' \in Binds' /\ Uniform(selfBind)'
  BY <1>2 DEF Binds, Uniform
<1>. QED BY <1>3, <1>4, <1>5, <1>6 DEF CallsInv

LEMMA StepAccess ==
  ASSUME NEW r \in Receivers
  PROVE  CallsInv /\ Access(r) => CallsInv'
<1>. SUFFICES ASSUME CallsInv, Access(r) PROVE CallsInv'
  OBVIOUS
<1>1. /\ program' = program /\ argument' = argument /\ phase' = phase /\ phase = "infer"
      /\ through' = through \cup {r} /\ last' = Nothing
      /\ selfBind' = IF IsBound /\ BindOf(r) # <<>> THEN BindOf(r) ELSE selfBind
  BY DEF Access
<1>2. open' = Append(open, [NoCall EXCEPT !.receiver = r])
  BY DEF Access
<1>3. PICK S : S = CallSet'
  OBVIOUS
<1>4. open \in Seq(S)
  <2>1. open \in Seq(CallSet)
    BY DEF CallsInv
  <2>2. CallSet \subseteq S
    BY <1>1, <1>3, CallSetGrows
  <2>. QED BY ONLY <2>1, <2>2, Widen
<1>5. [NoCall EXCEPT !.receiver = r] \in S
  <2>1. [NoCall EXCEPT !.receiver = r] = [receiver |-> r, args |-> <<>>, kwargs |-> <<>>]
    BY DEF NoCall
  <2>2. r \in through'
    BY <1>1
  <2>3. <<>> \in Seq(program'.values \cup {program'.ret})
    OBVIOUS
  <2>4. <<>> \in KwargSet'
    <3>1. <<>> \in [{} -> program.values]
      OBVIOUS
    <3>. QED BY <1>1, <3>1 DEF KwargSet
  <2>. QED BY <1>3, <2>1, <2>2, <2>3, <2>4 DEF CallSet
<1>6. open' \in Seq(S)
  BY <1>2, <1>4, <1>5, AppendProperties
<1>7. Defined' /\ Idle' /\ Recorded'
  <2>1. Ready' <=> Ready
    BY <1>1 DEF Ready, Refined
  <2>2. Defined
    BY DEF CallsInv
  <2>. QED BY <1>1, <2>1, <2>2 DEF Defined, Idle, Recorded
<1>8. through' \subseteq Receivers'
  <2>1. Receivers' = Receivers
    BY <1>1 DEF Receivers
  <2>. QED BY <1>1, <2>1 DEF CallsInv
<1>9. selfBind' \in Binds'
  <2>1. Binds' = Binds
    BY <1>1 DEF Binds
  <2>2. CASE IsBound /\ BindOf(r) # <<>>
    <3>1. program.kind \in {"method", "classmethod"}
      BY <2>2 DEF IsBound
    <3>2. BindOf(r) \in {<<>>, <<Class(Owner)>>, <<Class(Heir)>>}
      BY <3>1, ReceiverFacts
    <3>3. BindOf(r) \in Binds
      BY <3>1, <3>2 DEF Binds
    <3>. QED BY <1>1, <2>1, <2>2, <3>3
  <2>3. CASE ~(IsBound /\ BindOf(r) # <<>>)
    <3>1. selfBind \in Binds
      BY DEF CallsInv
    <3>. QED BY <1>1, <2>1, <2>3, <3>1
  <2>. QED BY <2>2, <2>3
<1>10. Uniform(selfBind)'
  <2>1. SUFFICES ASSUME program.kind = "method", argument # <<>>
                 PROVE  /\ through' \subseteq {Type(Owner)} => selfBind' = <<>>
                        /\ (\A q \in through' : q.kind = "class") => selfBind' # <<>>
    BY <1>1 DEF Uniform
  <2>2. IsBound
    BY <2>1 DEF IsBound
  <2>3. CASE through' \subseteq {Type(Owner)}
    <3>1. r = Type(Owner) /\ through \subseteq {Type(Owner)}
      BY <1>1, <2>3
    <3>2. BindOf(r) = <<>>
      BY <3>1, ReceiverFacts
    <3>3. selfBind = <<>>
      BY <2>1, <3>1 DEF CallsInv, Uniform
    <3>4. r.kind # "class"
      BY <3>1 DEF Type, Ins
    <3>. QED BY <1>1, <3>2, <3>3, <3>4
  <2>4. CASE \A q \in through' : q.kind = "class"
    <3>1. r.kind = "class"
      BY <1>1, <2>4
    <3>2. BindOf(r) = <<r>>
      BY <3>1, ReceiverFacts
    <3>3. selfBind' = <<r>>
      BY <1>1, <2>2, <3>2
    <3>4. ~(through' \subseteq {Type(Owner)})
      <4>1. r \in through' /\ r # Type(Owner)
        BY <1>1, <3>1 DEF Type, Ins
      <4>. QED BY <4>1
    <3>. QED BY <3>3, <3>4
  <2>. QED BY <2>3, <2>4
<1>. QED BY <1>3, <1>6, <1>7, <1>8, <1>9, <1>10 DEF CallsInv

CallsOf(R, A, N, V) ==
  Seq([receiver : R, args : A, kwargs : UNION {[D -> V] : D \in SUBSET N}])
WithKwarg(s, n, v) == [s EXCEPT ![Len(s)].kwargs = With(@, n, v)]

LEMMA GivenKwarg ==
  ASSUME NEW R, NEW A, NEW V, NEW N, NEW s \in CallsOf(R, A, N, V), s # <<>>, NEW n \in N, NEW v \in V
  PROVE  WithKwarg(s, n, v) \in CallsOf(R, A, N, V)
<1>1. PICK K : K = UNION {[D -> V] : D \in SUBSET N}
  OBVIOUS
<1>2. PICK C : C = [receiver : R, args : A, kwargs : K]
  OBVIOUS
<1>3. s \in Seq(C)
  BY <1>1, <1>2 DEF CallsOf
<1>4. PICK m \in Nat : m = Len(s) /\ DOMAIN s = 1..m /\ s[m] \in C /\ m # 0 /\ s \in [1..m -> C]
  <2>1. Len(s) \in Nat \ {0} /\ DOMAIN s = 1..Len(s) /\ s[Len(s)] \in C
    BY <1>3, LastFront
  <2>2. s \in [1..Len(s) -> C]
    BY ONLY <1>3, LenProperties
  <2>. QED BY <2>1, <2>2
<1>5. PICK f : f = s[m].kwargs
  OBVIOUS
<1>6. With(f, n, v) \in K
  <2>1. PICK D \in SUBSET N : f \in [D -> V]
    BY <1>1, <1>2, <1>4, <1>5
  <2>2. With(f, n, v) \in [D \cup {n} -> V]
    BY <2>1 DEF With
  <2>. QED BY <1>1, <2>2
<1>7. PICK c : c = [s[m] EXCEPT !.kwargs = With(f, n, v)]
  OBVIOUS
<1>8. c \in C
  BY <1>2, <1>4, <1>6, <1>7
<1>9. [s EXCEPT ![m].kwargs = With(@, n, v)] = [s EXCEPT ![m] = c]
  BY <1>4, <1>5, <1>7
<1>10. [s EXCEPT ![m] = c] \in [1..m -> C]
  BY <1>4, <1>8
<1>11. [s EXCEPT ![m] = c] \in Seq(C)
  BY ONLY <1>10, m \in Nat, FunctionSeq
<1>. QED BY <1>1, <1>2, <1>4, <1>9, <1>11 DEF WithKwarg, CallsOf

LEMMA StepArguments ==
  ASSUME NEW t \in program.values
  PROVE  CallsInv /\ (AddArg(t) \/ \E n \in program.keywords : AddKwarg(n, t)) => CallsInv'
<1>. SUFFICES ASSUME CallsInv, AddArg(t) \/ \E n \in program.keywords : AddKwarg(n, t)
              PROVE  CallsInv'
  OBVIOUS
<1>1. /\ program' = program /\ argument' = argument /\ phase' = phase
      /\ through' = through /\ selfBind' = selfBind /\ last' = Nothing /\ open # <<>>
  BY DEF AddArg, AddKwarg
<1>2. open \in Seq([receiver : through, args : Seq(program.values \cup {program.ret}),
                    kwargs : UNION {[D -> program.values] : D \in SUBSET program.keywords}])
  BY DEF CallsInv, CallSet, KwargSet
<1>3. open' \in Seq([receiver : through, args : Seq(program.values \cup {program.ret}),
                     kwargs : UNION {[D -> program.values] : D \in SUBSET program.keywords}])
  <2>1. CASE AddArg(t)
    <3>1. open' = [open EXCEPT ![Len(open)].args = Append(@, t)]
      BY <2>1 DEF AddArg
    <3>2. t \in program.values \cup {program.ret}
      OBVIOUS
    <3>. QED BY <1>1, <1>2, <3>1, <3>2, Given
  <2>2. CASE \E n \in program.keywords : AddKwarg(n, t)
    <3>1. PICK n \in program.keywords : open' = [open EXCEPT ![Len(open)].kwargs = With(@, n, t)]
      BY <2>2 DEF AddKwarg
    <3>2. open' = WithKwarg(open, n, t)
      BY <3>1 DEF WithKwarg
    <3>3. open \in CallsOf(through, Seq(program.values \cup {program.ret}), program.keywords, program.values)
      BY <1>2 DEF CallsOf
    <3>4. open' \in CallsOf(through, Seq(program.values \cup {program.ret}), program.keywords, program.values)
      BY <1>1, <3>2, <3>3, GivenKwarg
    <3>. QED BY <3>4 DEF CallsOf
  <2>. QED BY <2>1, <2>2
<1>4. open' \in Seq(CallSet')
  BY <1>1, <1>3 DEF CallSet, KwargSet
<1>5. phase = "infer"
  BY <1>1 DEF CallsInv, Idle
<1>6. Defined' /\ Idle' /\ Recorded'
  <2>1. Ready' <=> Ready
    BY <1>1 DEF Ready, Refined
  <2>2. Defined
    BY DEF CallsInv
  <2>. QED BY <1>1, <1>5, <2>1, <2>2 DEF Defined, Idle, Recorded
<1>7. /\ through' \subseteq Receivers' /\ selfBind' \in Binds' /\ Uniform(selfBind)'
  <2>1. Receivers' = Receivers /\ Binds' = Binds
    BY <1>1 DEF Receivers, Binds
  <2>2. Uniform(selfBind)
    BY DEF CallsInv
  <2>3. Uniform(selfBind)'
    BY <1>1, <2>2 DEF Uniform
  <2>. QED BY <1>1, <2>1, <2>3 DEF CallsInv
<1>. QED BY <1>4, <1>6, <1>7 DEF CallsInv

LEMMA StepCall == CallsInv /\ Call => CallsInv'
<1>. SUFFICES ASSUME CallsInv, Call PROVE CallsInv'
  OBVIOUS
<1>1. /\ program' = program /\ argument' = argument /\ phase' = phase
      /\ through' = through /\ selfBind' = selfBind /\ open # <<>>
  BY DEF Call
<1>2. open \in Seq(CallSet)
  BY DEF CallsInv
<1>3. Last(open) \in CallSet /\ Front(open) \in Seq(CallSet)
  BY <1>1, <1>2, LastFront
<1>4. last' = [call |-> Last(open), bound |-> selfBind,
               errors |-> MatchArgument(selfBind \o Last(open).args, Last(open).kwargs)]
  BY DEF Call
<1>5. open' = IF Front(open) = <<>> THEN <<>>
              ELSE [Front(open) EXCEPT ![Len(Front(open))].args = Append(@, program.ret)]
  BY DEF Call
<1>6. CallSet' = CallSet
  BY <1>1 DEF CallSet, KwargSet
<1>7. open' \in Seq(CallSet)
  <2>1. CASE Front(open) = <<>>
    BY <1>5, <2>1
  <2>2. CASE Front(open) # <<>>
    <3>1. PICK s : s = Front(open)
      OBVIOUS
    <3>2. s \in Seq([receiver : through, args : Seq(program.values \cup {program.ret}),
                     kwargs : KwargSet]) /\ s # <<>>
      BY <1>3, <2>2, <3>1 DEF CallSet
    <3>3. program.ret \in program.values \cup {program.ret}
      OBVIOUS
    <3>4. [s EXCEPT ![Len(s)].args = Append(@, program.ret)]
          \in Seq([receiver : through, args : Seq(program.values \cup {program.ret}),
                   kwargs : KwargSet])
      BY ONLY <3>2, <3>3, Given
    <3>. QED BY <1>5, <2>2, <3>1, <3>4 DEF CallSet
  <2>. QED BY <2>1, <2>2
<1>8. phase = "infer"
  BY <1>1 DEF CallsInv, Idle
<1>9. Defined' /\ Idle'
  <2>1. Ready' <=> Ready
    BY <1>1 DEF Ready, Refined
  <2>2. Defined
    BY DEF CallsInv
  <2>. QED BY <1>1, <1>8, <2>1, <2>2 DEF Defined, Idle
<1>10. /\ through' \subseteq Receivers' /\ selfBind \in Binds' /\ Uniform(selfBind)'
  <2>1. Receivers' = Receivers /\ Binds' = Binds
    BY <1>1 DEF Receivers, Binds
  <2>2. Uniform(selfBind)
    BY DEF CallsInv
  <2>3. Uniform(selfBind)'
    BY <1>1, <2>2 DEF Uniform
  <2>. QED BY <1>1, <2>1, <2>3 DEF CallsInv
<1>11. Recorded'
  <2>1. PICK call, bound : call = Last(open) /\ bound = selfBind
    OBVIOUS
  <2>2. last' = [call |-> call, bound |-> bound,
                 errors |-> MatchArgument(bound \o call.args, call.kwargs)]
    BY <1>4, <2>1
  <2>3. /\ last'.call = call /\ last'.bound = bound
        /\ last'.errors = MatchArgument(bound \o call.args, call.kwargs)
    BY <2>2
  <2>4. MatchArgument(bound \o call.args, call.kwargs)' = MatchArgument(bound \o call.args, call.kwargs)
    BY <1>1, MatchSame
  <2>5. last'.call \in CallSet' /\ last'.bound \in Binds'
    BY <1>3, <1>6, <1>10, <2>1, <2>3
  <2>6. Uniform(bound)'
    BY <1>1, <1>10, <2>1 DEF Uniform
  <2>. QED BY <2>3, <2>4, <2>5, <2>6 DEF Recorded, Uniform
<1>. QED BY <1>1, <1>6, <1>7, <1>9, <1>10, <1>11 DEF CallsInv

THEOREM CallsInvariant == Spec => []CallsInv
<1>1. CallsInv /\ [Next]_vars => CallsInv'
  <2>1. CASE CallsInv /\ UNCHANGED vars
    <3>1. /\ program' = program /\ argument' = argument /\ phase' = phase /\ open' = open
          /\ through' = through /\ selfBind' = selfBind /\ last' = last
      BY <2>1 DEF vars
    <3>2. /\ CallSet' = CallSet /\ Binds' = Binds /\ Receivers' = Receivers /\ (Ready' <=> Ready)
      BY <3>1 DEF CallSet, KwargSet, Binds, Receivers, Ready, Refined
    <3>3. Defined' /\ Idle'
      BY <2>1, <3>1, <3>2 DEF CallsInv, Defined, Idle
    <3>4. Uniform(selfBind)'
      BY <2>1, <3>1 DEF CallsInv, Uniform
    <3>5. Recorded'
      <4>1. PICK given, kwargs, bound :
              /\ given = last.bound \o last.call.args /\ kwargs = last.call.kwargs
              /\ bound = last.bound
        OBVIOUS
      <4>2. MatchArgument(given, kwargs)' = MatchArgument(given, kwargs)
        BY <3>1, MatchSame
      <4>3. Uniform(bound) => Uniform(bound)'
        BY <3>1 DEF Uniform
      <4>. QED BY <2>1, <3>1, <3>2, <4>1, <4>2, <4>3 DEF CallsInv, Recorded, Uniform
    <3>. QED BY <2>1, <3>1, <3>2, <3>3, <3>4, <3>5 DEF CallsInv
  <2>. QED BY <2>1, StepDefine, StepAccess, StepArguments, StepCall DEF Next
<1>. QED BY <1>1, Initially, PTL DEF Spec

-----------------------------------------------------------------------------
(* The properties *)

\* Every instance is accepted as self.
LEMMA SelfAccepted ==
  ASSUME Ready, program.kind = "method", argument # <<>>,
         NEW r \in {Class(Owner), Class(Heir)}
  PROVE  Len(Positional) >= 1 /\ Accepts(Positional[1].ann, r)
<1>1. PICK U : /\ Positional \in Seq(U) /\ program.posonly \in Seq(U) /\ program.args \in Seq(U)
               /\ program.posonly \o program.args \in Seq(U)
  BY PositionalFacts DEF Ready
<1>2. PICK V : argument \in Seq(V)
  BY Refining DEF Ready
<1>3. PICK o \in Nat, b \in Nat : o = Len(program.posonly) /\ b = Len(program.args)
  BY <1>1
<1>4. Len(Positional) = o + b /\ Len(argument) = b
  BY <1>3, PositionalFacts, Refining DEF Ready
<1>5. b >= 1
  BY <1>2, <1>3, <1>4, SeqFacts
<1>6. Accepts(Class(Owner), r)
  BY ProgramAssumption
<1>9. o + b >= 1
  BY ONLY o \in Nat, b \in Nat, <1>5
<1>10. Len(Positional) >= 1
  BY ONLY <1>4, <1>9
<1>7. CASE o = 0
  <2>1. 1 \in 1..Len(program.args) /\ Len(program.posonly) + 1 = 1
    BY <1>3, <1>5, <1>7
  <2>2. Positional[1] = argument[1]
    BY <2>1, PositionalFacts DEF Ready
  <2>3. argument[1].ann = Class(Owner)
    BY <2>1, Refining DEF Ready
  <2>. QED BY <1>6, <1>10, <2>2, <2>3
<1>8. CASE o >= 1
  <2>1. PICK w, P : w = program.posonly \o program.args /\ P = program.posonly
    OBVIOUS
  <2>5. 1 \in 1..o /\ 1 \in 1..o + b
    BY ONLY o \in Nat, b \in Nat, <1>8
  <2>2. w[1] = P[1] /\ 1 \in DOMAIN w
    <3>1. /\ Len(w) = o + b /\ w \in Seq(U)
          /\ \A i \in 1..o + b : w[i] = IF i <= o THEN P[i] ELSE program.args[i - o]
      BY <1>1, <1>3, <2>1, ConcatProperties
    <3>2. DOMAIN w = 1..o + b
      BY <3>1, SeqFacts
    <3>3. w[1] = IF 1 <= o THEN P[1] ELSE program.args[1 - o]
      BY <2>5, <3>1
    <3>. QED BY <1>8, <2>5, <3>2, <3>3
  <2>3. Accepts(w[1].ann, r)
    BY <2>1, <2>2, ProgramAssumption DEF Ready
  <2>4. Positional[1] = P[1]
    <3>1. 1 \in 1..Len(program.posonly)
      BY <1>3, <2>5
    <3>. QED BY <2>1, <3>1, PositionalFacts DEF Ready
  <2>. QED BY <1>10, <2>2, <2>3, <2>4
<1>. QED BY <1>3, <1>7, <1>8

\* It makes no difference which instance is bound.
LEMMA AnyInstance ==
  ASSUME Ready, program.kind = "method", argument # <<>>,
         NEW r \in {Class(Owner), Class(Heir)}, NEW s \in {Class(Owner), Class(Heir)},
         NEW U, NEW a \in Seq(U), NEW kwargs
  PROVE  MatchArgument(<<r>> \o a, kwargs) \subseteq MatchArgument(<<s>> \o a, kwargs)
<1>1. PICK V : V = U \cup {r, s}
  OBVIOUS
<1>2. PICK g, h : g = <<r>> \o a /\ h = <<s>> \o a
  OBVIOUS
<1>3. PICK l \in Nat : l = Len(a)
  OBVIOUS
<1>4. /\ g \in Seq(V) /\ Len(g) = l + 1 /\ h \in Seq(V) /\ Len(h) = l + 1
      /\ g[1] = r /\ \A i \in 2..l + 1 : g[i] = h[i]
  <2>1. <<r>> \in Seq(V) /\ <<s>> \in Seq(V) /\ a \in Seq(V)
    <3>1. U \subseteq V
      BY <1>1
    <3>. QED BY <1>1, <3>1, Widen
  <2>2. /\ g \in Seq(V) /\ Len(g) = Len(<<r>>) + l
        /\ \A i \in 1..Len(<<r>>) + l : g[i] = IF i <= Len(<<r>>) THEN <<r>>[i] ELSE a[i - Len(<<r>>)]
    BY <1>2, <1>3, <2>1, ConcatProperties
  <2>3. /\ h \in Seq(V) /\ Len(h) = Len(<<s>>) + l
        /\ \A i \in 1..Len(<<s>>) + l : h[i] = IF i <= Len(<<s>>) THEN <<s>>[i] ELSE a[i - Len(<<s>>)]
    BY <1>2, <1>3, <2>1, ConcatProperties
  <2>4. Len(<<r>>) = 1 /\ Len(<<s>>) = 1 /\ <<r>>[1] = r
    OBVIOUS
  <2>5. Len(g) = l + 1 /\ Len(h) = l + 1 /\ 1 \in 1..1 + l
    BY <1>3, <2>2, <2>3, <2>4
  <2>6. g[1] = r
    BY <2>2, <2>4, <2>5
  <2>7. ASSUME NEW i \in 2..l + 1 PROVE g[i] = h[i]
    <3>1. i \in 1..1 + l /\ ~(i <= 1)
      BY <1>3
    <3>2. g[i] = a[i - 1]
      BY <2>2, <2>4, <3>1
    <3>3. h[i] = a[i - 1]
      BY <2>3, <2>4, <3>1
    <3>. QED BY <3>2, <3>3
  <2>. QED BY <2>2, <2>3, <2>5, <2>6, <2>7
<1>5. PICK L \in Nat, n \in {Met(g)} : L = Len(Positional)
  BY <1>4, Naming
<1>6. /\ n = IF l + 1 <= L THEN l + 1 ELSE L
      /\ Met(h) = n
  BY <1>4, <1>5, Naming
<1>7. L >= 1
  BY <1>5, SelfAccepted
<1>8. n \in Nat /\ n >= 1 /\ n <= l + 1
  BY <1>3, <1>6, <1>7
<1>9. ByName(g) = ByName(h) /\ Rest(g, kwargs) = Rest(h, kwargs)
  <2>1. ByName(g) = ByName(h)
    BY <1>5, <1>6 DEF ByName
  <2>. QED BY <2>1 DEF Rest
<1>10. ToSet(More(g)) = ToSet(More(h))
  <2>1. ToSet(More(g)) = {g[i] : i \in n + 1..l + 1}
    BY <1>4, <1>5, <1>8, SubSeqSet DEF More
  <2>2. ToSet(More(h)) = {h[i] : i \in n + 1..l + 1}
    BY <1>4, <1>5, <1>6, <1>8, SubSeqSet DEF More
  <2>3. \A i \in n + 1..l + 1 : i \in 2..l + 1
    BY <1>3, <1>8
  <2>. QED BY <1>4, <2>1, <2>2, <2>3
<1>11. ASSUME NEW p \in Compared(g, kwargs), ~Accepts(p[1], p[2]) PROVE p \in Compared(h, kwargs)
  <2>1. CASE p \in {<<Positional[i].ann, g[i]>> : i \in 1..Met(g)}
    <3>1. PICK i \in 1..n : p = <<Positional[i].ann, g[i]>>
      BY <1>5, <2>1
    <3>2. i # 1
      <4>1. SUFFICES ASSUME i = 1 PROVE FALSE
        OBVIOUS
      <4>2. p[1] = Positional[1].ann /\ p[2] = r
        BY <1>4, <3>1, <4>1
      <4>. QED BY <1>11, <4>2, SelfAccepted
    <3>3. i \in 2..l + 1
      BY <1>3, <1>8, <3>2
    <3>4. p = <<Positional[i].ann, h[i]>>
      BY <1>4, <3>1, <3>3
    <3>. QED BY <1>6, <3>4 DEF Compared
  <2>2. CASE p \notin {<<Positional[i].ann, g[i]>> : i \in 1..Met(g)}
    BY <1>9, <1>10, <1>11, <2>2 DEF Compared
  <2>. QED BY <2>1, <2>2
<1>12. "few" \in MatchArgument(g, kwargs) => "few" \in MatchArgument(h, kwargs)
  BY <1>4, <1>5, <1>6, <1>9, ErrorsAre
<1>13. "many" \in MatchArgument(g, kwargs) => "many" \in MatchArgument(h, kwargs)
  BY <1>4, <1>9, ErrorsAre
<1>14. "type" \in MatchArgument(g, kwargs) => "type" \in MatchArgument(h, kwargs)
  BY <1>4, <1>11, ErrorsAre
<1>15. MatchArgument(g, kwargs) \subseteq {"few", "many", "type"}
  BY <1>4, ErrorsAre
<1>. QED BY <1>2, <1>12, <1>13, <1>14, <1>15

\* What a recorded call was matched with.
LEMMA RecordedFacts ==
  ASSUME CallsInv, last # Nothing
  PROVE  /\ Ready
         /\ last.bound \o last.call.args \in Seq(Passed(program))
         /\ Len(last.bound \o last.call.args) = Len(last.bound) + Len(last.call.args)
         /\ last.call.args \in Seq(Passed(program)) /\ last.bound \in Binds /\ Uniform(last.bound)
         /\ \A k \in DOMAIN last.call.kwargs : last.call.kwargs[k] \in program.values
         /\ last.call.receiver \in through /\ through \subseteq Receivers
         /\ last.errors = MatchArgument(last.bound \o last.call.args, last.call.kwargs)
<1>1. Ready
  BY DEF CallsInv, Idle, Defined
<1>2. /\ last.call \in CallSet /\ last.bound \in Binds /\ Uniform(last.bound)
      /\ last.errors = MatchArgument(last.bound \o last.call.args, last.call.kwargs)
  BY DEF CallsInv, Recorded
<1>3. PICK a, b, K : a = last.call.args /\ b = last.bound /\ K = last.call.kwargs
  OBVIOUS
<1>4. a \in Seq(Passed(program))
  <2>1. a \in Seq(program.values \cup {program.ret})
    BY <1>2, <1>3 DEF CallSet
  <2>2. program.values \cup {program.ret} \subseteq Passed(program)
    BY DEF Passed
  <2>. QED BY <2>1, <2>2, Widen
<1>5. b \in Seq(Passed(program))
  <2>1. CASE b = <<>>
    BY <2>1
  <2>2. CASE b # <<>>
    <3>1. program.kind \in {"method", "classmethod"} /\ b \in {<<Class(Owner)>>, <<Class(Heir)>>}
      BY <1>2, <1>3, <2>2 DEF Binds
    <3>2. Class(Owner) \in Passed(program) /\ Class(Heir) \in Passed(program)
      BY <3>1 DEF Passed
    <3>3. PICK c \in Passed(program) : b = <<c>>
      BY <3>1, <3>2
    <3>. QED BY <3>3
  <2>. QED BY <2>1, <2>2
<1>6. b \o a \in Seq(Passed(program)) /\ Len(b \o a) = Len(b) + Len(a)
  BY <1>4, <1>5, ConcatProperties
<1>7. K \in KwargSet /\ last.call.receiver \in through
  BY <1>2, <1>3 DEF CallSet
<1>8. \A k \in DOMAIN K : K[k] \in program.values
  BY <1>7 DEF KwargSet
<1>9. through \subseteq Receivers
  BY DEF CallsInv
<1>. QED BY <1>1, <1>2, <1>3, <1>4, <1>6, <1>7, <1>8, <1>9

\* AcceptedIsLegal, for every signature and every way in which calls can be
\* nested, given that is_consistent is right up to its known cases: a call that
\* match_argument accepts is one that Python takes.
THEOREM CallsAcceptedIsLegal ==
  ASSUME TypesAgree
  PROVE  Spec => []AcceptedIsLegal
<1>1. CallsInv => AcceptedIsLegal
  <2>. SUFFICES ASSUME CallsInv, last # Nothing, last.errors = {}, RightlyBound, ~SelfPosonly,
                       \A p \in Pairs : ~Loose(p[1], p[2]), ~Legal(last.call)
                PROVE  GivenTwice /\ program.kwarg # <<>>
    BY DEF AcceptedIsLegal, Accepted, Matched
  <2>1. PICK given, call : given = last.bound \o last.call.args /\ call = last.call
    OBVIOUS
  <2>2. /\ Ready /\ given \in Seq(Passed(program))
        /\ Len(given) = Len(last.bound) + Len(call.args)
        /\ \A k \in DOMAIN call.kwargs : call.kwargs[k] \in program.values
        /\ MatchArgument(given, call.kwargs) = {}
    BY <2>1, RecordedFacts
  <2>3. last.bound = Own(call) /\ given = Own(call) \o call.args
    BY <2>1 DEF RightlyBound
  <2>4. \A p \in Compared(given, call.kwargs) : ~Loose(p[1], p[2])
    BY <2>1 DEF Pairs
  <2>5. ~Legal(call)
    BY <2>1
  <2>6. /\ program.kwarg # <<>>
        /\ \E i \in DOMAIN program.args : /\ Len(program.posonly) + i <= Len(given)
                                          /\ program.args[i].name \in DOMAIN call.kwargs
    BY <2>2, <2>3, <2>4, <2>5, AcceptedLegal
  <2>. QED BY <2>1, <2>2, <2>3, <2>6 DEF GivenTwice
<1>. QED BY <1>1, CallsInvariant, PTL

\* ReportedIsIllegal, likewise: a call that match_argument reports is one that
\* Python does not take.
THEOREM CallsReportedIsIllegal ==
  ASSUME TypesAgree
  PROVE  Spec => []ReportedIsIllegal
<1>1. CallsInv => ReportedIsIllegal
  <2>. SUFFICES ASSUME CallsInv, last # Nothing, last.errors # {}, RightlyBound, ~SelfPosonly,
                       \A p \in Pairs : ~Strict(p[1], p[2]), Legal(last.call), ~DefaultUsed
                PROVE  FALSE
    BY DEF ReportedIsIllegal, Reported, Matched
  <2>1. PICK given, call : given = last.bound \o last.call.args /\ call = last.call
    OBVIOUS
  <2>2. /\ Ready /\ given \in Seq(Passed(program))
        /\ Len(given) = Len(last.bound) + Len(call.args)
        /\ \A k \in DOMAIN call.kwargs : call.kwargs[k] \in program.values
        /\ MatchArgument(given, call.kwargs) # {}
    BY <2>1, RecordedFacts
  <2>3. last.bound = Own(call) /\ given = Own(call) \o call.args
    BY <2>1 DEF RightlyBound
  <2>4. \A p \in Compared(given, call.kwargs) : ~Strict(p[1], p[2])
    BY <2>1 DEF Pairs
  <2>5. Legal(call)
    BY <2>1
  <2>6. \A p \in ToSet(program.kwonly) \cup
                 ToSet(SubSeq(program.posonly \o program.args, Len(given) + 1,
                              Len(program.posonly \o program.args))) :
          p.name \notin program.valid \ (DOMAIN call.kwargs \ Names(ToSet(program.posonly)))
    BY <2>1, <2>2, <2>3 DEF DefaultUsed, Names
  <2>. QED BY <2>2, <2>3, <2>4, <2>5, <2>6, ReportedIllegal
<1>. QED BY <1>1, CallsInvariant, PTL

\* UniformUseAgrees, for every method, whatever is_consistent does with other
\* types than those of self: as long as it is only used through instances, or only
\* through its own class, its calls are matched as if it had been bound rightly.
THEOREM CallsUniformUseAgrees == Spec => []UniformUseAgrees
<1>1. CallsInv => UniformUseAgrees
  <2>. SUFFICES ASSUME CallsInv, last # Nothing, program.kind = "method", argument # <<>>,
                       through = {Type(Owner)} \/ \A r \in through : r.kind = "class"
                PROVE  last.errors = MatchArgument(Own(last.call) \o last.call.args, last.call.kwargs)
    BY DEF UniformUseAgrees, Matched
  <2>1. PICK a, b, K, r :
          a = last.call.args /\ b = last.bound /\ K = last.call.kwargs /\ r = last.call.receiver
    OBVIOUS
  <2>2. /\ Ready /\ a \in Seq(Passed(program)) /\ b \in Binds /\ Uniform(b)
        /\ r \in through /\ through \subseteq Receivers
        /\ last.errors = MatchArgument(b \o a, K)
    BY <2>1, RecordedFacts
  <2>3. Own(last.call) = IF r.kind = "class" THEN <<r>> ELSE <<>>
    BY <2>1 DEF Own
  <2>4. CASE through = {Type(Owner)}
    <3>1. r.kind # "class"
      BY <2>2, <2>4 DEF Type, Ins
    <3>2. b = <<>>
      BY <2>2, <2>4 DEF Uniform
    <3>. QED BY <2>1, <2>2, <2>3, <3>1, <3>2
  <2>5. CASE \A q \in through : q.kind = "class"
    <3>1. r \in {Class(Owner), Class(Heir)} /\ Own(last.call) = <<r>>
      BY <2>2, <2>3, <2>5, ReceiverFacts
    <3>2. b # <<>>
      BY <2>2, <2>5 DEF Uniform
    <3>3. PICK s \in {Class(Owner), Class(Heir)} : b = <<s>>
      BY <2>2, <3>2 DEF Binds
    <3>4. MatchArgument(<<r>> \o a, K) = MatchArgument(<<s>> \o a, K)
      <4>1. MatchArgument(<<r>> \o a, K) \subseteq MatchArgument(<<s>> \o a, K)
        BY <2>2, <3>1, <3>3, AnyInstance
      <4>2. MatchArgument(<<s>> \o a, K) \subseteq MatchArgument(<<r>> \o a, K)
        BY <2>2, <3>1, <3>3, AnyInstance
      <4>. QED BY <4>1, <4>2
    <3>. QED BY <2>1, <2>2, <3>1, <3>3, <3>4
  <2>. QED BY <2>4, <2>5
<1>. QED BY <1>1, CallsInvariant, PTL
=============================================================================
