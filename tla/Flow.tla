-------------------------------- MODULE Flow --------------------------------
(***************************************************************************)
(* Control flow and narrowing: InferVisitor (infer/infer.py) walking over  *)
(* statements, ConditionInfer (infer/condition_infer.py) with its stack of *)
(* conditions and its break flag, and SymbolRecorder (infer/recorder.py)   *)
(* with the types of one name, x, in each open scope.  The tests of if     *)
(* have been decided once before: by TypeDefVisitor (definition.py), with  *)
(* static_infer (StaticInfer), when it collected the definitions.          *)
(*                                                                         *)
(* The program is chosen while it is visited: an action is a statement     *)
(* that comes next, or the end of a list of statements.  Next to the       *)
(* checker's state runs what it is about: `live`, the values x can have    *)
(* when execution gets here, on the executions that pass each loop body at *)
(* most once; it is empty where no such execution gets.                    *)
(***************************************************************************)
EXTENDS StaticInfer

CONSTANTS
  Declared,      \* x: Union[...], in the module and as parameter of functions
  Tests,         \* the tests of if and while
  LoopTargets,   \* element classes of `for x in`, Other for another target
  Other,
  MaxStatements, \* bound: the statements of the program
  MaxDepth       \* bound: nesting of compound statements

ASSUME FlowAssumption ==
  /\ Declared \in (SUBSET Classes) \ {{}}
  /\ \A t \in Tests : t \in Test /\ t.values # <<>> /\ (t.op = "single" => Len(t.values) = 1)
  /\ Other \notin Classes
  /\ LoopTargets \subseteq Classes \cup {Other}

VARIABLES
  frames,    \* the compound statements that are open, innermost last
  conds,     \* ConditionInfer.reach_stack
  flag,      \* ConditionInfer.break_flag
  narrowed,  \* ConditionInfer.isinstance_cond
  temp,      \* ConditionInfer.temp_type of x, {} when it holds none
  scopes,    \* SymbolRecorder.stack: the type recorded for x, a set of classes
  count,     \* statements so far
  live,      \* what executions bring here, see above
  loose,     \* the last jump has outlived a statement it does not always end
  reported   \* the last report of CodeUnreachable

vars == <<frames, conds, flag, narrowed, temp, scopes, count, live, loose, reported>>

Top == Last(frames)
Cond == Last(conds)
Type == Last(scopes)
ReplaceLast(s, e) == Append(Front(s), e)

-----------------------------------------------------------------------------
(* consistent.py, for unions of unrelated classes.                          *)

\* "Is a = b safe": a union on the right is never safe against one class.
Consistent(left, right) == \E c \in left : right = {c}

(* Tests, as ConditionInfer infers them.                                    *)

\* What an operand that is no isinstance comes to.  sys.version_info is not of
\* literal type.
PlainReach(a) ==
  CASE a \in {"Truthy", "Falsy"} -> IF a = "Truthy" THEN "ALWAYS_TRUE" ELSE "ALWAYS_FALSE"
    [] a \in DOMAIN Comparison -> "UNKNOWN"
    [] OTHER -> StaticOperand(a)

\* Mutation: the type is saved after it has been narrowed.
InferOperandSwapped(s, a) ==
  IF a \notin Classes THEN [s EXCEPT !.reach = PlainReach(a)]
  ELSE IF Consistent(s.type, {a})
       THEN [reach |-> IF s.type = {a} THEN "ALWAYS_TRUE" ELSE "UNKNOWN",
             temp |-> {a}, type |-> {a}, narrowed |-> TRUE]
       ELSE [s EXCEPT !.reach = "ALWAYS_FALSE"]

\* s carries the reach of the last operand and what visit_isinstance changes.
InferOperand(s, a) ==
  IF a \notin Classes
  THEN [s EXCEPT !.reach = PlainReach(a)]
  ELSE IF Consistent(s.type, {a})
       THEN [reach |-> IF s.type = {a} THEN "ALWAYS_TRUE" ELSE "UNKNOWN",
             temp |-> s.type, type |-> {a}, narrowed |-> TRUE]
       ELSE [s EXCEPT !.reach = "ALWAYS_FALSE"]

\* BoolOp goes on to the first operand that settles it.  One that narrows x and
\* does not settle it, isinstance under `and` with the class that x has anyway,
\* leaves the type as it is: all operands are inferred from the type of s.
InferBoolOp(op, s, values) ==
  LET inferred(i) == InferOperand(s, values[i])
      ends == {i \in DOMAIN values : Settled(op, inferred(i).reach)}
      last == IF ends = {} THEN Len(values) ELSE Min(ends)
      narrowing == {i \in 1..last : values[i] \in Classes /\ Consistent(s.type, {values[i]})}
  IN [(IF narrowing = {} THEN s ELSE inferred(Max(narrowing))) EXCEPT
        !.reach = IF ends # {} THEN inferred(last).reach
                  ELSE IF op = "And" THEN "ALWAYS_TRUE" ELSE "ALWAYS_FALSE"]

InferTest(t) ==
  LET s == [reach |-> "UNKNOWN", type |-> Type, temp |-> temp, narrowed |-> narrowed]
      r == IF t.op = "single" THEN InferOperand(s, t.values[1])
           ELSE InferBoolOp(t.op, s, t.values)
  IN [r EXCEPT !.reach = Unary(t, r.reach)]

\* Mutation: the reach that TypeDefVisitor has left at the test is not read.
InferAfresh(kind, t) == InferTest(t)

\* The test of an if carries the reach that TypeDefVisitor found.  Unless that
\* is UNKNOWN it stands, and nothing is inferred or narrowed.
Infer(kind, t) ==
  IF kind = "if" /\ Static(t) # "UNKNOWN"
  THEN [reach |-> Static(t), type |-> Type, temp |-> temp, narrowed |-> narrowed]
  ELSE InferTest(t)

\* TYPE_CHECKING is TYPE_TRUE, and that does not end an `or`: when no other
\* operand does, the test is taken for false (infer_value_of_or_op).
Overlooked(t) == t.op = "Or" /\ \E i \in DOMAIN t.values : t.values[i] = "TYPE_CHECKING"

\* The executions on which the test comes out as b.
May(t, vs, b) == {v \in vs : b \in Outcomes(t, v)}
-----------------------------------------------------------------------------
(* Open statements.  in: the executions that come to the statement, out:    *)
(* those that have left it already, back: those that are back at the test   *)
(* of a loop.  before and quiet: the type of x when the statement began and *)
(* whether it stands in no narrowed arm and has bound or narrowed nothing.  *)
(* sound: the type the test was inferred from covers the executions that    *)
(* make the test, those of a later turn of a loop included, and the test    *)
(* is none that is judged wrongly.                                          *)

EitherWay == [unary |-> "none", op |-> "single", values |-> <<"Other">>]

Frame(kind, test) ==
  [kind |-> kind, part |-> "body", open |-> TRUE, seen |-> FALSE, test |-> test,
   in |-> live, out |-> {}, back |-> {},
   before |-> Type, quiet |-> ~narrowed,
   sound |-> live \subseteq Type /\ ~Misjudged(test) /\ ~Overlooked(test)]

NotSaved == [pre |-> {}, permanent |-> FALSE]
Condition(reach) == [reach |-> reach, dirty |-> NotSaved]

Init ==
  /\ conds = <<Condition("ALWAYS_TRUE")>>
  /\ flag = "NORMAL"
  /\ narrowed = FALSE
  /\ temp = {}
  /\ scopes = <<Declared>>
  /\ count = 0
  /\ live = Declared
  /\ frames = <<Frame("module", EitherWay)>>
  /\ loose = FALSE
  /\ reported = [values |-> {}, explained |-> TRUE]

Kind(i) == frames[i].kind
Functions == {i \in DOMAIN frames : Kind(i) = "def"}

\* The loops a break may leave: in their bodies and in this function.
Loops == {i \in DOMAIN frames :
            /\ Kind(i) \in {"while", "for"} /\ frames[i].part = "body"
            /\ \A f \in Functions : f < i}

\* generic_visit runs over the statements of a module and of try and never
\* looks at break_flag.
Detecting == Top.kind \notin {"module", "try"}

\* Whether TypeDefVisitor has visited the open list of f (visit_If).  It goes
\* through every list of another compound statement.
Collected(f) ==
  f.kind = "if" => \/ Static(f.test) = "UNKNOWN"
                   \/ (Static(f.test) \in {"ALWAYS_TRUE", "TYPE_TRUE"}) = (f.part = "body")

Rejected == Top.kind \in {"if", "while"} /\ Cond.reach \in {"ALWAYS_FALSE", "TYPE_FALSE"}

NextStatement == Top.open /\ count < MaxStatements /\ count' = count + 1

Visit == NextStatement /\ ~Rejected /\ (Detecting => flag = "NORMAL")

Seen(fs) == ReplaceLast(fs, [Last(fs) EXCEPT !.seen = TRUE])
Disturbed(fs) == [i \in DOMAIN fs |-> [fs[i] EXCEPT !.quiet = FALSE]]

-----------------------------------------------------------------------------
(* Statements.                                                              *)

Plain ==
  /\ Visit
  /\ frames' = Seen(frames)
  /\ UNCHANGED <<conds, flag, narrowed, temp, scopes, live, loose, reported>>

\* record_type saves the type it replaces with the innermost condition, over
\* what that had saved for the name before.
Record(c) ==
  /\ conds' = ReplaceLast(conds, [Cond EXCEPT !.dirty = [pre |-> Type, permanent |-> TRUE]])
  /\ scopes' = ReplaceLast(scopes, {c})

\* x = C().  A value that the declaration does not allow is complained about
\* and not recorded; the executions are those of the program without it.
Assign(c) ==
  /\ Visit
  /\ IF Consistent(Declared, {c})
     THEN /\ Record(c)
          /\ frames' = Disturbed(Seen(frames))
          /\ live' = IF live = {} THEN {} ELSE {c}
     ELSE /\ frames' = Seen(frames)
          /\ UNCHANGED <<conds, scopes, live>>
  /\ UNCHANGED <<flag, narrowed, temp, loose, reported>>

\* if and while: the test is inferred in the scope around the statement and
\* its narrowing is recorded there.
Branch(kind, t) ==
  /\ Visit
  /\ Len(frames) < MaxDepth
  /\ LET r == Infer(kind, t)
         narrows == r.temp # temp \/ r.type # Type
     IN /\ scopes' = ReplaceLast(scopes, r.type)
        /\ temp' = r.temp
        /\ narrowed' = r.narrowed
        /\ conds' = Append(conds, Condition(r.reach))
        /\ frames' = Append(IF narrows THEN Disturbed(Seen(frames)) ELSE Seen(frames),
                            Frame(kind, t))
  /\ live' = May(t, live, TRUE)
  /\ UNCHANGED <<flag, loose, reported>>

\* for: no condition is pushed, and the target is recorded whatever it was
\* declared as.
For(target) ==
  /\ Visit
  /\ Len(frames) < MaxDepth
  /\ IF target = Other
     THEN /\ frames' = Append(Seen(frames), Frame("for", EitherWay))
          /\ UNCHANGED <<conds, scopes, live>>
     ELSE /\ Record(target)
          /\ frames' = Append(Disturbed(Seen(frames)), Frame("for", EitherWay))
          /\ live' = IF live = {} THEN {} ELSE {target}
  /\ UNCHANGED <<flag, narrowed, temp, loose, reported>>

\* try, and every other statement InferVisitor has no method for.
Try ==
  /\ Visit
  /\ Len(frames) < MaxDepth
  /\ frames' = Append(Seen(frames), Frame("try", EitherWay))
  /\ UNCHANGED <<conds, flag, narrowed, temp, scopes, live, loose, reported>>

\* def f(x: Declared): the body is visited at once, in a scope of its own.
Def ==
  /\ Visit
  /\ Len(frames) < MaxDepth
  /\ conds' = Append(conds, Condition("ALWAYS_TRUE"))
  /\ scopes' = Append(scopes, Declared)
  /\ frames' = Append(Disturbed(Seen(frames)), [Frame("def", EitherWay) EXCEPT !.sound = TRUE])
  /\ live' = IF live = {} THEN {} ELSE Declared
  /\ UNCHANGED <<flag, narrowed, temp, loose, reported>>

Jump(f) ==
  /\ Visit
  /\ flag' = f
  /\ live' = {}
  /\ loose' = FALSE
  /\ UNCHANGED <<conds, narrowed, temp, scopes, reported>>

Break ==
  /\ Loops # {}
  /\ Jump("BREAK")
  /\ frames' = [Seen(frames) EXCEPT ![Max(Loops)].out = @ \cup live]

Continue ==
  /\ Loops # {}
  /\ Jump("CONTINUE")
  /\ frames' = [Seen(frames) EXCEPT ![Max(Loops)].back = @ \cup live]

Return ==
  /\ Functions # {}
  /\ Jump("RETURN")
  /\ frames' = Seen(frames)

\* The rest of a list after a jump, or a whole arm whose test is never true,
\* is reported and not visited.  A report can be explained when the recorded
\* type had lost executions at the test it rests on, or when its jump had
\* outlived a statement that it need not end.
Report ==
  /\ NextStatement
  /\ Rejected \/ (Detecting /\ flag # "NORMAL")
  /\ reported' = [values |-> live,
                  explained |-> IF Rejected THEN ~Top.sound ELSE loose]
  /\ frames' = ReplaceLast(frames, [Top EXCEPT !.seen = TRUE, !.open = FALSE])
  /\ UNCHANGED <<conds, flag, narrowed, temp, scopes, live, loose>>

-----------------------------------------------------------------------------
(* The end of a list of statements.                                         *)

OuterState == IF Top.kind = "def" THEN "FUNC"
              ELSE IF Top.kind \in {"while", "for"} /\ Top.part = "body" THEN "LOOP"
              ELSE "IF"

\* Mutations: a function does not end the flag of a return; an arm that may be
\* skipped does not.
EliminatedOutsideFunctions ==
  IF flag = "RETURN" /\ Cond.reach # "UNKNOWN" THEN flag
  ELSE IF flag # "RETURN" /\ OuterState = "IF" /\ Cond.reach # "UNKNOWN" THEN flag
  ELSE "NORMAL"
EliminatedByFunctions ==
  IF flag = "RETURN" /\ OuterState # "FUNC" THEN flag
  ELSE IF flag # "RETURN" /\ OuterState = "IF" /\ Cond.reach # "UNKNOWN" THEN flag
  ELSE "NORMAL"

\* eliminate_break
Eliminated ==
  CASE flag \in {"BREAK", "CONTINUE"} ->
         IF OuterState # "IF" \/ Cond.reach = "UNKNOWN" THEN "NORMAL" ELSE flag
    [] flag = "RETURN" ->
         IF OuterState = "FUNC" \/ Cond.reach = "UNKNOWN" THEN "NORMAL" ELSE flag
    [] OTHER -> flag

\* No more statements in this list.
ListEnds ==
  /\ Top.seen
  /\ flag' = IF Detecting /\ ~Rejected THEN Eliminated ELSE flag
  /\ loose' = (loose \/ (flag' # "NORMAL" /\ (Top.kind \in {"while", "for", "try"} \/ ~Top.sound)))
  /\ UNCHANGED <<count, reported>>

\* The executions that go on in the else part (the handler of a try).
ElseValues == May(Top.test,
                  IF Top.kind \in {"while", "for"} THEN Top.in \cup live \cup Top.back
                  ELSE Top.in,
                  FALSE)

\* On to the else part.  The else part of a loop may have no statements.
ToElse ==
  /\ Len(frames) > 1 /\ Top.kind # "def" /\ Top.part = "body"
  /\ ListEnds
  /\ conds' = IF Top.kind \in {"if", "while"}
              THEN ReplaceLast(conds, [Cond EXCEPT !.reach = Neg(@)])
              ELSE conds
  /\ LET loop == Top.kind \in {"while", "for"}
     IN frames' = ReplaceLast(frames,
                    [Top EXCEPT !.part = "orelse", !.open = TRUE, !.seen = loop,
                                !.out = IF loop THEN @ ELSE live,
                                !.sound = @ /\ (loop => live \cup Top.back \subseteq Top.before)])
  /\ live' = ElseValues
  /\ UNCHANGED <<narrowed, temp, scopes>>

\* recover_type of the condition that ends, in a scope where x has `type`.
\* What isinstance saved takes the place of what assignments saved.
Recovered(type) ==
  LET saved == IF narrowed THEN [pre |-> temp, permanent |-> FALSE] ELSE Cond.dirty
  IN IF saved.pre = {} \/ ~(narrowed \/ Cond.reach = "UNKNOWN") THEN type
     ELSE IF ~saved.permanent THEN saved.pre
     ELSE IF Consistent(saved.pre, type) THEN type
     ELSE saved.pre \cup type

\* The statement ends and with it its condition; a function leaves its scope
\* first.
End ==
  /\ Len(frames) > 1 /\ (Top.kind \in {"if", "def"} \/ Top.part = "orelse")
  /\ ListEnds
  /\ frames' = Front(frames)
  /\ LET around == IF Top.kind = "def" THEN Front(scopes) ELSE scopes
     IN IF Top.kind \in {"if", "while", "def"}
        THEN /\ scopes' = ReplaceLast(around, Recovered(Last(around)))
             /\ conds' = Front(conds)
             /\ narrowed' = FALSE
             /\ temp' = {}
        ELSE UNCHANGED <<scopes, conds, narrowed, temp>>
  /\ live' = CASE Top.kind = "def" -> Top.in
               [] Top.kind = "if" /\ Top.part = "body" -> live \cup ElseValues
               [] OTHER -> Top.out \cup live

Next ==
  \/ Plain \/ Try \/ Def \/ Break \/ Continue \/ Return \/ Report \/ ToElse \/ End
  \/ \E c \in Classes : Assign(c)
  \/ \E t \in Tests, kind \in {"if", "while"} : Branch(kind, t)
  \/ \E target \in LoopTargets : For(target)

Spec == Init /\ [][Next]_vars

-----------------------------------------------------------------------------
\* The break flag is up only where it belongs (condition_infer.py,
\* eliminate_break).  No return is felt outside its function: it would silence
\* the rest of the enclosing code.  And where executions get no flag is up,
\* unless its jump has outlived a loop, a try or a misjudged test: what the flag
\* silences is dead code.
FlagStaysInside ==
  /\ flag = "RETURN" => Functions # {}
  /\ live # {} /\ ~loose => flag = "NORMAL"

\* Code that is reported as unreachable while executions reach it goes back to
\* one of three causes: a jump in a loop or a try, which execution may leave
\* another way (or not enter), a test that was inferred from a recorded type
\* that does not cover the values x can have, or a test that Misjudged or
\* Overlooked names.
FalseReportsExplained == reported.values # {} => reported.explained

\* Inference only visits statements whose definitions have been collected: the
\* two decide the same tests on their own, with different means, and nothing
\* but the reach that TypeDefVisitor leaves at the test (definition.py:126,
\* condition_infer.py:152) keeps them together.  A function that was not
\* collected has no type, and visit_FunctionDef ends with an AttributeError.
VisitedIsCollected ==
  Top.open /\ ~Rejected /\ (Detecting => flag = "NORMAL") => \A i \in DOMAIN frames : Collected(frames[i])

\* What the test of an if or while takes from the type of x is given back when
\* the statement ends (recover_type), unless something inside has bound x, has
\* narrowed it once more or is a function, or it stands itself where x is
\* narrowed.  In these cases the one type kept in temp_type is overwritten, or
\* given back by the end of the wrong statement or to the wrong scope.
NarrowingUndone ==
  [][ Len(frames') < Len(frames) /\ Top.kind \in {"if", "while"} /\ Top.quiet
        => Top.before \subseteq Last(scopes') ]_vars
=============================================================================
