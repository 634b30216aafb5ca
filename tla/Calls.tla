-------------------------------- MODULE Calls --------------------------------
(***************************************************************************)
(* Expressions that call one function: attribute access, evaluation of the *)
(* arguments and the call itself (infer/infer_expr.py, typesys.py), up to  *)
(* match_argument (arg.py).  An argument may be a call of the same         *)
(* function, so that accesses and calls are interleaved.                   *)
(*                                                                         *)
(* The function is a plain one or a method of Owner, which Heir inherits.  *)
(* The receiver of an access is the type that the expression before the    *)
(* dot has: an instance or a class.  Starred arguments are left out, and   *)
(* so are overloads, of which only the first is ever matched.              *)
(***************************************************************************)
EXTENDS Types, Integers, SequencesExt

CONSTANTS
  Owner, Heir,
  Programs,   \* a function as it is written, and what its callers have
  MaxArgs,    \* bound on the positional arguments of a call
  MaxDepth,   \* bound on calls inside each other
  Accepts(_, _), Allows(_, _),   \* declared and given type: is_consistent, PEP 484
  Loose(_, _), Strict(_, _)      \* where the former is known to differ from the latter

\* Programs are records with
\*   kind              "function", "method", "classmethod" or "staticmethod"
\*   posonly, args, kwonly   lists of [name, ann]
\*   vararg, kwarg     the type of what they collect, as a list of at most one
\*   valid             the names that have a default value
\*   ret               the return type
\*   values, keywords  types and names of the arguments in calls

\* No two parameters of a function have one name, or Python would not parse it.
\* An heir is a subclass, and self, should it be annotated, has no stricter type.
ASSUME ProgramAssumption ==
  /\ Owner # Heir
  /\ \A r \in {Class(Owner), Class(Heir)} : Accepts(Class(Owner), r)
  /\ \A p \in Programs :
       LET params == p.posonly \o p.args \o p.kwonly
       IN  /\ \A s \in {p.posonly, p.args, p.kwonly, p.vararg, p.kwarg} : s \in Seq(ToSet(s))
           /\ \A q \in ToSet(params) : q = [name |-> q.name, ann |-> q.ann]
           /\ \A i, j \in DOMAIN params : params[i].name = params[j].name => i = j
           /\ Len(p.vararg) <= 1 /\ Len(p.kwarg) <= 1
           /\ \A i \in DOMAIN (p.posonly \o p.args), r \in {Class(Owner), Class(Heir)} :
                p.kind = "method" /\ i = 1 => Accepts((p.posonly \o p.args)[i].ann, r)

VARIABLES
  program,
  argument,   \* args with the annotations of TypeFuncIns.overloads[0].argument
  selfBind,   \* TypeFuncIns.self_bind, as a list of at most one type
  open,       \* the calls that are being visited, the innermost last
  last,       \* history: the call that the last step matched, and its errors
  through,    \* history: the receivers so far
  phase       \* "define", "infer" or "failed": an exception

vars == <<program, argument, selfBind, open, last, through, phase>>

NoCall == [receiver |-> NoneIns, args |-> <<>>, kwargs |-> <<>>]
Nothing == [call |-> NoCall, bound |-> <<>>, errors |-> {}]

Init ==
  /\ program \in Programs
  /\ argument = program.args
  /\ selfBind = <<>> /\ open = <<>> /\ last = Nothing /\ through = {}
  /\ phase = "define"

-----------------------------------------------------------------------------
(* Definition *)

\* modify_argument: the first parameter that may be given by name gets the type
\* of the instance, or of the class.
Define ==
  /\ phase = "define"
  /\ program.kind = "classmethod" => argument # <<>>
  /\ argument' =
       CASE program.kind = "classmethod" -> [argument EXCEPT ![1].ann = Type(Owner)]
         [] program.kind = "method" /\ argument # <<>> ->
              [argument EXCEPT ![1].ann = Class(Owner)]
         [] OTHER -> argument
  /\ phase' = "infer"
  /\ UNCHANGED <<program, selfBind, open, last, through>>

\* argument.args[0] of a class method that has no such parameter.
DefineRaises ==
  /\ phase = "define" /\ program.kind = "classmethod" /\ argument = <<>>
  /\ phase' = "failed"
  /\ UNCHANGED <<program, argument, selfBind, open, last, through>>

-----------------------------------------------------------------------------
(* Expressions *)

Receivers ==
  IF program.kind = "function" THEN {AnyIns}
  ELSE {Class(Owner), Class(Heir), Type(Owner), Type(Heir)}

IsBound == program.kind \in {"method", "classmethod"} /\ argument # <<>>

\* An attribute of an instance is looked up by TypeClassIns.getattribute, which
\* sets self_bind of the function.  The same happens for an attribute that a
\* class inherits: get_type_attribute asks an instance of the base class.
BindOf(receiver) ==
  CASE receiver.kind = "class" -> <<receiver>>
    [] receiver = Type(Heir) -> <<Class(Owner)>>
    [] OTHER -> <<>>

Takes(call) == call.kwargs = <<>> /\ Len(call.args) < MaxArgs

\* Mutation of Access: only an instance of the owner is bound.
AccessOwner(receiver) ==
  /\ phase = "infer" /\ Len(open) < MaxDepth
  /\ open # <<>> => Takes(Last(open))
  /\ selfBind' = IF IsBound /\ receiver = Class(Owner) THEN <<receiver>> ELSE selfBind
  /\ open' = Append(open, [NoCall EXCEPT !.receiver = receiver])
  /\ through' = through \cup {receiver} /\ last' = Nothing
  /\ UNCHANGED <<program, argument, phase>>

\* visit_Call starts with the function, before the arguments.
Access(receiver) ==
  /\ phase = "infer" /\ Len(open) < MaxDepth
  /\ open # <<>> => Takes(Last(open))
  /\ selfBind' = IF IsBound /\ BindOf(receiver) # <<>> THEN BindOf(receiver) ELSE selfBind
  /\ open' = Append(open, [NoCall EXCEPT !.receiver = receiver])
  /\ through' = through \cup {receiver} /\ last' = Nothing
  /\ UNCHANGED <<program, argument, phase>>

AddArg(t) ==
  /\ open # <<>> /\ Takes(Last(open))
  /\ open' = [open EXCEPT ![Len(open)].args = Append(@, t)]
  /\ last' = Nothing
  /\ UNCHANGED <<program, argument, selfBind, through, phase>>

With(kwargs, n, t) == [k \in DOMAIN kwargs \cup {n} |-> IF k = n THEN t ELSE kwargs[k]]

AddKwarg(n, t) ==
  /\ open # <<>> /\ n \notin DOMAIN Last(open).kwargs
  /\ open' = [open EXCEPT ![Len(open)].kwargs = With(@, n, t)]
  /\ last' = Nothing
  /\ UNCHANGED <<program, argument, selfBind, through, phase>>

\* match_argument.  The parameters in their order get the positional arguments;
\* those of args that get none are looked up by name, as kwonly is.  What has
\* been found by name is taken out of kwargs, the rest is for **kwargs.
Positional == program.posonly \o argument
Met(given) == Min({Len(given), Len(Positional)})
More(given) == SubSeq(given, Met(given) + 1, Len(given))
ByName(given) ==
  ToSet(program.kwonly) \cup
  {Positional[i] : i \in Max({Met(given), Len(program.posonly)}) + 1..Len(Positional)}
Rest(given, kwargs) == DOMAIN kwargs \ {p.name : p \in ByName(given)}

\* Which declared type is compared with which given one.
Compared(given, kwargs) ==
  {<<Positional[i].ann, given[i]>> : i \in 1..Met(given)}
  \cup ToSet(program.vararg) \X ToSet(More(given))
  \cup {<<p.ann, kwargs[p.name]>> : p \in {q \in ByName(given) : q.name \in DOMAIN kwargs}}
  \cup ToSet(program.kwarg) \X {kwargs[k] : k \in Rest(given, kwargs)}

\* Mutation of MatchArgument: what is too much is only looked for in the
\* positional arguments.
MatchLeftovers(given, kwargs) ==
  {e \in {"many", "type"} :
     \/ e = "many" /\ More(given) # <<>> /\ program.vararg = <<>>
     \/ e = "type" /\ \E p \in Compared(given, kwargs) : ~Accepts(p[1], p[2])}

\* Mutation of MatchArgument: keywords are not looked up among the parameters
\* that have got no positional argument.
MatchPositional(given, kwargs) ==
  {e \in {"few", "many", "type"} :
     \/ e = "few" /\ Met(given) < Len(Positional)
     \/ e = "many" /\ More(given) # <<>>
     \/ e = "type" /\ \E p \in Compared(given, kwargs) : ~Accepts(p[1], p[2])}

MatchArgument(given, kwargs) ==
  LET unmet == SubSeq(Positional, Met(given) + 1, Len(Positional))
  IN  {e \in {"few", "many", "type"} :
        \/ /\ e = "few"
           /\ \E p \in ToSet(unmet) \cup ToSet(program.kwonly) :
                p \in ByName(given) => p.name \notin DOMAIN kwargs
        \/ /\ e = "many"
           /\ \/ More(given) # <<>> /\ program.vararg = <<>>
              \/ Rest(given, kwargs) # {} /\ program.kwarg = <<>>
        \/ e = "type" /\ \E p \in Compared(given, kwargs) : ~Accepts(p[1], p[2])}

\* TypeFuncIns.call: self_bind as it is now comes before the arguments.  The
\* value of the call is an argument of the call around it.
Call ==
  /\ open # <<>>
  /\ LET call == Last(open)
         outer == Front(open)
     IN  /\ last' = [call |-> call, bound |-> selfBind,
                     errors |-> MatchArgument(selfBind \o call.args, call.kwargs)]
         /\ open' = IF outer = <<>> THEN outer
                    ELSE [outer EXCEPT ![Len(outer)].args = Append(@, program.ret)]
  /\ UNCHANGED <<program, argument, selfBind, through, phase>>

Next ==
  \/ Define \/ DefineRaises
  \/ \E r \in Receivers : Access(r)
  \/ \E t \in program.values : AddArg(t)
  \/ \E n \in program.keywords, t \in program.values : AddKwarg(n, t)
  \/ Call

Spec == Init /\ [][Next]_vars

-----------------------------------------------------------------------------
(* The reference: what Python does with the call *)

\* What Python puts before the arguments.
Own(call) ==
  CASE program.kind = "method" /\ call.receiver.kind = "class" -> <<call.receiver>>
    [] program.kind = "classmethod" -> <<Type(call.receiver.temp)>>
    [] OTHER -> <<>>

\* The parameters with the types that PEP 484 gives them: the first one of a
\* method, annotated or not, is an instance, that of a class method a class.
Typed(params) ==
  IF params = <<>> THEN params
  ELSE CASE program.kind = "method" -> [params EXCEPT ![1].ann = Class(Owner)]
         [] program.kind = "classmethod" -> [params EXCEPT ![1].ann = Type(Owner)]
         [] OTHER -> params

\* Python takes the call: each argument has one parameter, each parameter at
\* most one argument or else a default value, and the values are of the types
\* that are written.
Legal(call) ==
  LET params == Typed(program.posonly \o program.args)
      given == Own(call) \o call.args
      n == Min({Len(given), Len(params)})
      filled == {params[i].name : i \in 1..n}
      byName == ToSet(SubSeq(params, Len(program.posonly) + 1, Len(params)))
                \cup ToSet(program.kwonly)
      named == {p.name : p \in byName}
      keywords == DOMAIN call.kwargs
  IN  /\ Len(given) > Len(params) => program.vararg # <<>>
      /\ keywords \cap named \cap filled = {}
      /\ keywords \ named # {} => program.kwarg # <<>>
      /\ \A p \in ToSet(params) \cup ToSet(program.kwonly) :
           p.name \in filled \cup program.valid \cup (named \cap keywords)
      /\ \A i \in DOMAIN given :
           Allows(IF i <= n THEN params[i].ann ELSE program.vararg[1], given[i])
      /\ \A k \in keywords :
           LET p == {q \in byName : q.name = k}
               ann == IF p = {} THEN program.kwarg[1] ELSE (CHOOSE q \in p : TRUE).ann
           IN  Allows(ann, call.kwargs[k])

-----------------------------------------------------------------------------
(* Properties *)

\* What the types of a program can be compared with, and that is_consistent is
\* right about them up to the known cases.
Declared(p) ==
  {q.ann : q \in ToSet(p.posonly \o p.args \o p.kwonly)} \cup ToSet(p.vararg) \cup ToSet(p.kwarg)
    \cup IF p.kind = "function" THEN {} ELSE {Class(Owner), Type(Owner)}
Passed(p) ==
  p.values \cup {p.ret} \cup
    IF p.kind = "function" THEN {} ELSE {Class(Owner), Class(Heir), Type(Owner), Type(Heir)}
TypesAgree ==
  \A p \in Programs : \A l \in Declared(p), r \in Passed(p) :
    /\ Accepts(l, r) => Allows(l, r) \/ Loose(l, r)
    /\ Allows(l, r) => Accepts(l, r) \/ Strict(l, r)

Matched == last # Nothing
Accepted == Matched /\ last.errors = {}
Reported == Matched /\ last.errors # {}

\* The function was called with what was before the dot of this very call.
RightlyBound == last.bound = Own(last.call)

\* The first parameter of a method is positional-only: modify_argument leaves it
\* as it is and sets the type of another one, if there is one.
SelfPosonly == program.kind \in {"method", "classmethod"} /\ program.posonly # <<>>

\* A parameter with a default value got no argument.
DefaultUsed ==
  LET positional == program.posonly \o program.args
      n == Len(Own(last.call)) + Len(last.call.args)
      byKeyword == DOMAIN last.call.kwargs \ {p.name : p \in ToSet(program.posonly)}
      unfilled == ToSet(SubSeq(positional, n + 1, Len(positional)))
  IN  \E p \in ToSet(program.kwonly) \cup unfilled :
        p.name \in program.valid \ byKeyword

\* A keyword names a parameter that has got a positional argument.
GivenTwice ==
  \E i \in DOMAIN program.args :
    /\ Len(program.posonly) + i <= Len(Own(last.call)) + Len(last.call.args)
    /\ program.args[i].name \in DOMAIN last.call.kwargs

\* The types that were compared.
Pairs == Compared(last.bound \o last.call.args, last.call.kwargs)

\* A call that is accepted is one that Python takes, up to four causes: another
\* receiver, or none, is bound; a parameter of a function with **kwargs is given
\* twice; self is positional-only; types.
AcceptedIsLegal ==
  Accepted =>
    \/ Legal(last.call)
    \/ ~RightlyBound \/ SelfPosonly
    \/ GivenTwice /\ program.kwarg # <<>>
    \/ \E p \in Pairs : Loose(p[1], p[2])

\* A call that is reported is one that Python does not take, up to four causes:
\* another receiver, or none, is bound; a default value is used; self is
\* positional-only; alternatives and class objects.
ReportedIsIllegal ==
  Reported =>
    \/ ~Legal(last.call)
    \/ ~RightlyBound \/ SelfPosonly \/ DefaultUsed
    \/ \E p \in Pairs : Strict(p[1], p[2])

\* As long as a method is only used through instances, or only through its own
\* class, each call is matched as if it had been bound rightly: calls among the
\* arguments, which leave their receiver bound, are of no account.
UniformUseAgrees ==
  /\ Matched /\ program.kind = "method" /\ argument # <<>>
  /\ through = {Type(Owner)} \/ \A r \in through : r.kind = "class"
  => last.errors = MatchArgument(Own(last.call) \o last.call.args, last.call.kwargs)
=============================================================================
