------------------------------- MODULE MCCalls -------------------------------
(***************************************************************************)
(* Two families of programs: signatures of all shapes, for plain functions *)
(* and for methods, with arguments of one right and one wrong type; and    *)
(* functions of one parameter, with every declared type and every argument *)
(* type of a small universe.                                               *)
(***************************************************************************)
EXTENDS Calls, Consistent

Classes == {"int", "bool", "str", "C", "D", "list", "ints", "sink", "tuple"}
MCArity == [c \in Classes |-> CASE c \in {"list", "sink"} -> 1
                                [] c = "tuple" -> -1
                                [] OTHER -> 0]
MCKind == [c \in Classes |-> CASE c = "tuple" -> "covariant"
                               [] c = "sink" -> "contravariant"
                               [] OTHER -> "invariant"]
MCMroOf == [c \in Classes |-> CASE c = "D" -> <<"D", "C">>
                                [] c = "ints" -> <<"ints", "list">>
                                [] OTHER -> <<c>>]
MCSupers ==
  [c \in Classes |-> {Class(c)} \cup
     CASE c = "D" -> {Class("C")}
       [] c = "ints" -> {Bound("list", <<Class("int")>>)}
       [] OTHER -> {}]
MCEqual == {{"1", "True"}}
MCClassOf == [v \in {"1", "'s'", "True"} |->
                CASE v = "1" -> "int" [] v = "True" -> "bool" [] OTHER -> "str"]

Int1 == Class("int")
A(n) == [name |-> n, ann |-> Int1]
S == [name |-> "s", ann |-> AnyIns]

\* The signature (), to which others give parameters.
Plain == [kind |-> "function", posonly |-> <<>>, args |-> <<>>, kwonly |-> <<>>,
          vararg |-> <<>>, kwarg |-> <<>>, valid |-> {}, ret |-> Int1,
          values |-> {Int1, Class("C")}, keywords |-> {"a", "b"}]

Functions ==
  {Plain,
   [Plain EXCEPT !.args = <<A("a"), A("b")>>, !.valid = {"b"}],
   [Plain EXCEPT !.posonly = <<A("a")>>, !.args = <<A("b")>>],
   [Plain EXCEPT !.posonly = <<A("a")>>, !.kwarg = <<Int1>>, !.valid = {"a"}],
   [Plain EXCEPT !.args = <<A("a")>>, !.kwarg = <<Int1>>],
   [Plain EXCEPT !.args = <<A("a")>>, !.vararg = <<Int1>>, !.kwonly = <<A("b")>>],
   [Plain EXCEPT !.kwonly = <<A("a"), A("b")>>, !.valid = {"a"}]}

Method == [Plain EXCEPT !.kind = "method", !.args = <<S>>, !.keywords = {"a"}]
Methods ==
  {Method,
   [Method EXCEPT !.args = <<S, A("a")>>],
   [Method EXCEPT !.args = <<S, A("a")>>, !.ret = Class("C"), !.keywords = {"s"},
                  !.kwarg = <<Int1>>],
   [Method EXCEPT !.args = <<>>, !.vararg = <<AnyIns>>],
   [Method EXCEPT !.posonly = <<S>>, !.args = <<A("a")>>],
   [Method EXCEPT !.posonly = <<S, A("a")>>, !.args = <<>>],
   [Method EXCEPT !.kind = "classmethod", !.args = <<S, A("a")>>],
   [Method EXCEPT !.kind = "classmethod", !.args = <<>>, !.vararg = <<AnyIns>>],
   [Method EXCEPT !.kind = "staticmethod", !.args = <<A("a")>>]}

List(t) == Bound("list", <<t>>)
Simple == {Class(c) : c \in {"int", "bool", "str", "list", "ints", "C", "D"}}
Universe ==
  Simple \cup {AnyIns, NoneIns, Type("C"), Type("D")}
  \cup {Literal(v) : v \in {"1", "True", "'s'"}}
  \cup {Optional(Class("C")), Optional(Class("D"))}
  \cup {Union(<<Class("C"), Class("str")>>), Union(<<Class("D"), Class("str")>>),
        Union(<<Class("C"), NoneIns>>), Union(<<Class("C"), Type("C")>>),
        Union(<<Optional(Class("C")), Class("str")>>)}
  \cup {List(t) : t \in {Class("C"), Class("int"), AnyIns, Optional(Class("C")),
                         Union(<<Class("C"), Class("str")>>),
                         Union(<<Class("D"), Class("str")>>)}}
  \cup {Bound("sink", <<Class("C")>>), Bound("sink", <<Class("D")>>),
        Bound("tuple", <<Class("C"), Class("C")>>),
        Bound("tuple", <<Class("D"), Class("C")>>),
        Bound("tuple", <<Class("C")>>)}

Unary ==
  {[Plain EXCEPT !.args = <<[name |-> "a", ann |-> left]>>, !.values = {right},
                 !.ret = right, !.keywords = {}] :
     left \in Universe, right \in Universe}

MCPrograms == Functions \cup Methods \cup Unary

ASSUME TypesAssumption == TypesAgree
=============================================================================
