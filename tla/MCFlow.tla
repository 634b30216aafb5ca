------------------------------- MODULE MCFlow -------------------------------
(***************************************************************************)
(* x: Union[A, B] and a class C that is neither, tests of each kind and    *)
(* loops over a target of their own or over x, under Python 3.8.1.         *)
(***************************************************************************)
EXTENDS Flow

MCVersion == <<3, 8, 1>>

Compared(op, with) == [op |-> op, with |-> with, atright |-> FALSE]

MCComparison ==
  [name \in {"from38", "above38", "from36below38"} |->
     CASE name = "from38" -> <<Compared("GtE", <<3, 8>>)>>
       [] name = "above38" -> <<Compared("Gt", <<3, 8>>)>>
       [] name = "from36below38" -> <<[op |-> "LtE", with |-> <<3, 6>>, atright |-> TRUE],
                                     Compared("Lt", <<3, 8>>)>>]

Single(a) == [unary |-> "none", op |-> "single", values |-> <<a>>]

MCTests == {
  Single("Other"),
  Single("Truthy"),
  Single("A"),
  [Single("B") EXCEPT !.unary = "Not"],
  Single("C"),
  Single("above38"),
  Single("from36below38"),
  [unary |-> "none", op |-> "And", values |-> <<"True", "A">>],
  [unary |-> "USub", op |-> "Or", values |-> <<"False", "from38">>],
  [unary |-> "none", op |-> "Or", values |-> <<"TYPE_CHECKING", "False">>],
  [Single("TYPE_CHECKING") EXCEPT !.unary = "Not"]}
=============================================================================
