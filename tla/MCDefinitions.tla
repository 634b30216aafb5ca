---------------------------- MODULE MCDefinitions ----------------------------
(***************************************************************************)
(* Programs of a few statements over two names: the body of a method with  *)
(* a parameter "x", and a special module whose symbol table has "x".       *)
(***************************************************************************)
EXTENDS Definitions

MCName == {"x", "y"}

MCMethod ==
  [outside |-> {"x"}, special |-> FALSE, predefined |-> {}, method |-> TRUE]
MCModule ==
  [outside |-> {}, special |-> FALSE, predefined |-> {}, method |-> FALSE]
MCSpecial == [MCModule EXCEPT !.special = TRUE, !.predefined = {"x"}]

MCBlocks == {MCMethod, MCSpecial}
=============================================================================
