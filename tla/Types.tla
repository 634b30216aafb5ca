-------------------------------- MODULE Types --------------------------------
(***************************************************************************)
(* What a TypeIns is (typesys.py, predefined.py): its kind, which stands   *)
(* for its Python class and for the special templates; the name of a       *)
(* class, or of a value if it is a literal; and its bindlist.              *)
(***************************************************************************)

Ins(kind, temp, bind) == [kind |-> kind, temp |-> temp, bind |-> bind]

AnyIns == Ins("any", "", <<>>)
NoneIns == Ins("none", "", <<>>)
Class(c) == Ins("class", c, <<>>)
Bound(c, bind) == Ins("class", c, bind)
Union(bind) == Ins("union", "", bind)
Optional(t) == Ins("optional", "", <<t>>)
Literal(v) == Ins("literal", v, <<>>)
Type(c) == Ins("type", c, <<>>)
=============================================================================
