---------------------------- MODULE MCImportChain ----------------------------
(***************************************************************************)
(* Modules a, b, c and a package p with a module p.m, for TLC.             *)
(***************************************************************************)
EXTENDS Batches

A == <<"a">>
B == <<"b">>
C == <<"c">>
P == <<"p">>
PM == <<"p", "m">>
X == <<"x">>
M == <<"m">>
MCSymid == {A, B, C, P, PM}
MCPackage == {P}
MCName == {A, B, C, P, PM, X, M}
MCBuiltins == {C}

Plain == Text({}, {}, <<>>, <<>>)
Files(a, b, c, p, pm) == (A :> a) @@ (B :> b) @@ (C :> c) @@ (P :> p) @@ (PM :> pm)

\* `import s`, `import s as x`, `from s import x`, `from s import c as x`
Statements(modules) ==
  {Import(s, s, Whole) : s \in modules}
    \cup {Import(X, s, o) : s \in modules, o \in {Whole, X, C}}
UpToOne(modules) == {<<>>} \cup {<<st>> : st \in Statements(modules)}
Two == {<<Import(X, B, X), Import(M, C, X)>>, <<Import(X, B, X), Import(M, B, C)>>}

\* All added at once: chains, loops, two imports of one module, star imports.
Once ==
  {[text |-> Files(Text({}, {}, a, <<>>), Text({}, {}, b, star), Text({}, own, c, <<>>), Plain, Plain),
    adds |-> {{A, B, C}}, edits |-> {}] :
     a \in UpToOne({B, C}) \cup Two, b \in UpToOne({A, C}), c \in UpToOne({A, B}),
     star \in {<<>>, <<C, A>>}, own \in {{}, {X}}}

\* Added one by one, or found by an import, and b and c edited; b may then import
\* what nobody has read.
Again ==
  {[text |-> Files(Text({}, {}, a, <<>>), Text({}, {}, b, star), Text(cls, {C}, c, <<>>), Plain, Plain),
    adds |-> {{A}, {B}, {C}}, edits |-> {<<B, Text({}, {}, <<Import(M, C, X)>>, <<>>)>>, <<C, Plain>>, <<C, Text({X}, {}, <<>>, <<>>)>>}] :
     a \in UpToOne({B}) \cup Two, b \in {<<>>, <<Import(X, C, X)>>, <<Import(X, C, Whole)>>},
     c \in {<<>>, <<Import(X, A, X)>>},
     star \in {<<>>, <<C>>, <<C, A>>}, cls \in {{}, {X}}}

\* The package: `from p import m`, `from p.m import x`, `import p.m` and others.
FromPackage == {Import(M, P, M), Import(X, PM, X), Import(PM, PM, Whole), Import(X, PM, Whole),
           Import(P, P, Whole), Import(X, P, X), Import(X, P, M)}
AndFromA(st) == <<st, Import(IF st.as = X THEN M ELSE X, A, X)>>
Packages ==
  {[text |-> Files(Text({}, {}, <<a>>, <<>>), Text({}, {}, b, <<>>), Plain,
                   Text({}, pown, p, <<>>), Text({}, mown, <<>>, <<>>)),
    adds |-> {{A}, {B}, {A, B}}, edits |-> {<<PM, Plain>>}] :
     a \in FromPackage, b \in {<<>>} \cup {AndFromA(st) : st \in FromPackage},
     p \in {<<>>, <<Import(X, PM, X)>>, <<Import(M, PM, Whole)>>},
     pown \in {{}, {X}, {M}}, mown \in {{}, {X}}}

\* The package first, which has a name m or none; then who imports it and the
\* module of that name, through each other.
Shadowed ==
  {[text |-> Files(Text({}, {}, <<Import(X, P, M)>>, <<>>), Text({}, {}, Reverse(AndFromA(st)), <<>>), Plain,
                   Text({}, pown, <<>>, <<>>), Plain),
    adds |-> {{P}, {A, B}}, edits |-> {<<PM, Plain>>}] : st \in FromPackage, pown \in {{}, {M}}}

\* Names with two meanings (Muddled): a submodule's, brought by two star imports
\* of which one is of an earlier batch, or of two modules imported under one name.
Mixed ==
  {[text |-> Files(Text({}, {M, X}, <<>>, <<>>), Text({}, {X}, <<Import(X, A, X)>>, <<>>),
                   Text({}, {}, <<Import(A, A, Whole), Import(X, A, Whole), Import(P, A, Whole),
                                  Import(PM, PM, Whole)>>, <<>>),
                   Text({}, own, <<>>, star), Text({}, {}, <<Import(C, P, X)>>, <<>>)),
    adds |-> {{A}, {B, P, PM}, {C}}, edits |-> {}] :
     star \in {<<>>, <<A>>, <<A, B>>, <<P, A>>}, own \in {{}, {M}}}

MCPrograms == Once \cup Again \cup Packages \cup Shadowed \cup Mixed
=============================================================================
