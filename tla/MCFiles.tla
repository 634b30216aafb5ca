------------------------------ MODULE MCFiles ------------------------------
(***************************************************************************)
(* Small file systems, each with something that can go wrong: a directory  *)
(* without __init__.py with a file of a known name, a package beside a     *)
(* module of the same name, two projects, stub files, a package in a       *)
(* package, a search path entry that is itself a package.                  *)
(***************************************************************************)
EXTENDS Files

MCCwd == <<"w">>
MCManualPath == <<<<"x", "k">>>>
MCSitePath == <<<<"t">>>>

Py(d, n) == File(d, n, "py")
Pyi(d, n) == File(d, n, "pyi")
I == "__init__"

MCNames == {"w", "x", "y", "t", "k", "n", "p", "q", "a", "m", I}

MCReporting ==
  { {Py(<<"w">>, "a"), Py(<<"w", "p">>, I)}, {Py(<<"w", "n">>, "m")} }
MCDisks == MCReporting \cup
  { {Py(<<"w">>, "a"), Py(<<"w", "n">>, "a"), Py(<<"w", "n">>, "m")},
    {Py(<<"w">>, "a"), Py(<<"w", "p">>, I), Py(<<"w", "p">>, "m"), Py(<<"w", "n">>, "m")},
    {Py(<<"x">>, "q"), Py(<<"y", "q">>, I), Py(<<"y", "q">>, "m"), Pyi(<<"t">>, "a"),
     Py(<<"y">>, "a")},
    {Py(<<"w", "p">>, I), Pyi(<<"w", "p">>, I), Py(<<"w", "p">>, "m"), Py(<<"w">>, "m")},
    {Pyi(<<"w", "p">>, I), Py(<<"w", "p">>, "m"), Py(<<"w">>, "a"), Pyi(<<"w">>, "a")},
    {Py(<<"w", "n">>, "m"), Py(<<"x", "n">>, "a"), Py(<<"x">>, "a"), Py(<<"x">>, "m")},
    {Py(<<"w", "p">>, I), Py(<<"w", "p", "q">>, I), Py(<<"w", "p", "q">>, "m"), Py(<<"w", "p">>, "m")},
    {Py(<<"x", "k">>, I), Py(<<"x", "k">>, "a"), Py(<<"w">>, "m")} }
MCUnparsable == {Py(<<"w", "p">>, "m")}

\* What a file can be called from anywhere, and an import at the top.
Places == UNION {{Append(f.dir, f.base) : f \in disk_} : disk_ \in MCDisks}
MCSymid ==
  (UNION {Suffixes(x) : x \in UNION {Prefixes(Tail(y)) : y \in Places}} \ {<<>>})
    \cup {<<"", n>> : n \in {"a", "m"}}
MCPackageOf == [s \in {s \in MCSymid : Len(s) > 1 /\ s[Len(s)] = I} |-> SubSeq(s, 1, Len(s) - 1)]

Stmt(l, m, n) == [level |-> l, module |-> m, name |-> n]
MCStatements ==
  { Stmt(0, <<"n", "m">>, ""), Stmt(0, <<"a">>, ""), Stmt(0, <<"q">>, "m"),
    Stmt(0, <<"p">>, "m"), Stmt(1, <<>>, "m"), Stmt(2, <<"m">>, "a"), Stmt(2, <<>>, "m") }
=============================================================================
