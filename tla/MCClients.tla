----------------------------- MODULE MCClients -----------------------------
(***************************************************************************)
(* A session of the shell, which imports a module at the top level of a    *)
(* statement and from a method, or of a client that checks files: two      *)
(* modules that import each other, a package that is only imported (from a *)
(* method and from a function too), a name that no file has and builtins;  *)
(* texts that resolution may fail on, functions whose names are lost and a *)
(* namespace with two places.                                              *)
(***************************************************************************)
EXTENDS Shell

MCShellSymid == "__shell__"

MCSymid == {"a", "b", "p", "n", MCShellSymid, "builtins"}

MCText == {"user", "other", "torn", "lib", "loop", "cls",
           "method", "wide", "function", "tuple", "plain"}

MCKind == [s \in MCSymid |->
             CASE s = "p" -> "package" [] s = MCShellSymid -> "absent"
               [] s = "n" -> "split" [] OTHER -> "module"]

MCTypeshed == {"builtins"}

MCImports == [t \in MCText |->
                CASE t = "user" -> <<"b">>
                  [] t = "other" -> <<MCShellSymid>>
                  [] t = "lib" -> <<"a", "builtins">>
                  [] t \in {"method", "function"} -> <<"p">>
                  [] t = "wide" -> <<"n">>
                  [] OTHER -> <<>>]

MCMethods == [t \in MCText |->
                CASE t = "user" -> <<"method">> [] t = "cls" -> <<"wide">> [] OTHER -> <<>>]

MCFuncs == [t \in MCText |->
              CASE t \in {"user", "other"} -> <<"function">>
                [] t = "torn" -> <<"function", "tuple">>
                [] t = "loop" -> <<"method">>
                [] OTHER -> <<>>]

MCFaults == [t \in MCText |->
               CASE t = "loop" -> {"LoopAssertion", "StarNotFound"}
                 [] t = "cls" -> {"NoParameter"} [] OTHER -> {}]

MCEntry == [t \in MCText |->
              CASE t = "tuple" -> "class" [] t = "method" -> "any" [] OTHER -> "function"]

MCEdits == [s \in MCSymid |->
              CASE s = "a" -> {"user", "other", "torn", NoAst}
                [] s = "b" -> {"lib", "loop", NoAst}
                [] s = "p" -> {"plain", "cls", NoAst}
                [] s = "builtins" -> {"plain"}
                [] OTHER -> {NoAst}]

MCInputs == {"user", "lib", "plain"}
=============================================================================
