---------------------------- MODULE StaticInfer ----------------------------
(***************************************************************************)
(* The tests of if and while: static_infer (infer/staticinfer.py), which   *)
(* decides a test from its text and the version of Python, next to what    *)
(* Python makes of the same test.                                          *)
(***************************************************************************)
EXTENDS Naturals, Sequences, FiniteSets, FiniteSetsExt, SequencesExt

CONSTANTS
  Classes,       \* an operand that stands for isinstance(x, c) is the class c
  Comparison,    \* comparisons with sys.version_info by name, each a chain of links
  RealVersion    \* what sys.version_info begins with, as <<major, minor, micro>>

\* Truthy and Falsy are names of literal type, True and False constants.
Constants == {"True", "False", "TYPE_CHECKING", "Truthy", "Falsy", "Other"}
Operand == Classes \cup DOMAIN Comparison \cup Constants
Test == [unary : {"none", "Not", "UAdd", "USub"}, op : {"single", "And", "Or"}, values : Seq(Operand)]

\* One link of a chain: sys.version_info on the left of a tuple, or on its right.
Link == [op : {"Eq", "NotEq", "Gt", "GtE", "Lt", "LtE"}, with : Seq(Nat), atright : BOOLEAN]

ASSUME StaticAssumption ==
  /\ \A name \in DOMAIN Comparison : Comparison[name] \in Seq(Link) /\ Comparison[name] # <<>>
  /\ RealVersion \in Seq(Nat) /\ Len(RealVersion) = 3
  /\ Classes \cap (DOMAIN Comparison \cup Constants) = {} /\ DOMAIN Comparison \cap Constants = {}

\* Config.python_version
PythonVersion == SubSeq(RealVersion, 1, 2)

Before(s, t) ==
  \/ IsStrictPrefix(s, t)
  \/ \E i \in DOMAIN s \cap DOMAIN t : s[i] < t[i] /\ \A j \in 1..(i - 1) : s[j] = t[j]

Compares(op, left, right) ==
  CASE op = "Eq" -> left = right
    [] op = "NotEq" -> left # right
    [] op = "Gt" -> Before(right, left)
    [] op = "GtE" -> ~Before(left, right)
    [] op = "Lt" -> Before(left, right)
    [] op = "LtE" -> ~Before(right, left)

Holds(link, version) ==
  IF link.atright THEN Compares(link.op, link.with, version)
  ELSE Compares(link.op, version, link.with)

-----------------------------------------------------------------------------
(* reach.py                                                                 *)

Neg(r) == CASE r = "TYPE_TRUE" -> "TYPE_FALSE" [] r = "TYPE_FALSE" -> "TYPE_TRUE"
            [] r = "ALWAYS_TRUE" -> "ALWAYS_FALSE" [] r = "ALWAYS_FALSE" -> "ALWAYS_TRUE"
            [] OTHER -> "UNKNOWN"

(* staticinfer.py.  ConditionInfer has the same rules for operators.        *)

\* compare_python_version and cmp_by_op: the version of the configuration has
\* two components.
CompareVersion(link) ==
  IF link.op = "NotEq" THEN "UNKNOWN"
  ELSE IF Holds(link, PythonVersion) THEN "ALWAYS_TRUE" ELSE "ALWAYS_FALSE"

\* The first link that is not true decides.
CompareChain(chain) ==
  LET others == {i \in DOMAIN chain : CompareVersion(chain[i]) # "ALWAYS_TRUE"}
  IN IF others = {} THEN "ALWAYS_TRUE" ELSE CompareVersion(chain[Min(others)])

StaticOperand(a) ==
  CASE a = "True" -> "ALWAYS_TRUE"
    [] a = "False" -> "ALWAYS_FALSE"
    [] a = "TYPE_CHECKING" -> "TYPE_TRUE"
    [] a \in DOMAIN Comparison -> CompareChain(Comparison[a])
    [] OTHER -> "UNKNOWN"

\* The operators in front.  A minus sign negates unless it stands before a
\* constant.
Unary(t, r) ==
  IF \/ t.unary \in {"none", "UAdd"}
     \/ t.unary = "USub" /\ t.op = "single" /\ t.values[1] \in {"True", "False"}
  THEN r ELSE Neg(r)

\* An operand that ends a BoolOp.  TYPE_TRUE and TYPE_FALSE end none.
Settled(op, r) == r \in {"UNKNOWN", IF op = "And" THEN "ALWAYS_FALSE" ELSE "ALWAYS_TRUE"}

\* A BoolOp that no operand ends is UNKNOWN.
StaticBoolOp(t) ==
  LET ends == {i \in DOMAIN t.values : Settled(t.op, StaticOperand(t.values[i]))}
  IN IF ends = {} THEN "UNKNOWN" ELSE StaticOperand(t.values[Min(ends)])

\* static_infer
Static(t) == Unary(t, IF t.op = "single" THEN StaticOperand(t.values[1]) ELSE StaticBoolOp(t))

-----------------------------------------------------------------------------
(* What Python makes of a test in an execution where x has the value v (as  *)
(* a type checker sees it: TYPE_CHECKING is true).                          *)

OperandOutcomes(a, v) ==
  CASE a \in Classes -> {(v = a)}
    [] a = "Other" -> BOOLEAN
    [] a \in DOMAIN Comparison -> {\A i \in DOMAIN Comparison[a] : Holds(Comparison[a][i], RealVersion)}
    [] OTHER -> {a \in {"True", "TYPE_CHECKING", "Truthy"}}

Outcomes(t, v) ==
  LET some(b) == \E i \in DOMAIN t.values : b \in OperandOutcomes(t.values[i], v)
      every(b) == \A i \in DOMAIN t.values : b \in OperandOutcomes(t.values[i], v)
      result == {b \in BOOLEAN : IF b = (t.op = "And") THEN every(b) ELSE some(b)}
  IN IF t.unary = "Not" THEN {~b : b \in result} ELSE result

\* The tests that are judged wrongly: a minus sign does not negate, and a
\* version with a micro number is neither equal to nor below one without.
SameSoFar(link) ==
  /\ IsPrefix(PythonVersion, link.with)
  /\ link.with = PythonVersion => link.op \notin (IF link.atright THEN {"LtE", "Gt"} ELSE {"GtE", "Lt"})

Misjudged(t) ==
  \/ t.unary = "USub" /\ ~(t.op = "single" /\ t.values[1] \in {"True", "False"})
  \/ \E i \in DOMAIN t.values :
       /\ t.values[i] \in DOMAIN Comparison
       /\ \E j \in DOMAIN Comparison[t.values[i]] : SameSoFar(Comparison[t.values[i]][j])
=============================================================================
