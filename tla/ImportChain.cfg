SPECIFICATION Spec
CONSTANTS
  Symid <- MCSymid
  Package <- MCPackage
  Name <- MCName
  Builtins <- MCBuiltins
  Programs <- MCPrograms
  MaxSteps = 5
INVARIANTS ImportsAgree TablesRight TablesFound OldTextGone
PROPERTY Terminates
\* Clients may stop adding and saving files.
CHECK_DEADLOCK FALSE
