SPECIFICATION ShellSpec
CONSTANTS
  NoAst = NoAst
  Top = Top
  Symid <- MCSymid
  Text <- MCText
  Kind <- MCKind
  Typeshed <- MCTypeshed
  Imports <- MCImports
  Methods <- MCMethods
  Funcs <- MCFuncs
  Edits <- MCEdits
  Faults <- MCFaults
  Entry <- MCEntry
  ShellSymid <- MCShellSymid
  Inputs <- MCInputs
  MaxCalls = 5
INVARIANT DefinedOnce
CHECK_DEADLOCK FALSE
