SPECIFICATION Spec
CONSTANTS
  NoAst = NoAst
  Top = Top
  Symid <- MCSymid
  Text <- MCText
  Kind <- MCKind
  Typeshed <- MCTypeshed
  Imports <- MCImports
  Methods <- MCMethods
  Funcs <- MCFuncs
  Edits <- MCEdits
  Faults <- MCFaults
  Entry <- MCEntry
  ShellSymid <- MCShellSymid
  Inputs <- MCInputs
  MaxCalls = 4
INVARIANTS TypeOK QueueDiscipline
PROPERTIES OnlyPreprocessedPromoted CallsReturn
CHECK_DEADLOCK FALSE
