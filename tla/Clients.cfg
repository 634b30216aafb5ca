SPECIFICATION ClientSpec
CONSTANTS
  NoAst = NoAst
  Top = Top
  Symid <- MCSymid
  Text <- MCText
  Kind <- MCKind
  Typeshed <- MCTypeshed
  Imports <- MCImports
  Methods <- MCMethods
  Funcs <- MCFuncs
  Edits <- MCEdits
  Faults <- MCFaults
  Entry <- MCEntry
  ShellSymid <- MCShellSymid
  Inputs <- MCInputs
  MaxCalls = 7
INVARIANTS NoException CheckedExactlyOnce ImportsAtHand InferredFromFilled StatementAnalysed
PROPERTIES RecheckQueues EventuallyChecked
CHECK_DEADLOCK FALSE
