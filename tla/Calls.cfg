SPECIFICATION Spec
CONSTANTS
  MroOf <- MCMroOf
  Supers <- MCSupers
  Equal <- MCEqual
  Kind <- MCKind
  Arity <- MCArity
  ClassOf <- MCClassOf
  Accepts <- IsConsistent
  Allows <- Assignable
  Loose <- TooLoose
  Strict <- TooStrict
  Owner = "C"
  Heir = "D"
  Programs <- MCPrograms
  MaxArgs = 3
  MaxDepth = 2
INVARIANTS AcceptedIsLegal ReportedIsIllegal UniformUseAgrees
CHECK_DEADLOCK FALSE
