SPECIFICATION FileSpec
CONSTANTS
  Symid <- MCSymid
  PackageOf <- MCPackageOf
  MaxMessage = 2
  MaxRound = 1
  MaxLoop = 1
  Names <- MCNames
  InitName = "__init__"
  NoName = ""
  Disks <- MCReporting
  Reporting <- MCReporting
  Unparsable <- MCUnparsable
  ManualPath <- MCManualPath
  Cwd <- MCCwd
  SitePath <- MCSitePath
  Statements <- MCStatements
INVARIANT OldMessagesFlushed
CHECK_DEADLOCK FALSE
