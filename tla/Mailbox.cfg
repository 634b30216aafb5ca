SPECIFICATION FileSpec
CONSTANTS
  Symid <- MCSymid
  PackageOf <- MCPackageOf
  MaxMessage = 2
  MaxRound = 1
  MaxLoop = 1
  Names <- MCNames
  InitName = "__init__"
  NoName = ""
  Disks <- MCDisks
  Reporting <- MCReporting
  Unparsable <- MCUnparsable
  ManualPath <- MCManualPath
  Cwd <- MCCwd
  SitePath <- MCSitePath
  Statements <- MCStatements
INVARIANTS WellFiled FileAnswered NamesStay RelativeNames
PROPERTY InboxSpec
CHECK_DEADLOCK FALSE
