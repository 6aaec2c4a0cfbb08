SPECIFICATION CliSpec
CONSTANTS
  NameOrder <- MCNames
  Env <- MCEnv
  Var <- MCVar
  Provider <- MCProvider
  LabelOf <- MCLabel
  Bottom = "public"
  Legacy <- MCLegacy
  LegacyKey <- K1
  LegacyValue <- MCLegacyValue
  LegacyEnv <- MCLegacyEnv
  Inputs <- MCInputs
  Process = {p1, p2}
  MaxCommands = 4
  MaxOverlaps = 1
  MaxCrashes = 1
  Dir <- MCDir
  BaseOf <- MCBase
  Ids <- MCIds
  Place = {"h1", "h2"}
  Home = "h1"
  Timeline = {"t1"}
  MaxWsCommands = 4
  MaxTouches = 2
  Path <- MCPath
  Blob = {0, 1}
  Ignored <- MCIgnored
  Ram = {"r"}
  Disk = {"d"}
  Line = {"t"}
  MaxEdits = 2
  MaxCommits = 2
  GitRefs <- MCGitRefs
  Sanitized <- MCSanitized
  NoName = "none"
  FileSets <- MCFileSets
  NativeFiles = {"f"}
  RuleFiles = {"s"}
  Native = {"_m"}
  Options <- MCOptions
  Exports <- MCExports
  MaxGit = 2
  MaxNative = 1
  MaxRuns = 3
  MaxStops = 1
  MaxGcs = 1
  MaxOutside = 4
SYMMETRY ProcessSymmetry
INVARIANTS
  ValueKept
  RegistryFaithful
  RetiredUnreferenced
  SnapshotRoundTrip
  ImportFaithful
PROPERTY
  OthersUntouched
CHECK_DEADLOCK FALSE
