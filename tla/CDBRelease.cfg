CONSTANTS
  Configured <- MCConfigured
  LastVersion = 3
  DevVersions = {2}
  Installations <- MCInstallations
  StableBlock = TRUE
  Machine = "x86_64"
  WheelSpecs <- MCWheelSpecs
  Interpreters <- MCInterpreters
  TagSets <- MCTagSets
  Menu <- MCMenu
  MaxInvocations = 2
SPECIFICATION Spec
INVARIANTS
  TypeOK
  NamesResolve
  TagNamesVersion
PROPERTIES
  TaggedStamped
  SignedComplete
  DocsOfTheTask
  WheelsComplete
