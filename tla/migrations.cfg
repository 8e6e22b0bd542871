SPECIFICATION Spec
CONSTANTS
  Process = {p1}
  registry <- MigrationRegistry
  Latest <- MCLatest
  Target <- MCTarget
INVARIANTS
  NoGap
  RecordedPresent
PROPERTIES
  ForwardKeeps
