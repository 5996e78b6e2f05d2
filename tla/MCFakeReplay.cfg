CONSTANTS
  Names <- MCNames
  Artifacts <- MCArtifacts
  Observations <- MCObservations
  Allowlists <- MCAllowlists
  MAX_SLOW_RETRIES = 3
  MAX_INTERSTITIAL_DISMISSALS = 3
  MaxResumes = 2
  MEMBERS <- MCMEMBERS
  Inputs <- MCInputs
  SlowTurns <- MCSlowTurns
SPECIFICATION FakeSpec
INVARIANTS BankTypeOK Verdict RecoveryVisible
PROPERTIES HiddenBalanceStops PausedRunCompletes
CHECK_DEADLOCK FALSE
