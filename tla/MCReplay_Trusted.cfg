CONSTANTS
  Names <- MCNames
  Artifacts <- MCArtifacts
  Observations <- MCObservations
  Allowlists <- MCAllowlists
  MAX_SLOW_RETRIES = 2
  MAX_INTERSTITIAL_DISMISSALS = 1
  MaxResumes = 2
SPECIFICATION Spec
INVARIANT TrustedStepRan
CHECK_DEADLOCK FALSE
