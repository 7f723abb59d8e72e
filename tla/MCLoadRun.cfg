SPECIFICATION FairSpec
CHECK_DEADLOCK FALSE
CONSTANTS
  Workloads <- MCWorkloads
  CliLimits <- MCCliLimits
  OperatorFiles <- MCOperatorFiles
  MaxLifetime = 5
  Stop <- MCStop
  Pass <- MCPass
  K6Wall = 2
  MaxTime = 10
  SetupAllowance = 1
  Grace = 1
  GuardInterval = 1
  MaxStale = 1
  MaxProof = 3
  ClosedSetup = 1
  ClosedGrace = 1
  KillAttempts = 2
INVARIANTS
  LeaseBoundsTraffic
  PaceHolds
  ResultIsEarned
PROPERTY
  RunEnds
