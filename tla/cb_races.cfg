SPECIFICATION FairSpec
CONSTANTS
  Caller = {a, b}
  NoCaller = NoCaller
  MaxFailures = 2
  ResetTimeout = 1
  TicksPerSecond = 2
INVARIANTS TypeOK ClosedUnderLimit
PROPERTIES ProbeWaitsForReset Recovery
