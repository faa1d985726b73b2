\* Four calls at once, the threshold of the code (3).  No symmetry: liveness.
CONSTANTS
  Threshold = 3
  OpenDuration = 3
  Timeout = 2
  Call = {c1, c2, c3, c4}
SPECIFICATION FairSpec
INVARIANTS TypeOK ClosedBelowThreshold OpenOutlastsCalls HalfOpenExclusive
PROPERTIES ContractSpec OpenEnds HalfOpenEnds
