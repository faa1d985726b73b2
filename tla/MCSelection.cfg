\* Exact shares: the product pool, two full rounds of its weights.
CONSTANTS
  Threshold = 1
  OpenDuration = 1
  N = 4
  Weight <- ProductWeights
  Algorithms = {"round-robin", "weighted-round-robin", "least-connections",
    "least-response-time"}
  Hashes = {0}
  Sample = {1}
  MaxActive = 1
  Flaky = {1, 2, 3, 4}
  Called = {1, 3}
  IdxMod = 12
  Busy = {1}
  MaxPicks = 18
SPECIFICATION SelSpec
INVARIANT SharedOut
