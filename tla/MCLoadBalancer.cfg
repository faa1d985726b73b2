\* All seven algorithms over three backends, with switches among them.
CONSTANTS
  Threshold = 1
  OpenDuration = 1
  N = 3
  Weight <- Weights3
  Algorithms = {"round-robin", "least-connections", "random",
    "weighted-round-robin", "ip-hash", "least-response-time",
    "power-of-two-choices"}
  Hashes = {0}
  Sample = {1}
  MaxActive = 1
  Flaky = {1}
  Called = {2, 3}
  IdxMod = 6
SPECIFICATION Spec
INVARIANTS TypeOK WeightsCancel WeightsBounded
PROPERTY AsksEveryHealthyBackendOnce
