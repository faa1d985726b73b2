\* The user pool (one backend), two requests, one retry.  No symmetry: liveness.
CONSTANTS
  Threshold = 2
  OpenDuration = 2
  N = 1
  Weight <- Weights1
  Algorithms = {"round-robin", "ip-hash"}
  Hashes = {0}
  Sample = {1}
  MaxActive = 2
  Flaky = {}
  Called = {}
  IdxMod = 1
  Req = {r1, r2}
  Timeout = 1
  MaxRetries = 1
  HashOf <- SameClient
  Faulty = {1}
  Slow = {1}
  Impatient = {r1}
  Rejected = {}
SPECIFICATION FairProxySpec
INVARIANTS ProxyTypeOK ActiveCountsCalls OneProbe
PROPERTIES EveryBreakerWorks EveryRequestAnswered LoneBackendIsProbedAgain
