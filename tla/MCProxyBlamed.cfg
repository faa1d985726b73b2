\* The user pool as main.go sets it up: one backend, two retries, threshold 3.
\* It never fails; r1 repeats an e-mail address that is taken.
CONSTANTS
  Threshold = 3
  OpenDuration = 2
  N = 1
  Weight <- Weights1
  Algorithms = {"round-robin"}
  Hashes = {0}
  Sample = {}
  MaxActive = 2
  Flaky = {}
  Called = {}
  IdxMod = 2
  Req = {r1, r2}
  Timeout = 1
  MaxRetries = 2
  HashOf <- SameClient
  Faulty = {}
  Slow = {}
  Impatient = {}
  Rejected = {r1}
SPECIFICATION ProxySpec
INVARIANT OnlyFailingBackendsTrip
