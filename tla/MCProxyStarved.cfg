\* What the instructions say of an open breaker, under least-response-time.
CONSTANTS
  Threshold = 1
  OpenDuration = 2
  N = 2
  Weight <- Weights2
  Algorithms = {"least-response-time"}
  Hashes = {0}
  Sample = {1, 2}
  MaxActive = 2
  Flaky = {}
  Called = {}
  IdxMod = 2
  Req = {r1}
  Timeout = 1
  MaxRetries = 0
  HashOf <- SameClient
  Faulty = {1}
  Slow = {1}
  Impatient = {}
  Rejected = {}
SPECIFICATION FairProxySpec
PROPERTY RecoveredIsProbed
