\* A flood of one or two and a warm-up next to a proxied request, over two
\* backends: the first is slow, both answer the flood with errors or a 500.
CONSTANTS
  Threshold = 1
  OpenDuration = 2
  N = 2
  Weight <- Weights2
  Algorithms = {"least-connections"}
  Hashes = {0}
  Sample = {}
  MaxActive = 3
  Flaky = {}
  Called = {}
  IdxMod = 2
  Req = {r1, f1, f2}
  Timeout = 1
  MaxRetries = 0
  HashOf <- SameClient
  Faulty = {}
  Slow = {1}
  Impatient = {}
  Rejected = {f1, f2}
  Flooder = {f1, f2}
  Warmer = {w1}
  Preloaded = {1}
SYMMETRY Symmetry
SPECIFICATION SimSpec
INVARIANTS SimTypeOK ActiveCountsAllCalls OneProbe FloodLeavesNothing
PROPERTY EveryBreakerWorks
