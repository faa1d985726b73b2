\* One request, which nobody repeats but the gateway; the service dies once.
CONSTANTS
  Handler = {h1, h2}
  Key = {k1}
  NoKey = NoKey
  MaxItems = 1
  MaxOrders = 3
  MaxCrashes = 1
  Patient = {}
  Expiring = {}
  Client = {c1}
  NoHandler = NoHandler
  MaxRetries = 1
  Hurried = {}
  Sequential = {k1}
SYMMETRY Symmetry
SPECIFICATION PathSpec
INVARIANT OneOrderPerKey
CHECK_DEADLOCK FALSE
