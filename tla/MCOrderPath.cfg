\* A request and its repetition, one retry each, a crash, a deadline that passes.
CONSTANTS
  Handler = {h1, h2}
  Key = {k1}
  NoKey = NoKey
  MaxItems = 1
  MaxOrders = 3
  MaxCrashes = 1
  Patient = {}
  Expiring = {}
  Client = {c1, c2}
  NoHandler = NoHandler
  MaxRetries = 1
  Hurried = {c1}
  Sequential = {k1}
SYMMETRY Symmetry
SPECIFICATION PathSpec
INVARIANTS PathTypeOK OneOrderPerRequest ErrorsMeanNoOrder OneOrderPerSettledKey
\* Every request may have been answered, with nobody left to ask.
CHECK_DEADLOCK FALSE
