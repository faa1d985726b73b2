\* A script that sends one key three times; the first is answered 504.
CONSTANTS
  Handler = {h1, h2}
  Key = {k1}
  NoKey = NoKey
  MaxItems = 1
  MaxOrders = 3
  MaxCrashes = 0
  Patient = {}
  Expiring = {}
  Client = {c1, c2, c3}
  NoHandler = NoHandler
  MaxRetries = 1
  Hurried = {c1}
  Sequential = {k1}
SYMMETRY Symmetry
SPECIFICATION PathSpec
INVARIANT AnswersAgree
CHECK_DEADLOCK FALSE
