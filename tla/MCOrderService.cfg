\* A patient client and one that is not, a crash, an entry that expires.
CONSTANTS
  Handler = {h1, h2}
  Key = {k1, k2}
  NoKey = none
  MaxItems = 2
  MaxOrders = 3
  MaxCrashes = 1
  Patient = {k1}
  Expiring = {k2}
SPECIFICATION Spec
SYMMETRY HandlerSymmetry
INVARIANTS TypeOK WholeOrders AnswersAreStored OneOrderWhileUp
