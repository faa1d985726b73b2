\* Two calls whose budget equals the cooldown, as in the order pool, a buffer of
\* one event and two fetches that overtake each other.  No symmetry: liveness.
CONSTANTS
  Threshold = 1
  OpenDuration = 1
  Timeout = 1
  Call = {c1, c2}
  Buffer = 1
  Fetch = {f1, f2}
SPECIFICATION DashSpec
INVARIANTS DashTypeOK LogEndsTrue LateCallsAreOut
PROPERTY PageCatchesUp
