CONSTANTS
  Windows = {w1, w2}
  Members = {anna, bohdan}
  Trips = {t1}
  Points = {1, 2}
  None = None
  QueueLimit = 1
  BatchSize = 2
  WebLocks = TRUE
  MaxLate = 1
  MaxAsks = 1
SPECIFICATION Spec
INVARIANTS NoPointLost ServerRecord OneWatcher
PROPERTY CompletionDelivers
SYMMETRY Symmetry
CONSTRAINT Bound
CHECK_DEADLOCK FALSE
