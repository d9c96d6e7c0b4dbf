CONSTANTS
  t1 = t1
  t2 = t2
  t3 = t3
  t4 = t4
  w1 = w1
  w2 = w2
  c1 = c1
  c2 = c2
  Tasks = {t1, t2, t3, t4}
  Workers = {w1, w2}
  Closers = {c1, c2}
  Capacity = 2
  Panicking = {t1}
  NoTask = NoTask
SPECIFICATION Spec
SYMMETRY Symmetry
INVARIANT TypeOK
INVARIANT CleanCloseRanEverything
INVARIANT CloserNotForgotten
INVARIANT WorkerNotForgotten
INVARIANT OpenTaskIsFetched
INVARIANT DropsAccounted
PROPERTY ImplementsContract
CHECK_DEADLOCK FALSE
