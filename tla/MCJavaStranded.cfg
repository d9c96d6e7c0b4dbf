CONSTANTS
  t1 = t1
  t2 = t2
  t3 = t3
  t4 = t4
  w1 = w1
  c1 = c1
  Tasks = {t1, t2, t3}
  Workers = {w1}
  Closers = {c1}
  Capacity = 1
  NoTask = NoTask
SPECIFICATION Spec
INVARIANT NothingLeftBehind
CHECK_DEADLOCK FALSE
