CONSTANTS
  t1 = t1
  t2 = t2
  t3 = t3
  t4 = t4
  w1 = w1
  w2 = w2
  c1 = c1
  c2 = c2
  Tasks = {t1, t2, t3, t4}
  Workers = {w1, w2}
  Closers = {c1, c2}
  Capacity = 2
  Panicking = {}
  NoTask = NoTask
SPECIFICATION Spec
SYMMETRY Symmetry
CHECK_DEADLOCK FALSE
INVARIANT TaskIsFetched
