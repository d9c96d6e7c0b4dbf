CONSTANTS
  t1 = t1
  t2 = t2
  p1 = p1
  w1 = w1
  w2 = w2
  c1 = c1
  Tasks = {t1, t2}
  Workers = {w1, w2}
  Closers = {c1}
  Posters = {p1}
  Capacity = 1
  Panicking = {t1}
  NoTask = NoTask
  MaxRetries = 1
SPECIFICATION FairClientSpec
PROPERTY AsyncQuietAfterClose
PROPERTY ClientCloseReturns
PROPERTY TaskResolved
CHECK_DEADLOCK FALSE
