CONSTANTS
  t1 = t1
  t2 = t2
  p1 = p1
  w1 = w1
  c1 = c1
  c2 = c2
  Tasks = {t1, t2}
  Workers = {w1}
  Closers = {c1, c2}
  Posters = {p1}
  Capacity = 1
  NoTask = NoTask
  Free = Free
  MaxRetries = 1
  MaxPooled = 1
SPECIFICATION ClientSpec
INVARIANT MetricsExact
INVARIANT AcceptedIsResolved
INVARIANT AtMostTwoLateRequests
INVARIANT ConnectionsOutlivePosts
CHECK_DEADLOCK FALSE
