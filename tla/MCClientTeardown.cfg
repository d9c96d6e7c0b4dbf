CONSTANTS
  t1 = t1
  t2 = t2
  p1 = p1
  w1 = w1
  c1 = c1
  c2 = c2
  SDKs = {"ruby", "dotnet", "node"}
  Tasks = {t1, t2}
  Posts = {p1}
  Workers = {w1}
  Closers = {c1, c2}
  Capacity = 1
  MaxRetries = 1
  NoTask = NoTask
  Exited = Exited
  Died = Died
SPECIFICATION FairSpec
INVARIANT ReleaseFollowsDrain
INVARIANT LossesTold
PROPERTY QuietAfterClose
PROPERTY AdmittedEnds
PROPERTY ClosesEnd
CHECK_DEADLOCK FALSE
