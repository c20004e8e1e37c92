CONSTANTS
  e1 = e1
  e2 = e2
  e3 = e3
  p1 = p1
  p2 = p2
  Exec = {e1, e2, e3}
  Project = {p1, p2}
  Task = {t1, t2, t3}
  Debate = {d1}
  MaxAgents = 1
  Cap = 1
  QueueCap = 1
  MaxRequests = 4
  NoExec = NoExec
  NoTask = NoTask
  ProjectOf <- MCProjectOf
SPECIFICATION MCBootsSpec
SYMMETRY Symmetry
INVARIANT WaitsOnlyAtCap
