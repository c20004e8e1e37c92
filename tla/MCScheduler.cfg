CONSTANTS
  e1 = e1
  e2 = e2
  e3 = e3
  p1 = p1
  p2 = p2
  Exec = {e1, e3}
  Project = {p1, p2}
  Task = {t1, t2}
  Debate = {d1}
  MaxAgents = 1
  Cap = 1
  QueueCap = 1
  MaxRequests = 3
  NoExec = NoExec
  NoTask = NoTask
  ProjectOf <- MCProjectOf
SPECIFICATION MCSpec
INVARIANTS TypeOK PermitConservation SlotAccounting
PROPERTIES ImplementsAdmission PermitProgress CancelledEnds
