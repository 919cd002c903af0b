SPECIFICATION Spec
CONSTANTS
  t1 = t1
  t2 = t2
  m1 = m1
  m2 = m2
  Sessions = {s1, s2}
  Tasks = {t1}
  Members = {m1}
  Assignee <- OneWorkspace
  Checked = {t1}
  Outcomes = {"continue_later"}
  Moved = {}
  Unseen = {}
  Clients = {c1}
  NoTask = NoTask
  StaleAfter = 1
  Slack = 0
  MaxTime = 3
  MaxVersion = 3
CHECK_DEADLOCK FALSE
INVARIANT StaleTimeIsNeverCredited
