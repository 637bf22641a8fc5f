SPECIFICATION FairSpec
CONSTANTS
  r1 = r1
  r2 = r2
  g1 = g1
  g2 = g2
  p1 = p1
  p2 = p2
  t1 = t1
  t2 = t2
  t3 = t3
  None = None
  Requests = {r1, r2}
  Nodeless = {r2}
  Loops = {l1}
  Senders = {g1, g2}
  Pollers = {p1, p2}
  Tasks = {t1, t2, t3}
  Refuses = TRUE
  MaxApprovals = 1
  MaxDeclines = 1
  MaxRestarts = 1
  MaxFailures = 1
PROPERTIES
  ApprovedSettles
