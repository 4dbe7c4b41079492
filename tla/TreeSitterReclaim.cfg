SPECIFICATION FairSpec
CONSTANTS
  Thread = {a}
  Collector = gc
  Language = {l1}
  Parser = {p1}
  Tree = {t1}
  Node = {n1, n2}
  Query = {q1}
  Cursor = {c1}
  None = None
  a = a
  l1 = l1
  p1 = p1
  t1 = t1
  n1 = n1
  n2 = n2
  q1 = q1
  c1 = c1
INVARIANTS OutlivesItsUsers TypeOK CountsAreExact NothingDangles
PROPERTY EverythingIsReclaimed
