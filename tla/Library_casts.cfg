CONSTANTS
  a = a  b = b  c1 = c1  c2 = c2
  f1 = f1  f2 = f2  f3 = f3  t1 = t1  t2 = t2  u1 = u1  u2 = u2
  None = None  Null = Null  Gone = Gone
  User = {u1, u2}
  Name = {a, b}
  Tag = {t1, t2}
  Chat = {c1, c2}
  Folder = {f1, f2, f3}
  MaxRequests = 5
SPECIFICATION CastSpec
INVARIANTS ChatsListed SiblingsDiffer  TagsUsed 
CHECK_DEADLOCK FALSE
