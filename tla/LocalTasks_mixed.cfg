CONSTANTS
  c1 = c1  c2 = c2  d1 = d1  d2 = d2
  chat = chat  doc = doc
  s1 = s1  s2 = s2
  Chats = {c1, c2}
  Saves = {d1, d2}
  Item = {chat, doc}
  ItemOf <- MixedItemOf
  Stopper = {s1, s2}
  NoTask = NoTask
  Casts <- MixedCasts
SPECIFICATION CastSpec
INVARIANTS RunningListed EndedIsReaped StopOnce
PROPERTIES NotFoundIsStopping StopReturns
CHECK_DEADLOCK FALSE
