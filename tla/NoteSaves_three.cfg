CONSTANTS
  d1 = d1  d2 = d2  d3 = d3  doc = doc  s1 = s1  s2 = s2
  Chats = {}
  Saves = {d1, d2, d3}
  Item = {doc}
  ItemOf <- NoteItemOf
  Stopper = {1, 2, 3, 4}
  NoTask = NoTask
  Doc = doc
  SaveOf <- ThreeSaves
  SidOf <- Authors
SPECIFICATION NotesFairSpec
INVARIANTS LatestSaved LastCreatedSaved
 
CHECK_DEADLOCK FALSE
