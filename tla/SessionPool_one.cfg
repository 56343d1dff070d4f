CONSTANTS
  i1 = i1  i2 = i2  s1 = s1  s2 = s2  s3 = s3  u1 = u1  u2 = u2
  NoUser = NoUser  Absent = Absent
  Instance = {i1}
  Sid = {s1, s2, s3}
  User = {u1, u2}
  Home <- HomeOne
  Shared = FALSE  Crashes = TRUE
SPECIFICATION Spec
INVARIANTS SessionListed ClosedLeaves ActiveUsersSound
CHECK_DEADLOCK FALSE
