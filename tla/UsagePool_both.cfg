CONSTANTS
  i1 = i1  i2 = i2  m1 = m1  m2 = m2  s1 = s1  s2 = s2  s3 = s3
  Free = Free  Dead = Dead
  Instance = {i1, i2}
  Model = {m1, m2}
  Sid = {s1, s2, s3}
  Home <- Homes
  Timeout = 1  LockTTL = 3
  Stores = {"memory", "Redis"}
  MaxCrash = 1  MaxPing = 3
SPECIFICATION CastSpec
INVARIANTS ListedInTime OneCleaner
PROPERTY Drains
