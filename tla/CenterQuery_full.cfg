SPECIFICATION Spec
CONSTANTS
  Users = {u1, u2}
  Docs = {d1, d2}
  OldUsers = {u1}
  QueryThreads = {q1, q2}
  FlushThreads = {f1}
  FlushLen = 1
  FlushCount = 1
  SaveCount = 2
  MaxReturn = 1
  Capacity = 2
  UninitFlush = {1, 2}
  MayFail = FALSE
  DiskFails = FALSE
  MaxQueries = 3
  NoUser = NoUser
PROPERTY EveryNewUser
CHECK_DEADLOCK FALSE
