SPECIFICATION Spec
CONSTANTS
  Users = {u1, u2}
  Docs = {d1, d2}
  OldUsers = {u1}
  QueryThreads = {q1, q2}
  FlushThreads = {f1}
  FlushLen = 1
  FlushCount = 0
  SaveCount = 1
  MaxReturn = 1
  Capacity = 1
  UninitFlush = {2, 3}
  MayFail = TRUE
  DiskFails = TRUE
  MaxQueries = 3
  NoUser = NoUser
INVARIANTS TypeOK FlagIsHeldOnce FillIsConserved PushedIsSentIfSet
PROPERTIES EveryQueryIsAnswered NewUserIsFilled
CHECK_DEADLOCK FALSE
