SPECIFICATION Spec
CONSTANTS
  q1 = q1
  c0 = c0
  c3 = c3
  c4 = c4
  DocIds = {"d1", "d2", "d3", "d4", "d5", "d6", "d7", "d8"}
  Docs <- OneClientDocs
  NoPush = NoPush
  NoFile = NoFile
  SyncFlag = TRUE
  BufLen = 7
  Threads = {t1}
  Pushes = {}
  ClientPushes <- OneClientPush
  MaxCrashes = 0
INVARIANT ReportedAsPushed
CHECK_DEADLOCK FALSE
