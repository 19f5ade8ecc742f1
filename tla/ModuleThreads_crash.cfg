CONSTANTS
  NoType = 0
  Updates <- MCUpdates
  Kind <- MCKind
  Idle = {"n1"}
  Topic <- MCTopic
  NetThreads = {"network"}
  Requests = {"n1", "n2"}
  Class <- MCClass
  GrpcUpdates = {"n1"}
  MaxFd = 1
  Interval = 1
  Period = 1
  StampMod = 5
  MaxTime = 3
  MaxCrashes = 1
  Kafka = "kafka"
  NoUpdate = "none"
SPECIFICATION Spec
INVARIANTS TypeOK EveryUpdateIsAccounted FlushedIsSafe AppliedTwiceOnlyAfterCrash ToldTheTruth FlushIsDue
PROPERTIES RequestsAreServed
CHECK_DEADLOCK FALSE
