CONSTANTS
  NoType = 0
  a1 = a1
  a2 = a2
  x = x
  Bodies <- MCBodies
  Body <- MCBody
  Clients = {a1, a2, x}
  MaySend <- MCMaySend
  UserOf <- MCUserOf
  Listeners = {l1, l2}
  Processors = {p1, p2}
  Nodes = {n1, n2}
  QueueSize = 1
  Room = 100
  Modules = {m1}
  Refused = {"long", "badword", "unknown", "garbage"}
  MaxFaults = 1
  NoNode = none
  NoClient = nobody
  NoBody = nothing
SPECIFICATION Spec
INVARIANTS TypeOK NodesHaveOneOwner RepliesGoToTheirClient CodeZeroMeansAll AlgorithmsFollowCandidate AnsweredActionIsInHistory ReadersFindTheirFields
PROPERTIES EveryRequestIsAnswered
CHECK_DEADLOCK FALSE
