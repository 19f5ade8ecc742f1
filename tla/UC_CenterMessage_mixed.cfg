SPECIFICATION Spec
CONSTANTS
  Callers = {c1, c2}
  Senders = {s1}
  Receivers = {r1}
  Workers = {w1, w2}
  AllCount = 2
  QueueLen = 2
  Node = {n1, n2}
  Handle = {h1, h2}
  MaxLost = 1
  NoNode = NoNode
INVARIANTS TypeOK NoUseAfterRelease CombineSeesEverySlot ResultsAreOwn NodesAccountedFor
PROPERTY EveryPollEnds
