CONSTANTS
  Producers = {p1}
  Consumers = {c1, c2}
  ProducersNB = {p2}
  ConsumersNB = {c3}
  T_Key = {k1, k2}
  MaxQueueSize = 2
SPECIFICATION Spec
INVARIANTS TypeOK NoLostWakeup
PROPERTIES ImplementsBoundedQueue EveryKeyIsPopped BlockedPushIsWoken
