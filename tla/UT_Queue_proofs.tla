--------------------------- MODULE UT_Queue_proofs ---------------------------
(***************************************************************************)
(* Theorems about UT_Queue for every queue size and every set of threads.  *)
(***************************************************************************)
EXTENDS UT_Queue, Sequences, TLAPS

\* The inductive invariant: types, and the agreement of the two indices with
\* the size that makes the ring readable as a sequence.
IInv == TypeOK /\ RingConsistent

\* Positions at most one lap ahead wrap by one subtraction.
LEMMA WrapOnce ==
  ASSUME NEW x \in 0 .. 2 * MaxQueueSize - 1
  PROVE  /\ Wrap(x) = IF x < MaxQueueSize THEN x ELSE x - MaxQueueSize
         /\ Wrap(x) \in Slots
BY QueueAssumption DEF Wrap, Slots

\* The slot a push writes is the next free one.
LEMMA EndAdvances ==
  ASSUME NEW beg \in Slots, NEW cur \in Slots
  PROVE  Wrap(Wrap(beg + cur) + 1) = Wrap(beg + (cur + 1))
BY WrapOnce, QueueAssumption DEF Slots

\* After a pop, offset i from the new begin is offset i + 1 from the old one.
LEMMA BegAdvances ==
  ASSUME NEW beg \in Slots, NEW i \in Slots
  PROVE  Wrap(Wrap(beg + 1) + i) = Wrap(beg + (i + 1))
BY WrapOnce, QueueAssumption DEF Slots

\* Different offsets within one lap are different slots.
LEMMA SlotsDiffer ==
  ASSUME NEW beg \in Slots, NEW i \in Slots, NEW j \in Slots, i # j
  PROVE  Wrap(beg + i) # Wrap(beg + j)
BY WrapOnce, QueueAssumption DEF Slots

-----------------------------------------------------------------------------
LEMMA InitIInv == Init => IInv
<1>1. 0 \in Slots /\ Wrap(0) = 0
  BY WrapOnce, QueueAssumption DEF Slots
<1>2. QED
  BY <1>1, QueueAssumption DEF Init, IInv, TypeOK, RingConsistent

\* A push that found room keeps the indices consistent.
LEMMA StoreKeeps ==
  ASSUME IInv, NEW t \in Threads, ~IsQueueFull, Store(t)
  PROVE  /\ m_tpQueue' \in [Slots -> T_Key]
         /\ m_lBegPos' \in Slots /\ m_lEndPos' \in Slots
         /\ m_lCurQueueSize' \in 0 .. MaxQueueSize
         /\ key' \in [Threads -> T_Key]
         /\ RingConsistent'
<1>1. m_lCurQueueSize \in Slots /\ m_lCurQueueSize + 1 \in 0 .. MaxQueueSize
  BY QueueAssumption DEF IsQueueFull, IInv, TypeOK, Slots
<1>2. m_lEndPos' = Wrap(m_lBegPos + (m_lCurQueueSize + 1))
  BY <1>1, EndAdvances DEF Store, RingConsistent, IInv, TypeOK
<1>3. m_lEndPos' \in Slots
  BY <1>1, <1>2, WrapOnce, QueueAssumption DEF Slots, IInv, TypeOK
<1>4. RingConsistent'
  BY <1>2 DEF Store, RingConsistent
<1>5. QED
  BY <1>1, <1>3, <1>4 DEF Store, IInv, TypeOK

\* A pop that found a key keeps the indices consistent.
LEMMA FetchKeeps ==
  ASSUME IInv, NEW t \in Threads, ~IsQueueEmpty, Fetch(t)
  PROVE  /\ m_tpQueue' \in [Slots -> T_Key]
         /\ m_lBegPos' \in Slots /\ m_lEndPos' \in Slots
         /\ m_lCurQueueSize' \in 0 .. MaxQueueSize
         /\ key' \in [Threads -> T_Key]
         /\ RingConsistent'
<1>1. /\ m_lCurQueueSize - 1 \in Slots
      /\ (m_lCurQueueSize - 1) + 1 = m_lCurQueueSize
  BY QueueAssumption DEF IsQueueEmpty, IInv, TypeOK, Slots
<1>2. Wrap(m_lBegPos' + m_lCurQueueSize') = Wrap(m_lBegPos + m_lCurQueueSize)
  BY <1>1, BegAdvances DEF Fetch, IInv, TypeOK
<1>3. m_lBegPos' \in Slots
  BY WrapOnce, QueueAssumption DEF Fetch, Slots, IInv, TypeOK
<1>4. RingConsistent'
  BY <1>2 DEF Fetch, RingConsistent, IInv
<1>5. QED
  BY <1>1, <1>3, <1>4, QueueAssumption DEF Fetch, IInv, TypeOK, Slots

\* Every step preserves the inductive invariant.
LEMMA NextIInv == IInv /\ [Next]_vars => IInv'
<1> SUFFICES ASSUME IInv, [Next]_vars PROVE IInv'
  OBVIOUS
<1> USE QueueAssumption DEF Threads, Pushers, Poppers, NonBlocking
<1> DEFINE PcOK == /\ pc \in [Threads -> {"out", "check", "enter", "wait"}]
                   /\ \A u \in Threads : pc[u] = "check" => u \in NonBlocking
                   /\ \A u \in Threads : pc[u] = "wait" => u \notin NonBlocking
                   /\ unheard \subseteq Threads
<1>1. ASSUME NEW t \in Pushers, NEW k \in T_Key, CallPush(t, k) PROVE IInv'
  BY <1>1 DEF CallPush, Goto, IInv, TypeOK, RingConsistent
<1>2. ASSUME NEW t \in Poppers, CallPop(t) PROVE IInv'
  BY <1>2 DEF CallPop, Goto, Ring, IInv, TypeOK, RingConsistent
<1>3. ASSUME NEW t \in Producers, PushData(t) PROVE IInv'
  <2>1. CASE IsQueueFull
    BY <1>3, <2>1 DEF PushData, Goto, Ring, IInv, TypeOK, RingConsistent
  <2>2. CASE ~IsQueueFull
    <3>1. Store(t) /\ Leave(t, PushSignals)
      BY <1>3, <2>2 DEF PushData
    <3>2. PcOK'
      BY <3>1 DEF Leave, IInv, TypeOK
    <3>3. QED
      BY <2>2, <3>1, <3>2, StoreKeeps DEF IInv, TypeOK
  <2>3. QED
    BY <2>1, <2>2
<1>4. ASSUME NEW t \in Consumers, PopData(t) PROVE IInv'
  <2>1. CASE IsQueueEmpty
    BY <1>4, <2>1 DEF PopData, Goto, Ring, IInv, TypeOK, RingConsistent
  <2>2. CASE ~IsQueueEmpty
    <3>1. Fetch(t) /\ Leave(t, PopSignals)
      BY <1>4, <2>2 DEF PopData
    <3>2. PcOK'
      BY <3>1 DEF Leave, IInv, TypeOK
    <3>3. QED
      BY <2>2, <3>1, <3>2, FetchKeeps DEF IInv, TypeOK
  <2>3. QED
    BY <2>1, <2>2
<1>5. ASSUME NEW t \in Producers \cup Consumers, SpuriousWakeup(t) PROVE IInv'
  BY <1>5 DEF SpuriousWakeup, Goto, Ring, IInv, TypeOK, RingConsistent
<1>6. ASSUME NEW t \in NonBlocking, CheckNB(t) PROVE IInv'
  BY <1>6 DEF CheckNB, Goto, Ring, IInv, TypeOK, RingConsistent
<1>7. ASSUME NEW t \in ProducersNB, PushData_NB(t) PROVE IInv'
  <2>1. PcOK'
    BY <1>7 DEF PushData_NB, LeaveQuietly, Asleep, IInv, TypeOK
  <2>2. CASE IsQueueFull
    BY <1>7, <2>1, <2>2 DEF PushData_NB, Ring, IInv, TypeOK, RingConsistent
  <2>3. CASE ~IsQueueFull
    BY <1>7, <2>1, <2>3, StoreKeeps DEF PushData_NB, IInv, TypeOK
  <2>4. QED
    BY <2>2, <2>3
<1>8. ASSUME NEW t \in ConsumersNB, PopData_NB(t) PROVE IInv'
  <2>1. PcOK'
    BY <1>8 DEF PopData_NB, LeaveQuietly, Asleep, IInv, TypeOK
  <2>2. CASE IsQueueEmpty
    BY <1>8, <2>1, <2>2 DEF PopData_NB, Ring, IInv, TypeOK, RingConsistent
  <2>3. CASE ~IsQueueEmpty
    BY <1>8, <2>1, <2>3, FetchKeeps DEF PopData_NB, IInv, TypeOK
  <2>4. QED
    BY <2>2, <2>3
<1>9. CASE UNCHANGED vars
  BY <1>9 DEF vars, IInv, TypeOK, RingConsistent
<1>10. QED
  BY <1>1, <1>2, <1>3, <1>4, <1>5, <1>6, <1>7, <1>8, <1>9 DEF Next

\* Type correctness and consistent indices, in every reachable state.
THEOREM TypeCorrect == Spec => [](TypeOK /\ RingConsistent)
<1>1. Spec => []IInv
  BY InitIInv, NextIInv, PTL DEF Spec
<1>2. QED
  BY <1>1, PTL DEF IInv

-----------------------------------------------------------------------------
(***************************************************************************)
(* Since version 1.101 the queue also has calls that never signal m_cond.  *)
(* A step never leaves behind a sleeper that should have been woken,       *)
(* except one that a non-blocking call has just passed by.                 *)
(***************************************************************************)
LEMMA NextWakeup ==
  ASSUME IInv, NoLostWakeup, [Next]_vars
  PROVE  NoLostWakeup'
<1> USE QueueAssumption DEF Threads, Pushers, Poppers, NonBlocking,
                            NoLostWakeup, IsQueueFull, IsQueueEmpty
<1>1. ASSUME NEW t \in Pushers, NEW k \in T_Key, CallPush(t, k)
      PROVE  NoLostWakeup'
  BY <1>1 DEF CallPush, Goto, IInv, TypeOK
<1>2. ASSUME NEW t \in Poppers, CallPop(t) PROVE NoLostWakeup'
  BY <1>2 DEF CallPop, Goto, Ring, IInv, TypeOK
<1>3. ASSUME NEW t \in Producers, PushData(t) PROVE NoLostWakeup'
  <2>1. CASE IsQueueFull
    BY <1>3, <2>1 DEF PushData, Goto, Ring, IInv, TypeOK
  <2>2. CASE ~IsQueueFull
    <3>1. Store(t) /\ Leave(t, PushSignals)
      BY <1>3, <2>2 DEF PushData
    <3>2. /\ \A u \in Threads : pc'[u] = "wait" => pc[u] = "wait" /\ ~PushSignals
          /\ ~PushSignals => unheard' = unheard
      BY <3>1 DEF Leave, IInv, TypeOK
    <3>3. ASSUME NEW u \in Threads \ unheard', pc'[u] = "wait"
          PROVE  FALSE
      <4>1. m_lCurQueueSize = 0 /\ m_lCurQueueSize' # 1
        BY <2>2, <3>2, <3>3 DEF PushSignals, IInv, TypeOK
      <4>2. QED
        BY <3>1, <4>1 DEF Store
    <3>4. QED
      BY <3>3
  <2>3. QED
    BY <2>1, <2>2
<1>4. ASSUME NEW t \in Consumers, PopData(t) PROVE NoLostWakeup'
  <2>1. CASE IsQueueEmpty
    BY <1>4, <2>1 DEF PopData, Goto, Ring, IInv, TypeOK
  <2>2. CASE ~IsQueueEmpty
    <3>1. Fetch(t) /\ Leave(t, PopSignals)
      BY <1>4, <2>2 DEF PopData
    <3>2. /\ \A u \in Threads : pc'[u] = "wait" => pc[u] = "wait" /\ ~PopSignals
          /\ ~PopSignals => unheard' = unheard
      BY <3>1 DEF Leave, IInv, TypeOK
    <3>3. ASSUME NEW u \in Threads \ unheard', pc'[u] = "wait"
          PROVE  FALSE
      <4>1. m_lCurQueueSize = MaxQueueSize /\ m_lCurQueueSize' + 1 # MaxQueueSize
        BY <2>2, <3>2, <3>3 DEF PopSignals, IInv, TypeOK
      <4>2. QED
        BY <3>1, <4>1 DEF Fetch, IInv, TypeOK
    <3>4. QED
      BY <3>3
  <2>3. QED
    BY <2>1, <2>2
<1>5. ASSUME NEW t \in Producers \cup Consumers, SpuriousWakeup(t)
      PROVE  NoLostWakeup'
  BY <1>5 DEF SpuriousWakeup, Goto, Ring, IInv, TypeOK
<1>6. ASSUME NEW t \in NonBlocking, CheckNB(t) PROVE NoLostWakeup'
  BY <1>6 DEF CheckNB, Goto, Ring, IInv, TypeOK
<1>7. ASSUME NEW t \in ProducersNB, PushData_NB(t) PROVE NoLostWakeup'
  <2>1. /\ \A u \in Threads : pc'[u] = "wait" => pc[u] = "wait"
        /\ unheard \subseteq unheard'
    BY <1>7 DEF PushData_NB, LeaveQuietly, IInv, TypeOK
  <2>2. CASE m_lCurQueueSize = MaxQueueSize
    BY <1>7, <2>1, <2>2 DEF PushData_NB, Ring
  <2>3. CASE m_lCurQueueSize # MaxQueueSize
    <3>1. ASSUME NEW u \in Threads \ unheard', pc'[u] = "wait"
          PROVE  FALSE
      <4>1. pc[u] = "wait" /\ u \in Consumers /\ m_lCurQueueSize = 0
        BY <2>1, <2>3, <3>1
      <4>2. u \in unheard'
        BY <1>7, <2>3, <4>1 DEF PushData_NB, LeaveQuietly, Asleep
      <4>3. QED
        BY <3>1, <4>2
    <3>2. QED
      BY <3>1
  <2>4. QED
    BY <2>2, <2>3
<1>8. ASSUME NEW t \in ConsumersNB, PopData_NB(t) PROVE NoLostWakeup'
  <2>1. /\ \A u \in Threads : pc'[u] = "wait" => pc[u] = "wait"
        /\ unheard \subseteq unheard'
    BY <1>8 DEF PopData_NB, LeaveQuietly, IInv, TypeOK
  <2>2. CASE m_lCurQueueSize = 0
    BY <1>8, <2>1, <2>2 DEF PopData_NB, Ring
  <2>3. CASE m_lCurQueueSize # 0
    <3>1. ASSUME NEW u \in Threads \ unheard', pc'[u] = "wait"
          PROVE  FALSE
      <4>1. /\ pc[u] = "wait" /\ u \in Producers
            /\ m_lCurQueueSize = MaxQueueSize
        BY <2>1, <2>3, <3>1
      <4>2. u \in unheard'
        BY <1>8, <2>3, <4>1 DEF PopData_NB, LeaveQuietly, Asleep
      <4>3. QED
        BY <3>1, <4>2
    <3>2. QED
      BY <3>1
  <2>4. QED
    BY <2>2, <2>3
<1>9. CASE UNCHANGED vars
  BY <1>9 DEF vars
<1>10. QED
  BY <1>1, <1>2, <1>3, <1>4, <1>5, <1>6, <1>7, <1>8, <1>9 DEF Next

(***************************************************************************)
(* PushData and PopData lose no wakeup, for any number of threads and any  *)
(* queue size: a thread that no non-blocking call has passed by sleeps on  *)
(* m_cond only while the queue is full (a producer) or empty (a consumer). *)
(***************************************************************************)
THEOREM WakeupsAreNotLost == Spec => []NoLostWakeup
<1>1. Init => NoLostWakeup
  BY DEF Init, NoLostWakeup
<1>2. IInv /\ NoLostWakeup /\ [Next]_vars => NoLostWakeup'
  BY NextWakeup
<1>3. QED
  BY <1>1, <1>2, InitIInv, NextIInv, PTL DEF Spec

\* Only a queue on which both kinds of calls meet can pass a sleeper by.
Unmixed == /\ ProducersNB = {} \/ Consumers = {}
           /\ ConsumersNB = {} \/ Producers = {}

(***************************************************************************)
(* On a queue where the two kinds of calls are not mixed nobody is ever    *)
(* passed by.  The framework only ever uses the blocking calls, so for its *)
(* queues NoLostWakeup has no exception.                                   *)
(***************************************************************************)
THEOREM NobodyIsPassedBy ==
  ASSUME Unmixed
  PROVE  Spec => [](unheard = {})
<1>1. Init => unheard = {}
  BY DEF Init
<1>2. unheard = {} /\ [Next]_vars => (unheard = {})'
  <2> SUFFICES ASSUME unheard = {}, [Next]_vars PROVE unheard' = {}
    OBVIOUS
  <2>1. ASSUME NEW t \in ProducersNB, PushData_NB(t) PROVE unheard' = {}
    BY <2>1, Unmixed DEF PushData_NB, LeaveQuietly, Asleep, Unmixed
  <2>2. ASSUME NEW t \in ConsumersNB, PopData_NB(t) PROVE unheard' = {}
    BY <2>2, Unmixed DEF PopData_NB, LeaveQuietly, Asleep, Unmixed
  <2>3. QED
    BY <2>1, <2>2
       DEF Next, vars, CallPush, CallPop, PushData, PopData, SpuriousWakeup,
           CheckNB, Goto, Leave
<1>3. QED
  BY <1>1, <1>2, PTL DEF Spec

-----------------------------------------------------------------------------
\* A segment of the ring, and so the contents, is a sequence of keys.
LEMMA SegmentType ==
  ASSUME NEW ring \in [Slots -> T_Key], NEW beg \in Slots,
         NEW cur \in 0 .. MaxQueueSize
  PROVE  LET s == [i \in 1 .. cur |-> ring[Wrap(beg + (i - 1))]]
         IN  s \in Seq(T_Key) /\ Len(s) = cur
<1> DEFINE s == [i \in 1 .. cur |-> ring[Wrap(beg + (i - 1))]]
<1>1. \A i \in 1 .. cur : Wrap(beg + (i - 1)) \in Slots
  BY WrapOnce, QueueAssumption DEF Slots
<1>2. s \in [1 .. cur -> T_Key]
  BY <1>1
<1>3. cur \in Nat
  BY QueueAssumption
<1>4. s \in Seq(T_Key) /\ Len(s) = cur
  BY <1>2, <1>3
<1>5. QED
  BY <1>4

LEMMA ContentsType ==
  ASSUME IInv
  PROVE  Contents \in Seq(T_Key) /\ Len(Contents) = m_lCurQueueSize
BY SegmentType DEF Contents, IInv, TypeOK

\* A push appends to the contents: the slot it writes holds no older key.
LEMMA StoreAppends ==
  ASSUME IInv, IInv', NEW t \in Threads, ~IsQueueFull, Store(t)
  PROVE  Contents' = Append(Contents, key[t])
<1>1. m_lCurQueueSize \in Slots /\ m_lCurQueueSize' = m_lCurQueueSize + 1
  BY QueueAssumption DEF IsQueueFull, IInv, TypeOK, Slots, Store
<1>2. m_lEndPos = Wrap(m_lBegPos + m_lCurQueueSize) /\ m_lBegPos' = m_lBegPos
  BY DEF Store, IInv, RingConsistent
<1>3. ASSUME NEW i \in 1 .. m_lCurQueueSize + 1
      PROVE  Contents'[i] = Append(Contents, key[t])[i]
  <2>1. Contents'[i] = m_tpQueue'[Wrap(m_lBegPos + (i - 1))]
    BY <1>1, <1>2 DEF Contents
  <2>2. CASE i = m_lCurQueueSize + 1
    <3>1. Wrap(m_lBegPos + (i - 1)) = m_lEndPos
      BY <1>1, <1>2, <2>2 DEF IInv, TypeOK
    <3>2. Contents'[i] = key[t]
      BY <2>1, <3>1 DEF Store, IInv, TypeOK
    <3>3. QED
      BY <2>2, <3>2, ContentsType
  <2>3. CASE i \in 1 .. m_lCurQueueSize
    <3>1. i - 1 \in Slots /\ i - 1 # m_lCurQueueSize
      BY <1>1, <2>3, QueueAssumption DEF Slots
    <3>2. Wrap(m_lBegPos + (i - 1)) # m_lEndPos
      BY <1>1, <1>2, <3>1, SlotsDiffer DEF IInv, TypeOK
    <3>3. Wrap(m_lBegPos + (i - 1)) \in Slots
      BY <3>1, WrapOnce, QueueAssumption DEF IInv, TypeOK, Slots
    <3>4. Contents'[i] = m_tpQueue[Wrap(m_lBegPos + (i - 1))]
      BY <2>1, <3>2, <3>3 DEF Store, IInv, TypeOK
    <3>5. Contents[i] = m_tpQueue[Wrap(m_lBegPos + (i - 1))]
      BY <2>3 DEF Contents
    <3>6. QED
      BY <2>3, <3>4, <3>5, ContentsType
  <2>4. i = m_lCurQueueSize + 1 \/ i \in 1 .. m_lCurQueueSize
    BY <1>1, QueueAssumption DEF Slots
  <2>5. QED
    BY <2>2, <2>3, <2>4
<1>4. Contents \in Seq(T_Key) /\ Len(Contents) = m_lCurQueueSize
  BY ContentsType
<1>5. Contents' \in Seq(T_Key) /\ Len(Contents') = m_lCurQueueSize'
  BY SegmentType DEF Contents, IInv, TypeOK
<1>6. key[t] \in T_Key
  BY DEF IInv, TypeOK
<1>7. QED
  BY <1>1, <1>3, <1>4, <1>5, <1>6

\* A pop removes and returns the head of the contents.
LEMMA FetchTakesHead ==
  ASSUME IInv, IInv', NEW t \in Threads, ~IsQueueEmpty, Fetch(t)
  PROVE  /\ Contents # <<>>
         /\ key' = [key EXCEPT ![t] = Head(Contents)]
         /\ Contents' = Tail(Contents)
<1>1. /\ m_lCurQueueSize \in 1 .. MaxQueueSize
      /\ m_lCurQueueSize' = m_lCurQueueSize - 1
      /\ m_lBegPos' = Wrap(m_lBegPos + 1)
      /\ m_tpQueue' = m_tpQueue
  BY DEF IsQueueEmpty, IInv, TypeOK, Fetch
<1>2. Contents \in Seq(T_Key) /\ Len(Contents) = m_lCurQueueSize
  BY ContentsType
<1>3. Contents' \in Seq(T_Key) /\ Len(Contents') = m_lCurQueueSize'
  BY SegmentType DEF Contents, IInv, TypeOK
<1>4. Head(Contents) = m_tpQueue[m_lBegPos]
  <2>1. Contents[1] = m_tpQueue[Wrap(m_lBegPos + (1 - 1))]
    BY <1>1 DEF Contents
  <2>2. Wrap(m_lBegPos + (1 - 1)) = m_lBegPos
    BY WrapOnce, QueueAssumption DEF IInv, TypeOK, Slots
  <2>3. QED
    BY <1>1, <1>2, <2>1, <2>2
<1>5. ASSUME NEW i \in 1 .. m_lCurQueueSize - 1
      PROVE  Contents'[i] = Tail(Contents)[i]
  <2>1. /\ i - 1 \in Slots /\ (i - 1) + 1 = i
        /\ i + 1 \in 1 .. m_lCurQueueSize /\ (i + 1) - 1 = i
    BY <1>1, QueueAssumption DEF Slots
  <2>2. Contents'[i] = m_tpQueue[Wrap(Wrap(m_lBegPos + 1) + (i - 1))]
    BY <1>1 DEF Contents
  <2>3. Wrap(Wrap(m_lBegPos + 1) + (i - 1)) = Wrap(m_lBegPos + i)
    BY <2>1, BegAdvances DEF IInv, TypeOK
  <2>4. Contents[i + 1] = m_tpQueue[Wrap(m_lBegPos + i)]
    BY <2>1 DEF Contents
  <2>5. QED
    BY <1>1, <1>2, <2>1, <2>2, <2>3, <2>4
<1>6. key' = [key EXCEPT ![t] = Head(Contents)]
  BY <1>4 DEF Fetch
<1>7. Contents # <<>>
  BY <1>1, <1>2
<1>8. Contents' = Tail(Contents)
  <2>1. Tail(Contents) \in Seq(T_Key) /\ Len(Tail(Contents)) = m_lCurQueueSize - 1
    BY <1>1, <1>2, <1>7
  <2>2. QED
    BY <1>1, <1>3, <1>5, <2>1
<1>9. QED
  BY <1>6, <1>7, <1>8

-----------------------------------------------------------------------------
\* The queue starts as an empty queue with no call pending.
LEMMA InitAbstract == Init => Abstract!AbsInit
<1> SUFFICES ASSUME Init PROVE Abstract!AbsInit
  OBVIOUS
<1>1. Contents = <<>>
  BY DEF Init, Contents
<1>2. QED
  BY <1>1 DEF Init, Abstract!AbsInit, Threads

\* Every step of the ring is a step of the bounded queue, or changes nothing
\* a caller can see.
LEMMA NextAbstract ==
  ASSUME IInv, IInv', [Next]_vars
  PROVE  [Abstract!AbsNext]_(Abstract!absVars)
<1> DEFINE Pending == {u \in Threads : pc[u] # "out"}
<1> USE QueueAssumption DEF Threads, Pushers, Poppers, NonBlocking
<1> DEFINE Returns(t) == Pending' = Pending \ {t}
<1>1. ASSUME NEW t \in Threads, pc[t] # "out", pc[t] # "wait"
      PROVE  /\ \A b \in BOOLEAN : Leave(t, b) => Returns(t)
             /\ \A S \in SUBSET Threads : LeaveQuietly(t, S) => Returns(t)
  BY <1>1 DEF Leave, LeaveQuietly, IInv, TypeOK
<1>2. ASSUME NEW t \in Threads, pc[t] # "out", NEW w, w # "out", Goto(t, w)
      PROVE  Pending' = Pending
  BY <1>2 DEF Goto, IInv, TypeOK
<1>3. ASSUME NEW t \in Threads, NEW w, w # "out", Goto(t, w)
      PROVE  Pending' = Pending \cup {t}
  BY <1>3 DEF Goto, IInv, TypeOK
<1>4. ASSUME Ring' = Ring
      PROVE  Contents' = Contents /\ key' = key
  BY <1>4 DEF Ring, Contents
<1>5. Contents \in Seq(T_Key) /\ Len(Contents) = m_lCurQueueSize
  BY ContentsType
<1>6. ASSUME NEW t \in Pushers, NEW k \in T_Key, CallPush(t, k)
      PROVE  Abstract!AbsCallPut(t, k)
  <2>1. Pending' = Pending \cup {t}
    BY <1>6, <1>3 DEF CallPush
  <2>2. Contents' = Contents
    BY <1>6 DEF CallPush, Contents
  <2>3. QED
    BY <1>6, <2>1, <2>2 DEF CallPush, Abstract!AbsCallPut
<1>7. ASSUME NEW t \in Poppers, CallPop(t)
      PROVE  Abstract!AbsCallTake(t)
  <2>1. Pending' = Pending \cup {t}
    BY <1>7, <1>3 DEF CallPop
  <2>2. QED
    BY <1>7, <1>4, <2>1 DEF CallPop, Abstract!AbsCallTake
<1>8. ASSUME NEW t \in Pushers, pc[t] = "enter", ~IsQueueFull, Store(t),
             Returns(t)
      PROVE  Abstract!AbsPut(t)
  <2>1. Pending' = Pending \ {t}
    BY <1>8
  <2>2. Contents' = Append(Contents, key[t])
    BY <1>8, StoreAppends
  <2>3. Len(Contents) < MaxQueueSize
    BY <1>5, <1>8 DEF IsQueueFull, IInv, TypeOK
  <2>4. QED
    BY <1>8, <2>1, <2>2, <2>3 DEF Store, Abstract!AbsPut
<1>9. ASSUME NEW t \in Poppers, pc[t] = "enter", ~IsQueueEmpty, Fetch(t),
             Returns(t)
      PROVE  Abstract!AbsTake(t)
  <2>1. Pending' = Pending \ {t}
    BY <1>9
  <2>2. QED
    BY <1>9, <2>1, FetchTakesHead DEF Abstract!AbsTake
<1>10. ASSUME NEW t \in NonBlocking, Pending' = Pending \ {t},
              pc[t] # "out", Ring' = Ring,
              (t \in Pushers /\ IsQueueFull) \/ (t \in Poppers /\ IsQueueEmpty)
       PROVE  Abstract!AbsGiveUp(t)
  <2>1. t \in Poppers /\ IsQueueEmpty => Contents = <<>>
    BY <1>5 DEF IsQueueEmpty
  <2>2. t \in Pushers /\ IsQueueFull => Len(Contents) = MaxQueueSize
    BY <1>5 DEF IsQueueFull
  <2>3. QED
    BY <1>4, <1>10, <2>1, <2>2 DEF Abstract!AbsGiveUp
<1>11. ASSUME NEW t \in Producers, PushData(t)
       PROVE  Abstract!AbsPut(t) \/ UNCHANGED Abstract!absVars
  <2>1. CASE IsQueueFull
    <3>1. Goto(t, "wait") /\ Ring' = Ring
      BY <1>11, <2>1 DEF PushData, Ring
    <3>2. Pending' = Pending
      BY <1>11, <1>2, <3>1 DEF PushData
    <3>3. QED
      BY <1>4, <3>1, <3>2 DEF Abstract!absVars
  <2>2. CASE ~IsQueueFull
    BY <1>1, <1>8, <1>11, <2>2 DEF PushData, PushSignals
  <2>3. QED
    BY <2>1, <2>2
<1>12. ASSUME NEW t \in Consumers, PopData(t)
       PROVE  Abstract!AbsTake(t) \/ UNCHANGED Abstract!absVars
  <2>1. CASE IsQueueEmpty
    <3>1. Goto(t, "wait") /\ Ring' = Ring
      BY <1>12, <2>1 DEF PopData, Ring
    <3>2. Pending' = Pending
      BY <1>12, <1>2, <3>1 DEF PopData
    <3>3. QED
      BY <1>4, <3>1, <3>2 DEF Abstract!absVars
  <2>2. CASE ~IsQueueEmpty
    BY <1>1, <1>9, <1>12, <2>2 DEF PopData, PopSignals
  <2>3. QED
    BY <2>1, <2>2
<1>13. ASSUME NEW t \in Producers \cup Consumers, SpuriousWakeup(t)
       PROVE  UNCHANGED Abstract!absVars
  <2>1. Pending' = Pending
    BY <1>2, <1>13 DEF SpuriousWakeup
  <2>2. QED
    BY <1>4, <1>13, <2>1 DEF SpuriousWakeup, Ring, Abstract!absVars
<1>14. ASSUME NEW t \in NonBlocking, CheckNB(t)
       PROVE  Abstract!AbsGiveUp(t) \/ UNCHANGED Abstract!absVars
  <2> DEFINE GivesUp == \/ t \in Pushers /\ IsQueueFull
                        \/ t \in Poppers /\ IsQueueEmpty
  <2>1. Ring' = Ring /\ pc[t] = "check"
    BY <1>14 DEF CheckNB, Ring
  <2>2. CASE GivesUp
    <3>1. Pending' = Pending \ {t}
      BY <1>14, <2>2 DEF CheckNB, Goto, IInv, TypeOK
    <3>2. QED
      BY <1>10, <2>1, <2>2, <3>1
  <2>3. CASE ~GivesUp
    <3>1. Goto(t, "enter")
      BY <1>14, <2>3 DEF CheckNB
    <3>2. Pending' = Pending
      BY <1>2, <2>1, <3>1
    <3>3. QED
      BY <1>4, <2>1, <3>2 DEF Abstract!absVars
  <2>4. QED
    BY <2>2, <2>3
<1>15. ASSUME NEW t \in ProducersNB, PushData_NB(t)
       PROVE  Abstract!AbsPut(t) \/ Abstract!AbsGiveUp(t)
  <2>1. Pending' = Pending \ {t} /\ pc[t] = "enter"
    BY <1>1, <1>15 DEF PushData_NB
  <2>2. CASE IsQueueFull
    BY <1>10, <1>15, <2>1, <2>2 DEF PushData_NB, Ring
  <2>3. CASE ~IsQueueFull
    BY <1>8, <1>15, <2>1, <2>3 DEF PushData_NB
  <2>4. QED
    BY <2>2, <2>3
<1>16. ASSUME NEW t \in ConsumersNB, PopData_NB(t)
       PROVE  Abstract!AbsTake(t) \/ Abstract!AbsGiveUp(t)
  <2>1. Pending' = Pending \ {t} /\ pc[t] = "enter"
    BY <1>1, <1>16 DEF PopData_NB
  <2>2. CASE IsQueueEmpty
    BY <1>10, <1>16, <2>1, <2>2 DEF PopData_NB, Ring
  <2>3. CASE ~IsQueueEmpty
    BY <1>9, <1>16, <2>1, <2>3 DEF PopData_NB
  <2>4. QED
    BY <2>2, <2>3
<1>17. CASE UNCHANGED vars
  BY <1>17 DEF vars, Contents, Abstract!absVars
<1>18. QED
  BY <1>6, <1>7, <1>11, <1>12, <1>13, <1>14, <1>15, <1>16, <1>17
     DEF Next, Abstract!AbsNext

(***************************************************************************)
(* For every capacity and any number of callers of either kind, the ring   *)
(* behaves as a bounded FIFO queue: PushData, PopData and their            *)
(* non-blocking forms neither lose, duplicate nor reorder a key, and only  *)
(* give up on a queue that is full (empty) at that moment.                 *)
(***************************************************************************)
THEOREM Refinement == Spec => ImplementsBoundedQueue
<1>1. Spec => []IInv
  BY InitIInv, NextIInv, PTL DEF Spec
<1>2. IInv /\ IInv' /\ [Next]_vars => [Abstract!AbsNext]_(Abstract!absVars)
  BY NextAbstract
<1>3. QED
  BY <1>1, <1>2, InitAbstract, PTL DEF Spec, ImplementsBoundedQueue, Abstract!AbsSpec
=============================================================================
