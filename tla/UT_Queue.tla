------------------------------ MODULE UT_Queue ------------------------------
(***************************************************************************)
(* UT_Queue (deps/include/util/UT_Queue.h), the bounded ring that carries  *)
(* every hand-off between the framework's threads: requests to the         *)
(* process_task threads, tasks to the scatter/gather workers and, as       *)
(* UC_Queue_VL with the same push and pop, cache refreshes.                *)
(*                                                                         *)
(* One mutex guards the ring.  ONE condition variable serves the threads   *)
(* blocked on a full queue and those blocked on an empty one, and it is    *)
(* broadcast only by the push that makes the queue non-empty and by the    *)
(* pop that makes it non-full.  A critical section is one step: it runs    *)
(* with the mutex held from its first test to the unlock or to the wait    *)
(* that releases it.  The non-blocking calls test the size once without    *)
(* the mutex and again with it, so they take two steps.                    *)
(***************************************************************************)
EXTENDS Integers

CONSTANTS Producers,    \* threads that call PushData
          Consumers,    \* threads that call PopData
          ProducersNB,  \* threads that call PushData_NB
          ConsumersNB,  \* threads that call PopData_NB
          T_Key,        \* the keys that are queued
          MaxQueueSize  \* m_lMaxQueueSize, and m_lNowQueueSize with it

ASSUME QueueAssumption ==
  /\ MaxQueueSize \in Nat \ {0}
  /\ T_Key # {}
  /\ Producers \cap (Consumers \cup ProducersNB \cup ConsumersNB) = {}
  /\ Consumers \cap (ProducersNB \cup ConsumersNB) = {}
  /\ ProducersNB \cap ConsumersNB = {}

VARIABLES m_tpQueue, m_lBegPos, m_lEndPos, m_lCurQueueSize,
          pc,   \* where a thread is: out of the queue, at the unlocked test,
                \* at the mutex, or asleep on m_cond
          key,  \* the key a thread pushes, or the key it popped last
          unheard  \* history: threads that slept on m_cond while a
                   \* non-blocking call ended what they wait for, and were
                   \* not woken since

vars == <<m_tpQueue, m_lBegPos, m_lEndPos, m_lCurQueueSize, pc, key, unheard>>

Pushers == Producers \cup ProducersNB
Poppers == Consumers \cup ConsumersNB
NonBlocking == ProducersNB \cup ConsumersNB
Threads == Pushers \cup Poppers
Slots == 0 .. MaxQueueSize - 1

TypeOK ==
  /\ m_tpQueue \in [Slots -> T_Key]
  /\ m_lBegPos \in Slots
  /\ m_lEndPos \in Slots
  /\ m_lCurQueueSize \in 0 .. MaxQueueSize
  /\ pc \in [Threads -> {"out", "check", "enter", "wait"}]
  /\ \A t \in Threads : pc[t] = "check" => t \in NonBlocking
  /\ \A t \in Threads : pc[t] = "wait" => t \notin NonBlocking
  /\ key \in [Threads -> T_Key]
  /\ unheard \subseteq Threads

\* The array comes from new[] and is never read before it is written.
Init ==
  /\ m_tpQueue \in [Slots -> T_Key]
  /\ m_lBegPos = 0
  /\ m_lEndPos = 0
  /\ m_lCurQueueSize = 0
  /\ pc = [t \in Threads |-> "out"]
  /\ key \in [Threads -> T_Key]
  /\ unheard = {}
-----------------------------------------------------------------------------
IsQueueFull == m_lCurQueueSize = MaxQueueSize
IsQueueEmpty == m_lCurQueueSize = 0

Asleep(S) == {u \in S : pc[u] = "wait"}

Goto(t, where) ==
  /\ pc' = [pc EXCEPT ![t] = where]
  /\ unheard' = unheard \ {t}

\* Thread t unlocks and returns; everyone asleep on m_cond moves to the mutex
\* when it has broadcast.
Leave(t, broadcast) ==
  /\ pc' = [u \in Threads |->
              IF u = t THEN "out"
              ELSE IF broadcast /\ pc[u] = "wait" THEN "enter" ELSE pc[u]]
  /\ unheard' = IF broadcast THEN {} ELSE unheard

\* Thread t unlocks and returns without a word to the sleepers S, whose wait
\* it has just ended.
LeaveQuietly(t, S) ==
  /\ pc' = [pc EXCEPT ![t] = "out"]
  /\ unheard' = unheard \cup Asleep(S)

WrapForgotten(pos) == pos

\* m_lEndPos %= m_lNowQueueSize
Wrap(pos) == pos % MaxQueueSize

Store(t) ==
  /\ m_tpQueue' = [m_tpQueue EXCEPT ![m_lEndPos] = key[t]]
  /\ m_lEndPos' = Wrap(m_lEndPos + 1)
  /\ m_lCurQueueSize' = m_lCurQueueSize + 1
  /\ UNCHANGED <<m_lBegPos, key>>

FetchNewest(t) ==
  /\ key' = [key EXCEPT ![t] = m_tpQueue[Wrap(m_lEndPos + MaxQueueSize - 1)]]
  /\ m_lBegPos' = Wrap(m_lBegPos + 1)
  /\ m_lCurQueueSize' = m_lCurQueueSize - 1
  /\ UNCHANGED <<m_tpQueue, m_lEndPos>>

Fetch(t) ==
  /\ key' = [key EXCEPT ![t] = m_tpQueue[m_lBegPos]]
  /\ m_lBegPos' = Wrap(m_lBegPos + 1)
  /\ m_lCurQueueSize' = m_lCurQueueSize - 1
  /\ UNCHANGED <<m_tpQueue, m_lEndPos>>

Ring == <<m_tpQueue, m_lBegPos, m_lEndPos, m_lCurQueueSize, key>>
-----------------------------------------------------------------------------
(***************************************************************************)
(* PushData and PopData.  A thread that was woken competes for the mutex   *)
(* again and repeats its test.                                             *)
(***************************************************************************)
CallPush(t, k) ==
  /\ t \in Pushers /\ pc[t] = "out"
  /\ key' = [key EXCEPT ![t] = k]
  /\ Goto(t, IF t \in NonBlocking THEN "check" ELSE "enter")
  /\ UNCHANGED <<m_tpQueue, m_lBegPos, m_lEndPos, m_lCurQueueSize>>

CallPop(t) ==
  /\ t \in Poppers /\ pc[t] = "out"
  /\ Goto(t, IF t \in NonBlocking THEN "check" ELSE "enter")
  /\ UNCHANGED Ring

PushNeverSignals == FALSE

PushSignals == m_lCurQueueSize' = 1

PopNeverSignals == FALSE

PopSignalsWhenEmpty == m_lCurQueueSize' = 0

PopSignals == m_lCurQueueSize' + 1 = MaxQueueSize

PushData(t) ==
  /\ t \in Producers /\ pc[t] = "enter"
  /\ \/ /\ IsQueueFull
        /\ Goto(t, "wait")
        /\ UNCHANGED Ring
     \/ /\ ~IsQueueFull
        /\ Store(t)
        /\ Leave(t, PushSignals)

PopData(t) ==
  /\ t \in Consumers /\ pc[t] = "enter"
  /\ \/ /\ IsQueueEmpty
        /\ Goto(t, "wait")
        /\ UNCHANGED Ring
     \/ /\ ~IsQueueEmpty
        /\ Fetch(t)
        /\ Leave(t, PopSignals)

\* pthread_cond_wait may return without a broadcast.
SpuriousWakeup(t) ==
  /\ pc[t] = "wait"
  /\ Goto(t, "enter")
  /\ UNCHANGED Ring
-----------------------------------------------------------------------------
(***************************************************************************)
(* PushData_NB and PopData_NB: neither ever signals m_cond.                *)
(***************************************************************************)
CheckNB(t) ==
  /\ pc[t] = "check"
  /\ Goto(t, IF (t \in Pushers /\ IsQueueFull) \/ (t \in Poppers /\ IsQueueEmpty)
             THEN "out" ELSE "enter")
  /\ UNCHANGED Ring

PushUnchecked_NB(t) ==
  /\ t \in ProducersNB /\ pc[t] = "enter"
  /\ Store(t)
  /\ LeaveQuietly(t, IF IsQueueEmpty THEN Consumers ELSE {})

PushData_NB(t) ==
  /\ t \in ProducersNB /\ pc[t] = "enter"
  /\ \/ /\ IsQueueFull
        /\ UNCHANGED Ring
        /\ LeaveQuietly(t, {})
     \/ /\ ~IsQueueFull
        /\ Store(t)
        /\ LeaveQuietly(t, IF IsQueueEmpty THEN Consumers ELSE {})

PopData_NB(t) ==
  /\ t \in ConsumersNB /\ pc[t] = "enter"
  /\ \/ /\ IsQueueEmpty
        /\ UNCHANGED Ring
        /\ LeaveQuietly(t, {})
     \/ /\ ~IsQueueEmpty
        /\ Fetch(t)
        /\ LeaveQuietly(t, IF IsQueueFull THEN Producers ELSE {})
-----------------------------------------------------------------------------
Next ==
  \/ \E t \in Pushers : \E k \in T_Key : CallPush(t, k)
  \/ \E t \in Poppers : CallPop(t)
  \/ \E t \in Producers : PushData(t)
  \/ \E t \in Consumers : PopData(t)
  \/ \E t \in Producers \cup Consumers : SpuriousWakeup(t)
  \/ \E t \in NonBlocking : CheckNB(t)
  \/ \E t \in ProducersNB : PushData_NB(t)
  \/ \E t \in ConsumersNB : PopData_NB(t)

(***************************************************************************)
(* The consumers are the for(;;) loops of thread_process and               *)
(* thread_flushcache, which call PopData again as soon as they can; a      *)
(* thread that got the mutex runs its critical section to the end.  Nobody *)
(* is obliged to push, and no spurious wakeup is promised.                 *)
(***************************************************************************)
Fairness ==
  /\ \A t \in Consumers : WF_vars(CallPop(t) \/ PopData(t))
  /\ \A t \in Producers : WF_vars(PushData(t))

Spec == Init /\ [][Next]_vars /\ Fairness
-----------------------------------------------------------------------------
(***************************************************************************)
(* The broadcast conditions of PushData and PopData look too weak: they    *)
(* fire on one transition only, and m_cond mixes both kinds of waiters.    *)
(* They suffice for the blocking calls: a thread is asleep only while the  *)
(* condition it waits for still holds, however pushes and pops interleave  *)
(* with threads on their way into the wait.  On a queue used with both     *)
(* kinds of calls the only threads asleep for nothing are those a          *)
(* non-blocking call passed by: it never broadcasts.                       *)
(***************************************************************************)
NoLostWakeup ==
  \A t \in Threads \ unheard :
    pc[t] = "wait" => \/ t \in Producers /\ IsQueueFull
                      \/ t \in Consumers /\ IsQueueEmpty

\* The begin index, the end index and the size agree on which slots are used.
RingConsistent == m_lEndPos = Wrap(m_lBegPos + m_lCurQueueSize)

\* The queued keys, oldest first, read off the ring.
Contents ==
  [i \in 1 .. m_lCurQueueSize |-> m_tpQueue[Wrap(m_lBegPos + (i - 1))]]

Abstract == INSTANCE BoundedQueue WITH
              Putters <- Pushers, Takers <- Poppers, Key <- T_Key,
              Capacity <- MaxQueueSize, queue <- Contents,
              pending <- {t \in Threads : pc[t] # "out"}, arg <- key

(***************************************************************************)
(* The ring implements a FIFO queue of MaxQueueSize keys: wrapping indices *)
(* never reorder, lose or duplicate a key, a blocked call takes effect     *)
(* only when there is room (a key), and a non-blocking call gives up only  *)
(* on a full (empty) queue.                                                *)
(***************************************************************************)
ImplementsBoundedQueue == Abstract!AbsSpec

Occupied(i) == (i - m_lBegPos) % MaxQueueSize < m_lCurQueueSize

(***************************************************************************)
(* While the consumer loops run, no key stays in the ring for ever: the    *)
(* consumers never all sleep on a non-empty queue, unless a non-blocking   *)
(* push passed by every one of them.                                       *)
(***************************************************************************)
EveryKeyIsPopped ==
  \A i \in Slots :
    Occupied(i) ~> (~Occupied(i) \/ Consumers \subseteq unheard)

(***************************************************************************)
(* A producer asleep on a full queue is woken by the pop that makes room,  *)
(* unless that was a non-blocking one or no consumer is left to make room. *)
(***************************************************************************)
BlockedPushIsWoken ==
  \A t \in Producers :
    pc[t] = "wait" ~> \/ pc[t] # "wait"
                      \/ t \in unheard
                      \/ Consumers \subseteq unheard
=============================================================================
