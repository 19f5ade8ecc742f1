---------------------------- MODULE BoundedQueue ----------------------------
(***************************************************************************)
(* What a bounded blocking queue promises to its callers: a call that was  *)
(* made and has not returned is pending, a pending put takes effect at the *)
(* tail when there is room, a pending take removes the head when there is  *)
(* one, and a non-blocking call may instead give up, but only on a queue   *)
(* that really is full (empty).  There is no ring, no mutex and no         *)
(* condition variable here; UT_Queue.tla, which models the code, is shown  *)
(* to implement this specification.                                        *)
(***************************************************************************)
EXTENDS Naturals, Sequences

CONSTANTS Putters,      \* threads that put
          Takers,       \* threads that take
          NonBlocking,  \* the threads among them whose calls may give up
          Key,          \* what is queued
          Capacity      \* how many keys fit

VARIABLES queue,    \* the queued keys, oldest first
          pending,  \* the threads with a call in progress
          arg       \* the key a thread puts, or the key it took last

absVars == <<queue, pending, arg>>

AbsInit ==
  /\ queue = <<>>
  /\ pending = {}
  /\ arg \in [Putters \cup Takers -> Key]

AbsCallPut(t, k) ==
  /\ t \in Putters \ pending
  /\ pending' = pending \cup {t}
  /\ arg' = [arg EXCEPT ![t] = k]
  /\ UNCHANGED queue

AbsCallTake(t) ==
  /\ t \in Takers \ pending
  /\ pending' = pending \cup {t}
  /\ UNCHANGED <<queue, arg>>

AbsPut(t) ==
  /\ t \in Putters \cap pending
  /\ Len(queue) < Capacity
  /\ queue' = Append(queue, arg[t])
  /\ pending' = pending \ {t}
  /\ UNCHANGED arg

AbsTake(t) ==
  /\ t \in Takers \cap pending
  /\ queue # <<>>
  /\ arg' = [arg EXCEPT ![t] = Head(queue)]
  /\ queue' = Tail(queue)
  /\ pending' = pending \ {t}

AbsGiveUp(t) ==
  /\ t \in NonBlocking \cap pending
  /\ \/ t \in Putters /\ Len(queue) = Capacity
     \/ t \in Takers /\ queue = <<>>
  /\ pending' = pending \ {t}
  /\ UNCHANGED <<queue, arg>>

AbsNext ==
  \/ \E t \in Putters : AbsPut(t) \/ \E k \in Key : AbsCallPut(t, k)
  \/ \E t \in Takers : AbsCallTake(t) \/ AbsTake(t)
  \/ \E t \in NonBlocking : AbsGiveUp(t)

AbsSpec == AbsInit /\ [][AbsNext]_absVars
=============================================================================
