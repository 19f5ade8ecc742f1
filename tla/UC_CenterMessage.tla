-------------------------- MODULE UC_CenterMessage --------------------------
(***************************************************************************)
(* UC_CenterMessage (deps/include/util/UC_CenterMessage.h) with the two    *)
(* processors the framework gives it, ICM_Query_Processor and              *)
(* ICM_Update_Processor (CF_framework_center.h): scatter a message to the  *)
(* AllCount algorithm modules, gather their replies, combine them once.    *)
(*                                                                         *)
(* put_message takes a handle (the buffers of one message) and a node (its *)
(* counters) from recycling allocators and queues the node AllCount times. *)
(* Worker threads pop nodes; each pop claims the next slot with a          *)
(* fetch-and-add, asks that module, and counts the slot as finished.  The  *)
(* worker that counts the last one combines the replies and, by setting    *)
(* refer_fin, hands node and handle to the thread that polls for them in   *)
(* get_message.  Nothing but this protocol keeps a worker off a node or a  *)
(* handle that was recycled for another message.                           *)
(*                                                                         *)
(* Without a reference a finished node goes to mq_finished instead, for    *)
(* whoever calls get_message next.  The framework never does that; the     *)
(* class offers it, and Senders and Receivers are such threads.            *)
(*                                                                         *)
(* The queues are FIFO sequences with a blocking push and pop, which is    *)
(* what UT_Queue is proved to implement.  A reply slot holds what          *)
(* combine_task tells apart, a usable reply ("ok") or none (communication  *)
(* error, malformed reply, error code), and whether it belongs to the      *)
(* message being processed or is a leftover ("old") in recycled memory.    *)
(***************************************************************************)
EXTENDS Naturals, Sequences, FiniteSets, TLC

CONSTANTS Callers,    \* threads that put and get with a reference
          Senders,    \* threads that put without one
          Receivers,  \* threads that get without one
          Workers,    \* the threads of thread_process
          AllCount,   \* fw_calc_num: how many modules a message is sent to
          QueueLen,   \* length of mq_waiting and of mq_finished
          Node, Handle, \* the blocks of the two allocators
          MaxLost,    \* bound: how many extract failures we look at
          NoNode

\* A worker only works, and a thread puts its messages in one way.
ASSUME CenterMessageAssumption ==
  /\ Workers \cap (Callers \cup Senders \cup Receivers) = {}
  /\ Callers \cap (Senders \cup Receivers) = {}
  /\ AllCount \in Nat \ {0}
  /\ QueueLen \in Nat \ {0}
  /\ NoNode \notin Node
  /\ MaxLost \in Nat

VARIABLES mq_waiting, mq_finished,
          node,         \* STREAM_NODE: cur_count, fin_count, handle, refer_*
          freeNodes, freeHandles,
          reply,        \* the reply buffer of each slot of a handle
          result,       \* the result buffer of a handle
          pc, at,       \* where a thread is and the node it works on
          slot,         \* the cur_count a worker claimed
          left,         \* pushes a putting thread still has to make
          lost          \* nodes whose reference was dropped after a failure

memory == <<freeNodes, freeHandles>>
buffers == <<reply, result>>
vars == <<mq_waiting, mq_finished, node, memory, buffers, pc, at, slot, left, lost>>

Putters == Callers \cup Senders
Getters == Callers \cup Receivers
Threads == Putters \cup Getters \cup Workers
Slot == 0 .. AllCount - 1
Content == {"none", "ok", "old"}
\* A result buffer holds the slots that were combined into it, or a leftover.
Combined == SUBSET (Slot \X {"ok", "old"})
Stale == {<<0, "old">>}

TypeOK ==
  /\ mq_waiting \in Seq(Node) /\ Len(mq_waiting) <= QueueLen
  /\ mq_finished \in Seq(Node) /\ Len(mq_finished) <= QueueLen
  /\ node \in [Node -> [cur_count : 0 .. AllCount, fin_count : 0 .. AllCount,
                        handle : Handle, refer_flg : BOOLEAN, refer_fin : BOOLEAN]]
  /\ freeNodes \subseteq Node /\ freeHandles \subseteq Handle
  /\ reply \in [Handle -> [Slot -> Content]]
  /\ result \in [Handle -> Combined]
  /\ pc \in [Threads -> {"idle", "push", "poll", "extract", "repush",
                         "claim", "ask", "count", "combine", "signal"}]
  /\ at \in [Threads -> Node \cup {NoNode}]
  /\ slot \in [Workers -> Slot]
  /\ left \in [Putters -> 0 .. AllCount]
  /\ lost \subseteq Node

\* The memory of a fresh block is as arbitrary as that of a recycled one.
Init ==
  /\ mq_waiting = <<>> /\ mq_finished = <<>>
  /\ \E h \in Handle :
       node = [n \in Node |-> [cur_count |-> AllCount, fin_count |-> AllCount,
                               handle |-> h, refer_flg |-> TRUE, refer_fin |-> TRUE]]
  /\ freeNodes = Node /\ freeHandles = Handle
  /\ reply = [h \in Handle |-> [i \in Slot |-> "old"]]
  /\ result = [h \in Handle |-> Stale]
  /\ pc = [t \in Threads |-> "idle"]
  /\ at = [t \in Threads |-> NoNode]
  /\ slot = [w \in Workers |-> 0]
  /\ left = [t \in Putters |-> 0]
  /\ lost = {}
-----------------------------------------------------------------------------
Goto(t, where) == pc' = [pc EXCEPT ![t] = where]
Forget(t) == at' = [at EXCEPT ![t] = NoNode]

CurCountKept(n, h, referenced) ==
  [cur_count |-> node[n].cur_count, fin_count |-> 0, handle |-> h,
   refer_flg |-> referenced, refer_fin |-> FALSE]

ReferFinKept(n, h, referenced) ==
  [cur_count |-> 0, fin_count |-> 0, handle |-> h,
   refer_flg |-> referenced, refer_fin |-> node[n].refer_fin]

\* The fields put_message sets; refer_fin only with a reference.
FreshNode(n, h, referenced) ==
  [cur_count |-> 0, fin_count |-> 0, handle |-> h, refer_flg |-> referenced,
   refer_fin |-> IF referenced THEN FALSE ELSE node[n].refer_fin]

\* put_message up to the loop that queues the node.  A message that does not
\* fit fw_calc_send_size returns -1 with its handle released: no change.
PutMessage(t) ==
  /\ t \in Putters /\ pc[t] = "idle"
  /\ \E n \in freeNodes, h \in freeHandles :
       /\ freeHandles' = freeHandles \ {h}
       /\ freeNodes' = freeNodes \ {n}
       /\ node' = [node EXCEPT ![n] = FreshNode(n, h, t \in Callers)]
       /\ at' = [at EXCEPT ![t] = n]
  /\ left' = [left EXCEPT ![t] = AllCount]
  /\ Goto(t, "push")
  /\ UNCHANGED <<mq_waiting, mq_finished, buffers, slot, lost>>

\* One iteration of that loop; PushData blocks while the queue is full.
PushWaiting(t) ==
  /\ t \in Putters /\ pc[t] = "push"
  /\ Len(mq_waiting) < QueueLen
  /\ mq_waiting' = Append(mq_waiting, at[t])
  /\ left' = [left EXCEPT ![t] = @ - 1]
  /\ IF left[t] > 1 THEN UNCHANGED <<pc, at>>
     ELSE IF t \in Callers THEN Goto(t, "poll") /\ UNCHANGED at
     ELSE Goto(t, "idle") /\ Forget(t)
  /\ UNCHANGED <<mq_finished, node, memory, buffers, slot, lost>>
-----------------------------------------------------------------------------
(***************************************************************************)
(* get_message.                                                            *)
(***************************************************************************)
\* while(node->refer_fin == 0) cp_sleep(1);
Poll(t) ==
  /\ pc[t] = "poll"
  /\ node[at[t]].refer_fin
  /\ Goto(t, "extract")
  /\ UNCHANGED <<mq_waiting, mq_finished, node, memory, buffers, at, slot, left, lost>>

PopFinished(t) ==
  /\ t \in Receivers /\ pc[t] = "idle"
  /\ mq_finished # <<>>
  /\ at' = [at EXCEPT ![t] = Head(mq_finished)]
  /\ mq_finished' = Tail(mq_finished)
  /\ Goto(t, "extract")
  /\ UNCHANGED <<mq_waiting, node, memory, buffers, slot, left, lost>>

\* del_handle, then put_mem of the node.  Whatever the handle's buffers hold
\* is a leftover from now on.
Release(t) ==
  LET h == node[at[t]].handle
  IN  /\ freeHandles' = freeHandles \cup {h}
      /\ freeNodes' = freeNodes \cup {at[t]}
      /\ reply' = [reply EXCEPT ![h] = [i \in Slot |-> "old"]]
      /\ result' = [result EXCEPT ![h] = Stale]

ExtractKeepsNode(t) ==
  /\ pc[t] = "extract"
  /\ freeHandles' = freeHandles \cup {node[at[t]].handle}
  /\ UNCHANGED freeNodes
  /\ Goto(t, "idle") /\ Forget(t)
  /\ UNCHANGED <<mq_waiting, mq_finished, node, buffers, slot, left, lost>>

\* The result is copied out and everything is given back.
Extract(t) ==
  /\ pc[t] = "extract"
  /\ Release(t)
  /\ Goto(t, "idle") /\ Forget(t)
  /\ UNCHANGED <<mq_waiting, mq_finished, node, slot, left, lost>>

\* The result does not fit the caller's buffer.  Without a reference the node
\* is queued again; with one get_message returns -1 and the framework forgets
\* node and handle for good.
ExtractFails(t) ==
  /\ pc[t] = "extract"
  /\ IF t \in Receivers
     THEN Goto(t, "repush") /\ UNCHANGED <<at, lost>>
     ELSE /\ Cardinality(lost) < MaxLost
          /\ lost' = lost \cup {at[t]}
          /\ Goto(t, "idle") /\ Forget(t)
  /\ UNCHANGED <<mq_waiting, mq_finished, node, memory, buffers, slot, left>>

PushBack(t) ==
  /\ pc[t] = "repush"
  /\ Len(mq_finished) < QueueLen
  /\ mq_finished' = Append(mq_finished, at[t])
  /\ Goto(t, "idle") /\ Forget(t)
  /\ UNCHANGED <<mq_waiting, node, memory, buffers, slot, left, lost>>
-----------------------------------------------------------------------------
(***************************************************************************)
(* thread_process.                                                         *)
(***************************************************************************)
PopWaiting(w) ==
  /\ w \in Workers /\ pc[w] = "idle"
  /\ mq_waiting # <<>>
  /\ at' = [at EXCEPT ![w] = Head(mq_waiting)]
  /\ mq_waiting' = Tail(mq_waiting)
  /\ Goto(w, "claim")
  /\ UNCHANGED <<mq_finished, node, memory, buffers, slot, left, lost>>

ClaimFinished(w) ==
  /\ pc[w] = "claim"
  /\ slot' = [slot EXCEPT ![w] = node[at[w]].fin_count]
  /\ node' = [node EXCEPT ![at[w]].cur_count = @ + 1]
  /\ Goto(w, "ask")
  /\ UNCHANGED <<mq_waiting, mq_finished, memory, buffers, at, left, lost>>

\* __sync_fetch_and_add(&node->cur_count, 1)
ClaimSlot(w) ==
  /\ pc[w] = "claim"
  /\ slot' = [slot EXCEPT ![w] = node[at[w]].cur_count]
  /\ node' = [node EXCEPT ![at[w]].cur_count = @ + 1]
  /\ Goto(w, "ask")
  /\ UNCHANGED <<mq_waiting, mq_finished, memory, buffers, at, left, lost>>

\* process_task of both processors: the slot is marked unanswered first, and a
\* failing connect, send or recv, or an oversized reply, leaves it so.
Ask(w) ==
  \E c \in {"none", "ok"} :
    reply' = [reply EXCEPT ![node[at[w]].handle][slot[w]] = c]

ProcessTask(w) ==
  /\ pc[w] = "ask"
  /\ Ask(w)
  /\ Goto(w, "count")
  /\ UNCHANGED <<mq_waiting, mq_finished, node, memory, result, at, slot, left, lost>>

FinishesOneEarly(n) == node[n].fin_count + 2 >= AllCount

FinishesOneLate(n) == node[n].fin_count = AllCount

\* fin_count == all_count after the increment, under node->locker.
Finishes(n) == node[n].fin_count + 1 = AllCount

CountFinished(w) ==
  /\ pc[w] = "count"
  /\ node' = [node EXCEPT ![at[w]].fin_count = @ + 1]
  /\ IF Finishes(at[w]) THEN Goto(w, "combine") /\ UNCHANGED at
                        ELSE Goto(w, "idle") /\ Forget(w)
  /\ UNCHANGED <<mq_waiting, mq_finished, memory, buffers, slot, left, lost>>

\* combine_task of both processors: unanswered and bad replies are skipped.
CombineTask(w) ==
  /\ pc[w] = "combine"
  /\ LET h == node[at[w]].handle
     IN  result' = [result EXCEPT ![h] =
                      {<<i, reply[h][i]>> : i \in {j \in Slot : reply[h][j] \in {"ok", "old"}}}]
  /\ Goto(w, "signal")
  /\ UNCHANGED <<mq_waiting, mq_finished, node, memory, reply, at, slot, left, lost>>

\* With a reference this is the worker's last access to the node.
Signal(w) ==
  /\ pc[w] = "signal"
  /\ \/ /\ node[at[w]].refer_flg
        /\ node' = [node EXCEPT ![at[w]].refer_fin = TRUE]
        /\ UNCHANGED mq_finished
     \/ /\ ~node[at[w]].refer_flg
        /\ Len(mq_finished) < QueueLen
        /\ mq_finished' = Append(mq_finished, at[w])
        /\ UNCHANGED node
  /\ Goto(w, "idle") /\ Forget(w)
  /\ UNCHANGED <<mq_waiting, memory, buffers, slot, left, lost>>
-----------------------------------------------------------------------------
Get(t) == Poll(t) \/ PopFinished(t) \/ Extract(t) \/ PushBack(t)

Work(w) == \/ PopWaiting(w) \/ ClaimSlot(w) \/ ProcessTask(w)
           \/ CountFinished(w) \/ CombineTask(w) \/ Signal(w)

Next ==
  \/ \E t \in Putters : PutMessage(t) \/ PushWaiting(t)
  \/ \E t \in Getters : Get(t) \/ ExtractFails(t)
  \/ \E w \in Workers : Work(w)

(***************************************************************************)
(* Workers are for(;;) loops, a module that does not answer is timed out   *)
(* by cp_set_overtime, and a thread inside put_message or get_message runs *)
(* on.  Nothing makes pushes fair to each other, and none is assumed of an *)
(* individual push.                                                        *)
(***************************************************************************)
Fairness ==
  /\ \A w \in Workers : WF_vars(Work(w))
  /\ \A t \in Getters : WF_vars(Get(t))
  /\ WF_vars(\E t \in Putters : PushWaiting(t))

Spec == Init /\ [][Next]_vars /\ Fairness
-----------------------------------------------------------------------------
HeldByWorker(n) == \E w \in Workers : at[w] = n
Queued(n) == \E i \in 1 .. Len(mq_waiting) : mq_waiting[i] = n
InFlight(n) == Queued(n) \/ HeldByWorker(n)
Claimed(w) == pc[w] \in {"ask", "count"}

(***************************************************************************)
(* No worker, queue or waiting thread can reach a node or a handle that    *)
(* was given back to its allocator: the last access of every worker comes  *)
(* before the refer_fin that lets the caller release them.                 *)
(***************************************************************************)
NoUseAfterRelease ==
  /\ \A t \in Threads : at[t] # NoNode =>
       at[t] \notin freeNodes /\ node[at[t]].handle \notin freeHandles
  /\ \A n \in Node : Queued(n) => n \notin freeNodes /\ node[n].handle \notin freeHandles

(***************************************************************************)
(* While a message is on its way no two workers ask the same module, and   *)
(* combine_task runs only when every module has been asked for THIS        *)
(* message and no other worker still touches its buffers.                  *)
(***************************************************************************)
CombineSeesEverySlot ==
  /\ \A v, w \in Workers :
       Claimed(v) /\ Claimed(w) /\ at[v] = at[w] /\ slot[v] = slot[w] => v = w
  /\ \A w \in Workers : pc[w] \in {"combine", "signal"} =>
       /\ \A i \in Slot : reply[node[at[w]].handle][i] # "old"
       /\ \A v \in Workers : at[v] = at[w] => v = w
       /\ ~Queued(at[w])

(***************************************************************************)
(* get_message returns a combination of replies to the message that was    *)
(* put, never a leftover of the handle's previous user.                    *)
(***************************************************************************)
ResultsAreOwn ==
  \A t \in Getters : pc[t] = "extract" =>
    \A r \in result[node[at[t]].handle] : r[2] = "ok"

(***************************************************************************)
(* Nodes are not leaked: one that is not free is on its way through the    *)
(* protocol, or its reference was dropped after an extract failure.        *)
(***************************************************************************)
NodesAccountedFor ==
  \A n \in Node \ freeNodes :
    \/ InFlight(n) \/ n \in lost
    \/ \E t \in Putters \cup Getters : at[t] = n
    \/ \E i \in 1 .. Len(mq_finished) : mq_finished[i] = n

(***************************************************************************)
(* A caller whose message is queued gets its result, however the other     *)
(* callers use the queue and whichever modules fail to answer.             *)
(***************************************************************************)
EveryPollEnds == \A t \in Callers : pc[t] = "poll" ~> pc[t] = "idle"
=============================================================================
