----------------------- MODULE UC_CenterMessage_proofs -----------------------
(***************************************************************************)
(* Theorems about UC_CenterMessage for any number of threads, nodes,       *)
(* handles and modules and any length of the queues.                       *)
(*                                                                         *)
(* What keeps workers off recycled memory is a count.  Of a message to     *)
(* AllCount modules there are always AllCount copies: pushes still to be   *)
(* made, places in mq_waiting, workers that popped one, and slots claimed; *)
(* and of the slots claimed each is being asked or is finished.  So when   *)
(* fin_count reaches AllCount there is no other copy of the node anywhere. *)
(***************************************************************************)
EXTENDS UC_CenterMessage, FiniteSetTheorems, SequenceTheorems, TLAPS

Holders == Putters \cup Getters

PlacesIn(q, n) == {i \in 1 .. Len(q) : q[i] = n}
Places(n) == PlacesIn(mq_waiting, n)
Claimers(n) == {w \in Workers : at[w] = n /\ pc[w] = "claim"}
Askers(n) == {w \in Workers : at[w] = n /\ Claimed(w)}
Combiners(n) == {w \in Workers : at[w] = n /\ pc[w] \in {"combine", "signal"}}
InFinished(n) == \E i \in 1 .. Len(mq_finished) : mq_finished[i] = n

\* Where a thread can be depends on what it is for.
ThreadInv ==
  \A t \in Threads :
    /\ pc[t] = "idle" <=> at[t] = NoNode
    /\ pc[t] \in {"claim", "ask", "count", "combine", "signal"} <=>
         t \in Workers /\ pc[t] # "idle"
    /\ pc[t] = "push" => t \in Putters
    /\ pc[t] = "poll" => t \in Callers
    /\ pc[t] = "extract" => t \in Getters
    /\ pc[t] = "repush" => t \in Receivers

\* Whatever a thread or a queue refers to is not free.
OwnerInv ==
  /\ \A t \in Threads : at[t] \notin freeNodes
  /\ \A n \in freeNodes : Places(n) = {} /\ ~InFinished(n) /\ n \notin lost

\* A message has its handle to itself.
HandleInv ==
  /\ \A n \in Node \ freeNodes : node[n].handle \notin freeHandles
  /\ \A m, n \in Node \ freeNodes : node[m].handle = node[n].handle => m = n

\* The copies of a message that are not yet pushed.
PushInv ==
  \A t \in Putters : pc[t] = "push" => left[t] \in 1 .. AllCount

Sent(n) == Cardinality(Places(n)) + Cardinality(Claimers(n)) + node[n].cur_count

Pushes(t, n) == at[t] = n /\ pc[t] = "push"

Counted(n) ==
  /\ IsFiniteSet(Claimers(n)) /\ IsFiniteSet(Askers(n))
  /\ \A t \in Putters : Pushes(t, n) => left[t] + Sent(n) = AllCount
  /\ (\A t \in Putters : ~Pushes(t, n)) => Sent(n) = AllCount
  /\ Cardinality(Askers(n)) + node[n].fin_count = node[n].cur_count

CountInv == \A n \in Node \ freeNodes : Counted(n)

\* Claimed slots are different, and those no longer asked hold a reply to
\* this message.
SlotInv ==
  /\ \A w \in Workers : Claimed(w) => slot[w] < node[at[w]].cur_count
  /\ \A v, w \in Workers :
       Claimed(v) /\ Claimed(w) /\ at[v] = at[w] /\ slot[v] = slot[w] => v = w
  /\ \A n \in Node \ freeNodes : \A i \in Slot :
       /\ i < node[n].cur_count
       /\ \A w \in Workers : at[w] = n /\ pc[w] = "ask" => slot[w] # i
       => reply[node[n].handle][i] # "old"

OwnResult(n) == \A r \in result[node[n].handle] : r[2] = "ok"

\* The one worker that combines.
CombineInv ==
  /\ \A w \in Workers : pc[w] \in {"combine", "signal"} => node[at[w]].fin_count = AllCount
  /\ \A v, w \in Workers :
       pc[v] \in {"combine", "signal"} /\ pc[w] \in {"combine", "signal"} /\ at[v] = at[w] =>
         v = w
  /\ \A n \in Node : \A w \in Workers : at[w] = n /\ pc[w] = "signal" => OwnResult(n)

\* No worker will touch the node again.
Done(n) == node[n].fin_count = AllCount /\ Combiners(n) = {} /\ OwnResult(n)

\* Who may see that.
DoneInv ==
  /\ \A n \in Node \ freeNodes : node[n].refer_flg /\ node[n].refer_fin => Done(n)
  /\ \A n \in Node : InFinished(n) => ~node[n].refer_flg /\ Done(n)
  /\ \A t \in Callers : at[t] # NoNode =>
       node[at[t]].refer_flg /\ (pc[t] = "extract" => node[at[t]].refer_fin)
  /\ \A n \in Node : \A t \in Receivers : at[t] = n /\ pc[t] \in {"extract", "repush"} =>
       ~node[n].refer_flg /\ Done(n) /\ ~InFinished(n)
  /\ \A n \in lost : node[n].refer_flg /\ node[n].refer_fin

\* A finished node is handed to one thread.
HolderInv ==
  /\ \A t, u \in Holders : at[t] = at[u] /\ at[t] # NoNode => t = u
  /\ \A i, j \in 1 .. Len(mq_finished) : mq_finished[i] = mq_finished[j] => i = j
  /\ \A n \in lost : \A t \in Holders : at[t] # n

\* A node that is not free and that no worker will touch again is still known.
KnownInv ==
  \A n \in Node \ freeNodes :
    IF node[n].refer_flg
    THEN n \in lost \/ \E t \in Callers : at[t] = n
    ELSE \/ node[n].fin_count < AllCount \/ Combiners(n) # {} \/ InFinished(n)
         \/ \E t \in Receivers : at[t] = n

IInv == /\ TypeOK /\ ThreadInv /\ OwnerInv /\ HandleInv /\ PushInv /\ CountInv
        /\ SlotInv /\ CombineInv /\ DoneInv /\ HolderInv /\ KnownInv
-----------------------------------------------------------------------------
(***************************************************************************)
(* Counting.                                                               *)
(***************************************************************************)
\* The places of a node in a queue can be counted.
LEMMA PlacesFinite ==
  ASSUME NEW q \in Seq(Node), NEW n
  PROVE  IsFiniteSet(PlacesIn(q, n)) /\ Cardinality(PlacesIn(q, n)) \in Nat
<1>1. IsFiniteSet(1 .. Len(q))
  BY FS_Interval
<1>2. PlacesIn(q, n) \subseteq 1 .. Len(q)
  BY DEF PlacesIn
<1> QED
  BY <1>1, <1>2, FS_Subset, FS_CardinalityType

\* A push adds one place, of the node that is pushed.
LEMMA PlacesAfterAppend ==
  ASSUME NEW q \in Seq(Node), NEW m \in Node, NEW n
  PROVE  /\ n # m => PlacesIn(Append(q, m), n) = PlacesIn(q, n)
         /\ Cardinality(PlacesIn(Append(q, m), m)) = Cardinality(PlacesIn(q, m)) + 1
<1>1. n # m => PlacesIn(Append(q, m), n) = PlacesIn(q, n)
  BY DEF PlacesIn
<1>2. PlacesIn(Append(q, m), m) = PlacesIn(q, m) \cup {Len(q) + 1}
  BY DEF PlacesIn
<1>3. Len(q) + 1 \notin PlacesIn(q, m)
  BY DEF PlacesIn
<1> QED
  BY <1>1, <1>2, <1>3, PlacesFinite, FS_AddElement

\* A pop takes one place, of the node that is popped.
LEMMA PlacesAfterTail ==
  ASSUME NEW q \in Seq(Node), q # <<>>, NEW n
  PROVE  /\ n # Head(q) => Cardinality(PlacesIn(Tail(q), n)) = Cardinality(PlacesIn(q, n))
         /\ Cardinality(PlacesIn(Tail(q), Head(q))) + 1 = Cardinality(PlacesIn(q, Head(q)))
<1> DEFINE Later(m) == PlacesIn(q, m) \ {1}
<1>1. \A m : Cardinality(PlacesIn(Tail(q), m)) = Cardinality(Later(m))
  <2> TAKE m
  <2> DEFINE f == [i \in Later(m) |-> i - 1]
  <2>1. \A i \in Later(m) : i - 1 \in PlacesIn(Tail(q), m)
    BY DEF PlacesIn
  <2>2. \A j \in PlacesIn(Tail(q), m) : j + 1 \in Later(m) /\ f[j + 1] = j
    BY DEF PlacesIn
  <2>3. \A i, j \in Later(m) : f[i] = f[j] => i = j
    BY DEF PlacesIn
  <2>4. f \in [Later(m) -> PlacesIn(Tail(q), m)]
    BY <2>1
  <2>5. f \in Bijection(Later(m), PlacesIn(Tail(q), m))
    <3> HIDE DEF f
    <3>1. \A j \in PlacesIn(Tail(q), m) : \E i \in Later(m) : f[i] = j
      BY <2>2
    <3> QED
      BY <3>1, <2>3, <2>4 DEF Bijection, Injection, Surjection, IsInjective
  <2>6. IsFiniteSet(Later(m))
    BY PlacesFinite, FS_Subset, Later(m) \subseteq PlacesIn(q, m)
  <2> QED
    BY <2>5, <2>6, FS_Bijection DEF ExistsBijection
<1>2. n # Head(q) => Later(n) = PlacesIn(q, n)
  BY DEF PlacesIn
<1>3. 1 \in PlacesIn(q, Head(q))
  BY DEF PlacesIn
<1>4. Cardinality(Later(Head(q))) = Cardinality(PlacesIn(q, Head(q))) - 1
  BY <1>3, PlacesFinite, FS_RemoveElement
<1> QED
  BY <1>1, <1>2, <1>4, PlacesFinite

\* A set of threads that one joins, or that one leaves, is counted on.
LEMMA JoinAndLeave ==
  ASSUME NEW S, NEW w, IsFiniteSet(S)
  PROVE  /\ w \notin S => IsFiniteSet(S \cup {w}) /\ Cardinality(S \cup {w}) = Cardinality(S) + 1
         /\ w \in S => IsFiniteSet(S \ {w}) /\ Cardinality(S \ {w}) = Cardinality(S) - 1
         /\ Cardinality(S) \in Nat
         /\ w \in S => Cardinality(S) > 0
         /\ Cardinality(S) = 0 => S = {}
BY FS_AddElement, FS_RemoveElement, FS_CardinalityType, FS_EmptySet

\* The copies of a message and the counters of its node are numbers.
LEMMA CountTypes ==
  ASSUME TypeOK, CountInv, NEW n \in Node \ freeNodes
  PROVE  /\ IsFiniteSet(Places(n)) /\ Cardinality(Places(n)) \in Nat
         /\ IsFiniteSet(Claimers(n)) /\ Cardinality(Claimers(n)) \in Nat
         /\ IsFiniteSet(Askers(n)) /\ Cardinality(Askers(n)) \in Nat
         /\ node[n].cur_count \in 0 .. AllCount /\ node[n].fin_count \in 0 .. AllCount
         /\ node[n].handle \in Handle
<1>1. IsFiniteSet(Places(n)) /\ Cardinality(Places(n)) \in Nat
  BY PlacesFinite DEF Places, TypeOK
<1>2. IsFiniteSet(Claimers(n)) /\ IsFiniteSet(Askers(n))
  BY DEF CountInv, Counted
<1>3. /\ node[n].cur_count \in 0 .. AllCount /\ node[n].fin_count \in 0 .. AllCount
      /\ node[n].handle \in Handle
  BY DEF TypeOK
<1> QED
  BY <1>1, <1>2, <1>3, FS_CardinalityType

\* A leftover is a content of a result buffer.
LEMMA StaleIsCombined == CenterMessageAssumption => Stale \in Combined
<1> SUFFICES ASSUME CenterMessageAssumption PROVE {<<0, "old">>} \subseteq Slot \X {"ok", "old"}
  BY DEF Stale, Combined
<1>1. 0 \in Slot
  BY DEF CenterMessageAssumption, Slot
<1> QED
  BY <1>1

\* Once fin_count is AllCount nothing else refers to the message: it is
\* pushed, popped, claimed and asked for AllCount times.
LEMMA FinishedIsQuiet ==
  ASSUME TypeOK, CountInv, CenterMessageAssumption, PushInv,
         NEW n \in Node \ freeNodes, node[n].fin_count = AllCount
  PROVE  /\ Places(n) = {} /\ Claimers(n) = {} /\ Askers(n) = {}
         /\ node[n].cur_count = AllCount
         /\ \A t \in Putters : ~Pushes(t, n)
<1> DEFINE p == Cardinality(Places(n))
           c == Cardinality(Claimers(n))
           a == Cardinality(Askers(n))
<1>1. p \in Nat /\ c \in Nat /\ a \in Nat /\ node[n].cur_count \in 0 .. AllCount
  BY CountTypes
<1>2. a + AllCount = node[n].cur_count
  BY DEF CountInv, Counted
<1>3. a = 0 /\ node[n].cur_count = AllCount
  <2> HIDE DEF a
  <2> QED BY <1>1, <1>2 DEF CenterMessageAssumption
<1>4. ASSUME NEW t \in Putters, Pushes(t, n)
      PROVE  FALSE
  <2>1. left[t] + Sent(n) = AllCount
    BY <1>4 DEF CountInv, Counted
  <2>2. left[t] \in 1 .. AllCount
    BY <1>4 DEF PushInv, Pushes
  <2>3. Sent(n) = p + c + AllCount
    BY <1>3 DEF Sent
  <2> HIDE DEF p, c
  <2> QED
    BY <1>1, <2>1, <2>2, <2>3 DEF CenterMessageAssumption
<1>5. p + c + AllCount = AllCount
  BY <1>3, <1>4 DEF CountInv, Counted, Sent
<1>6. p = 0 /\ c = 0
  <2> HIDE DEF p, c
  <2> QED BY <1>1, <1>5 DEF CenterMessageAssumption
<1>7. IsFiniteSet(Places(n)) /\ IsFiniteSet(Claimers(n)) /\ IsFiniteSet(Askers(n))
  BY CountTypes
<1>8. Places(n) = {} /\ Claimers(n) = {} /\ Askers(n) = {}
  BY <1>3, <1>6, <1>7, FS_EmptySet
<1> QED
  BY <1>3, <1>4, <1>8

\* A message that an action leaves alone is still counted.
LEMMA CountKept ==
  ASSUME NEW n, Counted(n),
         Places(n)' = Places(n), Claimers(n)' = Claimers(n), Askers(n)' = Askers(n),
         node'[n].cur_count = node[n].cur_count, node'[n].fin_count = node[n].fin_count,
         \A t \in Putters : /\ Pushes(t, n)' <=> Pushes(t, n)
                            /\ Pushes(t, n) => left'[t] = left[t]
  PROVE  Counted(n)'
<1>1. Sent(n)' = Sent(n)
  BY DEF Sent
<1> QED
  BY <1>1 DEF Counted
-----------------------------------------------------------------------------
(***************************************************************************)
(* The invariant holds at first.                                           *)
(***************************************************************************)
LEMMA InitIInv == CenterMessageAssumption /\ Init => IInv
<1> SUFFICES ASSUME CenterMessageAssumption, Init PROVE IInv
  OBVIOUS
<1> USE DEF Init
<1>1. PICK h \in Handle :
        node = [n \in Node |-> [cur_count |-> AllCount, fin_count |-> AllCount,
                                handle |-> h, refer_flg |-> TRUE, refer_fin |-> TRUE]]
  OBVIOUS
<1>2. TypeOK
  <2>1. node \in [Node -> [cur_count : 0 .. AllCount, fin_count : 0 .. AllCount,
                        handle : Handle, refer_flg : BOOLEAN, refer_fin : BOOLEAN]]
    BY <1>1 DEF CenterMessageAssumption
  <2>2. reply \in [Handle -> [Slot -> Content]]
    BY DEF Content
  <2>3. result \in [Handle -> Combined]
    BY StaleIsCombined
  <2>4. /\ mq_waiting \in Seq(Node) /\ Len(mq_waiting) <= QueueLen
        /\ mq_finished \in Seq(Node) /\ Len(mq_finished) <= QueueLen
    BY DEF CenterMessageAssumption
  <2>5. slot \in [Workers -> Slot] /\ left \in [Putters -> 0 .. AllCount]
    BY DEF CenterMessageAssumption, Slot
  <2> QED
    BY <2>1, <2>2, <2>3, <2>4, <2>5 DEF TypeOK
<1>3. ThreadInv /\ PushInv
  BY DEF ThreadInv, PushInv, Threads
<1>4. OwnerInv /\ HandleInv /\ CountInv /\ KnownInv
  BY DEF OwnerInv, HandleInv, CountInv, KnownInv, Places, PlacesIn, InFinished,
         CenterMessageAssumption
<1>5. SlotInv /\ CombineInv
  BY DEF SlotInv, CombineInv, Claimed, Threads
<1>6. DoneInv /\ HolderInv
  BY DEF DoneInv, HolderInv, InFinished, Holders, Threads, Putters, Getters
<1> QED
  BY <1>2, <1>3, <1>4, <1>5, <1>6 DEF IInv
-----------------------------------------------------------------------------
(***************************************************************************)
(* Every action keeps it.                                                  *)
(***************************************************************************)
LEMMA StutterStep == IInv /\ UNCHANGED vars => IInv'
<1> SUFFICES ASSUME IInv, UNCHANGED vars PROVE IInv'
  OBVIOUS
<1> USE DEF vars, memory, buffers
<1>1. TypeOK' /\ ThreadInv' /\ PushInv'
  BY DEF IInv, TypeOK, ThreadInv, PushInv
<1>2. OwnerInv' /\ HandleInv' /\ KnownInv'
  BY DEF IInv, OwnerInv, HandleInv, KnownInv, Places, InFinished, Combiners
<1>3. CountInv'
  <2> SUFFICES ASSUME NEW n \in Node \ freeNodes PROVE Counted(n)'
    BY DEF CountInv
  <2>1. Places(n)' = Places(n) /\ Claimers(n)' = Claimers(n) /\ Askers(n)' = Askers(n)
    BY DEF Places, Claimers, Askers, Claimed
  <2> QED
    BY <2>1, CountKept DEF IInv, CountInv, Pushes
<1>4. SlotInv' /\ CombineInv'
  BY DEF IInv, SlotInv, CombineInv, Claimed, OwnResult
<1>5. DoneInv' /\ HolderInv'
  BY DEF IInv, DoneInv, HolderInv, Done, InFinished, Combiners, OwnResult
<1> QED
  BY <1>1, <1>2, <1>3, <1>4, <1>5 DEF IInv

\* A new message: its node was free, so nothing refers to it yet.
LEMMA PutMessageStep ==
  ASSUME CenterMessageAssumption, IInv, NEW t, PutMessage(t)
  PROVE  IInv'
<1> USE CenterMessageAssumption
<1> t \in Putters /\ t \in Threads /\ t \in Holders /\ t \notin Workers /\ pc[t] = "idle"
  BY DEF PutMessage, CenterMessageAssumption, Putters, Threads, Holders
<1> PICK n \in freeNodes, h \in freeHandles :
      /\ freeHandles' = freeHandles \ {h}
      /\ freeNodes' = freeNodes \ {n}
      /\ node' = [node EXCEPT ![n] = FreshNode(n, h, t \in Callers)]
      /\ at' = [at EXCEPT ![t] = n]
  BY DEF PutMessage
<1> TypeOK /\ n \in Node /\ h \in Handle /\ at[t] = NoNode
  BY DEF IInv, TypeOK, ThreadInv
<1>a. /\ left' = [left EXCEPT ![t] = AllCount] /\ pc' = [pc EXCEPT ![t] = "push"]
      /\ UNCHANGED <<mq_waiting, mq_finished, reply, result, slot, lost>>
  BY DEF PutMessage, Goto, buffers
<1>b. /\ node'[n].cur_count = 0 /\ node'[n].fin_count = 0 /\ node'[n].handle = h
      /\ node'[n].refer_flg <=> t \in Callers
      /\ t \in Callers => ~node'[n].refer_fin
      /\ \A m \in Node \ {n} : node'[m] = node[m]
  BY DEF FreshNode, TypeOK
<1>c. /\ at'[t] = n /\ pc'[t] = "push" /\ left'[t] = AllCount
      /\ \A u \in Threads \ {t} : at'[u] = at[u] /\ pc'[u] = pc[u]
      /\ \A u \in Putters \ {t} : left'[u] = left[u]
      /\ \A w \in Workers : at'[w] = at[w] /\ pc'[w] = pc[w] /\ slot'[w] = slot[w]
  BY <1>a DEF TypeOK, Threads
<1>d. \A m : /\ Places(m)' = Places(m) /\ Claimers(m)' = Claimers(m)
             /\ Askers(m)' = Askers(m) /\ Combiners(m)' = Combiners(m)
             /\ InFinished(m)' = InFinished(m)
  BY <1>a, <1>c DEF Places, Claimers, Askers, Combiners, Claimed, InFinished
<1>e. /\ Places(n) = {} /\ ~InFinished(n) /\ n \notin lost
      /\ Claimers(n) = {} /\ Askers(n) = {} /\ Combiners(n) = {}
      /\ \A u \in Threads : at[u] # n
  BY DEF IInv, OwnerInv, Claimers, Askers, Combiners, Threads
<1>1. TypeOK'
  <2> DEFINE r == FreshNode(n, h, t \in Callers)
  <2>1. r \in [cur_count : 0 .. AllCount, fin_count : 0 .. AllCount,
               handle : Handle, refer_flg : BOOLEAN, refer_fin : BOOLEAN]
    <3>1. node[n].refer_fin \in BOOLEAN /\ (t \in Callers) \in BOOLEAN
      BY DEF TypeOK
    <3>2. (IF t \in Callers THEN FALSE ELSE node[n].refer_fin) \in BOOLEAN
      BY <3>1
    <3>3. 0 \in 0 .. AllCount
      BY DEF CenterMessageAssumption
    <3> QED
      BY <3>1, <3>2, <3>3, Zenon DEF FreshNode
  <2>2. node' = [node EXCEPT ![n] = r]
    OBVIOUS
  <2> HIDE DEF r
  <2>3. node' \in [Node -> [cur_count : 0 .. AllCount, fin_count : 0 .. AllCount,
                        handle : Handle, refer_flg : BOOLEAN, refer_fin : BOOLEAN]]
    BY <2>1, <2>2 DEF TypeOK
  <2> QED
    BY <2>3, <1>a DEF TypeOK, CenterMessageAssumption
<1>2. ThreadInv'
  BY <1>c DEF IInv, ThreadInv, CenterMessageAssumption
<1>3. OwnerInv'
  BY <1>a, <1>c, <1>d DEF IInv, OwnerInv
<1>4. HandleInv'
  BY <1>b DEF IInv, HandleInv
<1>5. PushInv'
  BY <1>c DEF IInv, PushInv, CenterMessageAssumption, Threads
<1>6. CountInv'
  <2> SUFFICES ASSUME NEW m \in Node \ freeNodes' PROVE Counted(m)'
    BY DEF CountInv
  <2>1. CASE m = n
    <3>1. Cardinality(Places(n)') = 0 /\ Cardinality(Claimers(n)') = 0 /\ Cardinality(Askers(n)') = 0
      BY <1>d, <1>e, FS_EmptySet
    <3>2. Sent(n)' = 0 /\ Pushes(t, n)' /\ \A u \in Putters : Pushes(u, n)' => u = t
      BY <3>1, <1>b, <1>c, <1>e DEF Sent, Pushes, Threads
    <3>3. IsFiniteSet(Claimers(n)') /\ IsFiniteSet(Askers(n)')
      BY <1>d, <1>e, FS_EmptySet
    <3>4. Cardinality(Askers(n)') + node'[n].fin_count = node'[n].cur_count
      BY <3>1, <1>b
    <3> QED
      BY <2>1, <3>2, <3>3, <3>4, <1>c DEF Counted, CenterMessageAssumption
  <2>2. CASE m # n
    <3>1. Counted(m) /\ node'[m] = node[m]
      BY <2>2, <1>b DEF IInv, CountInv
    <3>2. \A u \in Putters : /\ Pushes(u, m)' <=> Pushes(u, m)
                             /\ Pushes(u, m) => left'[u] = left[u]
      BY <2>2, <1>c DEF Pushes, Threads
    <3> QED
      BY <3>1, <3>2, <1>d, CountKept
  <2> QED
    BY <2>1, <2>2
<1>7. SlotInv'
  <2>1. \A w \in Workers : /\ Claimed(w)' <=> Claimed(w)
                           /\ Claimed(w) => at[w] \in Node \ {n}
    BY <1>c, <1>e DEF Claimed, IInv, ThreadInv, TypeOK, Threads
  <2>2. \A w \in Workers : Claimed(w)' => slot'[w] < node'[at'[w]].cur_count
    BY <2>1, <1>b, <1>c DEF IInv, SlotInv
  <2>3. \A v, w \in Workers :
          Claimed(v)' /\ Claimed(w)' /\ at'[v] = at'[w] /\ slot'[v] = slot'[w] => v = w
    BY <2>1, <1>c DEF IInv, SlotInv
  <2>4. \A m \in Node \ freeNodes' : \A i \in Slot :
          /\ i < node'[m].cur_count
          /\ \A w \in Workers : at'[w] = m /\ pc'[w] = "ask" => slot'[w] # i
          => reply'[node'[m].handle][i] # "old"
    BY <1>a, <1>b, <1>c DEF IInv, SlotInv, Slot
  <2> QED
    BY <2>2, <2>3, <2>4 DEF SlotInv
<1>8. CombineInv'
  BY <1>a, <1>b, <1>c, <1>e DEF IInv, CombineInv, OwnResult, Threads, ThreadInv
<1>9. DoneInv'
  <2>1. \A m \in Node \ {n} : Done(m)' <=> Done(m)
    BY <1>a, <1>b, <1>d DEF Done, OwnResult
  <2>2. \A m \in Node \ freeNodes' : node'[m].refer_flg /\ node'[m].refer_fin => Done(m)'
    BY <2>1, <1>b DEF IInv, DoneInv
  <2>3. \A m \in Node : InFinished(m)' => ~node'[m].refer_flg /\ Done(m)'
    BY <2>1, <1>b, <1>d, <1>e DEF IInv, DoneInv
  <2>4. \A u \in Callers : at'[u] # NoNode =>
          node'[at'[u]].refer_flg /\ (pc'[u] = "extract" => node'[at'[u]].refer_fin)
    <3> SUFFICES ASSUME NEW u \in Callers, at'[u] # NoNode
        PROVE  node'[at'[u]].refer_flg /\ (pc'[u] = "extract" => node'[at'[u]].refer_fin)
      OBVIOUS
    <3>1. CASE u = t
      BY <3>1, <1>b, <1>c
    <3>2. CASE u # t
      <4>1. at'[u] = at[u] /\ pc'[u] = pc[u] /\ at[u] \in Node \ {n}
        BY <3>2, <1>c, <1>e DEF Threads, Putters, TypeOK
      <4> QED
        BY <4>1, <1>b DEF IInv, DoneInv
    <3> QED
      BY <3>1, <3>2
  <2>5. \A m \in Node : \A u \in Receivers : at'[u] = m /\ pc'[u] \in {"extract", "repush"} =>
          ~node'[m].refer_flg /\ Done(m)' /\ ~InFinished(m)'
    BY <2>1, <1>b, <1>c, <1>d, <1>e DEF IInv, DoneInv, Threads, Getters
  <2>6. \A m \in lost' : node'[m].refer_flg /\ node'[m].refer_fin
    BY <1>a, <1>b, <1>e DEF IInv, DoneInv, TypeOK
  <2> QED
    BY <2>2, <2>3, <2>4, <2>5, <2>6 DEF DoneInv
<1>10. HolderInv'
  BY <1>a, <1>c, <1>e DEF IInv, HolderInv, Holders, Threads
<1>11. KnownInv'
  <2> SUFFICES ASSUME NEW m \in Node \ freeNodes'
      PROVE  IF node'[m].refer_flg
             THEN m \in lost' \/ \E u \in Callers : at'[u] = m
             ELSE \/ node'[m].fin_count < AllCount \/ Combiners(m)' # {} \/ InFinished(m)'
                  \/ \E u \in Receivers : at'[u] = m
    BY DEF KnownInv
  <2>1. CASE m = n
    BY <2>1, <1>b, <1>c DEF CenterMessageAssumption
  <2>2. CASE m # n
    <3>1. m \in Node \ freeNodes /\ node'[m] = node[m]
      BY <2>2, <1>b
    <3>2. \A u \in Threads : at[u] = m => at'[u] = m
      BY <1>c DEF CenterMessageAssumption
    <3> QED
      BY <3>1, <3>2, <1>a, <1>d DEF IInv, KnownInv, Threads, Putters, Getters
  <2> QED
    BY <2>1, <2>2
<1> QED
  BY <1>1, <1>2, <1>3, <1>4, <1>5, <1>6, <1>7, <1>8, <1>9, <1>10, <1>11 DEF IInv

\* A push turns a copy that is still to be pushed into a place of mq_waiting.
LEMMA PushWaitingStep ==
  ASSUME CenterMessageAssumption, IInv, NEW t, PushWaiting(t)
  PROVE  IInv'
<1> USE CenterMessageAssumption
<1> t \in Putters /\ t \in Threads /\ t \in Holders /\ t \notin Workers /\ pc[t] = "push"
  BY DEF PushWaiting, CenterMessageAssumption, Putters, Threads, Holders
<1> TypeOK /\ at[t] \in Node \ freeNodes /\ left[t] \in 1 .. AllCount
  BY DEF IInv, TypeOK, ThreadInv, PushInv, OwnerInv
<1> PICK n \in Node \ freeNodes : at[t] = n
  OBVIOUS
<1>a. /\ mq_waiting' = Append(mq_waiting, n) /\ Len(mq_waiting) < QueueLen
      /\ left' = [left EXCEPT ![t] = @ - 1]
      /\ UNCHANGED <<mq_finished, node, freeNodes, freeHandles, reply, result, slot, lost>>
  BY DEF PushWaiting, buffers, memory
<1>b. /\ left[t] > 1 => pc'[t] = "push" /\ at'[t] = n
      /\ left[t] = 1 /\ t \in Callers => pc'[t] = "poll" /\ at'[t] = n
      /\ left[t] = 1 /\ t \notin Callers => pc'[t] = "idle" /\ at'[t] = NoNode
  BY DEF PushWaiting, Goto, Forget, TypeOK
<1>c. /\ left'[t] = left[t] - 1
      /\ \A u \in Threads \ {t} : at'[u] = at[u] /\ pc'[u] = pc[u]
      /\ \A u \in Putters \ {t} : left'[u] = left[u]
      /\ \A w \in Workers : at'[w] = at[w] /\ pc'[w] = pc[w] /\ w \in Threads \ {t}
  BY <1>a DEF PushWaiting, Goto, Forget, TypeOK, Threads
<1>d. \A m : /\ Claimers(m)' = Claimers(m) /\ Askers(m)' = Askers(m)
             /\ Combiners(m)' = Combiners(m) /\ InFinished(m)' = InFinished(m)
             /\ Done(m)' = Done(m) /\ OwnResult(m)' = OwnResult(m)
  <2>1. \A m : /\ Claimers(m)' = Claimers(m) /\ Askers(m)' = Askers(m)
               /\ Combiners(m)' = Combiners(m) /\ InFinished(m)' = InFinished(m)
    BY <1>a, <1>c DEF Claimers, Askers, Combiners, Claimed, InFinished
  <2> QED
    BY <2>1, <1>a DEF Done, OwnResult
<1>e. /\ \A m : m # n => Places(m)' = Places(m)
      /\ Cardinality(Places(n)') = Cardinality(Places(n)) + 1
  BY <1>a, PlacesAfterAppend DEF Places, TypeOK
<1>1. TypeOK'
  <2>1. mq_waiting' \in Seq(Node) /\ Len(mq_waiting') <= QueueLen
    BY <1>a DEF TypeOK, CenterMessageAssumption
  <2>2. left' \in [Putters -> 0 .. AllCount]
    BY <1>a DEF TypeOK, CenterMessageAssumption
  <2>3. pc' \in [Threads -> {"idle", "push", "poll", "extract", "repush",
                            "claim", "ask", "count", "combine", "signal"}]
    BY DEF TypeOK, PushWaiting, Goto
  <2>4. at' \in [Threads -> Node \cup {NoNode}]
    BY DEF TypeOK, PushWaiting, Forget
  <2> QED
    BY <2>1, <2>2, <2>3, <2>4, <1>a DEF TypeOK
<1>2. ThreadInv'
  BY <1>b, <1>c DEF IInv, ThreadInv, CenterMessageAssumption
<1>3. OwnerInv'
  <2>1. at'[t] \in {n, NoNode}
    BY <1>b
  <2>2. \A u \in Threads : at'[u] \notin freeNodes'
    <3>1. at'[t] \notin freeNodes
      BY <2>1 DEF TypeOK, CenterMessageAssumption
    <3> QED
      BY <3>1, <1>a, <1>c DEF IInv, OwnerInv
  <2> QED
    BY <2>2, <1>a, <1>d, <1>e DEF IInv, OwnerInv
<1>4. HandleInv'
  BY <1>a DEF IInv, HandleInv
<1>5. PushInv'
  BY <1>b, <1>c DEF IInv, PushInv, Threads
<1>6. CountInv'
  <2> SUFFICES ASSUME NEW m \in Node \ freeNodes PROVE Counted(m)'
    BY <1>a DEF CountInv
  <2>1. CASE m = n
    <3>1. \A u \in Putters : Pushes(u, n) => u = t
      BY DEF IInv, HolderInv, Holders, Pushes, TypeOK, CenterMessageAssumption
    <3>2. Pushes(t, n) /\ left[t] + Sent(n) = AllCount
      BY DEF IInv, CountInv, Counted, Pushes
    <3>3. \A u \in Putters : Pushes(u, n)' => u = t /\ left[t] > 1
      BY <3>1, <1>b, <1>c DEF Pushes, Threads
    <3>4. left[t] > 1 => Pushes(t, n)'
      BY <1>b DEF Pushes
    <3>5. Sent(n) \in Nat /\ Sent(n)' = Sent(n) + 1
      <4>1. Sent(n)' = Cardinality(Places(n)') + Cardinality(Claimers(n)') + node'[n].cur_count
        BY DEF Sent
      <4>2. /\ Cardinality(Places(n)) \in Nat /\ Cardinality(Claimers(n)) \in Nat
            /\ node[n].cur_count \in Nat
        BY CountTypes DEF IInv
      <4>3. /\ Cardinality(Claimers(n)') = Cardinality(Claimers(n))
            /\ node'[n].cur_count = node[n].cur_count
        BY <1>a, <1>d
      <4> QED
        BY <4>1, <4>2, <4>3, <1>e DEF Sent
    <3>6. left'[t] + Sent(n)' = AllCount
      BY <3>2, <3>5, <1>c DEF CenterMessageAssumption
    <3>7. (\A u \in Putters : ~Pushes(u, n)') => Sent(n)' = AllCount
      BY <3>2, <3>4, <3>5 DEF CenterMessageAssumption
    <3>8. Counted(n)
      BY DEF IInv, CountInv
    <3> QED
      BY <2>1, <3>3, <3>6, <3>7, <3>8, <1>a, <1>d DEF Counted
  <2>2. CASE m # n
    <3>1. Counted(m)
      BY DEF IInv, CountInv
    <3>2. \A u \in Putters : /\ Pushes(u, m)' <=> Pushes(u, m)
                             /\ Pushes(u, m) => left'[u] = left[u]
      BY <2>2, <1>b, <1>c DEF Pushes, Threads, CenterMessageAssumption
    <3> QED
      BY <3>1, <3>2, <2>2, <1>a, <1>d, <1>e, CountKept
  <2> QED
    BY <2>1, <2>2
<1>7. SlotInv'
  BY <1>a, <1>c DEF IInv, SlotInv, Claimed
<1>8. CombineInv'
  BY <1>a, <1>c, <1>d DEF IInv, CombineInv
<1>9. DoneInv'
  <2>1. \A u \in Callers : at'[u] # NoNode =>
          node'[at'[u]].refer_flg /\ (pc'[u] = "extract" => node'[at'[u]].refer_fin)
    BY <1>a, <1>b, <1>c DEF IInv, DoneInv, Threads, Putters
  <2>2. \A m \in Node : \A u \in Receivers : at'[u] = m /\ pc'[u] \in {"extract", "repush"} =>
          ~node'[m].refer_flg /\ Done(m)' /\ ~InFinished(m)'
    BY <1>a, <1>b, <1>c, <1>d DEF IInv, DoneInv, Threads, Getters
  <2> QED
    BY <2>1, <2>2, <1>a, <1>d DEF IInv, DoneInv
<1>10. HolderInv'
  <2>1. at'[t] \in {n, NoNode}
    BY <1>b
  <2>2. \A u, v \in Holders : at'[u] = at'[v] /\ at'[u] # NoNode => u = v
    BY <2>1, <1>c DEF IInv, HolderInv, Holders, Threads
  <2>3. \A m \in lost' : \A u \in Holders : at'[u] # m
    <3>1. n \notin lost /\ NoNode \notin lost
      BY DEF IInv, HolderInv, TypeOK, CenterMessageAssumption
    <3> QED
      BY <3>1, <2>1, <1>a, <1>c DEF IInv, HolderInv, Holders, Threads
  <2> QED
    BY <2>2, <2>3, <1>a DEF IInv, HolderInv
<1>11. KnownInv'
  <2>1. node[n].fin_count < AllCount
    <3>1. node[n].fin_count # AllCount
      BY FinishedIsQuiet DEF IInv, Pushes
    <3> QED
      BY <3>1 DEF TypeOK, CenterMessageAssumption
  <2>2. \A u \in Callers : u \in Threads /\ (at[u] # NoNode => at'[u] = at[u])
    BY <1>b, <1>c DEF Threads, Putters
  <2>3. \A u \in Receivers : u \in Threads /\ (at[u] # n => at'[u] = at[u])
    BY <1>b, <1>c DEF Threads, Getters
  <2> QED
    BY <2>1, <2>2, <2>3, <1>a, <1>d DEF IInv, KnownInv, CenterMessageAssumption
<1> QED
  BY <1>1, <1>2, <1>3, <1>4, <1>5, <1>6, <1>7, <1>8, <1>9, <1>10, <1>11 DEF IInv

\* The result is there: the caller goes on.
LEMMA PollStep ==
  ASSUME CenterMessageAssumption, IInv, NEW t \in Getters, Poll(t)
  PROVE  IInv'
<1> USE CenterMessageAssumption
<1> t \in Callers /\ t \in Threads /\ t \notin Workers /\ t \notin Receivers /\ pc[t] = "poll"
  BY DEF Poll, CenterMessageAssumption, Threads, IInv, ThreadInv
<1> TypeOK /\ at[t] \in Node
  BY DEF IInv, TypeOK, ThreadInv
<1>a. /\ node[at[t]].refer_fin
      /\ UNCHANGED <<mq_waiting, mq_finished, node, freeNodes, freeHandles, reply, result,
                     at, slot, left, lost>>
  BY DEF Poll, buffers, memory
<1>b. /\ pc' = [pc EXCEPT ![t] = "extract"]
      /\ pc'[t] = "extract" /\ \A u \in Threads \ {t} : pc'[u] = pc[u]
      /\ \A w \in Workers : pc'[w] = pc[w]
  BY DEF Poll, Goto, TypeOK, Threads
<1>c. \A m : /\ Places(m)' = Places(m) /\ Claimers(m)' = Claimers(m)
             /\ Askers(m)' = Askers(m) /\ Combiners(m)' = Combiners(m)
             /\ InFinished(m)' = InFinished(m)
             /\ \A u \in Putters : Pushes(u, m)' <=> Pushes(u, m)
  BY <1>a, <1>b DEF Places, Claimers, Askers, Combiners, Claimed, InFinished, Pushes, Threads
<1>d. \A m : Done(m)' = Done(m) /\ OwnResult(m)' = OwnResult(m)
  BY <1>a, <1>c DEF Done, OwnResult
<1>1. TypeOK'
  BY <1>a, <1>b DEF TypeOK
<1>2. ThreadInv'
  BY <1>a, <1>b DEF IInv, ThreadInv, Getters
<1>3. OwnerInv' /\ HandleInv' /\ HolderInv'
  BY <1>a, <1>c DEF IInv, OwnerInv, HandleInv, HolderInv
<1>4. PushInv'
  BY <1>a, <1>b DEF IInv, PushInv, Threads
<1>5. CountInv'
  BY <1>a, <1>c, CountKept DEF IInv, CountInv
<1>6. SlotInv'
  BY <1>a, <1>b DEF IInv, SlotInv, Claimed
<1>7. CombineInv'
  BY <1>a, <1>b, <1>d DEF IInv, CombineInv
<1>8. DoneInv'
  <2>1. \A u \in Callers : at'[u] # NoNode =>
          node'[at'[u]].refer_flg /\ (pc'[u] = "extract" => node'[at'[u]].refer_fin)
    BY <1>a, <1>b DEF IInv, DoneInv, Threads, Putters
  <2>2. \A m \in Node : \A u \in Receivers : at'[u] = m /\ pc'[u] \in {"extract", "repush"} =>
          ~node'[m].refer_flg /\ Done(m)' /\ ~InFinished(m)'
    BY <1>a, <1>b, <1>c, <1>d DEF IInv, DoneInv, Threads, Getters
  <2> QED
    BY <2>1, <2>2, <1>a, <1>c, <1>d DEF IInv, DoneInv
<1>9. KnownInv'
  BY <1>a, <1>c DEF IInv, KnownInv
<1> QED
  BY <1>1, <1>2, <1>3, <1>4, <1>5, <1>6, <1>7, <1>8, <1>9 DEF IInv

\* A finished node leaves mq_finished for the one thread that popped it.
LEMMA PopFinishedStep ==
  ASSUME CenterMessageAssumption, IInv, NEW t \in Getters, PopFinished(t)
  PROVE  IInv'
<1> USE CenterMessageAssumption
<1> t \in Receivers /\ t \in Threads /\ t \notin Workers /\ t \notin Callers /\ pc[t] = "idle"
  BY DEF PopFinished, CenterMessageAssumption, Threads
<1> TypeOK /\ mq_finished # <<>> /\ at[t] = NoNode
  BY DEF IInv, TypeOK, ThreadInv, PopFinished
<1> PICK n \in Node : n = Head(mq_finished) /\ n = mq_finished[1]
  BY DEF TypeOK
<1> InFinished(n)
  BY DEF InFinished, TypeOK
<1>a. /\ mq_finished' = Tail(mq_finished)
      /\ UNCHANGED <<mq_waiting, node, freeNodes, freeHandles, reply, result,
                     slot, left, lost>>
  BY DEF PopFinished, buffers, memory
<1>b. /\ pc' = [pc EXCEPT ![t] = "extract"] /\ at' = [at EXCEPT ![t] = n]
      /\ pc'[t] = "extract" /\ at'[t] = n
      /\ \A u \in Threads \ {t} : pc'[u] = pc[u] /\ at'[u] = at[u]
      /\ \A w \in Workers : pc'[w] = pc[w] /\ at'[w] = at[w]
  BY DEF PopFinished, Goto, TypeOK, Threads
<1>c. \A m : /\ Places(m)' = Places(m) /\ Claimers(m)' = Claimers(m)
             /\ Askers(m)' = Askers(m) /\ Combiners(m)' = Combiners(m)
             /\ \A u \in Putters : Pushes(u, m)' <=> Pushes(u, m)
  BY <1>a, <1>b DEF Places, Claimers, Askers, Combiners, Claimed, Pushes, Threads
<1>d. \A m : Done(m)' = Done(m) /\ OwnResult(m)' = OwnResult(m)
  BY <1>a, <1>c DEF Done, OwnResult
<1>e. \A m : InFinished(m)' <=> InFinished(m) /\ m # n
  <2>1. \A i \in 1 .. Len(mq_finished') : /\ i + 1 \in 1 .. Len(mq_finished)
                                         /\ mq_finished'[i] = mq_finished[i + 1]
    BY <1>a DEF TypeOK
  <2>2. \A i \in 1 .. Len(mq_finished) : i # 1 => /\ i - 1 \in 1 .. Len(mq_finished')
                                                 /\ mq_finished'[i - 1] = mq_finished[i]
    BY <1>a DEF TypeOK
  <2>3. \A i \in 1 .. Len(mq_finished) : mq_finished[i] = n <=> i = 1
    BY DEF IInv, HolderInv, TypeOK
  <2>4. ASSUME NEW m, InFinished(m)' PROVE InFinished(m) /\ m # n
    <3>1. PICK i \in 1 .. Len(mq_finished') : mq_finished'[i] = m
      BY <2>4 DEF InFinished
    <3>2. i + 1 \in 1 .. Len(mq_finished) /\ mq_finished[i + 1] = m /\ i + 1 # 1
      BY <3>1, <2>1
    <3> QED
      BY <3>2, <2>3 DEF InFinished
  <2>5. ASSUME NEW m, InFinished(m), m # n PROVE InFinished(m)'
    <3>1. PICK i \in 1 .. Len(mq_finished) : mq_finished[i] = m /\ i # 1
      BY <2>5, <2>3 DEF InFinished
    <3> QED
      BY <3>1, <2>2 DEF InFinished
  <2> QED
    BY <2>4, <2>5
<1>f. n \in Node \ freeNodes /\ n \notin lost /\ ~node[n].refer_flg /\ Done(n)
  BY DEF IInv, OwnerInv, DoneInv
<1>g. \A u \in Holders : at[u] # n
  <2> SUFFICES ASSUME NEW u \in Holders, at[u] = n PROVE FALSE
    OBVIOUS
  <2>1. u \in Threads /\ u \notin Workers /\ pc[u] # "idle" /\ u \notin Callers
    BY <1>f DEF IInv, DoneInv, ThreadInv, Holders, Putters, Getters, Threads,
                CenterMessageAssumption
  <2>2. ~(u \in Putters /\ pc[u] = "push")
    BY <1>f, FinishedIsQuiet DEF IInv, Done, Pushes
  <2>3. ~(u \in Receivers /\ pc[u] \in {"extract", "repush"})
    BY DEF IInv, DoneInv
  <2> QED
    BY <2>1, <2>2, <2>3 DEF IInv, ThreadInv, TypeOK, Getters
<1>1. TypeOK'
  BY <1>a, <1>b DEF TypeOK
<1>2. ThreadInv'
  BY <1>a, <1>b DEF IInv, ThreadInv, Getters
<1>3. OwnerInv' /\ HandleInv'
  BY <1>a, <1>b, <1>c, <1>e, <1>f DEF IInv, OwnerInv, HandleInv
<1>4. PushInv'
  BY <1>a, <1>b DEF IInv, PushInv, Threads
<1>5. CountInv'
  BY <1>a, <1>c, CountKept DEF IInv, CountInv
<1>6. SlotInv'
  BY <1>a, <1>b DEF IInv, SlotInv, Claimed
<1>7. CombineInv'
  BY <1>a, <1>b, <1>d DEF IInv, CombineInv
<1>8. DoneInv'
  <2>1. \A u \in Callers : at'[u] # NoNode =>
          node'[at'[u]].refer_flg /\ (pc'[u] = "extract" => node'[at'[u]].refer_fin)
    BY <1>a, <1>b DEF IInv, DoneInv, Threads, Putters
  <2>2. \A m \in Node : \A u \in Receivers : at'[u] = m /\ pc'[u] \in {"extract", "repush"} =>
          ~node'[m].refer_flg /\ Done(m)' /\ ~InFinished(m)'
    BY <1>a, <1>b, <1>d, <1>e, <1>f DEF IInv, DoneInv, Threads, Getters
  <2> QED
    BY <2>1, <2>2, <1>a, <1>d, <1>e DEF IInv, DoneInv
<1>9. HolderInv'
  <2>1. \A u, v \in Holders : at'[u] = at'[v] /\ at'[u] # NoNode => u = v
    BY <1>b, <1>g DEF IInv, HolderInv, Holders, Threads
  <2>2. \A i, j \in 1 .. Len(mq_finished') : mq_finished'[i] = mq_finished'[j] => i = j
    <3>1. \A i \in 1 .. Len(mq_finished') : /\ i + 1 \in 1 .. Len(mq_finished)
                                           /\ mq_finished'[i] = mq_finished[i + 1]
      BY <1>a DEF TypeOK
    <3>2. \A i, j \in 1 .. Len(mq_finished') : mq_finished'[i] = mq_finished'[j] => i + 1 = j + 1
      BY <3>1 DEF IInv, HolderInv
    <3> QED
      BY <3>2
  <2>3. \A m \in lost' : \A u \in Holders : at'[u] # m
    BY <1>a, <1>b, <1>f DEF IInv, HolderInv, Holders, Threads
  <2> QED
    BY <2>1, <2>2, <2>3 DEF HolderInv
<1>10. KnownInv'
  BY <1>a, <1>b, <1>c, <1>e DEF IInv, KnownInv, Threads, Getters, Putters
<1> QED
  BY <1>1, <1>2, <1>3, <1>4, <1>5, <1>6, <1>7, <1>8, <1>9, <1>10 DEF IInv

\* The thread that takes the result gives back a node and a handle nothing
\* else refers to.
LEMMA ExtractStep ==
  ASSUME CenterMessageAssumption, IInv, NEW t \in Getters, Extract(t)
  PROVE  IInv'
<1> USE CenterMessageAssumption
<1> t \in Threads /\ t \in Holders /\ t \notin Workers /\ pc[t] = "extract"
  BY DEF Extract, CenterMessageAssumption, Getters, Threads, Holders
<1> TypeOK /\ at[t] \in Node \ freeNodes
  BY DEF IInv, TypeOK, ThreadInv, OwnerInv
<1> PICK n \in Node \ freeNodes : at[t] = n
  OBVIOUS
<1> PICK h \in Handle \ freeHandles : node[n].handle = h
  BY DEF IInv, HandleInv, TypeOK
<1>a. /\ freeHandles' = freeHandles \cup {h} /\ freeNodes' = freeNodes \cup {n}
      /\ reply' = [reply EXCEPT ![h] = [i \in Slot |-> "old"]]
      /\ result' = [result EXCEPT ![h] = Stale]
      /\ UNCHANGED <<mq_waiting, mq_finished, node, slot, left, lost>>
  BY DEF Extract, Release
<1>b. /\ pc' = [pc EXCEPT ![t] = "idle"] /\ at' = [at EXCEPT ![t] = NoNode]
      /\ pc'[t] = "idle" /\ at'[t] = NoNode
      /\ \A u \in Threads \ {t} : pc'[u] = pc[u] /\ at'[u] = at[u]
      /\ \A w \in Workers : pc'[w] = pc[w] /\ at'[w] = at[w]
  BY DEF Extract, Goto, Forget, TypeOK, Threads
<1>c. \A m \in Node : /\ Places(m)' = Places(m) /\ Claimers(m)' = Claimers(m)
                      /\ Askers(m)' = Askers(m) /\ Combiners(m)' = Combiners(m)
                      /\ InFinished(m)' = InFinished(m)
                      /\ \A u \in Putters : Pushes(u, m)' <=> Pushes(u, m)
  BY <1>a, <1>b DEF Places, Claimers, Askers, Combiners, Claimed, InFinished, Pushes,
                    Threads, CenterMessageAssumption
<1>d. \A m \in Node \ freeNodes : m # n =>
        /\ node[m].handle \in Handle \ {h}
        /\ reply'[node[m].handle] = reply[node[m].handle]
        /\ result'[node[m].handle] = result[node[m].handle]
  BY <1>a DEF IInv, HandleInv, TypeOK
<1>e. \A m \in Node \ freeNodes : m # n =>
        /\ Done(m)' <=> Done(m)
        /\ OwnResult(m)' <=> OwnResult(m)
  BY <1>a, <1>c, <1>d DEF Done, OwnResult
<1>f. Done(n) /\ ~InFinished(n) /\ n \notin lost
  <2>1. CASE t \in Callers
    BY <2>1 DEF IInv, DoneInv, HolderInv
  <2>2. CASE t \in Receivers
    BY <2>2 DEF IInv, DoneInv, HolderInv
  <2> QED
    BY <2>1, <2>2 DEF Getters
<1>g. /\ Places(n) = {} /\ Claimers(n) = {} /\ Askers(n) = {} /\ Combiners(n) = {}
      /\ \A u \in Putters : ~Pushes(u, n)
  BY <1>f, FinishedIsQuiet DEF IInv, Done
<1>h. \A u \in Threads \ {t} : at[u] # n
  <2>1. \A w \in Workers : at[w] # n
    <3> SUFFICES ASSUME NEW w \in Workers, at[w] = n PROVE FALSE
      OBVIOUS
    <3>1. pc[w] \in {"claim", "ask", "count", "combine", "signal"}
      BY DEF IInv, ThreadInv, Threads, TypeOK, CenterMessageAssumption
    <3> QED
      BY <3>1, <1>g DEF Claimers, Askers, Combiners, Claimed
  <2>2. \A u \in Holders \ {t} : at[u] # n
    BY DEF IInv, HolderInv, CenterMessageAssumption
  <2> QED
    BY <2>1, <2>2 DEF Threads, Holders
<1>i. \A u \in Threads : at'[u] # n
  BY <1>b, <1>h DEF CenterMessageAssumption
<1>1. TypeOK'
  <2>1. reply' \in [Handle -> [Slot -> Content]]
    BY <1>a DEF TypeOK, Content
  <2>2. result' \in [Handle -> Combined]
    BY <1>a, StaleIsCombined DEF TypeOK
  <2> QED
    BY <2>1, <2>2, <1>a, <1>b DEF TypeOK
<1>2. ThreadInv'
  BY <1>b DEF IInv, ThreadInv, Getters, CenterMessageAssumption
<1>3. OwnerInv'
  BY <1>a, <1>b, <1>c, <1>f, <1>g, <1>i DEF IInv, OwnerInv, CenterMessageAssumption, TypeOK
<1>4. HandleInv'
  BY <1>a, <1>d DEF IInv, HandleInv
<1>5. PushInv'
  BY <1>a, <1>b DEF IInv, PushInv, Threads
<1>6. CountInv'
  BY <1>a, <1>c, CountKept DEF IInv, CountInv
<1>7. SlotInv'
  <2>1. \A w \in Workers : Claimed(w) => at[w] \in Node
    BY DEF Claimed, IInv, ThreadInv, TypeOK, Threads
  <2>2. \A w \in Workers : Claimed(w)' => slot'[w] < node'[at'[w]].cur_count
    BY <1>a, <1>b DEF IInv, SlotInv, Claimed
  <2>3. \A v, w \in Workers :
          Claimed(v)' /\ Claimed(w)' /\ at'[v] = at'[w] /\ slot'[v] = slot'[w] => v = w
    BY <1>a, <1>b DEF IInv, SlotInv, Claimed
  <2>4. \A m \in Node \ freeNodes' : \A i \in Slot :
          /\ i < node'[m].cur_count
          /\ \A w \in Workers : at'[w] = m /\ pc'[w] = "ask" => slot'[w] # i
          => reply'[node'[m].handle][i] # "old"
    BY <1>a, <1>b, <1>d DEF IInv, SlotInv
  <2> QED
    BY <2>2, <2>3, <2>4 DEF SlotInv
<1>8. CombineInv'
  <2>1. \A m \in Node : \A w \in Workers : at'[w] = m /\ pc'[w] = "signal" => OwnResult(m)'
    <3> SUFFICES ASSUME NEW m \in Node, NEW w \in Workers, at'[w] = m, pc'[w] = "signal"
        PROVE  OwnResult(m)'
      OBVIOUS
    <3>1. at[w] = m /\ pc[w] = "signal" /\ m # n /\ m \notin freeNodes
      BY <1>b, <1>i DEF IInv, OwnerInv, Threads
    <3> QED
      BY <3>1, <1>e DEF IInv, CombineInv
  <2> QED
    BY <2>1, <1>a, <1>b DEF IInv, CombineInv
<1>9. DoneInv'
  <2>1. \A m \in Node \ freeNodes' : node'[m].refer_flg /\ node'[m].refer_fin => Done(m)'
    BY <1>a, <1>e DEF IInv, DoneInv
  <2>2. \A m \in Node : InFinished(m)' => ~node'[m].refer_flg /\ Done(m)'
    BY <1>a, <1>c, <1>e, <1>f DEF IInv, DoneInv, OwnerInv
  <2>3. \A u \in Callers : at'[u] # NoNode =>
          node'[at'[u]].refer_flg /\ (pc'[u] = "extract" => node'[at'[u]].refer_fin)
    BY <1>a, <1>b DEF IInv, DoneInv, Threads, Putters
  <2>4. \A m \in Node : \A u \in Receivers : at'[u] = m /\ pc'[u] \in {"extract", "repush"} =>
          ~node'[m].refer_flg /\ Done(m)' /\ ~InFinished(m)'
    <3> SUFFICES ASSUME NEW m \in Node, NEW u \in Receivers, at'[u] = m,
                        pc'[u] \in {"extract", "repush"}
        PROVE  ~node'[m].refer_flg /\ Done(m)' /\ ~InFinished(m)'
      OBVIOUS
    <3>1. u \in Threads \ {t} /\ at[u] = m /\ pc[u] \in {"extract", "repush"} /\ m # n
      BY <1>b, <1>i DEF Threads, Getters
    <3>2. m \notin freeNodes
      BY <3>1 DEF IInv, OwnerInv
    <3> QED
      BY <3>1, <3>2, <1>a, <1>c, <1>e DEF IInv, DoneInv
  <2> QED
    BY <2>1, <2>2, <2>3, <2>4, <1>a DEF IInv, DoneInv
<1>10. HolderInv'
  BY <1>a, <1>b DEF IInv, HolderInv, Holders, Threads, TypeOK, CenterMessageAssumption
<1>11. KnownInv'
  BY <1>a, <1>b, <1>c DEF IInv, KnownInv, Threads, Getters, Putters
<1> QED
  BY <1>1, <1>2, <1>3, <1>4, <1>5, <1>6, <1>7, <1>8, <1>9, <1>10, <1>11 DEF IInv

\* A caller whose buffer is too small drops the reference; a receiver goes on
\* to queue the node again.
LEMMA ExtractFailsStep ==
  ASSUME CenterMessageAssumption, IInv, NEW t \in Getters, ExtractFails(t)
  PROVE  IInv'
<1> USE CenterMessageAssumption
<1> t \in Threads /\ t \in Holders /\ t \notin Workers /\ pc[t] = "extract"
  BY DEF ExtractFails, CenterMessageAssumption, Getters, Threads, Holders
<1> TypeOK /\ at[t] \in Node \ freeNodes
  BY DEF IInv, TypeOK, ThreadInv, OwnerInv
<1> PICK n \in Node \ freeNodes : at[t] = n
  OBVIOUS
<1>a. UNCHANGED <<mq_waiting, mq_finished, node, freeNodes, freeHandles, reply, result,
                  slot, left>>
  BY DEF ExtractFails, memory, buffers
<1>b. \/ /\ t \in Receivers /\ pc'[t] = "repush" /\ at'[t] = n /\ lost' = lost
      \/ /\ t \in Callers /\ pc'[t] = "idle" /\ at'[t] = NoNode /\ lost' = lost \cup {n}
  BY DEF ExtractFails, Goto, Forget, TypeOK, Getters
<1>c. /\ \A u \in Threads \ {t} : pc'[u] = pc[u] /\ at'[u] = at[u]
      /\ \A w \in Workers : pc'[w] = pc[w] /\ at'[w] = at[w]
  BY DEF ExtractFails, Goto, Forget, TypeOK, Threads
<1>d. \A m \in Node : /\ Places(m)' = Places(m) /\ Claimers(m)' = Claimers(m)
                      /\ Askers(m)' = Askers(m) /\ Combiners(m)' = Combiners(m)
                      /\ InFinished(m)' = InFinished(m)
                      /\ \A u \in Putters : Pushes(u, m)' <=> Pushes(u, m)
  BY <1>a, <1>b, <1>c DEF Places, Claimers, Askers, Combiners, Claimed, InFinished, Pushes,
                    Threads, CenterMessageAssumption
<1>e. \A m \in Node : Done(m)' = Done(m) /\ OwnResult(m)' = OwnResult(m)
  BY <1>a, <1>d DEF Done, OwnResult
<1>1. TypeOK'
  <2>1. pc' \in [Threads -> {"idle", "push", "poll", "extract", "repush",
                            "claim", "ask", "count", "combine", "signal"}]
    BY DEF TypeOK, ExtractFails, Goto
  <2>2. at' \in [Threads -> Node \cup {NoNode}]
    BY DEF TypeOK, ExtractFails, Forget
  <2>3. lost' \subseteq Node
    BY <1>b DEF TypeOK
  <2> QED
    BY <2>1, <2>2, <2>3, <1>a DEF TypeOK
<1>2. ThreadInv'
  BY <1>b, <1>c DEF IInv, ThreadInv, Getters, CenterMessageAssumption
<1>3. OwnerInv'
  BY <1>a, <1>b, <1>c, <1>d DEF IInv, OwnerInv, CenterMessageAssumption, TypeOK
<1>4. HandleInv'
  BY <1>a DEF IInv, HandleInv
<1>5. PushInv'
  BY <1>a, <1>b, <1>c DEF IInv, PushInv, Threads
<1>6. CountInv'
  BY <1>a, <1>d, CountKept DEF IInv, CountInv
<1>7. SlotInv'
  BY <1>a, <1>c DEF IInv, SlotInv, Claimed
<1>8. CombineInv'
  BY <1>a, <1>c, <1>e DEF IInv, CombineInv
<1>9. DoneInv'
  <2>1. \A u \in Callers : at'[u] # NoNode =>
          node'[at'[u]].refer_flg /\ (pc'[u] = "extract" => node'[at'[u]].refer_fin)
    BY <1>a, <1>b, <1>c DEF IInv, DoneInv, Threads, Putters, CenterMessageAssumption
  <2>2. \A m \in Node : \A u \in Receivers : at'[u] = m /\ pc'[u] \in {"extract", "repush"} =>
          ~node'[m].refer_flg /\ Done(m)' /\ ~InFinished(m)'
    BY <1>a, <1>b, <1>c, <1>d, <1>e DEF IInv, DoneInv, Threads, Getters, CenterMessageAssumption
  <2>3. \A m \in lost' : node'[m].refer_flg /\ node'[m].refer_fin
    BY <1>a, <1>b DEF IInv, DoneInv, CenterMessageAssumption
  <2> QED
    BY <2>1, <2>2, <2>3, <1>a, <1>d, <1>e DEF IInv, DoneInv
<1>10. HolderInv'
  <2>1. at'[t] \in {n, NoNode}
    BY <1>b
  <2>2. \A u, v \in Holders : at'[u] = at'[v] /\ at'[u] # NoNode => u = v
    BY <2>1, <1>c DEF IInv, HolderInv, Holders, Threads
  <2>3. \A u \in Holders \ {t} : at'[u] # n
    BY <1>c DEF IInv, HolderInv, Holders, Threads, CenterMessageAssumption
  <2>4. \A m \in lost' : \A u \in Holders : at'[u] # m
    <3>1. n \notin lost /\ NoNode \notin lost
      BY DEF IInv, HolderInv, TypeOK, CenterMessageAssumption
    <3>2. \A u \in Holders \ {t} : \A m \in lost : at'[u] # m
      BY <1>c DEF IInv, HolderInv, Holders, Threads
    <3>3. \A m \in lost' : at'[t] # m
      BY <3>1, <1>b DEF CenterMessageAssumption
    <3> QED
      BY <3>2, <3>3, <2>3, <1>b
  <2> QED
    BY <2>2, <2>4, <1>a DEF IInv, HolderInv
<1>11. KnownInv'
  BY <1>a, <1>b, <1>c, <1>d DEF IInv, KnownInv, Threads, Getters, Putters, CenterMessageAssumption
<1> QED
  BY <1>1, <1>2, <1>3, <1>4, <1>5, <1>6, <1>7, <1>8, <1>9, <1>10, <1>11 DEF IInv

\* The node of a failed extract waits in mq_finished again.
LEMMA PushBackStep ==
  ASSUME CenterMessageAssumption, IInv, NEW t \in Getters, PushBack(t)
  PROVE  IInv'
<1> USE CenterMessageAssumption
<1> t \in Threads /\ t \in Holders /\ t \in Receivers /\ t \notin Callers /\ t \notin Workers
    /\ pc[t] = "repush"
  BY DEF PushBack, CenterMessageAssumption, Getters, Threads, Holders, IInv, ThreadInv
<1> TypeOK /\ at[t] \in Node \ freeNodes
  BY DEF IInv, TypeOK, ThreadInv, OwnerInv
<1> PICK n \in Node \ freeNodes : at[t] = n
  OBVIOUS
<1>a. /\ mq_finished' = Append(mq_finished, n) /\ Len(mq_finished) < QueueLen
      /\ UNCHANGED <<mq_waiting, node, freeNodes, freeHandles, reply, result,
                     slot, left, lost>>
  BY DEF PushBack, memory, buffers
<1>b. /\ pc' = [pc EXCEPT ![t] = "idle"] /\ at' = [at EXCEPT ![t] = NoNode]
      /\ pc'[t] = "idle" /\ at'[t] = NoNode
      /\ \A u \in Threads \ {t} : pc'[u] = pc[u] /\ at'[u] = at[u]
      /\ \A w \in Workers : pc'[w] = pc[w] /\ at'[w] = at[w]
  BY DEF PushBack, Goto, Forget, TypeOK, Threads
<1>c. \A m \in Node : /\ Places(m)' = Places(m) /\ Claimers(m)' = Claimers(m)
                      /\ Askers(m)' = Askers(m) /\ Combiners(m)' = Combiners(m)
                      /\ \A u \in Putters : Pushes(u, m)' <=> Pushes(u, m)
  BY <1>a, <1>b DEF Places, Claimers, Askers, Combiners, Claimed, Pushes,
                    Threads, CenterMessageAssumption
<1>d. \A m \in Node : Done(m)' = Done(m) /\ OwnResult(m)' = OwnResult(m)
  BY <1>a, <1>c DEF Done, OwnResult
<1>e. \A m \in Node : InFinished(m)' <=> InFinished(m) \/ m = n
  BY <1>a DEF InFinished, TypeOK
<1>f. Done(n) /\ ~InFinished(n) /\ n \notin lost /\ ~node[n].refer_flg
  BY DEF IInv, DoneInv, HolderInv
<1>1. TypeOK'
  BY <1>a, <1>b DEF TypeOK, CenterMessageAssumption
<1>2. ThreadInv'
  BY <1>b DEF IInv, ThreadInv, Getters, CenterMessageAssumption
<1>3. OwnerInv' /\ HandleInv'
  BY <1>a, <1>b, <1>c, <1>e DEF IInv, OwnerInv, HandleInv, CenterMessageAssumption, TypeOK
<1>4. PushInv'
  BY <1>a, <1>b DEF IInv, PushInv, Threads
<1>5. CountInv'
  BY <1>a, <1>c, CountKept DEF IInv, CountInv
<1>6. SlotInv'
  BY <1>a, <1>b DEF IInv, SlotInv, Claimed
<1>7. CombineInv'
  BY <1>a, <1>b, <1>d DEF IInv, CombineInv
<1>8. DoneInv'
  <2>1. \A u \in Callers : at'[u] # NoNode =>
          node'[at'[u]].refer_flg /\ (pc'[u] = "extract" => node'[at'[u]].refer_fin)
    BY <1>a, <1>b DEF IInv, DoneInv, Threads, Putters
  <2>2. \A m \in Node : \A u \in Receivers : at'[u] = m /\ pc'[u] \in {"extract", "repush"} =>
          ~node'[m].refer_flg /\ Done(m)' /\ ~InFinished(m)'
    <3> SUFFICES ASSUME NEW m \in Node, NEW u \in Receivers, at'[u] = m,
                        pc'[u] \in {"extract", "repush"}
        PROVE  ~node'[m].refer_flg /\ Done(m)' /\ ~InFinished(m)'
      OBVIOUS
    <3>1. u \in Threads \ {t} /\ u \in Holders /\ at[u] = m /\ pc[u] \in {"extract", "repush"}
      BY <1>b DEF Threads, Getters, Holders
    <3>2. m # n
      BY <3>1 DEF IInv, HolderInv, CenterMessageAssumption
    <3> QED
      BY <3>1, <3>2, <1>a, <1>d, <1>e DEF IInv, DoneInv
  <2> QED
    BY <2>1, <2>2, <1>a, <1>d, <1>e, <1>f DEF IInv, DoneInv
<1>9. HolderInv'
  <2>1. \A u, v \in Holders : at'[u] = at'[v] /\ at'[u] # NoNode => u = v
    BY <1>b DEF IInv, HolderInv, Holders, Threads
  <2>2. \A i, j \in 1 .. Len(mq_finished') : mq_finished'[i] = mq_finished'[j] => i = j
    <3>1. \A i \in 1 .. Len(mq_finished') :
            IF i = Len(mq_finished) + 1 THEN mq_finished'[i] = n
            ELSE i \in 1 .. Len(mq_finished) /\ mq_finished'[i] = mq_finished[i]
      BY <1>a DEF TypeOK
    <3>2. \A i \in 1 .. Len(mq_finished) : mq_finished[i] # n
      BY <1>f DEF InFinished
    <3> QED
      BY <3>1, <3>2 DEF IInv, HolderInv
  <2>3. \A m \in lost' : \A u \in Holders : at'[u] # m
    BY <1>a, <1>b DEF IInv, HolderInv, Holders, Threads, TypeOK, CenterMessageAssumption
  <2> QED
    BY <2>1, <2>2, <2>3 DEF HolderInv
<1>10. KnownInv'
  BY <1>a, <1>b, <1>c, <1>e DEF IInv, KnownInv, Threads, Getters, Putters
<1> QED
  BY <1>1, <1>2, <1>3, <1>4, <1>5, <1>6, <1>7, <1>8, <1>9, <1>10 DEF IInv

\* A pop turns a place of mq_waiting into a worker that will claim a slot.
LEMMA PopWaitingStep ==
  ASSUME CenterMessageAssumption, IInv, NEW w \in Workers, PopWaiting(w)
  PROVE  IInv'
<1> USE CenterMessageAssumption
<1> w \in Threads /\ w \notin Holders /\ pc[w] = "idle" /\ mq_waiting # <<>>
  BY DEF PopWaiting, CenterMessageAssumption, Threads, Holders, Putters, Getters
<1> TypeOK /\ at[w] = NoNode
  BY DEF IInv, TypeOK, ThreadInv
<1> PICK n \in Node : n = Head(mq_waiting) /\ n = mq_waiting[1]
  BY DEF TypeOK
<1>1. n \in Node \ freeNodes
  <2>1. 1 \in Places(n)
    BY DEF Places, PlacesIn, TypeOK
  <2> QED
    BY <2>1 DEF IInv, OwnerInv
<1>a. /\ mq_waiting' = Tail(mq_waiting)
      /\ UNCHANGED <<mq_finished, node, freeNodes, freeHandles, reply, result,
                     slot, left, lost>>
  BY DEF PopWaiting, memory, buffers
<1>b. /\ pc' = [pc EXCEPT ![w] = "claim"] /\ at' = [at EXCEPT ![w] = n]
      /\ pc'[w] = "claim" /\ at'[w] = n
      /\ \A u \in Threads \ {w} : pc'[u] = pc[u] /\ at'[u] = at[u]
      /\ \A u \in Holders : pc'[u] = pc[u] /\ at'[u] = at[u]
  BY DEF PopWaiting, Goto, TypeOK, Threads, Holders
<1>c. \A m : /\ Askers(m)' = Askers(m) /\ Combiners(m)' = Combiners(m)
             /\ InFinished(m)' = InFinished(m)
             /\ \A u \in Putters : Pushes(u, m)' <=> Pushes(u, m)
  BY <1>a, <1>b DEF Askers, Combiners, Claimed, InFinished, Pushes, Threads, Holders
<1>d. \A m : Done(m)' = Done(m) /\ OwnResult(m)' = OwnResult(m)
  BY <1>a, <1>c DEF Done, OwnResult
<1>e. /\ \A m : m # n => Cardinality(Places(m)') = Cardinality(Places(m))
      /\ Cardinality(Places(n)') + 1 = Cardinality(Places(n))
  BY <1>a, PlacesAfterTail DEF Places, TypeOK
<1>f. /\ \A m : m # n => Claimers(m)' = Claimers(m)
      /\ Claimers(n)' = Claimers(n) \cup {w} /\ w \notin Claimers(n)
  BY <1>b DEF Claimers, Threads
<1>g. \A m \in Node : Places(m)' # {} => Places(m) # {}
  <2> SUFFICES ASSUME NEW m \in Node, NEW i \in Places(m)' PROVE i + 1 \in Places(m)
    OBVIOUS
  <2> QED
    BY <1>a DEF Places, PlacesIn, TypeOK
<1>2. TypeOK'
  BY <1>a, <1>b DEF TypeOK
<1>3. ThreadInv'
  BY <1>b DEF IInv, ThreadInv, CenterMessageAssumption
<1>4. OwnerInv' /\ HandleInv'
  BY <1>1, <1>a, <1>b, <1>c, <1>g DEF IInv, OwnerInv, HandleInv, TypeOK
<1>5. PushInv'
  BY <1>a, <1>b DEF IInv, PushInv, Holders
<1>6. CountInv'
  <2> SUFFICES ASSUME NEW m \in Node \ freeNodes PROVE Counted(m)'
    BY <1>a DEF CountInv
  <2>1. Counted(m)
    BY DEF IInv, CountInv
  <2>2. IsFiniteSet(Claimers(m)') /\ Sent(m)' = Sent(m)
    <3>1. /\ Cardinality(Places(m)) \in Nat /\ Cardinality(Claimers(m)) \in Nat
          /\ node[m].cur_count \in Nat /\ IsFiniteSet(Claimers(m))
      BY CountTypes DEF IInv
    <3>2. Sent(m)' = Cardinality(Places(m)') + Cardinality(Claimers(m)') + node[m].cur_count
      BY <1>a DEF Sent
    <3>3. CASE m = n
      <4>1. /\ IsFiniteSet(Claimers(n)')
            /\ Cardinality(Claimers(n)') = Cardinality(Claimers(n)) + 1
        BY <3>1, <3>3, <1>f, JoinAndLeave
      <4>2. Cardinality(Places(n)') \in Int
        <5>1. mq_waiting' \in Seq(Node)
          BY <1>a DEF TypeOK
        <5> QED
          BY <5>1, PlacesFinite DEF Places
      <4> QED
        BY <3>1, <3>2, <3>3, <4>1, <4>2, <1>e DEF Sent
    <3>4. CASE m # n
      BY <3>1, <3>2, <3>4, <1>e, <1>f DEF Sent
    <3> QED
      BY <3>3, <3>4
  <2> QED
    BY <2>1, <2>2, <1>a, <1>c DEF Counted
<1>7. SlotInv'
  BY <1>a, <1>b DEF IInv, SlotInv, Claimed, Threads
<1>8. CombineInv'
  BY <1>a, <1>b, <1>d DEF IInv, CombineInv, Threads
<1>9. DoneInv'
  BY <1>a, <1>b, <1>c, <1>d DEF IInv, DoneInv, Holders, Putters, Getters
<1>10. HolderInv' /\ KnownInv'
  BY <1>a, <1>b, <1>c DEF IInv, HolderInv, KnownInv, Holders, Putters, Getters
<1> QED
  BY <1>2, <1>3, <1>4, <1>5, <1>6, <1>7, <1>8, <1>9, <1>10 DEF IInv

\* A claim takes the next slot; there is one for every copy of the node.
LEMMA ClaimSlotStep ==
  ASSUME CenterMessageAssumption, IInv, NEW w \in Workers, ClaimSlot(w)
  PROVE  IInv'
<1> USE CenterMessageAssumption
<1> w \in Threads /\ w \notin Holders /\ pc[w] = "claim"
  BY DEF ClaimSlot, CenterMessageAssumption, Threads, Holders, Putters, Getters
<1> TypeOK /\ at[w] \in Node \ freeNodes
  BY DEF IInv, TypeOK, ThreadInv, OwnerInv
<1> PICK n \in Node \ freeNodes : at[w] = n
  OBVIOUS
<1> PICK i \in 0 .. AllCount : node[n].cur_count = i
  BY DEF TypeOK
<1>a. /\ slot' = [slot EXCEPT ![w] = i]
      /\ node' = [node EXCEPT ![n].cur_count = i + 1]
      /\ UNCHANGED <<mq_waiting, mq_finished, freeNodes, freeHandles, reply, result,
                     at, left, lost>>
  BY DEF ClaimSlot, memory, buffers
<1>b. /\ pc' = [pc EXCEPT ![w] = "ask"] /\ pc'[w] = "ask" /\ slot'[w] = i
      /\ \A u \in Threads \ {w} : pc'[u] = pc[u]
      /\ \A u \in Holders : pc'[u] = pc[u]
      /\ \A v \in Workers \ {w} : slot'[v] = slot[v]
  BY <1>a DEF ClaimSlot, Goto, TypeOK, Threads, Holders
<1>c. /\ node'[n].cur_count = i + 1
      /\ \A m \in Node \ {n} : node'[m] = node[m]
      /\ \A m \in Node : /\ node'[m].fin_count = node[m].fin_count
                         /\ node'[m].handle = node[m].handle
                         /\ node'[m].refer_flg = node[m].refer_flg
                         /\ node'[m].refer_fin = node[m].refer_fin
  BY <1>a DEF TypeOK
<1>d. \A m : /\ Places(m)' = Places(m) /\ Combiners(m)' = Combiners(m)
             /\ InFinished(m)' = InFinished(m)
             /\ \A u \in Putters : Pushes(u, m)' <=> Pushes(u, m)
  BY <1>a, <1>b DEF Places, Combiners, InFinished, Pushes, Threads, Holders
<1>e. \A m \in Node : /\ Done(m)' <=> Done(m)
                      /\ OwnResult(m)' <=> OwnResult(m)
  BY <1>a, <1>c, <1>d DEF Done, OwnResult
<1>f. /\ \A m : m # n => Claimers(m)' = Claimers(m) /\ Askers(m)' = Askers(m)
      /\ w \in Claimers(n) /\ w \notin Askers(n)
      /\ Claimers(n)' = Claimers(n) \ {w}
      /\ Askers(n)' = Askers(n) \cup {w}
  BY <1>a, <1>b DEF Claimers, Askers, Claimed, Threads
<1>g. /\ Cardinality(Places(n)) \in Nat /\ Cardinality(Claimers(n)) \in Nat
      /\ IsFiniteSet(Claimers(n)) /\ IsFiniteSet(Askers(n)) /\ Cardinality(Askers(n)) \in Nat
      /\ node[n].fin_count \in Nat
  BY CountTypes DEF IInv
<1>h. /\ IsFiniteSet(Claimers(n)') /\ Cardinality(Claimers(n)') = Cardinality(Claimers(n)) - 1
      /\ IsFiniteSet(Askers(n)') /\ Cardinality(Askers(n)') = Cardinality(Askers(n)) + 1
      /\ Cardinality(Claimers(n)) > 0
  BY <1>f, <1>g, JoinAndLeave
<1>i. i < AllCount
  <2>1. Sent(n) = Cardinality(Places(n)) + Cardinality(Claimers(n)) + i
    BY DEF Sent
  <2>2. Sent(n) <= AllCount
    <3>1. CASE \A u \in Putters : ~Pushes(u, n)
      BY <3>1, <1>g, <2>1 DEF IInv, CountInv, Counted
    <3>2. ASSUME NEW u \in Putters, Pushes(u, n) PROVE Sent(n) <= AllCount
      <4>1. left[u] + Sent(n) = AllCount /\ left[u] \in Nat
        BY <3>2 DEF IInv, CountInv, Counted, TypeOK
      <4> QED
        BY <4>1, <2>1, <1>g DEF CenterMessageAssumption
    <3> QED
      BY <3>1, <3>2
  <2> QED
    BY <2>1, <2>2, <1>g, <1>h DEF CenterMessageAssumption
<1>1. TypeOK'
  <2> DEFINE r == [node[n] EXCEPT !.cur_count = i + 1]
  <2>1. r \in [cur_count : 0 .. AllCount, fin_count : 0 .. AllCount,
               handle : Handle, refer_flg : BOOLEAN, refer_fin : BOOLEAN]
    <3>1. node[n] \in [cur_count : 0 .. AllCount, fin_count : 0 .. AllCount,
                       handle : Handle, refer_flg : BOOLEAN, refer_fin : BOOLEAN]
      BY DEF TypeOK
    <3>2. i + 1 \in 0 .. AllCount
      BY <1>i DEF CenterMessageAssumption
    <3> QED
      BY <3>1, <3>2
  <2>2. node' = [node EXCEPT ![n] = r]
    BY <1>a
  <2> HIDE DEF r
  <2>3. node' \in [Node -> [cur_count : 0 .. AllCount, fin_count : 0 .. AllCount,
                        handle : Handle, refer_flg : BOOLEAN, refer_fin : BOOLEAN]]
    BY <2>1, <2>2 DEF TypeOK
  <2>4. slot' \in [Workers -> Slot]
    BY <1>a, <1>i DEF TypeOK, Slot, CenterMessageAssumption
  <2> QED
    BY <2>3, <2>4, <1>a, <1>b DEF TypeOK
<1>2. ThreadInv'
  BY <1>a, <1>b DEF IInv, ThreadInv
<1>3. OwnerInv' /\ HandleInv'
  BY <1>a, <1>c, <1>d DEF IInv, OwnerInv, HandleInv
<1>4. PushInv'
  BY <1>a, <1>b DEF IInv, PushInv, Holders
<1>5. CountInv'
  <2> SUFFICES ASSUME NEW m \in Node \ freeNodes PROVE Counted(m)'
    BY <1>a DEF CountInv
  <2>1. Counted(m)
    BY DEF IInv, CountInv
  <2>2. CASE m # n
    BY <2>1, <2>2, <1>a, <1>c, <1>d, <1>f, CountKept
  <2>3. CASE m = n
    <3>1. Sent(n)' = Sent(n)
      <4>1. Sent(n)' = Cardinality(Places(n)) + Cardinality(Claimers(n)') + (i + 1)
        BY <1>c, <1>d DEF Sent
      <4> QED
        BY <4>1, <1>g, <1>h DEF Sent
    <3>2. Cardinality(Askers(n)') + node'[n].fin_count = node'[n].cur_count
      <4>1. Cardinality(Askers(n)) + node[n].fin_count = i
        BY <2>1, <2>3 DEF Counted
      <4> QED
        BY <4>1, <1>c, <1>g, <1>h
    <3> QED
      BY <2>1, <2>3, <3>1, <3>2, <1>a, <1>d, <1>h DEF Counted
  <2> QED
    BY <2>2, <2>3
<1>6. SlotInv'
  <2>1. \A v \in Workers \ {w} : /\ Claimed(v)' <=> Claimed(v)
                                 /\ at'[v] = at[v] /\ slot'[v] = slot[v] /\ pc'[v] = pc[v]
    BY <1>a, <1>b DEF Claimed, Threads
  <2>2. \A v \in Workers \ {w} : Claimed(v) /\ at[v] = n => slot[v] < i
    BY DEF IInv, SlotInv
  <2>3. slot \in [Workers -> Slot] /\ \A v \in Workers : Claimed(v) => at[v] \in Node
    BY DEF TypeOK, Claimed, IInv, ThreadInv, Threads
  <2>4. \A v \in Workers : Claimed(v)' => slot'[v] < node'[at'[v]].cur_count
    <3> SUFFICES ASSUME NEW v \in Workers, Claimed(v)'
        PROVE  slot'[v] < node'[at[v]].cur_count
      BY <1>a
    <3>1. CASE v = w
      BY <3>1, <1>b, <1>c
    <3>2. CASE v # w /\ at[v] = n
      <4>1. slot'[v] < i /\ slot'[v] \in Nat
        BY <3>2, <2>1, <2>2, <2>3 DEF Slot, CenterMessageAssumption
      <4> QED
        BY <3>2, <4>1, <1>c
    <3>3. CASE v # w /\ at[v] # n
      BY <3>3, <2>1, <2>3, <1>c DEF IInv, SlotInv
    <3> QED
      BY <3>1, <3>2, <3>3
  <2>5. \A u, v \in Workers :
          Claimed(u)' /\ Claimed(v)' /\ at'[u] = at'[v] /\ slot'[u] = slot'[v] => u = v
    <3>1. \A v \in Workers \ {w} : ~(Claimed(v)' /\ at'[v] = n /\ slot'[v] = i)
      BY <2>1, <2>2
    <3>2. \A u, v \in Workers \ {w} :
            Claimed(u)' /\ Claimed(v)' /\ at'[u] = at'[v] /\ slot'[u] = slot'[v] => u = v
      BY <2>1 DEF IInv, SlotInv
    <3> QED
      BY <3>1, <3>2, <1>a, <1>b
  <2>6. ASSUME NEW m \in Node \ freeNodes', NEW j \in Slot, j < node'[m].cur_count,
               \A v \in Workers : at'[v] = m /\ pc'[v] = "ask" => slot'[v] # j
        PROVE  reply'[node'[m].handle][j] # "old"
    <3>1. \A v \in Workers : at[v] = m /\ pc[v] = "ask" => slot[v] # j
      BY <2>1, <2>6
    <3>2. j < node[m].cur_count
      <4>1. CASE m = n
        <5>1. j # i
          BY <4>1, <2>6, <1>a, <1>b
        <5> QED
          BY <4>1, <5>1, <2>6, <1>c DEF Slot, CenterMessageAssumption
      <4>2. CASE m # n
        BY <4>2, <2>6, <1>c
      <4> QED
        BY <4>1, <4>2
    <3> QED
      BY <3>1, <3>2, <1>a, <1>c DEF IInv, SlotInv
  <2> QED
    BY <2>4, <2>5, <2>6 DEF SlotInv
<1>7. CombineInv'
  <2>1. \A v \in Workers : pc'[v] \in {"combine", "signal"} =>
          v # w /\ pc'[v] = pc[v] /\ at[v] \in Node
    BY <1>b DEF IInv, ThreadInv, TypeOK, Threads
  <2> QED
    BY <2>1, <1>a, <1>c, <1>e DEF IInv, CombineInv
<1>8. DoneInv'
  <2>1. \A u \in Callers : at'[u] # NoNode =>
          node'[at'[u]].refer_flg /\ (pc'[u] = "extract" => node'[at'[u]].refer_fin)
    BY <1>a, <1>b, <1>c DEF IInv, DoneInv, Holders, Putters, Threads, TypeOK
  <2>2. \A m \in Node : \A u \in Receivers : at'[u] = m /\ pc'[u] \in {"extract", "repush"} =>
          ~node'[m].refer_flg /\ Done(m)' /\ ~InFinished(m)'
    BY <1>a, <1>b, <1>c, <1>d, <1>e DEF IInv, DoneInv, Holders, Getters
  <2>3. \A m \in lost' : node'[m].refer_flg /\ node'[m].refer_fin
    BY <1>a, <1>c DEF IInv, DoneInv, TypeOK
  <2> QED
    BY <2>1, <2>2, <2>3, <1>a, <1>c, <1>d, <1>e DEF IInv, DoneInv
<1>9. HolderInv' /\ KnownInv'
  BY <1>a, <1>b, <1>c, <1>d DEF IInv, HolderInv, KnownInv
<1> QED
  BY <1>1, <1>2, <1>3, <1>4, <1>5, <1>6, <1>7, <1>8, <1>9 DEF IInv

\* The slot that was asked holds something of this message.
LEMMA ProcessTaskStep ==
  ASSUME CenterMessageAssumption, IInv, NEW w \in Workers, ProcessTask(w)
  PROVE  IInv'
<1> USE CenterMessageAssumption
<1> w \in Threads /\ w \notin Holders /\ pc[w] = "ask"
  BY DEF ProcessTask, CenterMessageAssumption, Threads, Holders, Putters, Getters
<1> TypeOK /\ at[w] \in Node \ freeNodes
  BY DEF IInv, TypeOK, ThreadInv, OwnerInv
<1> PICK n \in Node \ freeNodes : at[w] = n
  OBVIOUS
<1> PICK h \in Handle : node[n].handle = h
  BY DEF TypeOK
<1> PICK i \in Slot : slot[w] = i
  BY DEF TypeOK
<1>a. PICK c \in {"none", "ok"} : reply' = [reply EXCEPT ![h][i] = c]
  BY DEF ProcessTask, Ask
<1>b. UNCHANGED <<mq_waiting, mq_finished, node, freeNodes, freeHandles, result,
                  at, slot, left, lost>>
  BY DEF ProcessTask, memory
<1>c. /\ pc' = [pc EXCEPT ![w] = "count"] /\ pc'[w] = "count"
      /\ \A u \in Threads \ {w} : pc'[u] = pc[u]
      /\ \A u \in Holders : pc'[u] = pc[u]
  BY DEF ProcessTask, Goto, TypeOK, Threads, Holders
<1>d. \A m : /\ Places(m)' = Places(m) /\ Claimers(m)' = Claimers(m)
             /\ Askers(m)' = Askers(m) /\ Combiners(m)' = Combiners(m)
             /\ InFinished(m)' = InFinished(m)
             /\ \A u \in Putters : Pushes(u, m)' <=> Pushes(u, m)
  BY <1>b, <1>c DEF Places, Claimers, Askers, Combiners, Claimed, InFinished, Pushes,
                    Threads, Holders
<1>e. \A m : Done(m)' = Done(m) /\ OwnResult(m)' = OwnResult(m)
  BY <1>b, <1>d DEF Done, OwnResult
<1>1. TypeOK'
  <2>1. reply' \in [Handle -> [Slot -> Content]]
    BY <1>a DEF TypeOK, Content
  <2> QED
    BY <2>1, <1>b, <1>c DEF TypeOK
<1>2. ThreadInv'
  BY <1>b, <1>c DEF IInv, ThreadInv
<1>3. OwnerInv' /\ HandleInv' /\ HolderInv' /\ KnownInv'
  BY <1>b, <1>d DEF IInv, OwnerInv, HandleInv, HolderInv, KnownInv
<1>4. PushInv'
  BY <1>b, <1>c DEF IInv, PushInv, Holders
<1>5. CountInv'
  BY <1>b, <1>d, CountKept DEF IInv, CountInv
<1>6. SlotInv'
  <2>1. \A v \in Workers : Claimed(v)' <=> Claimed(v)
    BY <1>c DEF Claimed, Threads
  <2>2. ASSUME NEW m \in Node \ freeNodes', NEW j \in Slot, j < node'[m].cur_count,
               \A v \in Workers : at'[v] = m /\ pc'[v] = "ask" => slot'[v] # j
        PROVE  reply'[node'[m].handle][j] # "old"
    <3>1. CASE m = n /\ j = i
      BY <3>1, <1>a, <1>b DEF TypeOK
    <3>2. CASE ~(m = n /\ j = i)
      <4>1. \A v \in Workers : at[v] = m /\ pc[v] = "ask" => slot[v] # j
        BY <3>2, <2>2, <1>b, <1>c DEF Threads
      <4>2. reply[node[m].handle][j] # "old"
        BY <4>1, <2>2, <1>b DEF IInv, SlotInv
      <4>3. m # n => node[m].handle # h
        BY <1>b DEF IInv, HandleInv
      <4> QED
        BY <3>2, <4>2, <4>3, <1>a, <1>b DEF TypeOK
    <3> QED
      BY <3>1, <3>2
  <2> QED
    BY <2>1, <2>2, <1>b DEF IInv, SlotInv
<1>7. CombineInv'
  BY <1>b, <1>c, <1>e DEF IInv, CombineInv, Threads
<1>8. DoneInv'
  BY <1>b, <1>c, <1>d, <1>e DEF IInv, DoneInv, Holders, Putters, Getters
<1> QED
  BY <1>1, <1>2, <1>3, <1>4, <1>5, <1>6, <1>7, <1>8 DEF IInv

\* The worker that counts the last slot, and no other, goes on to combine.
LEMMA CountFinishedStep ==
  ASSUME CenterMessageAssumption, IInv, NEW w \in Workers, CountFinished(w)
  PROVE  IInv'
<1> USE CenterMessageAssumption
<1> w \in Threads /\ w \notin Holders /\ pc[w] = "count"
  BY DEF CountFinished, CenterMessageAssumption, Threads, Holders, Putters, Getters
<1> TypeOK /\ at[w] \in Node \ freeNodes
  BY DEF IInv, TypeOK, ThreadInv, OwnerInv
<1> PICK n \in Node \ freeNodes : at[w] = n
  OBVIOUS
<1> PICK f \in 0 .. AllCount : node[n].fin_count = f
  BY DEF TypeOK
<1>a. /\ node' = [node EXCEPT ![n].fin_count = f + 1]
      /\ UNCHANGED <<mq_waiting, mq_finished, freeNodes, freeHandles, reply, result,
                     slot, left, lost>>
  BY DEF CountFinished, memory, buffers
<1>b. IF f + 1 = AllCount THEN pc'[w] = "combine" /\ at'[w] = n
                          ELSE pc'[w] = "idle" /\ at'[w] = NoNode
  BY DEF CountFinished, Finishes, Goto, Forget, TypeOK
<1>c. /\ \A u \in Threads \ {w} : pc'[u] = pc[u] /\ at'[u] = at[u]
      /\ \A u \in Holders : pc'[u] = pc[u] /\ at'[u] = at[u]
  BY DEF CountFinished, Goto, Forget, TypeOK, Threads, Holders
<1>d. /\ node'[n].fin_count = f + 1
      /\ \A m \in Node \ {n} : node'[m] = node[m]
      /\ \A m \in Node : /\ node'[m].cur_count = node[m].cur_count
                         /\ node'[m].handle = node[m].handle
                         /\ node'[m].refer_flg = node[m].refer_flg
                         /\ node'[m].refer_fin = node[m].refer_fin
  BY <1>a DEF TypeOK
<1>e. \A m \in Node : /\ Places(m)' = Places(m) /\ Claimers(m)' = Claimers(m)
                      /\ InFinished(m)' = InFinished(m)
                      /\ OwnResult(m)' = OwnResult(m)
                      /\ \A u \in Putters : Pushes(u, m)' <=> Pushes(u, m)
  <2>1. pc'[w] # "claim" /\ pc[w] # "claim"
    BY <1>b
  <2> QED
    BY <2>1, <1>a, <1>c, <1>d DEF Places, Claimers, InFinished, OwnResult, Pushes, Threads, Holders
<1>f. /\ \A m \in Node \ {n} : Askers(m)' = Askers(m) /\ Combiners(m)' = Combiners(m)
      /\ w \in Askers(n) /\ Askers(n)' = Askers(n) \ {w}
      /\ Combiners(n) \subseteq Combiners(n)'
      /\ f + 1 = AllCount => w \in Combiners(n)'
  <2>1. /\ \A m \in Node \ {n} : at'[w] # m /\ at[w] # m
        /\ pc'[w] \notin {"ask", "count"} /\ pc[w] \notin {"combine", "signal"}
    BY <1>b DEF CenterMessageAssumption
  <2>2. \A v \in Workers \ {w} : pc'[v] = pc[v] /\ at'[v] = at[v]
    BY <1>c DEF Threads
  <2> QED
    BY <2>1, <2>2, <1>b DEF Askers, Combiners, Claimed
<1>g. \A m \in Node \ {n} : Done(m)' = Done(m)
  BY <1>d, <1>e, <1>f DEF Done
<1>h. /\ IsFiniteSet(Askers(n)) /\ Cardinality(Askers(n)) \in Nat /\ Cardinality(Askers(n)) > 0
      /\ IsFiniteSet(Askers(n)') /\ Cardinality(Askers(n)') = Cardinality(Askers(n)) - 1
      /\ node[n].cur_count \in 0 .. AllCount
  BY <1>f, CountTypes, JoinAndLeave DEF IInv
<1>i. f < AllCount
  <2>1. Cardinality(Askers(n)) + f = node[n].cur_count
    BY DEF IInv, CountInv, Counted
  <2> QED
    BY <2>1, <1>h DEF CenterMessageAssumption
<1>j. ~Done(n)
  BY <1>i DEF Done, CenterMessageAssumption
<1>1. TypeOK'
  <2> DEFINE r == [node[n] EXCEPT !.fin_count = f + 1]
  <2>1. r \in [cur_count : 0 .. AllCount, fin_count : 0 .. AllCount,
               handle : Handle, refer_flg : BOOLEAN, refer_fin : BOOLEAN]
    <3>1. node[n] \in [cur_count : 0 .. AllCount, fin_count : 0 .. AllCount,
                       handle : Handle, refer_flg : BOOLEAN, refer_fin : BOOLEAN]
      BY DEF TypeOK
    <3>2. f + 1 \in 0 .. AllCount
      BY <1>i DEF CenterMessageAssumption
    <3> QED
      BY <3>1, <3>2
  <2>2. node' = [node EXCEPT ![n] = r]
    BY <1>a
  <2> HIDE DEF r
  <2>3. node' \in [Node -> [cur_count : 0 .. AllCount, fin_count : 0 .. AllCount,
                        handle : Handle, refer_flg : BOOLEAN, refer_fin : BOOLEAN]]
    BY <2>1, <2>2 DEF TypeOK
  <2>4. pc' \in [Threads -> {"idle", "push", "poll", "extract", "repush",
                            "claim", "ask", "count", "combine", "signal"}]
    BY DEF TypeOK, CountFinished, Goto
  <2>5. at' \in [Threads -> Node \cup {NoNode}]
    BY DEF TypeOK, CountFinished, Forget
  <2> QED
    BY <2>3, <2>4, <2>5, <1>a DEF TypeOK
<1>2. ThreadInv'
  BY <1>b, <1>c DEF IInv, ThreadInv, CenterMessageAssumption
<1>3. OwnerInv'
  BY <1>a, <1>b, <1>c, <1>e DEF IInv, OwnerInv, TypeOK, CenterMessageAssumption
<1>4. HandleInv'
  BY <1>a, <1>d DEF IInv, HandleInv
<1>5. PushInv'
  BY <1>a, <1>c DEF IInv, PushInv, Holders
<1>6. CountInv'
  <2> SUFFICES ASSUME NEW m \in Node \ freeNodes PROVE Counted(m)'
    BY <1>a DEF CountInv
  <2>1. Counted(m)
    BY DEF IInv, CountInv
  <2>2. CASE m # n
    BY <2>1, <2>2, <1>a, <1>d, <1>e, <1>f, CountKept
  <2>3. CASE m = n
    <3>1. Sent(n)' = Sent(n)
      BY <1>d, <1>e DEF Sent
    <3>2. Cardinality(Askers(n)') + node'[n].fin_count = node'[n].cur_count
      <4>1. Cardinality(Askers(n)) + f = node[n].cur_count
        BY <2>1, <2>3 DEF Counted
      <4> QED
        BY <4>1, <1>d, <1>h
    <3> QED
      BY <2>1, <2>3, <3>1, <3>2, <1>a, <1>e, <1>h DEF Counted
  <2> QED
    BY <2>2, <2>3
<1>7. SlotInv'
  <2>1. \A v \in Workers : Claimed(v)' =>
          /\ v # w /\ Claimed(v) /\ at'[v] = at[v] /\ at[v] \in Node
    <3>1. ~Claimed(w)'
      BY <1>b DEF Claimed
    <3> QED
      BY <3>1, <1>c DEF Claimed, Threads, IInv, ThreadInv, TypeOK
  <2>2. ASSUME NEW m \in Node \ freeNodes', NEW j \in Slot, j < node'[m].cur_count,
               \A v \in Workers : at'[v] = m /\ pc'[v] = "ask" => slot'[v] # j
        PROVE  reply'[node'[m].handle][j] # "old"
    <3>1. \A v \in Workers : at[v] = m /\ pc[v] = "ask" => slot[v] # j
      BY <2>2, <1>a, <1>c DEF Threads
    <3> QED
      BY <3>1, <2>2, <1>a, <1>d DEF IInv, SlotInv
  <2> QED
    BY <2>1, <2>2, <1>a, <1>d DEF IInv, SlotInv
<1>8. CombineInv'
  <2>1. \A v \in Workers : at[v] = n => pc[v] \notin {"combine", "signal"}
    BY <1>i DEF IInv, CombineInv, CenterMessageAssumption
  <2>2. \A v \in Workers \ {w} : pc'[v] = pc[v] /\ at'[v] = at[v] /\
          (pc[v] \in {"combine", "signal"} => at[v] \in Node \ {n})
    BY <2>1, <1>c DEF IInv, ThreadInv, TypeOK, Threads
  <2>3. \A v \in Workers : pc'[v] \in {"combine", "signal"} => node'[at'[v]].fin_count = AllCount
    <3>1. pc'[w] \in {"combine", "signal"} => at'[w] = n /\ f + 1 = AllCount
      BY <1>b
    <3> QED
      BY <2>2, <3>1, <1>d DEF IInv, CombineInv
  <2>4. \A u, v \in Workers : pc'[u] \in {"combine", "signal"} /\ pc'[v] \in {"combine", "signal"}
          /\ at'[u] = at'[v] => u = v
    <3>1. pc'[w] \in {"combine", "signal"} => at'[w] = n
      BY <1>b
    <3> QED
      BY <2>2, <3>1 DEF IInv, CombineInv
  <2>5. \A m \in Node : \A v \in Workers : at'[v] = m /\ pc'[v] = "signal" => OwnResult(m)'
    <3>1. pc'[w] # "signal"
      BY <1>b
    <3> QED
      BY <2>2, <3>1, <1>e DEF IInv, CombineInv
  <2> QED
    BY <2>3, <2>4, <2>5 DEF CombineInv
<1>9. DoneInv'
  <2>1. \A m \in Node \ freeNodes' : node'[m].refer_flg /\ node'[m].refer_fin => Done(m)'
    BY <1>a, <1>d, <1>g, <1>j DEF IInv, DoneInv
  <2>2. \A m \in Node : InFinished(m)' => ~node'[m].refer_flg /\ Done(m)'
    BY <1>d, <1>e, <1>g, <1>j DEF IInv, DoneInv
  <2>3. \A u \in Callers : at'[u] # NoNode =>
          node'[at'[u]].refer_flg /\ (pc'[u] = "extract" => node'[at'[u]].refer_fin)
    BY <1>c, <1>d DEF IInv, DoneInv, Holders, Putters, Threads, TypeOK
  <2>4. \A m \in Node : \A u \in Receivers : at'[u] = m /\ pc'[u] \in {"extract", "repush"} =>
          ~node'[m].refer_flg /\ Done(m)' /\ ~InFinished(m)'
    BY <1>c, <1>d, <1>e, <1>g, <1>j DEF IInv, DoneInv, Holders, Getters
  <2>5. \A m \in lost' : node'[m].refer_flg /\ node'[m].refer_fin
    BY <1>a, <1>d DEF IInv, DoneInv, TypeOK
  <2> QED
    BY <2>1, <2>2, <2>3, <2>4, <2>5 DEF DoneInv
<1>10. HolderInv'
  BY <1>a, <1>c DEF IInv, HolderInv
<1>11. KnownInv'
  <2> SUFFICES ASSUME NEW m \in Node \ freeNodes'
      PROVE  IF node'[m].refer_flg
             THEN m \in lost' \/ \E u \in Callers : at'[u] = m
             ELSE \/ node'[m].fin_count < AllCount \/ Combiners(m)' # {} \/ InFinished(m)'
                  \/ \E u \in Receivers : at'[u] = m
    BY DEF KnownInv
  <2>1. m = n => node'[m].fin_count < AllCount \/ Combiners(m)' # {}
    BY <1>d, <1>f, <1>i DEF CenterMessageAssumption
  <2>2. m # n => node'[m] = node[m] /\ Combiners(m)' = Combiners(m)
    BY <1>d, <1>f
  <2>3. \A u \in Callers \cup Receivers : at'[u] = at[u]
    BY <1>c DEF Holders, Putters, Getters
  <2> QED
    BY <2>1, <2>2, <2>3, <1>a, <1>d, <1>e DEF IInv, KnownInv
<1> QED
  BY <1>1, <1>2, <1>3, <1>4, <1>5, <1>6, <1>7, <1>8, <1>9, <1>10, <1>11 DEF IInv

\* Every slot was asked for this message, and no other message has the handle.
LEMMA CombineTaskStep ==
  ASSUME CenterMessageAssumption, IInv, NEW w \in Workers, CombineTask(w)
  PROVE  IInv'
<1> USE CenterMessageAssumption
<1> w \in Threads /\ w \notin Holders /\ pc[w] = "combine"
  BY DEF CombineTask, CenterMessageAssumption, Threads, Holders, Putters, Getters
<1> TypeOK /\ at[w] \in Node \ freeNodes
  BY DEF IInv, TypeOK, ThreadInv, OwnerInv
<1> PICK n \in Node \ freeNodes : at[w] = n
  OBVIOUS
<1> PICK h \in Handle : node[n].handle = h
  BY DEF TypeOK
<1> DEFINE answers == {<<i, reply[h][i]>> : i \in {j \in Slot : reply[h][j] \in {"ok", "old"}}}
<1>a. /\ result' = [result EXCEPT ![h] = answers]
      /\ UNCHANGED <<mq_waiting, mq_finished, node, freeNodes, freeHandles, reply,
                     at, slot, left, lost>>
  BY DEF CombineTask, memory
<1>b. /\ pc' = [pc EXCEPT ![w] = "signal"] /\ pc'[w] = "signal"
      /\ \A u \in Threads \ {w} : pc'[u] = pc[u]
      /\ \A u \in Holders : pc'[u] = pc[u]
  BY DEF CombineTask, Goto, TypeOK, Threads, Holders
<1>c. \A m : /\ Places(m)' = Places(m) /\ Claimers(m)' = Claimers(m)
             /\ Askers(m)' = Askers(m) /\ Combiners(m)' = Combiners(m)
             /\ InFinished(m)' = InFinished(m)
             /\ \A u \in Putters : Pushes(u, m)' <=> Pushes(u, m)
  BY <1>a, <1>b DEF Places, Claimers, Askers, Combiners, Claimed, InFinished, Pushes,
                    Threads, Holders
<1>d. answers \in Combined /\ \A r \in answers : r[2] = "ok"
  <2>1. answers \in Combined
    BY DEF Combined
  <2>2. \A i \in Slot : reply[h][i] # "old"
    <3>1. node[n].fin_count = AllCount
      BY DEF IInv, CombineInv
    <3>2. node[n].cur_count = AllCount /\ Askers(n) = {}
      BY <3>1, FinishedIsQuiet DEF IInv
    <3>3. \A i \in Slot : i < node[n].cur_count
      BY <3>2 DEF Slot, CenterMessageAssumption
    <3>4. \A v \in Workers : ~(at[v] = n /\ pc[v] = "ask")
      BY <3>2 DEF Askers, Claimed
    <3> QED
      BY <3>3, <3>4 DEF IInv, SlotInv
  <2> QED
    BY <2>1, <2>2
<1> HIDE DEF answers
<1>e. OwnResult(n)'
  BY <1>a, <1>d DEF OwnResult, TypeOK
<1>f. \A m \in Node \ freeNodes : m # n =>
        /\ OwnResult(m)' <=> OwnResult(m)
        /\ Done(m)' <=> Done(m)
  <2>1. \A m \in Node \ freeNodes : m # n => OwnResult(m)' <=> OwnResult(m)
    BY <1>a DEF OwnResult, IInv, HandleInv, TypeOK
  <2> QED
    BY <2>1, <1>a, <1>c DEF Done
<1>g. ~Done(n)
  BY DEF Done, Combiners
<1>1. TypeOK'
  <2>1. result' \in [Handle -> Combined]
    BY <1>a, <1>d DEF TypeOK
  <2> QED
    BY <2>1, <1>a, <1>b DEF TypeOK
<1>2. ThreadInv'
  BY <1>a, <1>b DEF IInv, ThreadInv
<1>3. OwnerInv' /\ HandleInv' /\ HolderInv' /\ KnownInv'
  BY <1>a, <1>c DEF IInv, OwnerInv, HandleInv, HolderInv, KnownInv
<1>4. PushInv'
  BY <1>a, <1>b DEF IInv, PushInv, Holders
<1>5. CountInv'
  BY <1>a, <1>c, CountKept DEF IInv, CountInv
<1>6. SlotInv'
  BY <1>a, <1>b DEF IInv, SlotInv, Claimed, Threads
<1>7. CombineInv'
  <2>1. \A v \in Workers : /\ pc'[v] \in {"combine", "signal"} <=> pc[v] \in {"combine", "signal"}
                           /\ v # w => pc'[v] = pc[v]
    BY <1>b DEF Threads
  <2>2. \A m \in Node : \A v \in Workers : at'[v] = m /\ pc'[v] = "signal" => OwnResult(m)'
    <3> SUFFICES ASSUME NEW m \in Node, NEW v \in Workers, at[v] = m, pc'[v] = "signal"
        PROVE  OwnResult(m)'
      BY <1>a
    <3>1. CASE m = n
      BY <3>1, <1>e
    <3>2. CASE m # n
      <4>1. pc[v] = "signal" /\ m \notin freeNodes
        BY <3>2, <2>1 DEF IInv, OwnerInv, Threads
      <4>2. OwnResult(m)
        BY <4>1 DEF IInv, CombineInv
      <4>3. m \in Node \ freeNodes /\ m # n
        BY <4>1, <3>2
      <4> QED
        BY <4>2, <4>3, <1>f
    <3> QED
      BY <3>1, <3>2
  <2> QED
    BY <2>1, <2>2, <1>a DEF IInv, CombineInv
<1>8. DoneInv'
  <2>1. \A m \in Node \ freeNodes : Done(m) => Done(m)'
    BY <1>f, <1>g
  <2>2. \A m \in Node : InFinished(m) => m \notin freeNodes
    BY DEF IInv, OwnerInv
  <2>3. \A m \in Node : \A u \in Receivers : at'[u] = m /\ pc'[u] \in {"extract", "repush"} =>
          ~node'[m].refer_flg /\ Done(m)' /\ ~InFinished(m)'
    <3> SUFFICES ASSUME NEW m \in Node, NEW u \in Receivers, at'[u] = m,
                        pc'[u] \in {"extract", "repush"}
        PROVE  ~node'[m].refer_flg /\ Done(m)' /\ ~InFinished(m)'
      OBVIOUS
    <3>1. at[u] = m /\ pc[u] \in {"extract", "repush"} /\ m \notin freeNodes
      BY <1>a, <1>b DEF Holders, Getters, IInv, OwnerInv, Threads
    <3> QED
      BY <3>1, <2>1, <1>a, <1>c DEF IInv, DoneInv
  <2> QED
    BY <2>1, <2>2, <2>3, <1>a, <1>b, <1>c DEF IInv, DoneInv, Holders, Putters
<1> QED
  BY <1>1, <1>2, <1>3, <1>4, <1>5, <1>6, <1>7, <1>8 DEF IInv

\* The worker's last access hands the node to whoever waits for it.
LEMMA SignalStep ==
  ASSUME CenterMessageAssumption, IInv, NEW w \in Workers, Signal(w)
  PROVE  IInv'
<1> USE CenterMessageAssumption
<1> w \in Threads /\ w \notin Holders /\ pc[w] = "signal"
  BY DEF Signal, CenterMessageAssumption, Threads, Holders, Putters, Getters
<1> TypeOK /\ at[w] \in Node \ freeNodes
  BY DEF IInv, TypeOK, ThreadInv, OwnerInv
<1> PICK n \in Node \ freeNodes : at[w] = n
  OBVIOUS
<1>a. UNCHANGED <<mq_waiting, freeNodes, freeHandles, reply, result, slot, left, lost>>
  BY DEF Signal, memory, buffers
<1>b. \/ /\ node[n].refer_flg /\ node' = [node EXCEPT ![n].refer_fin = TRUE]
         /\ mq_finished' = mq_finished
      \/ /\ ~node[n].refer_flg /\ Len(mq_finished) < QueueLen
         /\ mq_finished' = Append(mq_finished, n) /\ node' = node
  BY DEF Signal
<1>c. /\ pc' = [pc EXCEPT ![w] = "idle"] /\ at' = [at EXCEPT ![w] = NoNode]
      /\ pc'[w] = "idle" /\ at'[w] = NoNode
      /\ \A u \in Threads \ {w} : pc'[u] = pc[u] /\ at'[u] = at[u]
      /\ \A u \in Holders : pc'[u] = pc[u] /\ at'[u] = at[u]
  BY DEF Signal, Goto, Forget, TypeOK, Threads, Holders
<1>d. /\ \A m \in Node \ {n} : node'[m] = node[m]
      /\ \A m \in Node : /\ node'[m].cur_count = node[m].cur_count
                         /\ node'[m].fin_count = node[m].fin_count
                         /\ node'[m].handle = node[m].handle
                         /\ node'[m].refer_flg = node[m].refer_flg
                         /\ node[m].refer_fin => node'[m].refer_fin
      /\ node[n].refer_flg => node'[n].refer_fin
  <2>1. CASE node[n].refer_flg /\ node' = [node EXCEPT ![n].refer_fin = TRUE]
    BY <2>1 DEF TypeOK
  <2>2. CASE ~node[n].refer_flg /\ node' = node
    BY <2>2
  <2> QED
    BY <2>1, <2>2, <1>b
<1>e. \A m \in Node : /\ Places(m)' = Places(m) /\ Claimers(m)' = Claimers(m)
                      /\ Askers(m)' = Askers(m)
                      /\ OwnResult(m)' = OwnResult(m)
                      /\ \A u \in Putters : Pushes(u, m)' <=> Pushes(u, m)
  BY <1>a, <1>c, <1>d DEF Places, Claimers, Askers, Claimed, OwnResult, Pushes,
                          Threads, Holders, CenterMessageAssumption
<1>f. /\ \A m \in Node \ {n} : Combiners(m)' = Combiners(m)
      /\ Combiners(n)' = {} /\ w \in Combiners(n)
  BY <1>c DEF Combiners, Threads, CenterMessageAssumption, IInv, CombineInv
<1>g. /\ \A m \in Node \ {n} : Done(m)' = Done(m)
      /\ ~Done(n) /\ Done(n)'
  <2>1. \A m \in Node \ {n} : Done(m)' = Done(m)
    BY <1>d, <1>e, <1>f DEF Done
  <2>2. node'[n].fin_count = AllCount /\ OwnResult(n)'
    BY <1>d, <1>e DEF IInv, CombineInv
  <2>3. ~Done(n)
    BY <1>f DEF Done
  <2> QED
    BY <2>1, <2>2, <2>3, <1>f DEF Done
<1>h. ~InFinished(n)
  BY <1>g DEF IInv, DoneInv
<1>i. /\ \A m \in Node \ {n} : InFinished(m)' <=> InFinished(m)
      /\ InFinished(n)' <=> ~node[n].refer_flg
  <2>1. CASE node[n].refer_flg
    BY <2>1, <1>b, <1>h DEF InFinished
  <2>2. CASE ~node[n].refer_flg
    <3>1. mq_finished' = Append(mq_finished, n)
      BY <2>2, <1>b
    <3>2. /\ Len(mq_finished') = Len(mq_finished) + 1 /\ Len(mq_finished) \in Nat
          /\ mq_finished'[Len(mq_finished) + 1] = n
          /\ \A i \in 1 .. Len(mq_finished) : mq_finished'[i] = mq_finished[i]
      BY <3>1 DEF TypeOK
    <3>3. InFinished(n)'
      BY <3>2 DEF InFinished
    <3>4. ASSUME NEW m \in Node \ {n} PROVE InFinished(m)' <=> InFinished(m)
      BY <3>2 DEF InFinished
    <3> QED
      BY <2>2, <3>3, <3>4
  <2> QED
    BY <2>1, <2>2
<1>1. TypeOK'
  <2> DEFINE r == [node[n] EXCEPT !.refer_fin = TRUE]
  <2>1. r \in [cur_count : 0 .. AllCount, fin_count : 0 .. AllCount,
               handle : Handle, refer_flg : BOOLEAN, refer_fin : BOOLEAN]
    <3>1. node[n] \in [cur_count : 0 .. AllCount, fin_count : 0 .. AllCount,
                       handle : Handle, refer_flg : BOOLEAN, refer_fin : BOOLEAN]
      BY DEF TypeOK
    <3> QED
      BY <3>1
  <2>2. node' = [node EXCEPT ![n] = r] \/ node' = node
    BY <1>b
  <2> HIDE DEF r
  <2>3. node' \in [Node -> [cur_count : 0 .. AllCount, fin_count : 0 .. AllCount,
                        handle : Handle, refer_flg : BOOLEAN, refer_fin : BOOLEAN]]
    BY <2>1, <2>2 DEF TypeOK
  <2>4. mq_finished' \in Seq(Node) /\ Len(mq_finished') <= QueueLen
    <3>1. mq_finished \in Seq(Node) /\ Len(mq_finished) <= QueueLen /\ QueueLen \in Nat
      BY DEF TypeOK, CenterMessageAssumption
    <3>2. CASE mq_finished' = Append(mq_finished, n) /\ Len(mq_finished) < QueueLen
      BY <3>1, <3>2
    <3>3. CASE mq_finished' = mq_finished
      BY <3>1, <3>3
    <3> QED
      BY <3>2, <3>3, <1>b
  <2> QED
    BY <2>3, <2>4, <1>a, <1>c DEF TypeOK
<1>2. ThreadInv'
  BY <1>c DEF IInv, ThreadInv, CenterMessageAssumption
<1>3. OwnerInv'
  BY <1>a, <1>c, <1>e, <1>i DEF IInv, OwnerInv, TypeOK, CenterMessageAssumption
<1>4. HandleInv'
  BY <1>a, <1>d DEF IInv, HandleInv
<1>5. PushInv'
  BY <1>a, <1>c DEF IInv, PushInv, Holders
<1>6. CountInv'
  BY <1>a, <1>d, <1>e, CountKept DEF IInv, CountInv
<1>7. SlotInv'
  <2>1. \A v \in Workers : /\ Claimed(v)' <=> Claimed(v)
                           /\ pc'[v] = "ask" <=> pc[v] = "ask"
                           /\ Claimed(v) => at'[v] = at[v] /\ at[v] \in Node
                           /\ pc[v] = "ask" => at'[v] = at[v]
    BY <1>c DEF Claimed, Threads, IInv, ThreadInv, TypeOK
  <2>2. ASSUME NEW m \in Node \ freeNodes', NEW j \in Slot, j < node'[m].cur_count,
               \A v \in Workers : at'[v] = m /\ pc'[v] = "ask" => slot'[v] # j
        PROVE  reply'[node'[m].handle][j] # "old"
    <3>1. \A v \in Workers : at[v] = m /\ pc[v] = "ask" => slot[v] # j
      BY <2>1, <2>2, <1>a
    <3> QED
      BY <3>1, <2>2, <1>a, <1>d DEF IInv, SlotInv
  <2> QED
    BY <2>1, <2>2, <1>a, <1>d DEF IInv, SlotInv
<1>8. CombineInv'
  <2>1. \A v \in Workers : pc'[v] \in {"combine", "signal"} =>
          v # w /\ pc'[v] = pc[v] /\ at'[v] = at[v] /\ at[v] \in Node
    BY <1>c DEF IInv, ThreadInv, TypeOK, Threads
  <2> QED
    BY <2>1, <1>d, <1>e DEF IInv, CombineInv
<1>9. DoneInv'
  <2>1. \A m \in Node \ freeNodes' : node'[m].refer_flg /\ node'[m].refer_fin => Done(m)'
    BY <1>a, <1>d, <1>g DEF IInv, DoneInv
  <2>2. \A m \in Node : InFinished(m)' => ~node'[m].refer_flg /\ Done(m)'
    BY <1>d, <1>g, <1>i DEF IInv, DoneInv
  <2>3. \A u \in Callers : at'[u] # NoNode =>
          node'[at'[u]].refer_flg /\ (pc'[u] = "extract" => node'[at'[u]].refer_fin)
    BY <1>c, <1>d DEF IInv, DoneInv, Holders, Putters, Threads, TypeOK
  <2>4. \A m \in Node : \A u \in Receivers : at'[u] = m /\ pc'[u] \in {"extract", "repush"} =>
          ~node'[m].refer_flg /\ Done(m)' /\ ~InFinished(m)'
    <3> SUFFICES ASSUME NEW m \in Node, NEW u \in Receivers, at'[u] = m,
                        pc'[u] \in {"extract", "repush"}
        PROVE  ~node'[m].refer_flg /\ Done(m)' /\ ~InFinished(m)'
      OBVIOUS
    <3>1. ~node[m].refer_flg /\ Done(m) /\ ~InFinished(m)
      BY <1>c DEF IInv, DoneInv, Holders, Getters
    <3> QED
      BY <3>1, <1>d, <1>g, <1>i
  <2>5. \A m \in lost' : node'[m].refer_flg /\ node'[m].refer_fin
    BY <1>a, <1>d DEF IInv, DoneInv, TypeOK
  <2> QED
    BY <2>1, <2>2, <2>3, <2>4, <2>5 DEF DoneInv
<1>10. HolderInv'
  <2>1. \A i, j \in 1 .. Len(mq_finished') : mq_finished'[i] = mq_finished'[j] => i = j
    <3>1. CASE mq_finished' = mq_finished
      BY <3>1 DEF IInv, HolderInv
    <3>2. CASE mq_finished' = Append(mq_finished, n)
      <4>1. \A i \in 1 .. Len(mq_finished') :
              IF i = Len(mq_finished) + 1 THEN mq_finished'[i] = n
              ELSE i \in 1 .. Len(mq_finished) /\ mq_finished'[i] = mq_finished[i]
        BY <3>2 DEF TypeOK
      <4>2. \A i \in 1 .. Len(mq_finished) : mq_finished[i] # n
        BY <1>h DEF InFinished
      <4> QED
        BY <4>1, <4>2 DEF IInv, HolderInv
    <3> QED
      BY <3>1, <3>2, <1>b
  <2> QED
    BY <2>1, <1>a, <1>c DEF IInv, HolderInv
<1>11. KnownInv'
  <2> SUFFICES ASSUME NEW m \in Node \ freeNodes'
      PROVE  IF node'[m].refer_flg
             THEN m \in lost' \/ \E u \in Callers : at'[u] = m
             ELSE \/ node'[m].fin_count < AllCount \/ Combiners(m)' # {} \/ InFinished(m)'
                  \/ \E u \in Receivers : at'[u] = m
    BY DEF KnownInv
  <2>1. \A u \in Callers \cup Receivers : at'[u] = at[u]
    BY <1>c DEF Holders, Putters, Getters
  <2> QED
    BY <2>1, <1>a, <1>d, <1>f, <1>i DEF IInv, KnownInv
<1> QED
  BY <1>1, <1>2, <1>3, <1>4, <1>5, <1>6, <1>7, <1>8, <1>9, <1>10, <1>11 DEF IInv

LEMMA NextIInv == CenterMessageAssumption /\ IInv /\ [Next]_vars => IInv'
<1> SUFFICES ASSUME CenterMessageAssumption, IInv, [Next]_vars PROVE IInv'
  OBVIOUS
<1>1. CASE UNCHANGED vars
  BY <1>1, StutterStep
<1>2. ASSUME NEW t \in Putters, PutMessage(t) \/ PushWaiting(t) PROVE IInv'
  BY <1>2, PutMessageStep, PushWaitingStep
<1>3. ASSUME NEW t \in Getters, Get(t) \/ ExtractFails(t) PROVE IInv'
  BY <1>3, PollStep, PopFinishedStep, ExtractStep, ExtractFailsStep, PushBackStep DEF Get
<1>4. ASSUME NEW w \in Workers, Work(w) PROVE IInv'
  BY <1>4, PopWaitingStep, ClaimSlotStep, ProcessTaskStep, CountFinishedStep,
     CombineTaskStep, SignalStep DEF Work
<1> QED
  BY <1>1, <1>2, <1>3, <1>4 DEF Next

LEMMA Invariant == Spec => []IInv
<1>1. Init => IInv
  BY InitIInv, CenterMessageAssumption
<1>2. IInv /\ [Next]_vars => IInv'
  BY NextIInv, CenterMessageAssumption
<1> QED
  BY <1>1, <1>2, PTL DEF Spec
-----------------------------------------------------------------------------
(***************************************************************************)
(* What follows from it.                                                   *)
(***************************************************************************)
\* put_message, get_message and thread_process keep the counters of a node
\* between 0 and fw_calc_num and never overfill a queue.
THEOREM TypeCorrect == Spec => []TypeOK
BY Invariant, PTL DEF IInv

\* A recycled node or handle is out of reach of every worker, queue and
\* waiting thread, however puts, gets, extract failures and workers interleave.
THEOREM ReleasedIsUnused == Spec => []NoUseAfterRelease
<1>1. IInv => NoUseAfterRelease
  <2> SUFFICES ASSUME IInv PROVE NoUseAfterRelease
    OBVIOUS
  <2>1. ASSUME NEW t \in Threads, at[t] # NoNode
        PROVE  at[t] \notin freeNodes /\ node[at[t]].handle \notin freeHandles
    BY <2>1 DEF IInv, OwnerInv, HandleInv, TypeOK
  <2>2. ASSUME NEW n \in Node, Queued(n)
        PROVE  n \notin freeNodes /\ node[n].handle \notin freeHandles
    BY <2>2 DEF Queued, Places, PlacesIn, IInv, OwnerInv, HandleInv
  <2> QED
    BY <2>1, <2>2 DEF NoUseAfterRelease
<1> QED
  BY <1>1, Invariant, PTL

\* No module is asked twice for a message, and combine_task runs once every
\* slot is answered or given up and no other worker is at the node.
THEOREM EverySlotIsSeen == Spec => []CombineSeesEverySlot
<1>1. IInv => CombineSeesEverySlot
  <2> USE CenterMessageAssumption
  <2> SUFFICES ASSUME IInv PROVE CombineSeesEverySlot
    OBVIOUS
  <2>1. \A v, w \in Workers :
          Claimed(v) /\ Claimed(w) /\ at[v] = at[w] /\ slot[v] = slot[w] => v = w
    BY DEF IInv, SlotInv
  <2>2. ASSUME NEW w \in Workers, pc[w] \in {"combine", "signal"}
        PROVE  /\ \A i \in Slot : reply[node[at[w]].handle][i] # "old"
               /\ \A v \in Workers : at[v] = at[w] => v = w
               /\ ~Queued(at[w])
    <3>1. at[w] \in Node \ freeNodes /\ node[at[w]].fin_count = AllCount
      BY <2>2 DEF IInv, TypeOK, ThreadInv, OwnerInv, CombineInv, Threads
    <3> PICK n \in Node \ freeNodes : n = at[w]
      BY <3>1
    <3>2. /\ Places(n) = {} /\ Claimers(n) = {} /\ Askers(n) = {}
          /\ node[n].cur_count = AllCount
      BY <3>1, FinishedIsQuiet DEF IInv
    <3>3. \A i \in Slot : reply[node[n].handle][i] # "old"
      <4>1. \A i \in Slot : i < node[n].cur_count
        BY <3>2 DEF Slot, CenterMessageAssumption
      <4>2. \A v \in Workers : ~(at[v] = n /\ pc[v] = "ask")
        BY <3>2 DEF Askers, Claimed
      <4> QED
        BY <4>1, <4>2 DEF IInv, SlotInv
    <3>4. ASSUME NEW v \in Workers, at[v] = n PROVE v = w
      <4>1. pc[v] \in {"claim", "ask", "count", "combine", "signal"}
        BY <3>4 DEF IInv, ThreadInv, Threads, CenterMessageAssumption
      <4>2. pc[v] \in {"combine", "signal"}
        BY <3>2, <3>4, <4>1 DEF Claimers, Askers, Claimed
      <4> QED
        BY <2>2, <3>4, <4>2 DEF IInv, CombineInv
    <3>5. ~Queued(n)
      BY <3>2 DEF Queued, Places, PlacesIn
    <3> QED
      BY <3>3, <3>4, <3>5
  <2> QED
    BY <2>1, <2>2 DEF CombineSeesEverySlot
<1> QED
  BY <1>1, Invariant, PTL

\* get_message never hands out a leftover of the handle's previous message.
THEOREM ResultsOfThisMessage == Spec => []ResultsAreOwn
<1>1. IInv => ResultsAreOwn
  <2> USE CenterMessageAssumption
  <2> SUFFICES ASSUME IInv, NEW t \in Getters, pc[t] = "extract"
      PROVE  \A r \in result[node[at[t]].handle] : r[2] = "ok"
    BY DEF ResultsAreOwn
  <2>1. at[t] \in Node \ freeNodes
    BY DEF IInv, TypeOK, ThreadInv, OwnerInv, Threads
  <2> PICK n \in Node \ freeNodes : n = at[t]
    BY <2>1
  <2>2. CASE t \in Callers
    BY <2>1, <2>2 DEF IInv, DoneInv, Done, OwnResult, CenterMessageAssumption
  <2>3. CASE t \in Receivers
    BY <2>1, <2>3 DEF IInv, DoneInv, Done, OwnResult
  <2> QED
    BY <2>2, <2>3 DEF Getters
<1> QED
  BY <1>1, Invariant, PTL

\* Only the extract failure of a caller loses a node.
THEOREM NodesAreNotLeaked == Spec => []NodesAccountedFor
<1>1. IInv => NodesAccountedFor
  <2> USE CenterMessageAssumption
  <2> SUFFICES ASSUME IInv, NEW n \in Node \ freeNodes,
                      ~InFlight(n), n \notin lost, ~InFinished(n)
      PROVE  \E t \in Putters \cup Getters : at[t] = n
    BY DEF NodesAccountedFor, InFinished
  <2>1. Places(n) = {} /\ Claimers(n) = {} /\ Askers(n) = {} /\ Combiners(n) = {}
    BY DEF InFlight, Queued, HeldByWorker, Places, PlacesIn, Claimers, Askers, Combiners
  <2>2. CASE node[n].refer_flg
    BY <2>2 DEF IInv, KnownInv, Putters
  <2>3. CASE ~node[n].refer_flg /\ node[n].fin_count < AllCount
    <3>1. PICK t \in Putters : Pushes(t, n)
      <4> SUFFICES ASSUME \A t \in Putters : ~Pushes(t, n) PROVE FALSE
        OBVIOUS
      <4>1. Sent(n) = AllCount /\ Cardinality(Askers(n)) + node[n].fin_count = node[n].cur_count
        BY DEF IInv, CountInv, Counted
      <4>2. Cardinality(Places(n)) = 0 /\ Cardinality(Claimers(n)) = 0 /\ Cardinality(Askers(n)) = 0
        BY <2>1, FS_EmptySet
      <4>3. node[n].cur_count \in Nat /\ node[n].fin_count \in Nat
        BY CountTypes DEF IInv
      <4> QED
        BY <4>1, <4>2, <4>3, <2>3 DEF Sent, CenterMessageAssumption
    <3> QED
      BY <3>1 DEF Pushes
  <2>4. CASE ~node[n].refer_flg /\ ~(node[n].fin_count < AllCount)
    BY <2>1, <2>4 DEF IInv, KnownInv, Getters
  <2> QED
    BY <2>2, <2>3, <2>4
<1> QED
  BY <1>1, Invariant, PTL

=============================================================================
