------------------------ MODULE ModuleThreads_proofs ------------------------
(***************************************************************************)
(* Proofs about ModuleThreads, for any topic, requests, calls and threads, *)
(* any interval and period of the flush, and any number of crashes: what   *)
(* becomes of an update, and when the tables are flushed.                  *)
(***************************************************************************)
EXTENDS ModuleThreads, TLAPS

\* Thread t is in a call of CandidateDB that changes a table.
Works(t) == pc[t] \in {"users", "items"}

\* The updates a thread may be called with.
Source(t) == IF t = Kafka THEN FromKafka ELSE IF t \in NetThreads THEN FromNet ELSE {t}

(***************************************************************************)
(* Where a thread can be, and whose update it has.                         *)
(***************************************************************************)
ThreadInv ==
  /\ pc["persistent"] \in {"idle", "check", "eliminate", "flushUsers", "flushItems", "flag"}
  /\ \A t \in Threads \ {"persistent"} : pc[t] \in {"idle", "users", "items", "call", "send"}
  /\ ~up => \A t \in Threads : pc[t] = "idle"
  /\ \A t \in Threads :
       /\ pc[t] \in {"call", "send"} => t \in NetThreads /\ job[t] \in Requests
       /\ Works(t) => job[t] \in Source(t) \cap Updates
       /\ pc[t] = "users" => InUsers(job[t])
       /\ pc[t] = "items" => InItems(job[t])

\* An update is in hand while one thread works on it.
HandInv ==
  /\ up => \A u \in Updates :
             fate[u] = "hand" <=> \E t \in Threads : Works(t) /\ job[t] = u
  /\ \A s, t \in Threads : Works(s) /\ Works(t) /\ job[s] = job[t] => s = t

\* Messages before the offset were taken up, and thread_kafka works on one of
\* them.
TopicInv ==
  /\ \A i \in 1 .. offset : Usable(Topic[i]) => fate[Topic[i].update] # "new"
  /\ Works(Kafka) => \E i \in 1 .. offset : job[Kafka] = Topic[i].update

\* What was applied stays in the tables, or went with its user; the first
\* half of a click is there when the second is written.
DoneInv ==
  /\ up => \A u \in Updates : fate[u] = "done" => Applied(u)
  /\ \A t \in Threads :
       pc[t] = "items" /\ InUsers(job[t]) => users[job[t]] > 0 \/ job[t] \in eliminated

\* How often an update may be applied at most.
Most(u) == IF u \in FromKafka THEN 1 + crashes ELSE 1

\* It is not yet taken up, by this run of the process if it comes from the topic.
Ahead(u) ==
  IF u \in FromKafka
  THEN up => \E i \in Positions : i > offset /\ Topic[i].update = u
  ELSE fate[u] = "new"

InHand(u, at) == \E t \in Threads : pc[t] \in at /\ job[t] = u

(***************************************************************************)
(* No table has an update more often than Most, in memory or on disk, and  *)
(* one that is still to be written has it less often.                      *)
(***************************************************************************)
CountInv ==
  \A u \in Updates :
    /\ users[u] <= Most(u) /\ usersOnDisk[u] <= Most(u)
    /\ items[u] <= Most(u) /\ itemsOnDisk[u] <= Most(u)
    /\ Ahead(u) \/ InHand(u, {"users"}) =>
         /\ users[u] < Most(u) /\ usersOnDisk[u] < Most(u)
         /\ u \notin FromKafka => u \notin eliminated
    /\ Ahead(u) \/ InHand(u, {"users", "items"}) =>
         items[u] < Most(u) /\ itemsOnDisk[u] < Most(u)

\* A table that the update belongs to does not have it, and no file has.
Absent(u) ==
  \/ InUsers(u) /\ users[u] = 0 /\ usersOnDisk[u] = 0 /\ u \notin eliminated
  \/ InItems(u) /\ items[u] = 0 /\ itemsOnDisk[u] = 0

ToldInv ==
  \A u \in Updates :
    /\ told[u] # "nothing" => u \notin FromKafka
    /\ told[u] = "CODE_OK" => fate[u] \in {"done", "cut"}
    /\ told[u] = "OK" => fate[u] \in {"done", "cut", "refused"}
    /\ told[u] = "failure" => fate[u] \in {"failed", "refused"} /\ Absent(u)

\* The answer to an update that was told "OK" may be replaced.
ToldOrNot ==
  /\ told' \in [Updates -> {"nothing", "OK", "CODE_OK", "failure", "-1"}]
  /\ \A u \in Updates : told'[u] = told[u] \/ (told[u] = "OK" /\ told'[u] = "-1")

(***************************************************************************)
(* A finished flush left its updates in the tables and in their files; one *)
(* that is going on still has its updates in the tables, and in the file   *)
(* of the user table when that one is written.                             *)
(***************************************************************************)
FlushInv ==
  /\ \A u \in durable :
       /\ InUsers(u) => users[u] > 0 /\ usersOnDisk[u] > 0
       /\ InItems(u) => items[u] > 0 /\ itemsOnDisk[u] > 0
  /\ pc["persistent"] = "eliminate" => \A u \in begun : Applied(u)
  /\ pc["persistent"] \in {"flushUsers", "flushItems"} =>
       \A u \in begun : (InUsers(u) => users[u] > 0) /\ (InItems(u) => items[u] > 0)
  /\ pc["persistent"] = "flushItems" => \A u \in begun : InUsers(u) => usersOnDisk[u] > 0

(***************************************************************************)
(* The two timers.  A stamp that lies in the past is not newer than the    *)
(* flush by more than a period; one that lies in the future counts as      *)
(* overdue, for the difference is computed without a sign.                 *)
(***************************************************************************)
TimerInv ==
  up => /\ nextFlush <= since + Period
        /\ save <= now => save <= since + Period
        /\ pc["persistent"] = "idle" => Elapsed(save) < Interval
        /\ pc["persistent"] \in {"eliminate", "flushUsers", "flushItems"} => nextFlush < now
        /\ pc["persistent"] = "flag" => now <= since + Period

IInv == /\ TypeOK /\ ThreadInv /\ HandInv /\ TopicInv /\ DoneInv
        /\ CountInv /\ ToldInv /\ FlushInv /\ TimerInv
-----------------------------------------------------------------------------
(***************************************************************************)
(* Facts about the operators of the model.                                 *)
(***************************************************************************)
\* flush_timer is due within one period.
LEMMA NextDueWithin ==
  ASSUME NEW t \in Nat
  PROVE  NextDue(t) \in Nat /\ t < NextDue(t) /\ NextDue(t) <= t + Period
<1> DEFINE q == t \div Period
<1>1. q \in Nat /\ q * Period <= t /\ t < (q + 1) * Period
  BY ModuleThreadsAssumption
<1>2. (q + 1) * Period = q * Period + Period /\ q * Period \in Nat
  BY <1>1, ModuleThreadsAssumption
<1>3. NextDue(t) = (q + 1) * Period
  BY DEF NextDue
<1> HIDE DEF q
<1> QED
  BY <1>1, <1>2, <1>3, ModuleThreadsAssumption

\* The unsigned difference wraps for a stamp in the future.
LEMMA ElapsedIs ==
  ASSUME TypeOK, NEW s \in Stamps
  PROVE  Elapsed(s) = IF s <= now THEN now - s ELSE now - s + StampMod
<1>1. now \in Nat /\ now < StampMod /\ s \in Nat /\ s < StampMod /\ StampMod \in Nat \ {0}
  BY ModuleThreadsAssumption DEF TypeOK, Stamps
<1>2. \A x \in Int, m \in Nat \ {0} : 0 <= x /\ x < m => x % m = x
  OBVIOUS
<1>3. \A x \in Int, m \in Nat \ {0} : x < 0 /\ 0 <= x + m => x % m = x + m
  OBVIOUS
<1>4. CASE s <= now
  BY <1>1, <1>2, <1>4 DEF Elapsed
<1>5. CASE s > now
  BY <1>1, <1>3, <1>5 DEF Elapsed
<1> QED
  BY <1>1, <1>4, <1>5

\* What TypeOK and ThreadInv say of the threads.
LEMMA ThreadNames ==
  /\ Kafka \in Threads /\ "persistent" \in Threads /\ Kafka # "persistent"
  /\ Kafka \notin NetThreads /\ "persistent" \notin NetThreads
  /\ \A t \in NetThreads \cup GrpcUpdates : t \in Threads \ {Kafka, "persistent"}
  /\ \A t \in GrpcUpdates : t \notin NetThreads
BY ModuleThreadsAssumption DEF Threads
-----------------------------------------------------------------------------
(***************************************************************************)
(* Steps that touch neither a table nor the work of a thread.              *)
(***************************************************************************)
LEMMA TimersKeep ==
  ASSUME TimerInv, UNCHANGED <<up, now, save, nextFlush, since>>,
         pc'["persistent"] = pc["persistent"]
  PROVE  TimerInv'
BY DEF TimerInv, Elapsed

LEMMA FlushKeeps ==
  ASSUME FlushInv, UNCHANGED <<tables, begun, durable>>,
         pc'["persistent"] = pc["persistent"]
  PROVE  FlushInv'
BY DEF FlushInv, Applied, AppliedIn, tables

LEMMA ToldUnchanged ==
  ASSUME TypeOK, UNCHANGED told
  PROVE  ToldOrNot
BY DEF TypeOK, ToldOrNot

LEMMA QuietStep ==
  ASSUME IInv, UNCHANGED <<tables, up, fate, crashes>>, ToldOrNot,
         offset' \in {offset, offset + 1},
         \A t \in Threads : Works(t)' <=> Works(t),
         \A t \in Threads : Works(t) => pc'[t] = pc[t] /\ job'[t] = job[t]
  PROVE  HandInv' /\ DoneInv' /\ CountInv' /\ ToldInv'
<1> USE DEF IInv
<1>1. UNCHANGED <<users, items, usersOnDisk, itemsOnDisk, eliminated>>
  BY DEF tables
<1>2. HandInv'
  BY DEF HandInv
<1>3. DoneInv'
  <2>1. \A u : Applied(u)' = Applied(u)
    BY <1>1 DEF Applied, AppliedIn
  <2> QED
    BY <1>1, <2>1 DEF DoneInv, Works
<1>4. CountInv'
  <2>1. offset \in Nat /\ \A i \in Positions : i \in Nat
    BY ModuleThreadsAssumption DEF TypeOK, Positions
  <2>2. \A u : Most(u)' = Most(u) /\ (Ahead(u)' => Ahead(u))
    BY <2>1 DEF Most, Ahead
  <2>3. \A u : /\ InHand(u, {"users"})' => InHand(u, {"users"})
               /\ InHand(u, {"users", "items"})' => InHand(u, {"users", "items"})
    BY DEF InHand, Works
  <2> QED
    BY <1>1, <2>2, <2>3 DEF CountInv
<1>5. ToldInv'
  BY <1>1 DEF ToldInv, Absent, ToldOrNot
<1> QED
  BY <1>2, <1>3, <1>4, <1>5

\* The part of such a step that moves a thread of the network.
LEMMA NetworkMoves ==
  ASSUME IInv, NEW t \in NetThreads, ~Works(t), up,
         NEW to \in {"idle", "call", "send"}, pc' = [pc EXCEPT ![t] = to],
         NEW j \in Jobs \cup {NoUpdate}, job' = [job EXCEPT ![t] = j],
         to # "idle" => j \in Requests,
         request' \in [Requests -> {"waiting", "open", "leaked", "closed"}],
         ToldOrNot, UNCHANGED <<tables, up, crashes, kafka, timers, flushed, fate>>
  PROVE  IInv'
<1> USE DEF IInv
<1>1. t \in Threads /\ t # "persistent" /\ t # Kafka
  BY ThreadNames
<1>2. /\ pc'[t] = to /\ job'[t] = j
      /\ \A s \in Threads : s # t => pc'[s] = pc[s] /\ job'[s] = job[s]
  BY <1>1 DEF TypeOK
<1>3. \A s \in Threads : (Works(s)' <=> Works(s)) /\ (Works(s) => s # t)
  BY <1>2 DEF Works
<1>4. TypeOK'
  BY <1>1 DEF TypeOK, TablesOK, tables, kafka, timers, flushed, ToldOrNot
<1>5. ThreadInv'
  BY <1>1, <1>2, <1>3, ThreadNames DEF ThreadInv, Works, Source
<1>6. HandInv' /\ DoneInv' /\ CountInv' /\ ToldInv'
  BY <1>2, <1>3, QuietStep DEF kafka
<1>7. TopicInv'
  BY <1>1, <1>2, <1>3, ThreadNames DEF TopicInv, kafka
<1>8. FlushInv' /\ TimerInv'
  BY <1>1, <1>2, ThreadNames, FlushKeeps, TimersKeep DEF timers, flushed
<1> QED
  BY <1>4, <1>5, <1>6, <1>7, <1>8

LEMMA InterfaceStep ==
  ASSUME IInv, NEW t \in NetThreads, Interface(t)
  PROVE  IInv'
<1>1. t \in Threads
  BY ThreadNames
<1>2. pc[t] = "call" /\ up /\ job[t] \in Requests /\ ~Works(t)
  BY <1>1 DEF Interface, IInv, ThreadInv, Works
<1>3. job' = [job EXCEPT ![t] = job[t]] /\ job[t] \in Jobs
  BY <1>2 DEF Interface, IInv, TypeOK, Jobs
<1>4. /\ pc' = [pc EXCEPT ![t] = "send"]
      /\ request' \in [Requests -> {"waiting", "open", "leaked", "closed"}]
      /\ ToldOrNot /\ UNCHANGED <<tables, up, crashes, kafka, timers, flushed, fate>>
  BY DEF Interface, Goto, network, IInv, TypeOK, ToldOrNot
<1> QED
  BY <1>2, <1>3, <1>4, NetworkMoves

LEMMA SendRequestStep ==
  ASSUME IInv, NEW t \in NetThreads, SendRequest(t)
  PROVE  IInv'
<1>1. t \in Threads
  BY ThreadNames
<1>2. pc[t] = "send" /\ up /\ ~Works(t)
  BY <1>1 DEF SendRequest, IInv, ThreadInv, Works
<1>3. /\ pc' = [pc EXCEPT ![t] = "idle"] /\ job' = [job EXCEPT ![t] = NoUpdate]
      /\ request' \in [Requests -> {"waiting", "open", "leaked", "closed"}]
      /\ UNCHANGED <<tables, up, crashes, kafka, timers, flushed, fate>>
  BY DEF SendRequest, Goto, IInv, TypeOK
<1>4. ToldOrNot
  BY DEF SendRequest, MayNotFit, ToldOrNot, IInv, TypeOK
<1> QED
  BY <1>2, <1>3, <1>4, NetworkMoves

\* Time passes while thread_persistent sleeps.
LEMMA TickStep ==
  ASSUME IInv, Tick
  PROVE  IInv'
<1> USE DEF IInv
<1>1. /\ pc["persistent"] = "idle" /\ now < MaxTime /\ now' = now + 1
      /\ pc' = IF up THEN [pc EXCEPT !["persistent"] = "check"] ELSE pc
      /\ UNCHANGED <<tables, up, job, crashes, kafka, network, save, flag, nextFlush,
                     since, flushed, fate>>
  BY DEF Tick, Goto
<1>2. /\ pc'["persistent"] = IF up THEN "check" ELSE "idle"
      /\ \A t \in Threads : t # "persistent" => pc'[t] = pc[t]
  BY <1>1, ThreadNames DEF TypeOK
<1>3. TypeOK'
  <2>1. now' \in 0 .. MaxTime /\ since' \in 0 .. now'
    BY <1>1, ModuleThreadsAssumption DEF TypeOK
  <2> QED
    BY <1>1, <2>1 DEF TypeOK, TablesOK, tables, kafka, network, flushed
<1>4. \A t \in Threads : (Works(t)' <=> Works(t)) /\ (Works(t) => pc'[t] = pc[t])
  BY <1>1, <1>2 DEF Works
<1>5. ThreadInv'
  BY <1>1, <1>2, <1>4, ThreadNames DEF ThreadInv, Works, Source
<1>6. HandInv' /\ DoneInv' /\ CountInv' /\ ToldInv'
  BY <1>1, <1>4, ToldUnchanged, QuietStep DEF kafka, network
<1>7. TopicInv'
  BY <1>1, <1>4, ThreadNames DEF TopicInv, kafka
<1>8. FlushInv'
  BY <1>1, <1>2 DEF FlushInv, Applied, AppliedIn, tables, flushed
<1>9. TimerInv'
  <2> SUFFICES ASSUME up PROVE save <= now' => save <= since + Period
    BY <1>1, <1>2 DEF TimerInv
  <2>1. save \in Stamps /\ Elapsed(save) < Interval
    BY <1>1 DEF TimerInv, TypeOK
  <2>2. CASE save <= now
    BY <2>2 DEF TimerInv
  <2>3. CASE save > now
    <3>1. now - save + StampMod < Interval
      BY <2>1, <2>3, ElapsedIs DEF TypeOK, Stamps
    <3>2. save > now + MaxTime
      BY <2>1, <3>1, ModuleThreadsAssumption DEF TypeOK, Stamps
    <3> QED
      BY <1>1, <2>1, <3>2, ModuleThreadsAssumption DEF TypeOK, Stamps
  <2> QED
    BY <2>1, <2>2, <2>3 DEF TypeOK, Stamps
<1> QED
  BY <1>3, <1>5, <1>6, <1>7, <1>8, <1>9

\* A flush is begun when both timers are due; otherwise the stamp is renewed.
LEMMA CheckTimersStep ==
  ASSUME IInv, CheckTimers
  PROVE  IInv'
<1> USE DEF IInv
<1>1. PICK to \in {"idle", "eliminate", "flag"} : pc' = [pc EXCEPT !["persistent"] = to]
  BY DEF CheckTimers, Goto
<1>2. /\ pc["persistent"] = "check" /\ up /\ save' = save
      /\ begun' = IF to = "eliminate" THEN {u \in Updates : Applied(u)} ELSE begun
      /\ flag' \in {flag, EmptyFlag}
      /\ UNCHANGED <<tables, up, job, crashes, kafka, network, now, nextFlush, since,
                     durable, fate>>
  <2>1. pc'["persistent"] = to
    BY <1>1, ThreadNames DEF TypeOK
  <2>2. pc["persistent"] = "check" /\ up
    BY ThreadNames DEF CheckTimers, ThreadInv
  <2> QED
    BY <2>1, <2>2, ThreadNames DEF CheckTimers, Goto, TypeOK
<1>3. /\ pc'["persistent"] = to
      /\ \A t \in Threads : t # "persistent" => pc'[t] = pc[t]
  BY <1>1, ThreadNames DEF TypeOK
<1>4. TypeOK'
  BY <1>1, <1>2 DEF TypeOK, TablesOK, tables, kafka, network, EmptyFlag
<1>5. \A t \in Threads : (Works(t)' <=> Works(t)) /\ (Works(t) => pc'[t] = pc[t])
  BY <1>2, <1>3 DEF Works
<1>6. ThreadInv'
  BY <1>2, <1>3, <1>5, ThreadNames DEF ThreadInv, Works, Source
<1>7. HandInv' /\ DoneInv' /\ CountInv' /\ ToldInv'
  BY <1>2, <1>5, ToldUnchanged, QuietStep DEF kafka, network
<1>8. TopicInv'
  BY <1>2, <1>5, ThreadNames DEF TopicInv, kafka
<1>9. FlushInv'
  BY <1>2, <1>3 DEF FlushInv, Applied, AppliedIn, tables
<1>10. TimerInv'
  <2>1. /\ to = "idle" => Elapsed(save) < Interval
        /\ to = "eliminate" => nextFlush < now
        /\ to = "flag" => nextFlush >= now
    BY <1>1, <1>3, ThreadNames DEF CheckTimers, Goto, TypeOK
  <2>2. Elapsed(save)' = Elapsed(save)
    BY <1>2 DEF Elapsed
  <2> QED
    BY <1>2, <1>3, <2>1, <2>2, ModuleThreadsAssumption DEF TimerInv, TypeOK
<1> QED
  BY <1>4, <1>6, <1>7, <1>8, <1>9, <1>10

\* The stamp is the time of the check, for thread_persistent did not sleep.
LEMMA WriteFlagStep ==
  ASSUME IInv, WriteFlag
  PROVE  IInv'
<1> USE DEF IInv
<1>1. /\ pc["persistent"] = "flag" /\ pc' = [pc EXCEPT !["persistent"] = "idle"]
      /\ flag' = now /\ save' = now /\ begun' = {}
      /\ UNCHANGED <<tables, up, job, crashes, kafka, network, now, nextFlush, since,
                     durable, fate>>
  BY DEF WriteFlag, Goto
<1>2. /\ pc'["persistent"] = "idle"
      /\ \A t \in Threads : t # "persistent" => pc'[t] = pc[t]
  BY <1>1, ThreadNames DEF TypeOK
<1>3. TypeOK'
  <2>1. now \in Stamps
    BY ModuleThreadsAssumption DEF TypeOK, Stamps
  <2> QED
    BY <1>1, <2>1 DEF TypeOK, TablesOK, tables, kafka, network
<1>4. \A t \in Threads : (Works(t)' <=> Works(t)) /\ (Works(t) => pc'[t] = pc[t])
  BY <1>1, <1>2 DEF Works
<1>5. ThreadInv'
  BY <1>1, <1>2, <1>4, ThreadNames DEF ThreadInv, Works, Source
<1>6. HandInv' /\ DoneInv' /\ CountInv' /\ ToldInv'
  BY <1>1, <1>4, ToldUnchanged, QuietStep DEF kafka, network
<1>7. TopicInv'
  BY <1>1, <1>4, ThreadNames DEF TopicInv, kafka
<1>8. FlushInv'
  BY <1>1, <1>2 DEF FlushInv, tables
<1>9. TimerInv'
  <2>1. now \in Stamps /\ now' = now /\ save' = now
    BY <1>1, ModuleThreadsAssumption DEF TypeOK, Stamps
  <2>2. Elapsed(now) = 0
    BY <2>1, ElapsedIs DEF TypeOK
  <2>3. Elapsed(save)' = 0
    BY <2>1, <2>2 DEF Elapsed
  <2> QED
    BY <1>1, <1>2, <2>3, ModuleThreadsAssumption DEF TimerInv
<1> QED
  BY <1>3, <1>5, <1>6, <1>7, <1>8, <1>9
-----------------------------------------------------------------------------
(***************************************************************************)
(* flush(): eliminate, the user table, the item table.                     *)
(***************************************************************************)
LEMMA EliminateStep ==
  ASSUME IInv, CallEliminate
  PROVE  IInv'
<1> USE DEF IInv
<1>1. /\ pc["persistent"] = "eliminate" /\ pc' = [pc EXCEPT !["persistent"] = "flushUsers"]
      /\ begun' = begun \ eliminated' /\ durable' = durable \ eliminated'
      /\ UNCHANGED <<items, usersOnDisk, itemsOnDisk>>
      /\ UNCHANGED <<up, job, crashes, kafka, network, timers, fate>>
  BY DEF CallEliminate, Goto, Eliminate
<1>2. PICK gone \in SUBSET {u \in Idle : users[u] > 0} :
        /\ users' = [u \in Updates |-> IF u \in gone THEN 0 ELSE users[u]]
        /\ eliminated' = eliminated \cup gone
  BY DEF CallEliminate, Eliminate
<1>3. /\ pc'["persistent"] = "flushUsers"
      /\ \A t \in Threads : t # "persistent" => pc'[t] = pc[t]
  BY <1>1, ThreadNames DEF TypeOK
<1>4. /\ gone \subseteq Updates /\ \A u \in gone : users[u] > 0
      /\ \A u \in Updates : users[u] \in Nat /\ users'[u] \in Nat /\ users'[u] <= users[u]
      /\ \A u \in Updates : u \notin gone => users'[u] = users[u]
  BY <1>2, CandidateDBAssumption DEF TypeOK, TablesOK
<1>5. TypeOK'
  BY <1>1, <1>2 DEF TypeOK, TablesOK, kafka, network, timers
<1>6. \A t \in Threads : /\ Works(t)' <=> Works(t)
                         /\ pc[t] \in {"users", "items", "call", "send"} => pc'[t] = pc[t]
                         /\ pc'[t] \in {"users", "items", "call", "send"} => pc'[t] = pc[t]
  BY <1>1, <1>3 DEF Works
<1>7. ThreadInv'
  BY <1>1, <1>3, <1>6, ThreadNames DEF ThreadInv, Source, Works
<1>8. HandInv'
  BY <1>1, <1>6 DEF HandInv
<1>9. TopicInv'
  BY <1>1, <1>6, ThreadNames DEF TopicInv, kafka
<1>10. \A u \in Updates : users[u] > 0 \/ u \in eliminated => users'[u] > 0 \/ u \in eliminated'
  BY <1>2, <1>4
<1>11. DoneInv'
  <2>1. \A u \in Updates : Applied(u) => Applied(u)'
    BY <1>1, <1>10 DEF Applied, AppliedIn
  <2>2. \A t \in Threads : pc'[t] = "items" => pc[t] = "items" /\ job[t] \in Updates
    BY <1>6 DEF ThreadInv, Works
  <2> QED
    BY <1>1, <1>10, <2>1, <2>2 DEF DoneInv
<1>12. CountInv'
  <2> SUFFICES ASSUME NEW u \in Updates
               PROVE  /\ users'[u] <= Most(u)' /\ usersOnDisk'[u] <= Most(u)'
                      /\ items'[u] <= Most(u)' /\ itemsOnDisk'[u] <= Most(u)'
                      /\ Ahead(u)' \/ InHand(u, {"users"})' =>
                           /\ users'[u] < Most(u)' /\ usersOnDisk'[u] < Most(u)'
                           /\ u \notin FromKafka => u \notin eliminated'
                      /\ Ahead(u)' \/ InHand(u, {"users", "items"})' =>
                           items'[u] < Most(u)' /\ itemsOnDisk'[u] < Most(u)'
    BY DEF CountInv
  <2>1. Most(u)' = Most(u) /\ Ahead(u)' = Ahead(u) /\ Most(u) \in Nat
    BY <1>1 DEF Most, Ahead, kafka, TypeOK
  <2>2. /\ InHand(u, {"users"})' => InHand(u, {"users"})
        /\ InHand(u, {"users", "items"})' => InHand(u, {"users", "items"})
    BY <1>1, <1>6 DEF InHand
  <2>3. ASSUME users[u] < Most(u), u \notin FromKafka PROVE u \notin gone
    BY <1>4, <2>3 DEF Most
  <2>4. /\ users[u] <= Most(u) /\ usersOnDisk[u] <= Most(u)
        /\ items[u] <= Most(u) /\ itemsOnDisk[u] <= Most(u)
        /\ Ahead(u) \/ InHand(u, {"users"}) =>
             /\ users[u] < Most(u) /\ usersOnDisk[u] < Most(u)
             /\ u \notin FromKafka => u \notin eliminated
        /\ Ahead(u) \/ InHand(u, {"users", "items"}) =>
             items[u] < Most(u) /\ itemsOnDisk[u] < Most(u)
    BY DEF CountInv
  <2>5. users'[u] <= users[u] /\ users[u] \in Nat /\ users'[u] \in Nat
    BY <1>4
  <2> QED
    BY <1>1, <1>2, <2>1, <2>2, <2>3, <2>4, <2>5
<1>13. ToldInv'
  <2>1. \A u \in Updates : Absent(u) => Absent(u)'
    BY <1>1, <1>2, <1>4 DEF Absent
  <2> QED
    BY <1>1, <2>1 DEF ToldInv, network
<1>14. FlushInv'
  <2>1. \A u \in durable' : InUsers(u) => users'[u] > 0
    BY <1>1, <1>2, <1>4 DEF FlushInv, TypeOK
  <2>2. \A u \in begun' : InUsers(u) => users'[u] > 0
    BY <1>1, <1>2, <1>4 DEF FlushInv, TypeOK, Applied, AppliedIn
  <2>3. \A u \in begun' : InItems(u) => items'[u] > 0
    BY <1>1 DEF FlushInv, Applied, AppliedIn
  <2> QED
    BY <1>1, <1>3, <2>1, <2>2, <2>3 DEF FlushInv
<1>15. TimerInv'
  BY <1>1, <1>3 DEF TimerInv, Elapsed, timers
<1> QED
  BY <1>5, <1>7, <1>8, <1>9, <1>11, <1>12, <1>13, <1>14, <1>15

\* A table is written as it is in memory.
LEMMA FlushTableStep ==
  ASSUME IInv, NEW to \in {"flushItems", "flag"},
         pc["persistent"] = IF to = "flushItems" THEN "flushUsers" ELSE "flushItems",
         pc' = [pc EXCEPT !["persistent"] = to],
         \/ usersOnDisk' = users /\ UNCHANGED itemsOnDisk
         \/ itemsOnDisk' = items /\ UNCHANGED usersOnDisk,
         UNCHANGED <<users, items, eliminated, up, job, crashes, kafka, network, fate>>
  PROVE  ThreadInv' /\ HandInv' /\ TopicInv' /\ DoneInv' /\ CountInv' /\ ToldInv'
<1> USE DEF IInv
<1>1. /\ pc'["persistent"] = to
      /\ \A t \in Threads : t # "persistent" => pc'[t] = pc[t]
  BY ThreadNames DEF TypeOK
<1>2. \A t \in Threads : /\ Works(t)' <=> Works(t)
                         /\ pc[t] \in {"users", "items", "call", "send"} => pc'[t] = pc[t]
                         /\ pc'[t] \in {"users", "items", "call", "send"} => pc'[t] = pc[t]
  BY <1>1 DEF Works
<1>3. ThreadInv'
  BY <1>1, <1>2, ThreadNames DEF ThreadInv, Source, Works
<1>4. HandInv' /\ TopicInv'
  BY <1>2, ThreadNames DEF HandInv, TopicInv, kafka
<1>5. DoneInv'
  BY <1>2 DEF DoneInv, Applied, AppliedIn
<1>6. CountInv'
  <2>1. \A u : Most(u)' = Most(u) /\ Ahead(u)' = Ahead(u)
    BY DEF Most, Ahead, kafka
  <2>2. \A u : /\ InHand(u, {"users"})' => InHand(u, {"users"})
               /\ InHand(u, {"users", "items"})' => InHand(u, {"users", "items"})
    BY <1>2 DEF InHand
  <2> QED
    BY <2>1, <2>2 DEF CountInv
<1>7. ToldInv'
  <2>1. \A u : Absent(u) => Absent(u)'
    BY DEF Absent
  <2> QED
    BY <2>1 DEF ToldInv, network
<1> QED
  BY <1>3, <1>4, <1>5, <1>6, <1>7

LEMMA FlushUsersStep ==
  ASSUME IInv, CallFlushUsers
  PROVE  IInv'
<1>1. /\ pc["persistent"] = "flushUsers" /\ pc' = [pc EXCEPT !["persistent"] = "flushItems"]
      /\ usersOnDisk' = users
      /\ UNCHANGED <<users, items, itemsOnDisk, eliminated>>
      /\ UNCHANGED <<up, job, crashes, kafka, network, timers, flushed, fate>>
  BY DEF CallFlushUsers, Goto, FlushUsers
<1>2. pc'["persistent"] = "flushItems"
  BY <1>1, ThreadNames DEF IInv, TypeOK
<1>3. ThreadInv' /\ HandInv' /\ TopicInv' /\ DoneInv' /\ CountInv' /\ ToldInv'
  BY <1>1, FlushTableStep
<1>4. TypeOK'
  BY <1>1 DEF IInv, TypeOK, TablesOK, kafka, network, timers, flushed
<1>5. FlushInv'
  BY <1>1, <1>2 DEF IInv, FlushInv, flushed
<1>6. TimerInv'
  BY <1>1, <1>2 DEF IInv, TimerInv, Elapsed, timers
<1> QED
  BY <1>3, <1>4, <1>5, <1>6 DEF IInv

LEMMA FlushItemsStep ==
  ASSUME IInv, CallFlushItems
  PROVE  IInv'
<1>1. /\ pc["persistent"] = "flushItems" /\ pc' = [pc EXCEPT !["persistent"] = "flag"]
      /\ itemsOnDisk' = items /\ UNCHANGED <<users, items, usersOnDisk, eliminated>>
      /\ nextFlush' = NextDue(nextFlush) /\ since' = now
      /\ durable' = durable \cup begun /\ flag' = EmptyFlag
      /\ UNCHANGED <<up, job, crashes, kafka, network, now, save, begun, fate>>
  BY DEF CallFlushItems, Goto, FlushItems
<1>2. pc'["persistent"] = "flag"
  BY <1>1, ThreadNames DEF IInv, TypeOK
<1>3. ThreadInv' /\ HandInv' /\ TopicInv' /\ DoneInv' /\ CountInv' /\ ToldInv'
  BY <1>1, FlushTableStep
<1>4. nextFlush \in Nat /\ NextDue(nextFlush) \in Nat /\ NextDue(nextFlush) <= nextFlush + Period
  BY NextDueWithin DEF IInv, TypeOK
<1>5. TypeOK'
  <2>1. now \in 0 .. now /\ since' = now /\ now' = now
    BY <1>1, ModuleThreadsAssumption DEF IInv, TypeOK
  <2> QED
    BY <1>1, <1>4, <2>1 DEF IInv, TypeOK, TablesOK, kafka, network, EmptyFlag
<1>6. FlushInv'
  BY <1>1, <1>2 DEF IInv, FlushInv
<1>7. TimerInv'
  <2>1. Period \in Nat /\ now \in Nat /\ save \in Nat
    BY ModuleThreadsAssumption DEF IInv, TypeOK, Stamps
  <2>2. up => nextFlush < now
    BY <1>1 DEF IInv, TimerInv
  <2>3. up => NextDue(nextFlush) <= now + Period
    BY <1>4, <2>1, <2>2
  <2> QED
    BY <1>1, <1>2, <2>1, <2>3 DEF TimerInv
<1> QED
  BY <1>3, <1>5, <1>6, <1>7 DEF IInv
-----------------------------------------------------------------------------
(***************************************************************************)
(* An update is taken up: by thread_kafka, by a thread of the network, or  *)
(* by one of the gRPC server.                                              *)
(***************************************************************************)
LEMMA TakeUpStep ==
  ASSUME IInv, up, NEW t \in Threads \ {"persistent"}, pc[t] = "idle",
         NEW u \in Source(t) \cap Updates, TakeUp(t, u), Ahead(u), fate[u] # "hand",
         offset' \in {offset, offset + 1}, offset' <= Len(Topic),
         \A i \in 1 .. offset' : i > offset => Topic[i].update = u,
         t = Kafka => \E i \in 1 .. offset' : Topic[i].update = u,
         request' \in [Requests -> {"waiting", "open", "leaked", "closed"}],
         UNCHANGED <<tables, up, crashes, stored, told, timers, flushed>>
  PROVE  IInv'
<1> USE DEF IInv
<1> DEFINE to == IF InUsers(u) THEN "users" ELSE "items"
<1>1. /\ pc' = [pc EXCEPT ![t] = to] /\ job' = [job EXCEPT ![t] = u]
      /\ fate' = [fate EXCEPT ![u] = "hand"]
  BY DEF TakeUp, Goto
<1>2. /\ to \in {"users", "items"} /\ (to = "users" => InUsers(u)) /\ (to = "items" => InItems(u))
      /\ to = "items" => ~InUsers(u)
  BY DEF InUsers, InItems
<1> HIDE DEF to
<1>3. /\ pc'[t] = to /\ job'[t] = u
      /\ \A s \in Threads : s # t => pc'[s] = pc[s] /\ job'[s] = job[s]
      /\ fate'[u] = "hand" /\ \A v \in Updates : v # u => fate'[v] = fate[v]
  BY <1>1 DEF TypeOK
<1>4. ~Works(t) /\ Works(t)' /\ \A s \in Threads : s # t => (Works(s)' <=> Works(s))
  BY <1>2, <1>3 DEF Works
<1>5. UNCHANGED <<users, items, usersOnDisk, itemsOnDisk, eliminated>>
  BY DEF tables
<1>6. \A s \in Threads : Works(s) => job[s] # u
  BY DEF HandInv
<1>7. TypeOK'
  <2>1. offset' \in 0 .. Len(Topic) /\ stored \in 0 .. offset'
    BY ModuleThreadsAssumption DEF TypeOK
  <2> QED
    BY <1>1, <1>2, <1>5, <2>1 DEF TypeOK, TablesOK, Jobs, timers, flushed
<1>8. ThreadInv'
  <2>1. \A s \in Threads :
          /\ pc'[s] \in {"call", "send"} => s \in NetThreads /\ job'[s] \in Requests
          /\ Works(s)' => job'[s] \in Source(s) \cap Updates
          /\ pc'[s] = "users" => InUsers(job'[s])
          /\ pc'[s] = "items" => InItems(job'[s])
    BY <1>2, <1>3, <1>4 DEF ThreadInv
  <2> QED
    BY <1>2, <1>3, <2>1, ThreadNames DEF ThreadInv, Source
<1>9. HandInv'
  <2>1. \A v \in Updates : fate'[v] = "hand" <=> \E s \in Threads : Works(s)' /\ job'[s] = v
    <3> SUFFICES ASSUME NEW v \in Updates
                 PROVE  fate'[v] = "hand" <=> \E s \in Threads : Works(s)' /\ job'[s] = v
      OBVIOUS
    <3>1. CASE v = u
      BY <1>3, <1>4, <3>1
    <3>2. CASE v # u
      BY <1>3, <1>4, <3>2 DEF HandInv
    <3> QED
      BY <3>1, <3>2
  <2>2. \A r, s \in Threads : Works(r)' /\ Works(s)' /\ job'[r] = job'[s] => r = s
    BY <1>3, <1>4, <1>6 DEF HandInv
  <2> QED
    BY <2>1, <2>2 DEF HandInv
<1>10. TopicInv'
  <2>1. \A i \in 1 .. offset' : i \in 1 .. offset \/ Topic[i].update = u
    BY DEF TypeOK
  <2>2. \A i \in 1 .. offset' : Usable(Topic[i]) => Topic[i].update \in Updates
    BY <1>7, ModuleThreadsAssumption DEF TypeOK, Positions, FromKafka
  <2>3. \A i \in 1 .. offset' : Usable(Topic[i]) => fate'[Topic[i].update] # "new"
    BY <1>3, <2>1, <2>2 DEF TopicInv
  <2>4. Works(Kafka)' => \E i \in 1 .. offset' : job'[Kafka] = Topic[i].update
    <3>1. CASE t = Kafka
      BY <1>3, <3>1
    <3>2. CASE t # Kafka
      <4>1. \A i \in 1 .. offset : i \in 1 .. offset'
        BY DEF TypeOK
      <4> QED
        BY <1>3, <1>4, <3>2, <4>1, ThreadNames DEF TopicInv
    <3> QED
      BY <3>1, <3>2
  <2> QED
    BY <2>3, <2>4 DEF TopicInv
<1>11. DoneInv'
  <2>1. \A v : Applied(v)' = Applied(v)
    BY <1>5 DEF Applied, AppliedIn
  <2>2. \A v \in Updates : fate'[v] = "done" => fate[v] = "done"
    BY <1>3
  <2>3. \A s \in Threads :
          pc'[s] = "items" /\ InUsers(job'[s]) => pc[s] = "items" /\ job'[s] = job[s]
    BY <1>2, <1>3
  <2> QED
    BY <1>5, <2>1, <2>2, <2>3 DEF DoneInv
<1>12. CountInv'
  <2>1. \A i \in Positions : i > offset' => i > offset
    BY ModuleThreadsAssumption DEF TypeOK, Positions
  <2>2. \A v \in Updates : Most(v)' = Most(v) /\ (Ahead(v)' => Ahead(v))
    BY <1>3, <2>1 DEF Most, Ahead
  <2>3. \A v \in Updates : /\ InHand(v, {"users"})' => InHand(v, {"users"}) \/ Ahead(v)
                           /\ InHand(v, {"users", "items"})' =>
                                InHand(v, {"users", "items"}) \/ Ahead(v)
    BY <1>3 DEF InHand
  <2> QED
    BY <1>5, <2>2, <2>3 DEF CountInv
<1>13. ToldInv'
  <2>1. \A v : Absent(v)' = Absent(v)
    BY <1>5 DEF Absent
  <2>2. told[u] \notin {"CODE_OK", "OK", "failure"}
    BY DEF ToldInv, Ahead
  <2> QED
    BY <1>3, <2>1, <2>2 DEF ToldInv
<1>14. FlushInv' /\ TimerInv'
  BY <1>3, ThreadNames, FlushKeeps, TimersKeep DEF timers, flushed
<1> QED
  BY <1>7, <1>8, <1>9, <1>10, <1>11, <1>12, <1>13, <1>14

LEMMA CallGrpcStep ==
  ASSUME IInv, NEW u \in GrpcUpdates, CallGrpc(u)
  PROVE  IInv'
<1>1. u \in Threads \ {"persistent"} /\ u \in Source(u) \cap Updates /\ u \notin FromKafka
  BY ThreadNames, ModuleThreadsAssumption DEF Source
<1>2. up /\ fate[u] = "new" /\ TakeUp(u, u)
      /\ UNCHANGED <<tables, up, crashes, kafka, network, timers, flushed>>
  BY DEF CallGrpc
<1>3. Ahead(u) /\ fate[u] # "hand"
  BY <1>1, <1>2 DEF Ahead
<1>4. pc[u] = "idle"
  <2>1. ~Works(u)
    BY <1>1, <1>2, <1>3, ThreadNames DEF IInv, ThreadInv, HandInv, Source, Works
  <2>2. pc[u] \notin {"call", "send"}
    BY <1>1, ThreadNames DEF IInv, ThreadInv
  <2> QED
    BY <1>1, <2>1, <2>2 DEF IInv, ThreadInv, Works
<1>5. u # Kafka
  BY ThreadNames
<1>6. offset' = offset /\ offset \in 0 .. Len(Topic) /\ UNCHANGED <<stored, told, request>>
  BY <1>2 DEF IInv, TypeOK, kafka, network
<1>7. offset' <= Len(Topic) /\ \A i \in 1 .. offset' : ~(i > offset)
  BY <1>6, ModuleThreadsAssumption
<1> QED
  BY <1>1, <1>2, <1>3, <1>4, <1>5, <1>6, <1>7, TakeUpStep DEF IInv, TypeOK

\* A request is received: it is refused, an update, or neither.
LEMMA RecvRequestStep ==
  ASSUME IInv, NEW t \in NetThreads, NEW r \in Requests, RecvRequest(t, r)
  PROVE  IInv'
<1>1. t \in Threads \ {"persistent"} /\ t # Kafka
  BY ThreadNames
<1>2. /\ up /\ pc[t] = "idle" /\ ~Works(t)
      /\ UNCHANGED <<tables, up, crashes, kafka, told, timers, flushed>>
  BY DEF RecvRequest, Works
<1>3. request' \in [Requests -> {"waiting", "open", "leaked", "closed"}]
  BY DEF RecvRequest, IInv, TypeOK
<1>4. CASE UNCHANGED <<pc, job, fate>>
  <2>1. pc' = [pc EXCEPT ![t] = "idle"] /\ job' = [job EXCEPT ![t] = job[t]]
        /\ job[t] \in Jobs \cup {NoUpdate}
    BY <1>1, <1>2, <1>4 DEF IInv, TypeOK
  <2> QED
    BY <1>2, <1>3, <1>4, <2>1, ToldUnchanged, NetworkMoves DEF IInv
<1>5. CASE "update" \in Class[r] /\ fate[r] = "new" /\ TakeUp(t, r)
  <2>1. r \in Source(t) \cap Updates /\ r \notin FromKafka
    BY <1>1, <1>5, ModuleThreadsAssumption DEF Source, FromNet
  <2>2. Ahead(r) /\ fate[r] # "hand"
    BY <1>5, <2>1 DEF Ahead
  <2>3. offset' = offset /\ offset \in 0 .. Len(Topic) /\ UNCHANGED <<stored, told>>
    BY <1>2 DEF IInv, TypeOK, kafka
  <2>4. offset' <= Len(Topic) /\ \A i \in 1 .. offset' : ~(i > offset)
    BY <2>3, ModuleThreadsAssumption
  <2> QED
    BY <1>1, <1>2, <1>3, <1>5, <2>1, <2>2, <2>3, <2>4, TakeUpStep
<1>6. CASE job' = [job EXCEPT ![t] = r] /\ Goto(t, "call") /\ UNCHANGED fate
  <2>1. pc' = [pc EXCEPT ![t] = "call"] /\ r \in Jobs \cup {NoUpdate}
    BY <1>6 DEF Goto, Jobs
  <2> QED
    BY <1>2, <1>3, <1>6, <2>1, ToldUnchanged, NetworkMoves DEF IInv
<1> QED
  BY <1>4, <1>5, <1>6 DEF RecvRequest
-----------------------------------------------------------------------------
(***************************************************************************)
(* A call of CandidateDB writes the user table, the item table, or both.   *)
(***************************************************************************)
\* Messages do not share an update, and requests and calls have their own.
LEMMA WorkIsNotAhead ==
  ASSUME IInv, NEW t \in Threads \ {"persistent"}, Works(t)
  PROVE  /\ up
         /\ t = Kafka <=> job[t] \in FromKafka
         /\ \A i \in Positions : Topic[i].update = job[t] => i <= offset
<1> USE DEF IInv
<1>1. up /\ job[t] \in Source(t) \cap Updates
  BY DEF ThreadInv, Works
<1>2. t = Kafka <=> job[t] \in FromKafka
  <2>1. CASE t = Kafka
    BY <1>1, <2>1 DEF Source
  <2>2. CASE t # Kafka
    <3>1. t \in NetThreads \cup GrpcUpdates
      BY <2>2 DEF Threads
    <3>2. job[t] \in FromNet \cup GrpcUpdates
      BY <1>1, <2>2, <3>1 DEF Source
    <3> QED
      BY <2>2, <3>2, ModuleThreadsAssumption
  <2> QED
    BY <2>1, <2>2
<1>3. \A i \in Positions : Topic[i].update = job[t] => i <= offset
  <2> SUFFICES ASSUME NEW i \in Positions, Topic[i].update = job[t] PROVE i <= offset
    OBVIOUS
  <2>1. job[t] # NoUpdate
    BY <1>1, ModuleThreadsAssumption
  <2>2. t = Kafka
    BY <1>2, <2>1 DEF FromKafka
  <2>3. PICK k \in 1 .. offset : job[t] = Topic[k].update
    BY <2>2 DEF TopicInv
  <2>4. k \in Positions /\ k <= offset
    BY ModuleThreadsAssumption DEF TypeOK, Positions
  <2> QED
    BY <2>1, <2>3, <2>4, ModuleThreadsAssumption
<1> QED
  BY <1>1, <1>2, <1>3

\* What Return does to the threads, and to what is known of the update.
LEMMA Returns ==
  ASSUME IInv, NEW t \in Threads \ {"persistent"}, Works(t), NEW u \in Updates, job[t] = u,
         NEW status \in Statuses, Return(t, status),
         UNCHANGED <<up, crashes, kafka, request, timers, flushed>>
  PROVE  /\ pc' \in [Threads -> {"idle", "users", "items", "call", "send", "check",
                                 "eliminate", "flushUsers", "flushItems", "flag"}]
         /\ job' \in [Threads -> Jobs \cup {NoUpdate}]
         /\ told' \in [Updates -> {"nothing", "OK", "CODE_OK", "failure", "-1"}]
         /\ fate' \in [Updates -> {"new", "hand", "done", "failed", "refused", "cut"}]
         /\ pc'["persistent"] = pc["persistent"] /\ ~Works(t)'
         /\ \A s \in Threads : s # t => pc'[s] = pc[s] /\ job'[s] = job[s]
         /\ fate'[u] = Outcome(status)
         /\ \A v \in Updates : v # u => fate'[v] = fate[v] /\ told'[v] = told[v]
         /\ told'[u] = IF u \in FromKafka THEN told[u] ELSE ToldAs(t, status)
         /\ ThreadInv' /\ HandInv' /\ TopicInv' /\ TimerInv'
<1> USE DEF IInv
<1>1. PICK to \in {"idle", "send"} :
        /\ pc' = [pc EXCEPT ![t] = to] /\ (to = "send" => t \in NetThreads /\ job' = job)
        /\ to = "idle" => job' = [job EXCEPT ![t] = NoUpdate]
  BY DEF Return, LetGo, Goto
<1>2. /\ pc'[t] = to /\ (to = "send" => t \in NetThreads /\ job'[t] = u)
      /\ \A s \in Threads : s # t => pc'[s] = pc[s] /\ job'[s] = job[s]
      /\ job' \in [Threads -> Jobs \cup {NoUpdate}]
  BY <1>1 DEF TypeOK
<1>3. ~Works(t)' /\ \A s \in Threads : s # t => (Works(s)' <=> Works(s))
  BY <1>2 DEF Works
<1>4. up /\ (t = Kafka <=> u \in FromKafka)
  BY WorkIsNotAhead
<1>5. pc' \in [Threads -> {"idle", "users", "items", "call", "send", "check",
                           "eliminate", "flushUsers", "flushItems", "flag"}]
  BY <1>1 DEF TypeOK
<1>6. /\ fate' \in [Updates -> {"new", "hand", "done", "failed", "refused", "cut"}]
      /\ fate'[u] = Outcome(status)
      /\ \A v \in Updates : v # u => fate'[v] = fate[v]
  BY DEF Return, TypeOK, Outcome
<1>7. /\ told' \in [Updates -> {"nothing", "OK", "CODE_OK", "failure", "-1"}]
      /\ \A v \in Updates : v # u => told'[v] = told[v]
      /\ told'[u] = IF u \in FromKafka THEN told[u] ELSE ToldAs(t, status)
  <2>1. ToldAs(t, status) \in {"OK", "CODE_OK", "failure"}
    BY DEF ToldAs, GrpcCode, GlueCode
  <2>2. told' = IF t = Kafka THEN told ELSE [told EXCEPT ![u] = ToldAs(t, status)]
    BY DEF Return, Tell
  <2> QED
    BY <1>4, <2>1, <2>2 DEF TypeOK
<1>8. ThreadInv'
  <2>1. to = "send" => u \in Requests
    BY <1>2, ThreadNames DEF ThreadInv, Source, FromNet
  <2>2. \A s \in Threads :
          /\ pc'[s] \in {"call", "send"} => s \in NetThreads /\ job'[s] \in Requests
          /\ Works(s)' => job'[s] \in Source(s) \cap Updates
          /\ pc'[s] = "users" => InUsers(job'[s])
          /\ pc'[s] = "items" => InItems(job'[s])
    BY <1>2, <1>3, <2>1 DEF ThreadInv
  <2> QED
    BY <1>2, <1>4, <2>2, ThreadNames DEF ThreadInv, Source
<1>9. HandInv'
  <2>1. \A s \in Threads : s # t => ~(Works(s) /\ job[s] = u)
    BY DEF HandInv
  <2>2. \A v \in Updates : fate'[v] = "hand" <=> \E s \in Threads : Works(s)' /\ job'[s] = v
    <3> SUFFICES ASSUME NEW v \in Updates
                 PROVE  fate'[v] = "hand" <=> \E s \in Threads : Works(s)' /\ job'[s] = v
      OBVIOUS
    <3>1. CASE v = u
      BY <1>2, <1>3, <1>6, <2>1, <3>1 DEF Outcome
    <3>2. CASE v # u
      BY <1>2, <1>3, <1>4, <1>6, <3>2 DEF HandInv
    <3> QED
      BY <3>1, <3>2
  <2> QED
    BY <1>2, <1>3, <2>2 DEF HandInv
<1>10. TopicInv'
  <2>1. offset' = offset
    BY DEF kafka
  <2>2. \A i \in 1 .. offset : Usable(Topic[i]) => Topic[i].update \in Updates
    BY ModuleThreadsAssumption DEF TypeOK, Positions, FromKafka
  <2>3. \A i \in 1 .. offset : Usable(Topic[i]) => fate'[Topic[i].update] # "new"
    BY <1>6, <2>2 DEF TopicInv, Outcome
  <2> QED
    BY <1>2, <1>3, <2>1, <2>3, ThreadNames DEF TopicInv
<1>11. TimerInv' /\ pc'["persistent"] = pc["persistent"]
  BY <1>2, ThreadNames, TimersKeep DEF timers
<1> QED
  BY <1>2, <1>3, <1>5, <1>6, <1>7, <1>8, <1>9, <1>10, <1>11

\* A step that adds at most one to what a table has of the update u, and
\* leaves nothing of it to be done.
LEMMA CountsAfter ==
  ASSUME IInv, NEW t \in Threads \ {"persistent"}, Works(t), NEW u \in Updates, job[t] = u,
         ~Works(t)', \A s \in Threads : s # t => pc'[s] = pc[s] /\ job'[s] = job[s],
         fate'[u] # "new", \A v \in Updates : v # u => fate'[v] = fate[v],
         UNCHANGED <<offset, up, crashes, usersOnDisk, itemsOnDisk>>,
         \A v \in Updates : v # u =>
           /\ users'[v] = users[v] /\ items'[v] = items[v]
           /\ v \in eliminated' => v \in eliminated,
         users'[u] = users[u] \/ (pc[t] = "users" /\ users'[u] = users[u] + 1),
         items'[u] = items[u] \/ items'[u] = items[u] + 1
  PROVE  CountInv'
<1> USE DEF IInv
<1>1. \A v : Most(v)' = Most(v)
  BY DEF Most
<1>2. Most(u) \in Nat /\ users[u] \in Nat /\ items[u] \in Nat
  BY DEF Most, TypeOK, TablesOK
<1>3. ~Ahead(u)'
  <2>1. up /\ \A i \in Positions : Topic[i].update = u => ~(i > offset)
    BY WorkIsNotAhead, ModuleThreadsAssumption DEF TypeOK, Positions
  <2> QED
    BY <2>1 DEF Ahead
<1>4. ~InHand(u, {"users"})' /\ ~InHand(u, {"users", "items"})'
  BY DEF InHand, HandInv, Works
<1>5. /\ InHand(u, {"users", "items"}) /\ (pc[t] = "users" => InHand(u, {"users"}))
  BY DEF InHand, Works
<1>6. ASSUME NEW v \in Updates, v # u
      PROVE  /\ Ahead(v)' => Ahead(v)
             /\ InHand(v, {"users"})' => InHand(v, {"users"})
             /\ InHand(v, {"users", "items"})' => InHand(v, {"users", "items"})
  BY <1>6 DEF Ahead, InHand, Works
<1> QED
  <2> SUFFICES ASSUME NEW v \in Updates
               PROVE  /\ users'[v] <= Most(v) /\ usersOnDisk[v] <= Most(v)
                      /\ items'[v] <= Most(v) /\ itemsOnDisk[v] <= Most(v)
                      /\ Ahead(v)' \/ InHand(v, {"users"})' =>
                           /\ users'[v] < Most(v) /\ usersOnDisk[v] < Most(v)
                           /\ v \notin FromKafka => v \notin eliminated'
                      /\ Ahead(v)' \/ InHand(v, {"users", "items"})' =>
                           items'[v] < Most(v) /\ itemsOnDisk[v] < Most(v)
    BY <1>1 DEF CountInv
  <2>1. CASE v = u
    BY <1>2, <1>3, <1>4, <1>5, <2>1 DEF CountInv
  <2>2. CASE v # u
    BY <1>6, <2>2 DEF CountInv
  <2> QED
    BY <2>1, <2>2

\* The tables lose nothing when an update is written.
LEMMA GrowingTables ==
  ASSUME IInv, NEW u \in Updates, UNCHANGED <<begun, durable, usersOnDisk, itemsOnDisk>>,
         pc'["persistent"] = pc["persistent"], TablesOK',
         \A v \in Updates : users'[v] >= users[v] /\ items'[v] >= items[v],
         \/ eliminated' = eliminated
         \/ eliminated' = eliminated \ {u} /\ users'[u] > 0
  PROVE  /\ FlushInv' /\ \A v \in Updates : Applied(v) => Applied(v)'
         /\ \A v \in Updates : users[v] > 0 \/ v \in eliminated => users'[v] > 0 \/ v \in eliminated'
<1>1. \A v \in Updates :
        /\ users[v] \in Nat /\ items[v] \in Nat /\ users'[v] \in Nat /\ items'[v] \in Nat
        /\ users'[v] >= users[v] /\ items'[v] >= items[v]
        /\ users[v] > 0 \/ v \in eliminated => users'[v] > 0 \/ v \in eliminated'
  BY DEF IInv, TypeOK, TablesOK
<1>2. \A v \in Updates : Applied(v) => Applied(v)'
  <2> SUFFICES ASSUME NEW v \in Updates, Applied(v) PROVE Applied(v)'
    OBVIOUS
  <2>1. items[v] > 0 => items'[v] > 0
    BY <1>1
  <2> QED
    BY <1>1, <2>1 DEF Applied, AppliedIn
<1>3. \A v \in Updates : (users[v] > 0 => users'[v] > 0) /\ (items[v] > 0 => items'[v] > 0)
  BY <1>1
<1>4. begun \subseteq Updates /\ durable \subseteq Updates
  BY DEF IInv, TypeOK
<1>5. FlushInv'
  BY <1>2, <1>3, <1>4 DEF IInv, FlushInv
<1> QED
  BY <1>1, <1>2, <1>5

\* The call of an update returns, and what it wrote is what it reports.
LEMMA ReturnStep ==
  ASSUME IInv, NEW t \in Threads \ {"persistent"}, Works(t), NEW u \in Updates, job[t] = u,
         NEW status \in Statuses, Return(t, status),
         UNCHANGED <<up, crashes, kafka, request, timers, flushed>>,
         TablesOK', UNCHANGED <<usersOnDisk, itemsOnDisk>>,
         \A v \in Updates : v # u => users'[v] = users[v] /\ items'[v] = items[v],
         users'[u] = users[u] \/ (pc[t] = "users" /\ users'[u] = users[u] + 1),
         items'[u] = items[u] \/ items'[u] = items[u] + 1,
         \/ eliminated' = eliminated
         \/ eliminated' = eliminated \ {u} /\ users'[u] > 0,
         status = "OK" => Applied(u)',
         status # "OK" /\ u \notin FromKafka => Absent(u)'
  PROVE  IInv'
<1> USE DEF IInv
<1>1. /\ pc' \in [Threads -> {"idle", "users", "items", "call", "send", "check",
                              "eliminate", "flushUsers", "flushItems", "flag"}]
      /\ job' \in [Threads -> Jobs \cup {NoUpdate}]
      /\ told' \in [Updates -> {"nothing", "OK", "CODE_OK", "failure", "-1"}]
      /\ fate' \in [Updates -> {"new", "hand", "done", "failed", "refused", "cut"}]
      /\ pc'["persistent"] = pc["persistent"] /\ ~Works(t)'
      /\ \A s \in Threads : s # t => pc'[s] = pc[s] /\ job'[s] = job[s]
      /\ fate'[u] = Outcome(status)
      /\ \A v \in Updates : v # u => fate'[v] = fate[v] /\ told'[v] = told[v]
      /\ told'[u] = IF u \in FromKafka THEN told[u] ELSE ToldAs(t, status)
      /\ ThreadInv' /\ HandInv' /\ TopicInv' /\ TimerInv'
  BY Returns
<1>2. TypeOK'
  BY <1>1 DEF TypeOK, kafka, timers, flushed
<1>3. CountInv'
  <2>1. fate'[u] # "new"
    BY <1>1 DEF Outcome
  <2> QED
    BY <1>1, <2>1, CountsAfter DEF kafka
<1>4. users[u] \in Nat /\ items[u] \in Nat
  BY DEF TypeOK, TablesOK
<1>5. \A v \in Updates : users'[v] >= users[v] /\ items'[v] >= items[v]
  <2>1. users'[u] >= users[u] /\ items'[u] >= items[u]
    BY <1>4
  <2>2. \A v \in Updates : users[v] \in Nat /\ items[v] \in Nat
    BY DEF TypeOK, TablesOK
  <2>3. \A v \in Updates : v # u => users'[v] >= users[v] /\ items'[v] >= items[v]
    BY <2>2
  <2> QED
    BY <2>1, <2>3
<1>6. /\ FlushInv' /\ \A v \in Updates : Applied(v) => Applied(v)'
      /\ \A v \in Updates : users[v] > 0 \/ v \in eliminated => users'[v] > 0 \/ v \in eliminated'
  BY <1>1, <1>5, GrowingTables DEF flushed
<1>7. DoneInv'
  <2>1. up => \A v \in Updates : fate'[v] = "done" => Applied(v)'
    BY <1>1, <1>6 DEF DoneInv, Outcome
  <2>2. \A s \in Threads :
          pc'[s] = "items" => pc[s] = "items" /\ job'[s] = job[s] /\ job[s] \in Updates
    BY <1>1 DEF ThreadInv, Works
  <2> QED
    BY <1>6, <2>1, <2>2 DEF DoneInv
<1>8. ToldInv'
  <2>1. ASSUME NEW v \in Updates, v # u, Absent(v) PROVE Absent(v)'
    BY <2>1 DEF Absent
  <2>2. ASSUME NEW v \in Updates, v # u
        PROVE  /\ told'[v] # "nothing" => v \notin FromKafka
               /\ told'[v] = "CODE_OK" => fate'[v] \in {"done", "cut"}
               /\ told'[v] = "OK" => fate'[v] \in {"done", "cut", "refused"}
               /\ told'[v] = "failure" => fate'[v] \in {"failed", "refused"} /\ Absent(v)'
    BY <1>1, <2>1, <2>2 DEF ToldInv
  <2>3. CASE u \in FromKafka
    BY <1>1, <2>2, <2>3 DEF ToldInv
  <2>4. CASE u \notin FromKafka
    <3>1. /\ told'[u] = "CODE_OK" => status = "OK"
          /\ told'[u] = "OK" => status # "IO"
          /\ told'[u] = "failure" => status # "OK"
      BY <1>1, <2>4 DEF ToldAs, GrpcCode, GlueCode
    <3>2. /\ status = "OK" => fate'[u] = "done"
          /\ status # "IO" => fate'[u] \in {"done", "refused"}
          /\ status # "OK" => fate'[u] \in {"failed", "refused"}
      BY <1>1 DEF Outcome
    <3> QED
      BY <1>1, <2>2, <2>4, <3>1, <3>2 DEF ToldInv
  <2> QED
    BY <2>3, <2>4
<1> QED
  BY <1>1, <1>2, <1>3, <1>6, <1>7, <1>8

LEMMA WriteItemsStep ==
  ASSUME IInv, NEW t \in Threads, WriteItems(t)
  PROVE  IInv'
<1> USE DEF IInv
<1>1. /\ pc[t] = "items" /\ t \in Threads \ {"persistent"} /\ Works(t)
      /\ UNCHANGED <<up, crashes, kafka, request, timers, flushed>>
  BY DEF WriteItems, ThreadInv, Works
<1>2. PICK u \in Updates : job[t] = u /\ InItems(u)
  BY <1>1 DEF ThreadInv
<1>3. PICK status \in Statuses : ItemTable(u, status) /\ Return(t, status)
  BY <1>2 DEF WriteItems
<1>4. /\ items' = IF status = "OK" THEN [items EXCEPT ![u] = @ + 1] ELSE items
      /\ UNCHANGED <<users, usersOnDisk, itemsOnDisk, eliminated>>
  BY <1>3 DEF ItemTable
<1>5. /\ items[u] \in Nat /\ items'[u] = IF status = "OK" THEN items[u] + 1 ELSE items[u]
      /\ \A v \in Updates : v # u => items'[v] = items[v]
      /\ TablesOK'
  BY <1>4 DEF TypeOK, TablesOK
<1>6. status = "OK" => Applied(u)'
  <2>1. InUsers(u) => users[u] > 0 \/ u \in eliminated
    BY <1>1, <1>2 DEF DoneInv
  <2> QED
    BY <1>4, <1>5, <2>1 DEF Applied, AppliedIn
<1>7. status # "OK" /\ u \notin FromKafka => Absent(u)'
  <2>1. InHand(u, {"users", "items"})
    BY <1>1, <1>2 DEF InHand
  <2>2. u \notin FromKafka => items[u] = 0 /\ itemsOnDisk[u] = 0
    BY <2>1 DEF CountInv, Most, TypeOK, TablesOK
  <2> QED
    BY <1>2, <1>4, <2>2 DEF Absent
<1>8. /\ \A v \in Updates : v # u => users'[v] = users[v] /\ items'[v] = items[v]
      /\ items'[u] = items[u] \/ items'[u] = items[u] + 1
  BY <1>4, <1>5
<1> QED
  BY <1>1, <1>2, <1>3, <1>4, <1>5, <1>6, <1>7, <1>8, ReturnStep

\* The first half of a click is written.
LEMMA FirstHalfStep ==
  ASSUME IInv, NEW t \in Threads \ {"persistent"}, pc[t] = "users",
         NEW u \in Updates, job[t] = u, InItems(u), InUsers(u), UserTable(u, "OK"),
         Goto(t, "items"),
         UNCHANGED <<job, fate, told, up, crashes, kafka, request, timers, flushed>>
  PROVE  IInv'
<1> USE DEF IInv
<1>1. /\ pc'[t] = "items" /\ \A s \in Threads : s # t => pc'[s] = pc[s]
      /\ \A s \in Threads : Works(s)' <=> Works(s)
      /\ up /\ pc' = [pc EXCEPT ![t] = "items"]
  BY DEF Goto, TypeOK, Works, ThreadInv
<1>2. /\ users' = [users EXCEPT ![u] = @ + 1] /\ eliminated' = eliminated \ {u}
      /\ UNCHANGED <<items, usersOnDisk, itemsOnDisk>>
  BY DEF UserTable
<1>3. /\ users[u] \in Nat /\ users'[u] = users[u] + 1 /\ TablesOK'
      /\ \A v \in Updates : v # u => users'[v] = users[v]
  BY <1>2 DEF TypeOK, TablesOK
<1>4. TypeOK'
  BY <1>1, <1>3 DEF TypeOK, kafka, timers, flushed
<1>5. ThreadInv'
  BY <1>1, ThreadNames DEF ThreadInv, Works, Source
<1>6. HandInv' /\ TopicInv'
  BY <1>1, ThreadNames DEF HandInv, TopicInv, kafka
<1>7. \A v \in Updates : users'[v] >= users[v] /\ items'[v] >= items[v]
  BY <1>2, <1>3 DEF TypeOK, TablesOK
<1>8. /\ FlushInv' /\ \A v \in Updates : Applied(v) => Applied(v)'
      /\ \A v \in Updates : users[v] > 0 \/ v \in eliminated => users'[v] > 0 \/ v \in eliminated'
  <2>1. UNCHANGED <<begun, durable>> /\ users'[u] > 0 /\ pc'["persistent"] = pc["persistent"]
    BY <1>1, <1>3, ThreadNames DEF flushed
  <2> QED
    BY <1>2, <1>3, <1>7, <2>1, GrowingTables
<1>9. DoneInv'
  <2>1. \A s \in Threads : pc'[s] = "items" => job[s] \in Updates /\ (pc[s] = "items" \/ s = t)
    BY <1>1 DEF ThreadInv, Works
  <2> QED
    BY <1>3, <1>8, <2>1 DEF DoneInv
<1>10. CountInv'
  <2>1. \A v : Most(v)' = Most(v) /\ Ahead(v)' = Ahead(v)
    BY DEF Most, Ahead, kafka
  <2>2. ~Ahead(u)
    <3>1. up /\ \A i \in Positions : Topic[i].update = u => ~(i > offset)
      BY WorkIsNotAhead, ModuleThreadsAssumption DEF TypeOK, Positions, Works
    <3>2. fate[u] = "hand"
      BY <1>1 DEF HandInv, Works
    <3> QED
      BY <3>1, <3>2 DEF Ahead
  <2>3. ~InHand(u, {"users"})' /\ InHand(u, {"users"}) /\ InHand(u, {"users", "items"})
    BY <1>1 DEF InHand, HandInv, Works
  <2>4. ASSUME NEW v \in Updates, v # u
        PROVE  /\ InHand(v, {"users"})' => InHand(v, {"users"})
               /\ InHand(v, {"users", "items"})' => InHand(v, {"users", "items"})
    BY <1>1, <2>4 DEF InHand
  <2>5. Most(u) \in Nat
    BY DEF Most, TypeOK
  <2> QED
    BY <1>2, <1>3, <2>1, <2>2, <2>3, <2>4, <2>5 DEF CountInv
<1>11. ToldInv'
  <2>1. fate[u] = "hand"
    BY <1>1 DEF HandInv, Works
  <2>2. ASSUME NEW v \in Updates, v # u, Absent(v) PROVE Absent(v)'
    BY <1>2, <1>3, <2>2 DEF Absent
  <2> QED
    BY <2>1, <2>2 DEF ToldInv
<1>12. TimerInv'
  BY <1>1, ThreadNames, TimersKeep DEF timers
<1> QED
  BY <1>4, <1>5, <1>6, <1>8, <1>9, <1>10, <1>11, <1>12

LEMMA WriteUsersStep ==
  ASSUME IInv, NEW t \in Threads, WriteUsers(t)
  PROVE  IInv'
<1> USE DEF IInv
<1>1. /\ pc[t] = "users" /\ t \in Threads \ {"persistent"} /\ Works(t)
      /\ UNCHANGED <<up, crashes, kafka, request, timers, flushed>>
  BY DEF WriteUsers, ThreadInv, Works
<1>2. PICK u \in Updates : job[t] = u /\ InUsers(u)
  BY <1>1 DEF ThreadInv
<1>3. PICK status \in Statuses :
        /\ UserTable(u, status)
        /\ IF status = "OK" /\ InItems(u)
           THEN Goto(t, "items") /\ UNCHANGED <<job, fate, told>>
           ELSE Return(t, status)
  BY <1>2 DEF WriteUsers
<1>4. CASE status = "OK" /\ InItems(u)
  BY <1>1, <1>2, <1>3, <1>4, FirstHalfStep
<1>5. CASE ~(status = "OK" /\ InItems(u))
  <2>1. /\ users' = IF status = "OK" THEN [users EXCEPT ![u] = @ + 1] ELSE users
        /\ eliminated' = IF status = "OK" THEN eliminated \ {u} ELSE eliminated
        /\ UNCHANGED <<items, usersOnDisk, itemsOnDisk>>
    BY <1>3 DEF UserTable
  <2>2. /\ users[u] \in Nat /\ users'[u] = IF status = "OK" THEN users[u] + 1 ELSE users[u]
        /\ \A v \in Updates : v # u => users'[v] = users[v]
        /\ TablesOK'
    BY <2>1 DEF TypeOK, TablesOK
  <2>3. status = "OK" => Applied(u)'
    BY <1>5, <2>2 DEF Applied, AppliedIn
  <2>4. status # "OK" /\ u \notin FromKafka => Absent(u)'
    <3>1. InHand(u, {"users"})
      BY <1>1, <1>2 DEF InHand
    <3>2. u \notin FromKafka => users[u] = 0 /\ usersOnDisk[u] = 0 /\ u \notin eliminated
      BY <3>1 DEF CountInv, Most, TypeOK, TablesOK
    <3> QED
      BY <1>2, <2>1, <3>2 DEF Absent
  <2>5. eliminated' = eliminated \/ (eliminated' = eliminated \ {u} /\ users'[u] > 0)
    <3>1. CASE status = "OK"
      BY <2>1, <2>2, <3>1
    <3>2. CASE status # "OK"
      BY <2>1, <3>2
    <3> QED
      BY <3>1, <3>2
  <2>6. /\ \A v \in Updates : v # u => users'[v] = users[v] /\ items'[v] = items[v]
        /\ users'[u] = users[u] \/ users'[u] = users[u] + 1
    BY <2>1, <2>2
  <2>7. Return(t, status)
    BY <1>3, <1>5
  <2> QED
    BY <1>1, <1>2, <2>1, <2>2, <2>3, <2>4, <2>5, <2>6, <2>7, ReturnStep
<1> QED
  BY <1>4, <1>5
-----------------------------------------------------------------------------
(***************************************************************************)
(* Crash and restart.                                                      *)
(***************************************************************************)
LEMMA DieStep ==
  ASSUME IInv, NEW consumed \in offset .. Len(Topic), Die(consumed), offset' = consumed,
         \A i \in 1 .. consumed : i > offset => ~Usable(Topic[i])
  PROVE  IInv'
<1> USE DEF IInv
<1>1. /\ crashes' = crashes + 1 /\ crashes < MaxCrashes /\ up' = FALSE
      /\ pc' = [t \in Threads |-> "idle"] /\ job' = [t \in Threads |-> NoUpdate]
      /\ request' = [r \in Requests |-> IF request[r] = "waiting" THEN "waiting" ELSE "closed"]
      /\ begun' = {} /\ stored' \in stored .. consumed
      /\ UNCHANGED <<tables, told, timers, durable, fate>>
  BY DEF Die
<1>2. UNCHANGED <<users, items, usersOnDisk, itemsOnDisk, eliminated>>
  BY <1>1 DEF tables
<1>3. \A t \in Threads : pc'[t] = "idle" /\ ~Works(t)'
  BY <1>1 DEF Works
<1>4. TypeOK'
  <2>1. crashes' \in 0 .. MaxCrashes
    BY <1>1, ModuleThreadsAssumption DEF TypeOK
  <2>2. offset' \in 0 .. Len(Topic) /\ stored' \in 0 .. offset'
    BY <1>1, ModuleThreadsAssumption DEF TypeOK
  <2>3. TablesOK'
    BY <1>2 DEF TypeOK, TablesOK
  <2> QED
    BY <1>1, <2>1, <2>2, <2>3 DEF TypeOK, timers
<1>5. ThreadInv' /\ HandInv' /\ DoneInv' /\ TimerInv'
  BY <1>1, <1>3, ThreadNames DEF ThreadInv, HandInv, DoneInv, TimerInv
<1>6. TopicInv'
  <2>1. \A i \in 1 .. consumed : i \in 1 .. offset \/ ~Usable(Topic[i])
    BY DEF TypeOK
  <2> QED
    BY <1>1, <1>3, <2>1, ThreadNames DEF TopicInv
<1>7. CountInv'
  <2>1. ASSUME NEW u \in Updates
        PROVE  /\ Most(u) \in Nat /\ Most(u)' \in Nat
               /\ u \in FromKafka => Most(u)' = Most(u) + 1
               /\ u \notin FromKafka => Most(u)' = Most(u) /\ (Ahead(u)' <=> Ahead(u))
    BY <1>1, <1>4 DEF Most, Ahead, TypeOK
  <2>2. \A u : ~InHand(u, {"users"})' /\ ~InHand(u, {"users", "items"})'
    BY <1>3 DEF InHand
  <2>3. \A u \in Updates : /\ users[u] \in Nat /\ usersOnDisk[u] \in Nat
                           /\ items[u] \in Nat /\ itemsOnDisk[u] \in Nat
    BY DEF TypeOK, TablesOK
  <2> QED
    BY <1>2, <2>1, <2>2, <2>3 DEF CountInv
<1>8. ToldInv'
  BY <1>1, <1>2 DEF ToldInv, Absent
<1>9. FlushInv'
  BY <1>1, <1>2, <1>3, ThreadNames DEF FlushInv
<1> QED
  BY <1>4, <1>5, <1>6, <1>7, <1>8, <1>9

\* A restarted table holds for each update what memory or the file had.
LEMMA RecoveredIs ==
  ASSUME NEW memory \in [Updates -> Nat], NEW disk \in [Updates -> Nat],
         NEW table \in Recovered(memory, disk)
  PROVE  table \in [Updates -> Nat] /\ \A u \in Updates : table[u] \in {memory[u], disk[u]}
<1>1. \A u \in Updates : table[u] \in {memory[u], disk[u]}
  BY DEF Recovered
<1>2. table = [u \in Updates |-> table[u]]
  BY DEF Recovered
<1>3. \A u \in Updates : table[u] \in Nat
  BY <1>1
<1> QED
  BY <1>1, <1>2, <1>3

LEMMA StartStep ==
  ASSUME IInv, Start
  PROVE  IInv'
<1> USE DEF IInv
<1>1. /\ ~up /\ up' = TRUE /\ pc' = [pc EXCEPT !["persistent"] = "check"]
      /\ offset' = stored /\ save' \in ReadStamp /\ nextFlush' = NextDue(now) /\ since' = now
      /\ fate' = [u \in Updates |-> FateAfterReload(u)]
      /\ UNCHANGED <<job, crashes, stored, network, now, flag, flushed>>
  BY DEF Start, Goto
<1>2. /\ users' \in Recovered(users, usersOnDisk) /\ items' \in Recovered(items, itemsOnDisk)
      /\ eliminated' = {u \in eliminated : users'[u] = 0}
      /\ UNCHANGED <<usersOnDisk, itemsOnDisk>>
  BY DEF Start, Reload
<1>3. /\ users' \in [Updates -> Nat] /\ items' \in [Updates -> Nat]
      /\ \A u \in Updates : /\ users'[u] \in {users[u], usersOnDisk[u]}
                            /\ items'[u] \in {items[u], itemsOnDisk[u]}
  BY <1>2, RecoveredIs DEF TypeOK, TablesOK
<1>4. /\ pc'["persistent"] = "check"
      /\ \A t \in Threads : ~Works(t)' /\ (t # "persistent" => pc'[t] = "idle")
  BY <1>1, ThreadNames DEF TypeOK, ThreadInv, Works
<1>5. \A u \in Updates :
        /\ fate'[u] # "hand" /\ (fate'[u] = "new" <=> fate[u] = "new")
        /\ fate'[u] = "done" => Applied(u)'
        /\ fate[u] \in {"failed", "refused"} => fate'[u] = fate[u]
        /\ fate[u] \in {"done", "cut"} => fate'[u] \in {"done", "cut"}
        /\ fate'[u] \in {"new", "hand", "done", "failed", "refused", "cut"}
  <2> SUFFICES ASSUME NEW u \in Updates
               PROVE  /\ fate'[u] # "hand" /\ (fate'[u] = "new" <=> fate[u] = "new")
                      /\ fate'[u] = "done" => Applied(u)'
                      /\ fate[u] \in {"failed", "refused"} => fate'[u] = fate[u]
                      /\ fate[u] \in {"done", "cut"} => fate'[u] \in {"done", "cut"}
                      /\ fate'[u] \in {"new", "hand", "done", "failed", "refused", "cut"}
    OBVIOUS
  <2>1. fate'[u] = IF \/ fate[u] = "hand"
                      \/ fate[u] = "done" /\ ~Applied(u)'
                   THEN "cut" ELSE fate[u]
    BY <1>1 DEF FateAfterReload, Applied
  <2> QED
    BY <2>1 DEF TypeOK
<1>6. NextDue(now) \in Nat /\ NextDue(now) <= now + Period /\ now \in Nat
  BY NextDueWithin DEF TypeOK
<1>7. TypeOK'
  <2>1. save' \in Stamps
    BY <1>1, ModuleThreadsAssumption DEF TypeOK, ReadStamp, Stamps, NoFlag, EmptyFlag
  <2>2. stored \in 0 .. Len(Topic) /\ stored \in 0 .. stored
    BY ModuleThreadsAssumption DEF TypeOK
  <2>3. now \in 0 .. now
    BY <1>6
  <2>4. TablesOK'
    BY <1>2, <1>3 DEF TypeOK, TablesOK
  <2>5. fate' \in [Updates -> {"new", "hand", "done", "failed", "refused", "cut"}]
    BY <1>1, <1>5
  <2> QED
    BY <1>1, <1>6, <2>1, <2>2, <2>3, <2>4, <2>5 DEF TypeOK, network, flushed
<1>8. ThreadInv' /\ HandInv'
  BY <1>1, <1>4, <1>5, ThreadNames DEF ThreadInv, HandInv, Works
<1>9. TopicInv'
  <2>1. \A i \in 1 .. stored : i \in 1 .. offset
    BY DEF TypeOK
  <2>2. \A i \in 1 .. stored : Usable(Topic[i]) => Topic[i].update \in Updates
    BY <2>1, ModuleThreadsAssumption DEF TypeOK, Positions, FromKafka
  <2> QED
    BY <1>1, <1>4, <1>5, <2>1, <2>2, ThreadNames DEF TopicInv
<1>10. DoneInv'
  BY <1>4, <1>5 DEF DoneInv, Works
<1>11. CountInv'
  <2>1. \A u \in Updates : Most(u)' = Most(u) /\ (Ahead(u)' => Ahead(u))
    BY <1>1, <1>5 DEF Most, Ahead
  <2>2. \A u : ~InHand(u, {"users"})' /\ ~InHand(u, {"users", "items"})'
    BY <1>4 DEF InHand, Works
  <2> QED
    BY <1>2, <1>3, <2>1, <2>2 DEF CountInv
<1>12. ToldInv'
  <2>1. \A u \in Updates : Absent(u) => Absent(u)'
    BY <1>2, <1>3 DEF Absent
  <2> QED
    BY <1>1, <1>5, <2>1 DEF ToldInv, network
<1>13. FlushInv'
  <2>1. \A u \in durable : u \in Updates
    BY DEF TypeOK
  <2> QED
    BY <1>1, <1>2, <1>3, <1>4, <2>1 DEF FlushInv, flushed
<1>14. TimerInv'
  <2>1. Period \in Nat /\ save' \in Nat
    BY <1>7, ModuleThreadsAssumption DEF TypeOK, Stamps
  <2> QED
    BY <1>1, <1>4, <1>6, <2>1 DEF TimerInv
<1> QED
  BY <1>7, <1>8, <1>9, <1>10, <1>11, <1>12, <1>13, <1>14

\* A message is taken up, kills the process, or is gone.
LEMMA ConsumeStep ==
  ASSUME IInv, Consume
  PROVE  IInv'
<1> USE DEF IInv
<1> DEFINE m == Topic[offset + 1]
<1>1. /\ up /\ pc[Kafka] = "idle" /\ offset' = offset + 1 /\ offset + 1 \in Positions
      /\ offset' \in offset .. Len(Topic)
      /\ \A i \in 1 .. offset' : i > offset => i = offset + 1
  BY ModuleThreadsAssumption DEF Consume, TypeOK, Positions
<1>2. CASE /\ Usable(m) /\ TakeUp(Kafka, m.update)
           /\ UNCHANGED <<tables, up, crashes, stored, network, timers, flushed>>
  <2>1. PICK u \in FromKafka : m.update = u
    BY <1>1, <1>2, ModuleThreadsAssumption DEF FromKafka
  <2>2. Kafka \in Threads \ {"persistent"} /\ u \in Source(Kafka) \cap Updates
    BY ThreadNames, ModuleThreadsAssumption DEF Source
  <2>3. Ahead(u)
    <3>1. offset + 1 > offset
      BY DEF TypeOK
    <3> QED
      BY <1>1, <2>1, <3>1 DEF Ahead
  <2>4. fate[u] # "hand"
    <3> SUFFICES ASSUME NEW t \in Threads, Works(t), job[t] = u PROVE FALSE
      BY <1>1, <2>2 DEF HandInv
    <3>1. t # "persistent"
      BY DEF ThreadInv, Works
    <3>2. t = Kafka
      BY <3>1, WorkIsNotAhead
    <3> QED
      BY <1>1, <3>2 DEF Works
  <2>5. /\ offset' <= Len(Topic) /\ offset' \in 1 .. offset'
        /\ \A i \in 1 .. offset' : i > offset => Topic[i].update = u
    BY <1>1, <2>1, ModuleThreadsAssumption DEF TypeOK
  <2> QED
    BY <1>1, <1>2, <2>1, <2>2, <2>3, <2>4, <2>5, TakeUpStep DEF TypeOK, network
<1>3. CASE Fatal(m) /\ Die(offset')
  <2>1. ~Usable(m)
    BY <1>3 DEF Fatal, Usable, Dies
  <2> QED
    BY <1>1, <1>3, <2>1, DieStep
<1>4. CASE /\ ~Usable(m)
           /\ UNCHANGED <<tables, process, stored, network, timers, flushed, fate>>
  <2>1. UNCHANGED <<up, pc, job, crashes, told, request, begun, durable>>
    BY <1>4 DEF process, network, flushed
  <2>2. TypeOK'
    <3>1. offset' \in 0 .. Len(Topic) /\ stored \in 0 .. offset'
      BY <1>1, ModuleThreadsAssumption DEF TypeOK
    <3> QED
      BY <1>4, <2>1, <3>1 DEF TypeOK, TablesOK, tables, timers
  <2>3. ThreadInv' /\ HandInv' /\ DoneInv' /\ CountInv' /\ ToldInv'
    BY <1>1, <1>4, <2>1, ToldUnchanged, QuietStep DEF ThreadInv, Works, Source
  <2>4. TopicInv'
    <3>1. \A i \in 1 .. offset' : i \in 1 .. offset \/ i = offset + 1
      BY <1>1 DEF TypeOK
    <3>2. \A i \in 1 .. offset : i \in 1 .. offset'
      BY <1>1 DEF TypeOK
    <3> QED
      BY <1>4, <2>1, <3>1, <3>2 DEF TopicInv, Works
  <2>5. FlushInv' /\ TimerInv'
    BY <1>4, <2>1, FlushKeeps, TimersKeep DEF timers
  <2> QED
    BY <2>2, <2>3, <2>4, <2>5
<1> QED
  BY <1>1, <1>2, <1>3, <1>4 DEF Consume
-----------------------------------------------------------------------------
LEMMA InitIInv == Init => IInv
<1> SUFFICES ASSUME Init PROVE IInv
  OBVIOUS
<1> USE DEF Init, InitTables, Nothing
<1>1. TypeOK
  <2>1. 0 \in Stamps /\ 0 \in 0 .. Len(Topic) /\ 0 \in 0 .. 0 /\ 0 \in 0 .. MaxTime
        /\ 0 \in 0 .. MaxCrashes
    BY ModuleThreadsAssumption DEF Stamps
  <2> QED
    BY <2>1 DEF TypeOK, TablesOK, NoFlag
<1>2. ThreadInv /\ HandInv /\ DoneInv /\ TimerInv
  BY ThreadNames DEF ThreadInv, HandInv, DoneInv, TimerInv, Works
<1>3. TopicInv
  BY ThreadNames DEF TopicInv, Works
<1>4. CountInv
  <2>1. \A u : Most(u) = 1
    BY DEF Most
  <2> QED
    BY <2>1 DEF CountInv
<1>5. ToldInv
  BY DEF ToldInv
<1>6. FlushInv
  BY ThreadNames DEF FlushInv
<1> QED
  BY <1>1, <1>2, <1>3, <1>4, <1>5, <1>6 DEF IInv

LEMMA NextIInv == IInv /\ [Next]_vars => IInv'
<1> SUFFICES ASSUME IInv, [Next]_vars PROVE IInv'
  OBVIOUS
<1>1. CASE Crash
  <2>1. offset \in offset .. Len(Topic) /\ \A i \in 1 .. offset : ~(i > offset)
    BY ModuleThreadsAssumption DEF IInv, TypeOK
  <2> QED
    BY <1>1, <2>1, DieStep DEF Crash
<1>2. CASE FlushFails
  <2>1. offset \in offset .. Len(Topic) /\ \A i \in 1 .. offset : ~(i > offset)
    BY ModuleThreadsAssumption DEF IInv, TypeOK
  <2> QED
    BY <1>2, <2>1, DieStep DEF FlushFails
<1>3. ASSUME NEW t \in Threads, WriteTables(t) PROVE IInv'
  BY <1>3, WriteUsersStep, WriteItemsStep DEF WriteTables
<1>4. CASE KafkaThread
  BY <1>3, <1>4, ConsumeStep, ThreadNames DEF KafkaThread
<1>5. ASSUME NEW t \in NetThreads, NetworkThread(t) PROVE IInv'
  BY <1>3, <1>5, RecvRequestStep, InterfaceStep, SendRequestStep, ThreadNames DEF NetworkThread
<1>6. ASSUME NEW u \in GrpcUpdates, CallGrpc(u) \/ WriteTables(u) PROVE IInv'
  BY <1>3, <1>6, CallGrpcStep, ThreadNames
<1>7. CASE PersistentThread
  BY <1>7, CheckTimersStep, EliminateStep, FlushUsersStep, FlushItemsStep, WriteFlagStep
     DEF PersistentThread
<1>8. CASE UNCHANGED vars
  BY <1>8 DEF vars, tables, process, kafka, network, timers, flushed, IInv, TypeOK, TablesOK,
     ThreadInv, Works, Source, HandInv, TopicInv, DoneInv, Applied, AppliedIn, CountInv, Most,
     Ahead, InHand, ToldInv, Absent, FlushInv, TimerInv, Elapsed
<1> QED
  BY <1>1, <1>2, <1>4, <1>5, <1>6, <1>7, <1>8, StartStep, TickStep DEF Next

LEMMA Invariant == Spec => []IInv
BY InitIInv, NextIInv, PTL DEF Spec
-----------------------------------------------------------------------------
\* The candb process keeps its tables, threads, timers and files well typed,
\* and the stored offset behind the consumed one.
THEOREM TypeCorrect == Spec => []TypeOK
BY Invariant, PTL DEF IInv

(***************************************************************************)
(* thread_kafka passes no message over, and what a call of CandidateDB     *)
(* reported as done is in each table it belongs to: both for a click.      *)
(***************************************************************************)
THEOREM UpdatesAreAccounted == Spec => []EveryUpdateIsAccounted
<1>1. IInv => EveryUpdateIsAccounted
  BY DEF IInv, TopicInv, DoneInv, HandInv, EveryUpdateIsAccounted, Works
<1> QED
  BY <1>1, Invariant, PTL

(***************************************************************************)
(* What flush() had finished writing survives any number of crashes,       *)
(* though it writes one table after the other while updates go on.         *)
(***************************************************************************)
THEOREM FlushedSurvives == Spec => []FlushedIsSafe
<1>1. IInv => FlushedIsSafe
  BY DEF IInv, FlushInv, FlushedIsSafe, Applied, AppliedIn
<1> QED
  BY <1>1, Invariant, PTL

(***************************************************************************)
(* A crash can cost one more application of a message of the topic, since  *)
(* thread_kafka reads it again from the stored offset, and nothing else    *)
(* applies an update twice.                                                *)
(***************************************************************************)
THEOREM AppliedAtMostOncePerRun == Spec => []AppliedTwiceOnlyAfterCrash
<1>1. IInv => AppliedTwiceOnlyAfterCrash
  BY DEF IInv, CountInv, Most, AppliedTwiceOnlyAfterCrash
<1> QED
  BY <1>1, Invariant, PTL

(***************************************************************************)
(* CODE_OK of the gRPC service and the failure of either service can be    *)
(* relied on; the glue's OK may also stand for an update that a table      *)
(* refused, and -1 in place of an answer for one that is applied.          *)
(***************************************************************************)
THEOREM CallersAreToldTheTruth == Spec => []ToldTheTruth
<1>1. IInv => ToldTheTruth
  BY DEF IInv, DoneInv, ToldInv, Absent, TypeOK, TablesOK, ToldTheTruth, Applied, AppliedIn
<1> QED
  BY <1>1, Invariant, PTL

(***************************************************************************)
(* However the interval of thread_persistent, the period of its            *)
(* expression and the stamp in the flag file stand to each other, the      *)
(* tables are flushed within one period and one interval.                  *)
(***************************************************************************)
THEOREM FlushComesInTime == Spec => []FlushIsDue
<1>1. IInv => FlushIsDue
  <2> SUFFICES ASSUME IInv, up, pc["persistent"] = "idle" PROVE now - since <= Period + Interval
    BY DEF FlushIsDue
  <2>1. /\ save \in Stamps /\ save \in Nat /\ now \in Nat /\ since \in Nat
        /\ Period \in Nat /\ Interval \in Nat /\ StampMod \in Nat /\ save < StampMod
    BY ModuleThreadsAssumption DEF IInv, TypeOK, Stamps
  <2>2. Elapsed(save) < Interval
    BY DEF IInv, TimerInv
  <2>3. CASE save <= now
    <3>1. now - save < Interval /\ save <= since + Period
      BY <2>1, <2>2, <2>3, ElapsedIs DEF IInv, TimerInv
    <3> QED
      BY <2>1, <3>1
  <2>4. CASE save > now
    <3>1. now - save + StampMod < Interval
      BY <2>1, <2>2, <2>4, ElapsedIs DEF IInv
    <3> QED
      BY <2>1, <3>1
  <2> QED
    BY <2>1, <2>3, <2>4
<1> QED
  BY <1>1, Invariant, PTL
=============================================================================
