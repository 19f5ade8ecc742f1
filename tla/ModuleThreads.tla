---------------------------- MODULE ModuleThreads ----------------------------
(***************************************************************************)
(* The candb process: main.cpp opens the CandidateDB, starts the gRPC      *)
(* server (service_grpc.cpp) and CF_framework_module, whose threads call   *)
(* the same CandidateDB through ServiceGlue:                               *)
(*   thread_kafka       consumes the topic, one message after the other    *)
(*   thread_network     serves one connection at a time                    *)
(*   thread_persistent  wakes once a minute and may flush                  *)
(* and the gRPC server calls updateAction and deleteUserDislike.  A failed *)
(* flush ends in LOG(FATAL), a message that jparse does not survive in a   *)
(* segmentation fault; both are crashes.  The process is restarted by      *)
(* hand, on the files it left: the tables, the offset file of the Kafka    *)
(* client, and the flag file of thread_persistent.                         *)
(*                                                                         *)
(* Time passes in minutes, the sleep of thread_persistent; what it does    *)
(* when it is awake takes less.  thread_train is never started: ServiceGlue *)
(* answers is_update_train() with 0.                                       *)
(***************************************************************************)
EXTENDS CandidateDB, KafkaMessage

CONSTANTS Topic,         \* the messages of the partition: KafkaMessages with
                         \* the update they carry and whether they fit into
                         \* md_message_size
          NetThreads,    \* the threads of thread_network
          Requests,      \* requests to the socket of md_listen_port
          Class,         \* what each of them may be; one that may be an
                         \* update is in Updates
          GrpcUpdates,   \* updates that may be called through gRPC, each by a
                         \* thread of the server that bears its name
          MaxFd,         \* connections the process may have open
          Interval,      \* md_persistent_interval
          Period,        \* the gap of flush_timer
          StampMod,      \* modulus of the stamps' unsigned arithmetic (2^64)
          MaxTime, MaxCrashes, \* bounds
          Kafka, NoUpdate

\* A request cannot be received, or not parsed; it is an update or changes
\* no table.
Classes == {"broken", "garbage", "update", "other"}
Positions == 1 .. Len(Topic)
FromKafka == {Topic[i].update : i \in Positions} \ {NoUpdate}
FromNet == {r \in Requests : "update" \in Class[r]}

\* A message that does not fit, or that is refused, is gone; so is one of a
\* type that is parsed but not handled (4, 5 and 6).
Usable(m) == m.fits /\ ParseJson(m) = 0 /\ m.type \in 1 .. 3
Fatal(m) == m.fits /\ ParseJson(m) = Dies

\* An update names one message of the topic, or one request or call.
ASSUME ModuleThreadsAssumption ==
  /\ Len(Topic) \in Nat
  /\ \A i \in Positions : Usable(Topic[i]) => Topic[i].update # NoUpdate
  /\ \A i, j \in Positions :
       Topic[i].update = Topic[j].update /\ i # j => Topic[i].update = NoUpdate
  /\ NoUpdate \notin Updates \cup Requests
  /\ Class \in [Requests -> SUBSET Classes]
  /\ FromKafka \cup FromNet \cup GrpcUpdates \subseteq Updates
  /\ FromKafka \cap (FromNet \cup GrpcUpdates) = {}
  /\ MaxFd \in Nat \ {0} /\ Interval \in Nat \ {0} /\ Period \in Nat \ {0}
  /\ MaxTime \in Nat /\ StampMod \in Nat /\ MaxTime + Interval < StampMod
  /\ MaxCrashes \in Nat
  /\ Kafka # "persistent" /\ {Kafka, "persistent"} \cap (NetThreads \cup GrpcUpdates) = {}
  /\ NetThreads \cap GrpcUpdates = {}

VARIABLES up,        \* whether the process runs
          pc, job,   \* where a thread is, and the update or request it has
          offset,    \* of thread_kafka: how many messages it consumed
          stored,    \* the offset in the offset file when the process started
          request,   \* what became of a request
          told,      \* what the caller of an update was told
          now,       \* minutes
          save,      \* save_time_stamp of thread_persistent
          flag,      \* its flag file: a stamp, or a status
          nextFlush, \* next_flush_time_ of ServiceGlue
          since,     \* history: when the tables were last flushed or loaded
          begun,     \* history: updates applied when the flush began, less
                     \* those eliminated since
          durable,   \* history: the same for the flushes that were finished
          fate,      \* history: what became of an update
          crashes    \* number of crashes

process == <<up, pc, job, crashes>>
kafka == <<offset, stored>>
network == <<request, told>>
timers == <<now, save, flag, nextFlush, since>>
flushed == <<begun, durable>>
vars == <<tables, process, kafka, network, timers, flushed, fate>>

Threads == {Kafka, "persistent"} \cup NetThreads \cup GrpcUpdates
Jobs == Updates \cup Requests
Stamps == 0 .. StampMod - 1

TypeOK ==
  /\ TablesOK
  /\ up \in BOOLEAN
  /\ pc \in [Threads -> {"idle", "users", "items", "call", "send", "check",
                         "eliminate", "flushUsers", "flushItems", "flag"}]
  /\ job \in [Threads -> Jobs \cup {NoUpdate}]
  /\ stored \in 0 .. offset /\ offset \in 0 .. Len(Topic)
  /\ request \in [Requests -> {"waiting", "open", "leaked", "closed"}]
  /\ told \in [Updates -> {"nothing", "OK", "CODE_OK", "failure", "-1"}]
  /\ now \in 0 .. MaxTime /\ save \in Stamps
  /\ flag \in 0 .. MaxTime \cup {-1, -2}
  /\ nextFlush \in Nat /\ since \in 0 .. now
  /\ begun \subseteq Updates /\ durable \subseteq Updates
  /\ fate \in [Updates -> {"new", "hand", "done", "failed", "refused", "cut"}]
  /\ crashes \in 0 .. MaxCrashes

\* The flag file was never written; it was truncated but not written.
NoFlag == -1
EmptyFlag == -2

Init ==
  /\ InitTables
  /\ up = FALSE /\ crashes = 0
  /\ pc = [t \in Threads |-> "idle"] /\ job = [t \in Threads |-> NoUpdate]
  /\ offset = 0 /\ stored = 0
  /\ request = [r \in Requests |-> "waiting"]
  /\ told = [u \in Updates |-> "nothing"]
  /\ now = 0 /\ save = 0 /\ flag = NoFlag /\ nextFlush = 0 /\ since = 0
  /\ begun = {} /\ durable = {}
  /\ fate = [u \in Updates |-> "new"]

Goto(t, where) == pc' = [pc EXCEPT ![t] = where]
-----------------------------------------------------------------------------
(***************************************************************************)
(* Start and crash.                                                        *)
(***************************************************************************)
NextDueInSeconds(t) == (t \div Period + 1) * Period * 60

\* The first time after t at which flush_timer is due.
NextDue(t) == (t \div Period + 1) * Period

ReadStampUnchecked == {flag}

\* fgets leaves the buffer alone when the file is empty.
ReadStamp == IF flag = NoFlag THEN {0} ELSE IF flag = EmptyFlag THEN Stamps ELSE {flag}

FateAfterReload(u) ==
  IF \/ fate[u] = "hand"
     \/ fate[u] = "done" /\ ~AppliedIn(u, users', items', eliminated')
  THEN "cut" ELSE fate[u]

\* openDB, the gRPC server and init_framework; when one of them fails main
\* gives up and nothing has changed.
Start ==
  /\ ~up
  /\ Reload
  /\ up' = TRUE
  /\ Goto("persistent", "check")
  /\ offset' = stored
  /\ save' \in ReadStamp
  /\ nextFlush' = NextDue(now)
  /\ since' = now
  /\ fate' = [u \in Updates |-> FateAfterReload(u)]
  /\ UNCHANGED <<job, crashes, stored, network, now, flag, flushed>>

\* All threads stop, all connections are closed.  The Kafka client writes the
\* offset of the last message it handed out into the offset file every 100 ms
\* (auto.commit.interval.ms), whatever became of the message: the file may
\* hold any of the offsets since the start, up to that of the `consumed` ones.
Die(consumed) ==
  /\ crashes < MaxCrashes
  /\ crashes' = crashes + 1
  /\ up' = FALSE
  /\ pc' = [t \in Threads |-> "idle"]
  /\ job' = [t \in Threads |-> NoUpdate]
  /\ request' = [r \in Requests |->
                   IF request[r] = "waiting" THEN "waiting" ELSE "closed"]
  /\ begun' = {}
  /\ stored' \in stored .. consumed
  /\ UNCHANGED <<tables, told, timers, durable, fate>>

Crash == up /\ Die(offset) /\ UNCHANGED offset
-----------------------------------------------------------------------------
(***************************************************************************)
(* An update, whoever calls it: updateAction and its siblings.             *)
(***************************************************************************)
\* The glue reports Corruption and IOError, and takes any other failure for
\* success.
GlueCode(status) == IF status = "IO" THEN "failure" ELSE "OK"

GrpcCodeOfGlue(status) == IF status = "IO" THEN "failure" ELSE "CODE_OK"

\* The gRPC service has a code of its own for NotFound and reports the rest.
GrpcCode(status) == IF status = "OK" THEN "CODE_OK" ELSE "failure"

ToldAs(t, status) == IF t \in GrpcUpdates THEN GrpcCode(status) ELSE GlueCode(status)

\* Thread t takes up the update u.
TakeUp(t, u) ==
  /\ job' = [job EXCEPT ![t] = u]
  /\ Goto(t, IF InUsers(u) THEN "users" ELSE "items")
  /\ fate' = [fate EXCEPT ![u] = "hand"]

LetGo(t) ==
  IF t \in NetThreads
  THEN Goto(t, "send") /\ UNCHANGED job
  ELSE Goto(t, "idle") /\ job' = [job EXCEPT ![t] = NoUpdate]

Tell(t, status) ==
  told' = IF t = Kafka THEN told ELSE [told EXCEPT ![job[t]] = ToldAs(t, status)]

\* What the status makes of an update: "Other" refuses it.
Outcome(status) ==
  IF status = "OK" THEN "done" ELSE IF status = "IO" THEN "failed" ELSE "refused"

ReturnRetries(t, status) ==
  IF t = Kafka /\ status # "OK"
  THEN TakeUp(t, job[t]) /\ UNCHANGED told
  ELSE /\ fate' = [fate EXCEPT ![job[t]] = Outcome(status)]
       /\ Tell(t, status)
       /\ LetGo(t)

\* The call returns: thread_network answers, thread_kafka only prints.
Return(t, status) ==
  /\ fate' = [fate EXCEPT ![job[t]] = Outcome(status)]
  /\ Tell(t, status)
  /\ LetGo(t)

WriteUsersOnly(t) ==
  /\ pc[t] = "users"
  /\ \E status \in Statuses : UserTable(job[t], status) /\ Return(t, status)
  /\ UNCHANGED <<up, crashes, kafka, request, timers, flushed>>

WriteUsers(t) ==
  /\ pc[t] = "users"
  /\ \E status \in Statuses :
       /\ UserTable(job[t], status)
       /\ IF status = "OK" /\ InItems(job[t])
          THEN Goto(t, "items") /\ UNCHANGED <<job, fate, told>>
          ELSE Return(t, status)
  /\ UNCHANGED <<up, crashes, kafka, request, timers, flushed>>

WriteItems(t) ==
  /\ pc[t] = "items"
  /\ \E status \in Statuses : ItemTable(job[t], status) /\ Return(t, status)
  /\ UNCHANGED <<up, crashes, kafka, request, timers, flushed>>
-----------------------------------------------------------------------------
(***************************************************************************)
(* thread_kafka.                                                           *)
(***************************************************************************)
ConsumeOnlyUsable ==
  /\ up /\ pc[Kafka] = "idle" /\ offset < Len(Topic) /\ Usable(Topic[offset + 1])
  /\ offset' = offset + 1
  /\ TakeUp(Kafka, Topic[offset + 1].update)
  /\ UNCHANGED <<tables, up, crashes, stored, network, timers, flushed>>

Consume ==
  /\ up /\ pc[Kafka] = "idle" /\ offset < Len(Topic)
  /\ offset' = offset + 1
  /\ LET m == Topic[offset + 1]
     IN  \/ /\ Usable(m)
            /\ TakeUp(Kafka, m.update)
            /\ UNCHANGED <<tables, up, crashes, stored, network, timers, flushed>>
         \/ /\ Fatal(m)
            /\ Die(offset')
         \/ /\ ~Usable(m) /\ ~Fatal(m)
            /\ UNCHANGED <<tables, process, stored, network, timers, flushed, fate>>
-----------------------------------------------------------------------------
(***************************************************************************)
(* thread_network.                                                         *)
(***************************************************************************)
Open == {r \in Requests : request[r] \in {"open", "leaked"}}

\* recv_request closes the connection of a request it cannot receive;
\* thread_network forgets the connection of one it cannot parse.
RecvRequest(t, r) ==
  /\ up /\ t \in NetThreads /\ pc[t] = "idle"
  /\ request[r] = "waiting" /\ Cardinality(Open) < MaxFd
  /\ \/ /\ "broken" \in Class[r]
        /\ request' = [request EXCEPT ![r] = "closed"]
        /\ UNCHANGED <<pc, job, fate>>
     \/ /\ "garbage" \in Class[r]
        /\ request' = [request EXCEPT ![r] = "leaked"]
        /\ UNCHANGED <<pc, job, fate>>
     \/ /\ "update" \in Class[r] /\ fate[r] = "new"
        /\ request' = [request EXCEPT ![r] = "open"]
        /\ TakeUp(t, r)
     \/ /\ "other" \in Class[r]
        /\ request' = [request EXCEPT ![r] = "open"]
        /\ job' = [job EXCEPT ![t] = r]
        /\ Goto(t, "call")
        /\ UNCHANGED fate
  /\ UNCHANGED <<tables, up, crashes, kafka, told, timers, flushed>>

\* A request that changes no table: query_interface, which answers a query
\* from the tables and those of the algorithm with an error, or the error
\* code for a message that cannot be unpacked or is of no known type.
Interface(t) ==
  /\ pc[t] = "call"
  /\ Goto(t, "send")
  /\ UNCHANGED <<tables, up, job, crashes, kafka, network, timers, flushed, fate>>

\* The answer to an action carries the action, and may be longer than
\* md_message_size (or not be serialized): -1 is sent in its place.
MayNotFit(u) ==
  u \in Updates /\ Kind[u] \in {"click", "action"} /\ told[u] = "OK"

SendKeepsOpen(t) ==
  /\ t \in NetThreads /\ pc[t] = "send"
  /\ job' = [job EXCEPT ![t] = NoUpdate]
  /\ Goto(t, "idle")
  /\ UNCHANGED <<tables, up, crashes, kafka, network, timers, flushed, fate>>

\* send_request closes the connection whether or not the answer went out.
SendRequest(t) ==
  /\ t \in NetThreads /\ pc[t] = "send"
  /\ \/ UNCHANGED told
     \/ MayNotFit(job[t]) /\ told' = [told EXCEPT ![job[t]] = "-1"]
  /\ request' = [request EXCEPT ![job[t]] = "closed"]
  /\ job' = [job EXCEPT ![t] = NoUpdate]
  /\ Goto(t, "idle")
  /\ UNCHANGED <<tables, up, crashes, kafka, timers, flushed, fate>>
-----------------------------------------------------------------------------
(***************************************************************************)
(* The gRPC server: updateAction and deleteUserDislike, each in a thread   *)
(* of the server.                                                          *)
(***************************************************************************)
CallGrpc(u) ==
  /\ up /\ u \in GrpcUpdates /\ fate[u] = "new"
  /\ TakeUp(u, u)
  /\ UNCHANGED <<tables, up, crashes, kafka, network, timers, flushed>>
-----------------------------------------------------------------------------
(***************************************************************************)
(* thread_persistent.                                                      *)
(***************************************************************************)
\* now - save_time_stamp is computed in var_u8.
Elapsed(stamp) == (now - stamp) % StampMod

\* persistent_library returns 0 without a flush when none is due.
CheckTimers ==
  /\ pc["persistent"] = "check"
  /\ \/ /\ Elapsed(save) < Interval
        /\ Goto("persistent", "idle")
        /\ UNCHANGED <<begun, save, flag>>
     \/ /\ Elapsed(save) >= Interval /\ nextFlush < now
        /\ Goto("persistent", "eliminate")
        /\ begun' = {u \in Updates : Applied(u)}
        /\ UNCHANGED <<save, flag>>
     \/ /\ Elapsed(save) >= Interval /\ nextFlush >= now
        /\ Goto("persistent", "flag")
        /\ flag' = EmptyFlag
        /\ UNCHANGED <<begun, save>>
  /\ UNCHANGED <<tables, up, job, crashes, kafka, network, now, nextFlush, since,
                 durable, fate>>

CallEliminate ==
  /\ pc["persistent"] = "eliminate"
  /\ Eliminate
  /\ begun' = begun \ eliminated' /\ durable' = durable \ eliminated'
  /\ Goto("persistent", "flushUsers")
  /\ UNCHANGED <<up, job, crashes, kafka, network, timers, fate>>

CallFlushUsers ==
  /\ pc["persistent"] = "flushUsers"
  /\ FlushUsers
  /\ Goto("persistent", "flushItems")
  /\ UNCHANGED <<up, job, crashes, kafka, network, timers, flushed, fate>>

\* The second table is written: the flush is complete, and fopen has
\* truncated the flag file.
CallFlushItems ==
  /\ pc["persistent"] = "flushItems"
  /\ FlushItems
  /\ nextFlush' = NextDue(nextFlush)
  /\ since' = now
  /\ durable' = durable \cup begun
  /\ flag' = EmptyFlag
  /\ Goto("persistent", "flag")
  /\ UNCHANGED <<up, job, crashes, kafka, network, now, save, begun, fate>>

\* flushTable failed: LOG(FATAL).
FlushFails ==
  /\ pc["persistent"] \in {"flushUsers", "flushItems"}
  /\ Die(offset)
  /\ UNCHANGED offset

WriteFlag ==
  /\ pc["persistent"] = "flag"
  /\ flag' = now
  /\ save' = now
  /\ begun' = {}
  /\ Goto("persistent", "idle")
  /\ UNCHANGED <<tables, up, job, crashes, kafka, network, now, nextFlush, since,
                 durable, fate>>

\* cp_sleep(60000)
Tick ==
  /\ pc["persistent"] = "idle" /\ now < MaxTime
  /\ now' = now + 1
  /\ IF up THEN Goto("persistent", "check") ELSE UNCHANGED pc
  /\ UNCHANGED <<tables, up, job, crashes, kafka, network, save, flag, nextFlush,
                 since, flushed, fate>>
-----------------------------------------------------------------------------
WriteTables(t) == WriteUsers(t) \/ WriteItems(t)
KafkaThread == Consume \/ WriteTables(Kafka)
NetworkThread(t) ==
  \/ \E r \in Requests : RecvRequest(t, r)
  \/ Interface(t) \/ WriteTables(t) \/ SendRequest(t)
PersistentThread ==
  CheckTimers \/ CallEliminate \/ CallFlushUsers \/ CallFlushItems \/ WriteFlag

Next ==
  \/ Start \/ Crash \/ Tick
  \/ KafkaThread
  \/ \E t \in NetThreads : NetworkThread(t)
  \/ \E u \in GrpcUpdates : CallGrpc(u) \/ WriteTables(u)
  \/ PersistentThread \/ FlushFails

(***************************************************************************)
(* The network threads of a running process run on, their calls of the     *)
(* tables return.  No property needs more: nobody is obliged to restart a  *)
(* process that died, and no broker to deliver.                            *)
(***************************************************************************)
Fairness == \A t \in NetThreads : WF_vars(NetworkThread(t))

Spec == Init /\ [][Next]_vars /\ Fairness
-----------------------------------------------------------------------------
(***************************************************************************)
(* No message is passed over: each message before the offset was taken up  *)
(* or refused, and a call that succeeded is in every table its update      *)
(* belongs to (a click in both), until a crash cuts it off.  What is not   *)
(* applied has failed or was cut off.                                      *)
(***************************************************************************)
EveryUpdateIsAccounted ==
  /\ \A i \in 1 .. offset : Usable(Topic[i]) => fate[Topic[i].update] # "new"
  /\ up => \A u \in Updates : fate[u] = "done" => Applied(u)
  /\ up => \A u \in Updates : fate[u] = "hand" <=> \E t \in Threads : job[t] = u
                                                  /\ pc[t] \in {"users", "items"}

(***************************************************************************)
(* flush() writes two tables one after the other while updates go on.  An  *)
(* update that was applied when a flush began that was completed survives  *)
(* every crash, unless its user is eliminated.                             *)
(***************************************************************************)
FlushedIsSafe == up => \A u \in durable : Applied(u)

(***************************************************************************)
(* A message that failed is not tried again, and the offset is stored      *)
(* behind the tables' back: an update is applied once more than the        *)
(* process crashed at most, and one called over the network once.          *)
(***************************************************************************)
AppliedTwiceOnlyAfterCrash ==
  \A u \in Updates :
    LET most == IF u \in FromKafka THEN 1 + crashes ELSE 1
    IN  users[u] <= most /\ items[u] <= most

(***************************************************************************)
(* What a caller is told: CODE_OK of the gRPC service means that the       *)
(* update is in its tables (unless a crash cut it off); the glue's 0 means *)
(* it less, for it is also told of an update that a table refused with a   *)
(* status other than Corruption and IOError; a failure of either service   *)
(* means that the update is not applied as a whole.  The exception is -1   *)
(* in place of an answer that does not fit, which tells nothing.           *)
(***************************************************************************)
ToldTheTruth ==
  up => \A u \in Updates :
          /\ told[u] = "CODE_OK" => Applied(u) \/ fate[u] = "cut"
          /\ told[u] = "OK" => Applied(u) \/ fate[u] \in {"cut", "refused"}
          /\ told[u] = "failure" => ~Applied(u)

(***************************************************************************)
(* Two timers decide on a flush, the flag file with the interval and the   *)
(* chrono expression.  While the process is up the tables are never older  *)
(* than one period and one interval, whatever a crash left in the flag     *)
(* file and however late the process was started.                          *)
(***************************************************************************)
FlushIsDue ==
  up /\ pc["persistent"] = "idle" => now - since <= Period + Interval

(***************************************************************************)
(* A request waits for ever only when the process dies, or when requests   *)
(* that could not be parsed before it, whose connections are never closed, *)
(* have used up all descriptors; else its connection is served and closed. *)
(***************************************************************************)
RequestsAreServed ==
  up ~> \/ ~up
        \/ \A r \in Requests : request[r] \in {"closed", "leaked"}
        \/ Cardinality({q \in Requests : request[q] = "leaked"}) = MaxFd
=============================================================================
