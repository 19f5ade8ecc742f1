# Specifications of the primary-election recommender

TLA+ modules, TLC configurations and TLAPS proofs for the code in this
repository: the candidate database (`candb`, "初选集"), the framework that
serves it, and the center that answers recommendation queries from it.

## 1. The system

Two programs are described by the sources.

* **candb** (`src/main.cpp`) keeps items and users in two tables and answers
  candidate-set queries. It runs a gRPC server (`src/service`) and
  `CF_framework_module` (`src/framework`), which feeds it updates from Kafka and
  from sockets; both call one `CandidateDB` (`src/core`).
* **The center** (`CF_framework_center.h`) accepts JSON requests, answers
  recommendation queries (type 4) from a per-user cache, refills the cache by
  asking the candidate module for a list and the algorithm modules for its
  ranking, and forwards updates to both. It is a header: `main.cpp` includes
  it, but nothing in the repository instantiates it, and the binary protocol
  it speaks to the candidate module is not the protobuf protocol of
  `CF_framework_module`. The models take the center as it is written; the
  candidate module is external to them.

The Makefile builds with `-O2 -DNDEBUG` unless `debug=1` is given
(`-O0 -DDEBUG`). Assertions in the code therefore usually do nothing, and the
models treat what they say as properties.

### Components

| component | state | operations | model |
|---|---|---|---|
| `UT_Queue`, `UC_Queue_VL` | ring, indices, size, one mutex, one condition variable | PushData, PopData, the `_NB` calls | `UT_Queue`, `BoundedQueue` |
| `UC_CenterMessage` with `ICM_Query_Processor`, `ICM_Update_Processor` | two queues, nodes with counters, handles with reply buffers, two recycling allocators | put_message, get_message, thread_process | `UC_CenterMessage` |
| cache and refill: `CF_framework_cache`, `process_query` (both), `thread_flushcache` | user → list, two times; per-user flags; refill queue | query, refill | `CenterQuery` |
| feedback: `process_feedback`, `thread_feedback` | files `sync.save`, `sync.send`; the lock on them | record, report, move, remove, restart | `Feedback` |
| accepting and parsing: `thread_listen`, `parse_json` of the center, the loggers | task nodes, m_taskQueue, buffers of a node | accept, receive, parse, push, pop, answer | `RequestParser`, `CenterRequests` |
| update requests of the center | the history a processor was told | process_action, _document, _subscribe | `CenterRequests`, their scatter in `UC_CenterMessage` |
| `CandidateDB::queryCandidateSet` | item table, user table | query; addItem, updateFeedback, updateAction beside it | `CandidateSet` |
| `CandidateDB` life cycle and updates | the two tables, their files | openDB, reload, flush, all updates | `CandidateDB` |
| `CF_framework_module`, `ServiceGlue`, `ServiceGrpc`, main | Kafka offset, sockets, two timers, flag file | Kafka, network, gRPC and persistence threads; crash and restart | `ModuleThreads` |
| `CF_framework_jparse` | none | parse_json | `KafkaMessage` |
| `UT_HashTable_Pro`, `UC_Mem_Allocator_Recycle` | buckets, reference counts, free lists | add, del, pop_value; get_mem, put_mem | as used by the modules above |
| monitor ports, configuration | none that outlives a request | | not modelled |
| `ItemTable`, `UserTable` (libdb) | the tables | | external: the submodule is absent |
| zlib, other utilities under `deps/include/util`, generated protobuf code | | | not modelled |

### How they interact

```
 client ── thread_listen ──UT_Queue──> thread_process ── process_query(task)
                                            │    flag add ... flag del
                                            │    cache get, feedback, m_flushCache push
                                            ▼
                     UC_Queue_VL (100) ──> thread_flushcache ── process_query(uid,log)
                                            │    candidate_query (socket)
                                            │    put_message ─UT_Queue(20)─> 60 workers ─> algorithm modules
                                            │    get_message (polls refer_fin)
                                            │    flag add, cache put, flag del
 process_feedback ──> sync.save ──rename──> sync.send ──> thread_feedback ──> candidate module
 candidate module: gRPC / network / Kafka threads ──> CandidateDB ──> item table, user table
```

Shared state is guarded by four kinds of lock: the mutex of a queue, the lock
of a hash table (one call is atomic), the per-user flag `m_flags` (a hash table
whose `add` fails for a key it has, used as a spin lock), and `m_sync_lock`
around the sync files. `UC_CenterMessage` hands nodes from thread to thread by
the order of its steps alone.

### What is hard about it, and what makes each part correct

* **Queues.** One condition variable for two kinds of waiters, broadcast on one
  transition of the size. Correct when no thread sleeps on a condition that no
  longer holds and the ring is FIFO.
* **Scatter and gather.** Memory is recycled while many threads hold pointers
  into it. Correct when nobody reaches a released node or handle, each module
  is asked once per message, and a result contains replies to its own message.
* **Cache.** Lookup and overwrite are separate table calls; two kinds of thread
  work on one user; a full queue is waited for with a flag held. Correct when
  the flag is a lock, a list is neither lost nor handed out twice, what is
  reported as recommended is what was sent, and everybody gets on.
* **Feedback.** Crashes, lost answers, repeated sends, a file that is written
  from its start, in parts when a record is long. Correct when nothing that was
  recorded disappears before it was reported, and no mixture of two records is
  taken for one of them.
* **Requests.** Nodes go from a listener over a queue to a processor and are
  recycled with what is in them; an update goes to two kinds of module without
  anything that makes it atomic; offsets in the binary form are known to many
  places. Correct when a node has one owner, an answer is the answer to its
  client's request and its code means what it says, and nobody waits for ever.
* **The candb process.** Four kinds of threads on two tables that are written
  and flushed one after the other; a Kafka client that stores offsets on its
  own; timers and a flag file that a crash may leave empty. Correct when no
  update disappears unnoticed, what was flushed stays, nothing is applied more
  often than a crash explains, and tables are flushed on time.
* **Candidate set.** Several table calls per query, concurrent updates,
  ignored failures, signed and unsigned sizes. Correct when the limits hold and
  nothing is offered that was recommended to the user before.

`PROJECT.json` lists these hazards by source line with the properties aimed at
each, and the reason where there is none.

## 2. The modules

| module | role |
|---|---|
| `BoundedQueue` | what a bounded blocking queue promises (abstract) |
| `UT_Queue` | the ring with mutex and condition variable; refines `BoundedQueue` |
| `UT_Queue_proofs` | proofs about `UT_Queue` |
| `UC_CenterMessage` | scatter and gather over recycled nodes and handles |
| `UC_CenterMessage_proofs` | proofs about `UC_CenterMessage` |
| `CenterQuery` | queries, cache, flags, refills |
| `CenterQuery_proofs` | proofs about `CenterQuery` |
| `RequestParser` | JSON request to binary message: codes, room, layout |
| `CenterRequests`, `MCCenterRequests` | a request through the center; its instance for TLC. Extends `RequestParser` |
| `CenterRequests_proofs` | proofs about `CenterRequests` |
| `CandidateSet` | how a candidate set is put together |
| `CandidateSet_proofs` | proofs about `CandidateSet` |
| `Feedback`, `MCFeedback` | feedback, its recovery file and crashes; its instance for TLC |
| `Feedback_proofs` | proofs about `Feedback` |
| `KafkaMessage` | which Kafka messages are refused or fatal |
| `CandidateDB` | the two tables and their files, one operator per table call |
| `ModuleThreads`, `MCModuleThreads` | the threads of the candb process; its instance for TLC. Extends `CandidateDB` and `KafkaMessage` |
| `ModuleThreads_proofs` | proofs about `ModuleThreads` |

### UT_Queue

`m_tpQueue`, `m_lBegPos`, `m_lEndPos` and `m_lCurQueueSize` are the code's
fields; `pc` says whether a thread is outside, at the unlocked test of a
non-blocking call, at the mutex, or asleep on `m_cond`. A critical section is
one action: from the first test with the mutex held to the unlock, or to the
wait that releases the mutex. A broadcast moves every sleeper to the mutex,
where it repeats its test; spurious wakeups are allowed. Threads of both
interfaces share the ring. The non-blocking calls never broadcast; `unheard` is
a history variable with the sleepers whose wait such a call has ended without
telling them, so that the properties can say exactly who may sleep on. The
framework uses every queue with one kind of calls, and then it stays empty
(`NobodyIsPassedBy`). The other modules use queues as FIFO sequences with a
blocking push and pop, which is what the refinement justifies.

### UC_CenterMessage

A node is the record of `STREAM_NODE`'s fields; a handle is a reply slot per
module and a result buffer. Free nodes and handles are sets. Released buffers
turn to "old": this is what lets a property notice data of another message.
Each of `thread_process`'s accesses to a node is an action of its own (pop,
claim, ask, count, combine, signal). `node->locker` makes the count atomic.
`Senders` and `Receivers` use the interface without a reference, which the
framework never does (and which a debug build could not: the assertion of
get_message dereferences the missing reference). Replies are abstracted to
usable, none and old, so the weighting of powers in `combine_task` is left out.

### CenterQuery

One `pc` per thread walks through the two `process_query` functions. A
document list is a set; `get` takes some subset of at most `MaxReturn`
documents, since the code takes a random number. The two times of an entry are
what `get` compares them with: `utm` is zero or the last put, which may be
overtime; `stm` is zero or the last refill request, which may be less than 60 s
ago. `UninitFlush` is the set of values `is_flush` may have on the path that
does not assign it. With optimisation compilers use one of the values that are
assigned on other paths; the passing run takes 2 and 3, one that documents are sent
with and one that they are not, the run `query_uninit` takes all four. An unreachable candidate module (`MayFail`) fails queries and
repeats feedback. A full cache refuses new keys. `m_cache` is a persistent table:
`add` first appends the entry to `cache.inc`, and if that fails (`DiskFails`) returns
-1 and leaves the table alone (UT_HashTable_Pro.h:143). Both callers ignore it: after
`WriteCache` the old list stays, with the documents `get` has just handed out
(`unsaved` remembers such users), after `PutCache` the user has no new list (`unput`).
`unset` remembers the queries that were given an unassigned `is_flush`. The ranking of a list by the
algorithm modules is abstracted to the choice of the documents put.

### CandidateSet

A query walks through its table calls; updates of other threads come between
them. The item table's lists are sets, and "the first n" are any n of them.
`service_type` is fixed at the start. Failures of the calls whose status the
code checks end the query; the others are ignored, as in the code, and noted in
the history variable `was`. What was recommended to a user and what the user
clicked are two lists, as in the user table: `updateFeedback` adds to the first,
a click to the second. The filter removes what was recommended; whether it also
removes what was clicked is left open. The history of a reply is the clicks
(candidate_db_test.cpp:447-463 finds it empty after `updateFeedback`). Weights and
the layout of the reply are left out. Sizes are integers modulo `SizeMod` where the code compares a `size_t`.

### Feedback

`save` and `send` are the contents of the two files, as sequences of 32-bit words: user,
length, half-ids of the documents, flag. Two words per document are what the offset
of a client's list is about. `sync.save` is opened `rb+` and written from its start,
so a record lies over the one before (`Overwritten`), and what is left of a longer
one stays behind a shorter one. The C library writes `BufLen` words at a time and the
rest in `fclose`. Hence a short record, such as every query's (six documents at
most, 68 bytes), is written at once; of a longer one `WriteBuffer` leaves a part in
the file. `WriteFails` is the error path: the file gets the size it had when the lock
was taken and is written anew, with the lock held. `CloseFails` is an `fclose` that
could not write the rest: its result is ignored, the file keeps the full buffers.

`thread_feedback` reads a header and as many ids as it says (`Readable`, `ListOf`), with
a flag it does not look at: it may be told half of one record and half of another.
What follows a record begins in the middle of an older list, where half an id
stands in the place of the length; the model takes it to be no length, so
reading ends there. `Crash` stops all threads at any point, also between two parts of a
record, and has `cp_fix_file` cut both files behind their last flag (`FixFile`), which
may be the flag of the record below. (That function overlooks a flag that lies across
a multiple of 1 MB; files are far smaller.) `AnswerLost` is a call of
`candidate_feedback` that fails after the module did its part (or never reached it,
which changes nothing). A client's `returnnum` is taken to be the length of its list.

### RequestParser and CenterRequests

The parser of the center works through the members of a request in a fixed
order. The model turns a request into the list of its steps (write so many
bytes of this member; or give up with that code), and the first step that gives
up or does not fit decides. A request is its type and, per member, the lengths
of what it contains; `ParseJson` gives the code and where each piece begins,
which is what the readers with their fixed offsets are compared with (`Reads`). The
reader of type 6 finds the length of the list where it takes the list to begin:
`ReadersFindTheirFields` states what the code does there (`Found`), and
`feedback_client` what comes of it.

In `CenterRequests` a task node is a record of the client of its socket and the
request in its buffers; a recycled node keeps both until they are overwritten.
`history` is what a processor was told of the user's earlier actions; the
update block with history and action is sent at once. The candidate module
receives an update and applies it, or refuses it in an answer that nobody looks
at, or it is not reached or its answer is lost. Every such fault counts against
`MaxFaults`. Which requests the parser refuses is the constant `Refused`, tied to
`ParseJson` by an assumption, so that TLC evaluates the parser once and not in
every step. Codes are numbers; `Undefined` stands for the stack memory that
`process_subscribe` answers with when the module sends an empty answer. The
answer of a query, a heartbeat or a feedback is `Own`: what these do is in
`CenterQuery` and `Feedback`. Here a query (type 4) and a feedback (type 6) may
also wait, for the user's flag, for room in `m_flushCache` or for the candidate
module, and nothing says that the wait ends (`WaitEnds` has no fairness).

### KafkaMessage, CandidateDB and ModuleThreads

`KafkaMessage` follows `CF_framework_jparse`: the order of the tests decides the
code. The loop over `word` tests `node` where `node_two` is meant
(CF_framework_jparse.h:268). With a `doctype` or a category before it `node` is
set, and a word without `count` is a null dereference (`Dies`); without them every
word is refused with -206. Codes for null entries of an array cannot occur, since
cJSON numbers the entries itself.

`CandidateDB` counts how often each table, in memory and on disk, has applied an
update. After a restart a table holds, for every update on its own, what was in
memory or what was on disk: libdb keeps a log whose durability is not specified
here.

`ModuleThreads` has the Kafka thread, the network threads, the threads of the
gRPC server (one per update that is called), and the persistence thread. `Die`
stops everything and chooses the stored offset between the one of the start and
the last message that was handed out: the client stores it every 100 ms whatever
became of the message. `Start` reads the tables and the flag file; an empty flag
file leaves the buffer of `fgets` unassigned, so any stamp may be read. Stamps
are subtracted modulo `StampMod`, as `var_u8`. Time passes while the persistence
thread sleeps. A failing flush is `LOG(FATAL)`, a crash. `thread_train` is never
started, because `ServiceGlue` answers `is_update_train()` with 0. An answer of a
network thread that is larger than `md_message_size` is replaced by -1 when the update is
already done (`MayNotFit`; only updates that return the updated action can be that
large). That the flag
file cannot be opened is left out: nothing would be written then, and the next
start finds the older stamp. `fate`, `begun`, `durable` and `since` are histories.

## 3. The runs

All runs finish within three minutes on two workers.

| run | instance | shows |
|---|---|---|
| `queue` | 1 producer, 2 consumers, 1 non-blocking producer and consumer, 2 slots, 2 keys | type, no lost wakeup, refinement, and under fairness every key is popped and every blocked push is woken unless a non-blocking call passed by the sleepers |
| `center_message` | 2 callers, 1 sender, 1 receiver, 2 workers, 2 modules, 2 nodes and handles, 1 lost node | five invariants and that every poll ends |
| `query_failures` | 2 users, 2 documents, cache of 1, 2 query threads and a refill thread, queue of 1, 3 queries, unreachable module, cache file that cannot be written, `is_flush` unset | flag is a lock, conservation but for failed overwrites, reported = sent unless `is_flush` was unset, every query answered unless the threads block each other (`Stuck`), and a new user is then filled unless the cache is full or its file could not be written |
| `center_requests` | 3 clients (two actions of a user, one of which may be too long; a client with any other request), 2 listeners, 2 processors, 2 nodes, queue of 1, 1 module, 1 fault | node ownership, answers, meaning of code 0, algorithm modules behind the candidate module, complete histories, fixed offsets, every connection answered unless it or all processors wait in a query or feedback |
| `set_limits` | 1 user, 1 client, 2 normal items, 2 videos, 1 city and 1 province item, any initial tables, one of which can be clicked, 2 updates, failures, both service types | limits, nothing recommended again, province as a substitute |
| `feedback_crash` | 1 query, 3 clients (one with an empty list, two with records longer than the buffer), 2 threads, failing writes, 1 crash | no record in `sync.send` is lost or changed, a record is reported or another was written over it, only crashes lose |
| `module_threads` | 3 messages (refused, click, fatal), 1 network thread, 2 requests (one may be anything, one cannot be parsed), the first update through gRPC too, 1 descriptor, 3 minutes, 1 crash | accounting of updates, what was flushed stays, applied twice only after a crash, true answers, flush on time, connections served |

The bounds: two threads on the same state are enough for every race between two
steps (a refill thread races with two queries of its user), and two documents or
items for "some but not all". Two nodes for four putting threads make every
message reuse memory. Three
queries allow a query to meet an entry that two others changed, or two queries
and a refill to overlap with a third waiting. `MaxQueries`, `MaxUpdates`,
`MaxCrashes`, `MaxFaults`, `MaxTime` and `MaxLost` bound counters only; the models with a bounded input
(`CenterQuery`, `Feedback`, `CenterRequests`, `ModuleThreads`) really stop when it is used up, so deadlock is not
checked there, and the liveness properties take its place. Two task nodes and a queue of
one for two listeners and two processors run out of both. One fault and three
requests are enough for an update that reaches one kind of module only, followed
by another of the same user. `StampMod` is a little above the times of the run, so
that a stamp from an empty flag file may lie in the future; three minutes with an
interval and a period of one let a flush be due, be late, and be repeated after
the crash. The topic has one message of each fate. In `CandidateSet`,
`UT_Queue` and `UC_CenterMessage` deadlock is checked.

Exceptions that the properties name are reached in the runs, which fail without them:

* `RequestsAreServed`: with `MaxFd` connections forgotten after `ParseFromArray` failed
  (CF_framework_module.h:501) nothing is accepted any more; the run has a request that
  cannot be parsed before another, and one descriptor.
* `EveryQueryIsAnswered`, `NewUserIsFilled`: `Stuck`, the deadlock of the run
  `query_full`, with a queue of one and one refill thread.
* `EveryRequestIsAnswered`: a query and a feedback in the two processors.

Buffers of seven words hold the record of the query, and of the clients' the header
and a part of the list: the smallest with which a torn record mixes two lists.

### Disagreements with the code

Five runs show the code at odds with its own comments or configuration:

* `query_uninit`: `is_flush` (CF_framework_cache.h:68) is not assigned when few
  documents remain and the last request is less than 60 s old. For some values
  documents are taken, reported as recommended, and not sent. When it happens
  to be 1, as an optimising compiler may make it, the limit of one request per
  60 s has no effect instead.
* `query_full`: `PushData` blocks on a full refill queue with the user's flag
  held; refill threads wait for such flags. When every refill thread waits for
  the flag of a query that is blocked, nothing moves any more. The real queue
  holds 100 users; the run needs one slot and one refill thread.
* `query_unreachable`: the error value of `candidate_isNewUser` is taken for
  "real new user".
* `set_overfull`: videos and regional items beyond `max_candidate_set_size`
  make the normal total negative, which the comparison with `size_t` turns into
  "all of them".
* `feedback_client`: a client's list (type 6) is read from the word that holds
  its length.

Further differences seen while modelling, for which there is no run: the cache
compares `fw_cache_flushtime`, declared in minutes, with seconds
(CF_framework_config.h:61, CF_framework_cache.h:74); `sync.save` keeps only the
last record although `thread_feedback` reads as many as there are; after a
failing get_message the framework drops node and handle
(`NodesAccountedFor` names these nodes explicitly); the comment on the action log
announces a `publictime` (CF_framework_center.h:1480) where the click time is
written (1500); a callee's `NotFound` is code 0 through the glue and
`CODE_NOT_FOUND` through gRPC; `process_action` and `process_document` never look at
the candidate module's code, so an update it refuses is answered with the
algorithm modules' 0.

### Fairness

`UT_Queue`: consumers are `for(;;)` loops and a thread that has the mutex runs on
(weak fairness per thread); nobody must push, and no spurious wakeup is
promised. `UC_CenterMessage`: weak fairness of each worker and each getter
(sockets have a timeout, so a silent module does not hold a worker), and of
pushing as a whole; individual pushes compete for the mutex. `CenterQuery`:
weak fairness of each thread; feedback that is retried succeeds at last. Taking
the flag is a spin loop, and weak fairness of a spinning thread suffices for
the runs because queries are bounded; with an endless stream of queries of the
same user the code promises no fairness of the flag. `Feedback`: threads run on,
a write that is repeated succeeds and the candidate module answers at last.
`CenterRequests`: weak fairness of each listener and each processor, whose calls have a
timeout of five seconds, but for the waits of queries and feedback, which may
last for ever; a client sends one request and nobody has to. Two listeners that wait for a node
compete for it; with endlessly many clients one could starve, with finitely many
it cannot. `ModuleThreads`: weak fairness of each network
thread; nobody has to restart a process that died. Time, queries, failures and crashes
are not fair.

## 4. The proofs

Checked by TLAPS for every value of the constants that satisfies the `ASSUME`
of the module (finite instances play no role) and the hypotheses named here.
Every safety invariant and every action property that a passing run checks is
stated by a theorem. An inductive invariant is a conjunction of named parts; each was
checked by TLC on the instance of the component's run before it was proved. The
proof that a step keeps it has one lemma per action, and steps for the parts.

### The queues

* `UT_Queue_proofs!TypeCorrect` — `Spec => [](TypeOK /\ RingConsistent)`: the begin
  index, end index and size agree; `TypeOK` alone does not say which slots are in use.
* `UT_Queue_proofs!WakeupsAreNotLost` — `NoLostWakeup` for any mix of callers: a
  thread that sleeps although its wait is over was passed by a non-blocking call
  (it is in `unheard`). A push into a queue that is not empty wakes nobody, and
  needs to wake nobody, because a consumer asleep on a non-empty queue is
  already among the passed. `UT_Queue_proofs!NobodyIsPassedBy` adds that
  under `Unmixed` (no non-blocking call meets a blocking one of the other side),
  as in the framework, `unheard` stays empty.
* `UT_Queue_proofs!Refinement` — `Spec => ImplementsBoundedQueue`: initial
  states map to initial states and each critical section to one abstract step,
  with `TypeOK` and `RingConsistent` as the invariant. The lemmas are about the
  contents of a ring under storing at the end and fetching at the beginning.

### Scatter and gather

`UC_CenterMessage_proofs` rests on a count (`CountInv`): of a message to
`AllCount` modules there are always `AllCount` copies — pushes still to be made,
places in `mq_waiting`, workers that popped one, and slots claimed — and of the
claimed slots each is being asked or is counted in `fin_count`. When `fin_count`
reaches `AllCount` there is hence no copy outside, so exactly one worker
combines, and nobody touches the node once `refer_fin` is set or it is in
`mq_finished`. From this follow `ReleasedIsUnused` (`NoUseAfterRelease`),
`EverySlotIsSeen` (`CombineSeesEverySlot`), `ResultsOfThisMessage` (`ResultsAreOwn`)
and `NodesAreNotLeaked` (`NodesAccountedFor`). That claimed slots differ
(`SlotInv`) makes "asked once" out of "asked `AllCount` times"; `HolderInv` gives a
finished node to one thread. The counts are cardinalities of sets of places and
of workers, so the proof cites the library's facts about them.

### Queries and the cache

* `CenterQuery_proofs!FlagIsALock` — `Spec => []FlagIsHeldOnce`. The invariant
  adds that a thread that is not idle serves a user (`Busy`), without which
  giving back a flag could remove another thread's.
* `CenterQuery_proofs!ListsAreConserved` — `Spec => []FillIsConserved`. The
  property speaks only of users whose flag is free; the invariant also follows
  the list while it is in the buffer between the two halves of `get`
  (`BufferIsLeft`) and weakens the statement about the entry in that window
  (`EntryIsLeft`). After an overwrite that failed (`unsaved`) the list may hold what was
given before, until the next list is put. That a document is given at most once follows because only
  documents that are left can be taken. The step of one thread leaves the
  buffers of others valid because the flag keeps them off the user
  (`AloneUnderFlag`), so the theorem rests on the first one.
* `CenterQuery_proofs!TypeCorrect` — `Spec => []TypeOK`, from the typing parts of
  these two invariants and of what is left (`RestTyped`).
* `CenterQuery_proofs!ReportedIsSent` — `Spec => []PushedIsSentIfSet`, for any values
  of `UninitFlush`: only a query that was itself given the unassigned `is_flush`
  (`unset`) can report documents it did not send, whatever fails, the writes to the
  cache's file included. `query_uninit` shows that such queries do.

### Feedback

The invariant is about the words of the files. `Headed`: if a file begins with the header
of a user, the length after it is that user's, and if the user is a query's the
whole record follows. It holds because a query's record fits the buffer: it is
written at once or not at all, and whatever is written over it brings its own
header (`OverwrittenIsHeaded`). `SizeInv` says that the size a failing write goes back to
leaves such a record whole, `FixKeepsRecords` that `cp_fix_file` does: a whole record ends
in a flag, and the file is cut behind the last one.

* `SendIsReported` — `SendIsReportedBeforeItGoes`: no step of any thread, and no crash,
  removes, replaces or cuts a record in `sync.send` that was not reported as it was
  written. `SyncerInv` relates where `thread_feedback` is to what was reported;
  `ReadsRecords` says that a whole record is read as itself.
* `RecordsAreKept` and `FeedbackIsHeld` are the safety halves of the two temporal
  properties: a recorded feedback is whole in a file, reported, or was written over;
  before the first crash a feedback that was taken up is reported or in a
  thread's hands.
* `QueryReportsAreRight` — `QueriesReportedAsPushed`: whatever is reported of a query is
  its documents, although records lie over rests of longer ones and the halves of
  longer ones over them. Of clients' lists neither this (a mixture of two of them may
  be reported) nor even the offset is right (`feedback_client`).
* `TypeCorrect`.

### Requests of the center

`CenterRequests_proofs`. `NodesAreOwned` (`NodesHaveOneOwner`) counts; the invariant
behind it (`OwnerInv`) says without counting that places in `m_taskQueue` and
threads refer to different nodes, none of them free, and that every other node is
free. `ClientInv` adds that a client that waits has one node or one listener and no
answer yet: hence its answer is written once. `RequestInv`: a node that was pushed
holds its own client's request, and one that the parser accepted; a listener has
overwritten what was left in it. From these follow `RepliesAreOwn`
(`RepliesGoToTheirClient`) and `OnlyParsedIsProcessed`. `WorkInv` remembers what a
processor has done (the candidate module received the update before the algorithm
modules are asked; a code 0 that is not yet sent was earned), which gives
`ZeroIsEarned` (`CodeZeroMeansAll`) and `CandidateComesFirst`
(`AlgorithmsFollowCandidate`).

`HistoriesAreComplete` (`AnsweredActionIsInHistory`) is the one that relates
several requests. Its invariant (`HistoryInv`) carries the property from the moment
the history is asked for to the moment it is sent. What makes that sound is that the
set it speaks of cannot grow in between: who was answered when the request came in is
fixed, an answer never changes, and the candidate module only ever applies updates
of clients that were not answered (`CompleteStays`).

`FieldsAreFound` (`ReadersFindTheirFields`) has the hypothesis `LayoutMatches`: in
every request that the parser accepts the readers find their fields, or, for the list of
a client's feedback, the length that stands in its place. That
is a fact about `ParseJson` and the offsets alone, which no thread can change; it
takes an induction over the members to prove and is checked by TLC on the requests
of the run. The theorem is about the rest: that no processor ever gets a
node with a request that was refused or is not its own.

### The candb process

`ModuleThreads_proofs` proves, for any topic, requests, threads, interval, period
and number of crashes:

* `UpdatesAreAccounted` (`EveryUpdateIsAccounted`): an update is in the hands of one
  thread (`HandInv`), messages before the offset were taken up (`TopicInv`), and what
  is done is in its tables (`DoneInv`).
* `AppliedAtMostOncePerRun` (`AppliedTwiceOnlyAfterCrash`): `CountInv` bounds how
  often a table in memory and on disk has an update, and says that one which is still
  to be applied has room for it; after a crash the bound grows by one.
* `CallersAreToldTheTruth` (`ToldTheTruth`): `ToldInv` keeps for a failure which
  table does not have the update, on disk as well, so that a restart cannot bring it
  in. The -1 of an answer that did not fit is no such failure: the update was
  applied, and the property says nothing of who is told -1.
* `FlushedSurvives` (`FlushedIsSafe`): `FlushInv` follows a flush through its three
  steps, in memory and in the file of the table that was written.
* `FlushComesInTime` (`FlushIsDue`): `TimerInv` relates the stamp, the timer and the
  last flush. A stamp in the future counts as overdue because the difference
  is unsigned (`ElapsedIs`); the timer is due within a period (`NextDueWithin`).

The first attempt at `FlushedSurvives` failed for a reason: a topic update whose
user was eliminated after a finished flush could be read again after a crash, and
lost in the next one, while the histories `begun` and `durable` still listed it as
flushed. It takes two crashes, the run has one. The histories were wrong, not
the code: what is eliminated has left the tables, and `CallEliminate` now takes
it out of both.

### Candidate set

* `CandidateSet_proofs!TypeCorrect` — `Spec => []TypeOK`. It needs `Asking` (a
  query under way has a request): the history copied into the reply is a set
  of items only if the user is one.
* `CandidateSet_proofs!RecommendedIsNotOffered` and `!ProvinceOnlySubstitutes` —
  `NothingRecommendedAgain` and `ProvinceIsSubstitute`, under `KindsAreDisjoint` (an item
  has one type and one region). The inductive invariant `QueryInv` says for each
  list at which point of the query it is empty, unfiltered or free of what the
  user had been recommended when the query began. That it survives updates of other threads
  (`QueryInvStable`) rests on the tables only growing: a filter that runs late
  removes more, never less.
* `CandidateSet_proofs!LimitsAreKept` — `WithinLimits`, under `KindsAreDisjoint` and
  `LimitsFit` (`MaxVideo + MaxRegion <= MaxSet`; conf/candb.conf has 10, 10 and 5000).
  Then the int that is compared with a `size_t` is never negative and the
  conversion never enlarges it (`SizeTBounded`, `TotalNormalBounded`). The run
  `set_overfull` shows what happens without the hypothesis.

### Assumptions

The `ASSUME` of a module says what the code gives: a thread has one role (a worker
is started with one function; so the sets of threads are disjoint), a "no node" or
"no client" is none of them, lengths and periods are positive, `Modules` is finite (it
is `fw_calc_num`). `ModuleThreads` also assumes that the messages of the topic and
the requests are different updates: an update is an occurrence of a request, not
its content. `StampMod` is larger than any time that is reached. `Feedback` assumes that the record of
a query fits the stdio buffer.

### Only model-checked

All liveness properties: TLAPS has no rules for fairness that would reach them.
`LayoutMatches`, and what `ParseJson` computes: induction over data. The temporal
properties of `Feedback` beyond their safety halves.

## 5. Not modelled

* The monitor ports of both processes and `thread_watch`: they print counters and
  keep no state.
* The contents of the log files, which nobody reads back; of `parse_json` the
  layout and the room are modelled, not the text.
* Configuration: read once at start; its values are the constants.
* Weights, powers and their order: floating point.
* The tables of libdb (`item_table_`, `user_table_`): their source is a submodule that is
  not in the repository. What the code relies on is external in `CandidateSet` and
  `CandidateDB`. So is the lock that keeps a second process out.
* `thread_train`: never started, because `ServiceGlue` answers `is_update_train()` with 0.
* Lookups of the gRPC service and of the glue: they translate a status.
* Members of a Kafka message that have the wrong JSON type: `CF_framework_jparse` takes
  their strings, which are then NULL, without a test. `KafkaMessage` knows missing
  members and list lengths only.
* A client's feedback whose `returnnum` is not the length of its list, and ids of which
  a half looks like a length behind an overwritten record.
* A rename of `sync.save` that fails for ever, which `thread_feedback` repeats with
  `m_sync_lock` held.
* The inside of the hash table (buckets, reference counts, delayed release) and of
  the recycling allocator; both are modelled as the framework uses them.
* Generated code, vendored libraries, and the utilities nothing under src/src includes.

## 6. Plan

What is left, the most important first:

1. `Recommendation`: `CenterQuery` with `Feedback` and `CandidateSet` in place of
   the external candidate module; how often a document can be recommended.
2. An abstract specification of the scatter and gather (a message goes out, the replies
   of all modules come back, once) that `UC_CenterMessage` is proved to
   implement; `UpdateModules` of `CenterRequests` is that step already.
3. An abstract map with a lock per user, implemented by the cache and the flags of
   `CenterQuery`, by the two invariants that are proved.
4. `HashTable`: buckets, reference counts and delayed release of
   `UT_HashTable_Pro` with its lock per table; refines the map with capacity
   that `CenterQuery` assumes.
