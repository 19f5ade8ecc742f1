---------------------------- MODULE CenterQuery ----------------------------
(***************************************************************************)
(* The recommendation cache of CF_framework_center.h: how a query (type 4) *)
(* is answered from CF_framework_cache and how the cache is refilled.      *)
(*                                                                         *)
(* A thread_process thread serves process_query(task): under the user's    *)
(* flag it takes documents off the cached list, tells the candidate module *)
(* which documents were pushed, and may ask for a refill by pushing the    *)
(* user into m_flushCache.  A thread_flushcache thread serves              *)
(* process_query(uid, log): it asks the candidate module for a list and    *)
(* has it ranked (UC_CenterMessage), both without the flag, and then puts  *)
(* the list into the cache under the flag.  m_flags, a hash table whose    *)
(* add returns nonzero for a key it has, is a spin lock per user.          *)
(*                                                                         *)
(* CF_framework_cache::get is two steps, the lookup (pop_value) and the    *)
(* overwrite of the entry (add): the flag alone makes them one.  m_cache    *)
(* is a persistent table: add first appends the entry to cache.inc, and if *)
(* that fails returns -1 and leaves the table as it was.  Neither get nor  *)
(* the caller of put does anything about it.                               *)
(*                                                                         *)
(* m_flushCache is a bounded FIFO (see UT_Queue; UC_Queue_VL is the same   *)
(* algorithm for blocks of bytes).  The candidate module is external.      *)
(*                                                                         *)
(* The times of an entry are abstracted to what get compares them with:    *)
(* utm is zero or the user's last put, which may be overtime; stm is zero  *)
(* or the user's last refill request, which may be recent.  The list is a  *)
(* set: a query takes some of its documents.                               *)
(***************************************************************************)
EXTENDS Integers, Sequences, FiniteSets

CONSTANTS Users, Docs,
          OldUsers,     \* users the candidate module knows
          QueryThreads, \* the threads of thread_process
          FlushThreads, \* the threads of thread_flushcache
          FlushLen,     \* length of m_flushCache (100 in init_framework)
          FlushCount,   \* fw_cache_flushcount
          SaveCount,    \* fw_cache_savecount, the longest list put
          MaxReturn,    \* the most documents one query takes
          Capacity,     \* fw_cache_capacity, the most entries of the cache
          UninitFlush,  \* what get may return when it leaves is_flush unset
          MayFail,      \* whether the candidate module may be unreachable
          DiskFails,    \* whether cache.inc may be impossible to write
          MaxQueries,   \* bound: queries received in a behaviour
          NoUser

ASSUME CenterQueryAssumption ==
  /\ FlushLen \in Nat \ {0} /\ FlushCount \in Nat /\ MaxReturn \in Nat
  /\ SaveCount \in Nat /\ Capacity \in Nat /\ MaxQueries \in Nat
  /\ UninitFlush \subseteq Int /\ UninitFlush # {}
  /\ MayFail \in BOOLEAN /\ DiskFails \in BOOLEAN
  /\ QueryThreads \cap FlushThreads = {}
  /\ NoUser \notin Users /\ OldUsers \subseteq Users

VARIABLES cache,        \* m_cache: user -> list, utm and stm, or NoEntry
          overtime,     \* users whose last put is older than m_flush_time
          recent,       \* users whose last refill request is < 60 s old
          m_flags,      \* users whose flag is held
          m_flushCache, \* users waiting for a refill
          pc, uid,      \* where a thread is and the user it serves
          buf,          \* the entry get is about to write back
          lst,          \* ret_lst of a query, request_lst of a refill
          ret,          \* what get returned to a query
          unset,        \* queries whose get returned is_flush unassigned
          answer,       \* userflag and docid of a query's reply
          pushed,       \* documents the candidate module was told of
          filled,       \* history: the list last put for a user
          given,        \* history: how often that list's documents were taken
          unsaved,      \* history: overwrites of that list that failed
          unput,        \* history: users a put failed for, on cache.inc
          asked         \* queries received so far

stored == <<cache, overtime, recent>>
history == <<filled, given, unsaved, unput>>
local == <<uid, buf, lst, ret, unset, answer>>
vars == <<stored, m_flags, m_flushCache, pc, local, pushed, history, asked>>

Threads == QueryThreads \cup FlushThreads
Entry == [lst : SUBSET Docs, utm : BOOLEAN, stm : BOOLEAN]
Buffer == [lst : SUBSET Docs, utm : BOOLEAN, stm : BOOLEAN, now : BOOLEAN]
NoEntry == [lst |-> {}, utm |-> FALSE, stm |-> FALSE, none |-> TRUE]
NoAnswer == [userflag |-> 0, docs |-> {}]

TypeOK ==
  /\ cache \in [Users -> Entry \cup {NoEntry}]
  /\ overtime \subseteq Users /\ recent \subseteq Users /\ m_flags \subseteq Users
  /\ m_flushCache \in Seq(Users) /\ Len(m_flushCache) <= FlushLen
  /\ pc \in [Threads -> {"idle", "lock", "get", "write", "answer", "feedback",
                         "push", "unlock", "send", "query", "put"}]
  /\ uid \in [Threads -> Users \cup {NoUser}]
  /\ buf \in [QueryThreads -> Buffer]
  /\ lst \in [Threads -> SUBSET Docs]
  /\ ret \in [QueryThreads -> Int] /\ unset \subseteq QueryThreads
  /\ answer \in [QueryThreads -> [userflag : 0 .. 3, docs : SUBSET Docs]]
  /\ pushed \in [Users -> SUBSET Docs]
  /\ filled \in [Users -> SUBSET Docs]
  /\ given \in [Users -> [Docs -> Nat]]
  /\ unsaved \in [Users -> Nat] /\ unput \subseteq Users
  /\ asked \in 0 .. MaxQueries

\* `now` says that stm is the time of this get.
EmptyBuffer == [lst |-> {}, utm |-> FALSE, stm |-> FALSE, now |-> FALSE]

Init ==
  /\ cache = [u \in Users |-> NoEntry]
  /\ overtime = {} /\ recent = {} /\ m_flags = {} /\ m_flushCache = <<>>
  /\ pc = [t \in Threads |-> "idle"]
  /\ uid = [t \in Threads |-> NoUser]
  /\ buf = [t \in QueryThreads |-> EmptyBuffer]
  /\ lst = [t \in Threads |-> {}]
  /\ ret = [t \in QueryThreads |-> 0] /\ unset = {}
  /\ answer = [t \in QueryThreads |-> NoAnswer]
  /\ pushed = [u \in Users |-> {}]
  /\ filled = [u \in Users |-> {}]
  /\ given = [u \in Users |-> [d \in Docs |-> 0]]
  /\ unsaved = [u \in Users |-> 0] /\ unput = {}
  /\ asked = 0

Goto(t, where) == pc' = [pc EXCEPT ![t] = where]
Cached(u) == cache[u] # NoEntry
Fresh(u) == Cached(u) /\ cache[u].utm /\ u \notin overtime
-----------------------------------------------------------------------------
(***************************************************************************)
(* Time.  The last put becomes overtime, the last refill request old.      *)
(***************************************************************************)
Overtime(u) ==
  /\ Fresh(u)
  /\ overtime' = overtime \cup {u}
  /\ UNCHANGED <<cache, recent, m_flags, m_flushCache, pc, local, pushed, history, asked>>

RequestAges(u) ==
  /\ u \in recent
  /\ recent' = recent \ {u}
  /\ UNCHANGED <<cache, overtime, m_flags, m_flushCache, pc, local, pushed, history, asked>>
-----------------------------------------------------------------------------
(***************************************************************************)
(* m_flags.                                                                *)
(***************************************************************************)
AfterLock(t) == IF t \in QueryThreads THEN "get" ELSE "put"

AddFlagUnchecked(t) ==
  /\ pc[t] = "lock"
  /\ m_flags' = m_flags \cup {uid[t]}
  /\ Goto(t, AfterLock(t))
  /\ UNCHANGED <<stored, m_flushCache, local, pushed, history, asked>>

\* while(m_flags.add(uid)) cp_sleep(1);
AddFlag(t) ==
  /\ pc[t] = "lock"
  /\ uid[t] \notin m_flags
  /\ m_flags' = m_flags \cup {uid[t]}
  /\ Goto(t, AfterLock(t))
  /\ UNCHANGED <<stored, m_flushCache, local, pushed, history, asked>>

DelFlagOfQuery(t) ==
  /\ pc[t] = "unlock"
  /\ m_flags' = IF t \in QueryThreads THEN m_flags \ {uid[t]} ELSE m_flags
  /\ Goto(t, IF t \in QueryThreads THEN "send" ELSE "idle")
  /\ UNCHANGED <<stored, m_flushCache, local, pushed, history, asked>>

DelFlag(t) ==
  /\ pc[t] = "unlock"
  /\ m_flags' = m_flags \ {uid[t]}
  /\ IF t \in QueryThreads
     THEN Goto(t, "send") /\ UNCHANGED local
     ELSE /\ Goto(t, "idle")
          /\ uid' = [uid EXCEPT ![t] = NoUser]
          /\ lst' = [lst EXCEPT ![t] = {}]
          /\ UNCHANGED <<buf, ret, unset, answer>>
  /\ UNCHANGED <<stored, m_flushCache, pushed, history, asked>>
-----------------------------------------------------------------------------
(***************************************************************************)
(* thread_process and process_query(task).                                 *)
(***************************************************************************)
ReceiveQuery(t) ==
  /\ t \in QueryThreads /\ pc[t] = "idle"
  /\ asked < MaxQueries
  /\ asked' = asked + 1
  /\ \E u \in Users : uid' = [uid EXCEPT ![t] = u]
  /\ Goto(t, "lock")
  /\ UNCHANGED <<stored, m_flags, m_flushCache, buf, lst, ret, unset, answer, pushed, history>>

\* What get returns, and the entry it will write, when it took `took` of the
\* entry's documents.
GetFresh(t, took, r) ==
  LET u == uid[t]
      rest == cache[u].lst \ took
      low == Cardinality(rest) <= FlushCount
      throttled == cache[u].stm /\ u \in recent
      stamp == low /\ ~throttled
  IN  /\ r \in (IF ~low THEN {2} ELSE IF throttled THEN UninitFlush ELSE {1})
      /\ unset' = IF low /\ throttled THEN unset \cup {t} ELSE unset
      /\ buf' = [buf EXCEPT ![t] = [lst |-> rest, utm |-> TRUE,
                                    stm |-> cache[u].stm \/ stamp, now |-> stamp]]

GetOvertime(t, r) ==
  LET u == uid[t]
      throttled == cache[u].stm /\ u \in recent
  IN  /\ r = IF throttled THEN 4 ELSE 3
      /\ buf' = [buf EXCEPT ![t] = [lst |-> {}, utm |-> FALSE,
                                    stm |-> TRUE, now |-> ~throttled]]

Take(u, took) ==
  given' = [given EXCEPT ![u] = [d \in Docs |-> IF d \in took THEN @[d] + 1 ELSE @[d]]]

\* CF_framework_cache::get up to push_value.
GetCache(t) ==
  /\ t \in QueryThreads /\ pc[t] = "get"
  /\ \/ /\ ~Cached(uid[t])
        /\ ret' = [ret EXCEPT ![t] = -1]
        /\ Goto(t, "answer")
        /\ UNCHANGED <<buf, lst, unset, given>>
     \/ /\ Fresh(uid[t])
        /\ \E took \in SUBSET cache[uid[t]].lst, r \in UninitFlush \cup {1, 2} :
             /\ Cardinality(took) <= MaxReturn
             /\ GetFresh(t, took, r)
             /\ ret' = [ret EXCEPT ![t] = r]
             /\ lst' = [lst EXCEPT ![t] = took]
             /\ Take(uid[t], took)
        /\ Goto(t, "write")
     \/ /\ Cached(uid[t]) /\ ~Fresh(uid[t])
        /\ \E r \in {3, 4} : GetOvertime(t, r) /\ ret' = [ret EXCEPT ![t] = r]
        /\ Goto(t, "write")
        /\ UNCHANGED <<lst, unset, given>>
  /\ UNCHANGED <<stored, m_flags, m_flushCache, uid, answer, pushed, filled, unsaved, unput,
                 asked>>

Written(b) == [lst |-> b.lst, utm |-> b.utm, stm |-> b.stm]

WriteKeepsTaken(t) ==
  /\ pc[t] = "write"
  /\ cache' = [cache EXCEPT ![uid[t]].utm = buf[t].utm, ![uid[t]].stm = buf[t].stm]
  /\ recent' = IF buf[t].now THEN recent \cup {uid[t]} ELSE recent
  /\ Goto(t, "answer")
  /\ UNCHANGED <<overtime, m_flags, m_flushCache, local, pushed, history, asked>>

\* m_cache.add(uid, buffer, NULL, 1): the overwrite at the end of get.  Its
\* failure is printed, and get's result is the same.
WriteCache(t) ==
  /\ pc[t] = "write"
  /\ \/ /\ cache' = [cache EXCEPT ![uid[t]] = Written(buf[t])]
        /\ recent' = IF buf[t].now THEN recent \cup {uid[t]} ELSE recent
        /\ UNCHANGED unsaved
     \/ /\ DiskFails
        /\ unsaved' = [unsaved EXCEPT ![uid[t]] = @ + 1]
        /\ UNCHANGED <<cache, recent>>
  /\ Goto(t, "answer")
  /\ UNCHANGED <<overtime, m_flags, m_flushCache, local, pushed, filled, given, unput, asked>>

\* candidate_isNewUser: -1 when the module cannot be reached, which the caller
\* takes for a new user.
IsNewUser(u, new) == new = (u \notin OldUsers) \/ (MayFail /\ new)

AnswersUnlessFlushed(r, took, new) ==
  IF r = 2 THEN [userflag |-> 1, docs |-> took] ELSE [userflag |-> 3, docs |-> {}]

\* The reply's userflag and documents.  A value that get never assigned falls
\* through every branch and leaves the task's old reply.
Answers(r, took, new) ==
  IF r < 0 THEN [userflag |-> IF new THEN 2 ELSE 3, docs |-> {}]
  ELSE IF r \in {1, 2} THEN [userflag |-> 1, docs |-> took]
  ELSE IF r \in {3, 4} THEN [userflag |-> 3, docs |-> {}]
  ELSE NoAnswer

Answer(t) ==
  /\ pc[t] = "answer"
  /\ \E new \in BOOLEAN :
       /\ IsNewUser(uid[t], new)
       /\ answer' = [answer EXCEPT ![t] = Answers(ret[t], lst[t], new)]
  /\ Goto(t, "feedback")
  /\ UNCHANGED <<stored, m_flags, m_flushCache, uid, buf, lst, ret, unset, pushed, history, asked>>

FlushesKnown(r) == r \in {1, 3}

\* is_cache_flush
Flushes(r) == r < 0 \/ r \in {1, 3}

\* process_feedback is called when get took documents, and returns when the
\* candidate module has answered 0.
Feedback(t) ==
  /\ pc[t] = "feedback"
  /\ pushed' = [pushed EXCEPT ![uid[t]] = @ \cup lst[t]]
  /\ Goto(t, IF Flushes(ret[t]) THEN "push" ELSE "unlock")
  /\ UNCHANGED <<stored, m_flags, m_flushCache, local, history, asked>>

\* The call failed, before or after the module did its part; it is repeated
\* after two seconds.
FeedbackRetried(t) ==
  /\ MayFail /\ pc[t] = "feedback" /\ lst[t] # {}
  /\ pushed' = [pushed EXCEPT ![uid[t]] = @ \cup lst[t]]
  /\ UNCHANGED <<stored, m_flags, m_flushCache, pc, local, history, asked>>

PushFlushUnbounded(t) ==
  /\ pc[t] = "push"
  /\ m_flushCache' = Append(m_flushCache, uid[t])
  /\ Goto(t, "unlock")
  /\ UNCHANGED <<stored, m_flags, local, pushed, history, asked>>

\* m_flushCache.PushData(data), with the user's flag held.
PushFlush(t) ==
  /\ pc[t] = "push"
  /\ Len(m_flushCache) < FlushLen
  /\ m_flushCache' = Append(m_flushCache, uid[t])
  /\ Goto(t, "unlock")
  /\ UNCHANGED <<stored, m_flags, local, pushed, history, asked>>

\* thread_process sends the reply and closes the connection.
SendReply(t) ==
  /\ pc[t] = "send"
  /\ Goto(t, "idle")
  /\ uid' = [uid EXCEPT ![t] = NoUser]
  /\ lst' = [lst EXCEPT ![t] = {}]
  /\ buf' = [buf EXCEPT ![t] = EmptyBuffer]
  /\ ret' = [ret EXCEPT ![t] = 0] /\ unset' = unset \ {t}
  /\ answer' = [answer EXCEPT ![t] = NoAnswer]
  /\ UNCHANGED <<stored, m_flags, m_flushCache, pushed, history, asked>>
-----------------------------------------------------------------------------
(***************************************************************************)
(* thread_flushcache and process_query(uid, log).                          *)
(***************************************************************************)
PopFlush(t) ==
  /\ t \in FlushThreads /\ pc[t] = "idle"
  /\ m_flushCache # <<>>
  /\ uid' = [uid EXCEPT ![t] = Head(m_flushCache)]
  /\ m_flushCache' = Tail(m_flushCache)
  /\ Goto(t, "query")
  /\ UNCHANGED <<stored, m_flags, buf, lst, ret, unset, answer, pushed, history, asked>>

\* The candidate module lists documents it was not told of; the algorithm
\* modules rank them, and the best SaveCount are kept.
QueryCandidates(t) ==
  /\ t \in FlushThreads /\ pc[t] = "query"
  /\ \E found \in SUBSET (Docs \ pushed[uid[t]]) :
       /\ found # {} /\ Cardinality(found) <= SaveCount
       /\ lst' = [lst EXCEPT ![t] = found]
  /\ Goto(t, "lock")
  /\ UNCHANGED <<stored, m_flags, m_flushCache, uid, buf, ret, unset, answer, pushed, history, asked>>

\* No list: the candidate module failed or had nothing, or put_message or
\* get_message failed.  The refill is dropped.
QueryFails(t) ==
  /\ t \in FlushThreads /\ pc[t] = "query"
  /\ MayFail \/ Docs = pushed[uid[t]]
  /\ Goto(t, "idle")
  /\ uid' = [uid EXCEPT ![t] = NoUser]
  /\ UNCHANGED <<stored, m_flags, m_flushCache, buf, lst, ret, unset, answer, pushed, history, asked>>

\* A full cache refuses a new key; its entries can be overwritten.
HasRoom(u) == Cached(u) \/ Cardinality({v \in Users : Cached(v)}) < Capacity

\* CF_framework_cache::put.  add fails on a full table, or before it comes to
\* that on cache.inc; the caller ignores either.
PutCache(t) ==
  /\ t \in FlushThreads /\ pc[t] = "put"
  /\ \/ /\ HasRoom(uid[t])
        /\ cache' = [cache EXCEPT ![uid[t]] = [lst |-> lst[t], utm |-> TRUE, stm |-> FALSE]]
        /\ overtime' = overtime \ {uid[t]}
        /\ filled' = [filled EXCEPT ![uid[t]] = lst[t]]
        /\ given' = [given EXCEPT ![uid[t]] = [d \in Docs |-> 0]]
        /\ unsaved' = [unsaved EXCEPT ![uid[t]] = 0]
        /\ UNCHANGED unput
     \/ /\ ~HasRoom(uid[t])
        /\ UNCHANGED <<cache, overtime, history>>
     \/ /\ DiskFails
        /\ unput' = unput \cup {uid[t]}
        /\ UNCHANGED <<cache, overtime, filled, given, unsaved>>
  /\ Goto(t, "unlock")
  /\ UNCHANGED <<recent, m_flags, m_flushCache, local, pushed, asked>>
-----------------------------------------------------------------------------
ProcessQuery(t) ==
  \/ AddFlag(t) \/ GetCache(t) \/ WriteCache(t) \/ Answer(t) \/ Feedback(t)
  \/ PushFlush(t) \/ DelFlag(t) \/ SendReply(t)

FlushCache(t) ==
  \/ PopFlush(t) \/ QueryCandidates(t) \/ QueryFails(t)
  \/ AddFlag(t) \/ PutCache(t) \/ DelFlag(t)

Next ==
  \/ \E t \in QueryThreads : ReceiveQuery(t) \/ ProcessQuery(t) \/ FeedbackRetried(t)
  \/ \E t \in FlushThreads : FlushCache(t)
  \/ \E u \in Users : Overtime(u) \/ RequestAges(u)

(***************************************************************************)
(* A thread that is not blocked runs on, and a candidate module that is    *)
(* retried answers at last.  Queries and the passing of time are not fair. *)
(***************************************************************************)
Fairness ==
  /\ \A t \in QueryThreads : WF_vars(ProcessQuery(t))
  /\ \A t \in FlushThreads : WF_vars(FlushCache(t))

Spec == Init /\ [][Next]_vars /\ Fairness
-----------------------------------------------------------------------------
Holds(t) == pc[t] \in {"get", "write", "answer", "feedback", "push", "put", "unlock"}

(***************************************************************************)
(* m_flags works as a lock: whoever is between add and del of a user's     *)
(* flag is alone there, and no flag stays behind (assert(ret == 0)).       *)
(***************************************************************************)
FlagIsHeldOnce ==
  /\ m_flags = {uid[t] : t \in {s \in Threads : Holds(s)}}
  /\ \A s, t \in Threads : Holds(s) /\ Holds(t) /\ uid[s] = uid[t] => s = t

(***************************************************************************)
(* While the list of a put is good, no document is lost from it, whatever  *)
(* queries and refills of the user overlap and whatever fails: what no     *)
(* query has taken is still cached.  And none is handed out twice but by   *)
(* an overwrite that failed, which leaves the list as it was: a document   *)
(* is taken at most once more than that happened.                          *)
(***************************************************************************)
FillIsConserved ==
  \A u \in Users :
    LET left == {d \in filled[u] : given[u][d] = 0}
    IN  /\ \A d \in Docs : given[u][d] <= unsaved[u] + 1
        /\ Fresh(u) /\ u \notin m_flags =>
             /\ left \subseteq cache[u].lst /\ cache[u].lst \subseteq filled[u]
             /\ unsaved[u] = 0 => cache[u].lst = left

(***************************************************************************)
(* What process_query reports to the candidate module as recommended       *)
(* ("feedback recommend data") is what the client is sent.                 *)
(***************************************************************************)
Answered(t) == pc[t] \in {"feedback", "push", "unlock", "send"}

PushedIsSent == \A t \in QueryThreads : Answered(t) => answer[t].docs = lst[t]

(***************************************************************************)
(* The same but for the queries get gave an unassigned is_flush: whatever  *)
(* fails, no other way leads to a document that is reported as recommended *)
(* and not sent, or sent and not reported.                                 *)
(***************************************************************************)
PushedIsSentIfSet ==
  \A t \in QueryThreads : Answered(t) => t \in unset \/ answer[t].docs = lst[t]

(***************************************************************************)
(* A client is told it is a "real new user" (userflag 2) only when the     *)
(* candidate module does not know it.                                      *)
(***************************************************************************)
RealNewUser ==
  \A t \in QueryThreads : answer[t].userflag = 2 => uid[t] \notin OldUsers

(***************************************************************************)
(* m_flushCache is full and every refill thread waits for the flag of a    *)
(* query that waits for room in it.  Nothing ends this.                    *)
(***************************************************************************)
Stuck ==
  /\ Len(m_flushCache) = FlushLen
  /\ \A f \in FlushThreads :
       /\ pc[f] = "lock"
       /\ \E t \in QueryThreads : pc[t] = "push" /\ uid[t] = uid[f]

(***************************************************************************)
(* A query that waits, for the flag, for the candidate module or for room  *)
(* in m_flushCache, gets its reply, and only Stuck keeps it from one.      *)
(***************************************************************************)
EveryQueryIsAnswered == \A t \in QueryThreads : pc[t] = "lock" ~> pc[t] = "idle" \/ Stuck

(***************************************************************************)
(* "new user, flush cache": a user who was found to have no entry is taken *)
(* up by a refill thread, and a list that thread got is put.  EveryNewUser *)
(* is that without exception; in NewUserIsFilled the threads may be Stuck, *)
(* the cache full, or the put have failed on cache.inc.                    *)
(***************************************************************************)
RefillOf(f, u, where) == uid[f] = u /\ pc[f] = where

NoEntryFound(t, u) == pc[t] = "answer" /\ uid[t] = u /\ ret[t] = -1

EveryNewUser ==
  \A u \in Users : \A t \in QueryThreads :
    NoEntryFound(t, u) ~> Cached(u) \/ \E f \in FlushThreads : RefillOf(f, u, "query")

NewUserIsFilled ==
  \A u \in Users :
    /\ \A t \in QueryThreads :
         NoEntryFound(t, u)
           ~> Cached(u) \/ Stuck \/ \E f \in FlushThreads : RefillOf(f, u, "query")
    /\ \A f \in FlushThreads :
         RefillOf(f, u, "lock") ~> Cached(u) \/ Stuck \/ ~HasRoom(u) \/ u \in unput
=============================================================================
