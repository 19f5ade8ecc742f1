------------------------- MODULE CenterQuery_proofs -------------------------
(***************************************************************************)
(* Proofs about CenterQuery, for any number of users, threads, documents   *)
(* and queries: the per-user flag is a lock, and the lists in the cache    *)
(* are conserved under it.                                                 *)
(***************************************************************************)
EXTENDS CenterQuery, TLAPS

PCs == {"idle", "lock", "get", "write", "answer", "feedback",
        "push", "unlock", "send", "query", "put"}

\* The parts of TypeOK the proofs about the flag use.
Typed ==
  /\ pc \in [Threads -> PCs]
  /\ uid \in [Threads -> Users \cup {NoUser}]
  /\ m_flags \subseteq Users
  /\ m_flushCache \in Seq(Users)

\* A thread that is not idle serves a user.
Busy == \A t \in Threads : pc[t] # "idle" => uid[t] \in Users

FlagInv == Typed /\ Busy /\ FlagIsHeldOnce

LEMMA FlagInit == Init => FlagInv
  BY CenterQueryAssumption DEF Init, FlagInv, Typed, Busy, FlagIsHeldOnce, Holds, PCs

(***************************************************************************)
(* A step of thread t that keeps its user, the flags and everybody else    *)
(* where they are, and moves t between places that both hold the flag or   *)
(* both do not.                                                            *)
(***************************************************************************)
LEMMA Moves ==
  ASSUME FlagInv, NEW t \in Threads, NEW to \in PCs \ {"idle"},
         pc' = [pc EXCEPT ![t] = to], pc[t] # "idle",
         Holds(t) <=> Holds(t)',
         m_flags' = m_flags, uid' = uid, m_flushCache' \in Seq(Users)
  PROVE  FlagInv'
<1>1. \A s \in Threads : s # t => pc'[s] = pc[s]
  BY DEF FlagInv, Typed
<1>2. pc'[t] = to
  BY DEF FlagInv, Typed
<1>3. \A s \in Threads : Holds(s) <=> Holds(s)'
  BY <1>1 DEF Holds
<1>4. Typed'
  BY DEF FlagInv, Typed
<1>5. Busy'
  BY <1>1 DEF FlagInv, Busy
<1>6. FlagIsHeldOnce'
  <2>1. {uid[s] : s \in {r \in Threads : Holds(r)}}
          = {uid'[s] : s \in {r \in Threads : Holds(r)'}}
    BY <1>3
  <2> QED
    BY <1>3, <2>1 DEF FlagInv, FlagIsHeldOnce
<1> QED
  BY <1>4, <1>5, <1>6 DEF FlagInv

\* A step of thread t from one place without the flag to another, of which
\* one may be idle, with another user.
LEMMA Turns ==
  ASSUME FlagInv, NEW t \in Threads, NEW to \in PCs, NEW u \in Users \cup {NoUser},
         pc' = [pc EXCEPT ![t] = to], uid' = [uid EXCEPT ![t] = u],
         to = "idle" \/ u \in Users,
         ~Holds(t), to \in {"idle", "lock", "query"},
         m_flags' = m_flags, m_flushCache' \in Seq(Users)
  PROVE  FlagInv'
<1>1. \A s \in Threads : s # t => pc'[s] = pc[s] /\ uid'[s] = uid[s]
  BY DEF FlagInv, Typed
<1>2. pc'[t] = to /\ uid'[t] = u
  BY DEF FlagInv, Typed
<1>3. ~Holds(t)'
  BY <1>2 DEF Holds
<1>4. \A s \in Threads : s # t => (Holds(s) <=> Holds(s)')
  BY <1>1 DEF Holds
<1>5. Typed'
  BY DEF FlagInv, Typed
<1>6. Busy'
  BY <1>1, <1>2 DEF FlagInv, Busy
<1>7. {uid[s] : s \in {r \in Threads : Holds(r)}}
        = {uid'[s] : s \in {r \in Threads : Holds(r)'}}
  BY <1>1, <1>3, <1>4
<1>8. FlagIsHeldOnce'
  BY <1>1, <1>3, <1>4, <1>7 DEF FlagInv, FlagIsHeldOnce
<1> QED
  BY <1>5, <1>6, <1>8 DEF FlagInv

\* Taking the flag.
LEMMA Locks ==
  ASSUME FlagInv, NEW t \in Threads, AddFlag(t)
  PROVE  FlagInv'
<1> DEFINE to == AfterLock(t)
<1>1. /\ pc' = [pc EXCEPT ![t] = to] /\ uid' = uid
      /\ m_flags' = m_flags \cup {uid[t]} /\ uid[t] \notin m_flags
      /\ m_flushCache' = m_flushCache /\ pc[t] = "lock"
  BY DEF AddFlag, Goto, local
<1>2. to \in {"get", "put"}
  BY DEF AfterLock
<1>3. \A s \in Threads : s # t => pc'[s] = pc[s]
  BY <1>1 DEF FlagInv, Typed
<1>4. pc'[t] = to
  BY <1>1 DEF FlagInv, Typed
<1>5. ~Holds(t) /\ Holds(t)' /\ uid[t] \in Users
  BY <1>1, <1>2, <1>4 DEF Holds, FlagInv, Busy
<1>6. \A s \in Threads : s # t => (Holds(s) <=> Holds(s)')
  BY <1>3 DEF Holds
<1>7. Typed'
  BY <1>1, <1>2, <1>5 DEF FlagInv, Typed, PCs
<1>8. Busy'
  BY <1>1, <1>3, <1>5 DEF FlagInv, Busy
<1>9. m_flags' = {uid'[s] : s \in {r \in Threads : Holds(r)'}}
  BY <1>1, <1>5, <1>6 DEF FlagInv, FlagIsHeldOnce
<1>10. \A s \in Threads : Holds(s) => uid[s] # uid[t]
  BY <1>1 DEF FlagInv, FlagIsHeldOnce
<1>11. \A r, s \in Threads : Holds(r)' /\ Holds(s)' /\ uid'[r] = uid'[s] => r = s
  BY <1>1, <1>5, <1>6, <1>10 DEF FlagInv, FlagIsHeldOnce
<1> QED
  BY <1>7, <1>8, <1>9, <1>11 DEF FlagInv, FlagIsHeldOnce

\* Giving it back.
LEMMA Unlocks ==
  ASSUME FlagInv, NEW t \in Threads, DelFlag(t)
  PROVE  FlagInv'
<1>1. /\ pc[t] = "unlock" /\ m_flags' = m_flags \ {uid[t]}
      /\ m_flushCache' = m_flushCache
  BY DEF DelFlag
<1>2. \A s \in Threads : s # t => pc'[s] = pc[s] /\ uid'[s] = uid[s]
  BY DEF DelFlag, Goto, local, FlagInv, Typed
<1>3. /\ pc'[t] \in {"send", "idle"}
      /\ pc'[t] = "send" => uid'[t] = uid[t]
  BY DEF DelFlag, Goto, local, FlagInv, Typed
<1>4. Holds(t) /\ ~Holds(t)' /\ uid[t] \in Users
  BY <1>1, <1>3 DEF Holds, FlagInv, Busy
<1>5. \A s \in Threads : s # t => (Holds(s) <=> Holds(s)')
  BY <1>2 DEF Holds
<1>6. Typed'
  BY DEF DelFlag, Goto, local, FlagInv, Typed, PCs
<1>7. Busy'
  BY <1>2, <1>3, <1>4 DEF FlagInv, Busy
<1>8. \A s \in Threads : Holds(s) /\ s # t => uid[s] # uid[t]
  BY <1>4 DEF FlagInv, FlagIsHeldOnce
<1>9. m_flags' = {uid'[s] : s \in {r \in Threads : Holds(r)'}}
  BY <1>1, <1>2, <1>4, <1>5, <1>8 DEF FlagInv, FlagIsHeldOnce
<1>10. \A r, s \in Threads : Holds(r)' /\ Holds(s)' /\ uid'[r] = uid'[s] => r = s
  BY <1>2, <1>4, <1>5 DEF FlagInv, FlagIsHeldOnce
<1> QED
  BY <1>6, <1>7, <1>9, <1>10 DEF FlagInv, FlagIsHeldOnce

LEMMA FlagStep == FlagInv /\ [Next]_vars => FlagInv'
<1> SUFFICES ASSUME FlagInv, [Next]_vars PROVE FlagInv'
  OBVIOUS
<1>1. ASSUME NEW t \in QueryThreads, ReceiveQuery(t) PROVE FlagInv'
  <2>1. PICK u \in Users : uid' = [uid EXCEPT ![t] = u]
    BY <1>1 DEF ReceiveQuery
  <2>2. /\ pc[t] = "idle" /\ pc' = [pc EXCEPT ![t] = "lock"]
        /\ m_flags' = m_flags /\ m_flushCache' = m_flushCache
    BY <1>1 DEF ReceiveQuery, Goto
  <2>3. m_flushCache' \in Seq(Users)
    BY <2>2 DEF FlagInv, Typed
  <2> QED
    BY <2>1, <2>2, <2>3, Turns DEF Holds, Threads, PCs
<1>2. ASSUME NEW t \in QueryThreads, GetCache(t) PROVE FlagInv'
  <2>1. PICK to \in {"answer", "write"} : pc' = [pc EXCEPT ![t] = to]
    BY <1>2 DEF GetCache, Goto
  <2>2. pc[t] = "get" /\ m_flags' = m_flags /\ uid' = uid /\ m_flushCache' = m_flushCache
    BY <1>2 DEF GetCache
  <2>3. pc'[t] = to /\ m_flushCache' \in Seq(Users)
    BY <2>1, <2>2 DEF FlagInv, Typed, Threads
  <2> QED
    BY <2>1, <2>2, <2>3, Moves DEF Holds, Threads, PCs
<1>3. ASSUME NEW t \in QueryThreads, WriteCache(t) \/ Answer(t) \/ Feedback(t) PROVE FlagInv'
  <2>1. PICK to \in {"answer", "feedback", "push", "unlock"} : pc' = [pc EXCEPT ![t] = to]
    BY <1>3 DEF WriteCache, Answer, Feedback, Goto
  <2>2. /\ pc[t] \in {"write", "answer", "feedback"}
        /\ m_flags' = m_flags /\ uid' = uid /\ m_flushCache' = m_flushCache
    BY <1>3 DEF WriteCache, Answer, Feedback, local
  <2>3. pc'[t] = to /\ m_flushCache' \in Seq(Users)
    BY <2>1, <2>2 DEF FlagInv, Typed, Threads
  <2> QED
    BY <2>1, <2>2, <2>3, Moves DEF Holds, Threads, PCs
<1>4. ASSUME NEW t \in QueryThreads, PushFlush(t) PROVE FlagInv'
  <2>1. /\ pc[t] = "push" /\ pc' = [pc EXCEPT ![t] = "unlock"]
        /\ m_flags' = m_flags /\ uid' = uid
        /\ m_flushCache' = Append(m_flushCache, uid[t])
    BY <1>4 DEF PushFlush, Goto, local
  <2>2. uid[t] \in Users
    BY <2>1 DEF FlagInv, Busy, Threads
  <2>3. pc'[t] = "unlock" /\ m_flushCache' \in Seq(Users)
    BY <2>1, <2>2 DEF FlagInv, Typed, Threads
  <2> QED
    BY <2>1, <2>3, Moves DEF Holds, Threads, PCs
<1>5. ASSUME NEW t \in QueryThreads, SendReply(t) PROVE FlagInv'
  <2>1. /\ pc[t] = "send" /\ pc' = [pc EXCEPT ![t] = "idle"]
        /\ uid' = [uid EXCEPT ![t] = NoUser]
        /\ m_flags' = m_flags /\ m_flushCache' = m_flushCache
    BY <1>5 DEF SendReply, Goto
  <2>2. m_flushCache' \in Seq(Users)
    BY <2>1 DEF FlagInv, Typed
  <2> QED
    BY <2>1, <2>2, Turns DEF Holds, Threads, PCs
<1>6. ASSUME NEW t \in FlushThreads, PopFlush(t) PROVE FlagInv'
  <2>1. /\ pc[t] = "idle" /\ pc' = [pc EXCEPT ![t] = "query"]
        /\ uid' = [uid EXCEPT ![t] = Head(m_flushCache)]
        /\ m_flags' = m_flags /\ m_flushCache' = Tail(m_flushCache)
        /\ m_flushCache # <<>>
    BY <1>6 DEF PopFlush, Goto
  <2>2. Head(m_flushCache) \in Users /\ m_flushCache' \in Seq(Users)
    BY <2>1 DEF FlagInv, Typed
  <2> QED
    BY <2>1, <2>2, Turns DEF Holds, Threads, PCs
<1>7. ASSUME NEW t \in FlushThreads, QueryCandidates(t) PROVE FlagInv'
  <2>1. /\ pc[t] = "query" /\ pc' = [pc EXCEPT ![t] = "lock"]
        /\ m_flags' = m_flags /\ uid' = uid /\ m_flushCache' = m_flushCache
    BY <1>7 DEF QueryCandidates, Goto
  <2>2. pc'[t] = "lock" /\ m_flushCache' \in Seq(Users)
    BY <2>1 DEF FlagInv, Typed, Threads
  <2> QED
    BY <2>1, <2>2, Moves DEF Holds, Threads, PCs
<1>8. ASSUME NEW t \in FlushThreads, QueryFails(t) PROVE FlagInv'
  <2>1. /\ pc[t] = "query" /\ pc' = [pc EXCEPT ![t] = "idle"]
        /\ uid' = [uid EXCEPT ![t] = NoUser]
        /\ m_flags' = m_flags /\ m_flushCache' = m_flushCache
    BY <1>8 DEF QueryFails, Goto
  <2>2. m_flushCache' \in Seq(Users)
    BY <2>1 DEF FlagInv, Typed
  <2> QED
    BY <2>1, <2>2, Turns DEF Holds, Threads, PCs
<1>9. ASSUME NEW t \in FlushThreads, PutCache(t) PROVE FlagInv'
  <2>1. /\ pc[t] = "put" /\ pc' = [pc EXCEPT ![t] = "unlock"]
        /\ m_flags' = m_flags /\ uid' = uid /\ m_flushCache' = m_flushCache
    BY <1>9 DEF PutCache, Goto, local
  <2>2. pc'[t] = "unlock" /\ m_flushCache' \in Seq(Users)
    BY <2>1 DEF FlagInv, Typed, Threads
  <2> QED
    BY <2>1, <2>2, Moves DEF Holds, Threads, PCs
<1>10. ASSUME UNCHANGED <<pc, uid, m_flags, m_flushCache>> PROVE FlagInv'
  BY <1>10 DEF FlagInv, Typed, Busy, FlagIsHeldOnce, Holds
<1>11. \A t \in QueryThreads : FeedbackRetried(t) => FlagInv'
  BY <1>10 DEF FeedbackRetried, local
<1>12. \A u \in Users : Overtime(u) \/ RequestAges(u) => FlagInv'
  BY <1>10 DEF Overtime, RequestAges, local
<1>13. CASE UNCHANGED vars
  BY <1>10, <1>13 DEF vars, local
<1> QED
  BY <1>1, <1>2, <1>3, <1>4, <1>5, <1>6, <1>7, <1>8, <1>9, <1>11, <1>12, <1>13, Locks, Unlocks
     DEF Next, ProcessQuery, FlushCache, Threads

(***************************************************************************)
(* The flag of process_query is a lock: between m_flags.add and            *)
(* m_flags.del a thread is alone with its user, so the m_flags.del of      *)
(* every thread finds the key and assert(ret == 0) holds.                  *)
(***************************************************************************)
THEOREM FlagIsALock == Spec => []FlagIsHeldOnce
<1>1. FlagInv => FlagIsHeldOnce
  BY DEF FlagInv
<1> QED
  BY <1>1, FlagInit, FlagStep, PTL DEF Spec
-----------------------------------------------------------------------------
(***************************************************************************)
(* What is left of a user's last put is a matter of the entry while no     *)
(* query is between the two halves of get, and of that query's buffer      *)
(* while one is.  Entries whose utm is zero are out of it.                 *)
(***************************************************************************)
Left(u) == {d \in filled[u] : given[u][d] = 0}

Writes(t, u) == pc[t] = "write" /\ uid[t] = u

StoreTyped ==
  /\ cache \in [Users -> Entry \cup {NoEntry}]
  /\ buf \in [QueryThreads -> Buffer]
  /\ given \in [Users -> [Docs -> Nat]]
  /\ filled \in [Users -> SUBSET Docs]
  /\ lst \in [Threads -> SUBSET Docs]
  /\ unsaved \in [Users -> Nat] /\ unput \subseteq Users

\* What may hold the rest of u's list, `rest`: nothing untaken is missing,
\* and what is there was taken by overwrites that failed.
Keeps(rest, u) ==
  /\ Left(u) \subseteq rest /\ rest \subseteq filled[u]
  /\ \A d \in rest : given[u][d] <= unsaved[u]

GivenRarely == \A u \in Users : \A d \in Docs : given[u][d] <= unsaved[u] + 1

EntryKeeps ==
  \A u \in Users :
    cache[u].utm =>
      /\ Left(u) \subseteq cache[u].lst /\ cache[u].lst \subseteq filled[u]
      /\ (\A t \in QueryThreads : ~Writes(t, u)) => Keeps(cache[u].lst, u)

BufferKeeps ==
  \A t \in QueryThreads : pc[t] = "write" /\ buf[t].utm => Keeps(buf[t].lst, uid[t])

FillInv == StoreTyped /\ GivenRarely /\ EntryKeeps /\ BufferKeeps

LEMMA FillInit == Init => FillInv
<1> SUFFICES ASSUME Init PROVE FillInv
  OBVIOUS
<1>1. StoreTyped
  BY DEF Init, StoreTyped, Entry, Buffer, EmptyBuffer
<1>2. GivenRarely
  BY DEF Init, GivenRarely
<1>3. EntryKeeps
  BY DEF Init, EntryKeeps, NoEntry
<1>4. BufferKeeps
  BY DEF Init, BufferKeeps, Threads
<1> QED
  BY <1>1, <1>2, <1>3, <1>4 DEF FillInv

\* A step that leaves entries, buffers and history alone, and leads no query
\* into or out of "write".
LEMMA Elsewhere ==
  ASSUME FillInv, UNCHANGED <<cache, given, filled, unsaved>>, unput' \subseteq Users,
         buf' \in [QueryThreads -> Buffer],
         \A t \in QueryThreads :
           /\ pc'[t] = "write" <=> pc[t] = "write"
           /\ pc[t] = "write" => uid'[t] = uid[t] /\ buf'[t] = buf[t],
         lst' \in [Threads -> SUBSET Docs]
  PROVE  FillInv'
<1>1. StoreTyped'
  BY DEF FillInv, StoreTyped
<1>2. GivenRarely'
  BY DEF FillInv, GivenRarely
<1>3. \A u : Left(u)' = Left(u)
  BY DEF Left
<1>4. EntryKeeps'
  BY <1>3 DEF FillInv, EntryKeeps, Writes, Keeps
<1>5. BufferKeeps'
  BY <1>3 DEF FillInv, BufferKeeps, Keeps
<1> QED
  BY <1>1, <1>2, <1>4, <1>5 DEF FillInv

\* Under the flag no other query is at "write" for the user.
LEMMA AloneUnderFlag ==
  ASSUME FlagInv, NEW t \in Threads, Holds(t)
  PROVE  \A s \in QueryThreads : s # t => ~Writes(s, uid[t])
BY DEF FlagInv, FlagIsHeldOnce, Writes, Holds, Threads

LEMMA GetKeepsFill ==
  ASSUME FlagInv, FillInv, NEW t \in QueryThreads, GetCache(t)
  PROVE  FillInv'
<1> DEFINE u == uid[t]
<1>1. /\ pc[t] = "get" /\ u \in Users /\ t \in Threads /\ Holds(t)
      /\ cache' = cache /\ filled' = filled /\ uid' = uid /\ unsaved' = unsaved
      /\ unput' = unput
  BY DEF GetCache, FlagInv, Busy, Threads, Holds, stored
<1>2. \A s \in QueryThreads : ~Writes(s, u)
  BY <1>1, AloneUnderFlag DEF Writes
<1>3. CASE ~Cached(u) /\ pc' = [pc EXCEPT ![t] = "answer"] /\ UNCHANGED <<buf, lst, given>>
  <2>1. \A s \in QueryThreads : pc'[s] = "write" <=> pc[s] = "write"
    BY <1>1, <1>3 DEF FlagInv, Typed, Threads
  <2> QED
    BY <1>1, <1>3, <2>1, Elsewhere DEF FillInv, StoreTyped
<1>4. ASSUME Fresh(u), NEW took \in SUBSET cache[u].lst, NEW r,
             GetFresh(t, took, r), Take(u, took),
             lst' = [lst EXCEPT ![t] = took], pc' = [pc EXCEPT ![t] = "write"]
      PROVE  FillInv'
  <2>1. cache[u] \in Entry /\ cache[u].utm /\ Keeps(cache[u].lst, u)
    BY <1>1, <1>2, <1>4 DEF Fresh, Cached, FillInv, StoreTyped, EntryKeeps
  <2>2. took \subseteq Docs /\ cache[u].lst \subseteq Docs
    BY <2>1 DEF Entry
  <2>3. PICK b, n \in BOOLEAN :
          buf' = [buf EXCEPT ![t] = [lst |-> cache[u].lst \ took, utm |-> TRUE, stm |-> b, now |-> n]]
    <3>1. \A x, y \in BOOLEAN : (x \/ y) \in BOOLEAN /\ (x /\ y) \in BOOLEAN /\ (~x) \in BOOLEAN
      OBVIOUS
    <3>2. cache[u].stm \in BOOLEAN
      BY <2>1 DEF Entry
    <3> QED
      BY <1>4, <3>1, <3>2 DEF GetFresh
  <2>4. buf' \in [QueryThreads -> Buffer] /\ buf'[t].lst = cache[u].lst \ took
    BY <2>2, <2>3 DEF FillInv, StoreTyped, Buffer
  <2>5. /\ given' \in [Users -> [Docs -> Nat]]
        /\ \A d \in Docs : given'[u][d] = IF d \in took THEN given[u][d] + 1 ELSE given[u][d]
        /\ \A v \in Users : v # u => given'[v] = given[v]
    BY <1>1, <1>4 DEF Take, FillInv, StoreTyped
  <2>6. \A d \in took : given[u][d] <= unsaved[u]
    BY <2>1 DEF Keeps
  <2>7. filled[u] \subseteq Docs /\ unsaved[u] \in Nat /\ \A d \in Docs : given[u][d] \in Nat
    BY <1>1 DEF FillInv, StoreTyped
  <2>8. Left(u)' = Left(u) \ took
    <3>1. \A d \in Docs : given'[u][d] = 0 <=> given[u][d] = 0 /\ d \notin took
      BY <2>5, <2>7
    <3> QED
      BY <1>1, <2>7, <3>1 DEF Left
  <2>9. \A v \in Users : v # u => Left(v)' = Left(v)
    BY <1>1, <2>5 DEF Left
  <2>10. \A s \in QueryThreads : s # t => pc'[s] = pc[s] /\ buf'[s] = buf[s]
    BY <1>4, <2>3 DEF FlagInv, Typed, Threads, FillInv, StoreTyped
  <2>11. pc'[t] = "write"
    BY <1>1, <1>4 DEF FlagInv, Typed
  <2>12. StoreTyped'
    BY <1>1, <1>4, <2>2, <2>4, <2>5 DEF FillInv, StoreTyped
  <2>13. GivenRarely'
    <3>1. ASSUME NEW d \in Docs PROVE given'[u][d] <= unsaved[u] + 1
      BY <1>1, <2>5, <2>6, <2>7 DEF FillInv, GivenRarely
    <3>2. ASSUME NEW v \in Users, v # u, NEW d \in Docs PROVE given'[v][d] <= unsaved[v] + 1
      BY <2>5, <3>2 DEF FillInv, GivenRarely
    <3> QED
      BY <1>1, <3>1, <3>2 DEF GivenRarely
  <2>14. /\ Left(u)' \subseteq cache[u].lst \ took /\ cache[u].lst \ took \subseteq filled[u]
         /\ \A d \in cache[u].lst \ took : given'[u][d] <= unsaved[u]
    <3>1. Left(u)' \subseteq cache[u].lst \ took /\ cache[u].lst \ took \subseteq filled[u]
      BY <2>1, <2>8 DEF Keeps
    <3>2. \A d \in cache[u].lst \ took : given'[u][d] <= unsaved[u]
      BY <2>1, <2>2, <2>5 DEF Keeps
    <3> QED
      BY <3>1, <3>2
  <2>15. EntryKeeps'
    <3> SUFFICES ASSUME NEW v \in Users, cache[v].utm
                 PROVE  /\ Left(v)' \subseteq cache[v].lst /\ cache[v].lst \subseteq filled[v]
                        /\ (\A s \in QueryThreads : ~Writes(s, v)') =>
                             \A d \in cache[v].lst : given'[v][d] <= unsaved[v]
      BY <1>1 DEF EntryKeeps, Keeps
    <3>1. CASE v = u
      BY <1>1, <2>1, <2>8, <2>11, <3>1 DEF Keeps, Writes
    <3>2. CASE v # u
      <4>1. ASSUME \A s \in QueryThreads : ~Writes(s, v)'
            PROVE  \A s \in QueryThreads : ~Writes(s, v)
        BY <1>1, <2>10, <3>2, <4>1 DEF Writes
      <4>2. Left(v)' = Left(v) /\ given'[v] = given[v]
        BY <2>5, <2>9, <3>2
      <4> QED
        BY <4>1, <4>2 DEF FillInv, EntryKeeps, Keeps
    <3> QED
      BY <3>1, <3>2
  <2>16. BufferKeeps'
    <3> SUFFICES ASSUME NEW s \in QueryThreads, pc'[s] = "write", buf'[s].utm
                 PROVE  /\ Left(uid[s])' \subseteq buf'[s].lst
                        /\ buf'[s].lst \subseteq filled[uid[s]]
                        /\ \A d \in buf'[s].lst : given'[uid[s]][d] <= unsaved[uid[s]]
      BY <1>1 DEF BufferKeeps, Keeps
    <3>1. CASE s = t
      BY <2>4, <2>14, <3>1
    <3>2. CASE s # t
      <4>1. pc[s] = "write" /\ buf[s].utm /\ buf'[s] = buf[s]
        BY <2>10, <3>2
      <4>2. uid[s] # u /\ uid[s] \in Users
        BY <1>2, <4>1 DEF Writes, FlagInv, Busy, Threads
      <4>3. Keeps(buf[s].lst, uid[s])
        BY <4>1 DEF FillInv, BufferKeeps
      <4> QED
        BY <1>1, <2>5, <2>9, <4>1, <4>2, <4>3 DEF Keeps
    <3> QED
      BY <3>1, <3>2
  <2> QED
    BY <2>12, <2>13, <2>15, <2>16 DEF FillInv
<1>5. ASSUME Cached(u), NEW r, GetOvertime(t, r), pc' = [pc EXCEPT ![t] = "write"],
             UNCHANGED <<lst, given>>
      PROVE  FillInv'
  <2>1. cache[u] \in Entry
    BY <1>1, <1>5 DEF Cached, FillInv, StoreTyped
  <2>2. PICK n \in BOOLEAN :
          buf' = [buf EXCEPT ![t] = [lst |-> {}, utm |-> FALSE, stm |-> TRUE, now |-> n]]
    <3>1. \A x, y \in BOOLEAN : (x /\ y) \in BOOLEAN /\ (~x) \in BOOLEAN
      OBVIOUS
    <3>2. cache[u].stm \in BOOLEAN
      BY <2>1 DEF Entry
    <3> QED
      BY <1>5, <3>1, <3>2 DEF GetOvertime
  <2>3. buf' \in [QueryThreads -> Buffer] /\ ~buf'[t].utm
    BY <2>2 DEF FillInv, StoreTyped, Buffer
  <2>4. \A s \in QueryThreads : s # t => pc'[s] = pc[s] /\ buf'[s] = buf[s]
    BY <1>5, <2>2 DEF FlagInv, Typed, Threads, FillInv, StoreTyped
  <2>5. pc'[t] = "write"
    BY <1>1, <1>5 DEF FlagInv, Typed
  <2>6. \A v : Left(v)' = Left(v)
    BY <1>1, <1>5 DEF Left
  <2>7. StoreTyped' /\ GivenRarely'
    BY <1>1, <1>5, <2>3 DEF FillInv, StoreTyped, GivenRarely
  <2>8. \A v, l : Keeps(l, v)' <=> Keeps(l, v)
    BY <1>1, <1>5, <2>6 DEF Keeps
  <2>9. EntryKeeps'
    <3> SUFFICES ASSUME NEW v \in Users, cache[v].utm
                 PROVE  /\ Left(v) \subseteq cache[v].lst /\ cache[v].lst \subseteq filled[v]
                        /\ (\A s \in QueryThreads : ~Writes(s, v)') => Keeps(cache[v].lst, v)
      BY <1>1, <1>5, <2>6 DEF EntryKeeps, Keeps
    <3>1. (\A s \in QueryThreads : ~Writes(s, v)') => (\A s \in QueryThreads : ~Writes(s, v))
      BY <1>1, <1>2, <2>4, <2>5 DEF Writes
    <3> QED
      BY <3>1 DEF FillInv, EntryKeeps
  <2>10. BufferKeeps'
    BY <1>1, <1>5, <2>3, <2>4, <2>6 DEF FillInv, BufferKeeps, Keeps
  <2> QED
    BY <2>7, <2>9, <2>10 DEF FillInv
<1> QED
  BY <1>3, <1>4, <1>5 DEF GetCache, Goto

\* The overwrite, done or failed.
LEMMA WriteKeepsFill ==
  ASSUME FlagInv, FillInv, NEW t \in QueryThreads, WriteCache(t)
  PROVE  FillInv'
<1> DEFINE u == uid[t]
<1>1. /\ pc[t] = "write" /\ u \in Users /\ t \in Threads /\ Holds(t)
      /\ pc' = [pc EXCEPT ![t] = "answer"]
      /\ UNCHANGED <<uid, buf, lst, filled, given, unput>>
  BY DEF WriteCache, FlagInv, Busy, Threads, Holds, Goto, local
<1>2. \A s \in QueryThreads : s # t => ~Writes(s, u)
  BY <1>1, AloneUnderFlag
<1>3. \A s \in QueryThreads : s # t => pc'[s] = pc[s]
  BY <1>1 DEF FlagInv, Typed, Threads
<1>4. pc'[t] = "answer"
  BY <1>1 DEF FlagInv, Typed
<1>5. \A v : Left(v)' = Left(v)
  BY <1>1 DEF Left
<1>6. \A v \in Users : v # u =>
        ((\A s \in QueryThreads : ~Writes(s, v)') => (\A s \in QueryThreads : ~Writes(s, v)))
  BY <1>1, <1>3 DEF Writes
<1>7. CASE cache' = [cache EXCEPT ![u] = Written(buf[t])] /\ UNCHANGED unsaved
  <2>1. \A v, l : Keeps(l, v)' <=> Keeps(l, v)
    BY <1>1, <1>5, <1>7 DEF Keeps
  <2>2. /\ cache'[u] = Written(buf[t]) /\ cache'[u].utm = buf[t].utm /\ cache'[u].lst = buf[t].lst
        /\ cache'[u] \in Entry
        /\ \A v \in Users : v # u => cache'[v] = cache[v]
    BY <1>1, <1>7 DEF FillInv, StoreTyped, Written, Buffer, Entry
  <2>3. StoreTyped' /\ GivenRarely'
    BY <1>1, <1>7, <2>2 DEF FillInv, StoreTyped, GivenRarely
  <2>4. EntryKeeps'
    <3> SUFFICES ASSUME NEW v \in Users, cache'[v].utm
                 PROVE  /\ Left(v) \subseteq cache'[v].lst /\ cache'[v].lst \subseteq filled[v]
                        /\ (\A s \in QueryThreads : ~Writes(s, v)') => Keeps(cache'[v].lst, v)
      BY <1>1, <1>5, <1>7 DEF EntryKeeps, Keeps
    <3>1. CASE v = u
      BY <1>1, <2>2, <3>1 DEF FillInv, BufferKeeps, Keeps
    <3>2. CASE v # u
      BY <1>6, <2>2, <3>2 DEF FillInv, EntryKeeps
    <3> QED
      BY <3>1, <3>2
  <2>5. BufferKeeps'
    BY <1>1, <1>3, <1>4, <1>5, <1>7 DEF FillInv, BufferKeeps, Keeps
  <2> QED
    BY <2>3, <2>4, <2>5 DEF FillInv
<1>8. CASE unsaved' = [unsaved EXCEPT ![u] = @ + 1] /\ UNCHANGED cache
  <2>1. /\ unsaved' \in [Users -> Nat] /\ unsaved'[u] = unsaved[u] + 1
        /\ \A v \in Users : v # u => unsaved'[v] = unsaved[v]
        /\ unsaved[u] \in Nat /\ \A d \in Docs : given[u][d] \in Nat
    BY <1>1, <1>8 DEF FillInv, StoreTyped
  <2>2. StoreTyped'
    BY <1>1, <1>8, <2>1 DEF FillInv, StoreTyped
  <2>3. GivenRarely'
    <3> SUFFICES ASSUME NEW v \in Users, NEW d \in Docs PROVE given[v][d] <= unsaved'[v] + 1
      BY <1>1 DEF GivenRarely
    <3>1. given[v][d] <= unsaved[v] + 1
      BY DEF FillInv, GivenRarely
    <3> QED
      BY <2>1, <3>1
  <2>4. EntryKeeps'
    <3> SUFFICES ASSUME NEW v \in Users, cache[v].utm
                 PROVE  /\ Left(v) \subseteq cache[v].lst /\ cache[v].lst \subseteq filled[v]
                        /\ (\A s \in QueryThreads : ~Writes(s, v)') =>
                             \A d \in cache[v].lst : given[v][d] <= unsaved'[v]
      BY <1>1, <1>5, <1>8 DEF EntryKeeps, Keeps
    <3>1. Left(v) \subseteq cache[v].lst /\ cache[v].lst \subseteq filled[v]
      BY DEF FillInv, EntryKeeps
    <3>2. CASE v = u
      <4>1. cache[v].lst \subseteq Docs
        BY <1>1, <3>1, <3>2 DEF FillInv, StoreTyped
      <4>2. \A d \in Docs : given[u][d] <= unsaved[u] + 1
        BY <1>1 DEF FillInv, GivenRarely
      <4> QED
        BY <2>1, <3>1, <3>2, <4>1, <4>2
    <3>3. CASE v # u
      BY <1>6, <2>1, <3>1, <3>3 DEF FillInv, EntryKeeps, Keeps
    <3> QED
      BY <3>2, <3>3
  <2>5. BufferKeeps'
    <3> SUFFICES ASSUME NEW s \in QueryThreads, pc'[s] = "write", buf[s].utm
                 PROVE  /\ Left(uid[s]) \subseteq buf[s].lst /\ buf[s].lst \subseteq filled[uid[s]]
                        /\ \A d \in buf[s].lst : given[uid[s]][d] <= unsaved'[uid[s]]
      BY <1>1, <1>5 DEF BufferKeeps, Keeps
    <3>1. s # t /\ pc[s] = "write"
      BY <1>3, <1>4
    <3>2. uid[s] # u /\ uid[s] \in Users
      BY <1>2, <3>1 DEF Writes, FlagInv, Busy, Threads
    <3> QED
      BY <2>1, <3>1, <3>2 DEF FillInv, BufferKeeps, Keeps
  <2> QED
    BY <2>2, <2>3, <2>4, <2>5 DEF FillInv
<1> QED
  BY <1>7, <1>8 DEF WriteCache

LEMMA PutKeepsFill ==
  ASSUME FlagInv, FillInv, NEW t \in FlushThreads, PutCache(t)
  PROVE  FillInv'
<1> DEFINE u == uid[t]
<1>1. /\ pc[t] = "put" /\ u \in Users /\ t \in Threads /\ Holds(t)
      /\ pc' = [pc EXCEPT ![t] = "unlock"] /\ UNCHANGED <<uid, buf, lst>>
      /\ t \notin QueryThreads
  BY CenterQueryAssumption DEF PutCache, FlagInv, Busy, Threads, Holds, Goto, local
<1>2. \A s \in QueryThreads : pc'[s] = pc[s]
  BY <1>1 DEF FlagInv, Typed, Threads
<1>3. \A s \in QueryThreads : ~Writes(s, u)
  BY <1>1, AloneUnderFlag
<1>4. CASE UNCHANGED <<cache, given, filled, unsaved>> /\ unput' \subseteq Users
  BY <1>1, <1>2, <1>4, Elsewhere DEF FillInv, StoreTyped
<1>5. CASE /\ cache' = [cache EXCEPT ![u] = [lst |-> lst[t], utm |-> TRUE, stm |-> FALSE]]
           /\ filled' = [filled EXCEPT ![u] = lst[t]]
           /\ given' = [given EXCEPT ![u] = [d \in Docs |-> 0]]
           /\ unsaved' = [unsaved EXCEPT ![u] = 0]
           /\ UNCHANGED unput
  <2>1. lst[t] \subseteq Docs
    BY <1>1 DEF FillInv, StoreTyped
  <2>2. /\ cache'[u] = [lst |-> lst[t], utm |-> TRUE, stm |-> FALSE]
        /\ filled'[u] = lst[t] /\ given'[u] = [d \in Docs |-> 0] /\ unsaved'[u] = 0
    BY <1>1, <1>5 DEF FillInv, StoreTyped
  <2>3. \A v \in Users : v # u =>
          /\ cache'[v] = cache[v] /\ filled'[v] = filled[v] /\ given'[v] = given[v]
          /\ unsaved'[v] = unsaved[v]
    BY <1>5 DEF FillInv, StoreTyped
  <2>4. StoreTyped'
    BY <1>1, <1>5, <2>1 DEF FillInv, StoreTyped, Entry
  <2>5. GivenRarely'
    BY <2>2, <2>3 DEF FillInv, GivenRarely
  <2>6. Left(u)' = lst[t]
    BY <1>1, <2>1, <2>2 DEF Left
  <2>7. \A v \in Users : v # u => Left(v)' = Left(v)
    BY <2>3 DEF Left
  <2>8. EntryKeeps'
    <3> SUFFICES ASSUME NEW v \in Users, cache'[v].utm
                 PROVE  /\ Left(v)' \subseteq cache'[v].lst /\ cache'[v].lst \subseteq filled'[v]
                        /\ (\A s \in QueryThreads : ~Writes(s, v)) =>
                             \A d \in cache'[v].lst : given'[v][d] <= unsaved'[v]
      BY <1>1, <1>2 DEF EntryKeeps, Writes, Keeps
    <3>1. CASE v = u
      BY <1>1, <2>1, <2>2, <2>6, <3>1
    <3>2. CASE v # u
      BY <2>3, <2>7, <3>2 DEF FillInv, EntryKeeps, Keeps
    <3> QED
      BY <3>1, <3>2
  <2>9. BufferKeeps'
    <3> SUFFICES ASSUME NEW s \in QueryThreads, pc[s] = "write", buf[s].utm
                 PROVE  Keeps(buf[s].lst, uid[s])'
      BY <1>1, <1>2 DEF BufferKeeps, Keeps
    <3>1. uid[s] # u /\ uid[s] \in Users
      BY <1>3 DEF Writes, FlagInv, Busy, Threads
    <3> QED
      BY <1>1, <2>3, <2>7, <3>1 DEF FillInv, BufferKeeps, Keeps
  <2> QED
    BY <2>4, <2>5, <2>8, <2>9 DEF FillInv
<1>6. u \in Users /\ unput \subseteq Users
  BY <1>1 DEF FillInv, StoreTyped
<1> QED
  BY <1>4, <1>5, <1>6 DEF PutCache, history

LEMMA FillStep == FlagInv /\ FillInv /\ [Next]_vars => FillInv'
<1> SUFFICES ASSUME FlagInv, FillInv, [Next]_vars PROVE FillInv'
  OBVIOUS
<1>1. ASSUME NEW t \in Threads, NEW to \in PCs \ {"write"},
             pc' = [pc EXCEPT ![t] = to], pc[t] # "write",
             UNCHANGED <<cache, given, filled, unsaved, unput>>,
             \A s \in Threads : s # t => uid'[s] = uid[s],
             buf' \in [QueryThreads -> Buffer],
             \A s \in QueryThreads : s # t => buf'[s] = buf[s],
             lst' \in [Threads -> SUBSET Docs]
      PROVE  FillInv'
  <2>1. \A s \in QueryThreads : s # t => pc'[s] = pc[s]
    BY <1>1 DEF FlagInv, Typed, Threads
  <2>2. pc'[t] # "write" /\ unput' \subseteq Users
    BY <1>1 DEF FlagInv, Typed, FillInv, StoreTyped
  <2> QED
    BY <1>1, <2>1, <2>2, Elsewhere DEF Threads
<1>2. lst \in [Threads -> SUBSET Docs] /\ buf \in [QueryThreads -> Buffer]
  BY DEF FillInv, StoreTyped
<1>3. ASSUME NEW t \in QueryThreads, ReceiveQuery(t) PROVE FillInv'
  <2>1. /\ pc[t] = "idle" /\ pc' = [pc EXCEPT ![t] = "lock"]
        /\ UNCHANGED <<cache, given, filled, unsaved, unput, buf, lst>>
        /\ \A s \in Threads : s # t => uid'[s] = uid[s]
    BY <1>3 DEF ReceiveQuery, Goto, stored, history, FlagInv, Typed
  <2> QED
    BY <1>1, <1>2, <2>1 DEF Threads, PCs
<1>4. ASSUME NEW t \in Threads, AddFlag(t) PROVE FillInv'
  <2>1. /\ pc[t] = "lock" /\ pc' = [pc EXCEPT ![t] = AfterLock(t)]
        /\ UNCHANGED <<cache, given, filled, unsaved, unput, buf, lst, uid>>
    BY <1>4 DEF AddFlag, Goto, stored, history, local
  <2>2. AfterLock(t) \in PCs \ {"write"}
    BY DEF AfterLock, PCs
  <2> QED
    BY <1>1, <1>2, <2>1, <2>2
<1>5. ASSUME NEW t \in Threads, DelFlag(t) PROVE FillInv'
  <2>1. PICK to \in {"send", "idle"} : pc' = [pc EXCEPT ![t] = to]
    BY <1>5 DEF DelFlag, Goto
  <2>2. /\ pc[t] = "unlock"
        /\ UNCHANGED <<cache, given, filled, unsaved, unput, buf>>
        /\ \A s \in Threads : s # t => uid'[s] = uid[s]
        /\ lst' \in [Threads -> SUBSET Docs]
    BY <1>2, <1>5 DEF DelFlag, stored, history, local, FlagInv, Typed
  <2> QED
    BY <1>1, <1>2, <2>1, <2>2 DEF PCs
<1>6. ASSUME NEW t \in QueryThreads, Answer(t) \/ Feedback(t) \/ PushFlush(t) PROVE FillInv'
  <2>1. PICK to \in {"feedback", "push", "unlock"} : pc' = [pc EXCEPT ![t] = to]
    BY <1>6 DEF Answer, Feedback, PushFlush, Goto
  <2>2. /\ pc[t] \in {"answer", "feedback", "push"}
        /\ UNCHANGED <<cache, given, filled, unsaved, unput, buf, lst, uid>>
    BY <1>6 DEF Answer, Feedback, PushFlush, stored, history, local
  <2> QED
    BY <1>1, <1>2, <2>1, <2>2 DEF PCs, Threads
<1>7. ASSUME NEW t \in QueryThreads, SendReply(t) PROVE FillInv'
  <2>1. /\ pc[t] = "send" /\ pc' = [pc EXCEPT ![t] = "idle"]
        /\ UNCHANGED <<cache, given, filled, unsaved, unput>>
        /\ \A s \in Threads : s # t => uid'[s] = uid[s]
        /\ lst' = [lst EXCEPT ![t] = {}] /\ buf' = [buf EXCEPT ![t] = EmptyBuffer]
    BY <1>7 DEF SendReply, Goto, stored, history, FlagInv, Typed
  <2>2. EmptyBuffer \in Buffer
    BY DEF EmptyBuffer, Buffer
  <2>3. /\ buf' \in [QueryThreads -> Buffer] /\ lst' \in [Threads -> SUBSET Docs]
        /\ \A s \in QueryThreads : s # t => buf'[s] = buf[s]
    BY <1>2, <2>1, <2>2
  <2> QED
    BY <1>1, <2>1, <2>3 DEF PCs, Threads
<1>8. ASSUME NEW t \in FlushThreads, PopFlush(t) \/ QueryCandidates(t) \/ QueryFails(t)
      PROVE  FillInv'
  <2>1. PICK to \in {"query", "lock", "idle"} : pc' = [pc EXCEPT ![t] = to]
    BY <1>8 DEF PopFlush, QueryCandidates, QueryFails, Goto
  <2>2. /\ pc[t] \in {"idle", "query"}
        /\ UNCHANGED <<cache, given, filled, unsaved, unput, buf>>
        /\ \A s \in Threads : s # t => uid'[s] = uid[s]
    BY <1>8 DEF PopFlush, QueryCandidates, QueryFails, stored, history, FlagInv, Typed
  <2>3. lst' \in [Threads -> SUBSET Docs]
    BY <1>2, <1>8 DEF PopFlush, QueryCandidates, QueryFails
  <2> QED
    BY <1>1, <1>2, <2>1, <2>2, <2>3 DEF PCs, Threads
<1>9. ASSUME UNCHANGED <<cache, given, filled, unsaved, unput, buf, pc, uid, lst>> PROVE FillInv'
  BY <1>2, <1>9, Elsewhere DEF FillInv, StoreTyped
<1>10. \A t \in QueryThreads : FeedbackRetried(t) => FillInv'
  BY <1>9 DEF FeedbackRetried, local, stored, history
<1>11. \A u \in Users : Overtime(u) \/ RequestAges(u) => FillInv'
  BY <1>9 DEF Overtime, RequestAges, local, history
<1>12. CASE UNCHANGED vars
  BY <1>9, <1>12 DEF vars, local, stored, history
<1> QED
  BY <1>3, <1>4, <1>5, <1>6, <1>7, <1>8, <1>10, <1>11, <1>12,
     GetKeepsFill, WriteKeepsFill, PutKeepsFill
     DEF Next, ProcessQuery, FlushCache, Threads

(***************************************************************************)
(* CF_framework_cache loses no document of a list while the list is good,  *)
(* and hands none out again but for an overwrite that failed, however      *)
(* process_query of the query threads and of the refill threads            *)
(* interleave: get's lookup and overwrite are one step under the flag.     *)
(***************************************************************************)
THEOREM ListsAreConserved == Spec => []FillIsConserved
<1>1. FlagInv /\ FillInv => FillIsConserved
  <2> SUFFICES ASSUME FlagInv, FillInv, NEW u \in Users
               PROVE  /\ \A d \in Docs : given[u][d] <= unsaved[u] + 1
                      /\ Fresh(u) /\ u \notin m_flags =>
                           /\ Left(u) \subseteq cache[u].lst /\ cache[u].lst \subseteq filled[u]
                           /\ unsaved[u] = 0 => cache[u].lst = Left(u)
    BY DEF FillIsConserved, Left
  <2>1. \A d \in Docs : given[u][d] <= unsaved[u] + 1
    BY DEF FillInv, GivenRarely
  <2>2. ASSUME Fresh(u), u \notin m_flags PROVE Keeps(cache[u].lst, u)
    <3>1. \A t \in QueryThreads : ~Writes(t, u)
      BY <2>2 DEF Writes, Holds, FlagInv, FlagIsHeldOnce, Threads
    <3> QED
      BY <2>2, <3>1 DEF Fresh, FillInv, EntryKeeps
  <2>3. ASSUME Keeps(cache[u].lst, u), unsaved[u] = 0 PROVE cache[u].lst = Left(u)
    <3>1. \A d \in cache[u].lst : d \in filled[u] /\ given[u][d] = 0
      BY <2>3 DEF Keeps, FillInv, StoreTyped
    <3> QED
      BY <2>3, <3>1 DEF Keeps, Left
  <2> QED
    BY <2>1, <2>2, <2>3 DEF Keeps
<1> QED
  BY <1>1, FlagInit, FlagStep, FillInit, FillStep, PTL DEF Spec
-----------------------------------------------------------------------------
\* The parts of TypeOK the proofs above had no use for.
RestTyped ==
  /\ overtime \subseteq Users /\ recent \subseteq Users
  /\ Len(m_flushCache) <= FlushLen
  /\ ret \in [QueryThreads -> Int] /\ unset \subseteq QueryThreads
  /\ answer \in [QueryThreads -> [userflag : 0 .. 3, docs : SUBSET Docs]]
  /\ pushed \in [Users -> SUBSET Docs]
  /\ asked \in 0 .. MaxQueries

LEMMA RestInit == Init => RestTyped
<1> SUFFICES ASSUME Init PROVE RestTyped
  OBVIOUS
<1>1. NoAnswer \in [userflag : 0 .. 3, docs : SUBSET Docs]
  BY DEF NoAnswer
<1> QED
  BY <1>1, CenterQueryAssumption DEF Init, RestTyped

\* Whatever get returned, the reply has one of the four user flags.
LEMMA AnswersTyped ==
  ASSUME NEW r \in Int, NEW l \in SUBSET Docs, NEW new \in BOOLEAN
  PROVE  Answers(r, l, new) \in [userflag : 0 .. 3, docs : SUBSET Docs]
BY DEF Answers, NoAnswer

LEMMA RestStep == FlagInv /\ FillInv /\ RestTyped /\ [Next]_vars => RestTyped'
<1> SUFFICES ASSUME FlagInv, FillInv, RestTyped, [Next]_vars PROVE RestTyped'
  OBVIOUS
<1>1. ASSUME NEW t \in QueryThreads, ReceiveQuery(t) PROVE RestTyped'
  <2>1. asked' = asked + 1 /\ asked < MaxQueries
        /\ UNCHANGED <<overtime, recent, m_flushCache, ret, unset, answer, pushed>>
    BY <1>1 DEF ReceiveQuery, stored
  <2>2. asked' \in 0 .. MaxQueries
    BY <2>1, CenterQueryAssumption DEF RestTyped
  <2> QED
    BY <2>1, <2>2 DEF RestTyped
<1>2. ASSUME NEW t \in Threads, AddFlag(t) \/ DelFlag(t) PROVE RestTyped'
  BY <1>2 DEF AddFlag, DelFlag, stored, local, RestTyped
<1>3. ASSUME NEW t \in QueryThreads, GetCache(t) PROVE RestTyped'
  <2>1. pc[t] = "get" /\ uid[t] \in Users
    BY <1>3 DEF GetCache, FlagInv, Busy, Threads
  <2>2. PICK r \in Int : ret' = [ret EXCEPT ![t] = r]
    BY <1>3, CenterQueryAssumption DEF GetCache
  <2>3. unset' \subseteq QueryThreads
    BY <1>3 DEF GetCache, GetFresh, RestTyped
  <2>4. UNCHANGED <<overtime, recent, m_flushCache, answer, pushed, asked>>
    BY <1>3 DEF GetCache, stored
  <2> QED
    BY <2>2, <2>3, <2>4 DEF RestTyped
<1>4. ASSUME NEW t \in QueryThreads, WriteCache(t) PROVE RestTyped'
  <2>1. pc[t] = "write" /\ uid[t] \in Users
    BY <1>4 DEF WriteCache, FlagInv, Busy, Threads
  <2> QED
    BY <1>4, <2>1 DEF WriteCache, local, RestTyped
<1>5. ASSUME NEW t \in QueryThreads, Answer(t) PROVE RestTyped'
  <2>1. PICK new \in BOOLEAN : answer' = [answer EXCEPT ![t] = Answers(ret[t], lst[t], new)]
    BY <1>5 DEF Answer
  <2>2. Answers(ret[t], lst[t], new) \in [userflag : 0 .. 3, docs : SUBSET Docs]
    BY AnswersTyped DEF RestTyped, FillInv, StoreTyped, Threads
  <2>3. UNCHANGED <<overtime, recent, m_flushCache, ret, unset, pushed, asked>>
    BY <1>5 DEF Answer, stored
  <2> QED
    BY <2>1, <2>2, <2>3 DEF RestTyped
<1>6. ASSUME NEW t \in QueryThreads, Feedback(t) \/ FeedbackRetried(t) PROVE RestTyped'
  <2>1. pushed' = [pushed EXCEPT ![uid[t]] = @ \cup lst[t]]
        /\ UNCHANGED <<overtime, recent, m_flushCache, ret, unset, answer, asked>>
    BY <1>6 DEF Feedback, FeedbackRetried, stored, local
  <2>2. lst[t] \subseteq Docs
    BY DEF FillInv, StoreTyped, Threads
  <2> QED
    BY <2>1, <2>2 DEF RestTyped
<1>7. ASSUME NEW t \in QueryThreads, PushFlush(t) PROVE RestTyped'
  <2>1. /\ Len(m_flushCache) < FlushLen
        /\ m_flushCache' = Append(m_flushCache, uid[t])
        /\ UNCHANGED <<overtime, recent, ret, unset, answer, pushed, asked>>
        /\ pc[t] = "push"
    BY <1>7 DEF PushFlush, stored, local
  <2>2. uid[t] \in Users /\ m_flushCache \in Seq(Users)
    BY <2>1 DEF FlagInv, Busy, Typed, Threads
  <2>3. Len(m_flushCache') <= FlushLen
    BY <2>1, <2>2, CenterQueryAssumption
  <2> QED
    BY <2>1, <2>3 DEF RestTyped
<1>8. ASSUME NEW t \in QueryThreads, SendReply(t) PROVE RestTyped'
  <2>1. NoAnswer \in [userflag : 0 .. 3, docs : SUBSET Docs]
    BY DEF NoAnswer
  <2> QED
    BY <1>8, <2>1 DEF SendReply, stored, RestTyped
<1>9. ASSUME NEW t \in FlushThreads, PopFlush(t) PROVE RestTyped'
  <2>1. m_flushCache' = Tail(m_flushCache) /\ m_flushCache # <<>>
        /\ UNCHANGED <<overtime, recent, ret, unset, answer, pushed, asked>>
    BY <1>9 DEF PopFlush, stored
  <2>2. Len(m_flushCache') <= FlushLen
    BY <2>1, CenterQueryAssumption DEF FlagInv, Typed, RestTyped
  <2> QED
    BY <2>1, <2>2 DEF RestTyped
<1>10. ASSUME NEW t \in FlushThreads, QueryCandidates(t) \/ QueryFails(t) PROVE RestTyped'
  BY <1>10 DEF QueryCandidates, QueryFails, stored, RestTyped
<1>11. ASSUME NEW t \in FlushThreads, PutCache(t) PROVE RestTyped'
  BY <1>11 DEF PutCache, local, RestTyped
<1>12. ASSUME NEW u \in Users, Overtime(u) \/ RequestAges(u) PROVE RestTyped'
  BY <1>12 DEF Overtime, RequestAges, local, RestTyped
<1>13. CASE UNCHANGED vars
  BY <1>13 DEF vars, stored, local, RestTyped
<1> QED
  BY <1>1, <1>2, <1>3, <1>4, <1>5, <1>6, <1>7, <1>8, <1>9, <1>10, <1>11, <1>12, <1>13
     DEF Next, ProcessQuery, FlushCache, Threads

(***************************************************************************)
(* Every action of the cache, of process_query and of its refill keeps the *)
(* state well typed: no entry or list names a document or user there is    *)
(* not, and m_flushCache never exceeds its length.                         *)
(***************************************************************************)
THEOREM TypeCorrect == Spec => []TypeOK
<1>1. FlagInv /\ FillInv /\ RestTyped => TypeOK
  BY DEF FlagInv, Typed, FillInv, StoreTyped, RestTyped, TypeOK, PCs
<1> QED
  BY <1>1, FlagInit, FlagStep, FillInit, FillStep, RestInit, RestStep, PTL DEF Spec
-----------------------------------------------------------------------------
(***************************************************************************)
(* The documents a query has taken: none before get, and afterwards none   *)
(* unless get returned that the list is good, or left is_flush unassigned. *)
(***************************************************************************)
TakenInv ==
  \A t \in QueryThreads :
    /\ pc[t] \in {"idle", "lock", "get"} => lst[t] = {}
    /\ pc[t] \in {"write", "answer"} => ret[t] \in {1, 2} \/ lst[t] = {} \/ t \in unset

SentInv == TakenInv /\ PushedIsSentIfSet

\* The reply to a query carries what get has taken, for every value get sets.
LEMMA AnswersCarryTaken ==
  ASSUME NEW r \in Int, NEW l, NEW new, r \in {1, 2} \/ l = {}
  PROVE  Answers(r, l, new).docs = l
BY DEF Answers, NoAnswer

LEMMA SentInit == Init => SentInv
BY CenterQueryAssumption DEF Init, SentInv, TakenInv, PushedIsSentIfSet, Answered, Threads

\* A step of a thread other than the query threads, or of time.
LEMMA OthersKeepSent ==
  ASSUME SentInv, UNCHANGED <<ret, unset, answer>>,
         \A s \in QueryThreads : pc'[s] = pc[s] /\ lst'[s] = lst[s]
  PROVE  SentInv'
BY DEF SentInv, TakenInv, PushedIsSentIfSet, Answered

\* A step of query t that leaves every other query alone.
LEMMA QueryKeepsSent ==
  ASSUME SentInv, FlagInv, FillInv, RestTyped, NEW t \in QueryThreads,
         NEW to, pc' = [pc EXCEPT ![t] = to],
         \A s \in QueryThreads : s # t =>
           /\ lst'[s] = lst[s] /\ ret'[s] = ret[s] /\ answer'[s] = answer[s]
           /\ s \in unset => s \in unset',
         to \in {"idle", "lock", "get"} => lst'[t] = {},
         to \in {"write", "answer"} => ret'[t] \in {1, 2} \/ lst'[t] = {} \/ t \in unset',
         to \in {"feedback", "push", "unlock", "send"} =>
           t \in unset' \/ answer'[t].docs = lst'[t]
  PROVE  SentInv'
<1>1. pc'[t] = to /\ \A s \in QueryThreads : s # t => pc'[s] = pc[s]
  BY DEF FlagInv, Typed, Threads
<1> QED
  BY <1>1 DEF SentInv, TakenInv, PushedIsSentIfSet, Answered

LEMMA SentStep ==
  FlagInv /\ FillInv /\ RestTyped /\ SentInv /\ [Next]_vars => SentInv'
<1> SUFFICES ASSUME FlagInv, FillInv, RestTyped, SentInv, [Next]_vars PROVE SentInv'
  OBVIOUS
<1>1. ASSUME NEW t \in QueryThreads, ReceiveQuery(t) \/ AddFlag(t) PROVE SentInv'
  <2>1. PICK to \in {"lock", "get"} : pc' = [pc EXCEPT ![t] = to]
    BY <1>1 DEF ReceiveQuery, AddFlag, Goto, AfterLock
  <2>2. pc[t] \in {"idle", "lock"} /\ UNCHANGED <<lst, ret, unset, answer>>
    BY <1>1 DEF ReceiveQuery, AddFlag, local
  <2>3. lst'[t] = {}
    BY <2>2 DEF SentInv, TakenInv
  <2> QED
    BY <2>1, <2>2, <2>3, QueryKeepsSent
<1>2. ASSUME NEW t \in QueryThreads, GetCache(t) PROVE SentInv'
  <2>1. pc[t] = "get" /\ lst[t] = {} /\ UNCHANGED answer
    BY <1>2 DEF GetCache, SentInv, TakenInv
  <2>2. PICK to \in {"write", "answer"} : pc' = [pc EXCEPT ![t] = to]
    BY <1>2 DEF GetCache, Goto
  <2>3. CASE UNCHANGED <<lst, unset>> /\ \E r \in {-1, 3, 4} : ret' = [ret EXCEPT ![t] = r]
    BY <2>1, <2>2, <2>3, QueryKeepsSent DEF RestTyped
  <2>4. CASE \E took \in SUBSET cache[uid[t]].lst, r \in UninitFlush \cup {1, 2} :
               /\ GetFresh(t, took, r)
               /\ ret' = [ret EXCEPT ![t] = r]
               /\ lst' = [lst EXCEPT ![t] = took]
    <3>1. PICK took \in SUBSET cache[uid[t]].lst, r \in UninitFlush \cup {1, 2} :
               /\ GetFresh(t, took, r)
               /\ ret' = [ret EXCEPT ![t] = r]
               /\ lst' = [lst EXCEPT ![t] = took]
      BY <2>4
    <3>2. r \in {1, 2} \/ t \in unset'
      BY <3>1 DEF GetFresh
    <3>3. \A s \in unset : s \in unset'
      BY <3>1 DEF GetFresh
    <3>4. /\ ret'[t] = r
          /\ \A s \in QueryThreads : s # t => lst'[s] = lst[s] /\ ret'[s] = ret[s]
      BY <3>1 DEF RestTyped, FillInv, StoreTyped, Threads
    <3> QED
      BY <2>1, <2>2, <3>2, <3>3, <3>4, QueryKeepsSent
  <2>5. \/ UNCHANGED <<lst, unset>> /\ ret' = [ret EXCEPT ![t] = -1]
        \/ \E took \in SUBSET cache[uid[t]].lst, r \in UninitFlush \cup {1, 2} :
             /\ GetFresh(t, took, r)
             /\ ret' = [ret EXCEPT ![t] = r]
             /\ lst' = [lst EXCEPT ![t] = took]
        \/ UNCHANGED <<lst, unset>> /\ \E r \in {3, 4} : ret' = [ret EXCEPT ![t] = r]
    BY <1>2, Zenon DEF GetCache
  <2> QED
    BY <2>3, <2>4, <2>5
<1>3. ASSUME NEW t \in QueryThreads, WriteCache(t) PROVE SentInv'
  <2>1. /\ pc[t] = "write" /\ pc' = [pc EXCEPT ![t] = "answer"]
        /\ UNCHANGED <<lst, ret, unset, answer>>
    BY <1>3 DEF WriteCache, Goto, local
  <2>2. ret'[t] \in {1, 2} \/ lst'[t] = {} \/ t \in unset'
    BY <2>1 DEF SentInv, TakenInv
  <2> QED
    BY <2>1, <2>2, QueryKeepsSent
<1>4. ASSUME NEW t \in QueryThreads, Answer(t) PROVE SentInv'
  <2>1. PICK new \in BOOLEAN : answer' = [answer EXCEPT ![t] = Answers(ret[t], lst[t], new)]
    BY <1>4 DEF Answer
  <2>2. /\ pc[t] = "answer" /\ pc' = [pc EXCEPT ![t] = "feedback"]
        /\ UNCHANGED <<lst, ret, unset>>
    BY <1>4 DEF Answer, Goto
  <2>3. t \in unset \/ Answers(ret[t], lst[t], new).docs = lst[t]
    BY <2>2, AnswersCarryTaken DEF SentInv, TakenInv, RestTyped
  <2>4. /\ t \in unset' \/ answer'[t].docs = lst'[t]
        /\ \A s \in QueryThreads : s # t => answer'[s] = answer[s]
    BY <2>1, <2>2, <2>3 DEF RestTyped
  <2> QED
    BY <2>2, <2>4, QueryKeepsSent
<1>5. ASSUME NEW t \in QueryThreads, Feedback(t) \/ PushFlush(t) \/ DelFlag(t) PROVE SentInv'
  <2>1. PICK to \in {"push", "unlock", "send"} : pc' = [pc EXCEPT ![t] = to]
    BY <1>5 DEF Feedback, PushFlush, DelFlag, Goto
  <2>2. pc[t] \in {"feedback", "push", "unlock"} /\ UNCHANGED <<lst, ret, unset, answer>>
    BY <1>5 DEF Feedback, PushFlush, DelFlag, local
  <2>3. t \in unset' \/ answer'[t].docs = lst'[t]
    BY <2>2 DEF SentInv, PushedIsSentIfSet, Answered
  <2> QED
    BY <2>1, <2>2, <2>3, QueryKeepsSent
<1>6. ASSUME NEW t \in QueryThreads, SendReply(t) PROVE SentInv'
  <2>1. /\ pc' = [pc EXCEPT ![t] = "idle"] /\ lst' = [lst EXCEPT ![t] = {}]
        /\ ret' = [ret EXCEPT ![t] = 0] /\ answer' = [answer EXCEPT ![t] = NoAnswer]
        /\ unset' = unset \ {t}
    BY <1>6 DEF SendReply, Goto
  <2>2. /\ lst'[t] = {}
        /\ \A s \in QueryThreads : s # t =>
             /\ lst'[s] = lst[s] /\ ret'[s] = ret[s] /\ answer'[s] = answer[s]
             /\ s \in unset => s \in unset'
    BY <2>1 DEF RestTyped, FillInv, StoreTyped, Threads
  <2> QED
    BY <2>1, <2>2, QueryKeepsSent
<1>7. ASSUME NEW t \in FlushThreads, FlushCache(t) PROVE SentInv'
  <2>1. t \in Threads /\ t \notin QueryThreads
    BY CenterQueryAssumption DEF Threads
  <2>2. UNCHANGED <<ret, unset, answer>>
    BY <1>7, <2>1 DEF FlushCache, PopFlush, QueryCandidates, QueryFails, AddFlag, PutCache,
                      DelFlag, local
  <2>3. \E to : pc' = [pc EXCEPT ![t] = to]
    BY <1>7 DEF FlushCache, PopFlush, QueryCandidates, QueryFails, AddFlag, PutCache,
                DelFlag, Goto
  <2>4. lst' = lst \/ \E l : lst' = [lst EXCEPT ![t] = l]
    BY <1>7, <2>1 DEF FlushCache, PopFlush, QueryCandidates, QueryFails, AddFlag, PutCache,
                      DelFlag, local
  <2>5. \A s \in QueryThreads : pc'[s] = pc[s] /\ lst'[s] = lst[s]
    BY <2>1, <2>3, <2>4 DEF FlagInv, Typed, FillInv, StoreTyped, Threads
  <2> QED
    BY <2>2, <2>5, OthersKeepSent
<1>8. ASSUME UNCHANGED <<pc, lst, ret, unset, answer>> PROVE SentInv'
  BY <1>8, OthersKeepSent
<1>9. \A t \in QueryThreads : FeedbackRetried(t) => SentInv'
  BY <1>8 DEF FeedbackRetried, local
<1>10. \A u \in Users : Overtime(u) \/ RequestAges(u) => SentInv'
  BY <1>8 DEF Overtime, RequestAges, local
<1>11. CASE UNCHANGED vars
  BY <1>8, <1>11 DEF vars, local
<1> QED
  BY <1>1, <1>2, <1>3, <1>4, <1>5, <1>6, <1>7, <1>9, <1>10, <1>11 DEF Next, ProcessQuery

(***************************************************************************)
(* What process_query reports as recommended is what the client is sent,   *)
(* whatever is_flush held when get left it unassigned, and whatever fails, *)
(* but for the queries that were given the unassigned value themselves.    *)
(***************************************************************************)
THEOREM ReportedIsSent == Spec => []PushedIsSentIfSet
<1>1. SentInv => PushedIsSentIfSet
  BY DEF SentInv
<1> QED
  BY <1>1, FlagInit, FlagStep, FillInit, FillStep, RestInit, RestStep, SentInit, SentStep, PTL
     DEF Spec
=============================================================================
