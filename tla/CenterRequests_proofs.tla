----------------------- MODULE CenterRequests_proofs -----------------------
(***************************************************************************)
(* Proofs about CenterRequests: a task node has one owner, an answer is    *)
(* the answer to its client's request, what the code 0 in it means, and    *)
(* what the algorithm modules know.                                        *)
(***************************************************************************)
EXTENDS CenterRequests, FiniteSetTheorems, TLAPS

(***************************************************************************)
(* The inductive invariant.                                                *)
(***************************************************************************)
InUse == Nodes \ freeNodes
Working ==
  {"history", "candidate", "modules", "subscribe", "other", "wait", "answer"}

\* Which threads have a node and a connection.
PlaceInv ==
  /\ \A t \in Listeners :
       /\ pc[t] \in {"idle", "node", "receive", "push"}
       /\ at[t] # NoNode <=> pc[t] \in {"receive", "push"}
       /\ conn[t] # NoClient <=> pc[t] # "idle"
  /\ \A t \in Processors :
       /\ pc[t] \in {"idle"} \cup Working
       /\ at[t] # NoNode <=> pc[t] # "idle"

\* NodesHaveOneOwner without counting.
OwnerInv ==
  /\ \A t \in Threads : at[t] \notin freeNodes
  /\ \A s, t \in Threads : at[s] = at[t] /\ at[s] # NoNode => s = t
  /\ \A i \in 1 .. Len(taskQueue) :
       taskQueue[i] \in InUse /\ \A t \in Threads : at[t] # taskQueue[i]
  /\ \A i, j \in 1 .. Len(taskQueue) : taskQueue[i] = taskQueue[j] => i = j
  /\ \A n \in InUse : \/ \E t \in Threads : at[t] = n
                      \/ \E i \in 1 .. Len(taskQueue) : taskQueue[i] = n

\* A client that waits is in one place, and was not answered.
ClientInv ==
  /\ \A n \in InUse : node[n].client \in Clients /\ answer[node[n].client].code = None
  /\ \A m, n \in InUse : node[m].client = node[n].client => m = n
  /\ \A t \in Listeners : conn[t] # NoClient =>
       /\ answer[conn[t]].code = None
       /\ \A n \in InUse : node[n].client = conn[t] => at[t] = n
  /\ \A t \in Listeners : at[t] # NoNode => node[at[t]].client = conn[t]
  /\ \A s, t \in Listeners : conn[s] = conn[t] /\ conn[s] # NoClient => s = t

\* A node that was pushed, or is about to be, holds its own client's request,
\* which the parser accepted.
Loaded(n) == node[n].request = node[n].client /\ node[n].body \in Bodies \ Refused

RequestInv ==
  /\ \A t \in Processors : at[t] # NoNode => Loaded(at[t])
  /\ \A t \in Listeners : pc[t] = "push" => Loaded(at[t])
  /\ \A i \in 1 .. Len(taskQueue) : Loaded(taskQueue[i])

\* What the code 0 means for a request of a type.
Delivered(c, type) ==
  /\ c \in candidate.received
  /\ type \in {1, 2} => \A m \in Modules : c \in Received(m)
  /\ type = 3 => c \in candidate.applied

\* Where a processor is tells what it has done already.
Done(t) ==
  /\ pc[t] = "history" => Type(t) = 1
  /\ pc[t] \in {"candidate", "modules"} => Type(t) \in {1, 2}
  /\ pc[t] = "subscribe" => Type(t) = 3
  /\ pc[t] = "modules" => Request(t) \in candidate.received
  /\ pc[t] = "answer" => /\ code[t] # None
                         /\ code[t] = 0 => Delivered(Request(t), Type(t))

WorkInv == \A t \in Processors : Done(t)

AnswerInv ==
  \A c \in Clients :
    /\ answer[c].to \in {c, NoClient}
    /\ answer[c].code = 0 => Delivered(c, Body[answer[c].body].type)

\* All that a processor of an action was to be told.
Complete(c, told) ==
  \A d \in before[c] :
    /\ IsAnswer(d, {1}) /\ answer[d].code = 0
    /\ UserOf[d] = UserOf[c] /\ d \in candidate.applied
    => d \in told

HistoryInv ==
  /\ \A c \in Clients : before[c] \subseteq Answered
  /\ \A t \in Processors : pc[t] \in {"candidate", "modules"} /\ Type(t) = 1
       => Complete(Request(t), history[t])
  /\ \A m \in Modules : \A r \in modules[m] :
       /\ answer[r.update].code # None \/ \E n \in InUse : node[n].client = r.update
       /\ r.update \in candidate.received
       /\ r.action => Complete(r.update, r.history)

IInv ==
  /\ TypeOK /\ PlaceInv /\ OwnerInv /\ ClientInv
  /\ RequestInv /\ WorkInv /\ AnswerInv /\ HistoryInv
-----------------------------------------------------------------------------
(***************************************************************************)
(* The initial states.                                                     *)
(***************************************************************************)
LEMMA CodesAreNumbers == Cardinality(Modules) \in Nat /\ {-5, -4, -3, -2, -1, 0} \subseteq Codes
<1>1. Cardinality(Modules) \in Nat
  BY FS_CardinalityType, CenterRequestsAssumption DEF CenterRequestsAssumption
<1> QED
  BY <1>1 DEF Codes

LEMMA InitInv == Init => IInv
<1> SUFFICES ASSUME Init PROVE IInv
  OBVIOUS
<1>1. TypeOK
  <2>1. Len(taskQueue) = 0 /\ taskQueue \in Seq(Nodes)
    BY DEF Init
  <2>2. -1 \in Codes /\ None \in Codes
    BY CodesAreNumbers DEF None
  <2>3. node \in [Nodes -> [client : Clients \cup {NoClient},
                            request : Clients \cup {NoClient}, body : Bodies \cup {NoBody}]]
    BY DEF Init, Blank
  <2>4. answer \in [Clients -> [to : Clients \cup {NoClient}, body : Bodies \cup {NoBody},
                                code : Codes]]
    BY <2>2 DEF Init
  <2>5. pc \in [Threads -> {"idle", "node", "receive", "push", "history", "candidate",
                            "modules", "subscribe", "other", "wait", "answer"}]
    BY DEF Init
  <2>6. at \in [Threads -> Nodes \cup {NoNode}] /\ conn \in [Listeners -> Clients \cup {NoClient}]
    BY DEF Init
  <2>7. history \in [Processors -> SUBSET Clients] /\ before \in [Clients -> SUBSET Clients]
    BY DEF Init
  <2>8. code \in [Processors -> Codes]
    BY <2>2 DEF Init
  <2>9. candidate \in [received : SUBSET Clients, applied : SUBSET Clients]
    BY DEF Init
  <2>10. modules \in [Modules -> SUBSET [update : Clients, action : BOOLEAN,
                                         history : SUBSET Clients]]
    BY DEF Init
  <2>11. QueueSize \in Nat /\ MaxFaults \in Nat
    BY CenterRequestsAssumption DEF CenterRequestsAssumption
  <2> QED
    BY <2>1, <2>3, <2>4, <2>5, <2>6, <2>7, <2>8, <2>9, <2>10, <2>11 DEF TypeOK, Init
<1>2. PlaceInv
  BY DEF Init, PlaceInv, Threads
<1>3. OwnerInv
  BY CenterRequestsAssumption DEF CenterRequestsAssumption, Init, OwnerInv, InUse
<1>4. ClientInv
  BY DEF Init, ClientInv, InUse, Threads
<1>5. RequestInv
  BY DEF Init, RequestInv, Loaded, Threads
<1>6. WorkInv
  BY DEF Init, WorkInv, Done, Threads
<1>7. AnswerInv
  BY DEF Init, AnswerInv, None
<1>8. HistoryInv
  BY DEF Init, HistoryInv, Threads
<1> QED
  BY <1>1, <1>2, <1>3, <1>4, <1>5, <1>6, <1>7, <1>8 DEF IInv
-----------------------------------------------------------------------------
(***************************************************************************)
(* The listeners.                                                          *)
(***************************************************************************)
TaskNode == [client : Clients \cup {NoClient}, request : Clients \cup {NoClient},
             body : Bodies \cup {NoBody}]
Reply == [to : Clients \cup {NoClient}, body : Bodies \cup {NoBody}, code : Codes]

\* A step of a listener leaves what the processors are told and do.
LEMMA ProcessorsGoOn ==
  ASSUME IInv, NEW t \in Listeners,
         \A s \in Processors : pc'[s] = pc[s] /\ at'[s] = at[s],
         \A s \in Processors : at[s] # NoNode => node'[at[s]] = node[at[s]],
         UNCHANGED <<work, candidate, modules>>
  PROVE  WorkInv'
<1> USE DEF IInv
<1>1. ASSUME NEW s \in Processors, pc[s] # "idle"
      PROVE Request(s)' = Request(s) /\ Type(s)' = Type(s)
  BY <1>1 DEF PlaceInv, Request, Type
<1>2. \A c, type : Delivered(c, type) => Delivered(c, type)'
  BY DEF Delivered, Received
<1> QED
  BY <1>1, <1>2 DEF WorkInv, Done, work, Working, PlaceInv

\* What was complete stays so: neither an answer that was given changes, nor
\* is the update of an answered client applied again.
LEMMA CompleteStays ==
  ASSUME IInv, UNCHANGED before,
         \A d \in Answered : answer'[d] = answer[d],
         \A d \in candidate'.applied : d \in candidate.applied \/ answer[d].code = None,
         NEW c \in Clients, NEW told, Complete(c, told)
  PROVE  Complete(c, told)'
<1> SUFFICES ASSUME NEW d \in before[c], (IsAnswer(d, {1}) /\ answer[d].code = 0)',
                    UserOf[d] = UserOf[c], d \in candidate'.applied
             PROVE  d \in told
  BY DEF Complete
<1>1. d \in Answered /\ answer'[d] = answer[d] /\ answer[d].code # None
  BY DEF IInv, HistoryInv, Answered
<1>2. d \in candidate.applied
  BY <1>1
<1> QED
  BY <1>1, <1>2 DEF Complete, IsAnswer

LEMMA HistoryGoesOn ==
  ASSUME IInv, NEW t \in Listeners,
         \A s \in Processors : pc'[s] = pc[s] /\ at'[s] = at[s],
         \A s \in Processors : at[s] # NoNode => node'[at[s]] = node[at[s]],
         UNCHANGED <<work, candidate, modules, before>>,
         \A d \in Answered : answer'[d] = answer[d],
         \A n \in InUse : \/ answer'[node[n].client].code # None
                          \/ \E m \in InUse' : node'[m].client = node[n].client
  PROVE  HistoryInv'
<1> USE DEF IInv
<1>1. \A d \in Answered : answer'[d].code # None
  BY DEF Answered
<1>2. \A c \in Clients : before'[c] \subseteq Answered'
  BY <1>1 DEF HistoryInv, Answered
<1>3. ASSUME NEW s \in Processors, pc'[s] \in {"candidate", "modules"}, Type(s)' = 1
      PROVE  Complete(Request(s), history[s])'
  <2>1. /\ pc[s] = pc'[s] /\ Type(s) = 1 /\ Request(s)' = Request(s)
        /\ at[s] \in InUse /\ at[s] # NoNode
    BY <1>3 DEF Type, Request, Threads, TypeOK, PlaceInv, OwnerInv, InUse
  <2>2. Request(s) \in Clients
    BY <2>1 DEF RequestInv, Loaded, Request, ClientInv, Client
  <2>3. Complete(Request(s), history[s])
    BY <2>1, <1>3 DEF HistoryInv
  <2>4. PICK c, told : c \in Clients /\ c = Request(s) /\ told = history[s]
    BY <2>2
  <2> HIDE DEF IInv
  <2>5. Complete(c, told)'
    BY <2>3, <2>4, CompleteStays
  <2>6. c = Request(s)' /\ told = history'[s]
    BY <2>1, <2>4 DEF work
  <2> QED
    BY <2>5, <2>6 DEF Complete
<1>4. ASSUME NEW m \in Modules, NEW r \in modules[m]
      PROVE  /\ answer'[r.update].code # None \/ \E n \in InUse' : node'[n].client = r.update
             /\ r.update \in candidate.received
             /\ r.action => Complete(r.update, r.history)'
  <2>1. r.update \in Clients
    BY DEF TypeOK
  <2>2. answer'[r.update].code # None \/ \E n \in InUse' : node'[n].client = r.update
    BY <2>1, <1>1 DEF HistoryInv, Answered
  <2>3. r.action => Complete(r.update, r.history)
    BY DEF HistoryInv
  <2> HIDE DEF IInv
  <2>4. r.action => Complete(r.update, r.history)'
    BY <2>1, <2>3, CompleteStays
  <2> QED
    BY <2>2, <2>4 DEF HistoryInv, IInv
<1> QED
  BY <1>2, <1>3, <1>4 DEF HistoryInv

LEMMA AcceptInv ==
  ASSUME IInv, NEW t \in Listeners, NEW c \in Clients, Accept(t, c)
  PROVE  IInv'
<1> USE CenterRequestsAssumption DEF CenterRequestsAssumption, IInv
<1>1. /\ t \in Threads /\ t \notin Processors /\ pc[t] = "idle"
      /\ answer[c].code = None /\ c # NoClient
      /\ \A s \in Listeners : conn[s] # c
      /\ \A n \in InUse : node[n].client # c
  BY DEF Accept, Threads, InUse
<1>2. /\ pc' = [pc EXCEPT ![t] = "node"]
      /\ conn' = [conn EXCEPT ![t] = c]
      /\ before' = [before EXCEPT ![c] = Answered]
      /\ UNCHANGED <<freeNodes, node, taskQueue, at, history, code, candidate, modules,
                     faults, answer>>
  BY DEF Accept, Goto, nodes, work, effects
<1>3. /\ pc'[t] = "node" /\ conn'[t] = c /\ before'[c] = Answered
      /\ \A s \in Threads \ {t} : pc'[s] = pc[s]
      /\ \A s \in Listeners \ {t} : conn'[s] = conn[s]
      /\ \A d \in Clients \ {c} : before'[d] = before[d]
  BY <1>1, <1>2 DEF TypeOK
<1>4. TypeOK'
  BY <1>1, <1>2 DEF TypeOK, Answered
<1>5. PlaceInv'
  BY <1>1, <1>2, <1>3 DEF PlaceInv, Threads
<1>6. OwnerInv'
  BY <1>2 DEF OwnerInv, InUse
<1>7. at[t] = NoNode
  BY <1>1 DEF PlaceInv
<1>8. ClientInv'
  BY <1>1, <1>2, <1>3, <1>7 DEF ClientInv, InUse
<1>9. RequestInv'
  BY <1>1, <1>2, <1>3 DEF RequestInv, Loaded, Threads, Request, Client
<1>10. WorkInv'
  BY <1>1, <1>2, <1>3, ProcessorsGoOn DEF Threads, work
<1>11. AnswerInv'
  BY <1>2 DEF AnswerInv, Delivered, Received
<1>12. \A d \in Clients \ {c} : \A told : Complete(d, told) => Complete(d, told)'
  BY <1>2, <1>3 DEF Complete, IsAnswer
<1>13. HistoryInv'
  <2>1. \A d \in Clients : before'[d] \subseteq Answered'
    BY <1>2, <1>3 DEF HistoryInv, Answered
  <2>2. ASSUME NEW s \in Processors, pc'[s] \in {"candidate", "modules"}, Type(s)' = 1
        PROVE  Complete(Request(s), history[s])'
    <3>1. pc[s] = pc'[s] /\ Type(s) = 1 /\ Request(s)' = Request(s) /\ at[s] \in InUse
      BY <2>2, <1>1, <1>2, <1>3 DEF Type, Request, Threads, TypeOK, PlaceInv, OwnerInv, InUse
    <3>2. Request(s) \in Clients \ {c}
      BY <3>1, <2>2, <1>1 DEF RequestInv, Loaded, Request, ClientInv, PlaceInv, Client
    <3>3. Complete(Request(s), history[s])
      BY <3>1, <2>2 DEF HistoryInv
    <3> QED
      BY <3>1, <3>2, <3>3, <1>2, <1>3 DEF Complete, IsAnswer
  <2>3. ASSUME NEW m \in Modules, NEW r \in modules[m]
        PROVE  /\ answer[r.update].code # None \/ \E n \in InUse : node[n].client = r.update
               /\ r.update \in candidate.received
               /\ r.action => Complete(r.update, r.history)'
    <3>1. r.update \in Clients \ {c}
      BY <1>1 DEF HistoryInv, TypeOK
    <3> QED
      BY <3>1, <1>12 DEF HistoryInv
  <2> QED
    BY <2>1, <2>2, <2>3, <1>2 DEF HistoryInv, InUse
<1> QED
  BY <1>4, <1>5, <1>6, <1>8, <1>9, <1>10, <1>11, <1>13 DEF IInv

LEMMA GetTaskNodeInv ==
  ASSUME IInv, NEW t \in Listeners, GetTaskNode(t)
  PROVE  IInv'
<1> USE CenterRequestsAssumption DEF CenterRequestsAssumption, IInv
<1>1. PICK n \in freeNodes :
        /\ freeNodes' = freeNodes \ {n}
        /\ at' = [at EXCEPT ![t] = n]
        /\ node' = [node EXCEPT ![n].client = conn[t]]
  BY DEF GetTaskNode
<1>2. /\ pc' = [pc EXCEPT ![t] = "receive"]
      /\ UNCHANGED <<taskQueue, conn, history, code, candidate, modules, faults, answer, before>>
  BY DEF GetTaskNode, Goto, work, effects, clients
<1>3. /\ t \in Threads /\ t \notin Processors /\ pc[t] = "node" /\ n \in Nodes /\ n # NoNode
      /\ at[t] = NoNode /\ conn[t] \in Clients /\ conn[t] # NoClient
  BY DEF GetTaskNode, Threads, TypeOK, PlaceInv
<1> DEFINE r == [node[n] EXCEPT !.client = conn[t]]
<1>4. /\ r \in TaskNode /\ r.client = conn[t]
      /\ node' = [node EXCEPT ![n] = r]
  <2>1. node \in [Nodes -> TaskNode]
    BY DEF TypeOK, TaskNode
  <2>2. node' = [node EXCEPT ![n] = r]
    BY <1>1, <1>3, <2>1
  <2>3. r \in TaskNode /\ r.client = conn[t]
    BY <1>3, <2>1 DEF TaskNode
  <2> QED
    BY <2>2, <2>3
<1> HIDE DEF r
<1>5. /\ pc'[t] = "receive" /\ at'[t] = n /\ node'[n].client = conn[t]
      /\ \A s \in Threads \ {t} : pc'[s] = pc[s] /\ at'[s] = at[s]
      /\ \A m \in Nodes \ {n} : node'[m] = node[m]
      /\ InUse' = InUse \cup {n} /\ n \notin InUse
  BY <1>1, <1>2, <1>3, <1>4 DEF TypeOK, InUse
<1>6. \A s \in Threads : at[s] # n
  BY <1>1 DEF OwnerInv
<1>7. \A s \in Processors : pc'[s] = pc[s] /\ at'[s] = at[s]
                            /\ (at[s] # NoNode => node'[at[s]] = node[at[s]])
  BY <1>3, <1>5, <1>6 DEF Threads, TypeOK
<1>8. TypeOK'
  <2>1. node' \in [Nodes -> TaskNode]
    BY <1>4 DEF TypeOK, TaskNode
  <2>2. freeNodes' \subseteq Nodes /\ at' \in [Threads -> Nodes \cup {NoNode}]
    BY <1>1, <1>3 DEF TypeOK
  <2> QED
    BY <1>2, <2>1, <2>2 DEF TypeOK, TaskNode
<1>9. PlaceInv'
  BY <1>2, <1>3, <1>5 DEF PlaceInv, Threads
<1>10. OwnerInv'
  BY <1>1, <1>2, <1>3, <1>5, <1>6 DEF OwnerInv, InUse, TypeOK
<1>11. ClientInv'
  <2>1. \A m \in InUse : node[m].client # conn[t]
    BY <1>3, <1>5 DEF ClientInv, InUse
  <2>2. answer[conn[t]].code = None
    BY <1>3 DEF ClientInv
  <2>3. \A s \in Listeners \ {t} : conn[s] # conn[t]
    BY <1>3 DEF ClientInv
  <2>4. \A m \in InUse : node'[m] = node[m]
    BY <1>5 DEF InUse
  <2>5. \A s \in Listeners \ {t} : at'[s] = at[s] /\ (at[s] # NoNode => at[s] \in InUse)
    BY <1>5 DEF Threads, OwnerInv, TypeOK, InUse
  <2> QED
    BY <1>2, <1>3, <1>5, <2>1, <2>2, <2>3, <2>4, <2>5 DEF ClientInv
<1>12. RequestInv'
  <2>1. \A i \in 1 .. Len(taskQueue) : node'[taskQueue[i]] = node[taskQueue[i]]
    BY <1>5 DEF OwnerInv, InUse
  <2>2. \A s \in Listeners \ {t} : pc[s] = "push" =>
          at'[s] = at[s] /\ node'[at[s]] = node[at[s]] /\ pc'[s] = pc[s]
    BY <1>5, <1>6 DEF Threads, TypeOK, PlaceInv
  <2>3. \A s \in Listeners \ {t} : pc'[s] = pc[s]
    BY <1>5 DEF Threads
  <2> QED
    BY <1>2, <1>5, <1>7, <2>1, <2>2, <2>3 DEF RequestInv, Loaded, Request, Client
<1>13. WorkInv'
  BY <1>2, <1>7, ProcessorsGoOn DEF work
<1>14. AnswerInv'
  BY <1>2 DEF AnswerInv, Delivered, Received
<1>15. HistoryInv'
  <2>1. \A m \in InUse : m \in InUse' /\ node'[m].client = node[m].client
    BY <1>5 DEF InUse
  <2> HIDE DEF IInv
  <2> QED
    BY <1>2, <1>7, <2>1, HistoryGoesOn DEF work
<1> QED
  BY <1>8, <1>9, <1>10, <1>11, <1>12, <1>13, <1>14, <1>15 DEF IInv

LEMMA ParsedInv ==
  ASSUME IInv, NEW t \in Listeners, pc[t] = "receive",
         NEW r \in TaskNode, r.client = conn[t], r.request = conn[t], r.body \in Bodies \ Refused,
         node' = [node EXCEPT ![at[t]] = r],
         Goto(t, "push"),
         UNCHANGED <<freeNodes, at, conn, answer, faults, taskQueue, work, candidate,
                     modules, before>>
  PROVE  IInv'
<1> USE CenterRequestsAssumption DEF CenterRequestsAssumption, IInv
<1>1. PICK n \in InUse : at[t] = n
  BY DEF PlaceInv, OwnerInv, TypeOK, InUse, Threads
<1>2. /\ pc' = [pc EXCEPT ![t] = "push"]
      /\ UNCHANGED <<freeNodes, at, conn, taskQueue, history, code, candidate, modules,
                     faults, answer, before>>
  BY DEF Goto, work
<1>3. /\ t \in Threads /\ t \notin Processors /\ n \in Nodes /\ n # NoNode
      /\ conn[t] \in Clients /\ node[n].client = conn[t]
  BY <1>1 DEF Threads, TypeOK, PlaceInv, InUse, ClientInv
<1>4. node' = [node EXCEPT ![n] = r]
  BY <1>1
<1>5. /\ pc'[t] = "push" /\ node'[n].client = conn[t] /\ node'[n].request = conn[t]
      /\ node'[n].body \in Bodies \ Refused
      /\ \A s \in Threads \ {t} : pc'[s] = pc[s]
      /\ \A m \in Nodes \ {n} : node'[m] = node[m]
      /\ \A m \in Nodes : node'[m].client = node[m].client
      /\ InUse' = InUse
  BY <1>2, <1>3, <1>4 DEF TypeOK, InUse
<1>6. \A s \in Threads \ {t} : at[s] # n
  BY <1>1, <1>3 DEF OwnerInv
<1>7. \A s \in Processors : pc'[s] = pc[s] /\ at'[s] = at[s]
                            /\ (at[s] # NoNode => node'[at[s]] = node[at[s]])
  BY <1>2, <1>3, <1>5, <1>6 DEF Threads, TypeOK
<1>8. TypeOK'
  <2>1. node' \in [Nodes -> TaskNode]
    BY <1>4 DEF TypeOK, TaskNode
  <2> QED
    BY <1>2, <2>1 DEF TypeOK, TaskNode
<1>9. PlaceInv'
  BY <1>2, <1>3, <1>5 DEF PlaceInv, Threads
<1>10. OwnerInv'
  BY <1>2 DEF OwnerInv, InUse
<1>11. ClientInv'
  <2>1. \A s \in Listeners : at[s] # NoNode => at[s] \in Nodes
    BY DEF TypeOK, Threads
  <2>2. at' = at /\ conn' = conn /\ answer' = answer /\ InUse' = InUse
    BY <1>2, <1>5
  <2>3. InUse \subseteq Nodes /\ \A m \in InUse : node'[m].client = node[m].client
    BY <1>5 DEF InUse
  <2>4. \A s \in Listeners : at[s] # NoNode => node'[at[s]].client = node[at[s]].client
    BY <1>5, <2>1
  <2>5. ClientInv
    OBVIOUS
  <2> HIDE DEF IInv
  <2> QED
    BY <2>2, <2>3, <2>4, <2>5 DEF ClientInv
<1>12. RequestInv'
  <2>1. ASSUME NEW i \in 1 .. Len(taskQueue)
        PROVE  node'[taskQueue[i]] = node[taskQueue[i]]
    <3>1. taskQueue[i] \in Nodes /\ at[t] # taskQueue[i]
      BY <1>3 DEF OwnerInv, InUse
    <3> QED
      BY <1>1, <1>5, <3>1
  <2>2. \A s \in Listeners \ {t} : pc[s] = "push" => node'[at[s]] = node[at[s]]
    BY <1>5, <1>6 DEF Threads, TypeOK, PlaceInv
  <2>3. \A s \in Listeners \ {t} : pc'[s] = pc[s]
    BY <1>5 DEF Threads
  <2>4. RequestInv /\ at' = at /\ taskQueue' = taskQueue
    BY <1>2
  <2> HIDE DEF IInv
  <2>5. (\A s \in Processors : at[s] # NoNode => Loaded(at[s]))'
    BY <1>7, <2>4 DEF RequestInv, Loaded, Request, Client
  <2>6. (\A s \in Listeners : pc[s] = "push" => Loaded(at[s]))'
    BY <1>1, <1>5, <2>2, <2>3, <2>4 DEF RequestInv, Loaded, Request, Client
  <2>7. (\A i \in 1 .. Len(taskQueue) : Loaded(taskQueue[i]))'
    BY <2>1, <2>4 DEF RequestInv, Loaded
  <2> QED
    BY <2>5, <2>6, <2>7 DEF RequestInv
<1>13. WorkInv'
  BY <1>2, <1>7, ProcessorsGoOn DEF work
<1>14. AnswerInv'
  BY <1>2 DEF AnswerInv, Delivered, Received
<1>15. HistoryInv'
  <2>1. \A m \in InUse : m \in InUse' /\ node'[m].client = node[m].client
    BY <1>5 DEF InUse
  <2> HIDE DEF IInv
  <2> QED
    BY <1>2, <1>7, <2>1, HistoryGoesOn DEF work
<1> QED
  BY <1>8, <1>9, <1>10, <1>11, <1>12, <1>13, <1>14, <1>15 DEF IInv

LEMMA ClosedInv ==
  ASSUME IInv, NEW t \in Listeners, pc[t] = "receive", faults' \in 0 .. MaxFaults,
         freeNodes' = freeNodes \cup {at[t]},
         at' = [at EXCEPT ![t] = NoNode],
         answer' = [answer EXCEPT ![conn[t]].code = Closed],
         conn' = [conn EXCEPT ![t] = NoClient],
         Goto(t, "idle"),
         UNCHANGED <<node, taskQueue, work, candidate, modules, before>>
  PROVE  IInv'
<1> USE CenterRequestsAssumption DEF CenterRequestsAssumption, IInv
<1>1. PICK n \in InUse : at[t] = n
  BY DEF PlaceInv, OwnerInv, TypeOK, InUse, Threads
<1>2. /\ pc' = [pc EXCEPT ![t] = "idle"]
      /\ UNCHANGED <<node, taskQueue, history, code, candidate, modules, before>>
  BY DEF Goto, work
<1>3. PICK c \in Clients : conn[t] = c
  BY DEF PlaceInv, TypeOK
<1>4. /\ t \in Threads /\ t \notin Processors /\ n \in Nodes /\ n # NoNode /\ c # NoClient
      /\ node[n].client = c /\ answer[c].code = None
  BY <1>1, <1>3 DEF Threads, TypeOK, PlaceInv, InUse, ClientInv
<1> DEFINE a == [answer[c] EXCEPT !.code = Closed]
<1>5. /\ a \in Reply /\ a.code = Closed /\ a.to = answer[c].to
      /\ answer' = [answer EXCEPT ![c] = a]
  <2>1. answer \in [Clients -> Reply]
    BY DEF TypeOK, Reply
  <2>2. answer' = [answer EXCEPT ![c] = a]
    BY <1>3, <2>1
  <2>3. Closed \in Codes
    BY CodesAreNumbers DEF Closed
  <2>4. a \in Reply /\ a.code = Closed /\ a.to = answer[c].to
    BY <1>3, <2>1, <2>3 DEF Reply
  <2> QED
    BY <2>2, <2>4
<1> HIDE DEF a
<1>6. /\ pc'[t] = "idle" /\ at'[t] = NoNode /\ conn'[t] = NoClient
      /\ \A s \in Threads \ {t} : pc'[s] = pc[s] /\ at'[s] = at[s]
      /\ \A s \in Listeners \ {t} : conn'[s] = conn[s]
      /\ InUse' = InUse \ {n}
  BY <1>1, <1>2, <1>3, <1>4 DEF TypeOK, InUse
<1>7. /\ answer'[c].code = Closed /\ answer'[c].to = answer[c].to
      /\ \A d \in Clients \ {c} : answer'[d] = answer[d]
  BY <1>5 DEF TypeOK
<1>8. \A s \in Threads \ {t} : at[s] # n
  BY <1>1, <1>4 DEF OwnerInv
<1>9. \A s \in Processors : pc'[s] = pc[s] /\ at'[s] = at[s]
                            /\ (at[s] # NoNode => node'[at[s]] = node[at[s]])
  BY <1>2, <1>4, <1>6 DEF Threads
<1>10. Closed # None /\ Closed # 0
  BY DEF Closed, None
<1>11. TypeOK'
  <2>1. answer \in [Clients -> Reply]
    BY DEF TypeOK, Reply
  <2>2. answer' \in [Clients -> Reply]
    BY <1>5, <2>1
  <2>3. /\ freeNodes' \subseteq Nodes /\ at' \in [Threads -> Nodes \cup {NoNode}]
        /\ conn' \in [Listeners -> Clients \cup {NoClient}]
    BY <1>1, <1>4 DEF TypeOK
  <2> QED
    BY <1>2, <2>2, <2>3 DEF TypeOK, Reply
<1>12. PlaceInv'
  BY <1>2, <1>4, <1>6 DEF PlaceInv, Threads
<1>13. OwnerInv'
  <2>1. \A s \in Threads : at'[s] \notin freeNodes'
    <3>1. freeNodes \subseteq Nodes
      BY DEF TypeOK
    <3>2. freeNodes' = freeNodes \cup {n} /\ NoNode \notin freeNodes'
      BY <1>1, <1>4, <3>1
    <3> QED
      BY <3>2, <1>6, <1>8 DEF OwnerInv
  <2>2. \A s, u \in Threads : at'[s] = at'[u] /\ at'[s] # NoNode => s = u
    BY <1>6 DEF OwnerInv
  <2>3. \A i \in 1 .. Len(taskQueue) : taskQueue[i] \in InUse' /\ taskQueue[i] # NoNode
    BY <1>1, <1>4, <1>6 DEF OwnerInv, InUse
  <2>4. \A m \in InUse' : \/ \E s \in Threads : at'[s] = m
                          \/ \E i \in 1 .. Len(taskQueue) : taskQueue[i] = m
    BY <1>1, <1>6 DEF OwnerInv
  <2>5. \A i \in 1 .. Len(taskQueue) : \A s \in Threads : at'[s] # taskQueue[i]
    BY <2>3, <1>6 DEF OwnerInv
  <2> QED
    BY <1>2, <2>1, <2>2, <2>3, <2>4, <2>5 DEF OwnerInv
<1>14. ClientInv'
  <2>1. \A m \in InUse' : m \in InUse /\ m # n /\ node[m].client # c
    BY <1>4, <1>6 DEF ClientInv
  <2>2. \A s \in Listeners \ {t} : conn[s] # c /\ at'[s] = at[s]
    BY <1>3, <1>4, <1>6 DEF ClientInv, Threads
  <2>3. \A s \in Listeners : conn[s] \in Clients \cup {NoClient}
    BY DEF TypeOK
  <2>4. ClientInv
    OBVIOUS
  <2> HIDE DEF IInv
  <2>5. (\A m \in InUse : node[m].client \in Clients /\ answer[node[m].client].code = None)'
    <3> SUFFICES ASSUME NEW m \in InUse'
                 PROVE  node[m].client \in Clients /\ answer'[node[m].client].code = None
      BY <1>2
    <3>1. node[m].client \in Clients \ {c} /\ answer[node[m].client].code = None
      BY <2>1, <2>4 DEF ClientInv
    <3> QED
      BY <3>1, <1>7
  <2>6. (\A m, k \in InUse : node[m].client = node[k].client => m = k)'
    BY <1>2, <2>1, <2>4 DEF ClientInv
  <2>7. (\A s \in Listeners : conn[s] # NoClient =>
           /\ answer[conn[s]].code = None
           /\ \A m \in InUse : node[m].client = conn[s] => at[s] = m)'
    BY <1>2, <1>6, <1>7, <2>1, <2>2, <2>3, <2>4 DEF ClientInv
  <2>8. (\A s \in Listeners : at[s] # NoNode => node[at[s]].client = conn[s])'
    BY <1>2, <1>6, <2>2, <2>4 DEF ClientInv
  <2>9. (\A s, u \in Listeners : conn[s] = conn[u] /\ conn[s] # NoClient => s = u)'
    BY <1>6, <2>4 DEF ClientInv
  <2> QED
    BY <2>5, <2>6, <2>7, <2>8, <2>9 DEF ClientInv
<1>15. RequestInv'
  <2>1. \A s \in Listeners \ {t} : pc'[s] = pc[s] /\ at'[s] = at[s]
    BY <1>6 DEF Threads
  <2> QED
    BY <1>2, <1>6, <1>9, <2>1 DEF RequestInv, Loaded, Request, Client
<1>16. WorkInv'
  BY <1>2, <1>9, ProcessorsGoOn DEF work
<1>17. AnswerInv'
  BY <1>2, <1>7, <1>10 DEF AnswerInv, Delivered, Received
<1>18. HistoryInv'
  <2>1. \A m \in InUse : \/ answer'[node[m].client].code # None
                         \/ m \in InUse' /\ node'[m].client = node[m].client
    BY <1>2, <1>4, <1>6, <1>7, <1>10 DEF ClientInv
  <2>2. \A d \in Answered : answer'[d] = answer[d]
    BY <1>4, <1>7 DEF Answered
  <2> HIDE DEF IInv
  <2> QED
    BY <1>2, <1>9, <2>1, <2>2, HistoryGoesOn DEF work
<1> QED
  BY <1>11, <1>12, <1>13, <1>14, <1>15, <1>16, <1>17, <1>18 DEF IInv

LEMMA FaultsAreBounded ==
  ASSUME TypeOK, Fault \/ UNCHANGED faults
  PROVE  faults' \in 0 .. MaxFaults
BY CenterRequestsAssumption DEF CenterRequestsAssumption, TypeOK, Fault

LEMMA ReceiveAndParseInv ==
  ASSUME IInv, NEW t \in Listeners, ReceiveAndParse(t)
  PROVE  IInv'
<1> USE DEF IInv
<1>1. PICK b \in MaySend[conn[t]] :
       \/ /\ b \notin Refused
          /\ node' = [node EXCEPT ![at[t]].request = conn[t], ![at[t]].body = b]
          /\ Goto(t, "push")
          /\ UNCHANGED <<freeNodes, at, conn, answer, faults>>
       \/ /\ IF b \notin Refused THEN Fault ELSE UNCHANGED faults
          /\ freeNodes' = freeNodes \cup {at[t]}
          /\ at' = [at EXCEPT ![t] = NoNode]
          /\ answer' = [answer EXCEPT ![conn[t]].code = Closed]
          /\ conn' = [conn EXCEPT ![t] = NoClient]
          /\ Goto(t, "idle")
          /\ UNCHANGED node
  BY Zenon DEF ReceiveAndParse
<1>2. pc[t] = "receive" /\ UNCHANGED <<taskQueue, work, candidate, modules, before>>
  BY Zenon DEF ReceiveAndParse
<1>3. /\ at[t] \in Nodes /\ conn[t] \in Clients /\ node[at[t]].client = conn[t]
      /\ node \in [Nodes -> TaskNode]
  BY <1>2 DEF TypeOK, PlaceInv, Threads, ClientInv, TaskNode
<1>4. b \in Bodies
  BY <1>3, CenterRequestsAssumption DEF CenterRequestsAssumption
<1>5. CASE /\ b \notin Refused
           /\ node' = [node EXCEPT ![at[t]].request = conn[t], ![at[t]].body = b]
           /\ Goto(t, "push") /\ UNCHANGED <<freeNodes, at, conn, answer, faults>>
  <2> DEFINE r == [node[at[t]] EXCEPT !.request = conn[t], !.body = b]
  <2>1. node' = [node EXCEPT ![at[t]] = r]
    BY <1>3, <1>5
  <2>2. r \in TaskNode /\ r.client = conn[t] /\ r.request = conn[t] /\ r.body = b
    BY <1>3, <1>4 DEF TaskNode
  <2>3. Goto(t, "push") /\ UNCHANGED <<freeNodes, at, conn, answer, faults, taskQueue, work,
                                       candidate, modules, before>>
    BY Zenon, <1>2, <1>5
  <2>4. r.body \in Bodies \ Refused
    BY <1>4, <1>5, <2>2
  <2> HIDE DEF r, IInv
  <2> QED
    BY Zenon, <1>2, <2>1, <2>2, <2>3, <2>4, ParsedInv
<1>6. CASE /\ (IF b \notin Refused THEN Fault ELSE UNCHANGED faults)
           /\ freeNodes' = freeNodes \cup {at[t]}
           /\ at' = [at EXCEPT ![t] = NoNode]
           /\ answer' = [answer EXCEPT ![conn[t]].code = Closed]
           /\ conn' = [conn EXCEPT ![t] = NoClient]
           /\ Goto(t, "idle")
           /\ UNCHANGED node
  <2>1. faults' \in 0 .. MaxFaults
    BY <1>6, FaultsAreBounded
  <2>2. UNCHANGED <<node, taskQueue, work, candidate, modules, before>>
    BY <1>2, <1>6
  <2> HIDE DEF IInv
  <2> QED
    BY <1>2, <1>6, <2>1, <2>2, ClosedInv
<1> QED
  BY Zenon, <1>1, <1>5, <1>6

LEMMA PushTaskInv ==
  ASSUME IInv, NEW t \in Listeners, PushTask(t)
  PROVE  IInv'
<1> USE CenterRequestsAssumption DEF CenterRequestsAssumption, IInv
<1>1. PICK n \in InUse : at[t] = n
  BY DEF PushTask, PlaceInv, OwnerInv, TypeOK, InUse, Threads
<1>2. /\ pc' = [pc EXCEPT ![t] = "idle"]
      /\ at' = [at EXCEPT ![t] = NoNode]
      /\ conn' = [conn EXCEPT ![t] = NoClient]
      /\ taskQueue' = Append(taskQueue, n)
      /\ UNCHANGED <<freeNodes, node, history, code, candidate, modules, faults, answer, before>>
  BY <1>1 DEF PushTask, Goto, work, effects, clients
<1>3. /\ pc[t] = "push" /\ Len(taskQueue) < QueueSize /\ t \in Threads /\ t \notin Processors
      /\ n \in Nodes /\ n # NoNode /\ Loaded(n)
  BY <1>1 DEF PushTask, Threads, InUse, RequestInv, Loaded, Request, Client
<1>4. /\ pc'[t] = "idle" /\ at'[t] = NoNode /\ conn'[t] = NoClient
      /\ \A s \in Threads \ {t} : pc'[s] = pc[s] /\ at'[s] = at[s]
      /\ \A s \in Listeners \ {t} : conn'[s] = conn[s]
      /\ InUse' = InUse
  BY <1>2, <1>3 DEF TypeOK, InUse
<1>5. /\ Len(taskQueue) \in Nat /\ Len(taskQueue') = Len(taskQueue) + 1
      /\ taskQueue' \in Seq(Nodes)
      /\ \A i \in 1 .. Len(taskQueue) : taskQueue'[i] = taskQueue[i]
      /\ taskQueue'[Len(taskQueue) + 1] = n
  BY <1>2, <1>3 DEF TypeOK
<1>6. \A s \in Threads \ {t} : at[s] # n
  BY <1>1, <1>3 DEF OwnerInv
<1>7. \A s \in Processors : pc'[s] = pc[s] /\ at'[s] = at[s]
                            /\ (at[s] # NoNode => node'[at[s]] = node[at[s]])
  BY <1>2, <1>3, <1>4 DEF Threads
<1>8. TypeOK'
  <2>1. /\ at' \in [Threads -> Nodes \cup {NoNode}]
        /\ conn' \in [Listeners -> Clients \cup {NoClient}]
        /\ Len(taskQueue') <= QueueSize
    BY <1>2, <1>3, <1>5 DEF TypeOK
  <2> QED
    BY <1>2, <1>5, <2>1 DEF TypeOK
<1>9. PlaceInv'
  BY <1>2, <1>3, <1>4 DEF PlaceInv, Threads
<1>10. OwnerInv'
  <2>1. \A s \in Threads : at'[s] \notin freeNodes'
    BY <1>2, <1>4 DEF OwnerInv, TypeOK
  <2>2. \A s, u \in Threads : at'[s] = at'[u] /\ at'[s] # NoNode => s = u
    BY <1>4 DEF OwnerInv
  <2>3. ASSUME NEW i \in 1 .. Len(taskQueue')
        PROVE  taskQueue'[i] \in InUse' /\ \A s \in Threads : at'[s] # taskQueue'[i]
    <3>1. taskQueue'[i] \in InUse /\ \A s \in Threads \ {t} : at[s] # taskQueue'[i]
      <4>1. CASE i \in 1 .. Len(taskQueue)
        BY <4>1, <1>5 DEF OwnerInv
      <4>2. CASE i = Len(taskQueue) + 1
        BY <4>2, <1>5, <1>6
      <4> QED
        BY <4>1, <4>2, <1>5
    <3>2. NoNode \notin InUse
      BY DEF InUse
    <3> QED
      BY <3>1, <3>2, <1>4
  <2>4. ASSUME NEW i \in 1 .. Len(taskQueue'), NEW j \in 1 .. Len(taskQueue'),
               taskQueue'[i] = taskQueue'[j]
        PROVE  i = j
    <3>1. \A k \in 1 .. Len(taskQueue) : taskQueue'[k] # n
      BY <1>1, <1>3, <1>5 DEF OwnerInv
    <3>2. CASE i \in 1 .. Len(taskQueue) /\ j \in 1 .. Len(taskQueue)
      BY <3>2, <2>4, <1>5 DEF OwnerInv
    <3>3. CASE i = Len(taskQueue) + 1 \/ j = Len(taskQueue) + 1
      BY <3>1, <3>3, <2>4, <1>5
    <3> QED
      BY <3>2, <3>3, <1>5
  <2>5. ASSUME NEW m \in InUse
        PROVE  (\E s \in Threads : at'[s] = m) \/ \E i \in 1 .. Len(taskQueue') : taskQueue'[i] = m
    <3>1. CASE m = n
      BY <3>1, <1>5
    <3>2. CASE m # n /\ \E s \in Threads : at[s] = m
      BY <3>2, <1>1, <1>4
    <3>3. CASE \E i \in 1 .. Len(taskQueue) : taskQueue[i] = m
      BY <3>3, <1>5
    <3> QED
      BY <3>1, <3>2, <3>3 DEF OwnerInv
  <2> QED
    BY <1>4, <2>1, <2>2, <2>3, <2>4, <2>5 DEF OwnerInv
<1>11. ClientInv'
  <2>1. \A s \in Listeners \ {t} : at'[s] = at[s]
    BY <1>4 DEF Threads
  <2> QED
    BY <1>2, <1>4, <2>1 DEF ClientInv
<1>12. RequestInv'
  <2>1. \A s \in Listeners \ {t} : pc'[s] = pc[s] /\ at'[s] = at[s]
    BY <1>4 DEF Threads
  <2>2. ASSUME NEW i \in 1 .. Len(taskQueue')
        PROVE  Loaded(taskQueue'[i])
    <3>1. CASE i \in 1 .. Len(taskQueue)
      BY <3>1, <1>5 DEF RequestInv
    <3>2. CASE i = Len(taskQueue) + 1
      BY <3>2, <1>3, <1>5
    <3> QED
      BY <3>1, <3>2, <1>5
  <2> QED
    BY <1>2, <1>4, <1>7, <2>1, <2>2 DEF RequestInv, Loaded, Request, Client
<1>13. WorkInv'
  BY <1>2, <1>7, ProcessorsGoOn DEF work
<1>14. AnswerInv'
  BY <1>2 DEF AnswerInv, Delivered, Received
<1>15. HistoryInv'
  <2>1. \A m \in InUse : m \in InUse' /\ node'[m].client = node[m].client
    BY <1>2, <1>4
  <2> HIDE DEF IInv
  <2> QED
    BY <1>2, <1>7, <2>1, HistoryGoesOn DEF work
<1> QED
  BY <1>8, <1>9, <1>10, <1>11, <1>12, <1>13, <1>14, <1>15 DEF IInv
-----------------------------------------------------------------------------
(***************************************************************************)
(* The processors.                                                         *)
(***************************************************************************)
LEMMA WorkerHasRequest ==
  ASSUME IInv, NEW t \in Processors, pc[t] # "idle"
  PROVE  /\ t \in Threads /\ t \notin Listeners
         /\ at[t] \in InUse /\ at[t] # NoNode
         /\ Request(t) \in Clients /\ Request(t) = Client(t)
         /\ answer[Request(t)].code = None
<1> USE DEF IInv
<1>1. t \in Threads /\ t \notin Listeners
  BY CenterRequestsAssumption DEF CenterRequestsAssumption, Threads
<1>2. at[t] \in InUse /\ at[t] # NoNode
  BY <1>1 DEF PlaceInv, OwnerInv, TypeOK, InUse
<1>3. Request(t) = Client(t)
  BY <1>2 DEF RequestInv, Loaded, Request, Client
<1> QED
  BY <1>1, <1>2, <1>3 DEF ClientInv, Client

LEMMA PopTaskInv ==
  ASSUME IInv, NEW t \in Processors, PopTask(t)
  PROVE  IInv'
<1> USE CenterRequestsAssumption DEF CenterRequestsAssumption, IInv
<1> DEFINE n == Head(taskQueue)
<1>1. /\ pc[t] = "idle" /\ at[t] = NoNode /\ t \in Threads /\ t \notin Listeners
      /\ taskQueue # <<>>
  BY DEF PopTask, PlaceInv, Threads
<1>2. /\ Len(taskQueue) \in Nat \ {0} /\ n = taskQueue[1]
      /\ taskQueue' = Tail(taskQueue) /\ taskQueue' \in Seq(Nodes)
      /\ Len(taskQueue') = Len(taskQueue) - 1
      /\ \A i \in 1 .. Len(taskQueue') : taskQueue'[i] = taskQueue[i + 1]
      /\ \A i \in 1 .. Len(taskQueue') : i + 1 \in 1 .. Len(taskQueue)
  BY <1>1 DEF PopTask, TypeOK
<1>3. /\ n \in InUse /\ n \in Nodes /\ n # NoNode
      /\ Loaded(n)
      /\ \A s \in Threads : at[s] # n
  BY <1>2 DEF OwnerInv, InUse, RequestInv
<1>4. /\ at' = [at EXCEPT ![t] = n]
      /\ UNCHANGED <<freeNodes, node, conn, history, code, candidate, modules, faults, answer, before>>
  BY DEF PopTask, work, clients
<1>5. PICK w \in {"history", "candidate", "subscribe", "other"} :
        /\ pc' = [pc EXCEPT ![t] = w]
        /\ w = "history" => Body[node[n].body].type = 1
        /\ w = "candidate" => Body[node[n].body].type = 2
        /\ w = "subscribe" => Body[node[n].body].type = 3
  <2> DEFINE type == Body[node[n].body].type
             w == CASE type = 1 -> "history" [] type = 2 -> "candidate"
                    [] type = 3 -> "subscribe" [] OTHER -> "other"
  <2>1. pc' = [pc EXCEPT ![t] = w]
    BY DEF PopTask, Goto
  <2>2. /\ w \in {"history", "candidate", "subscribe", "other"}
        /\ w = "history" => type = 1
        /\ w = "candidate" => type = 2
        /\ w = "subscribe" => type = 3
    <3> HIDE DEF type
    <3> QED
      OBVIOUS
  <2> HIDE DEF w
  <2> QED
    BY <2>1, <2>2
<1> HIDE DEF n
<1>6. /\ pc'[t] = w /\ at'[t] = n /\ InUse' = InUse
      /\ \A s \in Threads \ {t} : pc'[s] = pc[s] /\ at'[s] = at[s]
  BY <1>1, <1>3, <1>4, <1>5 DEF TypeOK, InUse
<1>7. /\ \A s \in Listeners : pc'[s] = pc[s] /\ at'[s] = at[s]
      /\ \A s \in Processors \ {t} : pc'[s] = pc[s] /\ at'[s] = at[s]
  BY <1>1, <1>6 DEF Threads
<1>8. TypeOK'
  <2>1. at' \in [Threads -> Nodes \cup {NoNode}]
    BY <1>3, <1>4 DEF TypeOK
  <2>2. Len(taskQueue) <= QueueSize /\ QueueSize \in Nat
    BY DEF TypeOK
  <2>3. Len(taskQueue') <= QueueSize
    BY <2>2, <1>2
  <2> QED
    BY <1>2, <1>4, <1>5, <2>1, <2>3 DEF TypeOK
<1>9. PlaceInv'
  BY <1>3, <1>4, <1>6, <1>7 DEF PlaceInv, Working
<1>10. OwnerInv'
  <2>1. \A s \in Threads : at'[s] \notin freeNodes'
    BY <1>3, <1>4, <1>6 DEF OwnerInv, InUse
  <2>2. \A s, u \in Threads : at'[s] = at'[u] /\ at'[s] # NoNode => s = u
    BY <1>3, <1>6 DEF OwnerInv
  <2>3. ASSUME NEW i \in 1 .. Len(taskQueue')
        PROVE  taskQueue'[i] \in InUse' /\ \A s \in Threads : at'[s] # taskQueue'[i]
    <3>1. PICK j \in 1 .. Len(taskQueue) : j # 1 /\ taskQueue'[i] = taskQueue[j]
      BY <1>2
    <3>2. taskQueue[j] # n
      BY <1>2, <3>1 DEF OwnerInv
    <3> QED
      BY <3>1, <3>2, <1>6 DEF OwnerInv
  <2>4. \A i, j \in 1 .. Len(taskQueue') : taskQueue'[i] = taskQueue'[j] => i = j
    BY <1>2 DEF OwnerInv
  <2>5. ASSUME NEW m \in InUse
        PROVE  (\E s \in Threads : at'[s] = m) \/ \E i \in 1 .. Len(taskQueue') : taskQueue'[i] = m
    <3>1. CASE m = n
      BY <3>1, <1>1, <1>6
    <3>2. CASE \E s \in Threads : at[s] = m
      <4>1. PICK s \in Threads : at[s] = m
        BY <3>2
      <4>2. s # t
        BY <4>1, <1>1 DEF InUse
      <4> QED
        BY <4>1, <4>2, <1>6
    <3>3. CASE m # n /\ \E i \in 1 .. Len(taskQueue) : taskQueue[i] = m
      <4>1. PICK i \in 1 .. Len(taskQueue) : taskQueue[i] = m /\ i # 1
        BY <3>3, <1>2
      <4>2. i - 1 \in 1 .. Len(taskQueue') /\ taskQueue'[i - 1] = m
        BY <4>1, <1>2
      <4> QED
        BY <4>2
    <3> QED
      BY <3>1, <3>2, <3>3 DEF OwnerInv
  <2> QED
    BY <1>6, <2>1, <2>2, <2>3, <2>4, <2>5 DEF OwnerInv
<1>11. ClientInv'
  BY <1>4, <1>6, <1>7 DEF ClientInv
<1>12. RequestInv'
  BY <1>2, <1>3, <1>4, <1>6, <1>7 DEF RequestInv, Loaded, Request, Client
<1>13. /\ Request(t)' = node[n].request /\ Type(t)' = Body[node[n].body].type
       /\ \A s \in Processors \ {t} : Request(s)' = Request(s) /\ Type(s)' = Type(s)
  BY <1>4, <1>6, <1>7 DEF Request, Type
<1>14. WorkInv'
  <2>1. Done(t)'
    BY <1>5, <1>6, <1>13 DEF Done
  <2>2. \A c, type : Delivered(c, type) => Delivered(c, type)'
    BY <1>4 DEF Delivered, Received
  <2>3. \A s \in Processors \ {t} : Done(s)'
    BY <1>4, <1>7, <1>13, <2>2 DEF Done, WorkInv
  <2> QED
    BY <2>1, <2>3 DEF WorkInv
<1>15. AnswerInv'
  BY <1>4 DEF AnswerInv, Delivered, Received
<1>16. HistoryInv'
  <2>1. \A c, told : Complete(c, told) => Complete(c, told)'
    BY <1>4 DEF Complete, IsAnswer
  <2>2. \A c \in Clients : before'[c] \subseteq Answered'
    BY <1>4 DEF HistoryInv, Answered
  <2>3. ASSUME NEW s \in Processors, pc'[s] \in {"candidate", "modules"}, Type(s)' = 1
        PROVE  Complete(Request(s), history[s])'
    <3>1. s # t
      BY <2>3, <1>5, <1>6, <1>13
    <3>2. Request(s)' = Request(s) /\ Complete(Request(s), history[s])
      BY <2>3, <3>1, <1>7, <1>13 DEF HistoryInv
    <3> QED
      BY <3>2, <1>4 DEF Complete, IsAnswer
  <2> QED
    BY <2>1, <2>2, <2>3, <1>4, <1>6 DEF HistoryInv
<1> QED
  BY <1>8, <1>9, <1>10, <1>11, <1>12, <1>14, <1>15, <1>16 DEF IInv

\* A step of a processor that keeps its node: what is its own must be shown of
\* it, everything else goes on.
LEMMA WorkStep ==
  ASSUME IInv, NEW t \in Processors, pc[t] # "idle", NEW w \in Working, Goto(t, w),
         UNCHANGED <<nodes, at, conn, clients>>,
         Fault \/ UNCHANGED faults,
         history' \in [Processors -> SUBSET Clients],
         code' \in [Processors -> Codes],
         \A s \in Processors \ {t} : history'[s] = history[s] /\ code'[s] = code[s],
         candidate' \in [received : SUBSET Clients, applied : SUBSET Clients],
         candidate.received \subseteq candidate'.received,
         candidate.applied \subseteq candidate'.applied,
         candidate'.applied \subseteq candidate.applied \cup {Request(t)},
         modules' \in [Modules -> SUBSET [update : Clients, action : BOOLEAN,
                                          history : SUBSET Clients]],
         \A m \in Modules : modules[m] \subseteq modules'[m],
         \A m \in Modules : \A r \in modules'[m] \ modules[m] :
           /\ r.update = Request(t) /\ r.update \in candidate.received
           /\ r.action => Complete(r.update, r.history),
         w \in {"candidate", "modules"} /\ Type(t) = 1 => Complete(Request(t), history'[t]),
         Done(t)'
  PROVE  IInv'
<1>1. /\ t \in Threads /\ t \notin Listeners /\ at[t] \in InUse /\ at[t] # NoNode
      /\ Request(t) \in Clients /\ Request(t) = Client(t)
      /\ answer[Request(t)].code = None
  BY WorkerHasRequest
<1> USE DEF IInv
<1>2. /\ pc' = [pc EXCEPT ![t] = w] /\ pc'[t] = w
      /\ \A s \in Listeners : pc'[s] = pc[s]
      /\ \A s \in Processors \ {t} : pc'[s] = pc[s]
  BY <1>1 DEF Goto, TypeOK, Threads
<1>3. UNCHANGED <<freeNodes, node, taskQueue, at, conn, answer, before>>
  BY DEF nodes, clients
<1>4. TypeOK'
  <2>1. faults' \in 0 .. MaxFaults
    BY FaultsAreBounded
  <2>2. pc' \in [Threads -> {"idle", "node", "receive", "push", "history", "candidate",
                             "modules", "subscribe", "other", "wait", "answer"}]
    BY <1>2 DEF TypeOK, Working
  <2> QED
    BY <1>3, <2>1, <2>2 DEF TypeOK
<1>5. PlaceInv'
  BY <1>1, <1>2, <1>3 DEF PlaceInv, Working
<1>6. OwnerInv' /\ InUse' = InUse
  BY <1>3 DEF OwnerInv, InUse
<1>7. ClientInv'
  BY <1>3 DEF ClientInv, InUse
<1>8. RequestInv'
  BY <1>2, <1>3 DEF RequestInv, Loaded, Request, Client
<1>9. \A s \in Processors : Request(s)' = Request(s) /\ Type(s)' = Type(s)
  BY <1>3 DEF Request, Type
<1>10. \A c, type : Delivered(c, type) => Delivered(c, type)'
  BY DEF Delivered, Received
<1>11. WorkInv'
  <2>1. \A s \in Processors \ {t} : Done(s)'
    BY <1>2, <1>9, <1>10 DEF WorkInv, Done
  <2> QED
    BY <2>1 DEF WorkInv
<1>12. AnswerInv'
  BY <1>3, <1>10 DEF AnswerInv
<1>13. HistoryInv'
  <2>1. ASSUME NEW c \in Clients, NEW told, Complete(c, told)
        PROVE  Complete(c, told)'
    <3>1. UNCHANGED before /\ \A d \in Answered : answer'[d] = answer[d]
      BY <1>3
    <3>2. \A d \in candidate'.applied : d \in candidate.applied \/ answer[d].code = None
      BY <1>1
    <3> HIDE DEF IInv
    <3> QED
      BY <2>1, <3>1, <3>2, CompleteStays
  <2>2. \A c \in Clients : before'[c] \subseteq Answered'
    BY <1>3 DEF HistoryInv, Answered
  <2>3. ASSUME NEW s \in Processors, pc'[s] \in {"candidate", "modules"}, Type(s)' = 1
        PROVE  Complete(Request(s), history[s])'
    <3>1. pc[s] # "idle"
      BY <2>3, <1>2
    <3>2. Request(s) \in Clients
      <4> HIDE DEF IInv
      <4> QED
        BY <3>1, WorkerHasRequest
    <3>3. Complete(Request(s), history'[s])
      BY <2>3, <1>2, <1>9 DEF HistoryInv
    <3>4. PICK c, told : c \in Clients /\ c = Request(s) /\ told = history'[s]
      BY <3>2
    <3>5. Complete(c, told)'
      BY <2>1, <3>3, <3>4
    <3> QED
      BY <3>4, <3>5, <1>9 DEF Complete
  <2>4. ASSUME NEW m \in Modules, NEW r \in modules'[m]
        PROVE  /\ answer'[r.update].code # None \/ \E n \in InUse' : node'[n].client = r.update
               /\ r.update \in candidate'.received
               /\ r.action => Complete(r.update, r.history)'
    <3>1. /\ answer[r.update].code # None \/ \E n \in InUse : node[n].client = r.update
          /\ r.update \in candidate.received
          /\ r.action => Complete(r.update, r.history)
      <4>1. CASE r \in modules[m]
        BY <4>1 DEF HistoryInv
      <4>2. CASE r \notin modules[m]
        BY <4>2, <1>1 DEF Client
      <4> QED
        BY <4>1, <4>2
    <3>2. r.update \in Clients
      OBVIOUS
    <3> QED
      BY <3>1, <3>2, <2>1, <1>3, <1>6
  <2> QED
    BY <2>2, <2>3, <2>4 DEF HistoryInv
<1> QED
  BY <1>4, <1>5, <1>6, <1>7, <1>8, <1>11, <1>12, <1>13 DEF IInv

\* Where a processor goes, and which code it takes along.
LEMMA CodeIsSet ==
  ASSUME IInv, NEW t \in Processors, pc[t] # "idle", NEW k \in Codes,
         code' = [code EXCEPT ![t] = k]
  PROVE  /\ code' \in [Processors -> Codes] /\ code'[t] = k
         /\ \A s \in Processors \ {t} : code'[s] = code[s]
BY DEF IInv, TypeOK

LEMMA Arrival ==
  ASSUME IInv, NEW t \in Processors, NEW w, Goto(t, w)
  PROVE  pc'[t] = w
<1>1. t \in Threads
  BY DEF Threads
<1> QED
  BY <1>1 DEF IInv, TypeOK, Goto

LEMMA FailIsDone ==
  ASSUME IInv, NEW t \in Processors, pc[t] # "idle", Fail(t)
  PROVE  /\ Goto(t, "answer") /\ "answer" \in Working /\ Fault
         /\ code' \in [Processors -> Codes]
         /\ \A s \in Processors \ {t} : code'[s] = code[s]
         /\ Done(t)'
<1>1. Goto(t, "answer") /\ Fault /\ code' = [code EXCEPT ![t] = -1]
  BY DEF Fail
<1>2. -1 \in Codes
  BY CodesAreNumbers
<1>3. /\ code' \in [Processors -> Codes] /\ code'[t] = -1
      /\ \A s \in Processors \ {t} : code'[s] = code[s]
  BY <1>1, <1>2, CodeIsSet
<1>4. pc'[t] = "answer"
  BY <1>1, Arrival
<1> QED
  BY <1>1, <1>3, <1>4 DEF Done, None, Working

LEMMA AskHistoryInv ==
  ASSUME IInv, NEW t \in Processors, AskHistory(t)
  PROVE  IInv'
<1>1. /\ pc[t] = "history"
      /\ UNCHANGED <<nodes, at, conn, candidate, modules, clients>>
  BY DEF AskHistory
<1>2. Type(t) = 1 /\ Type(t)' = Type(t) /\ Request(t) \in Clients
  BY <1>1, WorkerHasRequest DEF IInv, WorkInv, Done, Type, nodes
<1>3. /\ history \in [Processors -> SUBSET Clients] /\ code \in [Processors -> Codes]
      /\ candidate \in [received : SUBSET Clients, applied : SUBSET Clients]
      /\ modules \in [Modules -> SUBSET [update : Clients, action : BOOLEAN,
                                         history : SUBSET Clients]]
  BY DEF IInv, TypeOK
<1>4. CASE /\ history' = [history EXCEPT ![t] = ActionsOf(UserOf[Request(t)])]
           /\ Goto(t, "candidate")
           /\ UNCHANGED <<code, faults>>
  <2>1. ActionsOf(UserOf[Request(t)]) \in SUBSET Clients
    BY <1>3 DEF ActionsOf
  <2>2. /\ history' \in [Processors -> SUBSET Clients]
        /\ history'[t] = ActionsOf(UserOf[Request(t)])
        /\ \A s \in Processors \ {t} : history'[s] = history[s]
    BY <1>3, <1>4, <2>1
  <2>3. Complete(Request(t), history'[t])
    BY <2>2 DEF Complete, ActionsOf
  <2>4. pc'[t] = "candidate"
    BY <1>4, Arrival
  <2>5. Done(t)'
    BY <2>4, <1>2 DEF Done
  <2>6. "candidate" \in Working
    BY DEF Working
  <2> QED
    BY <1>1, <1>3, <1>4, <2>2, <2>3, <2>5, <2>6, WorkStep
<1>5. CASE Fail(t) /\ UNCHANGED history
  BY <1>1, <1>3, <1>5, FailIsDone, WorkStep
<1> QED
  BY <1>4, <1>5 DEF AskHistory

LEMMA GetsStep ==
  ASSUME IInv, NEW t \in Processors, pc[t] # "idle",
         NEW received \in SUBSET {Request(t)}, NEW applied \in SUBSET {Request(t)},
         CandidateGets(received, applied)
  PROVE  /\ candidate' \in [received : SUBSET Clients, applied : SUBSET Clients]
         /\ candidate.received \subseteq candidate'.received
         /\ candidate.applied \subseteq candidate'.applied
         /\ candidate'.applied \subseteq candidate.applied \cup {Request(t)}
         /\ candidate'.received = candidate.received \cup received
         /\ candidate'.applied = candidate.applied \cup applied
<1>1. Request(t) \in Clients
  BY WorkerHasRequest
<1>2. candidate.received \subseteq Clients /\ candidate.applied \subseteq Clients
  BY DEF IInv, TypeOK
<1> QED
  BY <1>1, <1>2 DEF CandidateGets

LEMMA UpdateCandidateInv ==
  ASSUME IInv, NEW t \in Processors, UpdateCandidate(t)
  PROVE  IInv'
<1> DEFINE update == {Request(t)}
<1>1. /\ pc[t] = "candidate"
      /\ UNCHANGED <<nodes, at, conn, history, modules, clients>>
  BY DEF UpdateCandidate
<1>2. /\ Type(t) \in {1, 2} /\ Type(t)' = Type(t) /\ Request(t)' = Request(t)
      /\ Type(t) = 1 => Complete(Request(t), history[t])
  BY <1>1 DEF IInv, WorkInv, Done, Type, Request, nodes, HistoryInv
<1>3. /\ history \in [Processors -> SUBSET Clients] /\ code \in [Processors -> Codes]
      /\ modules \in [Modules -> SUBSET [update : Clients, action : BOOLEAN,
                                         history : SUBSET Clients]]
  BY DEF IInv, TypeOK
<1>4. ASSUME NEW applied \in SUBSET update, CandidateGets(update, applied),
             Goto(t, "modules"), Fault \/ UNCHANGED faults, UNCHANGED code
      PROVE  IInv'
  <2>1. /\ candidate' \in [received : SUBSET Clients, applied : SUBSET Clients]
        /\ candidate.received \subseteq candidate'.received
        /\ candidate.applied \subseteq candidate'.applied
        /\ candidate'.applied \subseteq candidate.applied \cup {Request(t)}
        /\ Request(t) \in candidate'.received
    <3>1. pc[t] # "idle" /\ update \in SUBSET {Request(t)} /\ applied \in SUBSET {Request(t)}
      BY <1>1
    <3>2. /\ candidate' \in [received : SUBSET Clients, applied : SUBSET Clients]
          /\ candidate.received \subseteq candidate'.received
          /\ candidate.applied \subseteq candidate'.applied
          /\ candidate'.applied \subseteq candidate.applied \cup {Request(t)}
          /\ candidate'.received = candidate.received \cup update
          /\ candidate'.applied = candidate.applied \cup applied
      BY <1>4, <3>1, GetsStep
    <3> QED
      BY <1>4, <3>2
  <2>2. pc'[t] = "modules"
    BY <1>4, Arrival
  <2>3. Done(t)'
    BY <2>1, <2>2, <1>2 DEF Done
  <2>4. "modules" \in Working
    BY DEF Working
  <2> QED
    BY <1>1, <1>2, <1>3, <1>4, <2>1, <2>3, <2>4, WorkStep
<1>5. ASSUME NEW got \in SUBSET update, CandidateGets(got, got), Fail(t)
      PROVE  IInv'
  <2>1. /\ candidate' \in [received : SUBSET Clients, applied : SUBSET Clients]
        /\ candidate.received \subseteq candidate'.received
        /\ candidate.applied \subseteq candidate'.applied
        /\ candidate'.applied \subseteq candidate.applied \cup {Request(t)}
    BY <1>1, <1>5, GetsStep
  <2> QED
    BY <1>1, <1>3, <1>5, <2>1, FailIsDone, WorkStep
<1> QED
  BY <1>4, <1>5 DEF UpdateCandidate

LEMMA SubscribeInv ==
  ASSUME IInv, NEW t \in Processors, Subscribe(t)
  PROVE  IInv'
<1> DEFINE update == {Request(t)}
<1>1. /\ pc[t] = "subscribe"
      /\ UNCHANGED <<nodes, at, conn, history, modules, clients>>
  BY DEF Subscribe
<1>2. Type(t) = 3 /\ Type(t)' = Type(t) /\ Request(t)' = Request(t)
  BY <1>1 DEF IInv, WorkInv, Done, Type, Request, nodes
<1>3. /\ history \in [Processors -> SUBSET Clients] /\ code \in [Processors -> Codes]
      /\ modules \in [Modules -> SUBSET [update : Clients, action : BOOLEAN,
                                         history : SUBSET Clients]]
  BY DEF IInv, TypeOK
<1>4. ASSUME NEW applied \in SUBSET update, CandidateGets(update, applied),
             NEW k \in {0, Own, Undefined}, k = 0 => applied = update,
             code' = [code EXCEPT ![t] = k], Goto(t, "answer"), Fault \/ UNCHANGED faults
      PROVE  IInv'
  <2>1. /\ candidate' \in [received : SUBSET Clients, applied : SUBSET Clients]
        /\ candidate.received \subseteq candidate'.received
        /\ candidate.applied \subseteq candidate'.applied
        /\ candidate'.applied \subseteq candidate.applied \cup {Request(t)}
        /\ Request(t) \in candidate'.received
        /\ k = 0 => Request(t) \in candidate'.applied
    <3>1. pc[t] # "idle" /\ update \in SUBSET {Request(t)} /\ applied \in SUBSET {Request(t)}
      BY <1>1
    <3>2. /\ candidate' \in [received : SUBSET Clients, applied : SUBSET Clients]
          /\ candidate.received \subseteq candidate'.received
          /\ candidate.applied \subseteq candidate'.applied
          /\ candidate'.applied \subseteq candidate.applied \cup {Request(t)}
          /\ candidate'.received = candidate.received \cup update
          /\ candidate'.applied = candidate.applied \cup applied
      BY <1>4, <3>1, GetsStep
    <3> QED
      BY <1>4, <3>2
  <2>2. pc'[t] = "answer"
    BY <1>4, Arrival
  <2>3. k \in Codes /\ k # None
    BY CodesAreNumbers DEF Own, Undefined, None
  <2>4. /\ code' \in [Processors -> Codes] /\ code'[t] = k
        /\ \A s \in Processors \ {t} : code'[s] = code[s]
    BY <1>1, <1>4, <2>3, CodeIsSet
  <2>5. Done(t)'
    BY <2>1, <2>2, <2>3, <2>4, <1>2 DEF Done, Delivered
  <2>6. "answer" \in Working
    BY DEF Working
  <2> QED
    BY <1>1, <1>3, <1>4, <2>1, <2>4, <2>5, <2>6, WorkStep
<1>5. ASSUME NEW got \in SUBSET update, CandidateGets(got, got), Fail(t)
      PROVE  IInv'
  <2>1. /\ candidate' \in [received : SUBSET Clients, applied : SUBSET Clients]
        /\ candidate.received \subseteq candidate'.received
        /\ candidate.applied \subseteq candidate'.applied
        /\ candidate'.applied \subseteq candidate.applied \cup {Request(t)}
    BY <1>1, <1>5, GetsStep
  <2> QED
    BY <1>1, <1>3, <1>5, <2>1, FailIsDone, WorkStep
<1> QED
  BY <1>4, <1>5 DEF Subscribe, Own, Undefined

\* A request that changes no table is answered.
LEMMA OtherIsAnswered ==
  ASSUME IInv, NEW t \in Processors, pc[t] \in {"other", "wait"},
         code' = [code EXCEPT ![t] = Own], Goto(t, "answer"),
         UNCHANGED <<nodes, at, conn, history, effects, clients>>
  PROVE  IInv'
<1>1. /\ UNCHANGED <<nodes, at, conn, history, candidate, modules, clients>>
      /\ UNCHANGED faults /\ pc[t] # "idle"
  BY DEF effects
<1>2. /\ history \in [Processors -> SUBSET Clients] /\ code \in [Processors -> Codes]
      /\ candidate \in [received : SUBSET Clients, applied : SUBSET Clients]
      /\ modules \in [Modules -> SUBSET [update : Clients, action : BOOLEAN,
                                         history : SUBSET Clients]]
  BY DEF IInv, TypeOK
<1>3. pc'[t] = "answer"
  BY Arrival
<1>4. Own \in Codes /\ Own # None /\ Own # 0
  BY CodesAreNumbers DEF Own, None
<1>5. /\ code' \in [Processors -> Codes] /\ code'[t] = Own
      /\ \A s \in Processors \ {t} : code'[s] = code[s]
  BY <1>1, <1>4, CodeIsSet
<1>6. Done(t)'
  BY <1>3, <1>4, <1>5 DEF Done
<1>7. "answer" \in Working
  BY DEF Working
<1> QED
  BY <1>1, <1>2, <1>5, <1>6, <1>7, WorkStep

LEMMA ProcessOtherInv ==
  ASSUME IInv, NEW t \in Processors, ProcessOther(t)
  PROVE  IInv'
<1>1. pc[t] = "other" /\ UNCHANGED <<nodes, at, conn, history, effects, clients>>
  BY DEF ProcessOther
<1>2. CASE code' = [code EXCEPT ![t] = Own] /\ Goto(t, "answer")
  BY <1>1, <1>2, OtherIsAnswered
<1>3. CASE Goto(t, "wait") /\ UNCHANGED code
  <2>1. /\ UNCHANGED <<nodes, at, conn, history, candidate, modules, clients>>
        /\ UNCHANGED faults /\ pc[t] # "idle"
    BY <1>1 DEF effects
  <2>2. /\ history \in [Processors -> SUBSET Clients] /\ code \in [Processors -> Codes]
        /\ candidate \in [received : SUBSET Clients, applied : SUBSET Clients]
        /\ modules \in [Modules -> SUBSET [update : Clients, action : BOOLEAN,
                                           history : SUBSET Clients]]
    BY DEF IInv, TypeOK
  <2>3. pc'[t] = "wait"
    BY <1>3, Arrival
  <2>4. Done(t)'
    BY <2>3 DEF Done
  <2>5. "wait" \in Working
    BY DEF Working
  <2> QED
    BY <1>3, <2>1, <2>2, <2>4, <2>5, WorkStep
<1> QED
  BY <1>1, <1>2, <1>3 DEF ProcessOther

LEMMA WaitEndsInv ==
  ASSUME IInv, NEW t \in Processors, WaitEnds(t)
  PROVE  IInv'
BY OtherIsAnswered DEF WaitEnds

LEMMA FailedIsACode ==
  ASSUME NEW reached \in SUBSET Modules, NEW ok \in SUBSET reached
  PROVE  /\ Failed(reached, ok) \in Codes /\ Failed(reached, ok) # None
         /\ Failed(reached, ok) = 0 => reached = Modules
<1>1. IsFiniteSet(Modules)
  BY CenterRequestsAssumption DEF CenterRequestsAssumption
<1>2. /\ IsFiniteSet(Modules \ ok) /\ Cardinality(Modules \ ok) <= Cardinality(Modules)
  BY <1>1, FS_Subset
<1>3. Cardinality(Modules \ ok) \in Nat /\ Cardinality(Modules) \in Nat
  BY <1>1, <1>2, FS_CardinalityType
<1>4. Cardinality(Modules \ ok) = 0 => Modules \ ok = {}
  BY <1>2, FS_EmptySet
<1> QED
  BY <1>2, <1>3, <1>4 DEF Failed, Codes, None

LEMMA UpdateModulesInv ==
  ASSUME IInv, NEW t \in Processors, UpdateModules(t)
  PROVE  IInv'
<1> DEFINE R == [update |-> Request(t), action |-> Type(t) = 1, history |-> history[t]]
<1>1. /\ pc[t] = "modules"
      /\ history' = [history EXCEPT ![t] = {}]
      /\ UNCHANGED <<nodes, at, conn, candidate, clients>>
  BY DEF UpdateModules
<1>2. /\ Type(t) \in {1, 2} /\ Type(t)' = Type(t) /\ Request(t)' = Request(t)
      /\ Request(t) \in candidate.received /\ Request(t) \in Clients
      /\ Type(t) = 1 => Complete(Request(t), history[t])
  BY <1>1, WorkerHasRequest DEF IInv, WorkInv, Done, Type, Request, nodes, HistoryInv
<1>3. /\ history \in [Processors -> SUBSET Clients] /\ code \in [Processors -> Codes]
      /\ candidate \in [received : SUBSET Clients, applied : SUBSET Clients]
      /\ modules \in [Modules -> SUBSET [update : Clients, action : BOOLEAN,
                                         history : SUBSET Clients]]
  BY DEF IInv, TypeOK
<1>4. /\ history' \in [Processors -> SUBSET Clients]
      /\ \A s \in Processors \ {t} : history'[s] = history[s]
  BY <1>1, <1>3
<1>5. R \in [update : Clients, action : BOOLEAN, history : SUBSET Clients]
  BY <1>2, <1>3
<1>6. ASSUME NEW reached \in SUBSET Modules, NEW ok \in SUBSET reached,
             Fault \/ UNCHANGED faults,
             modules' = [m \in Modules |-> modules[m] \cup
                           IF m \in reached THEN {R} ELSE {}],
             code' = [code EXCEPT ![t] = Failed(reached, ok)],
             Goto(t, "answer")
      PROVE  IInv'
  <2> DEFINE k == Failed(reached, ok)
  <2>1. /\ code' \in [Processors -> Codes] /\ code'[t] = k /\ k # None
        /\ k = 0 => reached = Modules
        /\ \A s \in Processors \ {t} : code'[s] = code[s]
    <3>1. k \in Codes /\ k # None /\ (k = 0 => reached = Modules)
      BY FailedIsACode
    <3>2. code' = [code EXCEPT ![t] = k]
      BY <1>6
    <3> HIDE DEF k
    <3> QED
      BY <1>1, <3>1, <3>2, CodeIsSet
  <2> HIDE DEF R, k
  <2>2. /\ modules' \in [Modules -> SUBSET [update : Clients, action : BOOLEAN,
                                            history : SUBSET Clients]]
        /\ \A m \in Modules : modules[m] \subseteq modules'[m]
        /\ \A m \in Modules : \A r \in modules'[m] \ modules[m] : r = R
        /\ \A m \in reached : R \in modules'[m]
    BY <1>3, <1>5, <1>6
  <2>3. /\ R.update = Request(t) /\ R.history = history[t]
        /\ R.action => Complete(Request(t), history[t])
    BY <1>2 DEF R
  <2>4. ASSUME NEW m \in Modules, NEW r \in modules'[m] \ modules[m]
        PROVE  /\ r.update = Request(t) /\ r.update \in candidate.received
               /\ r.action => Complete(r.update, r.history)
    BY <2>2, <2>3, <1>2
  <2>5. pc'[t] = "answer"
    BY <1>6, Arrival
  <2>6. k = 0 => \A m \in Modules : Request(t) \in Received(m)'
    BY <2>1, <2>2, <2>3 DEF Received
  <2>7. Done(t)'
    BY <2>1, <2>5, <2>6, <1>1, <1>2 DEF Done, Delivered
  <2>8. "answer" \in Working
    BY DEF Working
  <2>9. /\ candidate.received \subseteq candidate'.received
        /\ candidate.applied \subseteq candidate'.applied
        /\ candidate'.applied \subseteq candidate.applied \cup {Request(t)}
        /\ candidate' = candidate
    BY <1>1
  <2> QED
    BY <1>1, <1>3, <1>4, <1>6, <2>1, <2>2, <2>4, <2>7, <2>8, <2>9, WorkStep
<1>7. CASE Fail(t) /\ UNCHANGED modules
  BY <1>1, <1>3, <1>4, <1>7, FailIsDone, WorkStep
<1> QED
  <2> HIDE DEF R
  <2>1. \/ \E reached \in SUBSET Modules : \E ok \in SUBSET reached :
             /\ Fault \/ UNCHANGED faults
             /\ modules' = [m \in Modules |-> modules[m] \cup
                              IF m \in reached THEN {R} ELSE {}]
             /\ code' = [code EXCEPT ![t] = Failed(reached, ok)]
             /\ Goto(t, "answer")
        \/ Fail(t) /\ UNCHANGED modules
    BY Zenon DEF UpdateModules, R
  <2> QED
    BY <1>6, <1>7, <2>1

LEMMA AnswerStepInv ==
  ASSUME IInv, NEW t \in Processors, Answer(t)
  PROVE  IInv'
<1>1. /\ t \in Threads /\ t \notin Listeners
      /\ at[t] \in InUse /\ at[t] # NoNode
      /\ Request(t) \in Clients /\ Request(t) = Client(t)
      /\ answer[Request(t)].code = None
  BY WorkerHasRequest DEF Answer
<1> USE CenterRequestsAssumption DEF CenterRequestsAssumption, IInv
<1>2. PICK n \in InUse, c \in Clients : n = at[t] /\ c = Request(t)
  BY <1>1
<1> DEFINE a == [to |-> c, body |-> node[n].body, code |-> code[t]]
<1>3. /\ pc[t] = "answer" /\ pc' = [pc EXCEPT ![t] = "idle"]
      /\ answer' = [answer EXCEPT ![c] = a]
      /\ code' = [code EXCEPT ![t] = -1]
      /\ freeNodes' = freeNodes \cup {n}
      /\ at' = [at EXCEPT ![t] = NoNode]
      /\ UNCHANGED <<node, taskQueue, conn, history, candidate, modules, faults, before>>
  BY <1>1, <1>2 DEF Answer, Goto, effects
<1>4. /\ n \in Nodes /\ n # NoNode /\ node[n].client = c /\ answer[c].code = None
      /\ code[t] # None /\ (code[t] = 0 => Delivered(c, Body[node[n].body].type))
  BY <1>1, <1>2, <1>3 DEF InUse, Client, WorkInv, Done, Type, Request
<1>5. a \in Reply
  BY <1>2, <1>4 DEF TypeOK, Reply
<1>6. a.to = c /\ a.body = node[n].body /\ a.code = code[t]
  OBVIOUS
<1> HIDE DEF a
<1>7. /\ pc'[t] = "idle" /\ at'[t] = NoNode
      /\ \A s \in Threads \ {t} : pc'[s] = pc[s] /\ at'[s] = at[s]
      /\ \A s \in Processors \ {t} : code'[s] = code[s]
      /\ answer'[c] = a /\ \A d \in Clients \ {c} : answer'[d] = answer[d]
      /\ InUse' = InUse \ {n}
  BY <1>1, <1>2, <1>3, <1>4 DEF TypeOK, InUse
<1>8. /\ \A s \in Listeners : pc'[s] = pc[s] /\ at'[s] = at[s]
      /\ \A s \in Processors \ {t} : pc'[s] = pc[s] /\ at'[s] = at[s]
  BY <1>1, <1>7 DEF Threads
<1>9. \A s \in Threads \ {t} : at[s] # n
  BY <1>1, <1>2, <1>4 DEF OwnerInv
<1>10. TypeOK'
  <2>1. answer \in [Clients -> Reply]
    BY DEF TypeOK, Reply
  <2>2. answer' \in [Clients -> Reply]
    BY <1>3, <1>5, <2>1
  <2>3. freeNodes' \subseteq Nodes /\ at' \in [Threads -> Nodes \cup {NoNode}]
    BY <1>3, <1>4 DEF TypeOK
  <2>4. code' \in [Processors -> Codes]
    BY <1>3, CodesAreNumbers DEF TypeOK
  <2> QED
    BY <1>3, <2>2, <2>3, <2>4 DEF TypeOK, Reply
<1>11. PlaceInv'
  BY <1>3, <1>7, <1>8 DEF PlaceInv
<1>12. OwnerInv'
  <2>1. \A s \in Threads : at'[s] \notin freeNodes'
    <3>1. freeNodes \subseteq Nodes
      BY DEF TypeOK
    <3>2. NoNode \notin freeNodes'
      BY <1>3, <1>4, <3>1
    <3> QED
      BY <3>2, <1>3, <1>7, <1>9 DEF OwnerInv
  <2>2. \A s, u \in Threads : at'[s] = at'[u] /\ at'[s] # NoNode => s = u
    BY <1>7 DEF OwnerInv
  <2>3. \A i \in 1 .. Len(taskQueue) : taskQueue[i] \in InUse' /\ taskQueue[i] # NoNode
    BY <1>1, <1>2, <1>7 DEF OwnerInv, InUse
  <2>4. \A m \in InUse' : \/ \E s \in Threads : at'[s] = m
                          \/ \E i \in 1 .. Len(taskQueue) : taskQueue[i] = m
    BY <1>2, <1>7 DEF OwnerInv
  <2>5. \A i \in 1 .. Len(taskQueue) : \A s \in Threads : at'[s] # taskQueue[i]
    BY <2>3, <1>7 DEF OwnerInv
  <2> QED
    BY <1>3, <2>1, <2>2, <2>3, <2>4, <2>5 DEF OwnerInv
<1>13. ClientInv'
  <2>1. \A m \in InUse' : m \in InUse /\ m # n /\ node[m].client # c
    BY <1>4, <1>7 DEF ClientInv
  <2>2. \A s \in Listeners : conn[s] # c
    <3> SUFFICES ASSUME NEW s \in Listeners, conn[s] = c PROVE FALSE
      OBVIOUS
    <3>1. c # NoClient
      OBVIOUS
    <3>2. at[s] = n
      BY <3>1, <1>2, <1>4 DEF ClientInv
    <3> QED
      BY <3>2, <1>1, <1>9 DEF Threads
  <2>3. \A s \in Listeners : conn[s] \in Clients \cup {NoClient}
    BY DEF TypeOK
  <2>4. ClientInv
    OBVIOUS
  <2> HIDE DEF IInv
  <2>5. ASSUME NEW m \in InUse'
        PROVE  node[m].client \in Clients /\ answer'[node[m].client].code = None
    <3>1. node[m].client \in Clients \ {c} /\ answer[node[m].client].code = None
      BY <2>1, <2>4 DEF ClientInv
    <3> QED
      BY <3>1, <1>7
  <2>6. (\A m, k \in InUse : node[m].client = node[k].client => m = k)'
    BY <1>3, <2>1, <2>4 DEF ClientInv
  <2>7. (\A s \in Listeners : conn[s] # NoClient =>
           /\ answer[conn[s]].code = None
           /\ \A m \in InUse : node[m].client = conn[s] => at[s] = m)'
    BY <1>3, <1>7, <1>8, <2>1, <2>2, <2>3, <2>4 DEF ClientInv
  <2>8. (\A s \in Listeners : at[s] # NoNode => node[at[s]].client = conn[s])'
    BY <1>3, <1>8, <2>4 DEF ClientInv
  <2>9. (\A s, u \in Listeners : conn[s] = conn[u] /\ conn[s] # NoClient => s = u)'
    BY <1>3, <2>4 DEF ClientInv
  <2> QED
    BY <1>3, <2>5, <2>6, <2>7, <2>8, <2>9 DEF ClientInv
<1>14. RequestInv'
  BY <1>3, <1>7, <1>8 DEF RequestInv, Loaded, Request, Client
<1>15. \A s \in Processors \ {t} : Request(s)' = Request(s) /\ Type(s)' = Type(s)
  BY <1>3, <1>8 DEF Request, Type
<1>16. \A d, type : Delivered(d, type) <=> Delivered(d, type)'
  BY <1>3 DEF Delivered, Received
<1>17. WorkInv'
  <2>1. Done(t)'
    BY <1>7 DEF Done
  <2>2. \A s \in Processors \ {t} : Done(s)'
    BY <1>3, <1>7, <1>8, <1>15, <1>16 DEF WorkInv, Done
  <2> QED
    BY <2>1, <2>2 DEF WorkInv
<1>18. AnswerInv'
  BY <1>3, <1>4, <1>6, <1>7, <1>16 DEF AnswerInv
<1>19. HistoryInv'
  <2>1. \A d \in Answered : answer'[d] = answer[d] /\ d \in Answered'
    BY <1>4, <1>7 DEF Answered
  <2>2. ASSUME NEW d \in Clients, NEW told, Complete(d, told)
        PROVE  Complete(d, told)'
    <3>1. \A e \in candidate'.applied : e \in candidate.applied \/ answer[e].code = None
      BY <1>3
    <3> HIDE DEF IInv
    <3> QED
      BY <2>1, <2>2, <3>1, <1>3, CompleteStays
  <2>3. \A d \in Clients : before'[d] \subseteq Answered'
    BY <1>3, <2>1 DEF HistoryInv
  <2>4. ASSUME NEW s \in Processors, pc'[s] \in {"candidate", "modules"}, Type(s)' = 1
        PROVE  Complete(Request(s), history[s])'
    <3>1. s # t /\ pc[s] # "idle"
      BY <2>4, <1>7, <1>8
    <3>2. Request(s) \in Clients
      <4> HIDE DEF IInv
      <4> QED
        BY <3>1, WorkerHasRequest
    <3>3. Complete(Request(s), history[s])
      BY <2>4, <3>1, <1>8, <1>15 DEF HistoryInv
    <3>4. PICK d, told : d \in Clients /\ d = Request(s) /\ told = history[s]
      BY <3>2
    <3>5. Complete(d, told)'
      BY <2>2, <3>3, <3>4
    <3> QED
      BY <3>1, <3>4, <3>5, <1>3, <1>15 DEF Complete
  <2>5. ASSUME NEW m \in Modules, NEW r \in modules[m]
        PROVE  /\ answer'[r.update].code # None \/ \E k \in InUse' : node[k].client = r.update
               /\ r.update \in candidate.received
               /\ r.action => Complete(r.update, r.history)'
    <3>1. r.update \in Clients
      BY DEF TypeOK
    <3>2. answer'[r.update].code # None \/ \E k \in InUse' : node[k].client = r.update
      BY <3>1, <1>4, <1>6, <1>7 DEF HistoryInv
    <3> QED
      BY <3>1, <3>2, <2>2 DEF HistoryInv
  <2> QED
    BY <1>3, <2>3, <2>4, <2>5 DEF HistoryInv
<1> QED
  BY <1>10, <1>11, <1>12, <1>13, <1>14, <1>17, <1>18, <1>19 DEF IInv
-----------------------------------------------------------------------------
(***************************************************************************)
(* What follows.                                                           *)
(***************************************************************************)
LEMMA StepInv == IInv /\ [Next]_vars => IInv'
<1> SUFFICES ASSUME IInv, [Next]_vars PROVE IInv'
  OBVIOUS
<1>1. CASE \E t \in Listeners : Listen(t) \/ \E c \in Clients : Accept(t, c)
  BY <1>1, AcceptInv, GetTaskNodeInv, ReceiveAndParseInv, PushTaskInv DEF Listen
<1>2. CASE \E t \in Processors : Process(t) \/ WaitEnds(t)
  BY <1>2, PopTaskInv, AskHistoryInv, UpdateCandidateInv, UpdateModulesInv, SubscribeInv,
     ProcessOtherInv, WaitEndsInv, AnswerStepInv DEF Process
<1>3. CASE UNCHANGED vars
  <2>1. UNCHANGED <<freeNodes, node, taskQueue, pc, at, conn, history, code, candidate,
                    modules, faults, answer, before>>
    BY <1>3 DEF vars, nodes, threads, work, effects, clients
  <2>2. TypeOK' /\ PlaceInv' /\ OwnerInv' /\ ClientInv' /\ RequestInv'
    BY <2>1 DEF IInv, TypeOK, PlaceInv, OwnerInv, ClientInv, RequestInv, InUse, Loaded
  <2>3. WorkInv' /\ AnswerInv' /\ HistoryInv'
    BY <2>1 DEF IInv, WorkInv, Done, AnswerInv, Delivered, Received, HistoryInv, Complete,
                IsAnswer, Answered, InUse, Request, Type
  <2> QED
    BY <2>2, <2>3 DEF IInv
<1> QED
  BY <1>1, <1>2, <1>3 DEF Next

LEMMA Invariance == Spec => []IInv
BY InitInv, StepInv, PTL DEF Spec

(***************************************************************************)
(* Every node, thread and history keeps its type, a code is one of the     *)
(* codes a client may get, and m_taskQueue never exceeds fw_queue_size.    *)
(***************************************************************************)
THEOREM TypeCorrect == Spec => []TypeOK
<1>1. IInv => TypeOK
  BY DEF IInv
<1> QED
  BY <1>1, Invariance, PTL

\* Counting the owners of OwnerInv.
LEMMA OwnersAreCounted == IInv => NodesHaveOneOwner
<1> SUFFICES ASSUME IInv, NEW n \in Nodes
             PROVE  LET places == {i \in DOMAIN taskQueue : taskQueue[i] = n}
                        owners == {t \in Threads : at[t] = n}
                    IN  Cardinality(places) + Cardinality(owners)
                          = IF n \in freeNodes THEN 0 ELSE 1
  BY DEF NodesHaveOneOwner
<1> DEFINE places == {i \in DOMAIN taskQueue : taskQueue[i] = n}
           owners == {t \in Threads : at[t] = n}
<1>1. DOMAIN taskQueue = 1 .. Len(taskQueue)
  BY DEF IInv, TypeOK
<1>2. n # NoNode
  BY CenterRequestsAssumption DEF CenterRequestsAssumption
<1>3. Cardinality({}) = 0 /\ \A x : Cardinality({x}) = 1
  BY FS_EmptySet, FS_Singleton
<1>4. CASE n \in freeNodes
  <2>1. places = {} /\ owners = {}
    BY <1>1, <1>4 DEF IInv, OwnerInv, InUse
  <2> HIDE DEF places, owners
  <2> QED
    BY <1>3, <1>4, <2>1 DEF places, owners
<1>5. CASE n \notin freeNodes /\ \E t \in Threads : at[t] = n
  <2>1. PICK t \in Threads : at[t] = n
    BY <1>5
  <2>2. owners = {t} /\ places = {}
    BY <1>1, <1>2, <2>1 DEF IInv, OwnerInv
  <2> QED
    BY <1>3, <1>5, <2>2
<1>6. CASE n \notin freeNodes /\ \E i \in 1 .. Len(taskQueue) : taskQueue[i] = n
  <2>1. PICK i \in 1 .. Len(taskQueue) : taskQueue[i] = n
    BY <1>6
  <2>2. places = {i} /\ owners = {}
    BY <1>1, <2>1 DEF IInv, OwnerInv
  <2> HIDE DEF places, owners
  <2>3. Cardinality(places) = 1 /\ Cardinality(owners) = 0
    BY <1>3, <2>2
  <2>4. Cardinality(places) + Cardinality(owners) = 1
    BY <2>3
  <2> QED
    BY <1>6, <2>4 DEF places, owners
<1> QED
  BY <1>4, <1>5, <1>6 DEF IInv, OwnerInv, InUse

(***************************************************************************)
(* A task node is free, or once in m_taskQueue, or in the hands of one     *)
(* thread_listen or thread_process: never two of these, and never lost.    *)
(***************************************************************************)
THEOREM NodesAreOwned == Spec => []NodesHaveOneOwner
BY OwnersAreCounted, Invariance, PTL

(***************************************************************************)
(* What thread_process writes to the socket of a node is the answer to the *)
(* request of the client of that socket.                                   *)
(***************************************************************************)
THEOREM RepliesAreOwn == Spec => []RepliesGoToTheirClient
<1>1. IInv => RepliesGoToTheirClient
  BY DEF IInv, AnswerInv, RepliesGoToTheirClient
<1> QED
  BY <1>1, Invariance, PTL

(***************************************************************************)
(* The code 0 of process_action, process_document and process_subscribe is *)
(* only sent when the modules have the update.                             *)
(***************************************************************************)
THEOREM ZeroIsEarned == Spec => []CodeZeroMeansAll
<1>1. IInv => CodeZeroMeansAll
  BY DEF IInv, AnswerInv, Delivered, CodeZeroMeansAll, IsAnswer
<1> QED
  BY <1>1, Invariance, PTL

(***************************************************************************)
(* No algorithm module has an update that the candidate module never got,  *)
(* whichever of the two calls of process_action or process_document fails. *)
(***************************************************************************)
THEOREM CandidateComesFirst == Spec => []AlgorithmsFollowCandidate
<1>1. IInv => AlgorithmsFollowCandidate
  BY DEF IInv, HistoryInv, AlgorithmsFollowCandidate, Received
<1> QED
  BY <1>1, Invariance, PTL

(***************************************************************************)
(* The history that process_action sends along with an action has every    *)
(* action of the user that was answered with 0 before this one was         *)
(* accepted, and that the candidate module applied.                        *)
(***************************************************************************)
THEOREM HistoriesAreComplete == Spec => []AnsweredActionIsInHistory
<1>1. IInv => AnsweredActionIsInHistory
  BY DEF IInv, HistoryInv, Complete, AnsweredActionIsInHistory
<1> QED
  BY <1>1, Invariance, PTL


(***************************************************************************)
(* What a processor works on was parsed by parse_json with success: what   *)
(* the last request left in a recycled node is never taken for a request.  *)
(***************************************************************************)
THEOREM OnlyParsedIsProcessed ==
  Spec => [](\A t \in Processors : at[t] # NoNode =>
               /\ Request(t) = Client(t)
               /\ node[at[t]].body \in Bodies \ Refused)
<1>1. IInv => \A t \in Processors : at[t] # NoNode =>
                /\ Request(t) = Client(t)
                /\ node[at[t]].body \in Bodies \ Refused
  BY DEF IInv, RequestInv, Loaded, Request, Client
<1> QED
  BY <1>1, Invariance, PTL

\* A fact about the parser and the offsets of its readers alone: in every
\* request that the parser accepts the members are where they are looked for,
\* and the length of a feedback's list is where its first document is.
LayoutMatches ==
  \A b \in Bodies \ Refused : \A read \in Reads(b) :
    At(ParseJson(Body[b], Room).pieces, read[2]) = Found(b, read[1])

(***************************************************************************)
(* If the layout matches for each request that is accepted, then the       *)
(* loggers and handlers find their fields in whichever recycled node they  *)
(* are given, and process_feedback the length of the list in place of the  *)
(* list: never what an earlier request left there.                         *)
(***************************************************************************)
THEOREM FieldsAreFound ==
  ASSUME LayoutMatches
  PROVE  Spec => []ReadersFindTheirFields
<1>1. IInv => ReadersFindTheirFields
  BY DEF IInv, RequestInv, Loaded, ReadersFindTheirFields, LayoutMatches
<1> QED
  BY <1>1, Invariance, PTL
=============================================================================
