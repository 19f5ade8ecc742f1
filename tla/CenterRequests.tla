--------------------------- MODULE CenterRequests ---------------------------
(***************************************************************************)
(* A request on its way through the center (CF_framework_center.h):        *)
(* thread_listen accepts, receives and parses it into a TASK_NODE and      *)
(* pushes the node to m_taskQueue; thread_process pops it, works on it,    *)
(* answers on the node's socket, closes it and gives the node back.        *)
(*                                                                         *)
(* An action is logged; then the history of its user is asked of the       *)
(* candidate module, the action is sent to the candidate module, and       *)
(* history and action are sent to the algorithm modules.  A document is    *)
(* logged and sent to both.  A subscription goes to the candidate module   *)
(* only, whose code is the answer.  What happens to queries and feedback   *)
(* is in CenterQuery and Feedback; here they are answered, at once or      *)
(* after a wait that may last for ever.                                    *)
(*                                                                         *)
(* m_taskQueue is a FIFO with a blocking push and pop, which is what       *)
(* UT_Queue is proved to implement.  m_cm_update (UC_CenterMessage) is     *)
(* one step here.  The modules are external: the candidate module may not  *)
(* be reached, or its answer may be lost, or it may refuse an update,      *)
(* which only its answer tells.                                            *)
(***************************************************************************)
EXTENDS RequestParser

CONSTANTS Bodies, Body, \* requests, and what the parser sees of each
          Clients,    \* each sends one request
          MaySend,    \* which of them a client may send
          UserOf,     \* the user of a client's request
          Listeners,  \* threads of thread_listen
          Processors, \* threads of thread_process
          Nodes,      \* blocks of m_ma_TN: task nodes
          QueueSize,  \* fw_queue_size
          Room,       \* parse_max, the bytes for a parsed request
          Modules,    \* algorithm modules, fw_calc_num of them
          Refused,    \* the requests that do not fit or cannot be parsed
          MaxFaults,  \* bound: requests, messages and answers that are lost,
                      \* refused or cannot be processed
          NoNode, NoClient, NoBody

ASSUME CenterRequestsAssumption ==
  /\ QueueSize \in Nat \ {0} /\ Room \in Nat /\ MaxFaults \in Nat
  /\ NoNode \notin Nodes /\ NoClient \notin Clients
  /\ IsFiniteSet(Modules)
  /\ Listeners \cap Processors = {}
  /\ MaySend \in [Clients -> SUBSET Bodies]
  /\ Refused = {b \in Bodies : ParseJson(Body[b], Room).code # 0}

VARIABLES freeNodes,
          node,      \* TASK_NODE: the client of its socket, and whose request
                     \* is in its buffers
          taskQueue,
          pc, at,    \* where a thread is, and its node
          conn,      \* the connection a listener has accepted
          history,   \* what a processor was told of the user's actions
          code,      \* the code a processor is going to answer
          candidate, \* updates the candidate module received and applied
          modules,   \* what an algorithm module received, with the history
          faults,    \* how many there were
          answer,    \* history: what was sent to a client
          before     \* history: answered clients when a request came in

nodes == <<freeNodes, node, taskQueue>>
threads == <<pc, at, conn>>
work == <<history, code>>
effects == <<candidate, modules, faults>>
clients == <<answer, before>>
vars == <<nodes, threads, work, effects, clients>>

Threads == Listeners \cup Processors
\* What a client gets: a code -1, 0, 1 ...; the code or the answer of the
\* module; an undefined code; no answer, or none yet.
Own == -2
Undefined == -3
Closed == -4
None == -5
Codes == -5 .. Cardinality(Modules)

\* A node that was never used.
Blank == [client |-> NoClient, request |-> NoClient, body |-> NoBody]

TypeOK ==
  /\ freeNodes \subseteq Nodes
  /\ node \in [Nodes -> [client : Clients \cup {NoClient},
                         request : Clients \cup {NoClient},
                         body : Bodies \cup {NoBody}]]
  /\ taskQueue \in Seq(Nodes) /\ Len(taskQueue) <= QueueSize
  /\ pc \in [Threads -> {"idle", "node", "receive", "push", "history", "candidate",
                         "modules", "subscribe", "other", "wait", "answer"}]
  /\ at \in [Threads -> Nodes \cup {NoNode}]
  /\ conn \in [Listeners -> Clients \cup {NoClient}]
  /\ history \in [Processors -> SUBSET Clients]
  /\ code \in [Processors -> Codes]
  /\ candidate \in [received : SUBSET Clients, applied : SUBSET Clients]
  /\ modules \in [Modules -> SUBSET [update : Clients, action : BOOLEAN,
                                     history : SUBSET Clients]]
  /\ answer \in [Clients -> [to : Clients \cup {NoClient}, body : Bodies \cup {NoBody},
                             code : Codes]]
  /\ before \in [Clients -> SUBSET Clients]
  /\ faults \in 0 .. MaxFaults

Init ==
  /\ freeNodes = Nodes
  /\ node = [n \in Nodes |-> Blank]
  /\ taskQueue = <<>>
  /\ pc = [t \in Threads |-> "idle"]
  /\ at = [t \in Threads |-> NoNode]
  /\ conn = [t \in Listeners |-> NoClient]
  /\ history = [t \in Processors |-> {}]
  /\ code = [t \in Processors |-> -1]
  /\ faults = 0
  /\ candidate = [received |-> {}, applied |-> {}]
  /\ modules = [m \in Modules |-> {}]
  /\ answer = [c \in Clients |-> [to |-> NoClient, body |-> NoBody, code |-> None]]
  /\ before = [c \in Clients |-> {}]

Goto(t, where) == pc' = [pc EXCEPT ![t] = where]
Fault == faults < MaxFaults /\ faults' = faults + 1
Client(t) == node[at[t]].client
Answered == {c \in Clients : answer[c].code # None}
-----------------------------------------------------------------------------
(***************************************************************************)
(* thread_listen.                                                          *)
(***************************************************************************)
Accept(t, c) ==
  /\ pc[t] = "idle" /\ answer[c].code = None
  /\ \A l \in Listeners : conn[l] # c
  /\ \A n \in Nodes \ freeNodes : node[n].client # c
  /\ conn' = [conn EXCEPT ![t] = c]
  /\ before' = [before EXCEPT ![c] = Answered]
  /\ Goto(t, "node")
  /\ UNCHANGED <<nodes, at, work, effects, answer>>

\* get_task_node sleeps until the allocator has a block.  A block comes as
\* its last user left it, but for the lengths.
GetTaskNode(t) ==
  /\ pc[t] = "node"
  /\ \E n \in freeNodes :
       /\ freeNodes' = freeNodes \ {n}
       /\ at' = [at EXCEPT ![t] = n]
       /\ node' = [node EXCEPT ![n].client = conn[t]]
  /\ Goto(t, "receive")
  /\ UNCHANGED <<taskQueue, conn, work, effects, clients>>

ReceiveKeepsNode(t) ==
  /\ pc[t] = "receive"
  /\ \E b \in MaySend[conn[t]] :
       \/ /\ b \notin Refused
          /\ node' = [node EXCEPT ![at[t]].request = conn[t], ![at[t]].body = b]
          /\ Goto(t, "push")
          /\ UNCHANGED <<at, conn, answer, faults>>
       \/ /\ IF b \notin Refused THEN Fault ELSE UNCHANGED faults
          /\ at' = [at EXCEPT ![t] = NoNode]
          /\ answer' = [answer EXCEPT ![conn[t]].code = Closed]
          /\ conn' = [conn EXCEPT ![t] = NoClient]
          /\ Goto(t, "idle")
          /\ UNCHANGED node
  /\ UNCHANGED <<freeNodes, taskQueue, work, candidate, modules, before>>

\* The request is received and parsed; or it was not received or cannot be
\* parsed, and the node is given back and the connection closed.
ReceiveAndParse(t) ==
  /\ pc[t] = "receive"
  /\ \E b \in MaySend[conn[t]] :
       \/ /\ b \notin Refused
          /\ node' = [node EXCEPT ![at[t]].request = conn[t], ![at[t]].body = b]
          /\ Goto(t, "push")
          /\ UNCHANGED <<freeNodes, at, conn, answer, faults>>
       \/ /\ IF b \notin Refused THEN Fault ELSE UNCHANGED faults
          /\ freeNodes' = freeNodes \cup {at[t]}
          /\ at' = [at EXCEPT ![t] = NoNode]
          /\ answer' = [answer EXCEPT ![conn[t]].code = Closed]
          /\ conn' = [conn EXCEPT ![t] = NoClient]
          /\ Goto(t, "idle")
          /\ UNCHANGED node
  /\ UNCHANGED <<taskQueue, work, candidate, modules, before>>

PushTaskUnbounded(t) ==
  /\ pc[t] = "push"
  /\ taskQueue' = Append(taskQueue, at[t])
  /\ at' = [at EXCEPT ![t] = NoNode]
  /\ conn' = [conn EXCEPT ![t] = NoClient]
  /\ Goto(t, "idle")
  /\ UNCHANGED <<freeNodes, node, work, effects, clients>>

PushTaskReleases(t) ==
  /\ pc[t] = "push" /\ Len(taskQueue) < QueueSize
  /\ taskQueue' = Append(taskQueue, at[t])
  /\ freeNodes' = freeNodes \cup {at[t]}
  /\ at' = [at EXCEPT ![t] = NoNode]
  /\ conn' = [conn EXCEPT ![t] = NoClient]
  /\ Goto(t, "idle")
  /\ UNCHANGED <<node, work, effects, clients>>

PushTask(t) ==
  /\ pc[t] = "push" /\ Len(taskQueue) < QueueSize
  /\ taskQueue' = Append(taskQueue, at[t])
  /\ at' = [at EXCEPT ![t] = NoNode]
  /\ conn' = [conn EXCEPT ![t] = NoClient]
  /\ Goto(t, "idle")
  /\ UNCHANGED <<freeNodes, node, work, effects, clients>>

-----------------------------------------------------------------------------
(***************************************************************************)
(* thread_process.                                                         *)
(***************************************************************************)
Request(t) == node[at[t]].request
Type(t) == Body[node[at[t]].body].type
\* An action and a document are logged first; a log file that cannot be
\* opened stops nothing.
PopTask(t) ==
  /\ pc[t] = "idle" /\ taskQueue # <<>>
  /\ taskQueue' = Tail(taskQueue)
  /\ at' = [at EXCEPT ![t] = Head(taskQueue)]
  /\ LET b == node[Head(taskQueue)].body
     IN  Goto(t, CASE Body[b].type = 1 -> "history"
                   [] Body[b].type = 2 -> "candidate"
                   [] Body[b].type = 3 -> "subscribe"
                   [] OTHER -> "other")
  /\ UNCHANGED <<freeNodes, node, conn, work, candidate, modules, faults, clients>>

Fail(t) ==
  /\ Fault
  /\ code' = [code EXCEPT ![t] = -1]
  /\ Goto(t, "answer")

\* The actions in the history of a user, as the candidate module has them.
ActionsOf(user) == {c \in candidate.applied : UserOf[c] = user}

AskHistoryOrNot(t) ==
  /\ pc[t] = "history"
  /\ \/ /\ history' = [history EXCEPT ![t] = ActionsOf(UserOf[Request(t)])]
        /\ UNCHANGED faults
     \/ Fault /\ UNCHANGED history
  /\ Goto(t, "candidate")
  /\ UNCHANGED <<nodes, at, conn, code, candidate, modules, clients>>

\* process_action first asks the candidate module for the user's history.
\* When there is no memory for it, the module cannot be asked, or it answers
\* with nothing at all, the action goes no further.
AskHistory(t) ==
  /\ pc[t] = "history"
  /\ \/ /\ history' = [history EXCEPT ![t] = ActionsOf(UserOf[Request(t)])]
        /\ Goto(t, "candidate")
        /\ UNCHANGED <<code, faults>>
     \/ Fail(t) /\ UNCHANGED history
  /\ UNCHANGED <<nodes, at, conn, candidate, modules, clients>>

\* The candidate module receives an update and applies it, or refuses it; or
\* it is not reached.
CandidateGets(received, applied) ==
  candidate' = [received |-> candidate.received \cup received,
                applied |-> candidate.applied \cup applied]

UpdateCandidateAnyway(t) ==
  /\ pc[t] = "candidate"
  /\ \/ CandidateGets({Request(t)}, {Request(t)}) /\ UNCHANGED faults
     \/ CandidateGets({}, {}) /\ Fault
  /\ Goto(t, "modules")
  /\ UNCHANGED <<nodes, at, conn, work, modules, clients>>

\* Whether the module applied the update is in its answer; nobody looks.
\* Without an answer it may have been applied or not.
UpdateCandidate(t) ==
  /\ pc[t] = "candidate"
  /\ LET update == {Request(t)}
     IN  \/ /\ CandidateGets(update, update)
            /\ Goto(t, "modules")
            /\ UNCHANGED <<code, faults>>
         \/ /\ CandidateGets(update, {})
            /\ Goto(t, "modules")
            /\ Fault
            /\ UNCHANGED code
         \/ /\ CandidateGets({}, {}) \/ CandidateGets(update, update)
            /\ Fail(t)
  /\ UNCHANGED <<nodes, at, conn, history, modules, clients>>

FailedUnlessSilent(reached, ok) == Cardinality(reached \ ok)

\* combine_task of ICM_Update_Processor: how many modules did not answer 0.
Failed(reached, ok) == Cardinality(Modules \ ok)

\* put_message and get_message of m_cm_update.  A message that does not fit is
\* not sent; the answer of a module that applied the update may be lost.
UpdateModules(t) ==
  /\ pc[t] = "modules"
  /\ \/ \E reached \in SUBSET Modules : \E ok \in SUBSET reached :
          /\ IF ok = Modules THEN UNCHANGED faults ELSE Fault
          /\ modules' = [m \in Modules |-> modules[m] \cup
               IF m \in reached
               THEN {[update |-> Request(t), action |-> Type(t) = 1, history |-> history[t]]}
               ELSE {}]
          /\ code' = [code EXCEPT ![t] = Failed(reached, ok)]
          /\ Goto(t, "answer")
     \/ Fail(t) /\ UNCHANGED modules
  /\ history' = [history EXCEPT ![t] = {}]
  /\ UNCHANGED <<nodes, at, conn, candidate, clients>>

\* The answer is the candidate module's code, or what was in recv_buf when
\* the module answered with nothing.
Subscribe(t) ==
  /\ pc[t] = "subscribe"
  /\ LET update == {Request(t)}
         Answers(c) == code' = [code EXCEPT ![t] = c] /\ Goto(t, "answer")
     IN  \/ CandidateGets(update, update) /\ Answers(0) /\ UNCHANGED faults
         \/ CandidateGets(update, {}) /\ Answers(Own) /\ Fault
         \/ CandidateGets(update, {}) /\ Answers(Undefined) /\ Fault
         \/ /\ CandidateGets({}, {}) \/ CandidateGets(update, update)
            /\ Fail(t)
  /\ UNCHANGED <<nodes, at, conn, history, modules, clients>>

\* process_query, a heartbeat and process_feedback do not fail.  But a query
\* waits for its user's flag and for room in m_flushCache, and a query and a
\* client's feedback are repeated to the candidate module until it accepts.
ProcessOther(t) ==
  /\ pc[t] = "other"
  /\ \/ code' = [code EXCEPT ![t] = Own] /\ Goto(t, "answer")
     \/ Type(t) \in {4, 6} /\ Goto(t, "wait") /\ UNCHANGED code
  /\ UNCHANGED <<nodes, at, conn, history, effects, clients>>

WaitEnds(t) ==
  /\ pc[t] = "wait"
  /\ code' = [code EXCEPT ![t] = Own]
  /\ Goto(t, "answer")
  /\ UNCHANGED <<nodes, at, conn, history, effects, clients>>

\* The answer is sent, the connection closed, whether or not the answer went
\* out, and the node given back.
Answer(t) ==
  /\ pc[t] = "answer"
  /\ answer' = [answer EXCEPT ![Client(t)] =
                  [to |-> Request(t), body |-> node[at[t]].body, code |-> code[t]]]
  /\ code' = [code EXCEPT ![t] = -1]
  /\ freeNodes' = freeNodes \cup {at[t]}
  /\ at' = [at EXCEPT ![t] = NoNode]
  /\ Goto(t, "idle")
  /\ UNCHANGED <<node, taskQueue, conn, history, effects, before>>
-----------------------------------------------------------------------------
(***************************************************************************)
(* Where the loggers and handlers of each type of request look for what:   *)
(* save_log_action and process_action; save_log_document, which walks over *)
(* the categories to the words; thread_listen and process_query;           *)
(* process_feedback, which skips the length of the list.  The others only  *)
(* forward the request.                                                    *)
(***************************************************************************)
Reads(b) ==
  CASE Body[b].type = 1 -> {<<"clicktime", 4>>, <<"userid", 8>>, <<"docid", 16>>,
                            <<"action", 28>>}
    [] Body[b].type = 2 ->
         LET texts == Body[b].members.category
         IN  {<<"docid", 4>>, <<"pushtime", 16>>, <<"category", 24>>,
              <<"word", FoldSeq(LAMBDA length, sum : sum + 4 + length, 28, texts)>>}
    [] Body[b].type = 4 -> {<<"log", 4>>, <<"userid", 8>>, <<"requestnum", 16>>}
    [] Body[b].type = 6 -> {<<"userid", 4>>, <<"returnnum", 12>>, <<"docid", 16>>}
    [] OTHER -> {}
-----------------------------------------------------------------------------
Listen(t) == GetTaskNode(t) \/ ReceiveAndParse(t) \/ PushTask(t)

Process(t) ==
  \/ PopTask(t) \/ AskHistory(t) \/ UpdateCandidate(t) \/ UpdateModules(t)
  \/ Subscribe(t) \/ ProcessOther(t) \/ Answer(t)

Next ==
  \/ \E t \in Listeners : Listen(t) \/ \E c \in Clients : Accept(t, c)
  \/ \E t \in Processors : Process(t) \/ WaitEnds(t)

(***************************************************************************)
(* All threads are for(;;) loops, and a peer that does not answer is timed *)
(* out after five seconds (cp_set_overtime).  Nobody has to send a         *)
(* request, and nothing says that the wait of a query or a feedback ends.  *)
(***************************************************************************)
Fairness ==
  /\ \A t \in Listeners : WF_vars(Listen(t))
  /\ \A t \in Processors : WF_vars(Process(t))

Spec == Init /\ [][Next]_vars /\ Fairness
-----------------------------------------------------------------------------
(***************************************************************************)
(* Task nodes carry a request from thread to thread and are recycled.  One *)
(* that is not free is in the queue once or in the hands of one thread,    *)
(* never both and never lost.                                              *)
(***************************************************************************)
NodesHaveOneOwner ==
  \A n \in Nodes :
    LET places == {i \in DOMAIN taskQueue : taskQueue[i] = n}
        owners == {t \in Threads : at[t] = n}
    IN  Cardinality(places) + Cardinality(owners) = IF n \in freeNodes THEN 0 ELSE 1

(***************************************************************************)
(* The answer a client gets is the answer to its own request, although it  *)
(* is written by another thread from a recycled node that still holds the  *)
(* request of an earlier client.                                           *)
(***************************************************************************)
RepliesGoToTheirClient ==
  \A c \in Clients : answer[c].to \in {c, NoClient}

Received(m) == {r.update : r \in modules[m]}
IsAnswer(c, types) == answer[c].code # None /\ answer[c].body # NoBody
                        /\ Body[answer[c].body].type \in types

(***************************************************************************)
(* The code 0 in the answer to an action or a document: the candidate      *)
(* module received it and every algorithm module applied it; in that to a  *)
(* subscription: the candidate module applied it (unless the code is the   *)
(* undefined one, Undefined, that may happen to be 0).                     *)
(***************************************************************************)
CodeZeroMeansAll ==
  \A c \in Clients :
    answer[c].code = 0 =>
      /\ c \in candidate.received
      /\ IsAnswer(c, {1, 2}) => \A m \in Modules : c \in Received(m)
      /\ IsAnswer(c, {3}) => c \in candidate.applied

(***************************************************************************)
(* The two updates are not atomic.  A failure between them leaves the      *)
(* algorithm modules behind the candidate module, never ahead of it.       *)
(***************************************************************************)
AlgorithmsFollowCandidate ==
  \A m \in Modules : Received(m) \subseteq candidate.received

(***************************************************************************)
(* The algorithm modules get an action with the history of its user, which *)
(* was asked for before: other processors may have moved on.  Still every  *)
(* action of the user that was answered with 0 before this one came in,    *)
(* and that the candidate module did not refuse, is in that history.       *)
(***************************************************************************)
AnsweredActionIsInHistory ==
  \A m \in Modules : \A r \in modules[m] : r.action =>
    \A c \in before[r.update] :
      /\ IsAnswer(c, {1}) /\ answer[c].code = 0
      /\ UserOf[c] = UserOf[r.update] /\ c \in candidate.applied
      => c \in r.history

\* What process_feedback finds in place of the first document is the length
\* of the list.
Found(b, what) ==
  IF Body[b].type = 6 /\ what = "docid" THEN "returnlist" ELSE what

(***************************************************************************)
(* The parser writes the members of a request one after the other, and the *)
(* loggers and handlers take them from fixed offsets.  They find what they *)
(* look for, but for the list of a client's feedback: where                *)
(* process_feedback looks for its first document its length stands.        *)
(***************************************************************************)
ReadersFindTheirFields ==
  \A t \in Processors : at[t] # NoNode =>
    LET b == node[at[t]].body
        pieces == ParseJson(Body[b], Room).pieces
    IN  \A read \in Reads(b) :
          At(pieces, read[2]) = Found(b, read[1])

\* The processors that wait, and the one that has the request of c and waits.
Waiting == {t \in Processors : pc[t] = "wait"}
Waits(c) == \E t \in Waiting : Request(t) = c

(***************************************************************************)
(* An accepted connection is answered or closed, with task nodes and queue *)
(* places scarce: listeners that wait for either never wait for each       *)
(* other.  The exception is a wait without end, of the processor that has  *)
(* the request or of all processors; any other wait delays nobody else.    *)
(***************************************************************************)
EveryRequestIsAnswered ==
  \A c \in Clients :
    (\E t \in Listeners : conn[t] = c) ~>
      (answer[c].code # None \/ []Waits(c) \/ [](Waiting = Processors))
=============================================================================
