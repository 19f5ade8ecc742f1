------------------------------ MODULE Feedback ------------------------------
(***************************************************************************)
(* How CF_framework_center.h reports pushed documents to the candidate     *)
(* module, and what of it survives a crash of the center.                  *)
(*                                                                         *)
(* process_feedback, called by thread_process for a query's documents or   *)
(* for a client's message of type 6, first writes a record into the file   *)
(* sync.save (when fw_sync_flag is set) and then repeats                   *)
(* candidate_feedback until the module answers 0.  thread_feedback moves   *)
(* sync.save to sync.send every few seconds, reports what it reads there   *)
(* in the same way, and removes the file; after a restart it finds the     *)
(* files of the run before.                                                *)
(*                                                                         *)
(* A file is the sequence of its 32-bit words.  A record is the user, the  *)
(* length, the documents and a flag; sync.save is opened "rb+" and written *)
(* from its start, so a record lies over the one before.  The C library    *)
(* writes BufLen words at a time, and the rest when the file is closed: a  *)
(* record longer than that is written in parts, of which a failing write   *)
(* or a crash leaves some.  m_sync_lock is held by the thread that writes. *)
(*                                                                         *)
(* The candidate module is external: it may refuse or not answer, and may  *)
(* have recorded a feedback whose answer was lost.                         *)
(***************************************************************************)
EXTENDS Integers, Sequences

CONSTANTS Threads,       \* the threads of thread_process
          Pushes,        \* feedback of queries
          ClientPushes,  \* feedback of clients, messages of type 6
          DocIds,
          Docs,          \* Docs[p]: the documents of a feedback
          SyncFlag,      \* fw_sync_flag
          BufLen,        \* words of the stdio buffer
          MaxCrashes,    \* bound: crashes in a behaviour
          NoPush, NoFile

Feedbacks == Pushes \cup ClientPushes

\* The words of the files: of a user, a length, half an id, half the flag.
Word == ({"uid"} \X Feedbacks) \cup ({"num"} \X Nat) \cup (DocIds \X {1, 2})
        \cup {<<"flag", 1>>, <<"flag", 2>>}

Num(p) == Len(Docs[p])

RecordLen(p) == 2 * Num(p) + 5

\* A query returns six documents at most, its record always fits the buffer.
ASSUME FeedbackAssumption ==
  /\ NoPush \notin Feedbacks /\ Pushes \cap ClientPushes = {}
  /\ Docs \in [Feedbacks -> Seq(DocIds)]
  /\ SyncFlag \in BOOLEAN /\ MaxCrashes \in Nat /\ NoFile \notin Seq(Word)
  /\ BufLen \in Nat /\ BufLen > 3
  /\ \A p \in Pushes : RecordLen(p) <= BufLen

VARIABLES save,      \* the words of sync.save, NoFile if there is none
          send,      \* the words of sync.send
          size,      \* of sync.save when m_sync_lock was taken, -1 without file
          pc, push,  \* where a thread is in process_feedback, and its feedback
          syncer,    \* where thread_feedback is
          reported,  \* the candidate module: the lists it recorded
          begun,     \* history: feedback that was received or taken
          recorded,  \* history: feedback written to sync.save
          replaced,  \* history: feedback another was written over
          crashes

files == <<save, send>>
history == <<begun, recorded, replaced>>
vars == <<files, size, pc, push, syncer, reported, history, crashes>>

\* A 64-bit id is two words: <<d, 1>> and <<d, 2>>.
Words(list) ==
  [i \in 1 .. 2 * Len(list) |-> <<list[(i + 1) \div 2], 2 - (i % 2)>>]

\* What parse_feedback writes behind type, userid and returnnum: the length
\* of the list and the list.
Parsed(p) == <<<<"num", Num(p)>>>> \o Words(Docs[p])

TypeOK ==
  /\ save = NoFile \/ save \in Seq(Word)
  /\ send = NoFile \/ send \in Seq(Word)
  /\ size \in Int
  /\ pc \in [Threads -> {"idle", "record", "write", "report"}]
  /\ push \in [Threads -> Feedbacks \cup {NoPush}]
  /\ syncer \in {"look", "report", "remove"}
  /\ DOMAIN reported = Feedbacks
  /\ \A p \in Feedbacks : \A list \in reported[p] : list \in Seq(Word) /\ Len(list) = 2 * Num(p)
  /\ begun \subseteq Feedbacks /\ recorded \subseteq Feedbacks /\ replaced \subseteq Feedbacks
  /\ crashes \in 0 .. MaxCrashes

Init ==
  /\ save = NoFile /\ send = NoFile /\ size = -1
  /\ pc = [t \in Threads |-> "idle"]
  /\ push = [t \in Threads |-> NoPush]
  /\ syncer = "look"
  /\ reported = [p \in Feedbacks |-> {}]
  /\ begun = {} /\ recorded = {} /\ replaced = {} /\ crashes = 0

Goto(t, where) == pc' = [pc EXCEPT ![t] = where]
-----------------------------------------------------------------------------
(***************************************************************************)
(* Records and files.                                                      *)
(***************************************************************************)
PushListWithNum(p) == Parsed(p)

\* push_lst of process_feedback: for a client's message, returnnum ids from
\* where the length of the list stands.
PushList(p) ==
  IF p \in ClientPushes THEN SubSeq(Parsed(p), 1, 2 * Num(p))
                        ELSE Words(Docs[p])

RecordOf(p) ==
  [i \in 1 .. RecordLen(p) |->
     IF i <= 2 THEN <<"uid", p>>
     ELSE IF i = 3 THEN <<"num", Num(p)>>
     ELSE IF i <= 2 * Num(p) + 3 THEN PushList(p)[i - 3]
     ELSE <<"flag", i - 2 * Num(p) - 3>>]

\* The first n words of p's record are written over a file.
Overwritten(f, p, n) ==
  [i \in 1 .. (IF n > Len(f) THEN n ELSE Len(f)) |->
     IF i <= n THEN RecordOf(p)[i] ELSE f[i]]

\* cp_change_file_size, which does nothing with -1.
Cut(f, n) == IF 0 <= n /\ n < Len(f) THEN SubSeq(f, 1, n) ELSE f

\* p's record is whole at the beginning of a file.
Holds(f, p) ==
  /\ f # NoFile /\ Len(f) >= RecordLen(p)
  /\ \A i \in 1 .. RecordLen(p) : f[i] = RecordOf(p)[i]

Whole(f) == {p \in Feedbacks : Holds(f, p)}

\* thread_feedback reads user and length, and then as many ids and a flag it
\* does not look at.  What follows a record is left of a longer one: half an
\* id stands where a length should, and ends the reading.
Readable(f) ==
  /\ Len(f) >= 3 /\ f[1] \in {"uid"} \X Feedbacks /\ f[3] \in {"num"} \X Nat
  /\ Len(f) >= 2 * f[3][2] + 5

UserOf(f) == f[1][2]

ListOf(f) == [i \in 1 .. 2 * f[3][2] |-> f[i + 3]]

\* cp_fix_file cuts a file behind its last flag.
FlagEnds(f) == {i \in 2 .. Len(f) : f[i - 1] = <<"flag", 1>> /\ f[i] = <<"flag", 2>>}

FixFile(f) ==
  IF f = NoFile THEN {NoFile}
  ELSE {SubSeq(f, 1, i) : i \in {i \in FlagEnds(f) \cup {0} : \A j \in FlagEnds(f) : j <= i}}
-----------------------------------------------------------------------------
(***************************************************************************)
(* process_feedback.                                                       *)
(***************************************************************************)
Begin(t) ==
  /\ pc[t] = "idle"
  /\ \E p \in Feedbacks \ begun :
       /\ push' = [push EXCEPT ![t] = p]
       /\ begun' = begun \cup {p}
  /\ Goto(t, "record")
  /\ UNCHANGED <<files, size, syncer, reported, recorded, replaced, crashes>>

\* Records are only written for lists that are not empty.
IsRecorded(p) == SyncFlag /\ Num(p) > 0

NoRecord(t) ==
  /\ pc[t] = "record" /\ ~IsRecorded(push[t])
  /\ Goto(t, "report")
  /\ UNCHANGED <<files, size, push, syncer, reported, history, crashes>>

SyncIsFree == \A t \in Threads : pc[t] # "write"

\* m_sync_lock is taken and sync.save opened; "wb" makes an empty file.
OpenSave(t) ==
  /\ pc[t] = "record" /\ IsRecorded(push[t])
  /\ SyncIsFree
  /\ size' = IF save = NoFile THEN -1 ELSE Len(save)
  /\ save' = IF save = NoFile THEN <<>> ELSE save
  /\ Goto(t, "write")
  /\ UNCHANGED <<send, push, syncer, reported, history, crashes>>

\* A record that is no longer whole was replaced.
SaveBecomes(f) ==
  /\ save' = f
  /\ replaced' = replaced \cup (Whole(save) \ Whole(f))

\* Full buffers are written as they come, the rest stays in the buffer.
Buffers(p) == {n \in BufLen .. RecordLen(p) - 1 : n % BufLen = 0}

WriteBuffer(t) ==
  /\ pc[t] = "write"
  /\ \E n \in Buffers(push[t]) : SaveBecomes(Overwritten(save, push[t], n))
  /\ UNCHANGED <<send, size, pc, push, syncer, reported, begun, recorded, crashes>>

\* fwrite fails: the file gets its old size and is written anew.
WriteFails(t) ==
  /\ pc[t] = "write" /\ Buffers(push[t]) # {}
  /\ SaveBecomes(Cut(save, size))
  /\ UNCHANGED <<send, size, pc, push, syncer, reported, begun, recorded, crashes>>

\* fclose writes the rest and m_sync_lock is given back.
CloseSave(t) ==
  /\ pc[t] = "write"
  /\ SaveBecomes(Overwritten(save, push[t], RecordLen(push[t])))
  /\ recorded' = recorded \cup {push[t]}
  /\ Goto(t, "report")
  /\ UNCHANGED <<send, size, push, syncer, reported, begun, crashes>>

\* fclose cannot write the rest, which goes unnoticed: there are the full
\* buffers.
CloseFails(t) ==
  /\ pc[t] = "write"
  /\ \E n \in Buffers(push[t]) \cup {0} :
       /\ \A m \in Buffers(push[t]) : m <= n
       /\ SaveBecomes(Overwritten(save, push[t], n))
  /\ Goto(t, "report")
  /\ UNCHANGED <<send, size, push, syncer, reported, begun, recorded, crashes>>

\* The candidate module gets a list of p; it did its part if its answer is lost.
CandidateFeedback(p, list) == reported' = [reported EXCEPT ![p] = @ \cup {list}]

ReportGivesUp(t) ==
  /\ pc[t] = "report"
  /\ CandidateFeedback(push[t], PushList(push[t])) \/ UNCHANGED reported
  /\ Goto(t, "idle")
  /\ push' = [push EXCEPT ![t] = NoPush]
  /\ UNCHANGED <<files, size, syncer, history, crashes>>

Report(t) ==
  /\ pc[t] = "report"
  /\ CandidateFeedback(push[t], PushList(push[t]))
  /\ Goto(t, "idle")
  /\ push' = [push EXCEPT ![t] = NoPush]
  /\ UNCHANGED <<files, size, syncer, history, crashes>>

AnswerLost(t) ==
  /\ pc[t] = "report"
  /\ CandidateFeedback(push[t], PushList(push[t]))
  /\ UNCHANGED <<files, size, pc, push, syncer, history, crashes>>
-----------------------------------------------------------------------------
(***************************************************************************)
(* thread_feedback.                                                        *)
(***************************************************************************)
SyncerGoto(where) == syncer' = where /\ UNCHANGED <<size, pc, push, history, crashes>>

RenameAlways ==
  /\ syncer = "look" /\ SyncIsFree
  /\ save # NoFile
  /\ send' = save /\ save' = NoFile
  /\ SyncerGoto("report")
  /\ UNCHANGED reported

\* A sync.send of an earlier run comes first, and without the lock.
Rename ==
  /\ SyncFlag /\ syncer = "look"
  /\ \/ send # NoFile /\ UNCHANGED files
     \/ send = NoFile /\ save # NoFile /\ SyncIsFree /\ send' = save /\ save' = NoFile
  /\ SyncerGoto("report")
  /\ UNCHANGED reported

CandidateFeedbackOfSend == CandidateFeedback(UserOf(send), ListOf(send))

ReportOnce ==
  /\ syncer = "report"
  /\ SyncerGoto("remove")
  /\ UNCHANGED files
  /\ (Readable(send) /\ CandidateFeedbackOfSend) \/ UNCHANGED reported

\* candidate_feedback for the record, until it succeeds; a file that cannot be
\* read is done with.
ReportSend ==
  /\ syncer = "report"
  /\ \/ Readable(send) /\ CandidateFeedbackOfSend
     \/ ~Readable(send) /\ UNCHANGED reported
  /\ SyncerGoto("remove")
  /\ UNCHANGED files

AnswerToSendLost ==
  /\ syncer = "report" /\ Readable(send)
  /\ CandidateFeedbackOfSend
  /\ UNCHANGED <<files, size, pc, push, syncer, history, crashes>>

Remove ==
  /\ syncer = "remove"
  /\ send' = NoFile
  /\ SyncerGoto("look")
  /\ UNCHANGED <<save, reported>>
-----------------------------------------------------------------------------
\* The center stops and is started again: init_framework has both files cut
\* behind their last flag.
Crash ==
  /\ crashes < MaxCrashes
  /\ crashes' = crashes + 1
  /\ save' \in FixFile(save) /\ send' \in FixFile(send)
  /\ pc' = [t \in Threads |-> "idle"]
  /\ push' = [t \in Threads |-> NoPush]
  /\ syncer' = "look"
  /\ UNCHANGED <<size, reported, history>>

ProcessFeedback(t) == NoRecord(t) \/ OpenSave(t) \/ CloseSave(t) \/ Report(t)

WriteTrouble(t) == WriteBuffer(t) \/ WriteFails(t) \/ CloseFails(t)

Syncer == Rename \/ ReportSend \/ Remove

Next ==
  \/ \E t \in Threads : Begin(t) \/ ProcessFeedback(t) \/ WriteTrouble(t) \/ AnswerLost(t)
  \/ Syncer \/ AnswerToSendLost
  \/ Crash

(***************************************************************************)
(* Threads run on, a file that is written again and again is written at    *)
(* last, and a candidate module that is asked again and again answers at   *)
(* last.  No new feedback is promised, and no crash.                       *)
(***************************************************************************)
Fairness ==
  /\ \A t \in Threads : WF_vars(ProcessFeedback(t))
  /\ WF_vars(Syncer)

Spec == Init /\ [][Next]_vars /\ Fairness
-----------------------------------------------------------------------------
\* The candidate module has what process_feedback was to report of p.
Told(p) == PushList(p) \in reported[p]

(***************************************************************************)
(* The record in sync.send goes away only when the candidate module has    *)
(* all of it, whatever crash came between: thread_feedback neither         *)
(* replaces a file it has not finished nor removes one it could not        *)
(* report, and cp_fix_file does not cut into a record that is whole.       *)
(***************************************************************************)
SendIsReportedBeforeItGoes ==
  [][\A p \in Whole(send) \ Whole(send') : Told(p)']_vars

(***************************************************************************)
(* A record outlives crashes and the failed or torn writes of others: the  *)
(* candidate module gets it, be it after a restart, unless another record  *)
(* was written over it before thread_feedback had moved the file.  As what *)
(* is recorded, replaced and reported only grows, what is true again and   *)
(* again of all records becomes true of each.                              *)
(***************************************************************************)
RecordIsReported ==
  []<>(\A p \in recorded \ replaced : Told(p))

(***************************************************************************)
(* A feedback is lost with a crash at most: whatever was begun is reported *)
(* or some crash came, whether or not its record could be written.         *)
(***************************************************************************)
OnlyCrashesLose ==
  []<>(crashes > 0 \/ \A p \in begun : Told(p))

(***************************************************************************)
(* What the candidate module is told of a query, at once or from the file, *)
(* is the documents of the query, although its record may lie over a       *)
(* longer one, or the half of a longer one over it.                        *)
(***************************************************************************)
QueriesReportedAsPushed == \A p \in Pushes : reported[p] \subseteq {Words(Docs[p])}

(***************************************************************************)
(* The candidate module records the documents of the feedback.  The layout *)
(* parse_feedback documents, "returnlist num(4) docid(8)", has the length  *)
(* of the list before its first document.                                  *)
(***************************************************************************)
ReportedAsPushed ==
  \A p \in Feedbacks : reported[p] \subseteq {Words(Docs[p])}
=============================================================================
