--------------------------- MODULE Feedback_proofs ---------------------------
(***************************************************************************)
(* Theorems about Feedback for any feedback, lists and threads, any size   *)
(* of the stdio buffer and any number of crashes: the safety half of what  *)
(* its temporal properties say, and what is reported of queries.           *)
(***************************************************************************)
EXTENDS Feedback, TLAPS

\* m_sync_lock: one thread writes sync.save, and finds it there.
WriterInv ==
  \A t \in Threads : pc[t] = "write" =>
    /\ save # NoFile
    /\ \A u \in Threads : pc[u] = "write" => u = t

\* thread_feedback works on a file, and removes it only when what is whole in
\* it is reported.
SyncerInv ==
  /\ syncer \in {"report", "remove"} => send # NoFile
  /\ syncer = "remove" => \A p \in Feedbacks : Holds(send, p) => Told(p)

\* A thread in process_feedback, and no other, has a feedback.
ThreadInv == \A t \in Threads : pc[t] = "idle" <=> push[t] = NoPush

\* The length at the beginning of a file is the user's, and a query's record is
\* whole if it begins the file: it is written at once and no longer record
\* is there to tear it without a header of its own.
Headed(f) ==
  \A p \in Feedbacks : Len(f) >= 1 /\ f[1] = <<"uid", p>> =>
    /\ Len(f) >= 3 => f[3] = <<"num", Num(p)>>
    /\ p \in Pushes => Holds(f, p)

FilesInv == \A f \in {save, send} : f # NoFile => Headed(f)

\* The size a failing write goes back to leaves a query's record whole.
SizeInv ==
  \A t \in Threads : pc[t] = "write" =>
    size = -1 \/ \A p \in Pushes : Holds(save, p) => size >= RecordLen(p)

(***************************************************************************)
(* A feedback written to sync.save is whole in one of the files, across    *)
(* every crash, until the candidate module has it, or another record was   *)
(* written over it.                                                        *)
(***************************************************************************)
RecordIsKept ==
  \A p \in recorded : Holds(save, p) \/ Holds(send, p) \/ Told(p) \/ p \in replaced

(***************************************************************************)
(* As long as nothing crashed, a feedback that was taken up is held by a   *)
(* thread until the candidate module has it.                               *)
(***************************************************************************)
BegunIsHeld ==
  crashes = 0 => \A p \in begun : Told(p) \/ \E t \in Threads : push[t] = p

FInv == /\ TypeOK /\ WriterInv /\ SyncerInv /\ ThreadInv /\ FilesInv /\ SizeInv
        /\ RecordIsKept /\ BegunIsHeld /\ QueriesReportedAsPushed
-----------------------------------------------------------------------------
(***************************************************************************)
(* Records and files.                                                      *)
(***************************************************************************)
\* process_feedback sends Num(p) ids of two words, of a query its documents.
LEMMA PushListIsList ==
  ASSUME NEW p \in Feedbacks
  PROVE  /\ Num(p) \in Nat /\ RecordLen(p) \in Nat /\ RecordLen(p) = 2 * Num(p) + 5
         /\ PushList(p) \in Seq(Word) /\ Len(PushList(p)) = 2 * Num(p)
         /\ p \in Pushes => PushList(p) = Words(Docs[p])
<1> DEFINE n == Num(p)
           w == Words(Docs[p])
<1>1. Docs[p] \in Seq(DocIds) /\ n \in Nat
  BY FeedbackAssumption DEF Num
<1>2. w \in Seq(Word) /\ Len(w) = 2 * n
  <2>1. \A i \in 1 .. 2 * n : (i + 1) \div 2 \in 1 .. n /\ 2 - (i % 2) \in {1, 2}
    BY <1>1
  <2>2. \A i \in 1 .. 2 * n : <<Docs[p][(i + 1) \div 2], 2 - (i % 2)>> \in Word
    BY <1>1, <2>1 DEF Num, Word
  <2>3. w = [i \in 1 .. 2 * n |-> <<Docs[p][(i + 1) \div 2], 2 - (i % 2)>>]
    BY DEF Words, Num
  <2>4. w \in [1 .. 2 * n -> Word] /\ 2 * n \in Nat
    BY <1>1, <2>2, <2>3
  <2> QED
    BY <2>4
<1>3. Parsed(p) \in Seq(Word) /\ Len(Parsed(p)) = 2 * n + 1
  <2>1. <<"num", n>> \in Word
    BY <1>1 DEF Word
  <2>2. <<<<"num", n>>>> \in Seq(Word) /\ Len(<<<<"num", n>>>>) = 1
    BY <2>1
  <2> HIDE DEF w
  <2> QED
    BY <1>1, <1>2, <2>2 DEF Parsed, w
<1>4. SubSeq(Parsed(p), 1, 2 * n) \in Seq(Word) /\ Len(SubSeq(Parsed(p), 1, 2 * n)) = 2 * n
  BY <1>1, <1>3
<1>5. p \in Pushes => p \notin ClientPushes
  BY FeedbackAssumption
<1> QED
  BY <1>1, <1>2, <1>4, <1>5 DEF PushList, RecordLen

\* The words of a record.
LEMMA RecordWords ==
  ASSUME NEW p \in Feedbacks
  PROVE  /\ RecordLen(p) \in Nat /\ RecordLen(p) >= 5
         /\ RecordOf(p) \in Seq(Word) /\ Len(RecordOf(p)) = RecordLen(p)
         /\ RecordOf(p)[1] = <<"uid", p>> /\ RecordOf(p)[3] = <<"num", Num(p)>>
         /\ \A i \in 1 .. 2 * Num(p) : RecordOf(p)[i + 3] = PushList(p)[i]
         /\ RecordOf(p)[RecordLen(p) - 1] = <<"flag", 1>>
         /\ RecordOf(p)[RecordLen(p)] = <<"flag", 2>>
<1> DEFINE n == Num(p)
           L == RecordLen(p)
<1>1. /\ n \in Nat /\ L \in Nat /\ L = 2 * n + 5
      /\ PushList(p) \in Seq(Word) /\ Len(PushList(p)) = 2 * n
  BY PushListIsList
<1>2. \A i \in 1 .. 2 * n : PushList(p)[i] \in Word
  BY <1>1
<1>3. /\ <<"uid", p>> \in Word /\ <<"num", n>> \in Word
      /\ <<"flag", 1>> \in Word /\ <<"flag", 2>> \in Word
  BY <1>1 DEF Word
<1> HIDE DEF n, L
<1>4. /\ \A i \in 1 .. L : RecordOf(p)[i] = IF i <= 2 THEN <<"uid", p>>
                           ELSE IF i = 3 THEN <<"num", n>>
                           ELSE IF i <= 2 * n + 3 THEN PushList(p)[i - 3]
                           ELSE <<"flag", i - 2 * n - 3>>
      /\ DOMAIN RecordOf(p) = 1 .. L
  BY DEF RecordOf, n, L
<1>5. \A i \in 1 .. L : RecordOf(p)[i] \in Word
  <2> SUFFICES ASSUME NEW i \in 1 .. L PROVE RecordOf(p)[i] \in Word
    OBVIOUS
  <2>1. CASE i <= 3
    BY <1>3, <1>4, <2>1
  <2>2. CASE i > 3 /\ i <= 2 * n + 3
    <3>1. i - 3 \in 1 .. 2 * n
      BY <1>1, <2>2
    <3> QED
      BY <1>1, <1>2, <1>4, <2>2, <3>1
  <2>3. CASE i > 2 * n + 3
    <3>1. /\ i - 2 * n - 3 = 1 \/ i - 2 * n - 3 = 2
          /\ ~(i <= 2) /\ i # 3 /\ ~(i <= 2 * n + 3)
      BY <1>1, <2>3
    <3>2. RecordOf(p)[i] = <<"flag", i - 2 * n - 3>>
      BY <1>4, <3>1, Zenon
    <3> QED
      BY <1>3, <3>1, <3>2
  <2> QED
    BY <1>1, <2>1, <2>2, <2>3
<1>6. RecordOf(p) \in [1 .. L -> Word]
  BY <1>4, <1>5 DEF RecordOf, L
<1>7. /\ RecordOf(p)[1] = <<"uid", p>> /\ RecordOf(p)[3] = <<"num", n>>
      /\ RecordOf(p)[L - 1] = <<"flag", 1>> /\ RecordOf(p)[L] = <<"flag", 2>>
  <2>1. 1 \in 1 .. L /\ 3 \in 1 .. L /\ L - 1 \in 1 .. L /\ L \in 1 .. L
    BY <1>1
  <2>2. L - 1 - 2 * n - 3 = 1 /\ L - 2 * n - 3 = 2 /\ L - 1 > 2 * n + 3 /\ L - 1 > 3
    BY <1>1
  <2> QED
    BY <1>1, <1>4, <2>1, <2>2
<1>8. \A i \in 1 .. 2 * n : RecordOf(p)[i + 3] = PushList(p)[i]
  <2> SUFFICES ASSUME NEW i \in 1 .. 2 * n PROVE RecordOf(p)[i + 3] = PushList(p)[i]
    OBVIOUS
  <2>1. i + 3 \in 1 .. L /\ i + 3 > 3 /\ i + 3 <= 2 * n + 3 /\ (i + 3) - 3 = i
    BY <1>1
  <2> QED
    BY <1>4, <2>1
<1>9. L >= 5 /\ RecordOf(p) \in Seq(Word) /\ Len(RecordOf(p)) = L
  BY <1>1, <1>6
<1> QED
  BY <1>1, <1>7, <1>8, <1>9 DEF n, L

\* What writing the first n words of a record over a file makes of the file.
LEMMA OverwrittenFile ==
  ASSUME NEW f \in Seq(Word), NEW p \in Feedbacks, NEW n \in 0 .. RecordLen(p)
  PROVE  /\ Overwritten(f, p, n) \in Seq(Word)
         /\ Len(Overwritten(f, p, n)) >= n
         /\ n = 0 => Overwritten(f, p, n) = f
         /\ n >= 1 => Overwritten(f, p, n)[1] = <<"uid", p>>
         /\ n >= 3 => Overwritten(f, p, n)[3] = <<"num", Num(p)>>
         /\ n = RecordLen(p) => Holds(Overwritten(f, p, n), p)
<1> DEFINE g == Overwritten(f, p, n)
           r == RecordOf(p)
           L == IF n > Len(f) THEN n ELSE Len(f)
<1>1. /\ RecordLen(p) \in Nat /\ RecordLen(p) >= 5
      /\ r \in Seq(Word) /\ Len(r) = RecordLen(p)
      /\ r[1] = <<"uid", p>> /\ r[3] = <<"num", Num(p)>>
  BY RecordWords
<1>2. g = [i \in 1 .. L |-> IF i <= n THEN r[i] ELSE f[i]]
  BY DEF Overwritten
<1> HIDE DEF r, g
<1>3. L \in Nat /\ L >= n /\ L >= Len(f) /\ (n = 0 => L = Len(f))
  BY <1>1
<1>4. \A i \in 1 .. L : (IF i <= n THEN r[i] ELSE f[i]) \in Word
  BY <1>1, <1>3
<1>5. g \in [1 .. L -> Word]
  BY <1>2, <1>4
<1> HIDE DEF L
<1>6. g \in Seq(Word) /\ Len(g) = L
  BY <1>3, <1>5
<1>7. \A i \in 1 .. n : g[i] = r[i]
  BY <1>1, <1>2, <1>3
<1>8. ASSUME n = 0 PROVE g = f
  <2>1. \A i \in 1 .. L : g[i] = f[i]
    BY <1>2, <1>3, <1>8
  <2>2. f = [i \in 1 .. L |-> f[i]] /\ g = [i \in 1 .. L |-> g[i]]
    BY <1>3, <1>5, <1>8
  <2> QED
    BY <2>1, <2>2
<1>9. ASSUME n = RecordLen(p) PROVE Holds(g, p)
  <2>1. g # NoFile
    BY <1>6, FeedbackAssumption
  <2> QED
    BY <1>1, <1>3, <1>6, <1>7, <1>9, <2>1 DEF Holds, r
<1>10. (n >= 1 => g[1] = r[1]) /\ (n >= 3 => g[3] = r[3])
  BY <1>1, <1>7
<1> QED
  BY <1>1, <1>3, <1>6, <1>8, <1>9, <1>10 DEF g

\* A beginning of a file, as cp_change_file_size and cp_fix_file leave it.
LEMMA FilePrefix ==
  ASSUME NEW f \in Seq(Word), NEW n \in 0 .. Len(f)
  PROVE  /\ SubSeq(f, 1, n) \in Seq(Word) /\ SubSeq(f, 1, n) # NoFile
         /\ Len(SubSeq(f, 1, n)) = n
         /\ \A i \in 1 .. n : SubSeq(f, 1, n)[i] = f[i]
         /\ \A p \in Feedbacks : Holds(SubSeq(f, 1, n), p) => Holds(f, p)
         /\ \A p \in Feedbacks : Holds(f, p) /\ RecordLen(p) <= n => Holds(SubSeq(f, 1, n), p)
<1> DEFINE g == SubSeq(f, 1, n)
<1>1. g \in Seq(Word) /\ Len(g) = n /\ \A i \in 1 .. n : g[i] = f[i]
  OBVIOUS
<1> HIDE DEF g
<1>2. g # NoFile /\ f # NoFile
  BY <1>1, FeedbackAssumption
<1>3. ASSUME NEW p \in Feedbacks, Holds(g, p) PROVE Holds(f, p)
  <2>1. RecordLen(p) \in Nat
    BY RecordWords
  <2> QED
    BY <1>1, <1>2, <1>3, <2>1 DEF Holds
<1>4. ASSUME NEW p \in Feedbacks, Holds(f, p), RecordLen(p) <= n PROVE Holds(g, p)
  <2>1. RecordLen(p) \in Nat
    BY RecordWords
  <2> QED
    BY <1>1, <1>2, <1>4, <2>1 DEF Holds
<1> QED
  BY <1>1, <1>2, <1>3, <1>4 DEF g

\* cp_fix_file keeps every record that is whole, for it ends in a flag.
LEMMA FixKeepsRecords ==
  ASSUME NEW f, f = NoFile \/ f \in Seq(Word), NEW g \in FixFile(f)
  PROVE  /\ f = NoFile <=> g = NoFile
         /\ g = NoFile \/ g \in Seq(Word)
         /\ \A p \in Feedbacks : Holds(f, p) <=> Holds(g, p)
         /\ f # NoFile /\ Headed(f) => Headed(g)
<1>1. CASE f = NoFile
  BY <1>1 DEF FixFile, Holds
<1>2. CASE f \in Seq(Word)
  <2>1. f # NoFile
    BY <1>2, FeedbackAssumption
  <2>2. PICK n \in FlagEnds(f) \cup {0} :
          (\A j \in FlagEnds(f) : j <= n) /\ g = SubSeq(f, 1, n)
    BY <2>1 DEF FixFile
  <2>3. n \in 0 .. Len(f)
    BY <1>2, <2>2 DEF FlagEnds
  <2>4. /\ g \in Seq(Word) /\ g # NoFile /\ Len(g) = n
        /\ \A i \in 1 .. n : g[i] = f[i]
        /\ \A p \in Feedbacks : Holds(g, p) => Holds(f, p)
        /\ \A p \in Feedbacks : Holds(f, p) /\ RecordLen(p) <= n => Holds(g, p)
    BY <1>2, <2>2, <2>3, FilePrefix
  <2>5. ASSUME NEW p \in Feedbacks, Holds(f, p) PROVE Holds(g, p)
    <3>1. /\ RecordLen(p) \in Nat /\ RecordLen(p) >= 5
          /\ RecordOf(p)[RecordLen(p) - 1] = <<"flag", 1>>
          /\ RecordOf(p)[RecordLen(p)] = <<"flag", 2>>
      BY RecordWords
    <3>2. /\ RecordLen(p) \in 2 .. Len(f)
          /\ f[RecordLen(p) - 1] = <<"flag", 1>> /\ f[RecordLen(p)] = <<"flag", 2>>
      BY <1>2, <2>5, <3>1 DEF Holds
    <3>3. RecordLen(p) \in FlagEnds(f)
      BY <3>2 DEF FlagEnds
    <3> QED
      BY <2>2, <2>4, <2>5, <3>3
  <2>6. Headed(f) => Headed(g)
    <3> SUFFICES ASSUME Headed(f), NEW p \in Feedbacks, Len(g) >= 1, g[1] = <<"uid", p>>
                 PROVE  /\ Len(g) >= 3 => g[3] = <<"num", Num(p)>>
                        /\ p \in Pushes => Holds(g, p)
      BY DEF Headed
    <3>1. Len(f) >= 1 /\ f[1] = <<"uid", p>> /\ (n >= 3 => Len(f) >= 3 /\ g[3] = f[3])
      BY <1>2, <2>3, <2>4
    <3> QED
      BY <2>4, <2>5, <3>1 DEF Headed
  <2> QED
    BY <2>1, <2>4, <2>5, <2>6
<1> QED
  BY <1>1, <1>2

\* thread_feedback finds a record that is whole, and no other list for a query.
LEMMA ReadsRecords ==
  ASSUME NEW f \in Seq(Word)
  PROVE  /\ \A p \in Feedbacks :
              Holds(f, p) => Readable(f) /\ UserOf(f) = p /\ ListOf(f) = PushList(p)
         /\ Headed(f) /\ Readable(f) =>
              /\ UserOf(f) \in Feedbacks
              /\ ListOf(f) \in Seq(Word) /\ Len(ListOf(f)) = 2 * Num(UserOf(f))
              /\ UserOf(f) \in Pushes => ListOf(f) = PushList(UserOf(f))
<1>1. ASSUME NEW p \in Feedbacks, Holds(f, p)
      PROVE  Readable(f) /\ UserOf(f) = p /\ ListOf(f) = PushList(p)
  <2>1. /\ Num(p) \in Nat /\ RecordLen(p) = 2 * Num(p) + 5
        /\ PushList(p) \in Seq(Word) /\ Len(PushList(p)) = 2 * Num(p)
    BY PushListIsList
  <2>2. /\ Len(f) >= RecordLen(p)
        /\ \A i \in 1 .. RecordLen(p) : f[i] = RecordOf(p)[i]
    BY <1>1 DEF Holds
  <2>3. f[1] = <<"uid", p>> /\ f[3] = <<"num", Num(p)>>
    <3>1. 1 \in 1 .. RecordLen(p) /\ 3 \in 1 .. RecordLen(p)
      BY <2>1
    <3> QED
      BY <2>2, <3>1, RecordWords
  <2>4. \A i \in 1 .. 2 * Num(p) : f[i + 3] = PushList(p)[i]
    <3>1. \A i \in 1 .. 2 * Num(p) : i + 3 \in 1 .. RecordLen(p)
      BY <2>1
    <3> QED
      BY <2>2, <3>1, RecordWords
  <2>5. Readable(f) /\ UserOf(f) = p
    BY <2>1, <2>2, <2>3 DEF Readable, UserOf
  <2>6. ListOf(f) = [i \in 1 .. 2 * Num(p) |-> f[i + 3]]
    BY <2>3 DEF ListOf
  <2>7. PushList(p) = [i \in 1 .. 2 * Num(p) |-> PushList(p)[i]]
    BY <2>1
  <2> QED
    BY <2>4, <2>5, <2>6, <2>7
<1>2. ASSUME Headed(f), Readable(f)
      PROVE  /\ UserOf(f) \in Feedbacks
             /\ ListOf(f) \in Seq(Word) /\ Len(ListOf(f)) = 2 * Num(UserOf(f))
             /\ UserOf(f) \in Pushes => ListOf(f) = PushList(UserOf(f))
  <2>1. PICK p \in Feedbacks : f[1] = <<"uid", p>>
    BY <1>2 DEF Readable
  <2>2. f[3] = <<"num", Num(p)>> /\ UserOf(f) = p /\ Len(f) >= 3
    BY <1>2, <2>1 DEF Headed, Readable, UserOf
  <2>3. Num(p) \in Nat /\ Len(f) >= 2 * Num(p) + 5
    BY <1>2, <2>2, PushListIsList DEF Readable
  <2>4. \A i \in 1 .. 2 * Num(p) : f[i + 3] \in Word
    BY <2>3
  <2>5. ListOf(f) = [i \in 1 .. 2 * Num(p) |-> f[i + 3]]
    BY <2>2 DEF ListOf
  <2>6. ListOf(f) \in Seq(Word) /\ Len(ListOf(f)) = 2 * Num(p)
    BY <2>3, <2>4, <2>5
  <2>7. p \in Pushes => Holds(f, p)
    BY <1>2, <2>1, <2>2 DEF Headed
  <2> QED
    BY <1>1, <2>2, <2>6, <2>7
<1> QED
  BY <1>1, <1>2

\* A record is laid over a file with its header, a query's at once.
LEMMA OverwrittenIsHeaded ==
  ASSUME NEW f \in Seq(Word), Headed(f), NEW p \in Feedbacks, NEW n \in 0 .. RecordLen(p),
         n = 0 \/ n >= 3, p \in Pushes => n \in {0, RecordLen(p)}
  PROVE  /\ Headed(Overwritten(f, p, n))
         /\ \A q \in Feedbacks : Holds(Overwritten(f, p, n), q) => n = 0 \/ q = p
<1> DEFINE g == Overwritten(f, p, n)
<1>1. /\ g \in Seq(Word) /\ (n = 0 => g = f)
      /\ n >= 1 => g[1] = <<"uid", p>>
      /\ n >= 3 => g[3] = <<"num", Num(p)>>
      /\ n = RecordLen(p) => Holds(g, p)
  BY OverwrittenFile
<1> HIDE DEF g
<1>2. Headed(g)
  <2>1. CASE n = 0
    BY <1>1, <2>1
  <2>2. CASE n >= 3
    <3> SUFFICES ASSUME NEW q \in Feedbacks, g[1] = <<"uid", q>>
                 PROVE  g[3] = <<"num", Num(q)>> /\ (q \in Pushes => Holds(g, q))
      BY DEF Headed
    <3>1. q = p
      BY <1>1, <2>2
    <3> QED
      BY <1>1, <2>2, <3>1
  <2> QED
    BY <2>1, <2>2
<1>3. ASSUME NEW q \in Feedbacks, Holds(g, q), n # 0 PROVE q = p
  <2>1. g[1] = <<"uid", q>>
    <3>1. 1 \in 1 .. RecordLen(q) /\ RecordOf(q)[1] = <<"uid", q>>
      BY RecordWords
    <3> QED
      BY <1>3, <3>1 DEF Holds
  <2>2. n >= 1
    BY <1>3
  <2> QED
    BY <1>1, <2>1, <2>2
<1> QED
  BY <1>2, <1>3 DEF g
-----------------------------------------------------------------------------
(***************************************************************************)
(* The steps.                                                              *)
(***************************************************************************)
\* A report adds one list to what the candidate module has of one feedback.
LEMMA CandidateFeedbackAdds ==
  ASSUME TypeOK, QueriesReportedAsPushed, NEW p \in Feedbacks,
         NEW list \in Seq(Word), Len(list) = 2 * Num(p),
         p \in Pushes => list = PushList(p), CandidateFeedback(p, list)
  PROVE  /\ DOMAIN reported' = Feedbacks
         /\ \A q \in Feedbacks : \A l \in reported'[q] : l \in Seq(Word) /\ Len(l) = 2 * Num(q)
         /\ list \in reported'[p]
         /\ \A q \in Feedbacks : Told(q) => Told(q)'
         /\ QueriesReportedAsPushed'
<1>1. DOMAIN reported = Feedbacks
  BY DEF TypeOK
<1>2. /\ DOMAIN reported' = Feedbacks /\ reported'[p] = reported[p] \cup {list}
      /\ \A q \in Feedbacks : q # p => reported'[q] = reported[q]
  BY <1>1 DEF CandidateFeedback
<1>3. \A q \in Feedbacks : reported[q] \subseteq reported'[q]
  BY <1>2
<1>4. ASSUME NEW q \in Feedbacks, NEW l \in reported'[q]
      PROVE  l \in Seq(Word) /\ Len(l) = 2 * Num(q)
  BY <1>2, <1>4 DEF TypeOK
<1>5. \A q \in Feedbacks : Told(q) => Told(q)'
  BY <1>3 DEF Told
<1>6. QueriesReportedAsPushed'
  <2>1. p \in Pushes => list = Words(Docs[p])
    BY PushListIsList
  <2> QED
    BY <1>2, <2>1 DEF QueriesReportedAsPushed, Feedbacks
<1> QED
  BY <1>2, <1>4, <1>5, <1>6

LEMMA InitFInv == Init => FInv
<1> SUFFICES ASSUME Init PROVE FInv
  OBVIOUS
<1>1. TypeOK
  BY FeedbackAssumption DEF Init, TypeOK
<1>2. WriterInv /\ SyncerInv /\ ThreadInv /\ SizeInv
  BY DEF Init, WriterInv, SyncerInv, ThreadInv, SizeInv
<1>3. FilesInv /\ RecordIsKept /\ BegunIsHeld
  BY DEF Init, FilesInv, RecordIsKept, BegunIsHeld
<1>4. QueriesReportedAsPushed
  BY DEF Init, QueriesReportedAsPushed, Feedbacks
<1> QED
  BY <1>1, <1>2, <1>3, <1>4 DEF FInv

\* What the steps of the thread that writes sync.save have in common.
LEMMA WriteKeepsFInv ==
  ASSUME FInv, NEW t \in Threads, pc[t] = "write", NEW f \in Seq(Word), Headed(f),
         SaveBecomes(f),
         \/ pc' = pc /\ (size = -1 \/ \A p \in Pushes : Holds(f, p) => size >= RecordLen(p))
         \/ pc' = [pc EXCEPT ![t] = "report"],
         recorded' = recorded \/ (recorded' = recorded \cup {push[t]} /\ Holds(f, push[t])),
         UNCHANGED <<send, size, push, syncer, reported, begun, crashes>>
  PROVE  FInv'
<1> USE DEF FInv
<1>1. push[t] \in Feedbacks /\ save' = f /\ f # NoFile
  BY FeedbackAssumption DEF TypeOK, ThreadInv, SaveBecomes
<1>2. /\ replaced \subseteq replaced' /\ replaced' \subseteq Feedbacks
      /\ \A p \in Feedbacks : Holds(save, p) => Holds(f, p) \/ p \in replaced'
  BY DEF SaveBecomes, Whole, TypeOK
<1>3. /\ pc' \in [Threads -> {"idle", "record", "write", "report"}]
      /\ \A u \in Threads : pc'[u] = "write" => pc[u] = "write" /\ pc' = pc
      /\ \A u \in Threads : pc'[u] = "idle" <=> pc[u] = "idle"
  <2>1. \A u \in Threads : pc[u] = "write" => u = t
    BY DEF WriterInv
  <2> QED
    BY <2>1 DEF TypeOK
<1>4. TypeOK'
  BY <1>1, <1>2, <1>3 DEF TypeOK
<1>5. WriterInv' /\ ThreadInv'
  BY <1>1, <1>3 DEF WriterInv, ThreadInv
<1>6. SyncerInv'
  BY DEF SyncerInv, Told
<1>7. FilesInv'
  BY <1>1 DEF FilesInv, Headed
<1>8. SizeInv'
  <2> SUFFICES ASSUME NEW u \in Threads, pc'[u] = "write"
               PROVE  size = -1 \/ \A p \in Pushes : Holds(f, p) => size >= RecordLen(p)
    BY <1>1 DEF SizeInv
  <2>1. pc' = pc
    BY <1>3
  <2>2. pc'[t] = "write"
    BY <2>1
  <2> QED
    BY <2>1, <2>2 DEF TypeOK
<1>9. RecordIsKept'
  <2> SUFFICES ASSUME NEW p \in recorded'
               PROVE  Holds(f, p) \/ Holds(send, p) \/ Told(p) \/ p \in replaced'
    BY <1>1 DEF RecordIsKept, Told
  <2>1. CASE p \in recorded
    <3>1. p \in Feedbacks
      BY <2>1 DEF TypeOK
    <3> QED
      BY <1>2, <2>1, <3>1 DEF RecordIsKept
  <2> QED
    BY <2>1
<1>10. BegunIsHeld' /\ QueriesReportedAsPushed'
  BY DEF BegunIsHeld, QueriesReportedAsPushed, Told
<1> QED
  BY <1>4, <1>5, <1>6, <1>7, <1>8, <1>9, <1>10

LEMMA NextFInv == FInv /\ [Next]_vars => FInv'
<1> SUFFICES ASSUME FInv, [Next]_vars PROVE FInv'
  OBVIOUS
<1> USE DEF FInv
<1>1. ASSUME NEW t \in Threads, Begin(t) PROVE FInv'
  <2>1. PICK p \in Feedbacks \ begun :
          push' = [push EXCEPT ![t] = p] /\ begun' = begun \cup {p}
    BY <1>1 DEF Begin
  <2>2. /\ pc[t] = "idle" /\ pc' = [pc EXCEPT ![t] = "record"]
        /\ UNCHANGED <<save, send, size, syncer, reported, recorded, replaced, crashes>>
    BY <1>1 DEF Begin, files, Goto
  <2>3. TypeOK' /\ ThreadInv'
    BY <2>1, <2>2, FeedbackAssumption DEF TypeOK, ThreadInv
  <2>4. WriterInv' /\ SizeInv'
    BY <2>2 DEF TypeOK, WriterInv, SizeInv
  <2>5. SyncerInv' /\ FilesInv' /\ RecordIsKept' /\ QueriesReportedAsPushed'
    BY <2>2 DEF SyncerInv, FilesInv, RecordIsKept, QueriesReportedAsPushed, Told
  <2>6. BegunIsHeld'
    <3>1. push[t] \notin begun
      BY <2>2, FeedbackAssumption DEF ThreadInv, TypeOK
    <3>2. /\ push'[t] = p
          /\ \A u \in Threads : push[u] \in begun => push'[u] = push[u]
      BY <2>1, <3>1 DEF TypeOK
    <3>3. SUFFICES ASSUME crashes = 0, NEW q \in begun, ~Told(q)
                   PROVE  \E u \in Threads : push'[u] = q
      BY <2>1, <2>2, <3>2 DEF BegunIsHeld, Told
    <3> QED
      BY <3>2, <3>3 DEF BegunIsHeld
  <2> QED
    BY <2>3, <2>4, <2>5, <2>6
<1>2. ASSUME NEW t \in Threads, NoRecord(t) PROVE FInv'
  <2>1. /\ pc[t] = "record" /\ pc' = [pc EXCEPT ![t] = "report"]
        /\ UNCHANGED <<save, send, size, push, syncer, reported, begun, recorded, replaced, crashes>>
    BY <1>2 DEF NoRecord, Goto, files, history
  <2>2. TypeOK' /\ ThreadInv' /\ WriterInv' /\ SizeInv'
    BY <2>1 DEF TypeOK, ThreadInv, WriterInv, SizeInv
  <2>3. SyncerInv' /\ FilesInv' /\ RecordIsKept' /\ BegunIsHeld' /\ QueriesReportedAsPushed'
    BY <2>1 DEF SyncerInv, FilesInv, RecordIsKept, BegunIsHeld, QueriesReportedAsPushed, Told
  <2> QED
    BY <2>2, <2>3
<1>3. ASSUME NEW t \in Threads, OpenSave(t) PROVE FInv'
  <2>1. /\ pc[t] = "record" /\ pc' = [pc EXCEPT ![t] = "write"]
        /\ \A u \in Threads : pc[u] # "write"
        /\ size' = IF save = NoFile THEN -1 ELSE Len(save)
        /\ save' = IF save = NoFile THEN <<>> ELSE save
        /\ UNCHANGED <<send, push, syncer, reported, begun, recorded, replaced, crashes>>
    BY <1>3 DEF OpenSave, Goto, SyncIsFree, history
  <2>2. /\ save' \in Seq(Word) /\ save' # NoFile /\ size' \in Int
        /\ save = NoFile => save' = <<>>
        /\ save # NoFile => save' = save
    <3>1. <<>> \in Seq(Word)
      OBVIOUS
    <3>2. CASE save = NoFile
      <4>1. save' = <<>> /\ size' = -1
        BY <2>1, <3>2
      <4>2. save' # NoFile
        BY <3>1, <4>1, FeedbackAssumption
      <4> QED
        BY <3>1, <3>2, <4>1, <4>2
    <3>3. CASE save # NoFile
      <4>1. save' = save /\ size' = Len(save) /\ save \in Seq(Word)
        BY <2>1, <3>3 DEF TypeOK
      <4> QED
        BY <3>3, <4>1
    <3> QED
      BY <3>2, <3>3
  <2>3. \A p \in Feedbacks : Holds(save, p) => Holds(save', p)
    BY <2>2 DEF Holds
  <2>4. TypeOK' /\ ThreadInv' /\ WriterInv'
    BY <2>1, <2>2 DEF TypeOK, ThreadInv, WriterInv
  <2>5. SizeInv'
    <3>1. CASE save = NoFile
      BY <2>1, <3>1 DEF SizeInv
    <3>2. CASE save # NoFile
      <4>1. size' = Len(save') /\ \A p \in Pushes : Holds(save', p) => size' >= RecordLen(p)
        BY <2>1, <3>2 DEF Holds
      <4> QED
        BY <4>1 DEF SizeInv
    <3> QED
      BY <3>1, <3>2
  <2>6. FilesInv'
    <3>1. Headed(save')
      <4>1. CASE save = NoFile
        BY <2>2, <4>1 DEF Headed
      <4>2. CASE save # NoFile
        BY <2>2, <4>2 DEF FilesInv
      <4> QED
        BY <4>1, <4>2
    <3>2. send # NoFile => Headed(send)
      BY DEF FilesInv
    <3> QED
      BY <2>1, <3>1, <3>2 DEF FilesInv, Headed
  <2>7. RecordIsKept'
    BY <2>1, <2>3 DEF RecordIsKept, Told, TypeOK
  <2>8. SyncerInv' /\ BegunIsHeld' /\ QueriesReportedAsPushed'
    BY <2>1 DEF SyncerInv, BegunIsHeld, QueriesReportedAsPushed, Told
  <2> QED
    BY <2>4, <2>5, <2>6, <2>7, <2>8
<1>4. ASSUME NEW t \in Threads, pc[t] = "write"
      PROVE  /\ push[t] \in Feedbacks /\ save \in Seq(Word) /\ save # NoFile /\ Headed(save)
             /\ RecordLen(push[t]) \in Nat /\ RecordLen(push[t]) >= 5
             /\ \A n \in Buffers(push[t]) :
                  n \in 3 .. RecordLen(push[t]) - 1 /\ push[t] \notin Pushes
  <2>1. push[t] \in Feedbacks /\ save \in Seq(Word) /\ save # NoFile
    BY <1>4 DEF TypeOK, ThreadInv, WriterInv
  <2>2. Headed(save)
    BY <2>1 DEF FilesInv
  <2>3. RecordLen(push[t]) \in Nat /\ RecordLen(push[t]) >= 5
    BY <2>1, RecordWords
  <2>4. ASSUME NEW n \in Buffers(push[t])
        PROVE  n \in 3 .. RecordLen(push[t]) - 1 /\ push[t] \notin Pushes
    <3>1. n \in BufLen .. RecordLen(push[t]) - 1
      BY <2>4 DEF Buffers
    <3> QED
      BY <2>3, <3>1, FeedbackAssumption
  <2> QED
    BY <2>1, <2>2, <2>3, <2>4
<1>5. ASSUME NEW t \in Threads, WriteBuffer(t) PROVE FInv'
  <2>1. /\ pc[t] = "write" /\ pc' = pc /\ recorded' = recorded
        /\ UNCHANGED <<send, size, push, syncer, reported, begun, crashes>>
    BY <1>5 DEF WriteBuffer
  <2>2. PICK n \in Buffers(push[t]) : SaveBecomes(Overwritten(save, push[t], n))
    BY <1>5 DEF WriteBuffer
  <2>3. /\ push[t] \in Feedbacks /\ push[t] \notin Pushes /\ save \in Seq(Word) /\ Headed(save)
        /\ n \in 0 .. RecordLen(push[t]) /\ n >= 3
    <3>1. /\ push[t] \in Feedbacks /\ save \in Seq(Word) /\ Headed(save)
          /\ RecordLen(push[t]) \in Nat
      BY <1>4, <2>1
    <3>2. n \in 3 .. RecordLen(push[t]) - 1 /\ push[t] \notin Pushes
      BY <1>4, <2>1, <2>2
    <3> QED
      BY <3>1, <3>2
  <2>4. Overwritten(save, push[t], n) \in Seq(Word)
    BY <2>3, OverwrittenFile
  <2>5. /\ Headed(Overwritten(save, push[t], n))
        /\ \A p \in Pushes : ~Holds(Overwritten(save, push[t], n), p)
    BY <2>3, OverwrittenIsHeaded DEF Feedbacks
  <2> QED
    BY <2>1, <2>2, <2>4, <2>5, WriteKeepsFInv
<1>6. ASSUME NEW t \in Threads, WriteFails(t) PROVE FInv'
  <2> DEFINE f == Cut(save, size)
  <2>1. /\ pc[t] = "write" /\ pc' = pc /\ recorded' = recorded /\ SaveBecomes(f)
        /\ UNCHANGED <<send, size, push, syncer, reported, begun, crashes>>
    BY <1>6 DEF WriteFails
  <2>2. save \in Seq(Word) /\ save # NoFile /\ Headed(save) /\ size \in Int
    BY <1>4, <2>1 DEF TypeOK
  <2>3. size = -1 \/ \A p \in Pushes : Holds(save, p) => size >= RecordLen(p)
    BY <2>1 DEF SizeInv
  <2>4. CASE f = save
    <3>1. f \in Seq(Word) /\ Headed(f)
      BY <2>2, <2>4
    <3>2. size = -1 \/ \A p \in Pushes : Holds(f, p) => size >= RecordLen(p)
      BY <2>3, <2>4
    <3> HIDE DEF f
    <3> QED
      BY <2>1, <3>1, <3>2, WriteKeepsFInv
  <2>5. CASE f # save
    <3>1. size \in 0 .. Len(save) /\ f = SubSeq(save, 1, size)
      BY <2>2, <2>5 DEF Cut
    <3>2. /\ f \in Seq(Word) /\ Len(f) = size /\ \A i \in 1 .. size : f[i] = save[i]
          /\ \A p \in Feedbacks : Holds(f, p) => Holds(save, p)
          /\ \A p \in Feedbacks : Holds(save, p) /\ RecordLen(p) <= size => Holds(f, p)
      BY <2>2, <3>1, FilePrefix
    <3>3. \A p \in Pushes : Holds(save, p) => size >= RecordLen(p) /\ RecordLen(p) <= size
      <4>1. ASSUME NEW p \in Pushes, Holds(save, p)
            PROVE  size >= RecordLen(p) /\ RecordLen(p) <= size
        <5>1. size >= RecordLen(p)
          BY <2>3, <3>1, <4>1
        <5>2. RecordLen(p) \in Nat
          BY RecordWords DEF Feedbacks
        <5> QED
          BY <2>2, <5>1, <5>2
      <4> QED
        BY <4>1
    <3> HIDE DEF f
    <3>4. Headed(f)
      <4> SUFFICES ASSUME NEW p \in Feedbacks, Len(f) >= 1, f[1] = <<"uid", p>>
                   PROVE  /\ Len(f) >= 3 => f[3] = <<"num", Num(p)>>
                          /\ p \in Pushes => Holds(f, p)
        BY DEF Headed
      <4>1. /\ Len(save) >= 1 /\ save[1] = <<"uid", p>>
            /\ Len(f) >= 3 => Len(save) >= 3 /\ f[3] = save[3]
        BY <2>2, <3>1, <3>2
      <4> QED
        BY <2>2, <3>2, <3>3, <4>1 DEF Headed
    <3>5. \A p \in Pushes : Holds(f, p) => size >= RecordLen(p)
      BY <3>2, <3>3 DEF Feedbacks
    <3> QED
      BY <2>1, <3>2, <3>4, <3>5, WriteKeepsFInv
  <2> QED
    BY <2>4, <2>5
<1>7. ASSUME NEW t \in Threads, CloseSave(t) PROVE FInv'
  <2> DEFINE p == push[t]
             f == Overwritten(save, p, RecordLen(p))
  <2>1. /\ pc[t] = "write" /\ pc' = [pc EXCEPT ![t] = "report"] /\ SaveBecomes(f)
        /\ recorded' = recorded \cup {p}
        /\ UNCHANGED <<send, size, push, syncer, reported, begun, crashes>>
    BY <1>7 DEF CloseSave, Goto
  <2>2. /\ p \in Feedbacks /\ save \in Seq(Word) /\ Headed(save)
        /\ RecordLen(p) \in 0 .. RecordLen(p) /\ RecordLen(p) >= 3
    BY <1>4, <2>1
  <2>3. f \in Seq(Word) /\ Holds(f, p)
    BY <2>2, OverwrittenFile
  <2>4. Headed(f)
    BY <2>2, OverwrittenIsHeaded
  <2> HIDE DEF f
  <2> QED
    BY <2>1, <2>3, <2>4, WriteKeepsFInv
<1>8. ASSUME NEW t \in Threads, CloseFails(t) PROVE FInv'
  <2>1. /\ pc[t] = "write" /\ pc' = [pc EXCEPT ![t] = "report"] /\ recorded' = recorded
        /\ UNCHANGED <<send, size, push, syncer, reported, begun, crashes>>
    BY <1>8 DEF CloseFails, Goto
  <2>2. PICK n \in Buffers(push[t]) \cup {0} : SaveBecomes(Overwritten(save, push[t], n))
    BY <1>8 DEF CloseFails
  <2>3. /\ push[t] \in Feedbacks /\ save \in Seq(Word) /\ Headed(save)
        /\ n \in 0 .. RecordLen(push[t])
        /\ n = 0 \/ (n >= 3 /\ push[t] \notin Pushes)
    BY <1>4, <2>1, <2>2
  <2>4. Overwritten(save, push[t], n) \in Seq(Word)
    BY <2>3, OverwrittenFile
  <2>5. Headed(Overwritten(save, push[t], n))
    BY <2>3, OverwrittenIsHeaded
  <2> QED
    BY <2>1, <2>2, <2>4, <2>5, WriteKeepsFInv
<1>9. ASSUME NEW t \in Threads, NEW p \in Feedbacks, pc[t] = "report", push[t] = p,
             CandidateFeedback(p, PushList(p))
      PROVE  /\ DOMAIN reported' = Feedbacks
             /\ \A q \in Feedbacks : \A l \in reported'[q] : l \in Seq(Word) /\ Len(l) = 2 * Num(q)
             /\ Told(p)'
             /\ \A q \in Feedbacks : Told(q) => Told(q)'
             /\ QueriesReportedAsPushed'
  <2>1. PushList(p) \in Seq(Word) /\ Len(PushList(p)) = 2 * Num(p)
    BY PushListIsList
  <2>2. /\ DOMAIN reported' = Feedbacks
        /\ \A q \in Feedbacks : \A l \in reported'[q] : l \in Seq(Word) /\ Len(l) = 2 * Num(q)
        /\ PushList(p) \in reported'[p]
        /\ \A q \in Feedbacks : Told(q) => Told(q)'
        /\ QueriesReportedAsPushed'
    BY <1>9, <2>1, CandidateFeedbackAdds
  <2> QED
    BY <2>2 DEF Told
<1>10. ASSUME NEW t \in Threads, Report(t) PROVE FInv'
  <2>1. /\ pc[t] = "report" /\ pc' = [pc EXCEPT ![t] = "idle"]
        /\ push' = [push EXCEPT ![t] = NoPush]
        /\ UNCHANGED <<save, send, size, syncer, begun, recorded, replaced, crashes>>
    BY <1>10 DEF Report, Goto, files, history
  <2>2. PICK p \in Feedbacks : push[t] = p /\ CandidateFeedback(p, PushList(p))
    BY <1>10, <2>1 DEF Report, TypeOK, ThreadInv
  <2>3. /\ DOMAIN reported' = Feedbacks
        /\ \A q \in Feedbacks : \A l \in reported'[q] : l \in Seq(Word) /\ Len(l) = 2 * Num(q)
        /\ Told(p)'
        /\ \A q \in Feedbacks : Told(q) => Told(q)'
        /\ QueriesReportedAsPushed'
    BY <1>9, <2>1, <2>2
  <2>4. TypeOK' /\ ThreadInv'
    BY <2>1, <2>3, FeedbackAssumption DEF TypeOK, ThreadInv
  <2>5. WriterInv' /\ SizeInv'
    BY <2>1 DEF TypeOK, WriterInv, SizeInv
  <2>6. SyncerInv' /\ FilesInv' /\ RecordIsKept'
    BY <2>1, <2>3 DEF SyncerInv, FilesInv, RecordIsKept, TypeOK
  <2>7. BegunIsHeld'
    BY <2>1, <2>2, <2>3 DEF BegunIsHeld, TypeOK
  <2> QED
    BY <2>3, <2>4, <2>5, <2>6, <2>7
<1>11. ASSUME NEW t \in Threads, AnswerLost(t) PROVE FInv'
  <2>1. /\ pc[t] = "report"
        /\ UNCHANGED <<save, send, size, pc, push, syncer, begun, recorded, replaced, crashes>>
    BY <1>11 DEF AnswerLost, files, history
  <2>2. PICK p \in Feedbacks : push[t] = p /\ CandidateFeedback(p, PushList(p))
    BY <1>11, <2>1 DEF AnswerLost, TypeOK, ThreadInv
  <2>3. /\ DOMAIN reported' = Feedbacks
        /\ \A q \in Feedbacks : \A l \in reported'[q] : l \in Seq(Word) /\ Len(l) = 2 * Num(q)
        /\ \A q \in Feedbacks : Told(q) => Told(q)'
        /\ QueriesReportedAsPushed'
    BY <1>9, <2>1, <2>2
  <2>4. TypeOK' /\ ThreadInv' /\ WriterInv' /\ SizeInv'
    BY <2>1, <2>3 DEF TypeOK, ThreadInv, WriterInv, SizeInv
  <2>5. SyncerInv' /\ FilesInv' /\ RecordIsKept' /\ BegunIsHeld'
    BY <2>1, <2>3 DEF SyncerInv, FilesInv, RecordIsKept, BegunIsHeld, TypeOK
  <2> QED
    BY <2>3, <2>4, <2>5
<1>12. CASE Rename
  <2>1. /\ syncer' = "report"
        /\ UNCHANGED <<size, pc, push, begun, recorded, replaced, crashes, reported>>
        /\ \/ send # NoFile /\ save' = save /\ send' = send
           \/ /\ send = NoFile /\ save # NoFile /\ SyncIsFree
              /\ send' = save /\ save' = NoFile
    BY <1>12 DEF Rename, SyncerGoto, files, history
  <2>2. TypeOK' /\ SyncerInv' /\ ThreadInv' /\ FilesInv'
    BY <2>1 DEF TypeOK, SyncerInv, ThreadInv, FilesInv, Headed
  <2>3. WriterInv' /\ SizeInv'
    BY <2>1 DEF WriterInv, SizeInv, SyncIsFree
  <2>4. RecordIsKept'
    BY <2>1 DEF RecordIsKept, Holds, Told
  <2>5. BegunIsHeld' /\ QueriesReportedAsPushed'
    BY <2>1 DEF BegunIsHeld, QueriesReportedAsPushed, Told
  <2> QED
    BY <2>2, <2>3, <2>4, <2>5
<1>13. ASSUME syncer = "report", Readable(send), CandidateFeedbackOfSend
       PROVE  /\ DOMAIN reported' = Feedbacks
              /\ \A q \in Feedbacks : \A l \in reported'[q] : l \in Seq(Word) /\ Len(l) = 2 * Num(q)
              /\ \A p \in Feedbacks : Holds(send, p) => Told(p)'
              /\ \A q \in Feedbacks : Told(q) => Told(q)'
              /\ QueriesReportedAsPushed'
  <2>1. send \in Seq(Word) /\ Headed(send)
    BY <1>13 DEF TypeOK, SyncerInv, FilesInv
  <2>2. /\ UserOf(send) \in Feedbacks
        /\ ListOf(send) \in Seq(Word) /\ Len(ListOf(send)) = 2 * Num(UserOf(send))
        /\ UserOf(send) \in Pushes => ListOf(send) = PushList(UserOf(send))
        /\ \A p \in Feedbacks : Holds(send, p) =>
             UserOf(send) = p /\ ListOf(send) = PushList(p)
    BY <1>13, <2>1, ReadsRecords
  <2>3. CandidateFeedback(UserOf(send), ListOf(send))
    BY <1>13 DEF CandidateFeedbackOfSend
  <2>4. /\ DOMAIN reported' = Feedbacks
        /\ \A q \in Feedbacks : \A l \in reported'[q] : l \in Seq(Word) /\ Len(l) = 2 * Num(q)
        /\ ListOf(send) \in reported'[UserOf(send)]
        /\ \A q \in Feedbacks : Told(q) => Told(q)'
        /\ QueriesReportedAsPushed'
    BY <2>2, <2>3, CandidateFeedbackAdds
  <2>5. \A p \in Feedbacks : Holds(send, p) => PushList(p) \in reported'[p]
    BY <2>2, <2>4
  <2> QED
    BY <2>4, <2>5 DEF Told
<1>14. CASE ReportSend
  <2>1. /\ syncer = "report" /\ syncer' = "remove"
        /\ UNCHANGED <<save, send, size, pc, push, begun, recorded, replaced, crashes>>
        /\ \/ Readable(send) /\ CandidateFeedbackOfSend
           \/ ~Readable(send) /\ UNCHANGED reported
    BY <1>14 DEF ReportSend, SyncerGoto, files, history
  <2>2. send \in Seq(Word)
    BY <2>1 DEF TypeOK, SyncerInv
  <2>3. \A p \in Feedbacks : Holds(send, p) => Readable(send)
    BY <2>2, ReadsRecords
  <2>4. /\ DOMAIN reported' = Feedbacks
        /\ \A q \in Feedbacks : \A l \in reported'[q] : l \in Seq(Word) /\ Len(l) = 2 * Num(q)
        /\ \A p \in Feedbacks : Holds(send, p) => Told(p)'
        /\ \A q \in Feedbacks : Told(q) => Told(q)'
        /\ QueriesReportedAsPushed'
    <3>1. CASE Readable(send) /\ CandidateFeedbackOfSend
      BY <1>13, <2>1, <3>1
    <3>2. CASE ~Readable(send) /\ UNCHANGED reported
      BY <2>3, <3>2 DEF TypeOK, Told, QueriesReportedAsPushed
    <3> QED
      BY <2>1, <3>1, <3>2
  <2>5. TypeOK' /\ ThreadInv' /\ WriterInv' /\ SizeInv'
    BY <2>1, <2>4 DEF TypeOK, ThreadInv, WriterInv, SizeInv
  <2>6. SyncerInv' /\ FilesInv' /\ RecordIsKept' /\ BegunIsHeld'
    BY <2>1, <2>4 DEF SyncerInv, FilesInv, RecordIsKept, BegunIsHeld, TypeOK
  <2> QED
    BY <2>4, <2>5, <2>6
<1>15. CASE AnswerToSendLost
  <2>1. /\ syncer = "report" /\ Readable(send) /\ CandidateFeedbackOfSend
        /\ UNCHANGED <<save, send, size, pc, push, syncer, begun, recorded, replaced, crashes>>
    BY <1>15 DEF AnswerToSendLost, files, history
  <2>2. /\ DOMAIN reported' = Feedbacks
        /\ \A q \in Feedbacks : \A l \in reported'[q] : l \in Seq(Word) /\ Len(l) = 2 * Num(q)
        /\ \A q \in Feedbacks : Told(q) => Told(q)'
        /\ QueriesReportedAsPushed'
    BY <1>13, <2>1
  <2>3. TypeOK' /\ ThreadInv' /\ WriterInv' /\ SizeInv'
    BY <2>1, <2>2 DEF TypeOK, ThreadInv, WriterInv, SizeInv
  <2>4. SyncerInv' /\ FilesInv' /\ RecordIsKept' /\ BegunIsHeld'
    BY <2>1, <2>2 DEF SyncerInv, FilesInv, RecordIsKept, BegunIsHeld, TypeOK
  <2> QED
    BY <2>2, <2>3, <2>4
<1>16. CASE Remove
  <2>1. /\ syncer = "remove" /\ send' = NoFile /\ syncer' = "look"
        /\ UNCHANGED <<save, size, reported, pc, push, begun, recorded, replaced, crashes>>
    BY <1>16 DEF Remove, SyncerGoto, history
  <2>2. TypeOK' /\ ThreadInv' /\ WriterInv' /\ SizeInv' /\ SyncerInv' /\ FilesInv'
    BY <2>1 DEF TypeOK, ThreadInv, WriterInv, SizeInv, SyncerInv, FilesInv, Headed
  <2>3. RecordIsKept' /\ BegunIsHeld' /\ QueriesReportedAsPushed'
    BY <2>1 DEF RecordIsKept, BegunIsHeld, QueriesReportedAsPushed, SyncerInv, Told, TypeOK
  <2> QED
    BY <2>2, <2>3
<1>17. CASE Crash
  <2>1. /\ crashes' = crashes + 1 /\ crashes < MaxCrashes
        /\ save' \in FixFile(save) /\ send' \in FixFile(send)
        /\ pc' = [t \in Threads |-> "idle"] /\ push' = [t \in Threads |-> NoPush]
        /\ syncer' = "look"
        /\ UNCHANGED <<size, reported, begun, recorded, replaced>>
    BY <1>17 DEF Crash, history
  <2>2. crashes' \in 0 .. MaxCrashes /\ crashes' # 0
    BY <2>1, FeedbackAssumption DEF TypeOK
  <2>3. /\ save = NoFile <=> save' = NoFile
        /\ save' = NoFile \/ save' \in Seq(Word)
        /\ \A p \in Feedbacks : Holds(save, p) <=> Holds(save', p)
        /\ save # NoFile /\ Headed(save) => Headed(save')
    BY <2>1, FixKeepsRecords DEF TypeOK
  <2>4. /\ send = NoFile <=> send' = NoFile
        /\ send' = NoFile \/ send' \in Seq(Word)
        /\ \A p \in Feedbacks : Holds(send, p) <=> Holds(send', p)
        /\ send # NoFile /\ Headed(send) => Headed(send')
    BY <2>1, FixKeepsRecords DEF TypeOK
  <2>5. TypeOK'
    BY <2>1, <2>2, <2>3, <2>4 DEF TypeOK
  <2>6. WriterInv' /\ SizeInv' /\ ThreadInv' /\ SyncerInv'
    BY <2>1 DEF WriterInv, SizeInv, ThreadInv, SyncerInv
  <2>7. FilesInv'
    BY <2>3, <2>4 DEF FilesInv, Headed
  <2>8. RecordIsKept' /\ BegunIsHeld' /\ QueriesReportedAsPushed'
    BY <2>1, <2>2, <2>3, <2>4 DEF RecordIsKept, BegunIsHeld, QueriesReportedAsPushed, Told, TypeOK
  <2> QED
    BY <2>5, <2>6, <2>7, <2>8
<1>18. CASE UNCHANGED vars
  <2>1. UNCHANGED <<save, send, size, pc, push, syncer, reported, begun, recorded, replaced, crashes>>
    BY <1>18 DEF vars, files, history
  <2>2. TypeOK' /\ ThreadInv' /\ WriterInv' /\ SizeInv'
    BY <2>1 DEF TypeOK, ThreadInv, WriterInv, SizeInv
  <2>3. SyncerInv' /\ FilesInv' /\ RecordIsKept' /\ BegunIsHeld' /\ QueriesReportedAsPushed'
    BY <2>1 DEF SyncerInv, FilesInv, RecordIsKept, BegunIsHeld, QueriesReportedAsPushed, Told
  <2> QED
    BY <2>2, <2>3
<1> QED
  BY <1>1, <1>2, <1>3, <1>5, <1>6, <1>7, <1>8, <1>10, <1>11, <1>12, <1>14, <1>15, <1>16, <1>17,
     <1>18 DEF Next, ProcessFeedback, WriteTrouble, Syncer

LEMMA Invariant == Spec => []FInv
BY InitFInv, NextFInv, PTL DEF Spec
-----------------------------------------------------------------------------
\* process_feedback and thread_feedback keep every file, thread and list of
\* reports within its type, torn writes included.
THEOREM TypeCorrect == Spec => []TypeOK
BY Invariant, PTL DEF FInv

\* thread_feedback neither removes nor replaces a record in sync.send that the
\* candidate module has not got, and no crash cuts it.
THEOREM SendIsReported == Spec => SendIsReportedBeforeItGoes
<1> DEFINE A == \A p \in Whole(send) \ Whole(send') : Told(p)'
<1>1. FInv /\ [Next]_vars => [A]_vars
  <2> SUFFICES ASSUME FInv, Next PROVE A
    OBVIOUS
  <2>1. CASE send' = send
    BY <2>1
  <2>2. CASE send = NoFile
    BY <2>2 DEF Whole, Holds
  <2>3. CASE Remove
    BY <2>3 DEF Remove, FInv, SyncerInv, Whole, Told
  <2>4. CASE Crash
    <3>1. send' \in FixFile(send)
      BY <2>4 DEF Crash
    <3>2. \A p \in Feedbacks : Holds(send, p) <=> Holds(send', p)
      BY <3>1, FixKeepsRecords DEF FInv, TypeOK
    <3> QED
      BY <3>2 DEF Whole
  <2>5. send' = send \/ send = NoFile \/ Remove \/ Crash
    BY DEF Next, Begin, ProcessFeedback, WriteTrouble, NoRecord, OpenSave, WriteBuffer,
           WriteFails, CloseSave, CloseFails, Report, AnswerLost, Syncer, Rename, ReportSend,
           AnswerToSendLost, files
  <2> QED
    BY <2>1, <2>2, <2>3, <2>4, <2>5
<1> QED
  BY <1>1, Invariant, PTL DEF Spec, SendIsReportedBeforeItGoes

\* What process_feedback wrote to sync.save outlives every crash and every
\* failed write, until the candidate module has it or another record was
\* written over it.
THEOREM RecordsAreKept == Spec => []RecordIsKept
BY Invariant, PTL DEF FInv

\* Without a crash no feedback that process_feedback took up is dropped.
THEOREM FeedbackIsHeld == Spec => []BegunIsHeld
BY Invariant, PTL DEF FInv

\* The reports of queries, by either thread, carry exactly the documents of
\* the query, if its record fits the stdio buffer: thread_feedback never reads
\* the rest of another record, or half of one, as a list of the query.
THEOREM QueryReportsAreRight == Spec => []QueriesReportedAsPushed
BY Invariant, PTL DEF FInv
=============================================================================
