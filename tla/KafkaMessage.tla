---------------------------- MODULE KafkaMessage ----------------------------
(***************************************************************************)
(* How CF_framework_jparse.h turns a JSON message of the Kafka topic into  *)
(* a TransferRequest: which messages it refuses, with which code, and      *)
(* which one it does not survive.                                          *)
(*                                                                         *)
(* A message is abstracted to what the parser tests:                       *)
(*   type     the value of "type", or NoType                               *)
(*   members  the names of its members, lists included                     *)
(*   size     the length of each of its lists, 0 for a missing one         *)
(*   words    for each entry of "word" the members it has                  *)
(* Members have the type the parser expects.  An array is read from its    *)
(* first to its last entry, so the codes for a missing entry (-201, -203,  *)
(* -207 ...) never occur.                                                  *)
(***************************************************************************)
EXTENDS Integers, Sequences

CONSTANT NoType

\* parse_json did not return: a member that is not there was dereferenced.
Dies == 1

Lists == {"category", "categoryid", "srp", "srppower", "tag", "tagid", "tagpower"}

\* The first member of `required`, a sequence of <<name, code>>, that is
\* missing decides the code.
Missing(m, required) == {i \in DOMAIN required : required[i][1] \notin m.members}

FirstMissing(m, required) ==
  LET i == CHOOSE j \in Missing(m, required) :
             \A k \in Missing(m, required) : j <= k
  IN  IF Missing(m, required) = {} THEN 0 ELSE required[i][2]

ParseAction(m) ==
  FirstMissing(m, << <<"clicktime", -101>>, <<"userid", -102>>,
                     <<"docid", -103>>, <<"action", -104>> >>)

\* A list that stands beside another one must be as long, if it is there.
Parallel(m, list, other) == list \in m.members => m.size[list] = m.size[other]

\* `node` when the words are read: the last member or entry that was looked
\* up is not NULL.
NodeIsSet(m) == "doctype" \in m.members \/ m.size["category"] > 0

\* The loop over "word" tests `node` where it means node_two, the "count".
ParseWords(m) ==
  LET bad == {i \in DOMAIN m.words : ~NodeIsSet(m) \/ m.words[i] # {"word", "count"}}
      first == m.words[CHOOSE i \in bad : \A j \in bad : i <= j]
  IN  IF bad = {} THEN 0
      ELSE IF "word" \notin first THEN -205
      ELSE IF ~NodeIsSet(m) THEN -206
      ELSE Dies

ParseItem(m) ==
  IF "docid" \notin m.members THEN -200
  ELSE IF ~Parallel(m, "categoryid", "category") THEN -202
  ELSE IF ParseWords(m) # 0 THEN ParseWords(m)
  ELSE IF /\ Parallel(m, "srppower", "srp")
          /\ Parallel(m, "tagid", "tag") /\ Parallel(m, "tagpower", "tag")
       THEN 0 ELSE -208

\* Everything else in these messages has a default or may be empty.
ParseSubscribe(m) == FirstMissing(m, << <<"userid", -300>> >>)
ParseRecommend(m) == FirstMissing(m, << <<"userid", -400>> >>)
ParseHeartbeat(m) == FirstMissing(m, << <<"heartbeat", -500>> >>)
ParseFeedback(m) == FirstMissing(m, << <<"userid", -600>> >>)

ParseJson(m) ==
  CASE m.type = NoType -> -1
    [] m.type = 1 -> ParseAction(m)
    [] m.type = 2 -> ParseItem(m)
    [] m.type = 3 -> ParseSubscribe(m)
    [] m.type = 4 -> ParseRecommend(m)
    [] m.type = 5 -> ParseHeartbeat(m)
    [] m.type = 6 -> ParseFeedback(m)
    [] OTHER -> -888
=============================================================================
