---------------------------- MODULE RequestParser ----------------------------
(***************************************************************************)
(* How the center turns the JSON of a request into the binary message that *)
(* it works on and forwards: parse_json and its siblings of                *)
(* CF_framework_center.h.                                                  *)
(*                                                                         *)
(* A request is abstracted to its type, its number of members and, for     *)
(* each member it has, what the parser takes from it: the length of a      *)
(* text, the lengths of a list of texts, a list of words each of them with *)
(* the members it has, a list of ids; of a number, nothing.  Members have  *)
(* the type the parser expects.                                            *)
(*                                                                         *)
(* The parser takes the members one by one.  What it does is a sequence of *)
(* steps: it writes a piece of so many bytes, after a check that there is  *)
(* room, or it gives up with a code.                                       *)
(***************************************************************************)
EXTENDS Integers, Sequences, FiniteSets, SequencesExt

CONSTANT NoType \* the type of a request that is no JSON, or has no "type"

Write(size, what, full) == [size |-> size, what |-> what, stop |-> FALSE, code |-> full]
GiveUp(code) == [size |-> 0, what |-> "", stop |-> TRUE, code |-> code]

\* A member the parser asks for: the code when it is missing, when its
\* content is bad, and when the buffer is full.
Member(name, kind, missing, bad) ==
  [name |-> name, kind |-> kind, missing |-> missing, bad |-> bad]
Plain(name, kind, missing) == Member(name, kind, missing, missing)
-----------------------------------------------------------------------------
(***************************************************************************)
(* The steps for a member with the value v.                                *)
(***************************************************************************)
Text(length, what, full) == <<Write(4, "size", full), Write(length, what, full)>>

ParseArray(v, what, full) ==
  <<Write(4, what, full)>> \o FlattenSeq([i \in DOMAIN v |-> Text(v[i], "string", full)])

ParseWord(word, bad, full) ==
  IF "word" \notin DOMAIN word THEN <<GiveUp(bad)>>
  ELSE Text(word.word, "string", full)
         \o <<IF "count" \in DOMAIN word THEN Write(4, "count", full) ELSE GiveUp(bad)>>

ParseArrayObject(v, what, bad, full) ==
  <<Write(4, what, full)>> \o FlattenSeq([i \in DOMAIN v |-> ParseWord(v[i], bad, full)])

Steps(m, member, full) ==
  LET v == m.members[member.name]
  IN  IF member.name \notin DOMAIN m.members THEN <<GiveUp(member.missing)>>
      ELSE CASE member.kind = "int" -> <<Write(4, member.name, full)>>
             [] member.kind = "id" -> <<Write(8, member.name, full)>>
             [] member.kind = "text" -> Text(v, member.name, full)
             [] member.kind = "texts" -> ParseArray(v, member.name, full)
             [] member.kind = "words" ->
                  ParseArrayObject(v, member.name, member.bad, full)
             [] member.kind = "ids" ->
                  <<Write(4, member.name, full)>>
                    \o [i \in DOMAIN v |-> Write(8, "docid", full)]
-----------------------------------------------------------------------------
(***************************************************************************)
(* The members of each type of request, in the order they are written.     *)
(***************************************************************************)
ActionMembersSwapped ==
  << Plain("type", "int", -102), Plain("userid", "id", -104),
     Plain("clicktime", "int", -103), Plain("docid", "id", -105),
     Plain("staytime", "int", -106), Plain("action", "int", -107),
     Plain("location", "text", -108) >>

ActionMembers ==
  << Plain("type", "int", -102), Plain("clicktime", "int", -103),
     Plain("userid", "id", -104), Plain("docid", "id", -105),
     Plain("staytime", "int", -106), Plain("action", "int", -107),
     Plain("location", "text", -108) >>

DocumentMembers ==
  << Plain("type", "int", -202), Plain("docid", "id", -203),
     Plain("publictime", "int", -212), Plain("pushtime", "int", -213),
     Plain("power", "int", -214), Member("category", "texts", -208, -209),
     Member("word", "words", -210, -211), Member("srp", "texts", -204, -205),
     Member("circle", "texts", -206, -207), Plain("topflag", "int", -215),
     Member("topsrp", "texts", -216, -217), Member("topcircle", "texts", -218, -219) >>

SubscribeMembers ==
  << Plain("type", "int", -302), Plain("userid", "id", -303),
     Member("circle", "texts", -304, -305), Member("srp", "texts", -306, -307) >>

RecommendMembers ==
  << Plain("type", "int", -402), Plain("log", "int", -403),
     Plain("userid", "id", -404), Plain("requestnum", "int", -405) >>

HeartbeatMembers == << Plain("type", "int", -502), Plain("heartbeat", "text", -503) >>

FeedbackMembers ==
  << Plain("type", "int", -602), Plain("userid", "id", -603),
     Plain("returnnum", "int", -604), Member("returnlist", "ids", -605, -607) >>

Members(type) ==
  CASE type = 1 -> ActionMembers
    [] type = 2 -> DocumentMembers
    [] type = 3 -> SubscribeMembers
    [] type = 4 -> RecommendMembers
    [] type = 5 -> HeartbeatMembers
    [] type = 6 -> FeedbackMembers

\* A request has exactly the members of its type.  The code for a full buffer
\* is -100 for an action, -200 for a document, and so on; for a wrong number
\* of members it is one less.
Plan(m) ==
  LET members == Members(m.type)
      full == -100 * m.type
  IN  IF m.num # Len(members) THEN <<GiveUp(full - 1)>>
      ELSE FlattenSeq([i \in DOMAIN members |-> Steps(m, members[i], full)])
-----------------------------------------------------------------------------
(***************************************************************************)
(* The result of parse_json for a buffer of `room` bytes: the code, and    *)
(* what is in the buffer after a success: where each piece begins.         *)
(***************************************************************************)
Ends(plan) ==
  LET end[i \in 0 .. Len(plan)] == IF i = 0 THEN 0 ELSE end[i - 1] + plan[i].size
  IN  end

ParseJson(m, room) ==
  IF m.type = NoType THEN [code |-> -1, len |-> 0, pieces |-> {}]
  ELSE IF m.type \notin 1 .. 6 THEN [code |-> -888, len |-> 0, pieces |-> {}]
  ELSE
    LET plan == Plan(m)
        end == Ends(plan)
        fails == {i \in DOMAIN plan : plan[i].stop \/ end[i] > room}
        first == CHOOSE i \in fails : \A j \in fails : i <= j
    IN  IF fails # {}
        THEN [code |-> plan[first].code, len |-> 0, pieces |-> {}]
        ELSE [code |-> 0, len |-> end[Len(plan)],
              pieces |-> {<<end[i - 1], plan[i].what>> :
                            i \in {j \in DOMAIN plan : plan[j].size > 0}}]

\* What a reader finds at `offset` of a parsed message.
At(pieces, offset) ==
  LET found == {p[2] : p \in {q \in pieces : q[1] = offset}}
  IN  IF found = {} THEN "leftover" ELSE CHOOSE what \in found : TRUE
=============================================================================
