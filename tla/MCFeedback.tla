----------------------------- MODULE MCFeedback -----------------------------
(***************************************************************************)
(* Feedback for TLC: q1 is feedback of a query, c3 and c4 are of clients,  *)
(* c0 with an empty list.  With a buffer of seven words the record of q1   *)
(* fits; those of c3 and c4 are written in two parts, of which the first   *)
(* holds the beginning of the list.                                        *)
(***************************************************************************)
EXTENDS Feedback

CONSTANTS q1, c0, c3, c4

MCPushes == {q1}
MCClientPushes == {c0, c3, c4}
OneClientPush == {c3}
MCDocs ==
  [p \in {q1, c0, c3, c4} |->
     CASE p = q1 -> <<"d1">>
       [] p = c0 -> <<>>
       [] p = c3 -> <<"d2", "d3", "d4">>
       [] p = c4 -> <<"d5", "d6", "d7", "d8">>]
OneClientDocs == [p \in {c3} |-> MCDocs[p]]
=============================================================================
