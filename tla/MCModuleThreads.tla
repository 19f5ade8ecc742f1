--------------------------- MODULE MCModuleThreads ---------------------------
(***************************************************************************)
(* A small candb process for TLC: a topic with a message that jparse       *)
(* refuses, a click, and an item that jparse does not survive; one network *)
(* thread with a request that may be anything, and one that no update is   *)
(* in; an action that comes in the first request or through gRPC.          *)
(***************************************************************************)
EXTENDS ModuleThreads

NoList == [l \in Lists |-> 0]

Message(type, members, words, update) ==
  [type |-> type, members |-> members, size |-> NoList, words |-> words,
   fits |-> TRUE, update |-> update]

MCTopic ==
  << Message(3, {}, <<>>, NoUpdate),
     Message(1, {"clicktime", "userid", "docid", "action"}, <<>>, "k1"),
     Message(2, {"docid", "doctype", "word"}, <<{"word"}>>, NoUpdate) >>

MCUpdates == {"k1", "n1"}

MCKind == [u \in MCUpdates |-> IF u = "k1" THEN "click" ELSE "action"]

MCClass == [r \in {"n1", "n2"} |-> IF r = "n1" THEN Classes ELSE {"garbage"}]
=============================================================================
