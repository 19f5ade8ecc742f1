-------------------------- MODULE MCCenterRequests --------------------------
(***************************************************************************)
(* A small center for TLC: two actions of one user, the second of which    *)
(* may be too long, or a query instead; and a client that may send         *)
(* anything else.                                                          *)
(***************************************************************************)
EXTENDS CenterRequests

Number == "number"

Request1(type, members) ==
  [type |-> type, num |-> Cardinality(DOMAIN members), members |-> members]

Action(location) ==
  Request1(1, [type |-> Number, clicktime |-> Number, userid |-> Number, docid |-> Number,
               staytime |-> Number, action |-> Number, location |-> location])

MCBody ==
  [ action |-> Action(4), long |-> Action(90),
    document |-> Request1(2,
      [type |-> Number, docid |-> Number, publictime |-> Number, pushtime |-> Number,
       power |-> Number, category |-> <<3, 0>>,
       word |-> <<[word |-> 2, count |-> Number]>>, srp |-> <<>>, circle |-> <<1>>,
       topflag |-> Number, topsrp |-> <<>>, topcircle |-> <<>>]),
    badword |-> Request1(2,
      [type |-> Number, docid |-> Number, publictime |-> Number, pushtime |-> Number,
       power |-> Number, category |-> <<>>, word |-> <<[word |-> 2]>>, srp |-> <<>>,
       circle |-> <<>>, topflag |-> Number, topsrp |-> <<>>, topcircle |-> <<>>]),
    subscribe |-> Request1(3, [type |-> Number, userid |-> Number, circle |-> <<2>>, srp |-> <<>>]),
    query |-> Request1(4, [type |-> Number, log |-> Number, userid |-> Number,
                           requestnum |-> Number]),
    heartbeat |-> Request1(5, [type |-> Number, heartbeat |-> 2]),
    feedback |-> Request1(6, [type |-> Number, userid |-> Number, returnnum |-> Number,
                              returnlist |-> <<1, 1>>]),
    unknown |-> Request1(7, [type |-> Number]),
    garbage |-> Request1(0, [type |-> Number]) ]

MCBodies == DOMAIN MCBody

CONSTANTS a1, a2, x
MCUserOf == [c \in {a1, a2, x} |-> IF c = x THEN "u2" ELSE "u1"]
MCMaySend == [c \in {a1, a2, x} |->
                CASE c = a1 -> {"action"} [] c = a2 -> {"action", "long", "query"}
                  [] c = x -> MCBodies \ {"action", "long"}]
=============================================================================
