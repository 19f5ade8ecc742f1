----------------------------- MODULE CandidateDB -----------------------------
(***************************************************************************)
(* The two tables of core/candidate_db.cpp and what is on disk of them:    *)
(* the operations of CandidateDB that change state, one operator per call  *)
(* of a table.  The threads that make these calls are in ModuleThreads.    *)
(*                                                                         *)
(* A table is abstracted to how often it applied each update.  The tables  *)
(* (libdb) are external.  They keep a log beside the table file, so what a *)
(* table holds after a restart lies between its last flush and its last    *)
(* write, for every update on its own.                                     *)
(***************************************************************************)
EXTENDS Integers, FiniteSets

CONSTANTS Updates,  \* updates that may be applied
          Kind,     \* what each of them is
          Idle      \* those of users that eliminate() may remove

Kinds == {"click", "action", "item", "subscribe", "feedback", "delete"}

ASSUME CandidateDBAssumption ==
  /\ Kind \in [Updates -> Kinds]
  /\ Idle \subseteq Updates

VARIABLES users,       \* how often user_table_ applied an update
          items,       \* how often item_table_ applied it
          usersOnDisk, \* the same in the files of the last flush
          itemsOnDisk,
          eliminated   \* history: updates that went with their user

tables == <<users, items, usersOnDisk, itemsOnDisk, eliminated>>

Nothing == [u \in Updates |-> 0]

TablesOK ==
  /\ users \in [Updates -> Nat] /\ usersOnDisk \in [Updates -> Nat]
  /\ items \in [Updates -> Nat] /\ itemsOnDisk \in [Updates -> Nat]
  /\ eliminated \subseteq Idle

InitTables ==
  /\ users = Nothing /\ usersOnDisk = Nothing
  /\ items = Nothing /\ itemsOnDisk = Nothing
  /\ eliminated = {}

\* What a call of a table may return: "IO" is Corruption or IOError, "Other"
\* NotFound, InvalidArgument and the rest.
Statuses == {"OK", "IO", "Other"}

\* addItem only goes to the item table, a click to both, the user table
\* first, and everything else to the user table.
InUsers(u) == Kind[u] # "item"
InItems(u) == Kind[u] \in {"item", "click"}

\* The update is in every table it belongs to.
AppliedIn(u, us, is, gone) ==
  /\ InUsers(u) => us[u] > 0 \/ u \in gone
  /\ InItems(u) => is[u] > 0

Applied(u) == AppliedIn(u, users, items, eliminated)
-----------------------------------------------------------------------------
UserTable(u, status) ==
  /\ users' = IF status = "OK" THEN [users EXCEPT ![u] = @ + 1] ELSE users
  /\ eliminated' = IF status = "OK" THEN eliminated \ {u} ELSE eliminated
  /\ UNCHANGED <<items, usersOnDisk, itemsOnDisk>>

ItemTable(u, status) ==
  /\ items' = IF status = "OK" THEN [items EXCEPT ![u] = @ + 1] ELSE items
  /\ UNCHANGED <<users, usersOnDisk, itemsOnDisk, eliminated>>

\* flush() is three calls.  eliminate drops users that were idle for
\* user_hold_time; its failure is only logged.
Eliminate ==
  /\ \E gone \in SUBSET {u \in Idle : users[u] > 0} :
       /\ users' = [u \in Updates |-> IF u \in gone THEN 0 ELSE users[u]]
       /\ eliminated' = eliminated \cup gone
  /\ UNCHANGED <<items, usersOnDisk, itemsOnDisk>>

FlushUsers ==
  /\ usersOnDisk' = users
  /\ UNCHANGED <<users, items, itemsOnDisk, eliminated>>

FlushItemsSkipped == UNCHANGED tables

FlushItems ==
  /\ itemsOnDisk' = items
  /\ UNCHANGED <<users, items, usersOnDisk, eliminated>>

\* What a table that held `memory` may hold after a restart.
Recovered(memory, disk) ==
  {t \in [Updates -> UNION {{memory[u], disk[u]} : u \in Updates}] :
     \A u \in Updates : t[u] \in {memory[u], disk[u]}}

\* openDB: lock, then reload the user table and the item table.
Reload ==
  /\ users' \in Recovered(users, usersOnDisk)
  /\ items' \in Recovered(items, itemsOnDisk)
  /\ eliminated' = {u \in eliminated : users'[u] = 0}
  /\ UNCHANGED <<usersOnDisk, itemsOnDisk>>
=============================================================================
