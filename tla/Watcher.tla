------------------------------- MODULE Watcher -------------------------------
(***************************************************************************)
(* The watcher agent (rust/agents/watcher), for one Home and one Replica.  *)
(* For each of the two contracts a ContractWatcher follows the Update      *)
(* events forward from the committed root at start-up and a HistorySync    *)
(* backward from it; both feed one bounded channel, from which the         *)
(* UpdateHandler takes one update at a time.  An update is a pair          *)
(* <<old root, new root>>.  Transactions are left to the module that       *)
(* composes the watcher with the contracts.                                *)
(***************************************************************************)
EXTENDS Message

CONSTANT ChannelCapacity   \* of the mpsc channel, 200 in the code

VARIABLES
  homeCursor, replicaCursor,     \* ContractWatcher.committed_root
  homeHistory, replicaHistory,   \* HistorySync.committed_root, {} when finished
  inbox,                         \* the channel to the UpdateHandler
  watcherDB,                     \* updates stored by check_double_update
  double,                        \* << >>, or the two conflicting updates found
  failure,                       \* what ended the watch, "none" while it goes on
  todo                           \* transactions to send because of it

watcherVars ==
  <<homeCursor, replicaCursor, homeHistory, replicaHistory, inbox, watcherDB, double,
    failure, todo>>

watching == failure = "none"

(* watch_double_update with the root each contract has committed.          *)
Init(homeRoot, replicaRoot) ==
  /\ homeCursor = homeRoot /\ homeHistory = {homeRoot}
  /\ replicaCursor = replicaRoot /\ replicaHistory = {replicaRoot}
  /\ inbox = << >> /\ watcherDB = {}
  /\ double = << >> /\ failure = "none" /\ todo = {}

(* A crash, or the end of the process after a failure, and a new start:    *)
(* what was in memory is gone, the database stays.                         *)
Restart(homeRoot, replicaRoot) ==
  /\ homeCursor' = homeRoot /\ homeHistory' = {homeRoot}
  /\ replicaCursor' = replicaRoot /\ replicaHistory' = {replicaRoot}
  /\ inbox' = << >>
  /\ double' = << >> /\ failure' = "none" /\ todo' = {}
  /\ UNCHANGED watcherDB

send(update) ==
  /\ watching
  /\ Len(inbox) < ChannelCapacity
  /\ inbox' = Append(inbox, update)
  /\ UNCHANGED <<watcherDB, double, failure, todo>>

(***************************************************************************)
(* NomadDB as the event index of one contract: the last update stored for  *)
(* each old root, and the last old root stored for each new root.          *)
(***************************************************************************)

NoUpdates == [update |-> {}, prevRoot |-> {}]

store_update(db, u) ==
  [update |-> {v \in db.update : v[1] # u[1]} \cup {u},
   prevRoot |-> {v \in db.prevRoot : v[2] # u[2]} \cup {u}]

update_by_previous_root(db, root) == {u \in db.update : u[1] = root}

update_by_new_root(db, root) ==
  UNION {update_by_previous_root(db, v[1]) : v \in {v \in db.prevRoot : v[2] = root}}

(***************************************************************************)
(* ContractWatcher.poll_and_send_update and HistorySync.update_history,    *)
(* given the index of their contract.                                      *)
(***************************************************************************)

pollHome(db) == \E u \in update_by_previous_root(db, homeCursor) :
  /\ homeCursor' = u[2]
  /\ send(u)
  /\ UNCHANGED <<replicaCursor, homeHistory, replicaHistory>>

pollReplica(db) == \E u \in update_by_previous_root(db, replicaCursor) :
  /\ replicaCursor' = u[2]
  /\ send(u)
  /\ UNCHANGED <<homeCursor, homeHistory, replicaHistory>>

(* Where the history goes on before update, if anywhere. *)
previous(update) == {update[1]} \ {Zero}

syncHomeHistory(db) ==
  \E root \in homeHistory : \E u \in update_by_new_root(db, root) :
    /\ homeHistory' = previous(u)
    /\ send(u)
    /\ UNCHANGED <<homeCursor, replicaCursor, replicaHistory>>

syncReplicaHistory(db) ==
  \E root \in replicaHistory : \E u \in update_by_new_root(db, root) :
    /\ replicaHistory' = previous(u)
    /\ send(u)
    /\ UNCHANGED <<homeCursor, replicaCursor, homeHistory>>

(***************************************************************************)
(* UpdateHandler                                                           *)
(***************************************************************************)

(* Mutated: conflicts are looked up by the new root. *)
conflictsOnNewRoot(update) == {u \in watcherDB : u[2] = update[2] /\ u[1] # update[1]}

(* What is known to build on the same root but to differ from update.      *)
conflicts(update) == {u \in watcherDB : u[1] = update[1] /\ u[2] # update[2]}

(* One turn of the handler's loop, without the transaction to Home: the    *)
(* update is taken off the channel and check_double_update stores it or    *)
(* ends the watch.                                                         *)
handle(update) ==
  /\ watching
  /\ inbox # << >>
  /\ update = Head(inbox)
  /\ inbox' = Tail(inbox)
  /\ \/ /\ conflicts(update) = {}
        /\ watcherDB' = watcherDB \cup {update}
        /\ UNCHANGED <<double, failure, todo>>
     \/ \E existing \in conflicts(update) :
          /\ double' = <<existing, update>>
          /\ failure' = "double"
          /\ todo' = {"home", "replica", "unenroll"}
          /\ UNCHANGED watcherDB
  /\ UNCHANGED <<homeCursor, replicaCursor, homeHistory, replicaHistory>>

(* watch_home_fail has seen the Home failed.                               *)
homeFailed ==
  /\ watching
  /\ failure' = "improper"
  /\ todo' = {"unenroll"}
  /\ UNCHANGED <<homeCursor, replicaCursor, homeHistory, replicaHistory, inbox, watcherDB,
                 double>>

(* One of the transactions that handle_double_update_failure or            *)
(* handle_improper_update_failure sends, in any order, has ended.          *)
sent(tx) ==
  /\ tx \in todo
  /\ todo' = todo \ {tx}
  /\ UNCHANGED <<homeCursor, replicaCursor, homeHistory, replicaHistory, inbox, watcherDB,
                 double, failure>>
=============================================================================
