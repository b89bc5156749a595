---------------------------- MODULE ContractSync ----------------------------
(***************************************************************************)
(* The task with which every agent follows the events of one kind of a     *)
(* contract (rust/nomad-base/src/contract_sync): it asks the node for one  *)
(* range of blocks after the other and stores what comes back.  An event   *)
(* is its index: the leaf index of a message, or the place of an update in *)
(* the chain of roots, so that both kinds continue at "last + 1".  A node  *)
(* may leave out events of a range; a later event then shows the gap, and  *)
(* the task goes back to look for what is missing.                         *)
(*                                                                         *)
(* `db` survives the process, `task` does not.  A poll writes the database *)
(* several times, and a crash may come between any two of the writes.  An  *)
(* event itself is stored under several keys: it is in `half` between the  *)
(* first of them that anybody reads (the leaf by its index, an update by   *)
(* its previous root) and the last (the message by its leaf, the previous  *)
(* root by the new one).                                                   *)
(***************************************************************************)
EXTENDS Integers, Sequences

CONSTANTS
  fromHeight,     \* where the agent's configuration says to begin
  chunkSize,      \* blocks per request, beside the first
  HeightModulus,  \* heights are u32: 2^32 in the code
  None

VARIABLES
  db,    \* stored, half: events, latest: last event known without a gap, blockEnd
  task   \* from, finding_missing, missing_start, missing_end, exponential

EmptyDb == [stored |-> {}, half |-> {}, latest |-> None, blockEnd |-> None]

Started(d) ==
  [from |-> IF d.blockEnd = None THEN fromHeight ELSE d.blockEnd + 1,
   finding_missing |-> FALSE, missing_start |-> 0, missing_end |-> 0, exponential |-> 0]

Init == db = EmptyDb /\ task = Started(EmptyDb)

u32(n) == n % HeightModulus

\* The variables as the head of the loop leaves them.
gaveUpFinding(t) ==
  [t EXCEPT !.finding_missing = @ /\ t.from < t.missing_start]
passedMissing(t) ==
  IF t.from > t.missing_end /\ t.missing_end # 0
  THEN [t EXCEPT !.exponential = 0, !.missing_start = 0, !.missing_end = 0]
  ELSE t
atLoopHead == passedMissing(gaveUpFinding(task))

caughtUp(tip) == tip <= task.from
rangeEnd(tip) == IF tip < task.from + chunkSize THEN tip ELSE task.from + chunkSize

\* The events of the range; blockOf[i] is the block of event i - 1.
fetch_sorted(blockOf, tip, omitted) ==
  {e \in 0..(Len(blockOf) - 1) : /\ blockOf[e + 1] \in task.from..rangeEnd(tip)
                                 /\ e \notin omitted}

firstOf(events) == CHOOSE e \in events : \A f \in events : e <= f

\* No gap after the last event known, if there is one, nor in the range.
valid_continuation(last, events) ==
  LET before == IF last = None THEN firstOf(events) - 1 ELSE last
  IN  \A e \in events : e - 1 \in events \cup {before}

\* What becomes of `latest` and `stored` as events are stored in order.
update_latest(last, events) ==
  LET first == IF last = None THEN firstOf(events) ELSE last
  IN  CHOOSE e \in events \cup {first} : first..e \subseteq events \cup {first} /\ first <= e
                                       /\ e + 1 \notin events
store(d, events) ==
  IF events = {} THEN d
  ELSE [d EXCEPT !.latest = update_latest(@, events), !.stored = @ \cup events,
                 !.half = @ \ events]

\* The events that can be found by the first of their keys.
known(d) == d.stored \cup d.half

isGap(events) == events # {} /\ ~valid_continuation(db.latest, events)
skips(events) == isGap(events) /\ ~atLoopHead.finding_missing

\* Mutated: the end of the range is written ahead of the events.
unfinishedEndFirst(events, tip) ==
  {[store(db, {f \in events : f < e}) EXCEPT !.blockEnd = rangeEnd(tip)] : e \in events}

upTo(e, events) == store(db, {f \in events : f <= e})

\* The events before e are stored, and of e no more than `latest`.
latestOnly(e, events) ==
  [store(db, {f \in events : f < e}) EXCEPT !.latest = upTo(e, events).latest]

halfStored(e, events) == [latestOnly(e, events) EXCEPT !.half = @ \cup ({e} \ db.stored)]

\* The databases between two writes, the end of the range being the last.
unfinished(events, tip) ==
  UNION {{latestOnly(e, events), halfStored(e, events), upTo(e, events)} : e \in events}

store_latest_block_end(d, tip, events) ==
  IF isGap(events) THEN d ELSE [d EXCEPT !.blockEnd = rangeEnd(tip)]

\* Mutated: look for what is missing in the same range.
goBackOverSameRange(t, tip) ==
  [t EXCEPT !.finding_missing = TRUE, !.missing_start = t.from, !.missing_end = rangeEnd(tip)]

goBack(t, tip) ==
  [t EXCEPT !.finding_missing = TRUE, !.missing_start = t.from, !.missing_end = rangeEnd(tip),
            !.from = u32(@ - chunkSize * 2 ^ t.exponential), !.exponential = @ + 1]

\* One turn of the loop that does not end in a sleep.
Poll(tip, blockOf, omitted) ==
  LET events == fetch_sorted(blockOf, tip, omitted)
  IN  /\ ~caughtUp(tip)
      /\ \/ /\ skips(events)
            /\ task' = goBack(atLoopHead, tip)
            /\ UNCHANGED db
         \/ /\ ~skips(events)
            /\ task' = [atLoopHead EXCEPT !.from = u32(rangeEnd(tip) + 1)]
            /\ db' = store_latest_block_end(store(db, events), tip, events)

Restart == task' = Started(db) /\ UNCHANGED db

\* The process ends in the middle of a poll and is started again.
Crash(tip, blockOf) ==
  LET events == fetch_sorted(blockOf, tip, {})
  IN  /\ ~caughtUp(tip) /\ ~skips(events)
      /\ db' \in unfinished(events, tip)
      /\ task' = Started(db')
=============================================================================
