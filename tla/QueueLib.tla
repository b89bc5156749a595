------------------------------ MODULE QueueLib ------------------------------
(***************************************************************************)
(* libs/Queue.sol: a FIFO queue of roots kept as two indices and a mapping *)
(* from indices to items, in which an absent slot reads bytes32(0).  It is *)
(* empty when first > last.  The mapping is a function on the slots a run  *)
(* can reach; the uint128 indices never wrap, since Home enqueues one item *)
(* per leaf and the tree holds fewer than 2^32 of them.                    *)
(***************************************************************************)
EXTENDS Message

initialize(slots) == [first |-> 1, last |-> 0, queue |-> [i \in slots |-> Zero]]

(* Mutated: the queue keeps the newest item only. *)
enqueueAlone(q, item) ==
  [q EXCEPT !.first = q.last + 1, !.last = q.last + 1, !.queue[q.last + 1] = item]

enqueue(q, item) ==
  [q EXCEPT !.last = q.last + 1, !.queue[q.last + 1] = item]

contains(q, item) == \E i \in q.first .. q.last : q.queue[i] = item

(* Mutated: one too few. *)
lengthShort(q) == q.last - q.first

length(q) == q.last + 1 - q.first

lastItem(q) == q.queue[q.last]

(* The loop of Home.update: dequeue, which deletes the slot, until `item`  *)
(* comes out.  On a queue without the item the last dequeue would revert.  *)
FirstIndexOf(q, item) ==
  CHOOSE i \in q.first .. q.last :
    /\ q.queue[i] = item
    /\ \A j \in q.first .. i - 1 : q.queue[j] # item

(* Mutated: the loop stops before it takes the item itself. *)
dequeueUpTo(q, item) ==
  LET at == FirstIndexOf(q, item) IN
  [q EXCEPT !.first = at,
            !.queue = [i \in DOMAIN q.queue |->
                         IF i \in q.first .. at - 1 THEN Zero ELSE q.queue[i]]]

dequeueUntil(q, item) ==
  LET at == FirstIndexOf(q, item) IN
  [q EXCEPT !.first = at + 1,
            !.queue = [i \in DOMAIN q.queue |->
                         IF i \in q.first .. at THEN Zero ELSE q.queue[i]]]
=============================================================================
