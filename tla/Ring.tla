-------------------------------- MODULE Ring --------------------------------
(***************************************************************************)
(* The circular queues of mini-tree-mod/ipc.c: in_queue, out_queue and     *)
(* slow_queue are arrays with a head and a tail index.  The head is the    *)
(* slot that is read next, the tail the slot that is written next, equal   *)
(* indices mean an empty queue, and one slot always stays unused.          *)
(***************************************************************************)
EXTENDS Integers, Sequences

(* (i + 1) & (SIZE - 1), for a size that is a power of two.                *)
Succ(i, size) == (i + 1) % size

(* The test every producer makes: the tail would catch up with the head.   *)
IsFull(head, tail, size) == head = Succ(tail, size)

IsEmpty(head, tail) == head = tail

(***************************************************************************)
(* What the two indices stand for: the queue as a sequence, oldest first.  *)
(***************************************************************************)
Count(head, tail, size) ==
  IF head <= tail THEN tail - head ELSE size - head + tail

(* The slot k places after the head, k < size.                             *)
Slot(head, k, size) ==
  IF head + k < size THEN head + k ELSE head + k - size

Contents(queue, head, tail, size) ==
  [k \in 1 .. Count(head, tail, size) |-> queue[Slot(head, k - 1, size)]]

(* The slots whose content is still to be read.                            *)
Live(head, tail, size) ==
  {i \in 0 .. size - 1 : IF head <= tail THEN head <= i /\ i < tail
                                         ELSE head <= i \/ i < tail}
=============================================================================
