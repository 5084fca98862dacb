----------------------------- MODULE FifoQueue -----------------------------
(***************************************************************************)
(* What the bytes-queue promises its caller (spec.md sections 3, 4.3, 8): *)
(* a FIFO sequence of byte strings.  Push appends, Pop removes the oldest, *)
(* Reset empties.  A refused Push (ErrFullQueue) or a Pop on an empty      *)
(* queue (ErrEmptyQueue) leaves the queue as it was, i.e. is a stutter.    *)
(***************************************************************************)
EXTENDS Sequences

CONSTANT Data          \* the byte strings a caller may push

VARIABLE queue         \* the live records, oldest first

Init == queue = <<>>

Put(d) == queue' = Append(queue, d)

Take == /\ queue # <<>>
        /\ queue' = Tail(queue)

Clear == queue' = <<>>

Next == \/ \E d \in Data : Put(d)
        \/ Take
        \/ Clear

Spec == Init /\ [][Next]_queue
=============================================================================
