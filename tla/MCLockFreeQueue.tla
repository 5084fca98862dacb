-------------------------- MODULE MCLockFreeQueue --------------------------
EXTENDS LockFreeQueue, TLC

CONSTANTS p1, p2

\* Two goroutines: both can push at once and race for the same tail.next,
\* or one can push while the other pops or helps swing q.tail.
MCProcs == {p1, p2}

\* Four pushes: enough for each goroutine to push twice and for Pops to
\* empty and refill the queue.
MCMaxPush == 4
=============================================================================
