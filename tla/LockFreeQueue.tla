--------------------------- MODULE LockFreeQueue ---------------------------
(***************************************************************************)
(* The Michael-Scott queue of src/lock-free-queue/lock_free_queue.go.      *)
(*                                                                         *)
(* Each goroutine in Procs runs one Push or Pop at a time.  Every atomic   *)
(* load and CAS of the code is one step, so the steps of different         *)
(* goroutines interleave exactly where the hardware lets them.  Nodes are *)
(* numbers: 0 is the dummy node NewLockFreeQueue allocates, and Push      *)
(* allocates 1, 2, ... up to MaxPush.  A node is never reused (the Go      *)
(* collector keeps a node alive while a goroutine holds it), so there is   *)
(* no ABA.  The value a Push stores in its node is the node itself, so a   *)
(* popped value names the Push it came from.                               *)
(*                                                                         *)
(* Ghost: ret is what a goroutine's current call returned, sawEmpty       *)
(* whether the queue was empty when its Pop loaded head.next.              *)
(***************************************************************************)
EXTENDS Integers, Sequences

CONSTANTS
  Procs,    \* goroutines calling Push and Pop
  MaxPush   \* number of Push calls (nodes allocated) in a behaviour

ASSUME MaxPush \in Nat \ {0}

Nil == -1
Nodes == 0..MaxPush

VARIABLES
  next, qhead, qtail, count,   \* the nodes' next pointers and the struct
  alloc,                       \* the last node allocated
  pc,                          \* each goroutine's position in Push/Pop
  n, t, tn, h, hn,             \* locals: n, tail, tnext, head, hnext
  ret, sawEmpty                \* ghost

vars == <<next, qhead, qtail, count, alloc, pc, n, t, tn, h, hn, ret, sawEmpty>>

\* cas(p, old, new): the value of *p after CompareAndSwapPointer.
cas(p, old, new) == IF p = old THEN new ELSE p

\* The values in the queue, oldest first: the nodes after the dummy head.
view ==
  LET walk[x \in Nodes \cup {Nil}, k \in 0..MaxPush + 1] ==
        IF x = Nil \/ k = 0 THEN << >> ELSE <<x>> \o walk[next[x], k - 1]
  IN walk[next[qhead], MaxPush + 1]

Init ==
  /\ next = [x \in Nodes |-> Nil]
  /\ qhead = 0
  /\ qtail = 0
  /\ count = 0
  /\ alloc = 0
  /\ pc = [p \in Procs |-> "idle"]
  /\ n = [p \in Procs |-> Nil]
  /\ t = [p \in Procs |-> Nil]
  /\ tn = [p \in Procs |-> Nil]
  /\ h = [p \in Procs |-> Nil]
  /\ hn = [p \in Procs |-> Nil]
  /\ ret = [p \in Procs |-> Nil]
  /\ sawEmpty = [p \in Procs |-> FALSE]

Panicked == \E q \in Procs : pc[q] = "panic"

\* Goroutine p is at label l and may run: after a panic no goroutine runs.
At(p, l) == pc[p] = l /\ ~Panicked

Goto(p, l) == pc' = [pc EXCEPT ![p] = l]

\* Returning from Push or Pop: the goroutine's locals go out of scope.
Return(p) ==
  /\ Goto(p, "idle")
  /\ n' = [n EXCEPT ![p] = Nil]
  /\ t' = [t EXCEPT ![p] = Nil]
  /\ tn' = [tn EXCEPT ![p] = Nil]
  /\ h' = [h EXCEPT ![p] = Nil]
  /\ hn' = [hn EXCEPT ![p] = Nil]
  /\ sawEmpty' = [sawEmpty EXCEPT ![p] = FALSE]

(***************************************************************************)
(* Push                                                                    *)
(***************************************************************************)
PushBegin(p) ==
  /\ At(p, "idle")
  /\ alloc < MaxPush
  /\ alloc' = alloc + 1
  /\ n' = [n EXCEPT ![p] = alloc + 1]
  /\ Goto(p, "p_loadTail")
  /\ ret' = [ret EXCEPT ![p] = Nil]
  /\ UNCHANGED <<next, qhead, qtail, count, t, tn, h, hn, sawEmpty>>

PushLoadTail(p) ==
  /\ At(p, "p_loadTail")
  /\ t' = [t EXCEPT ![p] = qtail]
  /\ Goto(p, "p_loadNext")
  /\ UNCHANGED <<next, qhead, qtail, count, alloc, n, tn, h, hn, ret, sawEmpty>>

PushLoadNext(p) ==
  /\ At(p, "p_loadNext")
  /\ tn' = [tn EXCEPT ![p] = next[t[p]]]
  /\ Goto(p, "p_check")
  /\ UNCHANGED <<next, qhead, qtail, count, alloc, n, t, h, hn, ret, sawEmpty>>

\* Reload q.tail; go on only if it is still the tail that was read.
PushCheck(p) ==
  /\ At(p, "p_check")
  /\ Goto(p, IF t[p] # qtail THEN "p_loadTail"
             ELSE IF tn[p] = Nil THEN "p_casNext" ELSE "p_swing")
  /\ UNCHANGED <<next, qhead, qtail, count, alloc, n, t, tn, h, hn, ret, sawEmpty>>

\* Mutant of PushCasNext: a plain store where the code has a CAS.
PushStoreNext(p) ==
  /\ At(p, "p_casNext")
  /\ next' = [next EXCEPT ![t[p]] = n[p]]
  /\ Goto(p, "p_casTail")
  /\ UNCHANGED <<qhead, qtail, count, alloc, n, t, tn, h, hn, ret, sawEmpty>>

\* cas(&tail.next, tnext, n): link the new node after the last one.
PushCasNext(p) ==
  /\ At(p, "p_casNext")
  /\ next' = [next EXCEPT ![t[p]] = cas(@, tn[p], n[p])]
  /\ Goto(p, IF next[t[p]] = tn[p] THEN "p_casTail" ELSE "p_loadTail")
  /\ UNCHANGED <<qhead, qtail, count, alloc, n, t, tn, h, hn, ret, sawEmpty>>

\* cas(&q.tail, tail, n); count is incremented only when this CAS wins.
PushCasTail(p) ==
  /\ At(p, "p_casTail")
  /\ qtail' = cas(qtail, t[p], n[p])
  /\ count' = IF qtail = t[p] THEN count + 1 ELSE count
  /\ Return(p)
  /\ UNCHANGED <<next, qhead, alloc, ret>>

\* Another goroutine has linked a node: help by swinging q.tail to it.
PushSwing(p) ==
  /\ At(p, "p_swing")
  /\ qtail' = cas(qtail, t[p], tn[p])
  /\ Goto(p, "p_loadTail")
  /\ UNCHANGED <<next, qhead, count, alloc, n, t, tn, h, hn, ret, sawEmpty>>

(***************************************************************************)
(* Pop                                                                     *)
(***************************************************************************)
PopBegin(p) ==
  /\ At(p, "idle")
  /\ Goto(p, "o_loadHead")
  /\ ret' = [ret EXCEPT ![p] = Nil]
  /\ UNCHANGED <<next, qhead, qtail, count, alloc, n, t, tn, h, hn, sawEmpty>>

PopLoadHead(p) ==
  /\ At(p, "o_loadHead")
  /\ h' = [h EXCEPT ![p] = qhead]
  /\ Goto(p, "o_loadHNext")
  /\ UNCHANGED <<next, qhead, qtail, count, alloc, n, t, tn, hn, ret, sawEmpty>>

PopLoadHNext(p) ==
  /\ At(p, "o_loadHNext")
  /\ hn' = [hn EXCEPT ![p] = next[h[p]]]
  /\ sawEmpty' = [sawEmpty EXCEPT ![p] = (view = << >>)]
  /\ Goto(p, "o_loadTail")
  /\ UNCHANGED <<next, qhead, qtail, count, alloc, n, t, tn, h, ret>>

PopLoadTail(p) ==
  /\ At(p, "o_loadTail")
  /\ t' = [t EXCEPT ![p] = qtail]
  /\ Goto(p, "o_loadTNext")
  /\ UNCHANGED <<next, qhead, qtail, count, alloc, n, tn, h, hn, ret, sawEmpty>>

PopLoadTNext(p) ==
  /\ At(p, "o_loadTNext")
  /\ tn' = [tn EXCEPT ![p] = next[t[p]]]
  /\ Goto(p, "o_check")
  /\ UNCHANGED <<next, qhead, qtail, count, alloc, n, t, h, hn, ret, sawEmpty>>

\* Mutant of PopCheck: head = tail is taken to mean empty (hnext unchecked).
PopCheckWithoutNext(p) ==
  /\ At(p, "o_check")
  /\ Goto(p, IF h[p] # qhead THEN "o_loadHead"
             ELSE IF h[p] = t[p] THEN "idle"
             ELSE "o_casHead")
  /\ ret' = IF h[p] = qhead /\ h[p] = t[p] THEN [ret EXCEPT ![p] = Nil] ELSE ret
  /\ UNCHANGED <<next, qhead, qtail, count, alloc, n, t, tn, h, hn, sawEmpty>>

\* Mutant of PopCheck: never returns empty, always helps the tail along.
PopCheckSwingsEmpty(p) ==
  /\ At(p, "o_check")
  /\ Goto(p, IF h[p] # qhead THEN "o_loadHead"
             ELSE IF h[p] = t[p] THEN "o_swing"
             ELSE "o_casHead")
  /\ UNCHANGED <<next, qhead, qtail, count, alloc, n, t, tn, h, hn, ret, sawEmpty>>

\* Mutant of PopCheck: an empty queue is retried instead of reported.
PopCheckSpinOnEmpty(p) ==
  /\ At(p, "o_check")
  /\ Goto(p, IF h[p] # qhead THEN "o_loadHead"
             ELSE IF h[p] = t[p] /\ hn[p] = Nil THEN "o_loadHead"
             ELSE IF h[p] = t[p] THEN "o_swing"
             ELSE "o_casHead")
  /\ UNCHANGED <<next, qhead, qtail, count, alloc, n, t, tn, h, hn, ret, sawEmpty>>

\* Reload q.head; if head = tail, either the queue is empty (return nil,
\* false) or the tail lags behind and must be swung first.
PopCheck(p) ==
  /\ At(p, "o_check")
  /\ IF h[p] = qhead /\ h[p] = t[p] /\ hn[p] = Nil
     THEN /\ ret' = [ret EXCEPT ![p] = Nil]
          /\ Return(p)
     ELSE /\ Goto(p, IF h[p] # qhead THEN "o_loadHead"
                    ELSE IF h[p] = t[p] THEN "o_swing"
                    ELSE "o_casHead")
          /\ UNCHANGED <<n, t, tn, h, hn, ret, sawEmpty>>
  /\ UNCHANGED <<next, qhead, qtail, count, alloc>>

PopSwing(p) ==
  /\ At(p, "o_swing")
  /\ qtail' = cas(qtail, t[p], tn[p])
  /\ Goto(p, "o_loadHead")
  /\ UNCHANGED <<next, qhead, count, alloc, n, t, tn, h, hn, ret, sawEmpty>>

\* Mutant of PopCasHead: the value is read from head instead of hnext.
PopReadsDummy(p) ==
  /\ At(p, "o_casHead")
  /\ hn[p] # Nil
  /\ qhead' = cas(qhead, h[p], hn[p])
  /\ IF qhead = h[p]
     THEN /\ count' = count - 1
          /\ ret' = [ret EXCEPT ![p] = h[p]]
          /\ Goto(p, "idle")
     ELSE /\ UNCHANGED <<count, ret>>
          /\ Goto(p, "o_loadHead")
  /\ UNCHANGED <<next, qtail, alloc, n, t, tn, h, hn, sawEmpty>>

\* v := hnext.v, then cas(&q.head, head, hnext); on success count-- and
\* return v, otherwise retry.
PopCasHead(p) ==
  /\ At(p, "o_casHead")
  /\ hn[p] # Nil
  /\ qhead' = cas(qhead, h[p], hn[p])
  /\ IF qhead = h[p]
     THEN /\ count' = count - 1
          /\ ret' = [ret EXCEPT ![p] = hn[p]]
          /\ Return(p)
     ELSE /\ UNCHANGED <<count, ret, n, t, tn, h, hn, sawEmpty>>
          /\ Goto(p, "o_loadHead")
  /\ UNCHANGED <<next, qtail, alloc>>

\* v := hnext.v with hnext = nil: a nil pointer dereference, and the
\* panic ends the program.
PopNilDeref(p) ==
  /\ At(p, "o_casHead")
  /\ hn[p] = Nil
  /\ Goto(p, "panic")
  /\ UNCHANGED <<next, qhead, qtail, count, alloc, n, t, tn, h, hn, ret, sawEmpty>>

Proc(p) ==
  \/ PushBegin(p) \/ PushLoadTail(p) \/ PushLoadNext(p) \/ PushCheck(p)
  \/ PushCasNext(p) \/ PushCasTail(p) \/ PushSwing(p)
  \/ PopBegin(p) \/ PopLoadHead(p) \/ PopLoadHNext(p) \/ PopLoadTail(p)
  \/ PopLoadTNext(p) \/ PopCheck(p) \/ PopSwing(p) \/ PopCasHead(p)
  \/ PopNilDeref(p)

Next == \E p \in Procs : Proc(p)

Spec == Init /\ [][Next]_vars

\* A runnable goroutine is eventually scheduled by the Go runtime.
FairSpec == Spec /\ \A p \in Procs : WF_vars(Proc(p))

(***************************************************************************)
(* Properties                                                              *)
(***************************************************************************)
Labels == {"idle", "p_loadTail", "p_loadNext", "p_check", "p_casNext",
           "p_casTail", "p_swing", "o_loadHead", "o_loadHNext", "o_loadTail",
           "o_loadTNext", "o_check", "o_swing", "o_casHead", "panic"}

TypeOK ==
  /\ next \in [Nodes -> Nodes \cup {Nil}]
  /\ qhead \in Nodes
  /\ qtail \in Nodes
  /\ count \in Int
  /\ alloc \in 0..MaxPush
  /\ pc \in [Procs -> Labels]
  /\ \A f \in {n, t, tn, h, hn, ret} : f \in [Procs -> Nodes \cup {Nil}]
  /\ sawEmpty \in [Procs -> BOOLEAN]

\* Linearizability of Push and Pop: the nodes linked after the dummy head
\* behave as a FIFO queue; a Push takes effect at its CAS of tail.next, a
\* Pop at its CAS of q.head, and every other step leaves the queue alone.
Abstract == INSTANCE FifoQueue WITH queue <- view, Data <- 1..MaxPush
RefinesFifoQueue == Abstract!Spec

\* A Pop whose CAS of q.head wins returns the oldest value in the queue.
PopReturnsOldest ==
  [][\A p \in Procs :
       (pc[p] = "o_casHead" /\ pc'[p] = "idle")
         => view # << >> /\ ret'[p] = Head(view)]_vars

\* A Pop returns (nil, false) only if the queue was empty at the moment it
\* loaded head.next (its linearization point), even though it returns
\* several loads later and other goroutines may have pushed meanwhile.
EmptyPopJustified ==
  [][\A p \in Procs :
       (pc[p] = "o_check" /\ pc'[p] = "idle") => sawEmpty[p]]_vars

\* Lock-free retry loops terminate: every Push and Pop that starts returns,
\* unless the program has panicked.
OpsComplete == \A p \in Procs : pc[p] # "idle" ~> (pc[p] = "idle" \/ Panicked)

\* Pop never dereferences a nil hnext: the program does not panic.
NoPanic == ~Panicked

\* Len() = count equals the number of values in the queue whenever no Push
\* or Pop is in flight.
LenMatchesWhenQuiescent ==
  (\A p \in Procs : pc[p] = "idle") => count = Len(view)
=============================================================================
