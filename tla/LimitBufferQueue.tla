-------------------------- MODULE LimitBufferQueue --------------------------
(***************************************************************************)
(* LimitBufferQueue of src/buffer-queue/buffer_queue.go: a deque bounded   *)
(* by cap and one sync.Cond, whose mutex cond.L guards the deque and on    *)
(* which both BPush (waiting while full) and BPop (waiting while empty)    *)
(* wait.                                                                   *)
(*                                                                         *)
(* Each producer goroutine calls BPush Pushes times; each consumer calls   *)
(* BPop(Want) until it has received Take items.  The deque is abstracted  *)
(* to its length, the only thing the code's conditions read.              *)
(*                                                                         *)
(* sync.Cond is modelled as Go implements it: Wait puts the goroutine at  *)
(* the end of the cond's notify list and unlocks L in one step; Signal     *)
(* wakes the goroutine at the front of the list (oldest ticket first),    *)
(* which must then take L again before it re-checks its loop condition.   *)
(* Taking L is a step of its own; the work a goroutine does while holding *)
(* L, up to Wait or the deferred Unlock, is one step.                      *)
(***************************************************************************)
EXTENDS Integers, Sequences

CONSTANTS
  Producers,   \* goroutines calling BPush
  Consumers,   \* goroutines calling BPop
  CapArg,      \* argument of NewLimitBufferQueue
  Pushes,      \* BPush calls per producer
  Want,        \* the want argument of every BPop call
  Take,        \* items each consumer BPops before it stops
  None         \* cond.L is free

ASSUME Producers \cap Consumers = {}
ASSUME CapArg \in Nat /\ Pushes \in Nat /\ Want \in Nat \ {0} /\ Take \in Nat
ASSUME None \notin Producers \cup Consumers

Goroutines == Producers \cup Consumers

\* NewLimitBufferQueue: a cap of 0 means 128.
Cap == IF CapArg = 0 THEN 128 ELSE CapArg

VARIABLES
  lk,        \* holder of cond.L
  len,       \* q.q.Len()
  waiters,   \* the cond's notify list, oldest first
  pc,        \* "lock": wants cond.L; "check": holds it; "wait": in Wait; "done"
  pushed,    \* BPush calls a producer has completed
  got        \* items a consumer has received

vars == <<lk, len, waiters, pc, pushed, got>>

Init ==
  /\ lk = None
  /\ len = 0
  /\ waiters = << >>
  /\ pc = [g \in Goroutines |->
              IF (g \in Producers /\ Pushes = 0) \/ (g \in Consumers /\ Take = 0)
                THEN "done" ELSE "lock"]
  /\ pushed = [p \in Producers |-> 0]
  /\ got = [c \in Consumers |-> 0]

\* q.cond.L.Lock(), at the start of a call or on the way out of Wait.
Lock(g) ==
  /\ pc[g] = "lock"
  /\ lk = None
  /\ lk' = g
  /\ pc' = [pc EXCEPT ![g] = "check"]
  /\ UNCHANGED <<len, waiters, pushed, got>>

\* q.cond.Wait(): join the notify list and release L.
Wait(g) ==
  /\ waiters' = Append(waiters, g)
  /\ lk' = None
  /\ pc' = [pc EXCEPT ![g] = "wait"]
  /\ UNCHANGED <<len, pushed, got>>

\* q.cond.Signal() followed by the deferred Unlock; g's call returns and
\* g goes on to its next call (at) or stops.
SignalAndReturn(g, at) ==
  /\ lk' = None
  /\ IF waiters = << >>
       THEN /\ waiters' = waiters
            /\ pc' = [pc EXCEPT ![g] = at]
       ELSE /\ waiters' = Tail(waiters)
            /\ pc' = [pc EXCEPT ![g] = at, ![Head(waiters)] = "lock"]

\* Mutant of BPushFull: the loop waits only when the deque is over cap.
BPushFullOffByOne(p) == len > Cap

\* The condition of BPush's wait loop.
BPushFull(p) == len >= Cap

\* BPush, holding L: wait while full, else PushBack, Signal, Unlock.
BPushCheck(p) ==
  /\ pc[p] = "check"
  /\ IF BPushFull(p)
       THEN Wait(p)
       ELSE /\ len' = len + 1
            /\ pushed' = [pushed EXCEPT ![p] = @ + 1]
            /\ SignalAndReturn(p, IF pushed[p] + 1 < Pushes THEN "lock" ELSE "done")
            /\ UNCHANGED got

\* Mutant of BPopCheck: want is not clamped to Len, so PopFront runs on an
\* emptied deque (which panics in the deque package).
BPopCheckUnclamped(c) ==
  /\ pc[c] = "check"
  /\ IF len = 0
       THEN Wait(c)
       ELSE /\ len' = len - Want
            /\ got' = [got EXCEPT ![c] = @ + Want]
            /\ SignalAndReturn(c, IF got[c] + Want < Take THEN "lock" ELSE "done")
            /\ UNCHANGED pushed

\* Mutant of BPopCheck: the Signal before returning is missing.
BPopCheckNoSignal(c) ==
  /\ pc[c] = "check"
  /\ IF len = 0
       THEN Wait(c)
       ELSE LET n == IF len < Want THEN len ELSE Want
            IN /\ len' = len - n
               /\ got' = [got EXCEPT ![c] = @ + n]
               /\ lk' = None
               /\ pc' = [pc EXCEPT ![c] = IF got[c] + n < Take THEN "lock" ELSE "done"]
               /\ UNCHANGED <<waiters, pushed>>

\* BPop, holding L: wait while empty, else clamp want to Len, PopFront
\* that many items, Signal, Unlock.
BPopCheck(c) ==
  /\ pc[c] = "check"
  /\ IF len = 0
       THEN Wait(c)
       ELSE LET n == IF len < Want THEN len ELSE Want
            IN /\ len' = len - n
               /\ got' = [got EXCEPT ![c] = @ + n]
               /\ SignalAndReturn(c, IF got[c] + n < Take THEN "lock" ELSE "done")
               /\ UNCHANGED pushed

Producer(p) == Lock(p) \/ BPushCheck(p)

Consumer(c) == Lock(c) \/ BPopCheck(c)

Next ==
  \/ \E p \in Producers : Producer(p)
  \/ \E c \in Consumers : Consumer(c)

\* The program ends when every goroutine is done, so the configurations do
\* not check deadlock; EveryCallReturns tells an ending from a hang.
Spec == Init /\ [][Next]_vars

\* The scheduler runs every runnable goroutine; sync.Mutex's starvation
\* mode hands L to a goroutine that has waited for it long enough, hence
\* strong fairness for Lock, which other goroutines keep disabling.
FairSpec ==
  /\ Spec
  /\ \A g \in Goroutines : SF_vars(Lock(g))
  /\ \A p \in Producers : WF_vars(BPushCheck(p))
  /\ \A c \in Consumers : WF_vars(BPopCheck(c))

(***************************************************************************)
(* Properties                                                              *)
(***************************************************************************)
TypeOK ==
  /\ lk \in Goroutines \cup {None}
  /\ len \in Nat
  /\ waiters \in Seq(Goroutines)
  /\ pc \in [Goroutines -> {"lock", "check", "wait", "done"}]
  /\ pushed \in [Producers -> 0..Pushes]
  /\ got \in [Consumers -> 0..Take + Want]

\* The deque never holds more than cap items, however Signal interleaves
\* the pushers that wake up with those that arrive (BPush's for loop).
CapacityRespected == len <= Cap

\* Every BPush and BPop call returns: no goroutine stays asleep in Wait
\* while the condition it waits for could be met (Signal wakes exactly one
\* waiter, whichever side it is on).
EveryCallReturns == <>(\A g \in Goroutines : pc[g] = "done")
=============================================================================
