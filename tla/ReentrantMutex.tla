---------------------------- MODULE ReentrantMutex ----------------------------
(***************************************************************************)
(* ReentrantMutex of src/extsync/reentrantmutex.go, used as its test uses  *)
(* it: each goroutine runs reentrant(0), which Locks, increments           *)
(* gCounter.Count, recurses, and Unlocks on the way back (defer), until    *)
(* Depth nested Locks are held.                                            *)
(*                                                                         *)
(* A goroutine's id (goid.Get()) is the goroutine itself.  owner is 0 in   *)
(* the zero value and -1 after a release; neither is a goroutine id, so    *)
(* both are NoOwner.  The embedded sync.Mutex is mu.                       *)
(***************************************************************************)
EXTENDS Naturals, FiniteSets

CONSTANTS
  Goroutines,  \* the goroutines running reentrant(0)
  Depth,       \* the iteration at which reentrant returns (10 in the test)
  NoOwner      \* owner 0 or -1

ASSUME Depth \in Nat \ {0} /\ NoOwner \notin Goroutines

VARIABLES
  owner,      \* m.owner
  recursion,  \* m.recursion
  mu,         \* the goroutine holding the embedded sync.Mutex, or NoOwner
  pc,         \* "lock", "acquire", "store", "cs", "unlock", "release", "unlockMu", "done"
  level,      \* the Locks the goroutine holds: its recursion depth
  count       \* gCounter.Count

vars == <<owner, recursion, mu, pc, level, count>>

Init ==
  /\ owner = NoOwner /\ recursion = 0 /\ mu = NoOwner
  /\ pc = [g \in Goroutines |-> "lock"]
  /\ level = [g \in Goroutines |-> 0]
  /\ count = 0

\* Lock: if atomic.LoadInt64(&m.owner) == gid, recursion++ and return;
\* otherwise go on to m.Mutex.Lock().
Lock(g) ==
  /\ pc[g] = "lock"
  /\ IF owner = g
       THEN /\ recursion' = recursion + 1
            /\ level' = [level EXCEPT ![g] = @ + 1]
            /\ pc' = [pc EXCEPT ![g] = "cs"]
       ELSE /\ pc' = [pc EXCEPT ![g] = "acquire"]
            /\ UNCHANGED <<recursion, level>>
  /\ UNCHANGED <<owner, mu, count>>

\* m.Mutex.Lock() blocks until the mutex is free.
Acquire(g) ==
  /\ pc[g] = "acquire" /\ mu = NoOwner
  /\ mu' = g
  /\ pc' = [pc EXCEPT ![g] = "store"]
  /\ UNCHANGED <<owner, recursion, level, count>>

\* atomic.StoreInt64(&m.owner, gid); m.recursion = 1.
StoreOwner(g) ==
  /\ pc[g] = "store"
  /\ owner' = g /\ recursion' = 1
  /\ level' = [level EXCEPT ![g] = 1]
  /\ pc' = [pc EXCEPT ![g] = "cs"]
  /\ UNCHANGED <<mu, count>>

\* gCounter.Count++, then reentrant(iter+1): Lock again, or return at
\* Depth and run the deferred Unlocks.
Critical(g) ==
  /\ pc[g] = "cs"
  /\ count' = count + 1
  /\ pc' = [pc EXCEPT ![g] = IF level[g] < Depth THEN "lock" ELSE "unlock"]
  /\ UNCHANGED <<owner, recursion, mu, level>>

\* Mutant: the first Unlock releases, whatever the recursion count.
UnlockIgnoresRecursion(g) ==
  /\ pc[g] = "unlock" /\ owner = g
  /\ recursion' = recursion - 1
  /\ level' = [level EXCEPT ![g] = @ - 1]
  /\ pc' = [pc EXCEPT ![g] = "release"]
  /\ UNCHANGED <<owner, mu, count>>

\* Unlock: the owner check (the goroutine always holds the lock here, so
\* its panic is not reached), recursion--, and return unless it is 0.
Unlock(g) ==
  /\ pc[g] = "unlock" /\ owner = g
  /\ recursion' = recursion - 1
  /\ level' = [level EXCEPT ![g] = @ - 1]
  /\ pc' = [pc EXCEPT ![g] = IF recursion - 1 # 0 THEN "unlock" ELSE "release"]
  /\ UNCHANGED <<owner, mu, count>>

\* atomic.StoreInt64(&m.owner, -1)
Release(g) ==
  /\ pc[g] = "release"
  /\ owner' = NoOwner
  /\ pc' = [pc EXCEPT ![g] = "unlockMu"]
  /\ UNCHANGED <<recursion, mu, level, count>>

\* Mutant: the release forgets m.Mutex.Unlock().
UnlockMutexKeepsMutex(g) ==
  /\ pc[g] = "unlockMu"
  /\ pc' = [pc EXCEPT ![g] = "done"]
  /\ UNCHANGED <<owner, recursion, mu, level, count>>

\* m.Mutex.Unlock(); the outermost reentrant call returns.
UnlockMutex(g) ==
  /\ pc[g] = "unlockMu"
  /\ mu' = NoOwner
  /\ pc' = [pc EXCEPT ![g] = "done"]
  /\ UNCHANGED <<owner, recursion, level, count>>

Step(g) ==
  Lock(g) \/ Acquire(g) \/ StoreOwner(g) \/ Critical(g) \/ Unlock(g) \/ Release(g) \/ UnlockMutex(g)

Next == \E g \in Goroutines : Step(g)

Spec == Init /\ [][Next]_vars

\* The scheduler runs every runnable goroutine; a goroutine waiting in
\* Mutex.Lock gets the mutex once it stays free.
FairSpec == Spec /\ \A g \in Goroutines : WF_vars(Step(g))

(***************************************************************************)
(* Properties                                                              *)
(***************************************************************************)
TypeOK ==
  /\ owner \in Goroutines \cup {NoOwner} /\ mu \in Goroutines \cup {NoOwner}
  /\ recursion \in 0..Depth
  /\ pc \in [Goroutines -> {"lock", "acquire", "store", "cs", "unlock", "release", "unlockMu", "done"}]
  /\ level \in [Goroutines -> 0..Depth]
  /\ count \in 0..Depth * Cardinality(Goroutines)

\* At most one goroutine holds the reentrant lock at any depth, and the
\* one named owner is the one holding the embedded mutex with recursion
\* equal to its nesting: a re-entry never lets a second goroutine in and
\* the last Unlock, not an inner one, releases the mutex.
MutualExclusion ==
  /\ \A g, h \in Goroutines : level[g] > 0 /\ level[h] > 0 => g = h
  /\ owner \in Goroutines => mu = owner /\ recursion = level[owner]

\* Every goroutine's reentrant(0) returns: each gets the mutex once the
\* other has released it for good.
AllReturn == <>(\A g \in Goroutines : pc[g] = "done")
=============================================================================
