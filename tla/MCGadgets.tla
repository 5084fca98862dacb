------------------------------- MODULE MCGadgets -------------------------------
(***************************************************************************)
(* One model-checking harness for eight independent components:            *)
(*   "pr"  the Kafka predator's Start/Stop (Predator.tla),                 *)
(*   "rm"  extsync.ReentrantMutex (ReentrantMutex.tla),                    *)
(*   "eo"  extsync.Once (ExtOnce.tla),                                     *)
(*   "ml"  memo/usinglock (MemoLock.tla),                                  *)
(*   "mc"  memo/usingcsp (MemoCsp.tla),                                    *)
(*   "lb"  buffer-queue's LimitBufferQueue (LimitBufferQueue.tla),          *)
(*   "tp"  token-pool's TokenPool (TokenPool.tla),                          *)
(*   "bm"  big-memory-cache's BigMemCache (BigMemCache.tla).                *)
(* None of them calls another.  The initial state picks one, which, and   *)
(* only that component takes steps; the others stay in their initial     *)
(* state.  The behaviours checked are those of each component on its own, *)
(* and the state space is the sum of theirs rather than their product.    *)
(***************************************************************************)
EXTENDS Integers, TLC, FiniteSets

CONSTANTS
  g1, g2,          \* goroutines of the reentrant mutex
  c1, c2, c3,      \* client goroutines of Once and of the memos
  k1, k2,          \* memo keys
  r1, r2,          \* results f may return
  None,            \* no owner, no holder, no result
  Panic            \* BigMemCache's Get result once decode panicked

Comps == {"pr", "rm", "eo", "ml", "mc", "lb", "tp", "bm"}

VARIABLE which

\* Predator: its own variable names.
VARIABLES spc, spawned, wg, epc, cpc, val, next, marked, rebal, stop, msgCh, got, panicked

\* Two consumeMsg goroutines and one slot in msgCh, so a cacheMsg blocks on
\* a full channel; two offsets per partition and one rebalance, so a
\* second session resumes after a mark (as in MCPredator).
PR == INSTANCE Predator WITH Concurrency <- 2, CacheSize <- 1, NumMsgs <- 2, MaxRebalances <- 1

VARIABLES rmOwner, rmRecursion, rmMu, rmPc, rmLevel, rmCount

\* Two goroutines run reentrant(0), each to three nested Locks: re-entry,
\* the inner Unlocks and the contended Mutex.Lock all happen.
RM == INSTANCE ReentrantMutex WITH
        Goroutines <- {g1, g2}, Depth <- 3, NoOwner <- None,
        owner <- rmOwner, recursion <- rmRecursion, mu <- rmMu,
        pc <- rmPc, level <- rmLevel, count <- rmCount

VARIABLES eoDone, eoM, eoPc, eoErr, eoTries, eoInits

\* Two callers, each calling Do up to twice while f fails: a failed f is
\* retried by the same or the other caller, and the fast path, the double
\* check and a successful f all happen.
EO == INSTANCE ExtOnce WITH
        Callers <- {c1, c2}, Tries <- 2,
        done <- eoDone, m <- eoM, pc <- eoPc, err <- eoErr,
        tries <- eoTries, inits <- eoInits

\* Three Gets, two of the same key (one computes, one waits) and one of
\* another key computed concurrently; f may return either of two results.
MemoKeyOf == (c1 :> k1) @@ (c2 :> k1) @@ (c3 :> k2)

VARIABLES mlEntries, mlRes, mlReady, mlMu, mlPc, mlRet

ML == INSTANCE MemoLock WITH
        Clients <- {c1, c2, c3}, Keys <- {k1, k2}, KeyOf <- MemoKeyOf, Results <- {r1, r2},
        entries <- mlEntries, res <- mlRes, ready <- mlReady, mu <- mlMu,
        pc <- mlPc, ret <- mlRet

VARIABLES mcEntries, mcRes, mcReady, mcDelivering, mcClosed, mcServing, mcCpc, mcRet

MC == INSTANCE MemoCsp WITH
        Clients <- {c1, c2, c3}, Keys <- {k1, k2}, KeyOf <- MemoKeyOf, Results <- {r1, r2},
        entries <- mcEntries, res <- mcRes, ready <- mcReady, delivering <- mcDelivering,
        closed <- mcClosed, serving <- mcServing, cpc <- mcCpc, ret <- mcRet

VARIABLES lbLk, lbLen, lbWaiters, lbPc, lbPushed, lbGot

\* Two producers and one consumer on a deque of two slots: each producer
\* BPushes twice, the consumer BPops two at a time until it has all four,
\* so producers find the deque full and a producer's Signal can wake the
\* other producer (as MCLimitBufferQueue's MCTwoProducers did).
LB == INSTANCE LimitBufferQueue WITH
        Producers <- {g1, g2}, Consumers <- {c1}, CapArg <- 2, Pushes <- 2,
        Want <- 2, Take <- 4,
        lk <- lbLk, len <- lbLen, waiters <- lbWaiters, pc <- lbPc,
        pushed <- lbPushed, got <- lbGot

VARIABLES tpMu, tpQ, tpPend, tpPc, tpTok, tpCtxDone, tpJpc

\* Three workers for two tokens, so the third Acquire finds the channel
\* empty; every worker's ctx has a deadline, so a ctx can be done while its
\* worker waits in Acquire (as MCTokenPool's MCDeadlines did).
TP == INSTANCE TokenPool WITH
        Workers <- {g1, g2, c3}, Concurrency <- 2, Cancellable <- {g1, g2, c3},
        mu <- tpMu, q <- tpQ, pend <- tpPend, pc <- tpPc, tok <- tpTok,
        ctxDone <- tpCtxDone, jpc <- tpJpc

VARIABLES bmShards, bmCache, bmLast, bmPanicked, bmDecoded

\* Features under the UUIDs "a" and "bb", two under "a" so that an Add
\* replaces another: negative and positive versions and creation times
\* (two's complement in four and eight bytes), empty and non-empty Meta
\* and Blob; item counts giving 1, 2, 3 (floored to 2), 128 and 201
\* (capped at 128) as shardsUpLimit.
BMUuidA == <<[n |-> 1, b |-> 97]>>
BMUuidB == <<[n |-> 2, b |-> 98]>>

BM == INSTANCE BigMemCache WITH
        Features <-
          { [version |-> -1, uuid |-> BMUuidA, meta |-> << >>, blob |-> <<[n |-> 2, b |-> 255]>>,
             created |-> <<0, 0, 0, 0, 0, 0, 0, 0>>],
            [version |-> 7, uuid |-> BMUuidA, meta |-> <<[n |-> 1, b |-> 0]>>, blob |-> << >>,
             created |-> <<255, 255, 255, 255, 255, 255, 255, 255>>],
            [version |-> 0, uuid |-> BMUuidB, meta |-> <<[n |-> 2, b |-> 1]>>,
             blob |-> <<[n |-> 1, b |-> 2]>>, created |-> <<1, 0, 0, 0, 0, 0, 0, 0>>] },
        MaxItems <- {0, 100, 250, 12700, 20000}, NoEntry <- None,
        shards <- bmShards, cache <- bmCache, last <- bmLast, panicked <- bmPanicked,
        decoded <- bmDecoded

prVars == <<spc, spawned, wg, epc, cpc, val, next, marked, rebal, stop, msgCh, got, panicked>>
rmVars == <<rmOwner, rmRecursion, rmMu, rmPc, rmLevel, rmCount>>
eoVars == <<eoDone, eoM, eoPc, eoErr, eoTries, eoInits>>
mlVars == <<mlEntries, mlRes, mlReady, mlMu, mlPc, mlRet>>
mcVars == <<mcEntries, mcRes, mcReady, mcDelivering, mcClosed, mcServing, mcCpc, mcRet>>
lbVars == <<lbLk, lbLen, lbWaiters, lbPc, lbPushed, lbGot>>
tpVars == <<tpMu, tpQ, tpPend, tpPc, tpTok, tpCtxDone, tpJpc>>
bmVars == <<bmShards, bmCache, bmLast, bmPanicked, bmDecoded>>

vars == <<which, prVars, rmVars, eoVars, mlVars, mcVars, lbVars, tpVars, bmVars>>

\* A component that does not run stays in one of its initial states:
\* BigMemCache's configuration is chosen only when it is the one.
Init ==
  /\ which \in Comps
  /\ PR!Init /\ RM!Init /\ EO!Init /\ ML!Init /\ MC!Init /\ LB!Init /\ TP!Init /\ BM!Init
  /\ which # "bm" => bmShards = 1

Next ==
  /\ UNCHANGED which
  /\ \/ which = "pr" /\ PR!Next /\ UNCHANGED <<rmVars, eoVars, mlVars, mcVars, lbVars, tpVars, bmVars>>
     \/ which = "rm" /\ RM!Next /\ UNCHANGED <<prVars, eoVars, mlVars, mcVars, lbVars, tpVars, bmVars>>
     \/ which = "eo" /\ EO!Next /\ UNCHANGED <<prVars, rmVars, mlVars, mcVars, lbVars, tpVars, bmVars>>
     \/ which = "ml" /\ ML!Next /\ UNCHANGED <<prVars, rmVars, eoVars, mcVars, lbVars, tpVars, bmVars>>
     \/ which = "mc" /\ MC!Next /\ UNCHANGED <<prVars, rmVars, eoVars, mlVars, lbVars, tpVars, bmVars>>
     \/ which = "lb" /\ LB!Next /\ UNCHANGED <<prVars, rmVars, eoVars, mlVars, mcVars, tpVars, bmVars>>
     \/ which = "tp" /\ TP!Next /\ UNCHANGED <<prVars, rmVars, eoVars, mlVars, mcVars, lbVars, bmVars>>
     \/ which = "bm" /\ BM!Next /\ UNCHANGED <<prVars, rmVars, eoVars, mlVars, mcVars, lbVars, tpVars>>

\* Each component's FairSpec, in force only while it is the one that runs:
\* every runnable goroutine runs (for the predator, Stop runs to its end
\* once called, and ConsumeClaim's ctx.Done() case is taken once ctx is
\* done); nothing forces Stop, a rebalance or memo.Close.
PRFair ==
  /\ WF_prVars(which = "pr" /\ PR!StartSpawn) /\ WF_prVars(which = "pr" /\ PR!StartReturn)
  /\ WF_prVars(which = "pr" /\ PR!ErrLoopAdd) /\ WF_prVars(which = "pr" /\ PR!ErrLoopExit)
  /\ \A i \in PR!Consumers :
       /\ WF_prVars(which = "pr" /\ (PR!Consume(i) \/ PR!ClaimRecv(i) \/ PR!CacheMsg(i)
                                     \/ PR!Mark(i) \/ PR!AfterConsume(i)))
       /\ WF_prVars(which = "pr" /\ PR!ClaimEnd(i) /\ PR!CtxDone)
  /\ WF_prVars(which = "pr" /\ PR!StopCloseCh) /\ WF_prVars(which = "pr" /\ PR!StopCloseGroup)
  /\ WF_prVars(which = "pr" /\ PR!Receive)

GadgetFair ==
  /\ \A g \in {g1, g2} : WF_rmVars(which = "rm" /\ RM!Step(g))
  /\ \A c \in {c1, c2} : WF_eoVars(which = "eo" /\ EO!Step(c))
  /\ \A c \in {c1, c2, c3} :
       /\ WF_mlVars(which = "ml" /\ ML!Step(c))
       /\ WF_mcVars(which = "mc" /\ MC!Request(c)) /\ WF_mcVars(which = "mc" /\ MC!Deliver(c))
  /\ \A k \in {k1, k2} : WF_mcVars(which = "mc" /\ MC!Call(k))
  /\ WF_mcVars(which = "mc" /\ MC!ServerExit)
  \* LimitBufferQueue and TokenPool are checked for safety only here: both
  \* can hang (runs lbq_lost_wakeup and the TokenPool.cfg reproduction).

Spec == Init /\ [][Next]_vars /\ PRFair /\ GadgetFair

(***************************************************************************)
(* Properties, each about the component named by its prefix.              *)
(***************************************************************************)
TypeOK ==
  /\ which \in Comps
  /\ PR!TypeOK /\ RM!TypeOK /\ EO!TypeOK /\ ML!TypeOK /\ MC!TypeOK /\ LB!TypeOK /\ TP!TypeOK /\ BM!TypeOK

\* Predator: what was marked reached msgCh once, in order, with no gap,
\* across rebalances and Stop (Predator!MarkedDelivered).
PR_MarkedDelivered == PR!MarkedDelivered

\* Predator: once Stop cancels ctx, Start returns and msgCh is drained,
\* unless the program panicked (Predator!StopEndsStart).
PR_StopEndsStart == PR!StopEndsStart

\* ReentrantMutex: one goroutine at a time holds the lock, at any depth,
\* and owner, recursion and the embedded mutex agree with its nesting.
RM_MutualExclusion == RM!MutualExclusion

\* ReentrantMutex: every goroutine's nested Lock/Unlock sequence returns.
RM_AllReturn == which = "rm" => RM!AllReturn

\* Once: f succeeds at most once, and a Do returning nil returns after it.
EO_InitializedOnce == EO!InitializedOnce

\* Once: every caller's retry loop ends.
EO_CallersFinish == which = "eo" => EO!CallersFinish

\* usinglock implements the abstract Memo (one f per key, one result).
ML_ImplementsMemo == ML!ImplementsMemo

\* usinglock: every Get returns.
ML_AllGetsReturn == which = "ml" => ML!AllGetsReturn

\* usingcsp implements the abstract Memo (one e.call per key, one result).
MC_ImplementsMemo == MC!ImplementsMemo

\* usingcsp: every Get returns, and the server exits after Close.
MC_AllGetsReturn == which = "mc" => MC!AllGetsReturn

\* LimitBufferQueue: the deque never holds more than cap items, however
\* Signal interleaves woken and arriving pushers.
LB_CapacityRespected == LB!CapacityRespected

\* TokenPool: every token is in the channel or held by exactly one worker,
\* also when a ctx is done while its worker waits in Acquire.
TP_TokenConservation == TP!TokenConservation

\* TokenPool: Join returns only when no worker holds a token.
TP_JoinAfterRelease == TP!JoinAfterRelease

\* BigMemCache: what Add stores decodes to the feature added, so Get
\* returns the feature last added under its UUID, or nil after Del or
\* Reset, and never panics (BigMemCache!ImplementsFeatureStore).
BM_ImplementsFeatureStore == BM!ImplementsFeatureStore

\* BigMemCache: defaultBigCacheCfg gives bigcache a power-of-two shard
\* count of at most 128.
BM_ConfigAccepted == BM!ConfigAccepted
=============================================================================
