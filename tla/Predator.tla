------------------------------- MODULE Predator -------------------------------
(***************************************************************************)
(* DataIngressPredator of src/kafka/predator/data_ingress_predator.go.     *)
(*                                                                         *)
(* A user goroutine calls Start, which blocks in wg.Wait; another ranges   *)
(* over Messages(); a third calls Stop.  Start runs the error loop and     *)
(* Concurrency consumeMsg goroutines.  Consumer i holds the claim of       *)
(* partition i: Consume runs ConsumeClaim on it until the session ends    *)
(* (a rebalance closes claim.Messages(), or ctx is cancelled), then        *)
(* consumeMsg calls Consume again unless ctx is done.  A new session       *)
(* resumes after the last offset marked.                                   *)
(*                                                                         *)
(* sarama is the environment: Consume on a closed group returns            *)
(* ErrClosedConsumerGroup, which log.Panic turns into a panic; errors on   *)
(* cgroup.Errors() are only logged and change nothing, so they are left    *)
(* out.  A panic, like a send on the closed msgCh, ends the program.       *)
(***************************************************************************)
EXTENDS Naturals, Sequences

CONSTANTS
  Concurrency,    \* cfg.Concurrency: consumeMsg goroutines, one partition each
  CacheSize,      \* cfg.CacaheSize: the capacity of msgCh
  NumMsgs,        \* the offsets 1..NumMsgs of each partition
  MaxRebalances   \* how many sessions the group may end by a rebalance

Consumers == 1..Concurrency

VARIABLES
  spc,      \* Start: "spawn", "wait", "returned"
  spawned,  \* the consumeMsg goroutines Start has started
  wg,       \* the WaitGroup counter
  epc,      \* the error-loop goroutine: "start" (before wg.Add), "loop", "done"
  cpc,      \* consumer: "consume", "claim", "cache", "mark", "after", "done"
  val,      \* the offset ConsumeClaim received and is caching or marking
  next,     \* the next offset claim.Messages() delivers
  marked,   \* the last offset session.MarkMessage marked
  rebal,    \* rebalances so far
  stop,     \* Stop: "idle", "cancelled", "chclosed", "done"
  msgCh,    \* the buffered channel: <<partition, offset>> pairs
  got,      \* what the user's range over Messages() received
  panicked  \* the program panicked

vars == <<spc, spawned, wg, epc, cpc, val, next, marked, rebal, stop, msgCh, got, panicked>>

CtxDone == stop # "idle"
ChClosed == stop \in {"chclosed", "done"}
GroupClosed == stop = "done"

\* NewDataIngressPredator, then go p.Start().
Init ==
  /\ spc = "spawn" /\ spawned = 0 /\ wg = 0
  /\ epc = "start"
  /\ cpc = [i \in Consumers |-> "consume"]
  /\ val = [i \in Consumers |-> 0]
  /\ next = [i \in Consumers |-> 1]
  /\ marked = [i \in Consumers |-> 0]
  /\ rebal = 0
  /\ stop = "idle"
  /\ msgCh = << >> /\ got = << >>
  /\ panicked = FALSE

Running(i) == i <= spawned /\ ~panicked

\* for i < p.concurrency { wg.Add(1); go p.consumeMsg(i, &wg) }
StartSpawn ==
  /\ ~panicked /\ spc = "spawn"
  /\ spawned' = spawned + 1 /\ wg' = wg + 1
  /\ spc' = IF spawned + 1 = Concurrency THEN "wait" ELSE "spawn"
  /\ UNCHANGED <<epc, cpc, val, next, marked, rebal, stop, msgCh, got, panicked>>

\* wg.Wait() returns once the counter is zero.
StartReturn ==
  /\ ~panicked /\ spc = "wait" /\ wg = 0
  /\ spc' = "returned"
  /\ UNCHANGED <<spawned, wg, epc, cpc, val, next, marked, rebal, stop, msgCh, got, panicked>>

\* The error loop runs wg.Add(1) itself, once the goroutine is scheduled.
ErrLoopAdd ==
  /\ ~panicked /\ epc = "start"
  /\ wg' = wg + 1 /\ epc' = "loop"
  /\ UNCHANGED <<spc, spawned, cpc, val, next, marked, rebal, stop, msgCh, got, panicked>>

\* ctx.Done() or the closed Errors() channel ends the loop; then wg.Done().
ErrLoopExit ==
  /\ ~panicked /\ epc = "loop" /\ CtxDone
  /\ wg' = wg - 1 /\ epc' = "done"
  /\ UNCHANGED <<spc, spawned, cpc, val, next, marked, rebal, stop, msgCh, got, panicked>>

SetPc(i, pc) == cpc' = [cpc EXCEPT ![i] = pc]

\* p.cgroup.Consume: on a closed group it fails and log.Panic panics;
\* otherwise a session starts at the offset after the last one marked.
Consume(i) ==
  /\ Running(i) /\ cpc[i] = "consume"
  /\ IF GroupClosed
       THEN panicked' = TRUE /\ UNCHANGED <<cpc, next>>
       ELSE /\ SetPc(i, "claim")
            /\ next' = [next EXCEPT ![i] = marked[i] + 1]
            /\ UNCHANGED panicked
  /\ UNCHANGED <<spc, spawned, wg, epc, val, marked, rebal, stop, msgCh, got>>

\* Mutant of ClaimRecv: the message is marked as soon as it is received,
\* before cacheMsg (MarkMessage and cacheMsg swapped).
ClaimRecvMarksFirst(i) ==
  /\ Running(i) /\ cpc[i] = "claim"
  /\ next[i] <= NumMsgs
  /\ val' = [val EXCEPT ![i] = next[i]]
  /\ next' = [next EXCEPT ![i] = next[i] + 1]
  /\ marked' = [marked EXCEPT ![i] = next[i]]
  /\ SetPc(i, "cache")
  /\ UNCHANGED <<spc, spawned, wg, epc, rebal, stop, msgCh, got, panicked>>

\* ConsumeClaim's select: a message from claim.Messages() ...
ClaimRecv(i) ==
  /\ Running(i) /\ cpc[i] = "claim"
  /\ next[i] <= NumMsgs
  /\ val' = [val EXCEPT ![i] = next[i]]
  /\ next' = [next EXCEPT ![i] = next[i] + 1]
  /\ SetPc(i, "cache")
  /\ UNCHANGED <<spc, spawned, wg, epc, marked, rebal, stop, msgCh, got, panicked>>

\* Mutant of ClaimEnd: ConsumeClaim has no ctx.Done() case and returns
\* only when a rebalance closes claim.Messages().
ClaimEndIgnoresCtx(i) ==
  /\ Running(i) /\ cpc[i] = "claim"
  /\ rebal < MaxRebalances /\ rebal' = rebal + 1
  /\ SetPc(i, "after")
  /\ UNCHANGED <<spc, spawned, wg, epc, val, next, marked, stop, msgCh, got, panicked>>

\* ... or the end of the session: claim.Messages() closed by a rebalance,
\* or ctx.Done().  ConsumeClaim returns nil, and so does Consume.
ClaimEnd(i) ==
  /\ Running(i) /\ cpc[i] = "claim"
  /\ \/ CtxDone /\ UNCHANGED rebal
     \/ rebal < MaxRebalances /\ rebal' = rebal + 1
  /\ SetPc(i, "after")
  /\ UNCHANGED <<spc, spawned, wg, epc, val, next, marked, stop, msgCh, got, panicked>>

\* Mutant of CacheMsg: the send proceeds on a channel with one value too
\* many.
CacheMsgOffByOne(i) ==
  /\ Running(i) /\ cpc[i] = "cache"
  /\ \/ ChClosed /\ panicked' = TRUE /\ UNCHANGED <<cpc, msgCh>>
     \/ /\ ~ChClosed /\ Len(msgCh) <= CacheSize
        /\ msgCh' = Append(msgCh, <<i, val[i]>>)
        /\ SetPc(i, "mark")
        /\ UNCHANGED panicked
  /\ UNCHANGED <<spc, spawned, wg, epc, val, next, marked, rebal, stop, got>>

\* cacheMsg: p.msgCh <- msg blocks while the channel is full, and panics
\* once it is closed.
CacheMsg(i) ==
  /\ Running(i) /\ cpc[i] = "cache"
  /\ \/ ChClosed /\ panicked' = TRUE /\ UNCHANGED <<cpc, msgCh>>
     \/ /\ ~ChClosed /\ Len(msgCh) < CacheSize
        /\ msgCh' = Append(msgCh, <<i, val[i]>>)
        /\ SetPc(i, "mark")
        /\ UNCHANGED panicked
  /\ UNCHANGED <<spc, spawned, wg, epc, val, next, marked, rebal, stop, got>>

\* session.MarkMessage(msg, "").
Mark(i) ==
  /\ Running(i) /\ cpc[i] = "mark"
  /\ marked' = [marked EXCEPT ![i] = val[i]]
  /\ SetPc(i, "claim")
  /\ UNCHANGED <<spc, spawned, wg, epc, val, next, rebal, stop, msgCh, got, panicked>>

\* After Consume: select { case <-ctx.Done(): break; default: }, and
\* wg.Done() on the way out.
AfterConsume(i) ==
  /\ Running(i) /\ cpc[i] = "after"
  /\ IF CtxDone
       THEN SetPc(i, "done") /\ wg' = wg - 1
       ELSE SetPc(i, "consume") /\ UNCHANGED wg
  /\ UNCHANGED <<spc, spawned, epc, val, next, marked, rebal, stop, msgCh, got, panicked>>

\* Stop, inside once.Do: p.cancel(), close(p.msgCh), p.cgroup.Close().
StopCancel ==
  /\ ~panicked /\ stop = "idle" /\ stop' = "cancelled"
  /\ UNCHANGED <<spc, spawned, wg, epc, cpc, val, next, marked, rebal, msgCh, got, panicked>>

StopCloseCh ==
  /\ ~panicked /\ stop = "cancelled" /\ stop' = "chclosed"
  /\ UNCHANGED <<spc, spawned, wg, epc, cpc, val, next, marked, rebal, msgCh, got, panicked>>

StopCloseGroup ==
  /\ ~panicked /\ stop = "chclosed" /\ stop' = "done"
  /\ UNCHANGED <<spc, spawned, wg, epc, cpc, val, next, marked, rebal, msgCh, got, panicked>>

\* for msg := range p.Messages(): receives until msgCh is closed and empty.
Receive ==
  /\ ~panicked /\ msgCh # << >>
  /\ got' = Append(got, Head(msgCh)) /\ msgCh' = Tail(msgCh)
  /\ UNCHANGED <<spc, spawned, wg, epc, cpc, val, next, marked, rebal, stop, panicked>>

Consumer(i) ==
  Consume(i) \/ ClaimRecv(i) \/ ClaimEnd(i) \/ CacheMsg(i) \/ Mark(i) \/ AfterConsume(i)

Next ==
  \/ StartSpawn \/ StartReturn \/ ErrLoopAdd \/ ErrLoopExit
  \/ \E i \in Consumers : Consumer(i)
  \/ StopCancel \/ StopCloseCh \/ StopCloseGroup
  \/ Receive

\* A program that panicked, or whose goroutines have all returned, takes
\* no step; the configurations do not check deadlock.
Spec == Init /\ [][Next]_vars

\* The scheduler runs every runnable goroutine; Stop, once called, runs
\* to its end.  Nothing forces Stop to be called or a rebalance to happen.
FairSpec ==
  /\ Spec
  /\ WF_vars(StartSpawn) /\ WF_vars(StartReturn)
  /\ WF_vars(ErrLoopAdd) /\ WF_vars(ErrLoopExit)
  /\ \A i \in Consumers :
       WF_vars(Consume(i) \/ ClaimRecv(i) \/ CacheMsg(i) \/ Mark(i) \/ AfterConsume(i))
       /\ WF_vars(ClaimEnd(i) /\ CtxDone)
  /\ WF_vars(StopCloseCh) /\ WF_vars(StopCloseGroup)
  /\ WF_vars(Receive)

(***************************************************************************)
(* Properties                                                              *)
(***************************************************************************)
TypeOK ==
  /\ spc \in {"spawn", "wait", "returned"} /\ spawned \in 0..Concurrency
  /\ wg \in 0..Concurrency + 1
  /\ epc \in {"start", "loop", "done"}
  /\ cpc \in [Consumers -> {"consume", "claim", "cache", "mark", "after", "done"}]
  /\ \A i \in Consumers :
       /\ val[i] \in 0..NumMsgs /\ next[i] \in 1..NumMsgs + 1 /\ marked[i] \in 0..NumMsgs
  /\ rebal \in 0..MaxRebalances
  /\ stop \in {"idle", "cancelled", "chclosed", "done"}
  /\ msgCh \in Seq(Consumers \X (1..NumMsgs)) /\ Len(msgCh) <= CacheSize
  /\ got \in Seq(Consumers \X (1..NumMsgs))
  /\ panicked \in BOOLEAN

\* The offsets of partition i handed to the user or waiting in msgCh, in
\* the order msgCh delivers them.
Delivered(i) ==
  LET s == SelectSeq(got \o msgCh, LAMBDA m : m[1] = i) IN [k \in DOMAIN s |-> s[k][2]]

\* What was marked (and so is committed by sarama for the next session)
\* reached msgCh, once, in partition order and with no gap, across
\* rebalances and whatever Stop interrupts: cacheMsg completes before
\* MarkMessage, and only a message ConsumeClaim is about to mark is in
\* msgCh beyond the marked offset.
MarkedDelivered ==
  \A i \in Consumers :
    /\ Delivered(i) = [k \in 1..Len(Delivered(i)) |-> k]
    /\ Len(Delivered(i)) = marked[i] + (IF cpc[i] = "mark" THEN 1 ELSE 0)

\* Once Stop has cancelled ctx, Start returns and the user's range has
\* received everything in msgCh, unless the program panicked: every
\* ConsumeClaim leaves on ctx.Done(), every consumeMsg leaves its loop,
\* and the error loop ends.
StopEndsStart ==
  CtxDone ~> (panicked \/ (spc = "returned" /\ msgCh = << >>))

\* Start returns only after the goroutines it counts in wg have returned.
\* TLC reports it violated: the error loop runs wg.Add(1) itself, so
\* wg.Wait can return before that goroutine has started.
StartWaitsForLoops ==
  spc = "returned" => epc = "done" /\ \A i \in Consumers : cpc[i] = "done"

\* Stop never makes the program panic.  TLC reports it violated: a
\* ConsumeClaim that received a message before ctx was cancelled sends it
\* on msgCh after Stop closed it.
NoPanic == ~panicked
=============================================================================
