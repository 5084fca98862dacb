------------------------------- MODULE Batcher -------------------------------
(***************************************************************************)
(* One Batcher of src/batch-process/batch_process.go, driven as            *)
(* TestBatcherGroup drives it: one goroutine Puts the items in order and   *)
(* then calls Close.                                                       *)
(*                                                                         *)
(* The goroutines are the client, the source loop, BatcherConcurrency     *)
(* sink workers and the sink goroutine that waits for them and closes     *)
(* done.  Channels are sequences with their capacity; a blocked send or   *)
(* receive is a step that is not enabled.  A batch is the sequence of its *)
(* items (Items[:NextItemIdx]); len(batch.Items) is always MaxBatchSize,  *)
(* the length of the slice the code allocates.  The ticker case of source *)
(* changes nothing (its flush is commented out) and is left out; so is    *)
(* the FNV hash, replaced by a constant map from item to table key.        *)
(***************************************************************************)
EXTENDS Integers, Sequences, FiniteSets, SequencesExt

CONSTANTS
  NItems,               \* items the client Puts, numbered 1..NItems
  ConcurrencyArg,       \* cfg.BatcherConcurrency as given
  MaxBatchSizeArg,      \* cfg.MaxBatchSize as given
  SourceQueueSizeArg,   \* cfg.SourceQueueSize as given
  NumCPU,               \* runtime.NumCPU()
  Key                   \* FNV1av32(item.key) % BatcherConcurrency, per item

Items == 1..NItems

\* NewBatcherGroup: a zero field takes its default.
WithDefault(v, d) == IF v = 0 THEN d ELSE v
Concurrency == WithDefault(ConcurrencyArg, NumCPU)
MaxBatchSize == WithDefault(MaxBatchSizeArg, 16)
SourceQueueSize == WithDefault(SourceQueueSizeArg, 32)

\* The sink workers, and the keys of batchTable.
Threads == 0..Concurrency - 1

ASSUME Key \in [Items -> Threads]

NoItem == 0

VARIABLES
  cpc,          \* client: "put", "close_wait", "returned" or "timed_out"
  nextItem,     \* the item the client Puts next
  accepted,     \* items whose Put returned nil
  sourceQ,      \* contents of b.sourceQ
  sqClosed,     \* close(b.sourceQ) has run
  table,        \* batchTable: key -> items of its batch
  spc,          \* source: "loop", "send" (blocked on b.batchQ <- batch), "exited"
  pend,         \* the item source holds while it sends the full batch
  batchQ,       \* contents of b.batchQ
  bqClosed,     \* close(b.batchQ) has run
  wpc,          \* sink workers: "loop" or "exited"
  processedPerThread,
  done,         \* close(b.done) has run
  doneCount     \* how many times each item was in a batch doBatch received

vars == <<cpc, nextItem, accepted, sourceQ, sqClosed, table, spc, pend,
          batchQ, bqClosed, wpc, processedPerThread, done, doneCount>>

Init ==
  /\ cpc = "put"
  /\ nextItem = 1
  /\ accepted = {}
  /\ sourceQ = << >>
  /\ sqClosed = FALSE
  /\ table = [k \in Threads |-> << >>]
  /\ spc = "loop"
  /\ pend = NoItem
  /\ batchQ = << >>
  /\ bqClosed = FALSE
  /\ wpc = [w \in Threads |-> "loop"]
  /\ processedPerThread = [w \in Threads |-> 0]
  /\ done = FALSE
  /\ doneCount = [i \in Items |-> 0]

Source == <<sourceQ, table, spc, pend, bqClosed>>
Sink == <<batchQ, wpc, processedPerThread, done, doneCount>>

\* Put: the send on b.sourceQ wins the select.
PutSend ==
  /\ cpc = "put"
  /\ nextItem \in Items
  /\ Len(sourceQ) < SourceQueueSize
  /\ sourceQ' = Append(sourceQ, nextItem)
  /\ accepted' = accepted \cup {nextItem}
  /\ nextItem' = nextItem + 1
  /\ UNCHANGED <<cpc, sqClosed, table, spc, pend, batchQ, bqClosed, Sink>>

\* Put: the channel stays full for __DefaultBatcherPutTimeout; Put returns
\* an error and the client goes on with the next item.
PutTimeout ==
  /\ cpc = "put"
  /\ nextItem \in Items
  /\ Len(sourceQ) = SourceQueueSize
  /\ nextItem' = nextItem + 1
  /\ UNCHANGED <<cpc, accepted, Source, sqClosed, Sink>>

\* Close: close(b.sourceQ); b.sourceQ = nil; then wait in the select.
Close ==
  /\ cpc = "put"
  /\ nextItem = NItems + 1
  /\ ~sqClosed
  /\ sqClosed' = TRUE
  /\ cpc' = "close_wait"
  /\ UNCHANGED <<nextItem, accepted, Source, Sink>>

\* Close returns when <-b.done fires ...
CloseDone ==
  /\ cpc = "close_wait"
  /\ done
  /\ cpc' = "returned"
  /\ UNCHANGED <<nextItem, accepted, sqClosed, Source, Sink>>

\* ... or when __DefaultBatcherCloseTimeout fires first (it logs a warning
\* instead; "timed_out" records which case of the select ran).
CloseTimeout ==
  /\ cpc = "close_wait"
  /\ ~done
  /\ cpc' = "timed_out"
  /\ UNCHANGED <<nextItem, accepted, sqClosed, Source, Sink>>

\* Mutant of BatchFull: the batch counts as full only past MaxBatchSize.
BatchFullOffByOne(k) == Len(table[k]) > MaxBatchSize

\* appendItemWithFlushOp: batch.NextItemIdx >= b.cfg.MaxBatchSize.
BatchFull(k) == Len(table[k]) >= MaxBatchSize

\* source: item, ok := <-b.sourceQ with ok; the item goes to the batch of
\* its key, unless that batch is full and must first be sent.
SourceRecv ==
  /\ spc = "loop"
  /\ sourceQ # << >>
  /\ LET i == Head(sourceQ)
         k == Key[i]
     IN /\ sourceQ' = Tail(sourceQ)
        /\ IF BatchFull(k)
             THEN /\ spc' = "send"
                  /\ pend' = i
                  /\ UNCHANGED table
             ELSE /\ table' = [table EXCEPT ![k] = Append(@, i)]
                  /\ UNCHANGED <<spc, pend>>
  /\ UNCHANGED <<cpc, nextItem, accepted, sqClosed, bqClosed, Sink>>

\* Mutant of SourceSend: after the send the new batch does not get the
\* item that triggered it.
SourceSendDropsItem ==
  /\ spc = "send"
  /\ Len(batchQ) < Concurrency + 1
  /\ batchQ' = Append(batchQ, table[Key[pend]])
  /\ table' = [table EXCEPT ![Key[pend]] = << >>]
  /\ spc' = "loop"
  /\ pend' = NoItem
  /\ UNCHANGED <<cpc, nextItem, accepted, sourceQ, sqClosed, bqClosed,
                 wpc, processedPerThread, done, doneCount>>

\* appendItemWithFlushOp: b.batchQ <- batch (blocks while b.batchQ holds
\* BatcherConcurrency+1 batches), then a new batch holding the item.
SourceSend ==
  /\ spc = "send"
  /\ Len(batchQ) < Concurrency + 1
  /\ batchQ' = Append(batchQ, table[Key[pend]])
  /\ table' = [table EXCEPT ![Key[pend]] = << pend >>]
  /\ spc' = "loop"
  /\ pend' = NoItem
  /\ UNCHANGED <<cpc, nextItem, accepted, sourceQ, sqClosed, bqClosed,
                 wpc, processedPerThread, done, doneCount>>

\* Mutant of SourceExit: the commented-out b.flush(batchTable, true) runs,
\* sending every partial batch before close(b.batchQ).
SourceExitFlushing ==
  /\ spc = "loop"
  /\ sqClosed
  /\ sourceQ = << >>
  /\ batchQ' = batchQ \o SelectSeq([k \in 1..Concurrency |-> table[k - 1]],
                                   LAMBDA b : b # << >>)
  /\ table' = [k \in Threads |-> << >>]
  /\ bqClosed' = TRUE
  /\ spc' = "exited"
  /\ UNCHANGED <<cpc, nextItem, accepted, sourceQ, sqClosed, pend,
                 wpc, processedPerThread, done, doneCount>>

\* source: ok is false once b.sourceQ is closed and drained; break, then
\* close(b.batchQ).  The batches left in batchTable are dropped.
SourceExit ==
  /\ spc = "loop"
  /\ sqClosed
  /\ sourceQ = << >>
  /\ bqClosed' = TRUE
  /\ spc' = "exited"
  /\ UNCHANGED <<cpc, nextItem, accepted, sourceQ, sqClosed, table, pend, Sink>>

\* A sink worker: item := range b.batchQ, doBatch, then
\* processedPerThread[idx] += len(item.Items).
SinkProcess(w) ==
  /\ wpc[w] = "loop"
  /\ batchQ # << >>
  /\ batchQ' = Tail(batchQ)
  /\ processedPerThread' = [processedPerThread EXCEPT ![w] = @ + MaxBatchSize]
  /\ doneCount' = [i \in Items |->
                     doneCount[i] + Cardinality({j \in DOMAIN Head(batchQ) : Head(batchQ)[j] = i})]
  /\ UNCHANGED <<cpc, nextItem, accepted, Source, sqClosed, wpc, done>>

\* Mutant of SinkExit: the worker stops once b.batchQ is closed, without
\* draining it.
SinkExitEarly(w) ==
  /\ wpc[w] = "loop"
  /\ bqClosed
  /\ wpc' = [wpc EXCEPT ![w] = "exited"]
  /\ UNCHANGED <<cpc, nextItem, accepted, Source, sqClosed, batchQ,
                 processedPerThread, done, doneCount>>

\* The range loop ends when b.batchQ is closed and drained; wg.Done().
SinkExit(w) ==
  /\ wpc[w] = "loop"
  /\ bqClosed
  /\ batchQ = << >>
  /\ wpc' = [wpc EXCEPT ![w] = "exited"]
  /\ UNCHANGED <<cpc, nextItem, accepted, Source, sqClosed, batchQ,
                 processedPerThread, done, doneCount>>

\* sink: wg.Wait() returns, close(b.done).
SinkDone ==
  /\ \A w \in Threads : wpc[w] = "exited"
  /\ ~done
  /\ done' = TRUE
  /\ UNCHANGED <<cpc, nextItem, accepted, Source, sqClosed, batchQ, wpc,
                 processedPerThread, doneCount>>

Client == PutSend \/ PutTimeout \/ Close \/ CloseDone \/ CloseTimeout

SourceLoop == SourceRecv \/ SourceSend \/ SourceExit

Worker(w) == SinkProcess(w) \/ SinkExit(w)

Next == Client \/ SourceLoop \/ (\E w \in Threads : Worker(w)) \/ SinkDone

\* Once Close has returned and every goroutine has exited nothing is
\* enabled: the program ends, so deadlock is not checked.
Spec == Init /\ [][Next]_vars

\* The Go scheduler runs every runnable goroutine.
FairSpec ==
  /\ Spec
  /\ WF_vars(Client) /\ WF_vars(SourceLoop) /\ WF_vars(SinkDone)
  /\ \A w \in Threads : WF_vars(Worker(w))

(***************************************************************************)
(* Properties                                                              *)
(***************************************************************************)
TypeOK ==
  /\ cpc \in {"put", "close_wait", "returned", "timed_out"}
  /\ nextItem \in 1..NItems + 1
  /\ accepted \subseteq Items
  /\ sourceQ \in Seq(Items) /\ Len(sourceQ) <= SourceQueueSize
  /\ table \in [Threads -> Seq(Items)]
  /\ \A k \in Threads : Len(table[k]) <= MaxBatchSize
  /\ spc \in {"loop", "send", "exited"}
  /\ pend \in Items \cup {NoItem}
  /\ batchQ \in Seq(Seq(Items)) /\ Len(batchQ) <= Concurrency + 1
  /\ wpc \in [Threads -> {"loop", "exited"}]
  /\ processedPerThread \in [Threads -> Nat]
  /\ {sqClosed, bqClosed, done} \subseteq BOOLEAN
  /\ doneCount \in [Items -> Nat]

\* How often item i is somewhere on its way: in b.sourceQ, in a batch of
\* batchTable, in source's hands, in b.batchQ, or handed to doBatch.
Occurrences(i) ==
  LET InSeq(s) == Cardinality({j \in DOMAIN s : s[j] = i})
  IN  InSeq(sourceQ)
      + FoldFunction(LAMBDA b, acc : InSeq(b) + acc, 0, table)
      + (IF pend = i THEN 1 ELSE 0)
      + FoldSeq(LAMBDA b, acc : InSeq(b) + acc, 0, batchQ)
      + doneCount[i]

\* Every item a Put accepted is in exactly one place of the pipeline (or
\* was processed exactly once), and no other item appears: the source's
\* flush of a full batch and its new batch neither drop nor repeat items.
NoItemLostOrDuplicated ==
  \A i \in Items : Occurrences(i) = IF i \in accepted THEN 1 ELSE 0

\* Stat (the sum of processedPerThread) equals the number of items handed
\* to doBatch, although the workers add len(item.Items), the length of the
\* allocated slice, rather than NextItemIdx.
StatCountsProcessed ==
  SumFunction(processedPerThread) = SumFunction(doneCount)

\* Every item a Put accepted is eventually handed to doBatch.  The code
\* does not promise it: source exits without flushing batchTable (the TODO
\* at its end), and its ticker case no longer flushes, so a partial batch
\* waits until its key fills it and is dropped on Close.  No run checks it.
EveryAcceptedItemProcessed ==
  \A i \in Items : i \in accepted ~> doneCount[i] > 0

\* Every batch that source sends on b.batchQ is eventually handed to
\* doBatch, also when Close runs meanwhile: the workers drain the closed
\* channel before they exit.
SentBatchesProcessed ==
  \A i \in Items :
    (\E j \in DOMAIN batchQ : \E m \in DOMAIN batchQ[j] : batchQ[j][m] = i)
      ~> doneCount[i] > 0
=============================================================================
