# TLA+ models of Useful-Go-Gadgets

This directory holds TLA+ models of the concurrent and stateful parts of the
repository, the TLC configurations that check them, and `PROJECT.json`. That
file records each run, each mutant and each finding, maps every definition to
the Go lines it translates, and lists the hazards of the code.

## 1. The system

The repository is a collection of independent gadgets. Most of them do not
interact. Each one is a component here, with its own module or modules.

| Component | State | Operations | What makes it hard |
|---|---|---|---|
| bytes-queue (`src/bytes-queue/bytes_queue.go`) | byte array, `capacity`, `head`, `tail`, `rightMarginIndex`, `count`, `full` | NewBytesQueue, Push (after tail / wrap before head / grow / refuse), Pop, Reset, Peek/Get/CheckGet/Len (read only) | uvarint-framed records in a ring; growth re-lays a wrapped ring and plugs the gap with a placeholder record; indexes handed out must stay valid |
| lock-free-queue | linked nodes, `head`, `tail`, `count` | Push and Pop CAS loops | interleaving of CAS steps by many goroutines; `count` updated only when the goroutine's own tail CAS wins |
| token-pool | channel of tokens, `pend`, mutex | Acquire, Release, Join | Acquire blocks on the channel while holding the mutex Release needs |
| buffer-queue (`LimitBufferQueue.tla`) | deque, one `sync.Cond` | BPush, BPop, Len | one condition variable with `Signal` for both producers and consumers; Len takes another mutex |
| batch-process | `sourceQ`, per-key `batchTable`, `batchQ`, per-thread counters | Put, source loop, sink workers, Close, Stat | what happens to accepted items on Close; counters |
| task-load-balancer | `looktable`, `pool` under a mutex | Add/Remove/Rent/RevertWorker | Rent on an empty table; Revert after Remove |
| leader-elect-by-cassandra | lease row with TTL, node `status` | elect loop (create/update/remove lease via LWT), sleep, Resign | lease expiry against the leader's renewal period; blocking `ev` channel |
| leader-elect-by-zk | session events, candidate status, `stop`/`close` channels | elect loop, Close | Close's handshake with the loop's exits |
| stream-op (`StreamOp.tla`) | chained unbuffered channels, one goroutine per combinator, `ctx` | AsStream, TakeN, SkipN, TakeFn, SkipFn, TakeWhile, SkipWhile, FanOut, FanIn | values through a chain of goroutines, cancellation, sends outside the select |
| kafka predator (`src/kafka/predator`) | WaitGroup, buffered `msgCh`, ctx, consumer group sessions, marked offsets | Start, Stop, Messages, the error loop, consumeMsg, ConsumeClaim | close of a channel that may still be sent on; `wg.Add` inside the counted goroutine; mark after cache across rebalances |
| extsync (`ReentrantMutex`, `Once`) | `owner`, `recursion`, embedded mutex; `done`, mutex | Lock, Unlock; Do | re-entry and the release order; a failing f retried |
| memo (`usinglock`, `usingcsp`) | cache of entries with a `ready` channel; a server goroutine | New, Get, server, call, deliver, Close | one f per key while Gets of the key wait concurrently |
| fwriter (`FWriter.tla`) | the inode at `fn.lock`, the flock on each inode, each writer's lock descriptor | NewSafeWriter (FLock open, flock), Commit, Abort (exit: Release, Remove) | writers in several goroutines or processes; the lock file unlinked while another writer holds it open |
| big-memory-cache (`BigMemCache.tla`) | bigcache as a map from UUID to encoded bytes; the shard count | NewBigMemCache, Add, Del, Get, Reset; encode, decode | fixed-width length prefixes of variable-length fields |
| token-bucket, tpsctrl | a buffered channel; a library bucket | Take, TakeWithCtx, GiveBack | not modelled (section 17) |

I/O wrappers (kafka admin/producer/consumer) and
pure helpers (compress, deepcopy, type conversion, stream-io) have no state a
model checker could say anything about. `PROJECT.json` lists them as
`not_modelled` and gives the reason for each.

## 2. The bytes-queue model

### Modules

- `FifoQueue.tla` is the abstract specification. It is a sequence with Put,
  Take and Clear: the promise of the type comment ("a queue type of fifo")
  and of spec.md §8.
- `BytesQueue.tla` is the implementation, translated from the Go source:
  - One action per exported call that changes state: `Push(data)`, `Pop`
    and `Reset`, plus `Init` for NewBytesQueue.
  - Push is one step that composes `PlaceFor` (the three branches of Push),
    `allocateAdditionalMemory`, `push` and `copy`, as the code does within
    one call. The type is documented as not thread-safe, so calls do not
    interleave.
  - A refused Push (ErrFullQueue) and a Pop of an empty queue change nothing.
    They are stuttering steps.
  - The record `Cur` bundles the struct fields, so each helper takes and
    returns the struct the way the Go methods mutate `q`.
  - The headers are the real uvarint encoding: `PutUvarint` and `Uvarint`
    are reference definitions of `encoding/binary`. A cursor that lands on
    the wrong byte decodes what the code would decode.
- `MCBytesQueue.tla` gives the constants for TLC.

### Abstractions

- **Data.** Payloads are drawn from a small set of byte strings. Every byte
  outside the live records holds whatever was written there last: a
  never-written byte, a popped record, or the tail of a moved array. The model
  replaces all of these by one value, `Stale`. This keeps the state space
  finite without losing a case: a correct queue never reads free space, so
  any read of `Stale` as part of a record is reported by the invariants. Pop
  is enabled only when the record at head is readable. So after a violation
  the model stops exploring that branch, where the real code would read
  leftover bytes.
- **Ghost state.** `issued` maps each index returned by Push and not yet
  popped to the bytes pushed there.
- **Auxiliary variable.** `view` holds the payloads of the live records in
  Pop order. `SetState` computes it from the new struct. It is the
  refinement mapping to `FifoQueue` (`queue <- view`).

### Properties

| Property | What it says | Why it is not trivial |
|---|---|---|
| `TypeOK` | The fields have their types; capacity stays within `InitCapacity..maxCapacity`. | The ceiling depends on the clamp in allocateAdditionalMemory. |
| `LiveRegionWellFormed` | Following the headers from head, and jumping back at rightMarginIndex as Pop does, reads `count` records, the last ending at tail. `head = tail` only when empty (both at the left margin) or full, and `full` says which. | It needs wraps, pops and growth in a particular order to break. |
| `IndexStability` | Every index returned by Push and not yet popped passes CheckGet, and Get returns the pushed bytes. This includes indexes handed out before the array was reallocated. | It relates the state to the history of returned indexes. |
| `LenCountsLiveRecords` (no run, see finding 3) | `Len()` equals the number of pushed, not popped entries. | Only growth with a gap breaks it. |
| `RefinesFifoQueue` | The records seen through Pop behave as `FifoQueue`: Push appends, Pop takes the oldest, Reset clears. | A temporal property over whole behaviours. |

### Runs

| Run | Config | Bounds | Result |
|---|---|---|---|
| `bq_safety` | `MCBytesQueueRuns.tla` with `BytesQueueRuns.cfg`: `TypeOK`, `IndexStability`, `LiveRegionWellFormed` of both copies, `RefinesFifoQueue` of the fixed copy | a fixed copy (capacity = maxCapacity = 20) and a growing copy (capacity 10, maxCapacity 22), one chosen in the initial state; data `<<>>`, `<<7,7,7>>` | passes (165,353 states: 13,546 fixed plus 151,807 growing) |
| `bq_grow_fifo` | `BytesQueueGrowFifo.cfg`: `RefinesFifoQueue` | the growing bounds | violated |
| (reproduction) | `BytesQueueGap.cfg`: `LiveRegionWellFormed` | capacity 132, maxCapacity 300; data `<<>>` and 127 bytes | violated; not a run (see finding 2) |

Why the bounds are enough:

- With 20 bytes and records of 1 and 4 bytes, the queue reaches every Push
  branch:
  - wrap with exact fit;
  - wrap with a margin of at least 17 (`minimumHeaderSize`);
  - refusal;
  - the full state;
  - Pop's collapse of the cursors.
- With 10 growing to 22 bytes, the queue reaches:
  - growth in the contiguous layout;
  - growth in the wrapped layout with and without a gap (the placeholder
    path);
  - growth that is clamped to the maximum;
  - refusal once the maximum is reached.
- The gap configuration needs a gap of 129 bytes to cross the one-byte /
  two-byte uvarint boundary. Its capacity of 132 is the smallest that
  produces one.

All runs check deadlock. Reset is always enabled, so the queue never stops.
No liveness is claimed: the queue has no background activity and no fairness
to assume.

### Findings

All three findings are violations of what the code's own comments promise.
`PROJECT.json` gives the traces' source lines.

1. **FIFO order breaks on growth while full and wrapped.**
   - Setup: a push fills the wrapped ring exactly (`tail == head`, `full`).
     Then a push that needs more space grows the array.
   - The growth sets `head = 1` and `tail = rightMarginIndex`. The records
     written after the wrap sit at the start of the array, so Pop now returns
     the newest records before the older ones.
   - Shown by `bq_grow_fifo`.
2. **The placeholder is misaligned when the gap is 129.**
   - The placeholder's payload is `gap - getUvarintSize(gap)` bytes, but its
     header is written for that payload length. A gap of 129 needs a 2-byte
     size, while 127 encodes in 1 byte.
   - The placeholder therefore ends one byte short of the old head. Pop
     decodes a leftover byte as a header.
   - `BytesQueueGap.cfg` reproduces it: `tlc -config BytesQueueGap.cfg
     MCBytesQueue` reports `LiveRegionWellFormed` violated. It is kept as
     the hazard `bytes_queue.go:142` rather than as a run, because the
     project's run slots went to components not modelled before.
3. **The placeholder is counted as an entry.**
   - The placeholder is written through `push`, which increments `count`.
   - As a result, `Len()` over-reports, and Pop returns an empty entry that
     nobody pushed.
   - `LenCountsLiveRecords` states the promise. It is not a run of its
     own: adding `INVARIANT LenCountsLiveRecords` to `BytesQueueGrow.cfg`
     makes TLC report it violated after a growth with a gap.

### Mutants

Each property of a passing run is shown to catch a plausible bug:

| Run | Property | Mutated definition | Mutant | The bug it imitates |
|---|---|---|---|---|
| `bq_safety` | `RefinesFifoQueue` | `canInsertAfterTail` | `canInsertAfterTailIgnoringFull` | the full check is dropped |
| `bq_safety` | `TypeOK` | `allocateAdditionalMemory` | `allocateUnclamped` | no clamp to maxCapacity |
| `bq_safety` | `IndexStability` | `allocateAdditionalMemory` | `allocateCopyToTail` | only `[:tail]` is copied |
| `bq_safety` | `LiveRegionWellFormed` | `push` | `pushNoFull` | `full` is never set |

## 3. The lock-free queue model

### Module

`LockFreeQueue.tla` models `src/lock-free-queue/lock_free_queue.go`. The
MC module is `MCLockFreeQueue.tla`.

- **Goroutines.** Each goroutine in `Procs` runs one Push or Pop at a time.
  Every atomic load and every CAS of the code is its own action, named after
  the line it models (`PushLoadTail`, `PushCasNext`, `PopLoadHNext`,
  `PopCasHead` and so on). The goroutine's position is `pc[p]`, and its locals
  are `n`, `t`, `tn`, `h` and `hn`.
- **Nodes.** Nodes are numbers: node 0 is the dummy, and Push allocates nodes
  `1..MaxPush`. Go's collector keeps a node alive while any goroutine still
  points to it, so a node is never reused and the model has no ABA. Each
  node's value is the node itself, so a popped value names the Push it came
  from.
- **Panic.** Pop can dereference a nil `hnext` (line 79). The model turns
  that into the label `panic`, after which no goroutine runs (`At` is false).
  So the safety and liveness runs set `CHECK_DEADLOCK FALSE`: a panicked
  program really stops.
- **View.** `view` is the list of nodes after the dummy head, oldest first.
  It is the refinement mapping to `FifoQueue`.
- **Reduction.** A goroutine's locals are reset when it returns (`Return`).
  They are dead at that point, so this only merges states that differ in
  values the code never reads again.

### Properties

| Property | Kind | What it says |
|---|---|---|
| `TypeOK` | invariant | `q.tail` and `q.head` always point to a node. A swing to a nil `tnext` would break it. |
| `RefinesFifoQueue` | refinement | Push and Pop are linearizable to `FifoQueue`. A Push takes effect at its CAS of `tail.next`; a Pop takes effect at its CAS of `q.head`. |
| `PopReturnsOldest` | action property | The value a successful Pop returns is the head of the queue at its CAS. |
| `EmptyPopJustified` | action property | `(nil, false)` is returned only if the queue was empty when that Pop loaded `head.next`, its linearization point. |
| `OpsComplete` | liveness, under `WF` of each goroutine | Every Push and Pop that starts returns (unless the program panicked). The Go scheduler runs every runnable goroutine eventually, which justifies weak fairness per goroutine. |

### Runs

| Run | Config | Bounds | Result |
|---|---|---|---|
| `lfq_safety` | `LockFreeQueue.cfg`: all five properties, under `FairSpec` | 2 goroutines, 4 pushes | passes (about 420,000 states, under a minute) |
| (reproduction) | `LockFreeQueuePanic.cfg`: `NoPanic` | 2 goroutines, 4 pushes | violated; not a run (see finding 2) |

Why the bounds are enough:

- Two goroutines can both push at once and race for the same `tail.next`,
  or one can push while the other pops and helps swing `q.tail`.
- Four pushes let each goroutine push twice, and let Pops empty the queue
  and Pushes refill it. Three goroutines with two pushes gave 2.6 million
  states for the safety properties alone, and ten minutes with
  `OpsComplete` added, so the single run uses two goroutines and more
  pushes.
- Every branch of both retry loops is reached:
  - the failed recheck of `q.tail` and of `q.head`;
  - the lost CAS of `tail.next`;
  - the lost CAS of `q.tail`;
  - both helping swings;
  - a lost CAS of `q.head`;
  - the empty return.

### Findings

1. **`Len` undercounts for good** (`LenMatchesWhenQuiescent`, no run of
   its own: adding it as an `INVARIANT` to `LockFreeQueue.cfg` makes TLC
   report it violated).
   - A Push increments `count` only when its own CAS of `q.tail` wins.
   - Another Push that finds the tail lagging swings it first (line 54). The
     owner's CAS then fails, and its element is never counted.
   - The repository's test asserts `Len() == 100 - succ` and carries a TODO
     that it fails. This trace is why.
2. **Pop can panic** (`LockFreeQueuePanic.cfg`, kept as the hazard
   `lock_free_queue.go:64`; `tlc -config LockFreeQueuePanic.cfg
   MCLockFreeQueue` reports `NoPanic` violated).
   - Pop loads `head.next` before `q.tail`, which is the reverse of the
     Michael-Scott order.
   - Suppose the queue is empty at the first load, and a Push completes
     before the second. Then `head != tail`, and `v := hnext.v` dereferences
     nil.

### Mutants

| Property | Mutated definition | Mutant | The bug it imitates |
|---|---|---|---|
| `TypeOK` | `PopCheck` | `PopCheckSwingsEmpty` | the empty check is missing |
| `EmptyPopJustified` | `PopCheck` | `PopCheckWithoutNext` | `head == tail` is taken to mean empty |
| `PopReturnsOldest` | `PopCasHead` | `PopReadsDummy` | the value is read from `head`, not from `hnext` |
| `RefinesFifoQueue` | `PushCasNext` | `PushStoreNext` | a store where the code has a CAS |
| `OpsComplete` | `PopCheck` | `PopCheckSpinOnEmpty` | Pop spins on an empty queue |

## 4. The token pool model

### Module

`TokenPool.tla` models `src/token-pool/token_pool.go`. Its safety
properties are checked in the `gadgets` run (section 14); `MCTokenPool.tla`
with `TokenPool.cfg` reproduces its deadlock. The workers behave as in the repository's tests: each
worker calls Acquire, then Release with the token it got. A main goroutine
calls Join.

- **State.** The buffered channel `p.q` is a sequence, and `mu` is the
  goroutine holding the mutex.
- **Steps.**
  - Taking `mu` is a step of its own: `AcquireLock` and `ReleaseLock`.
  - What the code does under `mu`, up to the deferred Unlock, is one step:
    `AcquireReceive`, `AcquireCancelled`, `ReleaseSend` and `JoinReturn`.
  - A goroutine waiting in the `select` keeps holding `mu`: it stays at
    `acq_select`.
- **Context.** A worker's `ctx` can be done only if the worker is in
  `Cancellable`. That is the `Cancel` step. It may happen or not, so the
  safety properties cover workers with and without a deadline.
- **Ending.** When every goroutine has returned, no step is enabled. So the
  configurations do not check deadlock, and `EveryCallReturns` tells a hang
  from an ending.
- **Fairness** (`FairSpec`, for `EveryCallReturns` only). Each worker and
  the Join caller are weakly fair: the Go scheduler runs runnable
  goroutines. `Cancel` is weakly fair too, which holds only for a ctx with a
  deadline; the repository's only caller uses `context.Background()`, so
  no run assumes it.

### Properties

| Property | Kind | What it says |
|---|---|---|
| `TokenConservation` | invariant | Every token is in the channel or held by exactly one worker. This includes when a `ctx` fires during Acquire. |
| `JoinAfterRelease` | action property | Join returns only at a moment when no worker holds a token. |
| `EveryCallReturns` | liveness | Every Acquire, Release and Join returns. |

### Runs

| Run | Config | Result |
|---|---|---|
| `gadgets` | 3 workers, 2 tokens, each ctx may or may not be done; properties `TP_TokenConservation`, `TP_JoinAfterRelease` | passes. The third Acquire blocks on the empty channel while holding `mu`, with or without its ctx firing. |
| (reproduction) | `TokenPool.cfg`: 3 workers, 2 tokens, `context.Background()`; `EveryCallReturns` | violated in 7 states (below). |

### Hazard: the pool deadlocks without deadlines

This is the hazard `token_pool.go:40` in `PROJECT.json`; the project's
run slots went to other components, so it is a reproduction rather than a
run. `tlc -config TokenPool.cfg MCTokenPool` reports `EveryCallReturns`
violated:

- Two workers hold the two tokens and wait for `mu` in Release.
- The third worker holds `mu` and waits on the empty channel in Acquire.
- The tests start 100 goroutines on 10 tokens with
  `context.Background`, so they can hang this way.

Join returns as soon as `pend == concurrency`. That is already true before
any worker has acquired a token, so `TestComplexJobWithJoin` can end while
its goroutines have not started. This is Join's documented condition, so it
is listed as a hazard in `PROJECT.json` rather than given a run.

### Mutants

| Property | Mutated definition | Mutant | The bug it imitates |
|---|---|---|---|
| `TP_TokenConservation` | `AcquireCancelled` | `AcquireCancelledDraining` | the token is received, then dropped when `ctx` is done |
| `TP_JoinAfterRelease` | `AcquireReceive` | `AcquireNoPendDec` | `pend--` is missing |

## 5. The buffer queue model

### Module

`LimitBufferQueue.tla` models `src/buffer-queue/buffer_queue.go`. Its
capacity invariant is checked in the `gadgets` run (section 14);
`MCLimitBufferQueue.tla` with `LimitBufferQueue.cfg` is the run
`lbq_lost_wakeup`. The repository has no test for this
gadget, so the workload is the plainest one: each producer calls BPush
`Pushes` times, and each consumer calls `BPop(Want)` until it has received
`Take` items.

- **State.** The deque is its length `len`: BPush and BPop read nothing
  else. `lk` is the goroutine holding `cond.L`, and `waiters` is the
  cond's notify list, oldest first.
- **`sync.Cond` as Go implements it.**
  - `Wait` appends the goroutine to the notify list and unlocks `L` in one
    step.
  - `Signal` wakes the oldest waiter. Go gives each waiter a ticket and
    wakes the lowest one.
  - The woken goroutine must take `L` again (`Lock`) and re-check its loop
    condition.
- **Steps.** Taking `L` is a step (`Lock`). What a call does while holding
  `L` is one step (`BPushCheck`, `BPopCheck`): either Wait, or
  push/pop, Signal and the deferred Unlock.
- **Fairness** (`FairSpec`). Running goroutines are weakly fair. `Lock` is strongly
  fair: other goroutines keep taking `L`, and `sync.Mutex` hands it to a
  goroutine that has waited long enough (starvation mode).
- **Ending.** When every goroutine is done no step is enabled, so the
  configurations do not check deadlock. `EveryCallReturns` tells a hang
  from an ending.

### Properties

| Property | Kind | What it says |
|---|---|---|
| `CapacityRespected` | invariant | The deque never holds more than `cap` items, even when a pusher woken by Signal re-takes `L` after others pushed. |
| `EveryCallReturns` | liveness | Every BPush and BPop call returns. |

### Runs

| Run | Config | Result |
|---|---|---|
| `gadgets` | 2 producers × 2 pushes, 1 consumer with `BPop(2)` taking 4, cap 2; property `LB_CapacityRespected` | passes. A pusher woken by Signal finds the deque refilled by the other pusher and waits again. |
| `lbq_lost_wakeup` | `LimitBufferQueue.cfg`: the same goroutines at cap 1; property `EveryCallReturns` | violated in 15 states (below). |

### Finding: lost wakeup

One `sync.Cond` with `Signal` serves both sides, so a Signal can wake a
goroutine of the same side while the one that could proceed sleeps. A
cond used this way is stuck only when `2 * cap < producers + consumers`,
which is why cap 2 with three goroutines passes and cap 1 does not. The
`lbq_lost_wakeup` trace:

1. `a1` pushes, then finds the deque full and waits; `a2` waits behind it.
2. `c1` pops the item; its Signal wakes `a1`.
3. `c1` calls BPop again, finds the deque empty and waits behind `a2`.
4. `a1` pushes its second item; its Signal (`buffer_queue.go:36`) wakes
   `a2`, the oldest waiter, instead of `c1`.
5. `a2` finds the deque full and waits again.

`c1` now sleeps while the deque holds an item, and `a2` sleeps waiting for
`c1`. The same happens with one producer and two consumers at cap 1
(constants `MCOneProducer`, `MCTwoConsumers`, `MCCapOne`, `MCWantOne`,
`MCTakeOne`). One cond for both sides needs `Broadcast`, or one cond per
side.

### Mutants

| Property | Mutated definition | Mutant | The bug it imitates |
|---|---|---|---|
| `LB_CapacityRespected` | `BPushFull` | `BPushFullOffByOne` | `>` for `>=` in BPush's loop |

## 6. The batcher model

### Module

`Batcher.tla` models one `Batcher` of `src/batch-process/batch_process.go`,
created through `NewBatcherGroup`'s defaults (a zero argument takes
`NumCPU`, 16 or 32). `MCBatcher.tla` instantiates it.

- The client (`Client`) Puts items 1..NItems in order. Each Put either
  sends on `sourceQ` (`PutSend`) or takes the 10 s timeout (`__DefaultBatcherPutTimeout`) while the
  channel is full (`PutTimeout`). Then it calls Close: `Close` closes
  `sourceQ`, and the return is `CloseDone` when `done` is closed or
  `CloseTimeout` when the 5 s timer (`__DefaultBatcherCloseTimeout`) fires
  first.
- The source goroutine (`SourceLoop`) receives one item and appends it to
  the batch of its key (`SourceRecv`). When that batch is already full, it
  first sends the batch on `batchQ` and starts a new one with the item
  (`SourceSend`, blocked while `batchQ` holds Concurrency+1 batches). Once
  `sourceQ` is closed and drained, it closes `batchQ` and returns without
  flushing `batchTable` (`SourceExit`).
- Each sink worker (`Worker(w)`) processes one batch (`SinkProcess`): it
  hands the items to `doBatch` and adds `len(item.Items)`, the full
  allocated length MaxBatchSize, to its counter. When `batchQ` is closed
  and empty it exits (`SinkExit`). `SinkDone` closes `done` after all
  workers have exited.
- The FNV hash that picks a key is the constant function `Key`.
- Fairness is weak fairness on the client, the source, `SinkDone` and
  every worker: each is a goroutine the scheduler runs while it is
  runnable.

### Properties

| Property | Kind | States |
|---|---|---|
| `TypeOK` | invariant | types, and no batch ever holds more than MaxBatchSize items |
| `NoItemLostOrDuplicated` | invariant | every accepted item is in exactly one place (`sourceQ`, a batch, source's hands, `batchQ`, or processed once), and no unaccepted item appears |
| `StatCountsProcessed` | invariant | Stat equals the number of items handed to doBatch |
| `SentBatchesProcessed` | liveness | every item in a batch sent on `batchQ` is eventually processed, even when Close runs meanwhile |

`EveryAcceptedItemProcessed` is defined and checked by no run. It is
violated: source exits without flushing `batchTable`, as the TODO at
`batch_process.go:211` admits, so a partial batch is dropped on Close.
With the `Batcher.cfg` constants, TLC reports it violated.

### Run

`bp_pipeline` (`Batcher.cfg`) uses six items on two keys (five on key 0,
one on key 1), batches of two, two workers and a source queue of two.
These bounds let a batch fill, a full `batchQ` block the source, a Put
time out, and Close race the workers. The run reaches 830 distinct states
and fires every action.

`StatCountsProcessed` holds only because only full batches ever reach the
workers. The commented-out ticker flush would send partial batches, and
the workers would then overcount; the mutant `SourceExitFlushing` shows it.

### Mutants

| Property | Mutant | Plausible bug |
|---|---|---|
| `TypeOK` | `BatchFull` → `BatchFullOffByOne` | flush when the batch is over MaxBatchSize |
| `NoItemLostOrDuplicated` | `SourceSend` → `SourceSendDropsItem` | the item that triggered the flush is not put in the new batch |
| `StatCountsProcessed` | `SourceExit` → `SourceExitFlushing` | flush partial batches on exit (the TODO) with the counter unchanged |
| `SentBatchesProcessed` | `SinkExit` → `SinkExitEarly` | a worker exits as soon as `batchQ` is closed, without draining it |

## 7. The Cassandra elector model

### Module

`CassandraElector.tla` models the `Elector` of
`src/leader-elect-by-cassandra/leader_elect.go`: the lease row and the
node processes. `MCCassandraElector.tla` instantiates it.

- **The lease row** (`holder`, `ttl`): `leader_id` and the seconds left of
  the table's `default_time_to_live` of `__DefaultTTL` = 10.
- **Each node** has:
  - `status`, the atomic `e.status`;
  - `snap`, the `s` read at the top of the loop;
  - `pc`, one of idle, top, query, sleep, dead;
  - its pending query: `applied` and `qtime`;
  - `slept`, the time left of its sleep;
  - `role`, the Role of the last Status sent on `ev`;
  - `upc`, its process: running, in Resign, or returned.
- **Time** is whole seconds, counted down by timers. `Tick` lets one
  second pass: the row ages and expires, and sleeps and queries count
  down. `Tick` is disabled while a node has an immediate step to take
  (`Urgent`): reading status, handling a reply, waking at its deadline or
  on Resigned (the sleep loop polls every 100ms), or returning from Resign.
- **Actions:**
  - `Start`;
  - `Top`: read status and send the query of its case;
  - `Apply`: the server runs `INSERT ... IF NOT EXISTS`,
    `UPDATE ... IF leader_id = me` (`ApplyUpdate`, which refreshes the TTL)
    or `DELETE ... IF leader_id = me`;
  - `QueryReply` and `QueryFail`;
  - `Wake`, `Resign` and `ResignReturn`.
- **Query failures:** a query may be applied and still fail (a timeout
  after the write), fail without being applied, or never be applied.
  `Handle` is the rest of the loop body for a result: publish on `ev`,
  CAS `status`, then sleep, continue, or, after `removeLease`, close `ev`
  and `dead`.
- **Fairness:** weak fairness on each node's elect goroutine, on
  `ResignReturn` and on `Tick`, because time passes. Nothing makes a query
  succeed.

### Properties

| Property | Kind | States |
|---|---|---|
| `TypeOK` | invariant | types, and the row has a holder exactly while its TTL runs |
| `LeaderHoldsLease` | invariant | a process whose last Status says Leader, and which has not resigned, is named by the row |
| `ResignReturns` | liveness | every Resign call returns, even if every query fails |

`LeaderHoldsLease` implies `NoSplitBrain` (at most one process acts as
leader), so the run checks the stronger one.

### Run

`ce_lease` (`CassandraElector.cfg`) uses two nodes, of which `n1` may
resign, the default Heartbeat of 10, and a TTL of 10. It reaches 744,741
distinct states in about 30 s and fires every action. Both nodes may start
at any time and every query outcome is explored, so every leader and lease
phase difference of whole seconds occurs.

### Heartbeat

The leader sleeps (Heartbeat-1)/2 seconds, and its renewal may take up to
`__DefaultTimeout` = 2 s to fail. Heartbeat 10 and 12 are safe. From
Heartbeat 13 on, the row can expire before the renewal's failure demotes
the leader, and a follower can take it in between. With `MCHeartbeat` set
to 13, TLC reports `NoSplitBrain` violated at depth 21. Heartbeat is user
configuration and nothing checks it against the fixed TTL. This is
recorded as a hazard, because the project has no run slot left for it.

### Mutants

| Property | Mutant | Plausible bug |
|---|---|---|
| `TypeOK` | `Tick` → `TickExpiresLate` | the row outlives its TTL by a second |
| `LeaderHoldsLease` | `SleepSecs` → `SleepSecsNotHalved` | the leader sleeps a whole Heartbeat |
| `ResignReturns` | `QueryFail` → `QueryFailRetryRemove` | a failed removeLease is retried until it succeeds |

## 8. The stream-op model

### Module

`StreamOp.tla` models the pipeline combinators of
`src/stream-op/stream.go`, with the synchronous `FanOut` of `fan_out.go`
and `FanIn` of `fan_in.go` composed after them. `MCStreamOp.tla`
instantiates it.

- **The pipeline.** `AsStream(ctx, Values...)` feeds a sequence of
  `Stages`, each one of TakeN, SkipN, TakeFn, SkipFn, TakeWhile or
  SkipWhile. The predicate of a Fn or While stage is the set of values it
  accepts. The last stage feeds `FanOut(in, out, false)` with `Outs`
  unbuffered channels. `FanIn(out...)` merges them into a channel of
  capacity `Outs`, and a consumer ranges over it.
- **State.** Every unbuffered channel is a rendezvous:
  - a send and its receive are one step (`Transfer`, `FanOutRecv`,
    `FanInRecv`);
  - a close is the sender's `done` seen by the receiver (`InputClosed`,
    `FanOutClosed`, `FanInClosed`).

  Each goroutine `k` (0 is AsStream) has a record `st[k]`:
  - `pc`: recv, send or done;
  - `val`: the value held for sending;
  - `cnt`: the loop counter of TakeN and SkipN;
  - `skip`: whether SkipWhile is still skipping.

  FanIn's buffered channel is `buf`, and what the consumer received,
  tagged with the out it came through, is `got`.
- **ctx.** `cancel()` may happen at any time (`Cancel`). A goroutine
  waiting in a `select` that has a `ctx.Done()` case then returns
  (`CtxDone`). A plain `hijackStream <- v` has no such case.
- **Fairness.** Every goroutine is weakly fair: the Go scheduler runs a
  runnable goroutine. Nothing forces `cancel()`.

The reference definitions `TakeNRef`, `SkipNRef`, `TakeWhileRef` and
`SkipWhileRef` say what each combinator does to a whole sequence, with
`SelectSeq`/`SelectInSeq`. `Expected` folds them over `Stages` with
`FoldLeft`.

### Properties

| Property | Kind | What it says |
|---|---|---|
| `TypeOK` | invariant | types; FanIn is done exactly when no case is left; its buffer never holds more than `Outs` values |
| `DeliversPrefix` | invariant | for every out, the consumer has received, in order, a prefix of `Expected`, whatever the interleaving and wherever `cancel()` cuts the pipeline |
| `DeliversAll` | liveness | unless ctx is cancelled, the consumer's range loop ends, and by then each out delivered all of `Expected` |

### Run

`so_pipeline` (`StreamOp.cfg`) sends the values 1..8 through all six
combinators and through a FanOut/FanIn of two outs. `Expected` is `<<3, 5>>`.
The comment in `MCStreamOp.tla` traces each stage. The run reaches about
53,000 distinct states in seconds.

The stages were chosen so that every branch occurs:
- SkipN skips one value;
- SkipWhile skips and then passes;
- TakeFn and SkipFn drop values;
- TakeWhile returns on a failing value;
- TakeN returns while its input still holds a value.

With two outs, FanIn's `reflect.Select` can interleave them.

### Hazard: a cancelled pipeline leaks goroutines

`CancelReleasesPipeline` states that once ctx is cancelled every goroutine
returns. It has no run: the run slots are in use and its violation is
recorded as the hazard `stream.go:38`. Add it as a `PROPERTY` to
`StreamOp.cfg` and TLC reports it violated. Every combinator sends with a
plain `hijackStream <- v`, outside the select on `ctx.Done()`. When the
stage below has returned on the cancellation, the sender blocks forever,
and so do FanOut and FanIn behind it. The same happens without
cancellation when TakeN or TakeWhile return while the stage above still
holds a value. In the run above, TakeWhile is left blocked sending 7.

### Mutants

| Property | Mutant | Plausible bug |
|---|---|---|
| `TypeOK` | `FanInClosed` → `FanInClosedNeverExits` | the select loop does not end when the last case is removed |
| `DeliversPrefix` | `AfterSend` → `AfterSendTakeNOffByOne` | TakeN's loop runs N+1 times |
| `DeliversAll` | `OnValue` → `OnValueSkipWhileStuck` | SkipWhile never stops skipping |

Not modelled: `FanOut`'s async mode and `OrDone` (section 17).

## 9. The ZooKeeper elector model

### Module

`ZkElector.tla` models the `Elector` of
`src/leader-elect-by-zk/leader_elect.go`, driven as the example
`src/cmd/leaderelect/z_node_01/main.go` drives it. One goroutine runs
`ElectLeader`, and the main goroutine calls `Close` on a signal.

- **ElectLeader.** `epc` goes through setup, loop, exit, handoff and done.
  `Setup` covers the connect, `prepare` and the start of the candidate.
  The loop's select has three cases:
  - `SessionEvent(ev)`: the channel closed, the session expired or auth
    failed ends the loop; any other event is recorded in `zkState`;
  - `CandidateStatus(s)`: a closed channel or an error ends the loop;
    Leader runs `setLeader`, which writes `/leader` (`leaderZnode`);
  - `StopCase`: taken once `stop` is closed, and the only case that sets
    `fromStop`.
- **After the loop.** `Leave` resigns and closes the connection. `Handoff`
  is the send on the unbuffered `e.close` together with Close's receive,
  and happens only if `fromStop`.
- **Close** closes `stop` and waits on `e.close` (`upc` = closing).
- **Environment.** ZooKeeper and the candidate may deliver any event or
  status at any time, and nothing forces them to. `log.Fatal` ends the
  process and is left out.
- **Fairness.** Weak fairness on the ElectLeader goroutine only.

### Property and run

`CloseReturns` says that a Close call returns. This is what Close's
comment promises: the participator leaves the election.

The run `zk_close_hang` (`ZkElector.cfg`) expects it violated, and TLC
finds it in 56 states. Close closes `stop`. The select, which picks any
ready case, takes a session-expired event instead of the stop case. The
loop ends with `fromStop` false, so nothing is sent on `e.close`, and Close
blocks forever. The same happens when the loop ended before Close on any
other exit: auth failure, a closed channel or a status error. The
example's `main` then never exits on its signal. This is a finding in
`PROJECT.json`.

## 10. The task load balancer model

### Module

`TaskLB.tla` models `src/task-load-balancer/task_load_balancer.go`, and
`MCTaskLB.tla` instantiates it.

- **One step per call.** Every method holds `lb.mu` from its first line to
  its deferred Unlock, so each call is one step: `AddWorker(w)`,
  `RemoveWorker(w)`, `RentWorker(c)` and `RevertWorker(c)`. A Go map is a
  function with a changing domain: `SetUsage` adds a key, and
  `RemoveWorker` uses `Restrict`.
- **Rent.** `RentWorker` keeps the first least-used entry in Go's random
  map order. The model chooses any least-used name (`Candidates`), and `""`
  when the table is empty. It increments that name's usage and returns
  `pool[name]`, which is nil for a name not in the pool.
- **Clients and admin.** Clients do what the repository's test does: rent,
  `w.Do(...)` outside the lock (`Do`), then revert. `Do` on a nil worker
  panics, which ends the program. An admin goroutine adds and removes
  workers at any time, up to `MaxAdminOps` calls.

### Property and run

`RentGetsPooledWorker` is an action property. It states the comment on
RentWorker, "gets an available worker from the balancer": while the pool
holds a worker, a rent returns a worker of the pool.

The run `tlb_ghost` (`TaskLB.cfg`: 2 workers, 2 clients, 3 admin calls)
expects it violated. TLC finds an 8-state trace:
1. w1 and w2 are added.
2. c1 rents w1.
3. The admin removes w1.
4. c1's RevertWorker re-creates `looktable["w1"]` at 0 (`task_load_balancer.go:82`),
   with no pool entry.
5. c2 rents the least-used name, the ghost w1, and gets nil although w2 is
   in the pool.

The ghost entry also makes a later `AddWorker("w1")` fail, because the name
is already in the looktable. This is a finding in `PROJECT.json`.

## 11. The Kafka predator model

### Module

`Predator.tla` models `DataIngressPredator` of
`src/kafka/predator/data_ingress_predator.go`. sarama is the environment.

- **Start** (`spc`) runs the error loop and `Concurrency` consumeMsg
  goroutines (`StartSpawn`), then returns from `wg.Wait` when `wg` is 0
  (`StartReturn`).
- **The error loop** (`epc`) runs `wg.Add(1)` inside itself
  (`ErrLoopAdd`) and leaves once ctx is done (`ErrLoopExit`). In the
  code the loop ends when `Errors()` closes, which happens only in
  `cgroup.Close`, after Stop has cancelled ctx; the model takes the ctx
  as the guard.
- **Consumer `i`** holds partition `i`:
  - `Consume(i)` calls `cgroup.Consume`. On a closed group it gets
    ErrClosedConsumerGroup, and `log.Panic` turns that into a panic.
  - `ClaimRecv(i)` receives offset `next[i]`.
  - `CacheMsg(i)` sends it on `msgCh`. It blocks while the channel is full
    and panics once Stop has closed it.
  - `Mark(i)` marks it.
  - `ClaimEnd(i)` leaves ConsumeClaim on ctx.Done() or on a rebalance, at
    most `MaxRebalances` times. A new session resumes at `marked[i] + 1`,
    as sarama's committed offset does.
  - `AfterConsume(i)` loops or returns.
- **Stop** (`stop`) is three steps: cancel ctx, close `msgCh`, close the
  group. **The user's range** over Messages() is `Receive`.
- **Fairness.** Every goroutine is weakly fair: the scheduler runs a
  runnable goroutine, and Stop runs to its end once called. ConsumeClaim's
  ctx.Done() case is weakly fair once ctx is done. Nothing forces Stop or a
  rebalance to happen.

### Properties

| Property | Kind | What it says |
|---|---|---|
| `MarkedDelivered` | invariant | For each partition, the offsets handed to the user or waiting in `msgCh` are 1, 2, … with no gap and no repeat. Their number is the marked offset, plus one for a message cached and not yet marked. This holds across rebalances and whatever Stop interrupts. |
| `StopEndsStart` | liveness | Once Stop cancels ctx, Start returns and `msgCh` is drained, unless the program panicked. |

The two reproductions record the code's two Stop hazards. Each checks one
invariant under `Spec`, and TLC reports each one violated.
- `PredatorPanic.cfg` (`NoPanic`): Stop completes, and a consumeMsg that
  has not yet called Consume calls it on the closed group: `log.Panic`.
  With a different order, a ConsumeClaim sends on the closed `msgCh`.
- `PredatorWait.cfg` (`StartWaitsForLoops`): `wg.Add(1)` runs inside the
  error-loop goroutine, so `wg.Wait` can return before that goroutine has
  started.

They are hazards (`data_ingress_predator.go:130` and `:98`), not runs.

The predator is checked in the `gadgets` run (section 14), under the
bounds of `MCPredator.tla`:
- two consumers and a one-slot `msgCh`, so a cacheMsg blocks;
- two offsets per partition and one rebalance, so a second session resumes
  after a mark.

`Predator.cfg` checks the same properties on the predator alone (21,559
states).

## 12. The extsync models

### ReentrantMutex

`ReentrantMutex.tla` models `src/extsync/reentrantmutex.go`, driven as
`reentrantmutex_test.go` drives it. `reentrant(iter)` Locks, increments
`gCounter.Count`, recurses, and Unlocks on the way back, until `Depth`
Locks are nested. The model runs it in two goroutines; the test uses one.

- `goid.Get()` is the goroutine itself.
- `owner` is 0 before the first Lock and -1 after a release. Neither is a
  goroutine id, so both are `NoOwner`.
- Lock is three steps:
  - the atomic load of `owner`, which either re-enters with `recursion++`
    or goes on (`Lock`);
  - `m.Mutex.Lock()` (`Acquire`);
  - the store of `owner` and `recursion = 1` (`StoreOwner`).
- Unlock is three steps:
  - the owner check and `recursion--` (`Unlock`);
  - the store of -1 (`Release`);
  - `m.Mutex.Unlock()` (`UnlockMutex`).
- Unlock's panic is not modelled: the goroutines only unlock what they
  hold.

Properties:
- `MutualExclusion` (invariant): at most one goroutine is inside the lock
  at any depth. A named owner holds the embedded mutex, with `recursion`
  equal to its nesting.
- `AllReturn` (liveness, weak fairness per goroutine): every goroutine's
  `reentrant(0)` returns.

### Once

`ExtOnce.tla` models `Once` of `src/extsync/extonce.go`. Each caller calls
`Do(f)` until it returns nil, at most `Tries` times. f returns nil or an
error nondeterministically. `inits` counts the calls of f that returned
nil.
- `Do` is the fast path.
- `Lock`, `Check` (the double check) and `RunF` (f, the store of `done` on
  success, and the deferred Unlock) are doSlow.
- `Return` is the caller's loop.

Properties:
- `InitializedOnce` (invariant): f succeeds at most once. A Do that
  returns nil returns after the initialization, whether by the fast path,
  by the double check, or by running f.
- `CallersFinish` (liveness): every caller's loop ends.

Not modelled: `Mutex.TryLock`, `Count`, `IsLocked`, `IsWoken` and
`IsStarving`, and `RWMutex.TryRWLock`, `RCount` and `WExist`. They read
the private state words of `sync.Mutex` and `sync.RWMutex` through unsafe
pointer arithmetic on their memory layout, which a model of the mutex's
behaviour does not have. The RWMutex helpers also compute their offsets
from `unsafe.Pointer(&rw)`, the address of the receiver variable rather
than of the RWMutex. What they read is therefore a word of the caller's
stack.

## 13. The memo models and their abstract specification

- **`Memo.tla`** is the abstract specification of both packages under
  `src/memo`. Each client calls `Get(KeyOf[c])` once, in three steps:
  - `Request(c)`: the client asks;
  - `Compute(k)`: f(k) is computed once, and only while some Get of k
    waits;
  - `Return(c)`: every Get of k returns that one result.

  Errors are results and are cached too.
- **`MemoLock.tla`** models `usinglock`. A Get takes `memo.mu` (`Lock`).
  `Lookup` finds or creates the entry and unlocks. The creating Get runs f
  and closes `e.ready` (`Compute`). Every Get returns `e.res` (`Return`),
  the others after `<-e.ready`.
- **`MemoCsp.tla`** models `usingcsp`.
  - The server's loop body never blocks, so a Get's send on the unbuffered
    `memo.requests`, the server's receive and the body are one step
    (`Request`). That step creates a missing entry, starts its `e.call` and
    starts an `e.deliver` for the request.
  - `Call(k)` is `e.call`.
  - `Deliver(c)` is `e.deliver`'s wait and its send on the unbuffered
    response channel, received by the blocked Get.
  - `Close` closes `memo.requests`, and `ServerExit` ends the range loop.
    The owner closes the memo once every Get has returned. A Get that sends
    after Close panics; that case is the hazard `usingcsp/memo.go:65`.

Each implementation defines `Abs == INSTANCE Memo WITH ...`. The refinement
mapping puts `res[k]` in the abstract cache once `e.ready` is closed.
`ImplementsMemo == Abs!Spec` is checked as a temporal property, and
`AllGetsReturn` is checked under weak fairness of every goroutine. For
usingcsp, `AllGetsReturn` adds that the server exits once Close has
happened; nothing forces the owner to call Close.

## 14. The `gadgets` run: one harness for eight components

The predator, ReentrantMutex, Once, the two memos, the buffer queue, the
token pool and the big-memory cache do not interact.
`MCGadgets.tla` checks them in one run:
- The initial state picks one component (`which`).
- Only that component takes steps. Every other component stays in its
  initial state.
- Each component's fairness is guarded by `which`. TLC cannot evaluate an
  instanced fairness operator whose argument mentions the harness's
  variable, so the harness states the fairness conditions itself, over each
  component's own variables.
- Each liveness property of a component is stated as
  `which = "x" => ...`.

The state space is the sum of the eight, not their product. A component
that is not chosen must have a single initial state, so the harness fixes
the cache's shard count to 1 unless `which = "bm"`. The run reaches 26,313
distinct states in about fifteen seconds.

| Component | Bounds | What they make happen |
|---|---|---|
| predator | as `MCPredator` | a blocked cacheMsg, a rebalance after a mark, Stop at any point |
| ReentrantMutex | 2 goroutines, depth 3 | re-entry, inner Unlocks, a contended Mutex.Lock |
| Once | 2 callers, 2 tries each | a failed f retried by either caller, the fast path, the double check |
| memos | 3 Gets: two of k1, one of k2; 2 results | a waiting Get, two keys computed concurrently, a different result per run |
| buffer queue | 2 producers × 2 pushes, 1 consumer `BPop(2)` taking 4, cap 2 | a full deque, a pusher woken after the other refilled it |
| token pool | 3 workers, 2 tokens, each ctx may be done or not | Acquire blocked on the empty channel holding `mu`, a ctx firing in it |
| big-memory cache | 3 features (two under one UUID, version -1, empty and non-empty fields, all-ones `CreatedTime`); max items 0, 100, 250, 12700, 20000 | overwrite, Del and Reset; negative ints through their two's complement; shard counts 1, 2, 128 and the cap |

The harness's `TypeOK` conjoins the eight type invariants. Its other
properties are each component's properties under a prefix:
- `PR_MarkedDelivered` and `PR_StopEndsStart`;
- `RM_MutualExclusion` and `RM_AllReturn`;
- `EO_InitializedOnce` and `EO_CallersFinish`;
- `ML_ImplementsMemo` and `ML_AllGetsReturn`;
- `MC_ImplementsMemo` and `MC_AllGetsReturn`;
- `LB_CapacityRespected` (section 5);
- `TP_TokenConservation` and `TP_JoinAfterRelease` (section 4);
- `BM_ImplementsFeatureStore` and `BM_ConfigAccepted` (section 16).

The buffer queue, the token pool and the cache are checked for safety
only, so the harness gives them no fairness: both the buffer queue and the
token pool can hang (sections 4 and 5).

### Mutants

| Property | Mutated definition | Mutant | The bug it imitates |
|---|---|---|---|
| `TypeOK` | `Predator!CacheMsg` | `CacheMsgOffByOne` | the full check lets `msgCh` take one more |
| `PR_MarkedDelivered` | `Predator!ClaimRecv` | `ClaimRecvMarksFirst` | mark before cache |
| `PR_StopEndsStart` | `Predator!ClaimEnd` | `ClaimEndIgnoresCtx` | ConsumeClaim's select has no ctx.Done() case |
| `RM_MutualExclusion` | `ReentrantMutex!Unlock` | `UnlockIgnoresRecursion` | the first Unlock releases |
| `RM_AllReturn` | `ReentrantMutex!UnlockMutex` | `UnlockMutexKeepsMutex` | `m.Mutex.Unlock()` forgotten |
| `EO_InitializedOnce` | `ExtOnce!RunF` | `RunFStoresDoneFirst` | `done` stored before f succeeds |
| `EO_CallersFinish` | `ExtOnce!RunF` | `RunFKeepsLockOnErr` | the error path returns without Unlock |
| `ML_ImplementsMemo` | `MemoLock!Lookup` | `LookupAlwaysCreates` | no lookup: every Get computes |
| `ML_AllGetsReturn` | `MemoLock!Compute` | `ComputeNoClose` | `e.ready` never closed |
| `MC_ImplementsMemo` | `MemoCsp!Request` | `RequestAlwaysNewEntry` | the server does not cache entries |
| `MC_AllGetsReturn` | `MemoCsp!Request` | `RequestNoDeliver` | `go e.deliver` forgotten |
| `LB_CapacityRespected`, `TP_*` | see sections 4 and 5 | | |
| `BM_ImplementsFeatureStore` | `BigMemCache!Prefixed` | `PrefixedBigEndian` | a length prefix written big-endian |
| `BM_ConfigAccepted` | `BigMemCache!FindNearestPowerOf2Num` | `FindNearestPowerOf2NumInverted` | the power-of-two test inverted |

## 15. The fwriter model

`FWriter.tla` models `src/fwriter/fwriter.go` and `filelock.go`; the MC
module is `MCFWriter.tla`. Each writer, a goroutine or a process, calls
`NewSafeWriter(fn)` and then `Commit` or `Abort`, up to `Rounds` times.

- **State.** The file system is what the lock depends on: `lockPath`, the
  inode at the path `fn.lock` (`NoFile` when unlinked); `flocks`, the writer
  holding flock on each inode; `fd`, the inode of each writer's lock
  descriptor. `MaxInodes` bounds the inodes `O_CREAT` creates.
- **Steps**, one per system call: `Open` (`open(O_CREAT)` of the inode at
  the path, creating one when it is free), `Flock` (success; `EWOULDBLOCK`,
  which closes the descriptor and returns an error; any other error, which
  closes the descriptor and returns nil, allowed only when `FlockErrors`),
  `OpenTmp` (the temporary file opens, or fails and unlocks), `Finish`
  (Commit or Abort; Sync and Rename only move data), `Release` (close,
  dropping the flock) and `Remove` (unlink `fn.lock`).
- **Property.** `OneWriter`: at most one writer holds a SafeWriter, the
  promise of Acquire's "file has been locked by another thread".

| Run | Config | Result |
|---|---|---|
| `fw_unlink_race` | `FWriter.cfg`: 2 writers, 2 rounds, 2 inodes, no flock errors | `OneWriter` violated in 12 states |

The trace (TLC with one worker): w1 creates inode 1 at `fn.lock` and
flocks it; its temporary file fails to open, so it releases the flock
(`fwriter.go:33`); w2 now opens inode 1 through the path; w1 unlinks
`fn.lock` (`fwriter.go:34`), tries again, creates inode 2 at the free path,
flocks it and holds a writer; w2 flocks inode 1, which has no name any
more, and holds a writer too. The same happens when the first writer
unlocks in `exit` after Commit or Abort (`fwriter.go:80-81`). Unlinking a lock file after
dropping its flock is unsafe; the lock file must stay, or the unlink must
happen while the flock is held and each acquirer must check that the
inode it locked is still at the path. `FWriterFlockErr.cfg` sets
`FlockErrors = TRUE` and shows the second path in 7 states: a flock error
other than `EWOULDBLOCK` makes Acquire return nil without the lock.

## 16. The big-memory cache model and its abstract specification

`FeatureStore.tla` is what the cache promises: a map from UUID to the
feature last added under it, with Add, Del, Get (the stored feature or
nil) and Reset. Each call is recorded in `last`, so that a Get result the
map does not give, or an Add that stores something else, is a step the
abstract specification has not got.

`BigMemCache.tla` models `src/big-memory-cache`:
- **Bytes.** A byte string is a sequence of runs `[n, b]` of `n` copies of
  byte `b`, so a blob of 65538 bytes is one run and lengths keep their
  real width. `encode` is translated field by field: the `uint32` total
  length, `uint32(Version)` in two's complement, each string or byte slice
  after a `uint16(len)` prefix (`% 65536`), and the eight bytes of
  `CreatedTime`. `decode` reads the same schema (`ReadFields`): a read past
  the end panics as Go's slice bounds do, and a final position other than
  the length is an error.
- **Cache.** bigcache is a map from UUID to bytes: sharding, eviction and
  hash collisions are left out. Add encodes and stores, Get returns nil
  for a missing entry or bytes that do not decode, and a panic in decode
  ends the program (`panicked`). `decoded` is an auxiliary variable, kept
  equal to the decoding of `cache` (the type invariant checks it), so that
  the refinement mapping `store <- decoded` does not decode under a prime.
- **Configuration.** `ShardsOf` translates `defaultBigCacheCfg` and
  `findNearestPowerOf2Num` (a floor power of two, whatever its name says).

| Property | What it says |
|---|---|
| `ImplementsFeatureStore` | `FeatureStore!Spec` under `store <- decoded`: every Get returns the feature last added under its UUID, or nil after Del or Reset, and never panics |
| `ConfigAccepted` | the shard count is a power of two and at most 128, as `bigcache.NewBigCache` requires |

Both are checked in `gadgets` with features of ordinary size.

| Run | Config | Result |
|---|---|---|
| `bm_len_wrap` | `BigMemCacheWrap.cfg`: a feature whose blob is 65538 bytes, one of ordinary size | `ImplementsFeatureStore` violated at the first Add |

`uint16(len(fe.Blob))` writes 2, while `totalLen` counts the full length,
so encode's `pos != totalLen` check passes and Add stores the bytes.
decode reads a blob of 2 bytes, ends far from the end, and Get returns nil
for the feature just added. The same holds for `UUID` and `Meta`.

## 17. Not modelled

- **token-bucket.** `Take` and `GiveBack` are one channel send and one
  receive, and a model of them would only restate Go's buffered channel.
  Its hazard is in the API:
  `TakeWithCtx` returns on `ctx.Done()` without a token and without saying
  so. A caller that then calls `GiveBack` removes someone else's token. The
  repository has no caller of it.
- **tpsctrl** wraps `juju/ratelimit`, a time-based token bucket of a
  library.
- **extsync's Mutex and RWMutex helpers**: see section 12.
- **stream-op's async FanOut and OrDone.**
  - Async FanOut's hazard, the non-atomic
    `finish.Store(finish.Load()+1)`, is listed at `fan_out.go:35`.
  - OrDone's goroutine forwards until one of two channels closes.
  - Both stay outside the pipeline run to keep its state space small.
- **bigcache's internals** (shards, eviction, hash collisions) and
  `BigMemCache.Size`, which only reads; the data fwriter writes
  (`Write`, `WriteString`, `Sync`, `Rename`) and `MkdirAll`.
- **Kafka wrappers** (admin, config, consumer, consumer group, producer),
  and the **pure helpers** and **example mains**. They have no
  state of their own that a model checker could say anything about.
  `PROJECT.json` gives the reason for each.

## 18. Runs

The project keeps at most twelve runs.

| Run | Module | Expect |
|---|---|---|
| `bq_safety` | MCBytesQueueRuns | pass |
| `bq_grow_fifo` | MCBytesQueue | violation |
| `lfq_safety` | MCLockFreeQueue | pass |
| `bp_pipeline` | MCBatcher | pass |
| `ce_lease` | MCCassandraElector | pass |
| `so_pipeline` | MCStreamOp | pass |
| `gadgets` | MCGadgets | pass |
| `zk_close_hang` | ZkElector | violation |
| `tlb_ghost` | MCTaskLB | violation |
| `fw_unlink_race` | MCFWriter | violation |
| `bm_len_wrap` | MCBigMemCache | violation |
| `lbq_lost_wakeup` | MCLimitBufferQueue | violation |

`bq_safety` joins what were the runs `bq_fixed` and `bq_grow`
(`BytesQueueFixed.cfg` and `BytesQueueGrow.cfg`, still usable on their
own). The token pool's safety properties are checked in `gadgets`; its
liveness holds only if every ctx has a deadline, which the code does not
ensure, so `TokenPool.cfg` reproduces the deadlock instead.

Some earlier findings were retired from runs. Each is kept as a hazard note
with the configuration or constants that reproduce it:
- `bq_gap` and `bq_len` (bytes-queue);
- `lfq_panic` and `lfq_len` (lock-free queue);
- `tp_join_early` and `tp_deadlock` (token pool);
- the predator's `PredatorPanic.cfg` and `PredatorWait.cfg`.
