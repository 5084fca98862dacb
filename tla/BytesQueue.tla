----------------------------- MODULE BytesQueue -----------------------------
(***************************************************************************)
(* The single-threaded byte ring buffer of src/bytes-queue/bytes_queue.go. *)
(*                                                                         *)
(* The backing []byte is a function from offsets 0..capacity-1 to bytes;   *)
(* records are written exactly as the code writes them: the uvarint of the *)
(* payload length (encoding/binary.PutUvarint) followed by the payload.    *)
(* Reads decode the header with binary.Uvarint and slice the payload, so a *)
(* cursor that lands on a stale or misaligned byte reads what the code     *)
(* would read.  Every exported call runs to completion before the next one *)
(* (the type is documented as not thread-safe), so each call is one step.  *)
(*                                                                         *)
(* Helpers take and return a record q holding the struct's fields, so that *)
(* Push can apply allocateAdditionalMemory and push one after the other as *)
(* the code does within one call.                                          *)
(*                                                                         *)
(* Data abstraction: a byte outside the live records (never written, or   *)
(* left behind by Pop or Reset) holds whatever was last written there; the *)
(* model replaces all such bytes by Stale.  Reading a Stale byte as part  *)
(* of a record is therefore a read of free space, which the invariants    *)
(* below report; a correct queue never does it.                           *)
(*                                                                         *)
(* Ghost state: issued maps every index returned by a successful Push, and *)
(* not yet popped, to the bytes pushed there.                              *)
(***************************************************************************)
EXTENDS Integers, Sequences, FiniteSets, Functions, TLC

CONSTANTS
  InitCapacity,  \* capacity argument of NewBytesQueue
  MaxCapacity,   \* maxCapacity argument of NewBytesQueue (0 = unbounded)
  Data           \* the byte strings callers push (each byte < 256)

ASSUME InitCapacity \in Nat \ {0}
ASSUME MaxCapacity \in Nat

VARIABLES
  array, capacity, head, tail, rightMarginIndex, count, full,
  issued,   \* ghost: live index returned by Push -> bytes pushed there
  view      \* auxiliary: LiveData of the current state (see SetState)

qvars == <<array, capacity, head, tail, rightMarginIndex, count, full>>
vars == <<qvars, issued, view>>

\* Constants of bytes_queue.go.
minimumHeaderSize == 17
leftMarginIndex == 1

\* Abstract value of a free byte.
Stale == -1

ErrEmptyQueue == "ErrEmptyQueue"
ErrInvalidIndex == "ErrInvalidIndex"
ErrIndexOutOfBounds == "ErrIndexOutOfBounds"
NoError == "nil"

(***************************************************************************)
(* encoding/binary (standard library, the reference for the codec).        *)
(***************************************************************************)
RECURSIVE PutUvarint(_)
PutUvarint(x) == IF x < 128 THEN <<x>>
                 ELSE <<(x % 128) + 128>> \o PutUvarint(x \div 128)

\* binary.Uvarint(buf[i:]) over a buffer of length len: the value and the
\* number of bytes read; n = 0 when the buffer ends inside the varint and
\* n < 0 when it runs past MaxVarintLen64 bytes.
RECURSIVE UvarintFrom(_, _, _, _, _, _)
UvarintFrom(buf, len, i, k, x, s) ==
  IF i + k >= len THEN [v |-> 0, n |-> 0]
  ELSE IF k = 10 THEN [v |-> 0, n |-> -(k + 1)]
  ELSE IF buf[i + k] < 128 THEN [v |-> x + buf[i + k] * 2^s, n |-> k + 1]
  ELSE UvarintFrom(buf, len, i, k + 1, x + (buf[i + k] % 128) * 2^s, s + 7)

Uvarint(buf, len, i) == UvarintFrom(buf, len, i, 0, 0, 0)

(***************************************************************************)
(* bytes_queue.go                                                          *)
(***************************************************************************)
getUvarintSize(x) ==
  CASE x < 128       -> 1
    [] x < 16384     -> 2
    [] x < 2097152   -> 3
    [] x < 268435456 -> 4
    [] OTHER         -> 5

\* The queue's fields as one record.
Cur == [array |-> array, capacity |-> capacity, head |-> head, tail |-> tail,
        rightMarginIndex |-> rightMarginIndex, count |-> count, full |-> full]

\* q.copy: Go's copy(q.array[q.tail:], data) copies only what fits.
copy(q, data) ==
  LET n == IF Len(data) < q.capacity - q.tail THEN Len(data)
           ELSE q.capacity - q.tail
  IN [q EXCEPT !.array = [j \in DOMAIN q.array |->
                            IF q.tail <= j /\ j < q.tail + n
                            THEN data[j - q.tail + 1] ELSE q.array[j]],
               !.tail = q.tail + n]

\* Mutant of push: the full flag is not raised when tail meets head.
pushNoFull(q, data) ==
  LET w == copy(copy(q, PutUvarint(Len(data))), data)
  IN [w EXCEPT !.rightMarginIndex = IF w.tail > w.head THEN w.tail ELSE @,
               !.count = @ + 1]

\* q.push: header, then payload, then the margin, full flag and count.
push(q, data) ==
  LET w == copy(copy(q, PutUvarint(Len(data))), data)
  IN [w EXCEPT !.rightMarginIndex = IF w.tail > w.head THEN w.tail ELSE @,
               !.full = IF w.tail = w.head THEN TRUE ELSE @,
               !.count = @ + 1]

Zeros(n) == [k \in 1..n |-> 0]

\* Mutant of allocateAdditionalMemory: the new capacity is not clamped to
\* maxCapacity.
allocateUnclamped(q, minimum) ==
  LET c1 == IF q.capacity < minimum THEN q.capacity + minimum ELSE q.capacity
      moved == [q EXCEPT
                 !.capacity = c1 * 2,
                 !.array = [j \in 0..c1 * 2 - 1 |->
                              IF j < q.rightMarginIndex THEN q.array[j]
                              ELSE Stale]]
      gap == q.head - q.tail
      filled == IF q.tail # q.head
                THEN push(moved, Zeros(gap - getUvarintSize(gap)))
                ELSE moved
      relaid == IF leftMarginIndex # q.rightMarginIndex /\ q.tail <= q.head
                THEN [filled EXCEPT !.head = leftMarginIndex,
                                    !.tail = filled.rightMarginIndex]
                ELSE moved
  IN [relaid EXCEPT !.full = FALSE]

\* Mutant of allocateAdditionalMemory: only oldArray[:tail] is copied.
allocateCopyToTail(q, minimum) ==
  LET c1 == IF q.capacity < minimum THEN q.capacity + minimum ELSE q.capacity
      c2 == IF c1 * 2 > MaxCapacity /\ MaxCapacity > 0 THEN MaxCapacity
            ELSE c1 * 2
      moved == [q EXCEPT
                 !.capacity = c2,
                 !.array = [j \in 0..c2 - 1 |->
                              IF j < q.tail THEN q.array[j] ELSE Stale]]
      gap == q.head - q.tail
      filled == IF q.tail # q.head
                THEN push(moved, Zeros(gap - getUvarintSize(gap)))
                ELSE moved
      relaid == IF leftMarginIndex # q.rightMarginIndex /\ q.tail <= q.head
                THEN [filled EXCEPT !.head = leftMarginIndex,
                                    !.tail = filled.rightMarginIndex]
                ELSE moved
  IN [relaid EXCEPT !.full = FALSE]

allocateAdditionalMemory(q, minimum) ==
  LET c1 == IF q.capacity < minimum THEN q.capacity + minimum ELSE q.capacity
      c2 == IF c1 * 2 > MaxCapacity /\ MaxCapacity > 0 THEN MaxCapacity
            ELSE c1 * 2
      moved == [q EXCEPT
                 !.capacity = c2,
                 !.array = [j \in 0..c2 - 1 |->
                              IF leftMarginIndex # q.rightMarginIndex
                                 /\ j < q.rightMarginIndex
                              THEN q.array[j] ELSE Stale]]
      gap == q.head - q.tail
      filled == IF q.tail # q.head
                THEN push(moved, Zeros(gap - getUvarintSize(gap)))
                ELSE moved
      relaid == IF leftMarginIndex # q.rightMarginIndex /\ q.tail <= q.head
                THEN [filled EXCEPT !.head = leftMarginIndex,
                                    !.tail = filled.rightMarginIndex]
                ELSE moved
  IN [relaid EXCEPT !.full = FALSE]

\* Mutant of canInsertAfterTail: the full check is missing.
canInsertAfterTailIgnoringFull(q, need) ==
  IF q.tail >= q.head
  THEN q.capacity - q.tail >= need
  ELSE \/ q.head - q.tail = need
       \/ q.head - q.tail >= need + minimumHeaderSize

canInsertAfterTail(q, need) ==
  /\ ~q.full
  /\ IF q.tail >= q.head
     THEN q.capacity - q.tail >= need
     ELSE \/ q.head - q.tail = need
          \/ q.head - q.tail >= need + minimumHeaderSize

canInsertBeforeHead(q, need) ==
  /\ ~q.full
  /\ IF q.tail >= q.head
     THEN \/ q.head - leftMarginIndex = need
          \/ q.head - leftMarginIndex >= need + minimumHeaderSize
     ELSE \/ q.head - q.tail = need
          \/ q.head - q.tail >= need + minimumHeaderSize

\* Where Push writes: after the tail, at the left margin, or after growing.
PlaceFor(q, need) ==
  CASE canInsertAfterTail(q, need)  -> q
    [] canInsertBeforeHead(q, need) -> [q EXCEPT !.tail = leftMarginIndex]
    [] OTHER                        -> allocateAdditionalMemory(q, need)

\* Push's ErrFullQueue branch.
PushRefused(q, need) ==
  /\ ~canInsertAfterTail(q, need)
  /\ ~canInsertBeforeHead(q, need)
  /\ q.capacity + need >= MaxCapacity
  /\ MaxCapacity > 0

peekCheckErr(q, index) ==
  CASE q.count = 0           -> ErrEmptyQueue
    [] index <= 0            -> ErrInvalidIndex
    [] index >= q.capacity   -> ErrIndexOutOfBounds
    [] OTHER                 -> NoError

\* q.peek: the header at index and the payload slice after it.  The slice
\* expression panics unless its bounds lie within the array.
Header(q, index) == Uvarint(q.array, q.capacity, index)
SliceOk(q, index) ==
  LET h == Header(q, index) IN h.n >= 0 /\ index + h.n + h.v <= q.capacity
peekData(q, index) ==
  LET h == Header(q, index)
  IN [k \in 1..h.v |-> q.array[index + h.n + k - 1]]
RecordEnd(q, index) == LET h == Header(q, index) IN index + h.n + h.v

\* The bytes from..to-1 become free space.
Forget(q, from, to) ==
  [q EXCEPT !.array = [j \in DOMAIN q.array |->
                         IF from <= j /\ j < to THEN Stale ELSE q.array[j]]]

(***************************************************************************)
(* The live records as a caller sees them through Pop: starting at head,  *)
(* follow each record's header to the next record, jumping back to the    *)
(* left margin at rightMarginIndex as Pop does, for count records.         *)
(***************************************************************************)
Readable(q, p) ==
  /\ peekCheckErr(q, p) = NoError
  /\ q.array[p] # Stale
  /\ SliceOk(q, p)
  /\ Header(q, p).n > 0
  /\ \A j \in p..RecordEnd(q, p) - 1 : q.array[j] # Stale

NextRecord(q, p) ==
  IF RecordEnd(q, p) = q.rightMarginIndex THEN leftMarginIndex
  ELSE RecordEnd(q, p)

\* Positions of the (at most k) records Pop would read from p on.  A
\* recursive function, so that each position is computed once.
Chain(q, p, k) ==
  LET walk[x \in Nat, n \in Nat] ==
        IF n = 0 \/ ~Readable(q, x) THEN << >>
        ELSE <<x>> \o walk[NextRecord(q, x), n - 1]
  IN walk[p, k]

LiveRecords == Chain(Cur, head, count)

\* The payloads of the live records, oldest first.
RecordsData(q) ==
  LET ch == Chain(q, q.head, q.count)
  IN [k \in 1..Len(ch) |-> peekData(q, ch[k])]
LiveData == RecordsData(Cur)

\* Make q the new state.  view' is LiveData of q, computed from the record
\* value rather than by priming LiveData, which TLC evaluates far slower.
SetState(q) ==
  /\ view' = RecordsData(q)
  /\ array' = q.array
  /\ capacity' = q.capacity
  /\ head' = q.head
  /\ tail' = q.tail
  /\ rightMarginIndex' = q.rightMarginIndex
  /\ count' = q.count
  /\ full' = q.full

(***************************************************************************)
(* Operations.  A refused Push and a Pop on an empty queue return an error *)
(* and change nothing, so they are stuttering steps and need no action;    *)
(* Peek, Get, CheckGet, Len and Capacity only read.                        *)
(***************************************************************************)
Init ==
  /\ array = [j \in 0..InitCapacity - 1 |-> Stale]
  /\ capacity = InitCapacity
  /\ head = leftMarginIndex
  /\ tail = leftMarginIndex
  /\ rightMarginIndex = leftMarginIndex
  /\ count = 0
  /\ full = FALSE
  /\ issued = << >>
  /\ view = << >>

Push(data) ==
  LET dataLen == Len(data)
      need == dataLen + getUvarintSize(dataLen)
      placed == PlaceFor(Cur, need)
  IN /\ ~PushRefused(Cur, need)
     /\ SetState(push(placed, data))
     /\ issued' = issued @@ (placed.tail :> data)

\* Pop: peek at head (its error checks are the guard, a slice out of range
\* would panic), advance head, and collapse the cursors when head reaches
\* rightMarginIndex.
Pop ==
  LET q == Cur
      next == RecordEnd(q, q.head)
      drained == next = q.rightMarginIndex
      newTail == IF drained /\ q.tail = q.rightMarginIndex
                 THEN leftMarginIndex ELSE q.tail
  IN /\ peekCheckErr(q, q.head) = NoError
     /\ Readable(q, q.head)
     /\ SetState([Forget(q, q.head, next) EXCEPT
                   !.head = IF drained THEN leftMarginIndex ELSE next,
                   !.tail = newTail,
                   !.rightMarginIndex = IF drained THEN newTail ELSE @,
                   !.count = @ - 1,
                   !.full = FALSE])
     /\ issued' = Restrict(issued, DOMAIN issued \ {q.head})

Reset ==
  /\ SetState([Forget(Cur, 0, capacity) EXCEPT !.tail = leftMarginIndex,
                          !.head = leftMarginIndex,
                          !.rightMarginIndex = leftMarginIndex,
                          !.count = 0,
                          !.full = FALSE])
  /\ issued' = << >>

Next ==
  \/ \E d \in Data : Push(d)
  \/ Pop
  \/ Reset

Spec == Init /\ [][Next]_vars

(***************************************************************************)
(* Properties                                                              *)
(***************************************************************************)
\* The capacities the queue can have: from the initial one up to the ceiling.
CapacityRange ==
  IF MaxCapacity > 0
  THEN InitCapacity..(IF MaxCapacity > InitCapacity THEN MaxCapacity
                      ELSE InitCapacity)
  ELSE {c \in Nat : c >= InitCapacity}

TypeOK ==
  /\ capacity \in CapacityRange
  /\ array \in [0..capacity - 1 -> 0..255 \cup {Stale}]
  /\ {head, tail, rightMarginIndex} \subseteq 1..capacity
  /\ count \in Nat
  /\ full \in BOOLEAN
  /\ DOMAIN issued \subseteq 1..capacity - 1

\* Cursor invariant (spec.md 4.1): the count records that Pop will return
\* one after the other are all readable, the last one ends exactly at tail,
\* head = tail happens only when empty (both at the left margin) or full,
\* and the full flag says which.  Breaking it needs a run of pushes, pops
\* and growth that leaves a header chain with a hole or an overlap.
LiveRegionWellFormed ==
  /\ Len(LiveRecords) = count
  /\ count > 0 => RecordEnd(Cur, LiveRecords[count]) = tail
  /\ count = 0 => head = leftMarginIndex /\ tail = leftMarginIndex
  /\ full <=> (count > 0 /\ head = tail)

\* Index stability (spec.md 3, 8): every index returned by Push and not yet
\* popped passes CheckGet and Get returns the bytes pushed there, including
\* after allocateAdditionalMemory has moved the array.
IndexStability ==
  \A i \in DOMAIN issued :
    /\ Readable(Cur, i)
    /\ peekData(Cur, i) = issued[i]

\* Len() counts the records callers pushed and have not popped.
LenCountsLiveRecords == count = Cardinality(DOMAIN issued)

\* FIFO (spec.md 8): the sequence of live records seen through Pop behaves
\* as the abstract queue: Push appends, Pop takes the oldest, Reset clears.
Abstract == INSTANCE FifoQueue WITH queue <- view
RefinesFifoQueue == Abstract!Spec
=============================================================================
