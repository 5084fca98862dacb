--------------------------- MODULE MCBytesQueueRuns ---------------------------
(***************************************************************************)
(* Two configurations of BytesQueue in one run, as disjoint copies: the    *)
(* initial state picks one (which) and only that copy takes steps; the     *)
(* other stays in its initial state.                                       *)
(*   fixed: capacity = maxCapacity = 20, so a push that does not fit is    *)
(*          refused and the wrap-around arithmetic alone is exercised;     *)
(*   grow:  capacity 10 doubling up to 22, so allocateAdditionalMemory     *)
(*          runs on flat and on wrapped arrays.                            *)
(* The states are those of BytesQueueFixed.cfg plus BytesQueueGrow.cfg.    *)
(***************************************************************************)
EXTENDS Naturals

\* An empty payload and a 3-byte payload: records of 1 and 4 bytes.
MCData == {<<>>, <<7, 7, 7>>}

VARIABLES
  which,
  fArray, fCapacity, fHead, fTail, fRight, fCount, fFull, fIssued, fView,
  gArray, gCapacity, gHead, gTail, gRight, gCount, gFull, gIssued, gView

fVars == <<fArray, fCapacity, fHead, fTail, fRight, fCount, fFull, fIssued, fView>>
gVars == <<gArray, gCapacity, gHead, gTail, gRight, gCount, gFull, gIssued, gView>>
vars == <<which, fVars, gVars>>

Fixed == INSTANCE BytesQueue WITH
  InitCapacity <- 20, MaxCapacity <- 20, Data <- MCData,
  array <- fArray, capacity <- fCapacity, head <- fHead, tail <- fTail,
  rightMarginIndex <- fRight, count <- fCount, full <- fFull,
  issued <- fIssued, view <- fView

Grow == INSTANCE BytesQueue WITH
  InitCapacity <- 10, MaxCapacity <- 22, Data <- MCData,
  array <- gArray, capacity <- gCapacity, head <- gHead, tail <- gTail,
  rightMarginIndex <- gRight, count <- gCount, full <- gFull,
  issued <- gIssued, view <- gView

Init ==
  /\ which \in {"fixed", "grow"}
  /\ Fixed!Init
  /\ Grow!Init

Next ==
  \/ which = "fixed" /\ Fixed!Next /\ UNCHANGED <<which, gVars>>
  \/ which = "grow" /\ Grow!Next /\ UNCHANGED <<which, fVars>>

Spec == Init /\ [][Next]_vars

(***************************************************************************)
(* Properties: each is the BytesQueue property of both copies.             *)
(***************************************************************************)
TypeOK == Fixed!TypeOK /\ Grow!TypeOK

\* Every index Push returned still reads back the bytes pushed there, until
\* Pop or Reset retires it, also after allocateAdditionalMemory re-lays a
\* wrapped array.
IndexStability == Fixed!IndexStability /\ Grow!IndexStability

\* From head the headers chain record by record to tail across the wrap, a
\* growth and Pop's collapse of head, tail and rightMarginIndex.
LiveRegionWellFormed == Fixed!LiveRegionWellFormed /\ Grow!LiveRegionWellFormed

\* Without growth, Push, Pop and Reset behave as a FIFO queue of byte
\* strings, a push that does not fit being refused.  (With growth the
\* property fails: run bq_grow_fifo.)
RefinesFifoQueue == Fixed!RefinesFifoQueue
=============================================================================
