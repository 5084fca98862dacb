----------------------------- MODULE TokenPool -----------------------------
(***************************************************************************)
(* The token pool of src/token-pool/token_pool.go, used as its tests use  *)
(* it: each worker goroutine calls Acquire, and after a successful        *)
(* Acquire calls Release with the token; a main goroutine calls Join.     *)
(*                                                                         *)
(* The buffered channel p.q is a sequence (capacity Concurrency + 1), the  *)
(* mutex mu is the goroutine that holds it or None.  Taking mu is a step  *)
(* of its own; everything the code does while holding mu up to the        *)
(* deferred Unlock is one step, except that a goroutine blocked on the    *)
(* channel keeps holding mu.  A worker's context can be done only if the  *)
(* worker is in Cancellable (context.Background, as in the tests, never   *)
(* is).  p.q is never closed (the type has no Close), so the !ok branch of *)
(* Acquire cannot run.                                                     *)
(***************************************************************************)
EXTENDS Integers, Sequences, FiniteSets

CONSTANTS
  Workers,       \* goroutines that Acquire and then Release
  Concurrency,   \* argument of NewTokenPool
  Cancellable,   \* workers whose ctx has a deadline or can be cancelled
  None           \* mu is free

ASSUME Concurrency \in Nat \ {0}
ASSUME Cancellable \subseteq Workers
ASSUME None \notin Workers

Tokens == 0..Concurrency - 1

VARIABLES
  mu,        \* holder of p.mu
  q,         \* contents of the channel p.q
  pend,      \* p.pend
  pc,        \* each worker's position
  tok,       \* the token a worker acquired (-1 after an error)
  ctxDone,   \* whether the worker's ctx.Done() is closed
  jpc        \* the Join caller: "join" or "returned"

vars == <<mu, q, pend, pc, tok, ctxDone, jpc>>

\* Mutant of Init: one token too many is put into the channel.
InitExtraToken ==
  /\ mu = None
  /\ q = [i \in 1..Concurrency + 1 |-> i - 1]
  /\ pend = Concurrency + 1
  /\ pc = [w \in Workers |-> "acq_lock"]
  /\ tok = [w \in Workers |-> -1]
  /\ ctxDone = [w \in Workers |-> FALSE]
  /\ jpc = "join"

\* NewTokenPool: tokens 0..concurrency-1 are sent into the channel.
Init ==
  /\ mu = None
  /\ q = [i \in 1..Concurrency |-> i - 1]
  /\ pend = Concurrency
  /\ pc = [w \in Workers |-> "acq_lock"]
  /\ tok = [w \in Workers |-> -1]
  /\ ctxDone = [w \in Workers |-> FALSE]
  /\ jpc = "join"

\* Acquire: p.mu.Lock().
AcquireLock(w) ==
  /\ pc[w] = "acq_lock"
  /\ mu = None
  /\ mu' = w
  /\ pc' = [pc EXCEPT ![w] = "acq_select"]
  /\ UNCHANGED <<q, pend, tok, ctxDone, jpc>>

\* Mutant of AcquireCancelled: the token is received before ctx is checked,
\* and dropped when ctx turns out to be done.
AcquireCancelledDraining(w) ==
  /\ pc[w] = "acq_select"
  /\ ctxDone[w]
  /\ q # << >>
  /\ q' = Tail(q)
  /\ pend' = pend - 1
  /\ mu' = None
  /\ tok' = [tok EXCEPT ![w] = -1]
  /\ pc' = [pc EXCEPT ![w] = "done"]
  /\ UNCHANGED <<ctxDone, jpc>>

\* select case <-ctx.Done(): return -1, ctx.Err(); the deferred Unlock runs.
AcquireCancelled(w) ==
  /\ pc[w] = "acq_select"
  /\ ctxDone[w]
  /\ mu' = None
  /\ tok' = [tok EXCEPT ![w] = -1]
  /\ pc' = [pc EXCEPT ![w] = "done"]
  /\ UNCHANGED <<q, pend, ctxDone, jpc>>

\* Mutant of AcquireReceive: p.pend-- is missing.
AcquireNoPendDec(w) ==
  /\ pc[w] = "acq_select"
  /\ q # << >>
  /\ tok' = [tok EXCEPT ![w] = Head(q)]
  /\ q' = Tail(q)
  /\ mu' = None
  /\ pc' = [pc EXCEPT ![w] = "rel_lock"]
  /\ UNCHANGED <<pend, ctxDone, jpc>>

\* select case token := <-p.q: p.pend--, return token; Unlock.  Until a
\* token is there (and ctx is not done) the worker blocks holding mu.
AcquireReceive(w) ==
  /\ pc[w] = "acq_select"
  /\ q # << >>
  /\ tok' = [tok EXCEPT ![w] = Head(q)]
  /\ q' = Tail(q)
  /\ pend' = pend - 1
  /\ mu' = None
  /\ pc' = [pc EXCEPT ![w] = "rel_lock"]
  /\ UNCHANGED <<ctxDone, jpc>>

\* Release: p.mu.Lock().
ReleaseLock(w) ==
  /\ pc[w] = "rel_lock"
  /\ mu = None
  /\ mu' = w
  /\ pc' = [pc EXCEPT ![w] = "rel_send"]
  /\ UNCHANGED <<q, pend, tok, ctxDone, jpc>>

\* Mutant of ReleaseSend: the deferred Unlock is missing.
ReleaseKeepsLock(w) ==
  /\ pc[w] = "rel_send"
  /\ Len(q) < Concurrency + 1
  /\ q' = Append(q, tok[w])
  /\ pend' = pend + 1
  /\ pc' = [pc EXCEPT ![w] = "done"]
  /\ UNCHANGED <<mu, tok, ctxDone, jpc>>

\* p.q <- token (blocks while the channel is full), p.pend++, Unlock.
ReleaseSend(w) ==
  /\ pc[w] = "rel_send"
  /\ Len(q) < Concurrency + 1
  /\ q' = Append(q, tok[w])
  /\ pend' = pend + 1
  /\ mu' = None
  /\ pc' = [pc EXCEPT ![w] = "done"]
  /\ UNCHANGED <<tok, ctxDone, jpc>>

\* Join: every 100ms take mu and return if pend == concurrency (checked
\* twice, but mu is held in between, so pend cannot change).  A round that
\* finds pend # concurrency changes nothing.
JoinReturn ==
  /\ jpc = "join"
  /\ mu = None
  /\ pend = Concurrency
  /\ jpc' = "returned"
  /\ UNCHANGED <<mu, q, pend, pc, tok, ctxDone>>

\* The environment: a worker's ctx deadline passes or it is cancelled.
Cancel(w) ==
  /\ w \in Cancellable
  /\ ~ctxDone[w]
  /\ ctxDone' = [ctxDone EXCEPT ![w] = TRUE]
  /\ UNCHANGED <<mu, q, pend, pc, tok, jpc>>

Worker(w) ==
  \/ AcquireLock(w) \/ AcquireCancelled(w) \/ AcquireReceive(w)
  \/ ReleaseLock(w) \/ ReleaseSend(w)

Next ==
  \/ \E w \in Workers : Worker(w) \/ Cancel(w)
  \/ JoinReturn

\* When every goroutine has returned no step is enabled: the program ends,
\* so the configurations do not check deadlock and EveryCallReturns tells an
\* ending from a hang.
Spec == Init /\ [][Next]_vars

\* The Go scheduler runs every runnable goroutine eventually, and a ctx with
\* a deadline is eventually done.
FairSpec ==
  /\ Spec
  /\ \A w \in Workers : WF_vars(Worker(w)) /\ WF_vars(Cancel(w))
  /\ WF_vars(JoinReturn)

(***************************************************************************)
(* Properties                                                              *)
(***************************************************************************)
TypeOK ==
  /\ mu \in Workers \cup {None}
  /\ q \in Seq(Tokens)
  /\ pend \in 0..Concurrency
  /\ pc \in [Workers -> {"acq_lock", "acq_select", "rel_lock", "rel_send", "done"}]
  /\ tok \in [Workers -> Tokens \cup {-1}]
  /\ ctxDone \in [Workers -> BOOLEAN]
  /\ jpc \in {"join", "returned"}

Holding(w) == pc[w] \in {"rel_lock", "rel_send"}

\* Tokens are neither lost nor duplicated: every token is either in the
\* channel or held by exactly one worker between Acquire and Release, also
\* when a ctx is cancelled while its worker waits in Acquire.
TokenConservation ==
  LET held == {w \in Workers : Holding(w)}
  IN /\ Len(q) + Cardinality(held) = Concurrency
     /\ {q[i] : i \in DOMAIN q} \cup {tok[w] : w \in held} = Tokens

\* Join returns only at a moment when no worker holds a token (its comment:
\* wait until all workers release their tokens).
JoinAfterRelease ==
  [][jpc = "join" /\ jpc' = "returned" => \A w \in Workers : ~Holding(w)]_vars

\* Every Acquire, Release and Join call returns.
EveryCallReturns ==
  <>(/\ \A w \in Workers : pc[w] = "done"
     /\ jpc = "returned")
=============================================================================
