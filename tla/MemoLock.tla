------------------------------- MODULE MemoLock -------------------------------
(***************************************************************************)
(* Memo of src/memo/usinglock/memo.go: memo.cache maps a key to an entry   *)
(* under memo.mu; the first Get of a key creates the entry, computes f     *)
(* outside the lock and closes e.ready; later Gets wait on e.ready.        *)
(*                                                                         *)
(* An entry is named by its key: entries is the set of keys in            *)
(* memo.cache, res[k] and ready[k] are e.res and whether e.ready is        *)
(* closed.                                                                 *)
(***************************************************************************)
EXTENDS Naturals

CONSTANTS Clients, Keys, KeyOf, Results, None

ASSUME KeyOf \in [Clients -> Keys] /\ None \notin Results /\ None \notin Clients

VARIABLES
  entries,  \* the keys of memo.cache
  res,      \* e.res of each key's entry, None until f returns
  ready,    \* whether e.ready is closed
  mu,       \* the client holding memo.mu, or None
  pc,       \* "lock", "lookup", "compute", "return", "wait", "done"
  ret       \* what Get returned

vars == <<entries, res, ready, mu, pc, ret>>

\* New(f): an empty cache.
Init ==
  /\ entries = {}
  /\ res = [k \in Keys |-> None]
  /\ ready = [k \in Keys |-> FALSE]
  /\ mu = None
  /\ pc = [c \in Clients |-> "lock"]
  /\ ret = [c \in Clients |-> None]

Goto(c, l) == pc' = [pc EXCEPT ![c] = l]

\* memo.mu.Lock()
Lock(c) ==
  /\ pc[c] = "lock" /\ mu = None
  /\ mu' = c
  /\ Goto(c, "lookup")
  /\ UNCHANGED <<entries, res, ready, ret>>

\* Mutant: the lookup is skipped and every Get creates and computes.
LookupAlwaysCreates(c) ==
  /\ pc[c] = "lookup"
  /\ entries' = entries \cup {KeyOf[c]} /\ Goto(c, "compute")
  /\ mu' = None
  /\ UNCHANGED <<res, ready, ret>>

\* e := memo.cache[key]; a nil entry is created and stored, and this Get
\* will compute it; either way memo.mu.Unlock().
Lookup(c) ==
  /\ pc[c] = "lookup"
  /\ IF KeyOf[c] \notin entries
       THEN entries' = entries \cup {KeyOf[c]} /\ Goto(c, "compute")
       ELSE UNCHANGED entries /\ Goto(c, "wait")
  /\ mu' = None
  /\ UNCHANGED <<res, ready, ret>>

\* Mutant: e.ready is never closed.
ComputeNoClose(c) ==
  /\ pc[c] = "compute"
  /\ \E r \in Results : res' = [res EXCEPT ![KeyOf[c]] = r]
  /\ Goto(c, "return")
  /\ UNCHANGED <<entries, ready, mu, ret>>

\* e.res.val, e.res.err = memo.f(key); close(e.ready)
Compute(c) ==
  /\ pc[c] = "compute"
  /\ \E r \in Results : res' = [res EXCEPT ![KeyOf[c]] = r]
  /\ ready' = [ready EXCEPT ![KeyOf[c]] = TRUE]
  /\ Goto(c, "return")
  /\ UNCHANGED <<entries, mu, ret>>

\* return e.res.val, e.res.err: at once for the computing Get, after
\* <-e.ready for the others.
Return(c) ==
  /\ \/ pc[c] = "return"
     \/ pc[c] = "wait" /\ ready[KeyOf[c]]
  /\ ret' = [ret EXCEPT ![c] = res[KeyOf[c]]]
  /\ Goto(c, "done")
  /\ UNCHANGED <<entries, res, ready, mu>>

Step(c) == Lock(c) \/ Lookup(c) \/ Compute(c) \/ Return(c)

Next == \E c \in Clients : Step(c)

Spec == Init /\ [][Next]_vars

\* Every runnable goroutine runs.
FairSpec == Spec /\ \A c \in Clients : WF_vars(Step(c))

(***************************************************************************)
(* Refinement: a key's result is in the abstract cache once e.ready is     *)
(* closed; a Get has asked once it looked its key up.                      *)
(***************************************************************************)
AbsCpc == [c \in Clients |->
             IF pc[c] \in {"lock", "lookup"} THEN "get"
             ELSE IF pc[c] = "done" THEN "done" ELSE "wait"]

Abs == INSTANCE Memo WITH
         cache <- [k \in Keys |-> IF ready[k] THEN res[k] ELSE None],
         cpc <- AbsCpc

TypeOK ==
  /\ entries \subseteq Keys
  /\ res \in [Keys -> Results \cup {None}] /\ ready \in [Keys -> BOOLEAN]
  /\ mu \in Clients \cup {None}
  /\ pc \in [Clients -> {"lock", "lookup", "compute", "return", "wait", "done"}]
  /\ ret \in [Clients -> Results \cup {None}]

\* usinglock implements the Memo specification: f runs once per key, and
\* every Get of a key returns the one result, whoever computed it.
ImplementsMemo == Abs!Spec

\* Every Get returns: the computing Get closes e.ready, which releases
\* every Get waiting on the key.
AllGetsReturn == <>(\A c \in Clients : pc[c] = "done")
=============================================================================
