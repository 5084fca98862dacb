-------------------------------- MODULE TaskLB --------------------------------
(***************************************************************************)
(* The load balancer of src/task-load-balancer/task_load_balancer.go.      *)
(*                                                                         *)
(* Every method runs under lb.mu from its first line to its deferred       *)
(* Unlock, so each call is one step.  Client goroutines do what the        *)
(* repository's test does: w := lb.RentWorker(); w.Do(...);                *)
(* lb.RevertWorker(w).  An administrating goroutine calls AddWorker and    *)
(* RemoveWorker at any time, up to MaxAdminOps calls.                      *)
(*                                                                         *)
(* A WorkerUnit is named by its Name(); the pool holds one worker per      *)
(* name, so the model's pool is the set of names in it.                    *)
(***************************************************************************)
EXTENDS Integers, FiniteSets, Functions

CONSTANTS
  Workers,      \* the names of the workers the admin may add
  Clients,      \* the goroutines that rent, use and revert a worker
  Empty,        \* the name "" that RentWorker selects in an empty looktable
  Nil,          \* the nil WorkerUnit
  MaxAdminOps   \* how many AddWorker/RemoveWorker calls the admin makes

ASSUME Empty \notin Workers /\ Nil \notin Workers
ASSUME MaxAdminOps \in Nat

Names == Workers \cup {Empty}

VARIABLES
  looktable,  \* map[string]int32: worker name ==> usage
  pool,       \* the names whose worker is in map[string]WorkerUnit
  cpc,        \* client: "rent", "do", "revert", "done"; "panic" stops the program
  held,       \* the worker RentWorker returned to the client
  adminOps    \* the admin's calls so far

vars == <<looktable, pool, cpc, held, adminOps>>

\* A Go map read: the zero value for a missing key.
Usage(n) == IF n \in DOMAIN looktable THEN looktable[n] ELSE 0

\* looktable[n] = u, adding the key if it is missing.
SetUsage(n, u) == [k \in DOMAIN looktable \cup {n} |-> IF k = n THEN u ELSE looktable[k]]

\* A nil WorkerUnit's method panics and ends the program.
Panicked == \E c \in Clients : cpc[c] = "panic"

\* NewTaskLB: both maps empty.
Init ==
  /\ looktable = << >>
  /\ pool = {}
  /\ cpc = [c \in Clients |-> "rent"]
  /\ held = [c \in Clients |-> Nil]
  /\ adminOps = 0

AdminCall ==
  /\ ~Panicked
  /\ adminOps < MaxAdminOps
  /\ adminOps' = adminOps + 1
  /\ UNCHANGED <<cpc, held>>

\* AddWorker: an error if the name is in the looktable, else usage 0 and
\* the worker in the pool.
AddWorker(w) ==
  /\ AdminCall
  /\ IF w \in DOMAIN looktable
       THEN UNCHANGED <<looktable, pool>>
       ELSE /\ looktable' = SetUsage(w, 0)
            /\ pool' = pool \cup {w}

\* RemoveWorker: an error if the name is not in the looktable, else the
\* name leaves both maps.
RemoveWorker(w) ==
  /\ AdminCall
  /\ IF w \notin DOMAIN looktable
       THEN UNCHANGED <<looktable, pool>>
       ELSE /\ looktable' = Restrict(looktable, DOMAIN looktable \ {w})
            /\ pool' = pool \ {w}

\* The names the range loop can leave in selected: it keeps the first
\* entry of least usage in Go's random map order, and "" when the map is
\* empty.
Candidates ==
  IF DOMAIN looktable = {} THEN {Empty}
  ELSE {n \in DOMAIN looktable : \A m \in DOMAIN looktable : looktable[n] <= looktable[m]}

\* RentWorker: looktable[selected]++ and return lb.pool[selected], which is
\* nil for a name not in the pool.
RentWorker(c) ==
  /\ ~Panicked
  /\ cpc[c] = "rent"
  /\ \E n \in Candidates :
       /\ looktable' = SetUsage(n, Usage(n) + 1)
       /\ held' = [held EXCEPT ![c] = IF n \in pool THEN n ELSE Nil]
  /\ cpc' = [cpc EXCEPT ![c] = "do"]
  /\ UNCHANGED <<pool, adminOps>>

\* w.Do(...), outside the lock; on a nil w it panics.
Do(c) ==
  /\ ~Panicked
  /\ cpc[c] = "do"
  /\ cpc' = [cpc EXCEPT ![c] = IF held[c] = Nil THEN "panic" ELSE "revert"]
  /\ UNCHANGED <<looktable, pool, held, adminOps>>

\* RevertWorker: looktable[name]--, clamped at 0; a missing name is
\* re-created.
RevertWorker(c) ==
  /\ ~Panicked
  /\ cpc[c] = "revert"
  /\ LET n == held[c] IN
       looktable' = SetUsage(n, IF Usage(n) - 1 < 0 THEN 0 ELSE Usage(n) - 1)
  /\ cpc' = [cpc EXCEPT ![c] = "done"]
  /\ UNCHANGED <<pool, held, adminOps>>

Next ==
  \/ \E w \in Workers : AddWorker(w) \/ RemoveWorker(w)
  \/ \E c \in Clients : RentWorker(c) \/ Do(c) \/ RevertWorker(c)

Spec == Init /\ [][Next]_vars

(***************************************************************************)
(* Properties                                                              *)
(***************************************************************************)
TypeOK ==
  /\ DOMAIN looktable \subseteq Names
  /\ \A n \in DOMAIN looktable : looktable[n] \in 0..Cardinality(Clients)
  /\ pool \subseteq Workers
  /\ cpc \in [Clients -> {"rent", "do", "revert", "done", "panic"}]
  /\ held \in [Clients -> Workers \cup {Nil}]
  /\ adminOps \in 0..MaxAdminOps

\* RentWorker "gets an available worker from the balancer": while the pool
\* holds a worker, a rent returns a worker of the pool, never nil.
RentGetsPooledWorker ==
  [][\A c \in Clients :
       (cpc[c] = "rent" /\ cpc'[c] = "do" /\ pool # {}) => held'[c] \in pool]_vars
=============================================================================
