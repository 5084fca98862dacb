--------------------------- MODULE CassandraElector ---------------------------
(***************************************************************************)
(* Leader election of src/leader-elect-by-cassandra/leader_elect.go: each  *)
(* node's elect loop takes, renews or removes one lease row with Cassandra *)
(* lightweight transactions; the row has a default TTL of __DefaultTTL     *)
(* seconds; the node publishes each Status on ev, and Resign stores        *)
(* __StatusResigned and waits on dead.                                     *)
(*                                                                         *)
(* Time is counted in whole seconds by countdown timers: the row's         *)
(* remaining TTL, each node's remaining sleep and the remaining time of    *)
(* its pending query.  Tick lets one second pass; the steps a node takes  *)
(* without waiting (reading status, handling a reply, waking from sleep, *)
(* whose loop polls every 100ms) happen before time passes.  A query is   *)
(* applied at the server at some moment before its timeout, or never; its *)
(* reply comes back at some moment after it was applied, and it may fail  *)
(* at any moment (a timeout or another error), also after it was applied. *)
(***************************************************************************)
EXTENDS Integers, FiniteSets

CONSTANTS
  Nodes,       \* the electors, one per process, with distinct NodeIDs
  Heartbeat,   \* cfg.Heartbeat, in seconds
  Resigners,   \* nodes whose process calls Resign
  Nil          \* no lease row

ASSUME Heartbeat \in Nat \ {0}
ASSUME Resigners \subseteq Nodes
ASSUME Nil \notin Nodes

TTL == 10       \* __DefaultTTL, the table's default_time_to_live
Timeout == 2    \* __DefaultTimeout of the gocql session

Acquiring == "acquiring"
Master == "master"
Resigned == "resigned"

VARIABLES
  holder,    \* leader_id of the row, or Nil once it has expired or been deleted
  ttl,       \* seconds until the row expires
  status,    \* e.status
  snap,      \* s := atomic.LoadInt32(&e.status) at the top of the loop
  pc,        \* "idle" before Start, then "top", "query", "sleep" or "dead"
  applied,   \* the pending query has been applied: its result, or "none"
  qtime,     \* seconds until the pending query times out
  slept,     \* seconds until the sleep's deadline
  role,      \* Role of the last Status sent on ev ("none" before the first)
  upc        \* the process: "running", "resigning" (in Resign) or "returned"

vars == <<holder, ttl, status, snap, pc, applied, qtime, slept, role, upc>>

Init ==
  /\ holder = Nil
  /\ ttl = 0
  /\ status = [n \in Nodes |-> Acquiring]
  /\ snap = [n \in Nodes |-> Acquiring]
  /\ pc = [n \in Nodes |-> "idle"]
  /\ applied = [n \in Nodes |-> "none"]
  /\ qtime = [n \in Nodes |-> 0]
  /\ slept = [n \in Nodes |-> 0]
  /\ role = [n \in Nodes |-> "none"]
  /\ upc = [n \in Nodes |-> "running"]

\* statusFromDB: Leader if the query applied or the row names this node.
StatusFromDB(n, ok, id) == IF ok \/ id = n THEN "leader" ELSE "follower"

\* Mutant of SleepSecs: the leader sleeps a whole Heartbeat.
SleepSecsNotHalved(leader) == Heartbeat

\* sleep: Heartbeat seconds, or (Heartbeat-1)/2 for the leader.
SleepSecs(leader) == IF leader THEN (Heartbeat - 1) \div 2 ELSE Heartbeat

\* Start: go e.elect(), at whatever moment the process calls it.
Start(n) ==
  /\ pc[n] = "idle"
  /\ pc' = [pc EXCEPT ![n] = "top"]
  /\ UNCHANGED <<holder, ttl, status, snap, applied, qtime, slept, role, upc>>

\* The top of the elect loop: read status and send the query of its case
\* (createLease, updateLease or removeLease).
Top(n) ==
  /\ pc[n] = "top"
  /\ snap' = [snap EXCEPT ![n] = status[n]]
  /\ pc' = [pc EXCEPT ![n] = "query"]
  /\ applied' = [applied EXCEPT ![n] = "none"]
  /\ qtime' = [qtime EXCEPT ![n] = Timeout]
  /\ UNCHANGED <<holder, ttl, status, slept, role, upc>>

\* UPDATE ... SET leader_id = me IF leader_id = me: rewriting the columns
\* restarts their TTL.  A row that has expired does not match.
ApplyUpdate(n) ==
  /\ holder' = holder
  /\ ttl' = IF holder = n THEN TTL ELSE ttl
  /\ applied' = [applied EXCEPT ![n] = StatusFromDB(n, holder = n, holder)]

\* The server applies n's pending query.
Apply(n) ==
  /\ pc[n] = "query"
  /\ applied[n] = "none"
  /\ CASE snap[n] = Acquiring ->
            \* INSERT ... IF NOT EXISTS
            /\ holder' = IF holder = Nil THEN n ELSE holder
            /\ ttl' = IF holder = Nil THEN TTL ELSE ttl
            /\ applied' = [applied EXCEPT ![n] = StatusFromDB(n, holder = Nil, holder)]
       [] snap[n] = Master -> ApplyUpdate(n)
       [] snap[n] = Resigned ->
            \* DELETE ... IF leader_id = me
            /\ holder' = IF holder = n THEN Nil ELSE holder
            /\ ttl' = IF holder = n THEN 0 ELSE ttl
            /\ applied' = [applied EXCEPT ![n] = "removed"]
  /\ UNCHANGED <<status, snap, pc, qtime, slept, role, upc>>

\* What the loop does with the result r ("leader", "follower" or "error")
\* of its query, up to the next sleep or continue: send the Status on ev,
\* and CAS status on a change of role.  After removeLease the loop ends,
\* closing ev and dead.
Handle(n, r) ==
  LET s == snap[n]
      lead == r = "leader"
      \* the CAS to the new state, or continue when it fails
      casTo(new) ==
        IF status[n] = s
          THEN /\ status' = [status EXCEPT ![n] = new]
               /\ pc' = [pc EXCEPT ![n] = "sleep"]
               /\ slept' = [slept EXCEPT ![n] = SleepSecs(lead)]
          ELSE /\ pc' = [pc EXCEPT ![n] = "top"]
               /\ UNCHANGED <<status, slept>>
      sleepOnly ==
        /\ pc' = [pc EXCEPT ![n] = "sleep"]
        /\ slept' = [slept EXCEPT ![n] = SleepSecs(lead)]
        /\ UNCHANGED status
  IN CASE s = Resigned ->
            /\ pc' = [pc EXCEPT ![n] = "dead"]
            /\ UNCHANGED <<status, slept, role>>
       [] s = Acquiring /\ r = "error" ->
            /\ sleepOnly
            /\ UNCHANGED role
       [] s = Acquiring ->
            /\ role' = [role EXCEPT ![n] = r]
            /\ IF lead THEN casTo(Master) ELSE sleepOnly
       [] s = Master ->
            \* an error downgrades the node to Follower
            /\ role' = [role EXCEPT ![n] = IF lead THEN "leader" ELSE "follower"]
            /\ IF lead THEN sleepOnly ELSE casTo(Acquiring)

\* Mutant of QueryFail: a failed removeLease is retried until it succeeds.
QueryFailRetryRemove(n) ==
  /\ pc[n] = "query"
  /\ IF snap[n] = Resigned
       THEN /\ pc' = [pc EXCEPT ![n] = "top"]
            /\ UNCHANGED <<status, slept, role>>
       ELSE Handle(n, "error")
  /\ UNCHANGED <<holder, ttl, snap, applied, qtime, upc>>

\* The reply to an applied query arrives.
QueryReply(n) ==
  /\ pc[n] = "query"
  /\ applied[n] # "none"
  /\ Handle(n, applied[n])
  /\ UNCHANGED <<holder, ttl, snap, applied, qtime, upc>>

\* The query fails: it timed out or the driver returned another error,
\* whether or not the server applied it.
QueryFail(n) ==
  /\ pc[n] = "query"
  /\ Handle(n, "error")
  /\ UNCHANGED <<holder, ttl, snap, applied, qtime, upc>>

\* The sleep loop ends at its deadline, or as soon as status is Resigned.
Wake(n) ==
  /\ pc[n] = "sleep"
  /\ slept[n] = 0 \/ status[n] = Resigned
  /\ pc' = [pc EXCEPT ![n] = "top"]
  /\ UNCHANGED <<holder, ttl, status, snap, applied, qtime, slept, role, upc>>

\* Resign: atomic.StoreInt32(&e.status, __StatusResigned) ...
Resign(n) ==
  /\ n \in Resigners
  /\ upc[n] = "running"
  /\ status' = [status EXCEPT ![n] = Resigned]
  /\ upc' = [upc EXCEPT ![n] = "resigning"]
  /\ UNCHANGED <<holder, ttl, snap, pc, applied, qtime, slept, role>>

\* ... then <-e.dead.
ResignReturn(n) ==
  /\ upc[n] = "resigning"
  /\ pc[n] = "dead"
  /\ upc' = [upc EXCEPT ![n] = "returned"]
  /\ UNCHANGED <<holder, ttl, status, snap, pc, applied, qtime, slept, role>>

\* A node has a step to take before time may pass.
Urgent(n) ==
  \/ pc[n] = "top"
  \/ pc[n] = "sleep" /\ (slept[n] = 0 \/ status[n] = Resigned)
  \/ pc[n] = "query" /\ qtime[n] = 0
  \/ upc[n] = "resigning" /\ pc[n] = "dead"

\* Mutant of Tick: the row outlives its TTL by a second.
TickExpiresLate ==
  /\ \A n \in Nodes : ~Urgent(n)
  /\ \E n \in Nodes : pc[n] \notin {"idle", "dead"}
  /\ ttl' = IF ttl > 0 THEN ttl - 1 ELSE 0
  /\ holder' = IF ttl = 0 THEN Nil ELSE holder
  /\ slept' = [n \in Nodes |-> IF pc[n] = "sleep" THEN slept[n] - 1 ELSE slept[n]]
  /\ qtime' = [n \in Nodes |-> IF pc[n] = "query" THEN qtime[n] - 1 ELSE qtime[n]]
  /\ UNCHANGED <<status, snap, pc, applied, role, upc>>

\* One second passes: the row ages and expires at the end of its TTL,
\* sleeps and pending queries count down.
Tick ==
  /\ \A n \in Nodes : ~Urgent(n)
  /\ \E n \in Nodes : pc[n] \notin {"idle", "dead"}
  /\ ttl' = IF ttl > 0 THEN ttl - 1 ELSE 0
  /\ holder' = IF ttl <= 1 THEN Nil ELSE holder
  /\ slept' = [n \in Nodes |-> IF pc[n] = "sleep" THEN slept[n] - 1 ELSE slept[n]]
  /\ qtime' = [n \in Nodes |-> IF pc[n] = "query" THEN qtime[n] - 1 ELSE qtime[n]]
  /\ UNCHANGED <<status, snap, pc, applied, role, upc>>

Elect(n) == Start(n) \/ Top(n) \/ Apply(n) \/ QueryReply(n) \/ QueryFail(n) \/ Wake(n)

Next ==
  \/ \E n \in Nodes : Elect(n) \/ Resign(n) \/ ResignReturn(n)
  \/ Tick

\* When every node has resigned no step is enabled; the configurations do
\* not check deadlock, and ResignReturns tells an ending from a hang.
Spec == Init /\ [][Next]_vars

\* Each elect goroutine and each process is scheduled, and time passes.
\* Nothing makes a query succeed: it may fail every time.
FairSpec ==
  /\ Spec
  /\ \A n \in Nodes : WF_vars(Elect(n)) /\ WF_vars(ResignReturn(n))
  /\ WF_vars(Tick)

(***************************************************************************)
(* Properties                                                              *)
(***************************************************************************)
TypeOK ==
  /\ holder \in Nodes \cup {Nil}
  /\ ttl \in 0..TTL
  /\ (holder = Nil) = (ttl = 0)
  /\ status \in [Nodes -> {Acquiring, Master, Resigned}]
  /\ snap \in [Nodes -> {Acquiring, Master, Resigned}]
  /\ pc \in [Nodes -> {"idle", "top", "query", "sleep", "dead"}]
  /\ applied \in [Nodes -> {"none", "leader", "follower", "removed"}]
  /\ qtime \in [Nodes -> 0..Timeout]
  /\ slept \in [Nodes -> 0..Heartbeat]
  /\ role \in [Nodes -> {"none", "leader", "follower"}]
  /\ upc \in [Nodes -> {"running", "resigning", "returned"}]

\* The process of node n acts as leader: the last Status it was sent says
\* Leader, and it has not resigned.
ActsAsLeader(n) == role[n] = "leader" /\ status[n] # Resigned

\* A node acts as leader only while the lease row names it: its renewals,
\* every (Heartbeat-1)/2 seconds plus a query of up to __DefaultTimeout,
\* keep the row from expiring under it, and a failed renewal demotes it.
LeaderHoldsLease == \A n \in Nodes : ActsAsLeader(n) => holder = n

\* At most one process acts as leader at any time.  LeaderHoldsLease
\* implies it; with Heartbeat 13 or more TLC reports it violated (a leader
\* whose renewal times out after its row expired, and a follower that
\* takes the free row meanwhile).
NoSplitBrain == Cardinality({n \in Nodes : ActsAsLeader(n)}) <= 1

\* Every call of Resign returns: the loop notices Resigned, removes the
\* lease (or fails to) and closes dead, even if queries keep failing.
ResignReturns == \A n \in Nodes : upc[n] = "resigning" ~> upc[n] = "returned"
=============================================================================
