------------------------------- MODULE ZkElector -------------------------------
(***************************************************************************)
(* The Elector of src/leader-elect-by-zk/leader_elect.go as the example    *)
(* src/cmd/leaderelect/z_node_01 drives it: one goroutine runs             *)
(* ElectLeader, and the main goroutine calls Close on a signal.            *)
(*                                                                         *)
(* ZooKeeper's session events and the go-leaderelection candidate's        *)
(* statuses are the environment: at any moment either channel may deliver  *)
(* any of its values, or be closed.  ElectLeader's select takes whichever  *)
(* case is ready; log.Fatal on a failed connect or znode write ends the    *)
(* process and is not modelled.                                            *)
(***************************************************************************)
EXTENDS Naturals

CONSTANTS
  Me,    \* the participator name
  Nil    \* /leader holds no name

\* What a receive from sessionEv can give: !ok ("closed") or an event's
\* State; zk.StateUnknown and states without a name are "unknown".
SessionEvents == {"closed", "expired", "authfailed", "unknown", "disconnected", "connected"}

\* What a receive from candidate.Status() can give.
Statuses == {"closed", "err", "leader", "follower"}

VARIABLES
  epc,          \* ElectLeader: "setup", "loop", "exit", "handoff" (e.close <- {}), "done"
  fromStop,     \* the loop ended on the closed stop channel
  zkState,      \* the last connection state the loop received
  leaderZnode,  \* the data of /leader
  resigned,     \* candidate.Resign() ran
  connClosed,   \* e.conn.Close() ran
  stopClosed,   \* close(e.stop) ran
  upc           \* main: "running", "closing" (in Close, on <-e.close), "returned"

vars == <<epc, fromStop, zkState, leaderZnode, resigned, connClosed, stopClosed, upc>>

\* NewElector, then go e.ElectLeader(...).
Init ==
  /\ epc = "setup"
  /\ fromStop = FALSE
  /\ zkState = "connecting"
  /\ leaderZnode = Nil
  /\ resigned = FALSE
  /\ connClosed = FALSE
  /\ stopClosed = FALSE
  /\ upc = "running"

\* zk.Connect, prepare (create /election and /leader if they do not
\* exist), NewElection and go candidate.ElectLeader().
Setup ==
  /\ epc = "setup"
  /\ epc' = "loop"
  /\ UNCHANGED <<fromStop, zkState, leaderZnode, resigned, connClosed, stopClosed, upc>>

Break ==
  /\ epc' = "exit"
  /\ UNCHANGED <<zkState, leaderZnode>>

\* case ev, ok := <-sessionEv
SessionEvent(ev) ==
  /\ epc = "loop"
  /\ IF ev \in {"closed", "expired", "authfailed"}
       THEN Break
       ELSE /\ epc' = epc
            /\ zkState' = IF ev = "unknown" THEN zkState ELSE ev
            /\ UNCHANGED leaderZnode
  /\ UNCHANGED <<fromStop, resigned, connClosed, stopClosed, upc>>

\* setLeader: conn.Set(/leader, name, -1), whatever version is there.
SetLeader == leaderZnode' = Me

\* case status, ok := <-candidate.Status(): a closed channel or an error
\* ends the loop; Leader writes the name to /leader (setLeader); Follower
\* reads /leader (getLeader) and drops the result.
CandidateStatus(s) ==
  /\ epc = "loop"
  /\ IF s \in {"closed", "err"}
       THEN Break
       ELSE /\ epc' = epc
            /\ IF s = "leader" THEN SetLeader ELSE UNCHANGED leaderZnode
            /\ UNCHANGED zkState
  /\ UNCHANGED <<fromStop, resigned, connClosed, stopClosed, upc>>

\* case _, ok := <-e.stop, which is ready once stop is closed.
StopCase ==
  /\ epc = "loop"
  /\ stopClosed
  /\ fromStop' = TRUE
  /\ Break
  /\ UNCHANGED <<resigned, connClosed, stopClosed, upc>>

\* After the loop: candidate.Resign(), e.conn.Close(), and the send on
\* e.close only if the loop ended on stop.
Leave ==
  /\ epc = "exit"
  /\ resigned' = TRUE
  /\ connClosed' = TRUE
  /\ epc' = IF fromStop THEN "handoff" ELSE "done"
  /\ UNCHANGED <<fromStop, zkState, leaderZnode, stopClosed, upc>>

\* e.close is unbuffered: the send and Close's receive are one step.
Handoff ==
  /\ epc = "handoff"
  /\ upc = "closing"
  /\ epc' = "done"
  /\ upc' = "returned"
  /\ UNCHANGED <<fromStop, zkState, leaderZnode, resigned, connClosed, stopClosed>>

\* main receives a signal and calls Close: close(e.stop), then <-e.close.
Close ==
  /\ upc = "running"
  /\ stopClosed' = TRUE
  /\ upc' = "closing"
  /\ UNCHANGED <<epc, fromStop, zkState, leaderZnode, resigned, connClosed>>

Elector == Setup \/ StopCase \/ Leave \/ Handoff

Environment ==
  \/ \E ev \in SessionEvents : SessionEvent(ev)
  \/ \E s \in Statuses : CandidateStatus(s)

Next == Elector \/ Environment \/ Close

\* The ElectLeader goroutine runs while it can; nothing forces ZooKeeper or
\* the candidate to send anything, or a signal to arrive.
Spec == Init /\ [][Next]_vars /\ WF_vars(Elector)

(***************************************************************************)
(* Properties                                                              *)
(***************************************************************************)
TypeOK ==
  /\ epc \in {"setup", "loop", "exit", "handoff", "done"}
  /\ fromStop \in BOOLEAN
  /\ zkState \in {"connecting", "disconnected", "connected"}
  /\ leaderZnode \in {Me, Nil}
  /\ {resigned, connClosed, stopClosed} \subseteq BOOLEAN
  /\ upc \in {"running", "closing", "returned"}

\* Close returns: "participator主动退出选主" (the participator leaves the
\* election of its own accord) completes once ElectLeader has resigned.
CloseReturns == upc = "closing" ~> upc = "returned"
=============================================================================
