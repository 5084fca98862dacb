-------------------------------- MODULE MemoCsp --------------------------------
(***************************************************************************)
(* Memo of src/memo/usingcsp/memo.go: a server goroutine owns the cache    *)
(* and serves Get requests from the unbuffered memo.requests channel.  For *)
(* a new key it starts e.call (f, then close(e.ready)); for every request  *)
(* it starts e.deliver, which waits on e.ready and sends e.res on the      *)
(* request's unbuffered response channel.                                  *)
(*                                                                         *)
(* The server's loop body does not block, so a request's send, its receive *)
(* and the body are one step.  The Get then blocks on <-response, so       *)
(* deliver's send and the Get's receive are one step as well.  The owner   *)
(* calls Close once every Get has returned.                                *)
(***************************************************************************)
EXTENDS Naturals

CONSTANTS Clients, Keys, KeyOf, Results, None

ASSUME KeyOf \in [Clients -> Keys] /\ None \notin Results

VARIABLES
  entries,     \* the keys of the server's cache
  res,         \* e.res of each key's entry, None until f returns
  ready,       \* whether e.ready is closed
  delivering,  \* the clients whose e.deliver goroutine is running
  closed,      \* memo.requests is closed
  serving,     \* the server's range loop is running
  cpc,         \* a client's Get: "get", "wait", "done"
  ret          \* what Get returned

vars == <<entries, res, ready, delivering, closed, serving, cpc, ret>>

\* New(f): the channel made and the server started.
Init ==
  /\ entries = {}
  /\ res = [k \in Keys |-> None]
  /\ ready = [k \in Keys |-> FALSE]
  /\ delivering = {}
  /\ closed = FALSE /\ serving = TRUE
  /\ cpc = [c \in Clients |-> "get"]
  /\ ret = [c \in Clients |-> None]

\* Mutant: the server makes a new entry for every request.
RequestAlwaysNewEntry(c) ==
  /\ cpc[c] = "get" /\ serving /\ ~closed
  /\ entries' = entries \cup {KeyOf[c]}
  /\ res' = [res EXCEPT ![KeyOf[c]] = None]
  /\ ready' = [ready EXCEPT ![KeyOf[c]] = FALSE]
  /\ delivering' = delivering \cup {c}
  /\ cpc' = [cpc EXCEPT ![c] = "wait"]
  /\ UNCHANGED <<closed, serving, ret>>

\* Mutant: the server forgets go e.deliver(req.response).
RequestNoDeliver(c) ==
  /\ cpc[c] = "get" /\ serving /\ ~closed
  /\ entries' = entries \cup {KeyOf[c]}
  /\ cpc' = [cpc EXCEPT ![c] = "wait"]
  /\ UNCHANGED <<res, ready, delivering, closed, serving, ret>>

\* memo.requests <- request{key, response}, received by the server, which
\* creates a missing entry and starts e.call, then starts e.deliver.
Request(c) ==
  /\ cpc[c] = "get" /\ serving /\ ~closed
  /\ entries' = entries \cup {KeyOf[c]}
  /\ delivering' = delivering \cup {c}
  /\ cpc' = [cpc EXCEPT ![c] = "wait"]
  /\ UNCHANGED <<res, ready, closed, serving, ret>>

\* e.call: e.res.val, e.res.err = f(key); close(e.ready).  A call runs for
\* every entry whose ready is still open.
Call(k) ==
  /\ k \in entries /\ ~ready[k]
  /\ \E r \in Results : res' = [res EXCEPT ![k] = r]
  /\ ready' = [ready EXCEPT ![k] = TRUE]
  /\ UNCHANGED <<entries, delivering, closed, serving, cpc, ret>>

\* e.deliver: <-e.ready; response <- e.res, received by res := <-response.
Deliver(c) ==
  /\ c \in delivering /\ ready[KeyOf[c]]
  /\ ret' = [ret EXCEPT ![c] = res[KeyOf[c]]]
  /\ cpc' = [cpc EXCEPT ![c] = "done"]
  /\ delivering' = delivering \ {c}
  /\ UNCHANGED <<entries, res, ready, closed, serving>>

\* Close: close(memo.requests).
Close ==
  /\ ~closed /\ \A c \in Clients : cpc[c] = "done"
  /\ closed' = TRUE
  /\ UNCHANGED <<entries, res, ready, delivering, serving, cpc, ret>>

\* The range over the closed channel ends and the server returns.
ServerExit ==
  /\ closed /\ serving
  /\ serving' = FALSE
  /\ UNCHANGED <<entries, res, ready, delivering, closed, cpc, ret>>

Next ==
  \/ \E c \in Clients : Request(c) \/ Deliver(c)
  \/ \E k \in Keys : Call(k)
  \/ Close \/ ServerExit

Spec == Init /\ [][Next]_vars

\* Every runnable goroutine runs: the clients, the server, e.call and
\* e.deliver.  Nothing forces the owner to call Close.
FairSpec ==
  /\ Spec
  /\ \A c \in Clients : WF_vars(Request(c)) /\ WF_vars(Deliver(c))
  /\ \A k \in Keys : WF_vars(Call(k))
  /\ WF_vars(ServerExit)

(***************************************************************************)
(* Refinement: a key's result is in the abstract cache once e.ready is     *)
(* closed; the client states are the same.                                 *)
(***************************************************************************)
Abs == INSTANCE Memo WITH cache <- [k \in Keys |-> IF ready[k] THEN res[k] ELSE None]

TypeOK ==
  /\ entries \subseteq Keys
  /\ res \in [Keys -> Results \cup {None}] /\ ready \in [Keys -> BOOLEAN]
  /\ delivering \subseteq Clients
  /\ closed \in BOOLEAN /\ serving \in BOOLEAN
  /\ cpc \in [Clients -> {"get", "wait", "done"}]
  /\ ret \in [Clients -> Results \cup {None}]

\* usingcsp implements the Memo specification: the server starts one
\* e.call per key, and every deliver sends that call's result.
ImplementsMemo == Abs!Spec

\* Every Get returns, and once Close has closed memo.requests the server
\* goroutine returns.
AllGetsReturn == <>(\A c \in Clients : cpc[c] = "done") /\ (closed ~> ~serving)
=============================================================================
