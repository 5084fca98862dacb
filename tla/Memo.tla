--------------------------------- MODULE Memo ---------------------------------
(***************************************************************************)
(* What the two Memo packages of src/memo promise: a concurrent,           *)
(* non-blocking cache of a function f.  Each client goroutine calls        *)
(* Get(KeyOf[c]) once.  f is computed once per key, only once some Get    *)
(* of that key is waiting, and every Get of a key returns that one result  *)
(* (a value or an error; both are cached).                                 *)
(*                                                                         *)
(* usinglock (MemoLock.tla) and usingcsp (MemoCsp.tla) each implement      *)
(* this specification under a refinement mapping.                          *)
(***************************************************************************)
CONSTANTS
  Clients,  \* the goroutines calling Get
  Keys,     \* the keys
  KeyOf,    \* the key each client asks for
  Results,  \* what f(key) may return: (val, err) pairs
  None      \* no result yet

ASSUME KeyOf \in [Clients -> Keys] /\ None \notin Results

VARIABLES
  cache,  \* the result of f for each key, or None before it is computed
  cpc,    \* a client's Get: "get" not yet asked, "wait", "done"
  ret     \* what the client's Get returned

vars == <<cache, cpc, ret>>

Init ==
  /\ cache = [k \in Keys |-> None]
  /\ cpc = [c \in Clients |-> "get"]
  /\ ret = [c \in Clients |-> None]

\* A client asks for its key.
Request(c) ==
  /\ cpc[c] = "get"
  /\ cpc' = [cpc EXCEPT ![c] = "wait"]
  /\ UNCHANGED <<cache, ret>>

\* f(k) is computed, once, for a key someone waits for.
Compute(k) ==
  /\ cache[k] = None
  /\ \E c \in Clients : cpc[c] = "wait" /\ KeyOf[c] = k
  /\ \E r \in Results : cache' = [cache EXCEPT ![k] = r]
  /\ UNCHANGED <<cpc, ret>>

\* A waiting client's Get returns the cached result.
Return(c) ==
  /\ cpc[c] = "wait" /\ cache[KeyOf[c]] # None
  /\ ret' = [ret EXCEPT ![c] = cache[KeyOf[c]]]
  /\ cpc' = [cpc EXCEPT ![c] = "done"]
  /\ UNCHANGED cache

Next ==
  \/ \E c \in Clients : Request(c) \/ Return(c)
  \/ \E k \in Keys : Compute(k)

Spec == Init /\ [][Next]_vars
=============================================================================
