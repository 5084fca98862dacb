------------------------------ MODULE FeatureStore ------------------------------
(***************************************************************************)
(* What BigMemCache (src/big-memory-cache) promises its callers: a map     *)
(* from a feature's UUID to the feature last added under it.  Add stores   *)
(* the feature, Del and Reset forget, and Get returns the stored feature,  *)
(* or nil when there is none.                                              *)
(***************************************************************************)
CONSTANTS
  Features,  \* the features callers add
  Keys,      \* the UUIDs they are added and looked up under
  NoEntry    \* no feature stored; Get's nil

VARIABLES
  store,  \* the feature stored under each UUID, or NoEntry
  last    \* the last call: which, its key, and the feature added or returned

vars == <<store, last>>

Call(op, k, res) == [op |-> op, key |-> k, res |-> res]

Init ==
  /\ store = [k \in Keys |-> NoEntry]
  /\ last = Call("new", NoEntry, NoEntry)

Add(fe) ==
  /\ store' = [store EXCEPT ![fe.uuid] = fe]
  /\ last' = Call("add", fe.uuid, fe)

Del(k) ==
  /\ store' = [store EXCEPT ![k] = NoEntry]
  /\ last' = Call("del", k, NoEntry)

Get(k) ==
  /\ last' = Call("get", k, store[k])
  /\ UNCHANGED store

Reset ==
  /\ store' = [k \in Keys |-> NoEntry]
  /\ last' = Call("reset", NoEntry, NoEntry)

Next ==
  \/ \E fe \in Features : Add(fe)
  \/ \E k \in Keys : Del(k) \/ Get(k)
  \/ Reset

Spec == Init /\ [][Next]_vars
=============================================================================
