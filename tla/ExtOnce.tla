-------------------------------- MODULE ExtOnce --------------------------------
(***************************************************************************)
(* Once of src/extsync/extonce.go: a sync.Once whose f may fail, and is    *)
(* run again by a later Do until it succeeds.                              *)
(*                                                                         *)
(* Each caller goroutine calls o.Do(f) until it returns nil, at most Tries *)
(* times.  f's outcome is a nondeterministic ok or err; its effect, the    *)
(* initialization it performs, is counted in inits.                        *)
(***************************************************************************)
EXTENDS Naturals

CONSTANTS
  Callers,  \* the goroutines calling o.Do(f)
  Tries,    \* how many times a caller calls Do while it returns an error
  None      \* no goroutine holds o.m

ASSUME Tries \in Nat \ {0} /\ None \notin Callers

VARIABLES
  done,    \* o.done
  m,       \* the goroutine holding o.m, or None
  pc,      \* "call", "lock", "check", "f", "ret", "finished"
  err,     \* what the caller's current Do returns: "nil" or "err"
  tries,   \* the Do calls the caller has made
  inits    \* the calls of f that returned nil

vars == <<done, m, pc, err, tries, inits>>

Init ==
  /\ done = 0 /\ m = None /\ inits = 0
  /\ pc = [c \in Callers |-> "call"]
  /\ err = [c \in Callers |-> "nil"]
  /\ tries = [c \in Callers |-> 0]

Goto(c, l) == pc' = [pc EXCEPT ![c] = l]

\* Do: the fast path returns nil when atomic.LoadUint32(&o.done) == 1;
\* otherwise doSlow.
Do(c) ==
  /\ pc[c] = "call"
  /\ tries' = [tries EXCEPT ![c] = @ + 1]
  /\ IF done = 1
       THEN Goto(c, "ret") /\ err' = [err EXCEPT ![c] = "nil"]
       ELSE Goto(c, "lock") /\ UNCHANGED err
  /\ UNCHANGED <<done, m, inits>>

\* doSlow: o.m.Lock()
Lock(c) ==
  /\ pc[c] = "lock" /\ m = None
  /\ m' = c
  /\ Goto(c, "check")
  /\ UNCHANGED <<done, err, tries, inits>>

\* The double check: once o.done is 1, return nil (deferred Unlock).
Check(c) ==
  /\ pc[c] = "check"
  /\ IF done = 0
       THEN Goto(c, "f") /\ UNCHANGED <<m, err>>
       ELSE Goto(c, "ret") /\ m' = None /\ err' = [err EXCEPT ![c] = "nil"]
  /\ UNCHANGED <<done, tries, inits>>

\* Mutant: o.done is stored before f runs, whatever f returns (the
\* mistake sync.Once's own comment warns of).
RunFStoresDoneFirst(c) ==
  /\ pc[c] = "f"
  /\ \E res \in {"nil", "err"} :
       /\ err' = [err EXCEPT ![c] = res]
       /\ inits' = IF res = "nil" THEN inits + 1 ELSE inits
  /\ done' = 1
  /\ m' = None
  /\ Goto(c, "ret")
  /\ UNCHANGED tries

\* Mutant: the error path returns without o.m.Unlock() (no defer).
RunFKeepsLockOnErr(c) ==
  /\ pc[c] = "f"
  /\ \E res \in {"nil", "err"} :
       /\ err' = [err EXCEPT ![c] = res]
       /\ done' = IF res = "nil" THEN 1 ELSE done
       /\ inits' = IF res = "nil" THEN inits + 1 ELSE inits
       /\ m' = IF res = "nil" THEN None ELSE m
  /\ Goto(c, "ret")
  /\ UNCHANGED tries

\* err = f(); on nil, atomic.StoreUint32(&o.done, 1); return err and the
\* deferred o.m.Unlock().
RunF(c) ==
  /\ pc[c] = "f"
  /\ \E res \in {"nil", "err"} :
       /\ err' = [err EXCEPT ![c] = res]
       /\ done' = IF res = "nil" THEN 1 ELSE done
       /\ inits' = IF res = "nil" THEN inits + 1 ELSE inits
  /\ m' = None
  /\ Goto(c, "ret")
  /\ UNCHANGED tries

\* The caller calls Do again after an error, while it has tries left.
Return(c) ==
  /\ pc[c] = "ret"
  /\ Goto(c, IF err[c] = "err" /\ tries[c] < Tries THEN "call" ELSE "finished")
  /\ UNCHANGED <<done, m, err, tries, inits>>

Step(c) == Do(c) \/ Lock(c) \/ Check(c) \/ RunF(c) \/ Return(c)

Next == \E c \in Callers : Step(c)

Spec == Init /\ [][Next]_vars

\* Every runnable goroutine runs.
FairSpec == Spec /\ \A c \in Callers : WF_vars(Step(c))

(***************************************************************************)
(* Properties                                                              *)
(***************************************************************************)
TypeOK ==
  /\ done \in {0, 1} /\ m \in Callers \cup {None}
  /\ pc \in [Callers -> {"call", "lock", "check", "f", "ret", "finished"}]
  /\ err \in [Callers -> {"nil", "err"}]
  /\ tries \in [Callers -> 0..Tries]
  /\ inits \in 0..1

\* The promise of Once: f succeeds at most once, and a Do that returns nil
\* returns after the initialization, whether it came by the fast path, by
\* the double check, or ran f itself.
InitializedOnce ==
  /\ inits <= 1
  /\ \A c \in Callers : pc[c] \in {"ret", "finished"} /\ err[c] = "nil" => inits = 1

\* A caller whose Do keeps failing stops after Tries calls; every caller's
\* loop ends.
CallersFinish == <>(\A c \in Callers : pc[c] = "finished")
=============================================================================
