-------------------------------- MODULE FWriter --------------------------------
(***************************************************************************)
(* SafeWriter of src/fwriter: writers of one file fn, in goroutines of one *)
(* process or in several processes, each run                               *)
(*   w, err := NewSafeWriter(fn); w.Write(...); w.Commit() or w.Abort()    *)
(* NewSafeWriter takes FLock(fn).Acquire: open(fn.lock, O_CREAT), then a   *)
(* non-blocking flock(LOCK_EX) on that descriptor; it then opens the       *)
(* temporary file.  exit() closes the lock descriptor (Release) and then   *)
(* unlinks fn.lock (Remove).                                               *)
(*                                                                         *)
(* The file system is what the lock depends on: the inode at the path      *)
(* fn.lock, and the flock held on each inode.  flock locks an open file   *)
(* description, so it is held by the writer whose descriptor it is.       *)
(* Writing to the temporary file and the rename are data and not modelled *)
(* beyond their outcome; MkdirAll is left out (its failure returns before  *)
(* any lock state changes).                                                *)
(***************************************************************************)
EXTENDS Naturals

CONSTANTS
  Writers,      \* the goroutines or processes writing fn
  MaxInodes,    \* bound on the lock files O_CREAT creates
  Rounds,       \* NewSafeWriter calls per writer
  FlockErrors,  \* whether flock may fail with an error other than EWOULDBLOCK
  None

ASSUME MaxInodes \in Nat \ {0} /\ Rounds \in Nat \ {0} /\ FlockErrors \in BOOLEAN

Inodes == 1..MaxInodes
NoFile == 0

VARIABLES
  lockPath,  \* the inode at the path fn.lock, NoFile when there is none
  nextIno,   \* inodes created so far
  flocks,    \* the writer holding flock on an inode, or None
  fd,        \* the inode of a writer's l.fd, NoFile when closed
  pc,        \* "new", "flock", "tmp", "held", "release", "remove", "done"
  rounds     \* NewSafeWriter calls made

vars == <<lockPath, nextIno, flocks, fd, pc, rounds>>

Init ==
  /\ lockPath = NoFile /\ nextIno = 0
  /\ flocks = [i \in Inodes |-> None]
  /\ fd = [w \in Writers |-> NoFile]
  /\ pc = [w \in Writers |-> "new"]
  /\ rounds = [w \in Writers |-> 0]

Goto(w, l) == pc' = [pc EXCEPT ![w] = l]

\* After an error return the caller tries again while it has rounds left.
Retry(w) == Goto(w, IF rounds[w] < Rounds THEN "new" ELSE "done")

\* NewSafeWriter; Acquire; l.open(): syscall.Open(l.fn, O_CREAT|O_RDONLY)
\* opens the inode at fn.lock, creating one when the path is free.
Open(w) ==
  /\ pc[w] = "new"
  /\ rounds' = [rounds EXCEPT ![w] = @ + 1]
  /\ IF lockPath = NoFile
       THEN /\ nextIno < MaxInodes
            /\ nextIno' = nextIno + 1 /\ lockPath' = nextIno + 1
            /\ fd' = [fd EXCEPT ![w] = nextIno + 1]
       ELSE UNCHANGED <<nextIno, lockPath>> /\ fd' = [fd EXCEPT ![w] = lockPath]
  /\ Goto(w, "flock")
  /\ UNCHANGED flocks

\* syscall.Flock(l.fd, LOCK_EX|LOCK_NB).  Success holds the lock.  On
\* EWOULDBLOCK the descriptor is closed and Acquire returns an error; on
\* any other error the descriptor is closed and Acquire returns nil.
Flock(w) ==
  /\ pc[w] = "flock"
  /\ \/ /\ flocks[fd[w]] = None
        /\ flocks' = [flocks EXCEPT ![fd[w]] = w]
        /\ Goto(w, "tmp") /\ UNCHANGED fd
     \/ /\ flocks[fd[w]] # None
        /\ fd' = [fd EXCEPT ![w] = NoFile]
        /\ Retry(w) /\ UNCHANGED flocks
     \/ /\ FlockErrors
        /\ fd' = [fd EXCEPT ![w] = NoFile]
        /\ Goto(w, "tmp") /\ UNCHANGED flocks
  /\ UNCHANGED <<lockPath, nextIno, rounds>>

\* os.OpenFile(fn+tmpSuffix, O_TRUNC...): the writer is returned, or on an
\* error the lock is released and removed and the error returned.
OpenTmp(w) ==
  /\ pc[w] = "tmp"
  /\ \/ Goto(w, "held")
     \/ Goto(w, "release")
  /\ UNCHANGED <<lockPath, nextIno, flocks, fd, rounds>>

\* Commit (Sync, Rename) or Abort: either way exit(); the writer is closed,
\* then unlock().
Finish(w) ==
  /\ pc[w] = "held"
  /\ Goto(w, "release")
  /\ UNCHANGED <<lockPath, nextIno, flocks, fd, rounds>>

\* Release: syscall.Close(l.fd), which drops the flock held through it.
Release(w) ==
  /\ pc[w] = "release"
  /\ flocks' = IF fd[w] # NoFile /\ flocks[fd[w]] = w
                 THEN [flocks EXCEPT ![fd[w]] = None] ELSE flocks
  /\ fd' = [fd EXCEPT ![w] = NoFile]
  /\ Goto(w, "remove")
  /\ UNCHANGED <<lockPath, nextIno, rounds>>

\* Remove: os.Remove(l.fn) unlinks whatever inode is at fn.lock now; then
\* exit removes the temporary file and the caller goes on.
Remove(w) ==
  /\ pc[w] = "remove"
  /\ lockPath' = NoFile
  /\ Retry(w)
  /\ UNCHANGED <<nextIno, flocks, fd, rounds>>

Step(w) == Open(w) \/ Flock(w) \/ OpenTmp(w) \/ Finish(w) \/ Release(w) \/ Remove(w)

Next == \E w \in Writers : Step(w)

Spec == Init /\ [][Next]_vars

(***************************************************************************)
(* Properties                                                              *)
(***************************************************************************)
TypeOK ==
  /\ lockPath \in Inodes \cup {NoFile} /\ nextIno \in 0..MaxInodes
  /\ flocks \in [Inodes -> Writers \cup {None}]
  /\ fd \in [Writers -> Inodes \cup {NoFile}]
  /\ pc \in [Writers -> {"new", "flock", "tmp", "held", "release", "remove", "done"}]
  /\ rounds \in [Writers -> 0..Rounds]

\* The promise of SafeWriter (and of its test): while one writer holds a
\* SafeWriter for fn, NewSafeWriter(fn) by any other fails with "file has
\* been locked by another thread", so at most one writer holds one.
OneWriter == \A v, w \in Writers : pc[v] = "held" /\ pc[w] = "held" => v = w
=============================================================================
