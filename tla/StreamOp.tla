------------------------------- MODULE StreamOp -------------------------------
(***************************************************************************)
(* The combinators of src/stream-op composed as a caller composes them:    *)
(*                                                                         *)
(*   AsStream(ctx, Values...) -> Stages[1] -> ... -> Stages[K]             *)
(*     -> FanOut(in, out[1..Outs], false) -> FanIn(out...) -> consumer      *)
(*                                                                         *)
(* Every channel is unbuffered, so a send and the receive that takes it    *)
(* are one step (Transfer).  Each stage is the goroutine of TakeN, SkipN,  *)
(* TakeFn, SkipFn, TakeWhile or SkipWhile; it closes its output channel    *)
(* when it returns (defer close).  All goroutines share one ctx, which the *)
(* consumer may cancel at any moment.  FanOut (synchronous mode) sends     *)
(* each value to every out channel in turn; the out channels are          *)
(* unbuffered.  FanIn selects over the open ones and forwards to its own  *)
(* channel, buffered to len(ins); the consumer ranges over that channel.   *)
(*                                                                         *)
(* A stage is blocked either in the select on ctx.Done() and its input     *)
(* ("recv"), or on the plain send hijackStream <- v ("send"), which does   *)
(* not watch ctx.  AsStream's send is inside a select with ctx.Done().     *)
(* The function fn of a stage is the set of values it holds for.          *)
(***************************************************************************)
EXTENDS Integers, Sequences, SequencesExt

CONSTANTS
  Values,   \* the values ... argument of AsStream, a sequence
  Stages,   \* sequence of [op, n, fn]: the combinator, its N, its fn
  Outs      \* len(out) of FanOut, which are FanIn's ins

Ops == {"TakeN", "SkipN", "TakeFn", "SkipFn", "TakeWhile", "SkipWhile"}

ASSUME \A k \in DOMAIN Stages :
         Stages[k].op \in Ops /\ Stages[k].n \in Nat /\ Stages[k].fn \subseteq Range(Values)

ASSUME Outs \in Nat \ {0}

K == Len(Stages)

\* Goroutine 0 is AsStream's, goroutine k the k-th stage's; goroutine k
\* sends on channel k, which goroutine k+1 (or the consumer) receives.
Procs == 0..K

\* No value is being sent; Values are positive.
NoVal == 0

ASSUME \A i \in DOMAIN Values : Values[i] \in Nat \ {0}

VARIABLES
  st,         \* st[k]: pc ("recv", "send" or "done"), the value being sent,
              \* cnt (AsStream's index, or i of TakeN and SkipN) and skip
              \* (SkipWhile's flag)
  cancelled,  \* ctx.Done() is closed
  fo,         \* FanOut: pc ("recv", "send" or "done"), val, i (the out it sends on)
  fi,         \* FanIn: pc ("select", "send" or "done"), cases (the ins still
              \* open), val (what it forwards: the in it came from and the value)
  buf,        \* FanIn's out channel, of capacity Outs
  got,        \* <<in, value>> pairs the consumer received
  cpc         \* consumer: "recv", or "closed" once FanIn's out is closed

fan == <<fo, fi, buf, got, cpc>>
vars == <<st, cancelled, fan>>

Fn(k, v) == v \in Stages[k].fn

\* The state in which the goroutine of stage k starts: TakeN with N = 0
\* never enters its loop.
StageInit(k) ==
  [pc |-> IF Stages[k].op = "TakeN" /\ Stages[k].n = 0 THEN "done" ELSE "recv",
   val |-> NoVal, cnt |-> 0, skip |-> TRUE]

Init ==
  /\ st = [k \in Procs |->
             IF k = 0
               THEN [pc |-> IF Values = << >> THEN "done" ELSE "send",
                     val |-> IF Values = << >> THEN NoVal ELSE Values[1],
                     cnt |-> 0, skip |-> TRUE]
               ELSE StageInit(k)]
  /\ cancelled = FALSE
  /\ fo = [pc |-> "recv", val |-> NoVal, i |-> 1]
  /\ fi = [pc |-> "select", cases |-> 1..Outs, val |-> << >>]
  /\ buf = << >>
  /\ got = << >>
  /\ cpc = "recv"

Sending(k, v) == [st[k] EXCEPT !.pc = "send", !.val = v]
Receiving(k) == [st[k] EXCEPT !.pc = "recv", !.val = NoVal]
Returned(k) == [st[k] EXCEPT !.pc = "done", !.val = NoVal]

\* Mutant of AfterSend: TakeN's loop runs while i <= N, passing N+1 values.
AfterSendTakeNOffByOne(k) ==
  IF k = 0
    THEN IF st[0].cnt + 1 = Len(Values)
           THEN [Returned(0) EXCEPT !.cnt = @ + 1]
           ELSE [Sending(0, Values[st[0].cnt + 2]) EXCEPT !.cnt = @ + 1]
    ELSE IF Stages[k].op = "TakeN"
           THEN IF st[k].cnt + 1 <= Stages[k].n
                  THEN [Receiving(k) EXCEPT !.cnt = @ + 1]
                  ELSE [Returned(k) EXCEPT !.cnt = @ + 1]
           ELSE Receiving(k)

\* Goroutine k after its send completed.  AsStream goes on to the next of
\* Values or returns; TakeN counts the value and stops after N; the other
\* stages go back to their select.
AfterSend(k) ==
  IF k = 0
    THEN IF st[0].cnt + 1 = Len(Values)
           THEN [Returned(0) EXCEPT !.cnt = @ + 1]
           ELSE [Sending(0, Values[st[0].cnt + 2]) EXCEPT !.cnt = @ + 1]
    ELSE IF Stages[k].op = "TakeN"
           THEN IF st[k].cnt + 1 < Stages[k].n
                  THEN [Receiving(k) EXCEPT !.cnt = @ + 1]
                  ELSE [Returned(k) EXCEPT !.cnt = @ + 1]
           ELSE Receiving(k)

\* Mutant of OnValue: SkipWhile's flag is never cleared, so it drops
\* every value after the first one that fails fn, as before it.
OnValueSkipWhileStuck(k, v) ==
  LET s == Stages[k] IN
  CASE s.op = "TakeN" -> Sending(k, v)
    [] s.op = "SkipN" ->
         IF st[k].cnt < s.n THEN [st[k] EXCEPT !.cnt = @ + 1] ELSE Sending(k, v)
    [] s.op = "TakeFn" -> IF Fn(k, v) THEN Sending(k, v) ELSE st[k]
    [] s.op = "SkipFn" -> IF ~Fn(k, v) THEN Sending(k, v) ELSE st[k]
    [] s.op = "TakeWhile" -> IF Fn(k, v) THEN Sending(k, v) ELSE Returned(k)
    [] s.op = "SkipWhile" -> st[k]

\* Stage k received v from its input: the body of its loop up to the next
\* blocking point.  SkipN's first loop counts the value and drops it.
OnValue(k, v) ==
  LET s == Stages[k] IN
  CASE s.op = "TakeN" -> Sending(k, v)
    [] s.op = "SkipN" ->
         IF st[k].cnt < s.n THEN [st[k] EXCEPT !.cnt = @ + 1] ELSE Sending(k, v)
    [] s.op = "TakeFn" -> IF Fn(k, v) THEN Sending(k, v) ELSE st[k]
    [] s.op = "SkipFn" -> IF ~Fn(k, v) THEN Sending(k, v) ELSE st[k]
    [] s.op = "TakeWhile" -> IF Fn(k, v) THEN Sending(k, v) ELSE Returned(k)
    [] s.op = "SkipWhile" ->
         \* skip stays set until a value fails fn; from then on all pass
         IF st[k].skip /\ Fn(k, v) THEN st[k] ELSE [Sending(k, v) EXCEPT !.skip = FALSE]

\* Stage k's select receives a value goroutine k-1 is sending.
Transfer(k) ==
  /\ st[k].pc = "recv"
  /\ st[k - 1].pc = "send"
  /\ st' = [st EXCEPT ![k - 1] = AfterSend(k - 1), ![k] = OnValue(k, st[k - 1].val)]
  /\ UNCHANGED <<cancelled, fan>>

\* Stage k's select receives from its closed input (ok is false) and
\* returns; SkipN's first loop ignores ok, so it counts a zero value and
\* goes on.
InputClosed(k) ==
  /\ st[k].pc = "recv"
  /\ st[k - 1].pc = "done"
  /\ st' = [st EXCEPT ![k] =
              IF Stages[k].op = "SkipN" /\ st[k].cnt < Stages[k].n
                THEN [st[k] EXCEPT !.cnt = @ + 1]
                ELSE Returned(k)]
  /\ UNCHANGED <<cancelled, fan>>

\* The select takes case <-ctx.Done() and returns: AsStream's send, or a
\* stage's receive.
CtxDone(k) ==
  /\ cancelled
  /\ \/ k = 0 /\ st[0].pc = "send"
     \/ k # 0 /\ st[k].pc = "recv"
  /\ st' = [st EXCEPT ![k] = Returned(k)]
  /\ UNCHANGED <<cancelled, fan>>

\* FanOut's range loop receives a value from the last stage.
FanOutRecv ==
  /\ fo.pc = "recv"
  /\ st[K].pc = "send"
  /\ fo' = [pc |-> "send", val |-> st[K].val, i |-> 1]
  /\ st' = [st EXCEPT ![K] = AfterSend(K)]
  /\ UNCHANGED <<cancelled, fi, buf, got, cpc>>

\* The last stage's channel is closed: the range loop ends and the deferred
\* function closes every out channel.
FanOutClosed ==
  /\ fo.pc = "recv"
  /\ st[K].pc = "done"
  /\ fo' = [fo EXCEPT !.pc = "done"]
  /\ UNCHANGED <<st, cancelled, fi, buf, got, cpc>>

\* reflect.Select in FanIn takes the value FanOut sends on out[i]; FanOut
\* goes on to the next out, or back to its range loop after the last.
FanInRecv(i) ==
  /\ fi.pc = "select"
  /\ i \in fi.cases
  /\ fo.pc = "send" /\ fo.i = i
  /\ fi' = [fi EXCEPT !.pc = "send", !.val = <<i, fo.val>>]
  /\ fo' = IF i < Outs THEN [fo EXCEPT !.i = i + 1]
                       ELSE [fo EXCEPT !.pc = "recv", !.val = NoVal]
  /\ UNCHANGED <<st, cancelled, buf, got, cpc>>

\* Mutant of FanInClosed: the loop does not end when the last case is
\* removed, so out is never closed.
FanInClosedNeverExits(i) ==
  /\ fi.pc = "select"
  /\ i \in fi.cases
  /\ fo.pc = "done"
  /\ fi' = [fi EXCEPT !.cases = @ \ {i}]
  /\ UNCHANGED <<st, cancelled, fo, buf, got, cpc>>

\* reflect.Select finds out[i] closed and removes its case; with no case
\* left the loop ends and the deferred close(out) runs.
FanInClosed(i) ==
  /\ fi.pc = "select"
  /\ i \in fi.cases
  /\ fo.pc = "done"
  /\ fi' = [fi EXCEPT !.cases = @ \ {i},
                      !.pc = IF fi.cases = {i} THEN "done" ELSE "select"]
  /\ UNCHANGED <<st, cancelled, fo, buf, got, cpc>>

\* out <- v.Interface(), blocking while the buffer is full.
FanInSend ==
  /\ fi.pc = "send"
  /\ Len(buf) < Outs
  /\ buf' = Append(buf, fi.val)
  /\ fi' = [fi EXCEPT !.pc = "select", !.val = << >>]
  /\ UNCHANGED <<st, cancelled, fo, got, cpc>>

\* The consumer's range loop receives from FanIn's channel, or finds it
\* closed and drained.
ConsumerRecv ==
  /\ cpc = "recv"
  /\ buf # << >>
  /\ got' = Append(got, Head(buf))
  /\ buf' = Tail(buf)
  /\ UNCHANGED <<st, cancelled, fo, fi, cpc>>

ConsumerClosed ==
  /\ cpc = "recv"
  /\ buf = << >>
  /\ fi.pc = "done"
  /\ cpc' = "closed"
  /\ UNCHANGED <<st, cancelled, fo, fi, buf, got>>

\* The owner of ctx calls cancel().
Cancel ==
  /\ ~cancelled
  /\ cancelled' = TRUE
  /\ UNCHANGED <<st, fan>>

Goroutine(k) ==
  \/ k # 0 /\ (Transfer(k) \/ InputClosed(k))
  \/ CtxDone(k)

FanOut == FanOutRecv \/ FanOutClosed

FanIn == (\E i \in 1..Outs : FanInRecv(i) \/ FanInClosed(i)) \/ FanInSend

Consumer == ConsumerRecv \/ ConsumerClosed

Next ==
  \/ \E k \in Procs : Goroutine(k)
  \/ FanOut \/ FanIn \/ Consumer
  \/ Cancel

\* The program may end with goroutines blocked for good (see
\* CancelReleasesPipeline); the configurations do not check deadlock.
Spec == Init /\ [][Next]_vars

\* Every goroutine is scheduled while it can run.  Nothing forces cancel().
FairSpec ==
  /\ Spec
  /\ \A k \in Procs : WF_vars(Goroutine(k))
  /\ WF_vars(FanOut) /\ WF_vars(FanIn) /\ WF_vars(Consumer)

(***************************************************************************)
(* Reference definitions of the combinators on whole sequences            *)
(***************************************************************************)
\* The first n elements of s, or s.
TakeNRef(s, n) == SubSeq(s, 1, IF n < Len(s) THEN n ELSE Len(s))

\* The elements of s after the first n.
SkipNRef(s, n) == SubSeq(s, n + 1, Len(s))

\* The longest prefix of s whose elements satisfy P.
TakeWhileRef(s, P(_)) ==
  LET i == SelectInSeq(s, LAMBDA x : ~P(x))
  IN IF i = 0 THEN s ELSE SubSeq(s, 1, i - 1)

\* s from its first element that fails P on.
SkipWhileRef(s, P(_)) ==
  LET i == SelectInSeq(s, LAMBDA x : ~P(x))
  IN IF i = 0 THEN << >> ELSE SubSeq(s, i, Len(s))

Ref(s, stage) ==
  LET P(x) == x \in stage.fn IN
  CASE stage.op = "TakeN" -> TakeNRef(s, stage.n)
    [] stage.op = "SkipN" -> SkipNRef(s, stage.n)
    [] stage.op = "TakeFn" -> SelectSeq(s, P)
    [] stage.op = "SkipFn" -> SelectSeq(s, LAMBDA x : ~P(x))
    [] stage.op = "TakeWhile" -> TakeWhileRef(s, P)
    [] stage.op = "SkipWhile" -> SkipWhileRef(s, P)

\* What the pipeline promises to deliver: the stages applied in turn.
Expected == FoldLeft(Ref, Values, Stages)

(***************************************************************************)
(* Properties                                                              *)
(***************************************************************************)
TypeOK ==
  /\ \A k \in Procs :
       /\ st[k].pc \in {"recv", "send", "done"}
       /\ (st[k].pc = "send") = (st[k].val # NoVal)
       /\ st[k].cnt \in 0..Len(Values) + K
       /\ st[k].skip \in BOOLEAN
  /\ st[0].pc # "recv"
  /\ cancelled \in BOOLEAN
  /\ fo.pc \in {"recv", "send", "done"} /\ fo.i \in 1..Outs
  /\ fi.pc \in {"select", "send", "done"} /\ fi.cases \subseteq 1..Outs
  /\ (fi.pc = "done") = (fi.cases = {})
  /\ buf \in Seq((1..Outs) \X Range(Values)) /\ Len(buf) <= Outs
  /\ got \in Seq((1..Outs) \X Range(Values))
  /\ cpc \in {"recv", "closed"}

\* What the consumer received from FanIn's in i, and what it should get:
\* Expected, each value tagged with i.
FromIn(i) == SelectSeq(got, LAMBDA p : p[1] = i)
ExpectedFrom(i) == [j \in DOMAIN Expected |-> <<i, Expected[j]>>]

\* For each of FanOut's outs, the consumer receives, in order, a prefix of
\* what the composed reference definitions give for Values, whatever the
\* interleaving of the goroutines and wherever cancel() cuts the pipeline:
\* no stage drops, repeats or reorders a value it should pass, FanOut
\* hands every value to every out, and FanIn keeps each in's order.
DeliversPrefix == \A i \in 1..Outs : IsPrefix(FromIn(i), ExpectedFrom(i))

\* Unless ctx is cancelled, the consumer's range loop ends, and by then it
\* has received all of Expected from every out: each goroutine passes on
\* its input's close, and FanIn closes its channel once all ins closed.
DeliversAll ==
  <>(cancelled \/ (cpc = "closed" /\ \A i \in 1..Outs : FromIn(i) = ExpectedFrom(i)))

\* Once ctx is cancelled every goroutine returns: the stages, AsStream,
\* and then FanOut and FanIn, which follow their inputs' close.
CancelReleasesPipeline ==
  cancelled ~> (\A k \in Procs : st[k].pc = "done") /\ fo.pc = "done" /\ fi.pc = "done"
=============================================================================
