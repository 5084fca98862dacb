------------------------------ MODULE MCStreamOp ------------------------------
EXTENDS StreamOp

\* Eight values through all six combinators, then fanned out to two
\* channels and in again:
\*   SkipN(1)              2 3 4 5 6 7 8
\*   SkipWhile({2})        3 4 5 6 7 8
\*   TakeFn({3,5,6,7,8})   3 5 6 7 8
\*   SkipFn({6})           3 5 7 8
\*   TakeWhile({3,5,7})    3 5 7, and returns on 8
\*   TakeN(2)              3 5, and returns while 7 is still on its way
MCValues == <<1, 2, 3, 4, 5, 6, 7, 8>>

MCStages ==
  << [op |-> "SkipN", n |-> 1, fn |-> {}],
     [op |-> "SkipWhile", n |-> 0, fn |-> {2}],
     [op |-> "TakeFn", n |-> 0, fn |-> {3, 5, 6, 7, 8}],
     [op |-> "SkipFn", n |-> 0, fn |-> {6}],
     [op |-> "TakeWhile", n |-> 0, fn |-> {3, 5, 7}],
     [op |-> "TakeN", n |-> 2, fn |-> {}] >>

MCOuts == 2
=============================================================================
