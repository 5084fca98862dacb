---------------------------- MODULE MCTokenPool ----------------------------
EXTENDS TokenPool

CONSTANTS w1, w2, w3

\* Three workers for two tokens: the third Acquire finds the channel empty.
MCWorkers == {w1, w2, w3}

MCConcurrency == 2

\* Every worker's ctx has a deadline.
MCDeadlines == MCWorkers

\* context.Background(), as in the tests: no ctx is ever done.
MCBackground == {}
=============================================================================
