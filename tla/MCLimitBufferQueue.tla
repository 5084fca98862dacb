------------------------- MODULE MCLimitBufferQueue -------------------------
EXTENDS LimitBufferQueue

CONSTANTS a1, a2, c1, c2

\* One consumer.
MCOneConsumer == {c1}
MCOneProducer == {a1}

\* Two producers: a producer's Signal can wake the other producer.
MCTwoProducers == {a1, a2}

\* Two consumers: a consumer's Signal can wake the other consumer.
MCTwoConsumers == {c1, c2}

\* Two slots for four items: producers find the deque full and wait.  With
\* three goroutines on two slots a Signal cannot strand anyone (a cond with
\* Signal only is stuck only when 2 * cap < producers + consumers).
MCCap == 2

\* BPop(2) takes two items, or the one that is there; the consumer takes
\* all four items.
MCWant == 2
MCTake == 4

\* Two BPush calls per producer.
MCPushesTwo == 2

\* One slot: with two producers and one consumer, a producer's Signal can
\* wake the other producer while the consumer waits.
MCCapOne == 1

\* One item for each of two consumers.
MCWantOne == 1
MCTakeOne == 1
=============================================================================
