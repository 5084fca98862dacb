------------------------------- MODULE MCPredator -------------------------------
EXTENDS Predator

\* Two consumeMsg goroutines, so two partitions feed msgCh at once.
MCConcurrency == 2

\* One slot in msgCh, so a cacheMsg blocks on a full channel.
MCCacheSize == 1

\* Two offsets per partition: a second message follows a mark.
MCNumMsgs == 2

\* One rebalance: a second session resumes after the marked offset.
MCMaxRebalances == 1
=============================================================================
