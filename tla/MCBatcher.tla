------------------------------ MODULE MCBatcher ------------------------------
EXTENDS Batcher

\* Six items for two table keys; the first key gets five of them, so its
\* batch fills twice and source sends it twice.
MCNItems == 6
MCKey == (1 :> 0 @@ 2 :> 0 @@ 3 :> 1 @@ 4 :> 0 @@ 5 :> 0 @@ 6 :> 0)

\* Two sink workers (b.batchQ holds three batches), batches of two, and a
\* source queue of two, so that a Put can find it full and time out.
MCConcurrency == 2
MCMaxBatchSize == 2
MCSourceQueueSize == 2
MCNumCPU == 2
=============================================================================
