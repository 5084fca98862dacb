-------------------------------- MODULE MCTaskLB --------------------------------
EXTENDS TaskLB

CONSTANTS w1, w2, c1, c2

\* Two workers, so that a rent has a choice; two clients, so that one can
\* hold a worker while the other rents.
MCWorkers == {w1, w2}
MCClients == {c1, c2}

\* Enough for the admin to add both workers and remove one.
MCMaxAdminOps == 3
=============================================================================
