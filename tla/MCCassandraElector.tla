------------------------- MODULE MCCassandraElector -------------------------
EXTENDS CassandraElector

CONSTANTS n1, n2

\* Two electors of one resource; n1's process may call Resign.
MCNodes == {n1, n2}

MCResigners == {n1}

\* NewConfig's default heartbeat.
MCHeartbeat == 10
=============================================================================
