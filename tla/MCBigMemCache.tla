------------------------------ MODULE MCBigMemCache ------------------------------
EXTENDS BigMemCache

\* An int64 as the eight bytes that hold it.
Int64(t) == PutInt(t, 8)

\* UUIDs "a" and "bb".
UA == Run(1, 97)
UB == Run(2, 98)

\* A feature whose Blob is 65536 + 2 bytes long, a size neither encode nor
\* bigcache refuses: its uint16 length wraps to 2.  Next to it a feature
\* of ordinary size.
MCWrapFeatures ==
  { [version |-> 0, uuid |-> UA, meta |-> << >>, blob |-> Run(65538, 255), created |-> Int64(0)],
    [version |-> 0, uuid |-> UB, meta |-> << >>, blob |-> Run(1, 2), created |-> Int64(0)] }

\* One configuration: 100 items, two shards.
MCMaxItems == {100}
=============================================================================
