---------------------------- MODULE MCBytesQueue ----------------------------
(***************************************************************************)
(* Instantiates BytesQueue for TLC.  Payloads are short byte strings of    *)
(* distinct lengths and contents, so a record read at a wrong offset or in *)
(* a wrong order is told apart from the right one.                         *)
(***************************************************************************)
EXTENDS BytesQueue

\* An empty payload and a 3-byte payload: records of 1 and 4 bytes.
MCData == {<<>>, <<7, 7, 7>>}

\* No growth: maxCapacity equal to the initial capacity, so every push that
\* does not fit is refused and the wrap-around arithmetic alone is checked.
MCFixedCapacity == 20

\* Growth: start small and let allocateAdditionalMemory double the array up
\* to a ceiling, which also keeps the state space finite.
MCGrowInit == 10
MCGrowMax == 22



\* Gaps of 128 and 129 bytes: an empty payload and a 127-byte payload (a
\* 128-byte record), on an array just large enough to wrap around such a
\* gap and to grow once.
MCGapData == {<<>>, [k \in 1..127 |-> 7]}
MCGapInit == 132
MCGapMax == 300
=============================================================================
