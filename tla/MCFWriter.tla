------------------------------- MODULE MCFWriter -------------------------------
EXTENDS FWriter

CONSTANTS w1, w2

\* Two writers of one file.
MCWriters == {w1, w2}

\* Two lock-file inodes: the one a Remove unlinks, and the one the next
\* Open creates at the freed path.
MCMaxInodes == 2

\* Each writer calls NewSafeWriter twice, so a writer comes back after its
\* own Remove.
MCRounds == 2
=============================================================================
