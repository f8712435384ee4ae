------------------------------ MODULE MCBuffer ------------------------------
(* A buffer of at most a handful of bytes, with INIT_BUF_LEN scaled to 2.   *)
EXTENDS Buffer, FiniteSets

CONSTANTS a, b

MCByte == {a, b}
\* strings of one to three bytes, all first bytes and both repetitions
MCChunks == {<<a>>, <<b>>, <<a, b>>, <<b, a, b>>}
MCSizes == 0..3
MCCreateSizes == {0, 1, 3}

=============================================================================
