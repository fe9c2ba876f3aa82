----------------------------- MODULE MCRingBuf -----------------------------
(* A buffer of four bytes whose counters wrap after two rounds, chunks that *)
(* fill it exactly, do not fit, or are empty.                               *)
EXTENDS RingBuf

CONSTANTS a, b

MCChunks == {<<>>, <<a>>, <<b>>, <<a, b, b>>, <<b, a, b, a, b>>}

=============================================================================
