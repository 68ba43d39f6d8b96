--------------------------- MODULE MC_MmapLayout ---------------------------
(* MmapLayout with 4-byte pages and a 6-bit size_t. *)
EXTENDS MmapLayout

\* Lengths of up to three pages, and the two largest size_t values, whose
\* round-up to whole pages wraps to 0.
MCLengths == 0..12 \cup {62, 63}

\* Files of up to two and a half pages.
MCFileLens == 0..10

\* Aligned offsets at and beyond the start, one unaligned, one negative.
MCOffsets == {-4, 0, 2, 4, 8}
=============================================================================
