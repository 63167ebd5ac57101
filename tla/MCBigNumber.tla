---------------------------- MODULE MCBigNumber ----------------------------
(* Bounds for checking BigNumber: hex strings of every length up to three *)
(* bytes (odd ones included), with bit patterns that differ under shifts, *)
(* and every offset and length that fits in them, plus the first that     *)
(* does not.                                                              *)
EXTENDS BigNumber

MCHexStrings ==
  { <<>>, <<15>>, <<1, 8>>, <<6, 15, 1>>, <<1, 15, 8, 6>>, <<15, 1, 8, 6, 15>>,
    <<8, 1, 6, 15, 1, 8>>, <<6, 6, 1, 8, 15, 12>> }

MCOffsets == 0..25
MCLengths == 1..25

\* size_t of 5 bits: offsets at the top of the range make from+size wrap.
MCWrapOffsets == {0, 1, 2, 29, 30, 31}
MCWrapLengths == {1, 2, 3, 8, 9}
=============================================================================
