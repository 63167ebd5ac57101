---------------------------- MODULE BigNumberOps ----------------------------
(***************************************************************************)
(* decoder::Big_number (src/SnapDesk/src/decoder/big_number.cpp): a       *)
(* vector of bytes, most significant first, and an is_null flag.  The     *)
(* operators below translate the methods; size_t arithmetic is kept       *)
(* modulo 2^SizeW so that the wrap of from+size is visible.  BigNumber    *)
(* drives one object through them; Pipeline uses them to evaluate the     *)
(* Cut_bit and Cut_byte nodes of a script.                                *)
(***************************************************************************)
EXTENDS Naturals, Sequences, SequencesExt

CONSTANT SizeW   \* width of size_t in the model

ASSUME SizeW \in Nat \ {0}

SizeMod == 2^SizeW
Add(a, b) == (a + b) % SizeMod
Sub(a, b) == (a - b) % SizeMod

\* Big_number::null() and operator=(vector).
Null == [is_null |-> TRUE, number |-> <<>>]
Make(seq) == [is_null |-> FALSE, number |-> seq]

\* The outcome of a call: it returns, throws (object untouched) or has UB.
Ret(b) == [status |-> "ok", bn |-> b]
Throw(b) == [status |-> "throw", bn |-> b]
UB(b) == [status |-> "ub", bn |-> b]

\* Value of a big-endian byte sequence.
Val(seq) == FoldLeft(LAMBDA acc, x : acc * 256 + x, 0, seq)

\* Big_number::cut_byte: erase the bytes before end-(from+size), then keep
\* the first size bytes.  The range check uses the wrapped from+size.
cut_byte(b, from, size) ==
  LET n  == Len(b.number)
      fs == Add(from, size)
  IN CASE b.is_null -> Throw(b)
       [] fs > n    -> Throw(b)
       [] size = 0  -> Ret([b EXCEPT !.is_null = TRUE])
       [] size > fs -> UB(b)    \* erase(begin()+size, end()) past end()
       [] OTHER     -> Ret(Make(SubSeq(b.number, n - fs + 1, n - fs + size)))

\* Mutant: the carried bit is set with 1 << 8 instead of 1 << 7.
ShiftRight1CarryTooHigh(seq) ==
  [j \in DOMAIN seq |->
     seq[j] \div 2 + (IF j > 1 /\ seq[j - 1] % 2 = 1 THEN 256 ELSE 0)]

\* One pass of the carry loop: every byte shifted right, the low bit of
\* the previous byte carried into the high bit.
ShiftRight1(seq) ==
  [j \in DOMAIN seq |->
     seq[j] \div 2 + (IF j > 1 /\ seq[j - 1] % 2 = 1 THEN 128 ELSE 0)]

RECURSIVE ShiftRight(_, _)
ShiftRight(seq, k) == IF k = 0 THEN seq ELSE ShiftRight(ShiftRight1(seq), k - 1)

\* Mutant: the emptied first byte is dropped only when before + after > 8.
cut_bitDropOffByOne(b, from, size) ==
  LET fs        == Add(from, size)
      byte_from == from \div 8
      byte_size == ((fs \div 8) - byte_from + (IF fs % 8 > 0 THEN 1 ELSE 0)) % SizeMod
      c         == cut_byte(b, byte_from, byte_size)
      m         == Len(c.bn.number)
      after     == from % 8
      before    == Sub(Sub(m * 8, size), after)
      masked    == [c.bn.number EXCEPT ![1] = @ % 2^(8 - before)]
      shifted   == ShiftRight(masked, after)
  IN CASE b.is_null                    -> Throw(b)
       [] fs > Len(b.number) * 8       -> Throw(b)
       [] c.status /= "ok"             -> c
       [] c.bn.is_null                 -> c
       [] before > 8                   -> UB(c.bn)
       [] OTHER -> Ret(Make(IF Add(before, after) > 8 THEN Tail(shifted) ELSE shifted))

\* Big_number::cut_bit: byte-cut to the covering range, clear the leading
\* bits, shift right by from%8, drop the first byte if it is emptied.
cut_bit(b, from, size) ==
  LET fs        == Add(from, size)
      byte_from == from \div 8
      byte_size == ((fs \div 8) - byte_from + (IF fs % 8 > 0 THEN 1 ELSE 0)) % SizeMod
      c         == cut_byte(b, byte_from, byte_size)
      m         == Len(c.bn.number)
      after     == from % 8
      before    == Sub(Sub(m * 8, size), after)
      masked    == [c.bn.number EXCEPT ![1] = @ % 2^(8 - before)]
      shifted   == ShiftRight(masked, after)
  IN CASE b.is_null                    -> Throw(b)
       [] fs > Len(b.number) * 8       -> Throw(b)
       [] c.status /= "ok"             -> c
       [] c.bn.is_null                 -> c
       [] before > 8                   -> UB(c.bn)   \* 1 << (7-i) with 7-i wrapped
       [] OTHER -> Ret(Make(IF Add(before, after) >= 8 THEN Tail(shifted) ELSE shifted))

\* Big_number::from_hex_string: "" is Null, each pair of digits one byte;
\* an odd trailing digit is read as "%c%c" with the terminator, i.e. alone.
from_hex_string(h) ==
  IF Len(h) = 0 THEN Null
  ELSE Make([i \in 1..((Len(h) + 1) \div 2) |->
              IF 2 * i <= Len(h) THEN 16 * h[2 * i - 1] + h[2 * i] ELSE h[2 * i - 1]])

\* Big_number::hex_string (digits as values 0..15); Null throws.
hex_string(b) == FlattenSeq([i \in DOMAIN b.number |-> <<b.number[i] \div 16, b.number[i] % 16>>])

\* Big_number::copy.
copy(b) == IF b.is_null THEN Null ELSE Make(b.number)
=============================================================================
