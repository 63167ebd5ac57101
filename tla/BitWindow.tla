----------------------------- MODULE BitWindow -----------------------------
(***************************************************************************)
(* Abstract specification of what a Big_number promises to its callers    *)
(* (Frame::decode and the Cut_bit / Cut_byte nodes): a value is either    *)
(* Null or an unsigned number of `len` bytes, and a cut extracts a window *)
(* of its bits.  Bit and byte offsets are counted from the least          *)
(* significant end, which is the numbering Frame::decode relies on when   *)
(* it reads type = cut_bit(2,2) and subtype = cut_bit(4,4) of the         *)
(* little-endian frame control field.                                     *)
(***************************************************************************)
EXTENDS Naturals

CONSTANTS
  Offsets,   \* offsets a caller may pass
  Lengths,   \* lengths a caller may pass
  MaxLen     \* longest value, in bytes, a caller may load

VARIABLES
  value,   \* [null, val, len]
  last     \* the last call: [op, from, size] (a history variable)

NullValue == [null |-> TRUE, val |-> 0, len |-> 0]

Call(op, f, s) == [op |-> op, from |-> f, size |-> s]

Bits(v) == 8 * v.len

BytesFor(s) == (s + 7) \div 8

\* The s bits of v starting at bit f, bit 0 being the least significant.
Window(v, f, s) == (v.val \div 2^f) % 2^s

IsValue(v) ==
  \/ v = NullValue
  \/ /\ v.null = FALSE
     /\ v.len \in 1..MaxLen
     /\ v.val \in 0..(2^(8 * v.len) - 1)

Init == IsValue(value) /\ last = Call("none", 0, 0)

\* The result of cutting bits f..f+s-1 out of v: a cut of Null or past the
\* end fails and leaves the value as it was; a zero-width cut yields Null;
\* otherwise the window, in as many bytes as it needs.
Cut(v, f, s) ==
  CASE v.null \/ f + s > Bits(v) -> v
    [] s = 0                    -> NullValue
    [] OTHER -> [null |-> FALSE, val |-> Window(v, f, s), len |-> BytesFor(s)]

\* Each cut yields the window of its own arguments.
CutBit(f, s) ==
  /\ value' = Cut(value, f, s)
  /\ last' = Call("cut_bit", f, s)

CutByte(f, s) ==
  /\ value' = Cut(value, 8 * f, 8 * s)
  /\ last' = Call("cut_byte", f, s)

\* A fresh value replaces Null; any value may be released to Null.
Load ==
  /\ value = NullValue
  /\ IsValue(value')
  /\ last' = Call("load", 0, 0)

Release ==
  /\ value' = NullValue
  /\ last' = Call("release", 0, 0)

Next ==
  \/ \E f \in Offsets, s \in Lengths : CutBit(f, s) \/ CutByte(f, s)
  \/ Load
  \/ Release

Spec == Init /\ [][Next]_<<value, last>>
=============================================================================
