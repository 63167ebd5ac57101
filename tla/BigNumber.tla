----------------------------- MODULE BigNumber -----------------------------
(***************************************************************************)
(* decoder::Big_number (src/SnapDesk/src/decoder/big_number.cpp): a       *)
(* vector of bytes, most significant first, and an is_null flag.  The     *)
(* operators are BigNumberOps; the state machine here is one Big_number *)
(* object receiving calls from a client: it is rebuilt by                *)
(* from_hex_string (as the Cut_bit/Cut_byte nodes do) and cut.           *)
(***************************************************************************)
EXTENDS BigNumberOps

CONSTANTS
  HexStrings,  \* digit sequences (values 0..15) a caller may convert
  Offsets,     \* from arguments a caller may pass
  Lengths      \* size arguments a caller may pass

VARIABLES
  bn,     \* the object: [is_null, number]
  phase,  \* "none" (no object), "loaded" (built), "cut" (cut returned or threw)
  ub,     \* TRUE once a call has undefined behaviour
  call    \* the last call and its arguments [op, from, size] (history)

vars == <<bn, phase, ub, call>>

Call(op, f, s) == [op |-> op, from |-> f, size |-> s]

-----------------------------------------------------------------------------
(***************************************************************************)
(* The life of one object as the code uses it: Cut_bit/Cut_byte build it *)
(* with from_hex_string and cut it once; Frame::decode copies a field and *)
(* cuts the copy once.  The object is then destroyed.                     *)
(***************************************************************************)
Init ==
  /\ bn = Null
  /\ phase = "none"
  /\ ub = FALSE
  /\ call = Call("none", 0, 0)

FromHexString(h) ==
  /\ phase = "none"
  /\ bn' = from_hex_string(h)
  /\ phase' = "loaded"
  /\ call' = Call("load", 0, 0)
  /\ UNCHANGED ub

Apply(r, c) ==
  /\ phase = "loaded"
  /\ bn' = r.bn
  /\ ub' = (r.status = "ub")
  /\ phase' = "cut"
  /\ call' = c

CutByte(from, size) == Apply(cut_byte(bn, from, size), Call("cut_byte", from, size))

CutBit(from, size) == Apply(cut_bit(bn, from, size), Call("cut_bit", from, size))

\* The local goes out of scope (a step after UB is not taken).
Destroy ==
  /\ phase = "cut"
  /\ ~ub
  /\ bn' = Null
  /\ phase' = "none"
  /\ call' = Call("release", 0, 0)
  /\ UNCHANGED ub

Next ==
  \/ \E h \in HexStrings : FromHexString(h)
  \/ \E f \in Offsets, s \in Lengths : CutByte(f, s) \/ CutBit(f, s)
  \/ Destroy

Spec == Init /\ [][Next]_vars

-----------------------------------------------------------------------------
(***************************************************************************)
(* Properties                                                             *)
(***************************************************************************)
Bytes == 0..255

TypeOK ==
  /\ bn \in [is_null : BOOLEAN, number : Seq(Bytes)]
  /\ phase \in {"none", "loaded", "cut"}
  /\ ub \in BOOLEAN
  /\ call \in [op : {"none", "load", "cut_byte", "cut_bit", "release"}, from : Nat, size : Nat]

\* The longest value a caller can load, in bytes.
MaxLen == (Max({Len(h) : h \in HexStrings}) + 1) \div 2

\* What the object means to its callers.
AbstractValue ==
  IF bn.is_null THEN [null |-> TRUE, val |-> 0, len |-> 0]
  ELSE [null |-> FALSE, val |-> Val(bn.number), len |-> Len(bn.number)]

Window == INSTANCE BitWindow WITH value <- AbstractValue, last <- call

\* cut_bit and cut_byte implement bit/byte windows counted from the least
\* significant end: every call cut_bit(from, size) or cut_byte(from, size)
\* fails leaving the value unchanged exactly when the value is Null or
\* from + size passes its end, and otherwise yields the window at from of
\* width size that BitWindow gives for those same arguments (covering-range
\* cut, mask, carry shift and byte drop together).
WindowRefinement == Window!Spec

\* Spec section 7: a cut whose from+size exceeds the value fails with
\* OutOfRange; no call, whatever its size_t arguments, reaches undefined
\* behaviour in cut_byte's erase or cut_bit's mask loop.
NoUndefinedBehaviour == ~ub

\* Spec section 8: cut_byte(from, length) that returns keeps the bytes at
\* offset from, counted from the start of the stored big-endian sequence.
CutByteFromStart ==
  [][\A f \in Offsets, s \in Lengths :
       (phase = "loaded" /\ s > 0 /\ cut_byte(bn, f, s).status = "ok" /\ CutByte(f, s))
         => bn'.number = SubSeq(bn.number, f + 1, f + s)]_vars
=============================================================================
