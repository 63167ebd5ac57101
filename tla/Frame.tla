------------------------------- MODULE Frame --------------------------------
(***************************************************************************)
(* One decoder::Frame object driven by a caller that may call its methods *)
(* in any order; the operators translating the methods are in FrameOps.   *)
(***************************************************************************)
EXTENDS FrameOps

-----------------------------------------------------------------------------
(***************************************************************************)
(* One Frame object and a caller that may call its methods in any order:  *)
(* read a capture, decode, look a field up, or destroy it and build a new *)
(* one (as run() does when it restarts).  A fault is recorded and kept.   *)
(***************************************************************************)
VARIABLES
  frame,   \* the Frame object
  fault,   \* "none", or the first memory fault
  last     \* [op, status] of the last call (history)

vars == <<frame, fault, last>>

KeepFirst(flt) == IF fault = "none" THEN flt ELSE fault

Init ==
  /\ frame = NewFrame
  /\ fault = "none"
  /\ last = [op |-> "new", status |-> "ok"]

UpdateRawData(cap) ==
  /\ frame' = update_raw_data(frame, cap)
  /\ last' = [op |-> "update_raw_data", status |-> "ok"]
  /\ UNCHANGED fault

Decode ==
  \E o \in decode(frame) :
    /\ frame' = o.frame
    /\ fault' = KeepFirst(o.fault)
    /\ last' = [op |-> "decode", status |-> o.status]

GetValue(field) ==
  /\ last' = [op |-> "get_value", status |-> get_value(frame, field).status]
  /\ UNCHANGED <<frame, fault>>

Destroy ==
  /\ frame' = NewFrame
  /\ fault' = KeepFirst(destroy_fault(frame))
  /\ last' = [op |-> "destroy", status |-> "ok"]

Next ==
  \/ \E cap \in Captures : UpdateRawData(cap)
  \/ Decode
  \/ \E field \in Fields : GetValue(field)
  \/ Destroy

Spec == Init /\ [][Next]_vars

-----------------------------------------------------------------------------
(***************************************************************************)
(* Reference: the body layout of spec section 4.2.  From offset 12, read  *)
(* (tag, length, value) triples in wire order; stop, without error, at a  *)
(* zero length or when tag_offset + 2 + length exceeds the body buffer.   *)
(***************************************************************************)
RECURSIVE WireElements(_, _, _, _)
WireElements(cap, bsize, off, ies) ==
  IF off + 2 > bsize THEN ies
  ELSE LET len == BodyByte(cap, off + 1) IN
       IF len = 0 \/ off + 2 + len > bsize THEN ies
       ELSE WireElements(cap, bsize, off + 2 + len,
              Append(ies, [id |-> BodyByte(cap, off),
                           value |-> [k \in 1..len |-> BodyByte(cap, off + 1 + k)]]))

SpecElements(cap) ==
  LET bsize == cap.size - HeaderLength - FCSLength IN
  IF cap.fc = "beacon" /\ bsize >= FixedLength
  THEN WireElements(cap, bsize, FixedLength, <<>>) ELSE <<>>

\* A well-formed beacon: complete header and fixed fields.
WellFormedBeacon(cap) ==
  cap /= NoCapture /\ cap.fc = "beacon" /\ cap.size >= HeaderLength + FixedLength + FCSLength

-----------------------------------------------------------------------------
(***************************************************************************)
(* Properties                                                             *)
(***************************************************************************)
TypeOK ==
  /\ frame.has_raw_data \in BOOLEAN
  /\ frame.is_decoded \in BOOLEAN
  /\ frame.raw \in Captures \cup {NoCapture}
  /\ frame.body \in {"null", "live", "dangling"}
  /\ frame.ies \in Seq([id : 0..255, value : Seq(0..255) \ {<<>>}])
  /\ fault \in Faults
  /\ last.status \in {"ok", "throw"}

\* Whatever the order of calls, a frame that says it is decoded holds the
\* header, fixed fields and elements of the capture it holds now (not of
\* an earlier one: update_raw_data clears is_decoded, decode's early
\* return only skips work already done), and its element list is the
\* wire layout's, in wire order.
DecodedFrameMatchesCapture ==
  frame.is_decoded =>
    /\ frame.header = frame.raw
    /\ frame.fixed = frame.raw
    /\ frame.body = "live"
    /\ frame.ies = SpecElements(frame.raw)

\* Spec 4.2 and 8: an element whose declared length runs past the body
\* stops the element loop without an error: decoding a beacon with a
\* complete header and fixed fields does not fail.
DecodeToleratesTruncatedElements ==
  (last.op = "decode" /\ WellFormedBeacon(frame.raw)) => last.status = "ok"

\* Spec 4.2: a buffer shorter than the header plus the checksum fails to
\* decode; no field or element is ever read from past the capture.
NoReadBeyondCapture == fault /= "read_beyond_capture"

\* Spec 4.2 and 8: on a decoded frame get_value never throws; an unknown
\* name or absent tag is Null.
GetValueNeverThrows ==
  frame.is_decoded => \A field \in Fields : get_value(frame, field).status = "ok"
=============================================================================
