------------------------------ MODULE FrameOps ------------------------------
(***************************************************************************)
(* decoder::Frame, decoder::Body/Beacon_body and decoder::Ie_node         *)
(* (src/SnapDesk/src/decoder/frame.cpp, management_body.cpp, ie.cpp).     *)
(* A capture is [size, fc, bytes]: its length in bytes, whether its frame *)
(* control says management/beacon (type 0, subtype 8, read with cut_bit   *)
(* as BigNumber checks) and the bytes from body offset 12 to its end      *)
(* (information elements, then the 4-byte FCS).  Header and fixed fields  *)
(* are abstracted to the capture they were read from.  The body pointer   *)
(* is "null", "live" or "dangling" (deleted but not reset).               *)
(***************************************************************************)
EXTENDS Naturals, Sequences

CONSTANTS
  Captures,   \* frames the character device may deliver
  Fields,     \* field names a caller may look up
  NoCapture   \* model value: no capture read yet

HeaderLength == 24   \* frame_control .. sequence_control
FCSLength == 4
FixedLength == 12    \* timestamp, beacon interval, capabilities

\* Field names: a header name, a fixed-parameter name, a string of hex
\* digits with its value, any other name, and "".
HeaderField == [kind |-> "header", num |-> 0]
FixedField  == [kind |-> "fixed", num |-> 0]
HexField(n) == [kind |-> "hex", num |-> n]
OtherField  == [kind |-> "other", num |-> 0]
EmptyField  == [kind |-> "empty", num |-> 0]

NullValue == [null |-> TRUE, bytes |-> <<>>]
Value(b) == [null |-> FALSE, bytes |-> b]

\* Frame::Frame: nothing read, nothing decoded, no body.
NewFrame ==
  [has_raw_data |-> FALSE, is_decoded |-> FALSE, raw |-> NoCapture,
   header |-> NoCapture, fixed |-> NoCapture, body |-> "null", ies |-> <<>>]

\* Byte c of the body buffer (0-based, c >= FixedLength), which runs on
\* into the FCS.
BodyByte(cap, c) == cap.bytes[c - FixedLength + 1]

(***************************************************************************)
(* Beacon_body::decode's element loop from cursor, over a body buffer of  *)
(* bsize bytes: stop at a zero length or when length + cursor reaches     *)
(* bsize; add_ie throws when the element does not fit; each value is read *)
(* in buffer order (from_buffer_inv).                                     *)
(***************************************************************************)
\* Ie_node::Ie_node: an element id and its value.
Ie_node(id, value) == [id |-> id, value |-> value]

\* add_ie's "_first_ie = new_ie" and Ie_node::add: the new node is linked
\* after the last one.
add(ies, node) == Append(ies, node)

RECURSIVE IELoop(_, _, _, _)

\* Mutant: no early stop at a zero length.
IELoopNoZeroStop(cap, bsize, cursor, ies) ==
  IF cursor >= bsize THEN [status |-> "ok", ies |-> ies]
  ELSE
    LET id  == BodyByte(cap, cursor)
        len == BodyByte(cap, cursor + 1)
    IN CASE ~(len + cursor < bsize)      -> [status |-> "ok", ies |-> ies]
         [] cursor + 2 + len > bsize     -> [status |-> "throw", ies |-> ies]
         [] OTHER ->
              IELoop(cap, bsize, cursor + 2 + len,
                     add(ies, Ie_node(id, SubSeq(cap.bytes, cursor + 3 - FixedLength,
                                                 cursor + 2 + len - FixedLength))))

IELoop(cap, bsize, cursor, ies) ==
  IF cursor >= bsize THEN [status |-> "ok", ies |-> ies]
  ELSE
    LET id  == BodyByte(cap, cursor)
        len == BodyByte(cap, cursor + 1)
    IN CASE len = 0                      -> [status |-> "ok", ies |-> ies]
         [] ~(len + cursor < bsize)      -> [status |-> "ok", ies |-> ies]
         [] cursor + 2 + len > bsize     -> [status |-> "throw", ies |-> ies]
         [] OTHER ->
              IELoop(cap, bsize, cursor + 2 + len,
                     add(ies, Ie_node(id, SubSeq(cap.bytes, cursor + 3 - FixedLength,
                                                 cursor + 2 + len - FixedLength))))

(***************************************************************************)
(* Body::get_body and Beacon_body::decode for a capture whose header has  *)
(* been read: the body buffer is size-24-4 bytes, computed in size_t.     *)
(* A non-beacon throws; an empty body throws in Body::Body; the fixed     *)
(* fields throw when the body is shorter than 12 bytes.  When size < 28   *)
(* the size_t wraps and the fixed fields and elements are read from past  *)
(* the captured bytes: that outcome is "beyond".                          *)
(***************************************************************************)
get_body(cap) ==
  LET bsize == cap.size - HeaderLength - FCSLength IN
  CASE cap.fc /= "beacon"       -> [status |-> "throw", ies |-> <<>>]
    [] bsize < 0                -> [status |-> "beyond", ies |-> <<>>]
    [] bsize < 1                -> [status |-> "throw", ies |-> <<>>]
    [] bsize < FixedLength      -> [status |-> "throw", ies |-> <<>>]
    [] OTHER                    -> IELoop(cap, bsize, FixedLength, <<>>)

(***************************************************************************)
(* Frame::decode.  The result is a set of outcomes [status, frame, fault]. *)
(* Reading past the capture cannot throw: with the wrapped size add_ie's  *)
(* check always passes, so the loop ends at a zero length byte of the    *)
(* memory that follows; its elements are abstracted away.  The old body is *)
(* deleted before the new one is built and the pointer is not reset, so   *)
(* a throw from get_body leaves it dangling; deleting a dangling body is  *)
(* a double free.                                                         *)
(***************************************************************************)
Outcome(st, f, fault) == [status |-> st, frame |-> f, fault |-> fault]

decode(f) ==
  LET cap     == f.raw
      freed   == IF f.body = "null" THEN "null" ELSE "dangling"
      dfault  == IF f.body = "dangling" THEN "double_free" ELSE "none"
      headed  == [f EXCEPT !.header = cap, !.body = freed]
      b       == get_body(cap)
      decoded == [headed EXCEPT !.fixed = cap, !.body = "live", !.ies = b.ies, !.is_decoded = TRUE]
  IN CASE ~f.has_raw_data         -> {Outcome("throw", f, "none")}
       [] f.is_decoded            -> {Outcome("ok", f, "none")}
       [] cap.size < HeaderLength -> {Outcome("throw", f, "none")}
       [] b.status = "ok"         -> {Outcome("ok", decoded, dfault)}
       [] b.status = "throw"      -> {Outcome("throw", headed, dfault)}
       [] OTHER                   -> {Outcome("ok", decoded, "read_beyond_capture")}

\* Mutant: is_decoded is left as it was.
update_raw_dataKeepsDecoded(f, cap) ==
  [f EXCEPT !.raw = cap, !.has_raw_data = TRUE]

\* Frame::update_raw_data: the device read fills the buffer (never more
\* than it holds) and the frame is marked not decoded.
update_raw_data(f, cap) ==
  [f EXCEPT !.raw = cap, !.is_decoded = FALSE, !.has_raw_data = TRUE]

\* Frame::~Frame: the body is deleted if the pointer is set.
destroy_fault(f) == IF f.body = "dangling" THEN "double_free" ELSE "none"

(***************************************************************************)
(* Frame::get_value -> Beacon_body::get_value -> Ie_node::get_value.  A   *)
(* hex name is converted with stoi and narrowed to uint8_t; "" is valid   *)
(* hex to is_valid_hex but stoi("") throws; a non-hex name is Null at the *)
(* first element.  The first element with that tag, in wire order, wins. *)
(***************************************************************************)
IEValue(ies, field) ==
  LET tag     == field.num % 256
      matches == {i \in DOMAIN ies : ies[i].id = tag}
      first   == CHOOSE i \in matches : \A j \in matches : i <= j
  IN CASE field.kind = "empty" -> [status |-> "throw", value |-> NullValue]
       [] field.kind /= "hex"  -> [status |-> "ok", value |-> NullValue]
       [] matches = {}         -> [status |-> "ok", value |-> NullValue]
       [] OTHER                -> [status |-> "ok", value |-> Value(ies[first].value)]

get_value(f, field) ==
  CASE ~f.is_decoded            -> [status |-> "throw", value |-> NullValue]
    [] field.kind = "header"    -> [status |-> "ok", value |-> Value(<<f.header>>)]
    [] f.body = "null"          -> [status |-> "ok", value |-> NullValue]
    [] field.kind = "fixed"     -> [status |-> "ok", value |-> Value(<<f.fixed>>)]
    [] f.ies = <<>>             -> [status |-> "ok", value |-> NullValue]
    [] OTHER                    -> IEValue(f.ies, field)

\* The memory faults the Frame object can commit.
Faults == {"none", "double_free", "read_beyond_capture"}
=============================================================================
