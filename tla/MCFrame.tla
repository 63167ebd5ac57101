------------------------------- MODULE MCFrame ------------------------------
(* Captures: every element region of up to three bytes over 0..2 (tags and *)
(* lengths), with a first FCS byte of 0 or 2 (the loop may read it as a   *)
(* length), one non-beacon frame and beacons cut short in the header, in  *)
(* the body's size computation, in Body::Body and in the fixed fields.    *)
EXTENDS Frame

MCByte == 0..2

Regions == UNION {[1..k -> MCByte] : k \in 0..3}

Beacon(r, f1) ==
  [size |-> HeaderLength + FixedLength + Len(r) + FCSLength, fc |-> "beacon",
   bytes |-> r \o <<f1, 0, 0, 0>>]

WellFormed == {Beacon(r, f1) : r \in Regions, f1 \in {0, 2}}

NotBeacon == {[size |-> 44, fc |-> "other", bytes |-> <<0, 1, 0, 0, 0, 0, 0, 0>>]}

\* Header cut short (10), body size 0 (28), fixed fields cut short (33).
ShortBeacons == {[size |-> n, fc |-> "beacon", bytes |-> <<>>] : n \in {10, 28, 33}}

\* size - 24 - 4 wraps in size_t.
WrappingBeacons == {[size |-> 26, fc |-> "beacon", bytes |-> <<>>]}

\* Two elements with the same tag and different values.
RepeatedTags == {Beacon(<<t, 1, 0, t, 1, 2>>, 0) : t \in {1, 2}}

MCCaptures == WellFormed \cup RepeatedTags \cup NotBeacon \cup ShortBeacons
MCCapturesWithWrap == MCCaptures \cup WrappingBeacons

MCFields ==
  {HeaderField, FixedField, HexField(0), HexField(1), HexField(2), OtherField}
MCFieldsWithEmpty == MCFields \cup {EmptyField}
=============================================================================
