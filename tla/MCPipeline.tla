----------------------------- MODULE MCPipeline -----------------------------
(* Beacons carrying SSID 1 or 2 (tag 0) and fingerprint 0x15 or 0x16 or none    *)
(* (tag 1), a beacon whose last element claims one byte too many, and a   *)
(* frame that is not a beacon; and scripts of every node kind.            *)
EXTENDS Pipeline

\* A beacon whose element region is r (FCS first byte 0).
MCBeacon(r) ==
  [size |-> HeaderLength + FixedLength + Len(r) + FCSLength, fc |-> "beacon",
   bytes |-> r \o <<0, 0, 0, 0>>]

Elem(tag, v) == <<tag, Len(v)>> \o v

Beacons ==
  {MCBeacon(Elem(0, s) \o fp) : s \in {<<1>>, <<2>>}, fp \in {<<>>, Elem(1, <<21>>), Elem(1, <<22>>)}}

Truncated == {MCBeacon(Elem(0, <<1>>) \o <<1, 1>>)}

NotBeacon == {[size |-> 44, fc |-> "other", bytes |-> <<0, 1, 1, 0, 0, 0, 0, 0>>]}

MCCaptures == Beacons
MCCapturesWithFaults == Beacons \cup Truncated \cup NotBeacon

MCSSIDs == {<<1>>, <<2>>}
MCNoFields == {}

\* Scripts as Compiler builds them from code.txt.
ValueNode(v)  == [kind |-> "value", arg |-> v, args |-> <<>>]
GetterNode(g) == [kind |-> "getter", arg |-> g, args |-> <<>>]
FunctionNode(fn, a) == [kind |-> fn, arg |-> <<>>, args |-> a]
Compiled(t) == [err |-> "none", tree |-> t]

\* ">1": the fingerprint element itself.
GetFingerprint == Compiled(GetterNode(HexField(1)))
\* "Sha256 {", ">1", "}": its digest ("" has one too).
HashFingerprint == Compiled(FunctionNode("Sha256", <<GetterNode(HexField(1))>>))
\* "Cut_byte {", ">1", "0", "0", "}": an empty cut of it.
EmptyCut ==
  Compiled(FunctionNode("Cut_byte", <<GetterNode(HexField(1)), ValueNode(<<0>>), ValueNode(<<0>>)>>))
\* "Cut_bit {", ">1", "4", "4", "}": bits 4..7 counted from the least
\* significant end, its high nibble.
HighNibble ==
  Compiled(FunctionNode("Cut_bit", <<GetterNode(HexField(1)), ValueNode(<<4>>), ValueNode(<<4>>)>>))
\* "Cut_bit {", ">1", "3", "0", "}": a zero-width cut off the byte boundary.
ZeroBits ==
  Compiled(FunctionNode("Cut_bit", <<GetterNode(HexField(1)), ValueNode(<<3>>), ValueNode(<<0>>)>>))
\* An empty code.txt (a Root without child) and one that does not compile.
NoTree == Compiled(NoNode)
Unknown == [err |-> "unknown_function", tree |-> NoNode]

MCScripts == {GetFingerprint, HashFingerprint, EmptyCut, HighNibble, ZeroBits, NoTree, Unknown}
MCGetterScript == {GetFingerprint}
=============================================================================
