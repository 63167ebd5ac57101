---------------------------- MODULE MCCharDevice ----------------------------
(* BEACON_MAX_SIZE is 3 (2346 in the driver).  The receive path delivers a *)
(* full-size beacon and a one-byte one, so a snapshot can mix them and a  *)
(* file offset can pass a new, shorter frame_size.  in_buffer reads      *)
(* through an ifstream whose buffer (8191 bytes) exceeds BEACON_MAX_SIZE: *)
(* ReadSize 4.  size_t has 4 bits, enough for every size and offset here  *)
(* and for the wrap of a subtraction or of a decrement below 0.           *)
EXTENDS CharDevice

MCBeacons == {<<1, 1, 1>>, <<2>>}
\* Two frames below BEACON_MAX_SIZE, so that a reader can be between them.
MCShortBeacons == {<<1, 1>>, <<2>>}
MCGarbage == {0}
MCOneReader == {"snapdesk"}
MCTwoReaders == {"snapdesk", "cat"}
=============================================================================
