----------------------------- MODULE CharDevice -----------------------------
(***************************************************************************)
(* The beacon-sniffer character device of the patched ath9k driver         *)
(* (src/beacon-sniffer/Ath9k/ath/ath9k/my_module.h).                       *)
(*                                                                         *)
(* The receive path calls update_beacon, which sets the global frame_size *)
(* and copies the beacon byte by byte into the global buffer.  User       *)
(* processes open the device (my_open snapshots buffer and frame_size     *)
(* into the container when open_count < 1, then increments open_count),   *)
(* read it (my_read) and release it (my_release decrements open_count).   *)
(* Nothing is locked, so every load and store of shared memory is a step  *)
(* of its own and the steps of the receive path and of the processes      *)
(* interleave freely.  A process is SnapDesk's Communicator::in_buffer:   *)
(* open, read with the ifstream's buffer until a read returns 0 or        *)
(* BEACON_MAX_SIZE bytes are in, close.                                   *)
(***************************************************************************)
EXTENDS Integers, SequencesExt

CONSTANTS
  Procs,            \* processes that open the device
  Beacons,          \* byte sequences the receive path hands to update_beacon
  BEACON_MAX_SIZE,  \* size of buffer and of loaded_frame
  Garbage,          \* bytes kmalloc'ed memory may hold before it is written
  ReadSize,         \* buffer_size of every my_read (the ifstream's buffer)
  SizeW             \* width of size_t

ASSUME \A b \in Beacons : Len(b) <= BEACON_MAX_SIZE

Idx == 0 .. BEACON_MAX_SIZE - 1

VARIABLES
  buffer, frame_size,                       \* the globals (50-51)
  loaded_frame, dev_frame_size, open_count, \* the container (35-41)
  rx, rx_beacon, rx_i,                      \* update_beacon in progress
  pc, from_size, fi, count, offset, got, eof \* per process

vars == <<buffer, frame_size, loaded_frame, dev_frame_size, open_count,
          rx, rx_beacon, rx_i, pc, from_size, fi, count, offset, got, eof>>

\* size_t arithmetic
Size(x) == x % (2 ^ SizeW)

\* the ssize_t a size_t is assigned to
Signed(x) == IF x >= 2 ^ (SizeW - 1) THEN x - 2 ^ SizeW ELSE x

\* my_init: the buffers are kmalloc'ed (not zeroed), open_count is 0;
\* frame_size is a static, 0.
Init ==
  /\ buffer \in [Idx -> Garbage]
  /\ frame_size = 0
  /\ loaded_frame \in [Idx -> Garbage]
  /\ dev_frame_size \in Idx
  /\ open_count = 0
  /\ rx = "idle" /\ rx_beacon = <<>> /\ rx_i = 0
  /\ pc = [p \in Procs |-> "closed"]
  /\ from_size = [p \in Procs |-> 0]
  /\ fi = [p \in Procs |-> 0]
  /\ count = [p \in Procs |-> 0]
  /\ offset = [p \in Procs |-> 0]
  /\ got = [p \in Procs |-> <<>>]
  /\ eof = [p \in Procs |-> FALSE]

ProcVars == <<pc, from_size, fi, count, offset, got, eof>>
RxVars == <<rx, rx_beacon, rx_i>>

(***************************************************************************)
(* update_beacon (153-161): frame_size first, then one byte per step.     *)
(***************************************************************************)
UpdateBeacon(b) ==
  /\ rx = "idle"
  /\ frame_size' = Min({Len(b), BEACON_MAX_SIZE})
  /\ rx_beacon' = b
  /\ rx_i' = 0
  /\ rx' = IF Len(b) = 0 THEN "idle" ELSE "copy"
  /\ UNCHANGED <<buffer, loaded_frame, dev_frame_size, open_count, ProcVars>>

UpdateCopy ==
  /\ rx = "copy"
  /\ buffer' = [buffer EXCEPT ![rx_i] = rx_beacon[rx_i + 1]]
  /\ rx_i' = rx_i + 1
  /\ rx' = IF rx_i + 1 < Len(rx_beacon) THEN "copy" ELSE "idle"
  /\ UNCHANGED <<frame_size, rx_beacon, loaded_frame, dev_frame_size,
                 open_count, ProcVars>>

(***************************************************************************)
(* my_open (106-121) with fill_buffer (55-60)                              *)
(***************************************************************************)
\* 113: the snapshot is taken only when no file is open.
OpenCheck(p) ==
  /\ pc[p] = "closed"
  /\ pc' = [pc EXCEPT ![p] = IF open_count < 1 THEN "fill_size" ELSE "inc_read"]
  /\ offset' = [offset EXCEPT ![p] = 0]
  /\ got' = [got EXCEPT ![p] = <<>>]
  /\ eof' = [eof EXCEPT ![p] = FALSE]
  /\ UNCHANGED <<buffer, frame_size, loaded_frame, dev_frame_size,
                 open_count, RxVars, from_size, fi, count>>

\* 114: frame_size is loaded as fill_buffer's from_size.
FillSize(p) ==
  /\ pc[p] = "fill_size"
  /\ from_size' = [from_size EXCEPT ![p] = frame_size]
  /\ fi' = [fi EXCEPT ![p] = 0]
  /\ pc' = [pc EXCEPT ![p] = "fill"]
  /\ UNCHANGED <<buffer, frame_size, loaded_frame, dev_frame_size,
                 open_count, RxVars, count, offset, got, eof>>

\* 58-59: one byte of min(BEACON_MAX_SIZE, from_size) per step.
Fill(p) ==
  /\ pc[p] = "fill"
  /\ fi[p] < Min({BEACON_MAX_SIZE, from_size[p]})
  /\ loaded_frame' = [loaded_frame EXCEPT ![fi[p]] = buffer[fi[p]]]
  /\ fi' = [fi EXCEPT ![p] = fi[p] + 1]
  /\ UNCHANGED <<buffer, frame_size, dev_frame_size, open_count, RxVars,
                 pc, from_size, count, offset, got, eof>>

\* 115: after the loop, frame_size is loaded a second time.
SetSize(p) ==
  /\ pc[p] = "fill"
  /\ fi[p] = Min({BEACON_MAX_SIZE, from_size[p]})
  /\ dev_frame_size' = frame_size
  /\ pc' = [pc EXCEPT ![p] = "inc_read"]
  /\ UNCHANGED <<buffer, frame_size, loaded_frame, open_count, RxVars,
                 from_size, fi, count, offset, got, eof>>

\* 118: open_count++ is a load and a store.
IncRead(p) ==
  /\ pc[p] = "inc_read"
  /\ count' = [count EXCEPT ![p] = open_count]
  /\ pc' = [pc EXCEPT ![p] = "inc_write"]
  /\ UNCHANGED <<buffer, frame_size, loaded_frame, dev_frame_size,
                 open_count, RxVars, from_size, fi, offset, got, eof>>

IncWrite(p) ==
  /\ pc[p] = "inc_write"
  /\ open_count' = Size(count[p] + 1)
  /\ pc' = [pc EXCEPT ![p] = "open"]
  /\ UNCHANGED <<buffer, frame_size, loaded_frame, dev_frame_size, RxVars,
                 from_size, fi, count, offset, got, eof>>

(***************************************************************************)
(* my_read (130-149), as in_buffer (os_communicator.cpp 38-48) calls it    *)
(***************************************************************************)
\* Mutant: the offset is not subtracted.
ReadLenIgnoresOffset(p) == Signed(Min({Size(dev_frame_size), ReadSize}))

\* 136: min(frame_size - *offset, buffer_size), in size_t, into ssize_t.
ReadLen(p) == Signed(Min({Size(dev_frame_size - offset[p]), ReadSize}))

\* in_buffer keeps reading until end of file or a full buffer.
Reading(p) == pc[p] = "open" /\ ~eof[p] /\ Len(got[p]) < BEACON_MAX_SIZE

\* 142: copy_to_user copies from the start of loaded_frame; in_buffer keeps
\* at most BEACON_MAX_SIZE bytes; a 0 or -1 result is end of file.
Read(p) ==
  /\ Reading(p)
  /\ LET len == ReadLen(p)
         bytes == [k \in 1 .. Min({len, BEACON_MAX_SIZE}) |-> loaded_frame[k - 1]]
     IN /\ eof' = [eof EXCEPT ![p] = len <= 0]
        /\ offset' = [offset EXCEPT ![p] = IF len < 0 THEN @ ELSE @ + len]
        /\ got' = [got EXCEPT ![p] =
                     SubSeq(@ \o bytes, 1, Min({Len(@ \o bytes), BEACON_MAX_SIZE}))]
  /\ UNCHANGED <<buffer, frame_size, loaded_frame, dev_frame_size,
                 open_count, RxVars, pc, from_size, fi, count>>

(***************************************************************************)
(* my_release (123-128): open_count-- is a load and a store.               *)
(***************************************************************************)
DecRead(p) ==
  /\ pc[p] = "open"
  /\ ~Reading(p)
  /\ count' = [count EXCEPT ![p] = open_count]
  /\ pc' = [pc EXCEPT ![p] = "dec_write"]
  /\ UNCHANGED <<buffer, frame_size, loaded_frame, dev_frame_size,
                 open_count, RxVars, from_size, fi, offset, got, eof>>

\* Mutant: release leaves open_count as it is.
DecWriteKeepsCount(p) ==
  /\ pc[p] = "dec_write"
  /\ pc' = [pc EXCEPT ![p] = "closed"]
  /\ UNCHANGED <<buffer, frame_size, loaded_frame, dev_frame_size, RxVars,
                 open_count, from_size, fi, count, offset, got, eof>>

DecWrite(p) ==
  /\ pc[p] = "dec_write"
  /\ open_count' = Size(count[p] - 1)
  /\ pc' = [pc EXCEPT ![p] = "closed"]
  /\ UNCHANGED <<buffer, frame_size, loaded_frame, dev_frame_size, RxVars,
                 from_size, fi, count, offset, got, eof>>

Next ==
  \/ \E b \in Beacons : UpdateBeacon(b)
  \/ UpdateCopy
  \/ \E p \in Procs :
       \/ OpenCheck(p) \/ FillSize(p) \/ Fill(p) \/ SetSize(p)
       \/ IncRead(p) \/ IncWrite(p) \/ Read(p) \/ DecRead(p) \/ DecWrite(p)

Spec == Init /\ [][Next]_vars

-----------------------------------------------------------------------------
Bytes == Garbage \cup UNION {Range(b) : b \in Beacons}

TypeOK ==
  /\ buffer \in [Idx -> Bytes] /\ loaded_frame \in [Idx -> Bytes]
  /\ frame_size \in 0 .. BEACON_MAX_SIZE
  /\ dev_frame_size \in 0 .. BEACON_MAX_SIZE
  /\ open_count \in 0 .. Cardinality(Procs)
  /\ rx \in {"idle", "copy"}
  /\ pc \in [Procs -> {"closed", "fill_size", "fill", "inc_read", "inc_write",
                       "open", "dec_write"}]
  /\ \A p \in Procs : got[p] \in Seq(Bytes) /\ Len(got[p]) <= BEACON_MAX_SIZE

\* The frame the device holds for its open files: the first frame_size
\* bytes of loaded_frame.
Snapshot == [k \in 1 .. dev_frame_size |-> loaded_frame[k - 1]]

\* What update_beacon leaves in buffer[0 .. frame_size - 1] for beacon b.
Stored(b) == SubSeq(b, 1, Min({Len(b), BEACON_MAX_SIZE}))

\* While a file is open, what in_buffer has read from it is the start of
\* the device's snapshot, and when in_buffer stops reading it has the
\* whole snapshot: my_read's offset arithmetic and end of file deliver
\* the frame my_open loaded, whatever the receive path does meanwhile.
ReadReturnsSnapshot ==
  \A p \in Procs : pc[p] \in {"open", "dec_write"} =>
    /\ IsPrefix(got[p], Snapshot)
    /\ ~Reading(p) => got[p] = Snapshot

\* Spec 6 (the capture source returns one frame): a process that has the
\* device open sees a snapshot that is one beacon the receive path
\* delivered (or nothing yet), never bytes of two beacons; my_open copies
\* buffer while update_beacon may be rewriting it.
SnapshotIsOneBeacon ==
  \A p \in Procs : pc[p] = "open" =>
    Snapshot \in {Stored(b) : b \in Beacons} \cup {<<>>}

\* my_read never copies more than loaded_frame holds ("To avoid overflow"
\* says the comment at 134): a read that in_buffer may issue now has a
\* length of at most BEACON_MAX_SIZE.
NoOverRead ==
  \A p \in Procs : Reading(p) => ReadLen(p) <= BEACON_MAX_SIZE
=============================================================================
