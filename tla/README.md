# SnapDesk: TLA+ models

SnapDesk fingerprints Wi-Fi access points. A patched ath9k driver
(`src/beacon-sniffer/.../my_module.h`) copies each received beacon into a
character device. The user-space program (`src/SnapDesk/src`) then runs this loop:

1. reads the beacon from the device;
2. decodes it into a `Frame` with a header, a `Beacon_body` and a list of
   information elements (`Ie_node`);
3. evaluates a small script (`code.txt`, compiled once per `run()` into an
   executable tree of `Value`, `Getter`, `Sha256`, `Cut_bit` and `Cut_byte`
   nodes) against the frame;
4. stores the script's output, the fingerprint, in a CSV table per SSID,
   with its first and last sighting dates.

Every exception ends `run()`, which deletes its objects. `main()` then sleeps
and calls `run()` again.

## Inventory

| Part | Source | State | Operations | Hard behaviour |
|---|---|---|---|---|
| Big_number | decoder/big_number.cpp | byte vector, `_is_null` | from_buffer(_inv), from_hex_string, cut_byte, cut_bit, copy, hex/char string, to_size_t | size_t wrap of `from+size`, LSB-end offsets, zero-length cuts, the mask and shift loops, `sprintf` into `char[2]` |
| Frame decoder | decoder/frame.cpp, management_body.cpp, ie.cpp | raw buffer and size, `is_decoded`, `has_raw_data`, header fields, owned `body` pointer, element list | update_raw_data, decode, get_value, ~Frame | body deleted and not reset before a throwing `get_body`, no minimum length, an element loop guard one byte looser than `add_ie` |
| Compiler | compiler/compiler.cpp | the script lines | read_line (recursive), get_executable_tree | the order of the if/else chain, recursion for arguments, a `}` met by a call that has no open function, the trailing-code check |
| Executable tree | compiler/node.cpp, function_node.cpp | the node graph (read-only) | get_value per node | `stoul` wraps, a Null result after the cut, Sha256 over concatenated arguments |
| Driver | main.cpp | frame, tree, `current_ssid`, `database` | run loop, catch/cleanup, restart | compile outside the try, cleanup after a partial decode, switching the database on an SSID change |
| Store | database/database.cpp, csv.cpp | a .csv and a .metadata file per (script, SSID) | Database (open or create), Csv::create, Csv::Csv, get_key_of_entries, add_entry, get_cell, replace_entry | `""` matches every row, `-1` row positions in size_t, a table created in two files |
| OS communicator | os_communicator/os_communicator.cpp | none (files) | exist, in_buffer, get_line, add/replace_line, new_file, folders, sleep, dates | replace_line truncates the file before writing it back |
| Kernel device | beacon-sniffer my_module.h | global buffer, frame_size, per-device snapshot, open_count | open, read, release, update_beacon | no locking between the receive path and open, non-atomic counter, unbounded copy |

The user-space program is single-threaded. Its interleavings are the orders
of calls on long-lived objects (a `Frame` reused across captures, a
`Database` kept across frames, tables kept across restarts) and the error
paths between them. Only the kernel device is concurrent.

## Modules

* **BitWindow** is the abstract specification of a Big_number: a value is
  Null, or a number of `len` bytes. A cut keeps bits `[f, f+s)` counted from
  the least significant end, and a zero width gives Null.
* **BigNumberOps** holds the operators: `cut_byte`, `cut_bit`,
  `from_hex_string`, `hex_string` and `copy` return `[status, bn]`, with
  size_t arithmetic `% 2^SizeW`. BigNumber and Pipeline extend it.
* **BigNumber** drives one object through those operators.
  - The state machine is the life of one object as `Cut_bit::get_value` and
    `Cut_byte::get_value` use it: `FromHexString`, then one `CutBit` or
    `CutByte`, then `Destroy`. `ub` records undefined behaviour (an erase
    past `end()`, a negative shift).
  - `WindowRefinement` checks it against BitWindow through
    `INSTANCE BitWindow WITH value <- AbstractValue, last <- call`. Both
    modules keep the last call and its arguments in a history variable
    (`call`, `last`), so each concrete cut must be the abstract cut with the
    same `from` and `size`: the window at that offset counted from the least
    significant end, or a failure that leaves the value unchanged exactly
    when the value is Null or the window passes its end. A load maps to
    `Load` and `Destroy` to `Release`. Lengths start at 1: at 0 the code's
    `cut_bit` keeps an empty non-Null number where BitWindow gives Null.
* **Compiler** models `read_line` as the recursive operator
  `Loop(s, n, aux)`. Each branch follows the code's `if/else` chain in order.
  - Lines are abstracted to their kind: blank, comment, `}`, an open with a
    known or an unknown name, a getter, a value.
  - The state machine writes the script one line at a time and compiles it.
  - `GrammarCompile` is a reference parser written from spec section 4.3:
    a blank line ends the current scope (so it leaves a function
    unterminated), and any non-empty line left after the expression is
    trailing code. The code disagrees in two shapes of script, which
    `CompilerMatchesGrammar` leaves out and `EveryScriptMatchesGrammar`
    catches: a function closed with no argument, and a blank line with code
    after it (skipped inside a function, ignored at top level because only
    the one line after the expression is checked).
* **FrameOps** (operators) and **Frame** (a caller's state machine) model `update_raw_data`, `decode` (with `Body::get_body`,
  `Beacon_body::decode` and `add_ie`), `get_value` down to `Ie_node`, and
  `~Frame`.
  - A capture is `[size, fc, bytes]`, where `bytes` is the body from offset 12
    followed by the FCS. Header and fixed fields are abstracted to the
    capture they came from.
  - The body pointer is `"null"`, `"live"` or `"dangling"`.
  - `decode` returns a set of outcomes. A 24..27-byte capture wraps the
    body size, and the body is then read from the memory past the capture;
    `add_ie`'s check cannot fail with the wrapped size, so this decode does
    not throw, and the elements it reads are abstracted away.
  - A caller may call the methods in any order.
* **Pipeline** composes FrameOps and BigNumberOps with the tree
  evaluator, the driver and the store.
  - `code` is the compile result of `code.txt`, chosen from `Scripts` at
    the start and fixed for the process: the file does not change.
  - `Start` is `run()` 30-44: the compile succeeds, or throws and is retried.
  - `Capture` is lines 47-55. `Evaluate` is line 57 and stores the
    tree's result in run()'s local `output`. `Persist` is lines 59-82.
  - `Catch` is the cleanup at 85-93 plus `main()`'s restart.
  - The evaluator mirrors the node classes: `Eval` dispatches on the
    node kind after Node::get_value's check; `Root_get_value`, `Getter`,
    `Sha256`, `Cut_bit` and `Cut_byte`.
    - `ArgLoop` is Function's loop over its arguments, with the cut's
      `switch(i)`: argument 0 goes to `from_hex_string`, 1 and 2 go to
      `stoul`, and a fourth throws. The first throw ends the loop.
    - `stoul` reads the leading decimal digits. It throws on `""`, on a
      leading non-digit and past the width of size_t.
    - A Null value gives `""`. A cut that makes the value Null makes
      `hex_string` throw. A result of `"ub"` (undefined behaviour in a
      cut) ends the process (`"aborted"`).
  - Strings are sequences of hex-digit characters. SHA-256 is `Digest`,
    a fixed function of its input that tells apart all the strings the
    runs produce.
  - `store` holds each SSID's two files, `.csv` and `.metadata`, as
    sequences of lines. Both are `NoFile` until the SSID is first
    recorded.
    - `Database` keeps an existing `.csv` and otherwise runs
      `Csv_create`: the header line, then the key column and the column
      count in the metadata.
    - `Csv` is the constructor. It throws unless both files exist, and
      reads the key column and the column count back from the metadata.
    - Every later call works on that object `o`: `get_line`, `add_line`
      and `replace_line` are the Communicator's file operations.
  - The Csv and Database operations are translated one to one:
    `get_key_of_entries`, `add_entry`, `Database_get_cell` and
    `replace_entry` look the column up by name in the header, within the
    column count.
  - A Database constructor whose `Record` then throws still leaves the
    files it created, as the code does.
  - `Cell` is `_get_cell_from_row`: an empty cell (only the fingerprint
    can be empty) returns the rest of the line. A row stored for an empty
    fingerprint therefore has a key that no lookup finds.
  - `sightings` is a history of what was processed, with the clock value.

* **CharDevice** models the kernel device. Nothing in `my_module.h` is
  locked, so every load and store of shared memory is a step of its own:
  - `UpdateBeacon` and `UpdateCopy` are `update_beacon` (frame_size first,
    then one byte per step);
  - `OpenCheck`, `FillSize`, `Fill`, `SetSize`, `IncRead` and `IncWrite`
    are `my_open` with `fill_buffer` (frame_size is loaded twice, and
    `open_count++` is a load then a store);
  - `Read` is `my_read` called by SnapDesk's `in_buffer`, which reads
    through an ifstream buffer bigger than a frame until end of file or
    a full buffer;
  - `DecRead` and `DecWrite` are `my_release`.
  `size_t` arithmetic is `% 2^SizeW`, and `len` is read back as `ssize_t`.
  The module has three configurations:
  - `MCCharDevice.cfg`, with one reader, checks `TypeOK` and
    `ReadReturnsSnapshot`, and passes;
  - `MCCharDevice_torn.cfg` finds `SnapshotIsOneBeacon` violated. An open
    that starts before an update reads the old frame_size, then the new
    one, and keeps unwritten bytes;
  - `MCCharDevice_overread.cfg` finds `NoOverRead` violated with two
    readers. Both pass the `open_count < 1` check. The second refill
    shrinks frame_size below the first file's offset, and my_read copies
    4 bytes from a 3-byte `loaded_frame`.

  These configurations are not yet runs of the project.

## Runs

| Run | Checks | Result |
|---|---|---|
| bignum_refines_window | TypeOK, WindowRefinement | pass: every cut the code completes is the abstract step with the same arguments |
| bignum_from_start | CutByteFromStart | violation: `cut_byte` counts bytes from the end (spec 8 says from the start) |
| bignum_size_wrap | NoUndefinedBehaviour | violation: `from+size` wraps and `erase` runs past `end()` |
| compiler_grammar | TypeOK, CompilerMatchesGrammar | pass: scripts of up to 6 lines, outside the two known divergences, compile to the reference grammar's tree or error |
| compiler_empty_function | EveryScriptMatchesGrammar | violation: `Sha256 {` then `}` is rejected as an unmatched `}` |
| frame_decode | TypeOK, DecodedFrameMatchesCapture | pass: a decoded frame always shows its current capture's elements in wire order |
| frame_truncated_element | DecodeToleratesTruncatedElements | violation: an element one byte too long makes `add_ie` throw |
| frame_short_capture | NoReadBeyondCapture | violation: a 26-byte capture is decoded from bytes past its end |
| frame_empty_name | GetValueNeverThrows | violation: `get_value("")` throws |
| pipeline_store | TypeOK, RowsRecordFirstAndLastSighting, OutputIsScriptValue, EveryBeaconIsEventuallyRecorded | pass, over seven scripts: rows are filed under their SSID with their first and last sighting, across SSID changes, restarts and table creation; every value a script returns is the one spec 4.3 gives over the bit-window numbering (`ScriptValue`), a zero-width bit cut included; and every beacon with an SSID and a non-empty fingerprint is eventually recorded, whatever errors other beacons cause |
| pipeline_double_free | NoDoubleFree | violation: a good beacon, then a malformed one, leads to a double free of the body in `~Frame` |
| pipeline_empty_fingerprint | RecordingNeverThrows | violation: a beacon without the fingerprint element aborts the iteration once any row exists |

The double free is the most serious finding. In a real capture stream,
malformed or non-beacon frames follow good beacons, and each such pair
aborts the process that spec section 7 calls a crash-only supervisor.

Each property of a passing run has a mutant in `PROJECT.json`: a plausible
bug in the mapped definition that TLC catches under the run's own
configuration.

## Bounds

* **BigNumber**: eight hex strings up to 6 digits, covering empty, odd and
  even lengths. This gives values of up to 3 bytes. Offsets run over 0..25
  and lengths over 1..25, so every in-range and out-of-range cut is tried.
  The wrap run uses a 5-bit `size_t` with offsets near 2^5, so the same wrap
  as at 2^64 happens in a small state space.
* **Compiler**: every script of up to 6 lines over 10 line kinds, with one
  getter name and two literals. That is enough for nested functions with
  three arguments, comments, and blank lines at the end. Blank lines in the
  middle of a script are generated too, but those scripts fall under the
  divergence and are checked only by the violation run.
* **Frame**:
  - every element region of up to 3 bytes over 0..2, with FCS first byte 0
    or 2, because the loop can read the FCS as a length;
  - two regions with a repeated tag;
  - short captures of 10, 28 and 33 bytes, and a non-beacon;
  - size 26 for the wrap.
* **Pipeline**:
  - beacons of two SSIDs, with fingerprint 0x15, 0x16 or none;
  - a clock bounded by `MaxTime = 2` in pipeline_store (a first and a
    later sighting, and restarts between them) and 3 in the violation runs;
  - in pipeline_store, seven scripts: `>1`, `Sha256{>1}` (the empty
    fingerprint gets a digest too), `Cut_byte{>1,0,0}` (throws for every
    beacon that has the element), `Cut_bit{>1,4,4}`, `Cut_bit{>1,3,0}`
    (a zero width off the byte boundary), an empty file (Root without
    child, "No tree") and a file that does not compile;
  - in the violation runs, the script `>1`;
  - `size_t` of 4 bits;
  - for the double free, a truncated beacon and a non-beacon.

## Fairness

The liveness property of pipeline_store assumes the following fairness
(`FairSpec`):

* **Weak fairness of run()'s own steps** (`Start`, `Evaluate`, `Persist`
  and `Catch`). The program is one thread, and each of these steps is
  always possible at its point of the loop: a sleep returns, and the
  evaluation and the calls either return or throw.
  - For `Evaluate` and `Persist`, the fairness is stated on
    `Leaves(at, to)`, a step that moves `pc` on from their point. Both
    actions are enabled exactly at that point, and every step they take
    moves `pc`, so the two formulations mean the same.
  - This form lets TLC decide enabledness without evaluating the tree
    or the table.
* **Strong fairness of each capture.** Access points beacon about ten
  times a second, and the device keeps the last beacon received. A beacon
  that the loop could read again and again is therefore eventually read.
  The read is possible only at the top of the loop, so weak fairness would
  not be enough.

The property is `<>(\A c : Recordable(c) => Stored(c))`. A row, once
added, keeps its output, so this says that each recordable beacon is
eventually stored. `Fresh` tabulates what a fresh decode and evaluation of
each capture gives under each script.

Deadlock is checked in every run. Only `"aborted"` stops: a double free,
or undefined behaviour in a cut. The double free is reached only in its
violation run, which fails before it, and no run's scripts reach the
undefined behaviour.

## Not modelled, and the plan

1. **Kernel character device**: modelled in CharDevice (see above).
   Still left: runs for its three configurations, and `my_cleanup`. The
   length `update_beacon` is given comes from a caller outside this
   repository, so beacons are assumed to fit `BEACON_MAX_SIZE`.
2. **Evaluation**: modelled in Pipeline. Three disagreements with the
   spec are reached by pipeline_store's scripts, but none has a violation
   run yet:
   - a zero-length `Cut_byte` throws instead of giving `""`;
   - an empty `code.txt` throws "No tree" at every frame;
   - `Cut_byte` counts from the end (already shown on BigNumber).

   The zero-width `cut_bit(f, 0)` with `f % 8 /= 0` leaves an empty value
   that is not Null. Evaluated, it gives `""`, as the spec asks:
   pipeline_store checks this with OutputIsScriptValue and the script
   `Cut_bit{>1,3,0}`. It stays out of the refinement run (lengths 1..25).
3. **Pipeline**:
   - `Database` is opened with the code file `"snappy.txt"`, not
     `./code.txt`. The folder that should separate the tables of different
     scripts therefore does not. Edits of `code.txt` between restarts are
     not modelled yet.
   - Every Communicator call is one step of `Persist`, and opening a
     file never fails. Two process interrupts are therefore left out,
     and so is a failed open (see the hazards in PROJECT.json):
     - an interrupt between the `.csv` and the `.metadata` of
       `Csv::create` leaves a table that `Csv::Csv` rejects from then on;
     - an interrupt between `replace_line`'s truncation and its write
       empties the table.

     Each would be a violation of EveryBeaconIsEventuallyRecorded or
     RowsRecordFirstAndLastSighting.
   - Still left: SSIDs with zero bytes, and element names of 256 and
     above.
4. **Spec gap to record**: spec 4.2 says element values are read reversed,
   but `add_ie` uses `from_buffer_inv`, which keeps wire order.

Out of reach, or out of scope:
* memory leaks (compile failure, the body of a failed decode) and the
  one-byte `sprintf` overflow, which have no state a TLA+ model can
  observe;
* folders (`create_folder`, `get_file_type`), notifications and date
  formatting (a date is the clock value);
* the SHA-256 function itself (`Digest` stands for it) and the hash of
  the code file that names the table folder;
* `to_string`, `Frame::print` and `Ie_node::print` (diagnostics only). On a
  decoded frame they cannot throw, because no decoded field is Null.
