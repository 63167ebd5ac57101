------------------------------ MODULE Pipeline ------------------------------
(***************************************************************************)
(* The driver (src/SnapDesk/src/main.cpp run and main) with the fingerprint *)
(* store it writes through database::Database and database::Csv           *)
(* (src/SnapDesk/src/database/database.cpp, csv.cpp).                     *)
(*                                                                         *)
(* run() builds the Frame and the executable tree, then loops: sleep,     *)
(* read and decode a capture, evaluate the tree, look the SSID (element   *)
(* "0") up, open the SSID's table when the SSID changed, and add or       *)
(* refresh the fingerprint's row.  Any exception deletes every object and *)
(* is rethrown to main(), which sleeps and calls run() again.  The tree   *)
(* is the script code.txt compiles to, fixed for the life of the process; *)
(* its output is the fingerprint.  A table is a file of a header line and *)
(* rows [output, creation_date, last_date] (key column 0 = output),       *)
(* created when an SSID is first recorded; files survive restarts.       *)
(* Dates are the value of a clock advanced by every sleep.                *)
(***************************************************************************)
EXTENDS FrameOps, BigNumberOps, SequencesExt

CONSTANTS
  SSIDs,            \* char strings of the SSIDs the captures carry
  Scripts,          \* what compiling code.txt may give: [err, tree]
  MaxTime           \* bound on the clock

VARIABLES
  code,          \* the compile result of code.txt (the file does not change)
  pc,            \* "start" (run() entered), "loop", "evaluate", "persist",
                 \* "catch", "aborted"
  frame, fault,  \* the Frame object and the first memory fault (as in Frame)
  current_ssid,  \* run()'s current_ssid; <<>> is ""
  db,            \* the SSID whose Database is open, or NoDB (nullptr)
  store,         \* SSID -> its table files [csv, metadata]
  output,        \* run()'s output: the tree's result for the current frame
  now,           \* the date get_current_date returns
  err,           \* where the last exception came from
  sightings      \* history: <<ssid, output, date>> of every processed frame

vars == <<code, pc, frame, fault, current_ssid, db, store, output, now, err, sightings>>

NoDB == "nullptr"

SSIDField == HexField(0)

\* Big_number::char_string: sprintf("%c") of a 0 byte appends "", so zero
\* bytes vanish from the string.
CharString(b) == SelectSeq(b, LAMBDA x : x /= 0)

\* Mutant: the bytes are taken as they are (char_string for hex_string).
HexStringRaw(b) == b

\* Big_number::hex_string: two digits per byte, most significant first.
HexString(b) == FlattenSeq([i \in DOMAIN b |-> <<b[i] \div 16, b[i] % 16>>])

(***************************************************************************)
(* executable_tree (src/SnapDesk/src/compiler/node.cpp, function_node.cpp). *)
(* A node is [kind, arg, args] as Compiler builds it: "value" (arg is the *)
(* literal), "getter" (arg is the field name) or a function name with its *)
(* argument nodes; an empty Root holds NoNode.  A string is a sequence of *)
(* characters, the hex digits '0'..'9', 'a'..'f' as the values 0..15.    *)
(* An evaluation gives [status, out]: "ok", "throw" or "ub".              *)
(***************************************************************************)
NoNode == [kind |-> "none", arg |-> <<>>, args |-> <<>>]

Ok(s) == [status |-> "ok", out |-> s]
NoOutput == [status |-> "none", out |-> <<>>]   \* the local is out of scope
Fails(st) == [status |-> st, out |-> <<>>]

\* Getter::get_value: Null is "", otherwise the hex string of the value.
Getter(field, f) ==
  LET v == get_value(f, field)
  IN CASE v.status /= "ok" -> Fails("throw")
       [] v.value.null     -> Ok(<<>>)
       [] OTHER            -> Ok(HexString(v.value.bytes))

\* SHA-256 of the characters, hex-encoded: a fixed function of the input
\* (here its length and its low byte, four hex digits), distinct for
\* distinct strings of up to two characters.
Digest(data) ==
  HexString(<<Len(data) % 256, FoldLeft(LAMBDA a, x : (a * 16 + x) % 256, 0, data)>>)

\* std::stoul(s) in base 10: the value of the leading decimal digits; ""
\* or a leading non-digit throws invalid_argument, a value past the width
\* of unsigned long (size_t) throws out_of_range.
stoul(s) ==
  LET stop == {i \in DOMAIN s : s[i] > 9}
      p    == IF stop = {} THEN s ELSE SubSeq(s, 1, Min(stop) - 1)
      v    == FoldLeft(LAMBDA a, x : a * 10 + x, 0, p)
  IN IF p = <<>> \/ v >= SizeMod THEN [status |-> "throw", n |-> 0]
     ELSE [status |-> "ok", n |-> v]

\* Cut_bit/Cut_byte's switch(i) after evaluating argument i: 0 is read by
\* from_hex_string, 1 and 2 by stoul, any further one throws.
CutConverts(i, s) == i <= 3 /\ (i = 1 \/ stoul(s).status = "ok")

RECURSIVE Eval(_, _), ArgLoop(_, _, _, _)

\* Function's "for(Node* arg : args)": argument i is evaluated, then (for
\* a cut) converted; the first throw (or UB) ends the loop.
ArgLoop(args, i, f, isCut) ==
  IF i > Len(args) THEN [status |-> "ok", outs |-> <<>>]
  ELSE LET e    == Eval(args[i], f)
           rest == ArgLoop(args, i + 1, f, isCut)
       IN CASE e.status /= "ok"      -> [status |-> e.status, outs |-> <<>>]
            [] isCut /\ ~CutConverts(i, e.out) -> [status |-> "throw", outs |-> <<>>]
            [] OTHER -> [status |-> rest.status, outs |-> <<e.out>> \o rest.outs]

\* Sha256::get_value: the digest of the concatenated argument values.
Sha256(args, f) ==
  LET a == ArgLoop(args, 1, f, FALSE)
  IN IF a.status /= "ok" THEN Fails(a.status) ELSE Ok(Digest(FlattenSeq(a.outs)))

\* Cut_bit/Cut_byte::get_value, kind naming the Big_number method: fewer than
\* three arguments throw; a Null value gives ""; otherwise the cut, and
\* hex_string of its result (which throws when the cut made it Null).
Cut(kind, args, f) ==
  LET a == ArgLoop(args, 1, f, TRUE)
      bn == from_hex_string(a.outs[1])
      r == IF kind = "bit" THEN cut_bit(bn, stoul(a.outs[2]).n, stoul(a.outs[3]).n)
                           ELSE cut_byte(bn, stoul(a.outs[2]).n, stoul(a.outs[3]).n)
  IN CASE a.status /= "ok"                    -> Fails(a.status)
       [] Len(args) < 3                       -> Fails("throw")
       [] bn.is_null                          -> Ok(<<>>)
       [] r.status /= "ok"                    -> Fails(r.status)
       [] r.bn.is_null                        -> Fails("throw")
       [] OTHER                               -> Ok(hex_string(r.bn))

Cut_bit(args, f) == Cut("bit", args, f)
Cut_byte(args, f) == Cut("byte", args, f)

\* Node::get_value's check, then the node's own get_value.
Eval(n, f) ==
  CASE ~f.is_decoded         -> Fails("throw")
    [] n.kind = "value"      -> Ok(n.arg)
    [] n.kind = "getter"     -> Getter(n.arg, f)
    [] n.kind = "Sha256"     -> Sha256(n.args, f)
    [] n.kind = "Cut_bit"    -> Cut_bit(n.args, f)
    [] n.kind = "Cut_byte"   -> Cut_byte(n.args, f)

\* Root::get_value: no child throws "No tree"; an exception of the tree is
\* rethrown as runtime_error.
Root_get_value(tree, f) ==
  CASE ~f.is_decoded        -> Fails("throw")
    [] tree.kind = "none"   -> Fails("throw")
    [] OTHER                -> Eval(tree, f)

(***************************************************************************)
(* The table files (os_communicator::Communicator over the .csv and the   *)
(* .metadata file of an SSID).  A file is a sequence of lines, or NoFile  *)
(* before it is created.  Line 0 of the .csv is the header, the column    *)
(* names, and every later line a row [output, created, last] (column 0 =  *)
(* output = key, 1 = creation_date, 2 = last_date).  The .metadata holds  *)
(* the key column (line 0) and the number of columns (line 1), numbers    *)
(* written by to_string and read back by _string_to_size_t.  Line and row *)
(* numbers are 0-based as in the code; -1 is "not found".                 *)
(***************************************************************************)
NoFile == "nofile"

\* COLUMN_NAMES and KEY_COLUMN_NUMBER (core.hpp): the header line.
ColumnNames == <<"output", "creation_date", "last_date">>
KEY_COLUMN_NUMBER == 0

\* The ';' that ends every cell, outside the hex digits 0..15.
Delimiter == 16

\* Communicator::exist: the file can be opened.
exist(file) == file /= NoFile

\* Communicator::get_line: the n'th line, "" (EndOfFile) past the last.
EndOfFile == <<>>
get_line(file, n) == IF n < Len(file) THEN file[n + 1] ELSE EndOfFile

\* Communicator::add_line: the line is appended.
add_line(file, line) == Append(file, line)

\* Communicator::replace_line: an absent line throws; otherwise the file is
\* rewritten with line n replaced.
replace_line(file, n, line) ==
  IF get_line(file, n) = EndOfFile THEN [status |-> "throw", file |-> file]
  ELSE [status |-> "ok", file |-> [file EXCEPT ![n + 1] = line]]

\* Csv::_get_cell_from_row over the line "output;created;last;": the
\* col'th cell.  An empty cell starts with ';', find returns 0, the cut
\* is skipped and the rest of the line is returned (dates never empty).
Cell(row, col) ==
  IF col = 0 /\ row.output = <<>> THEN <<Delimiter, row.created, row.last>>
  ELSE <<row.output, row.created, row.last>>[col + 1]

\* The values vector main.cpp passes for a row.
Values(row) == <<row.output, row.created, row.last>>

\* Csv::create: a new .csv holding the header line, then a new .metadata
\* holding the key column and the number of columns.
Csv_create ==
  [csv      |-> add_line(<<>>, ColumnNames),
   metadata |-> add_line(add_line(<<>>, KEY_COLUMN_NUMBER), Len(ColumnNames))]

\* Mutant: the exist check is skipped and Csv::create truncates the table.
DatabaseAlwaysCreate(t) == Csv_create

\* Database::Database: the table of the SSID in the script's folder; an
\* existing .csv is kept (and opened by Csv::Csv), an absent one created.
Database(t) == IF exist(t.csv) THEN t ELSE Csv_create

\* Csv::Csv: both files must exist; the number of columns and the key
\* column are read from the metadata.
Csv(t) ==
  IF ~exist(t.csv) \/ ~exist(t.metadata) THEN [status |-> "throw"]
  ELSE [status |-> "ok", file |-> t.csv,
        key |-> get_line(t.metadata, 0), ncols |-> get_line(t.metadata, 1)]

\* Csv::get_column_number, _get_column_position_from_header: the first of
\* the ncols header cells that is the name, or -1.
get_column_number(o, name) ==
  LET header == get_line(o.file, 0)
      cs     == {c \in 0..(o.ncols - 1) : c < Len(header) /\ header[c + 1] = name}
  IN IF cs = {} THEN -1 ELSE Min(cs)

\* The rows, lines HEADER_SIZE.. up to the first "" line.
RowLines(file) == {n \in 1..(Len(file) - 1) : \A m \in 1..n : get_line(file, m) /= EndOfFile}

\* Csv::get_all_keys_with_value: the key cells of the rows whose col'th
\* cell is value; "" matches every row.  A column past ncols (-1 is the
\* largest size_t) throws.
get_all_keys_with_value(o, col, value) ==
  IF col = -1 \/ col >= o.ncols THEN [status |-> "throw", keys |-> {}]
  ELSE [status |-> "ok",
        keys |-> {Cell(get_line(o.file, n), o.key) :
                    n \in {n \in RowLines(o.file) : value = <<>> \/ Cell(get_line(o.file, n), col) = value}}]

\* Csv::_get_key_position: the position of key among get_all_keys, the
\* key cells in row order, or -1.  (get_all_keys reads column 0; every
\* call follows a lookup that has shown ncols > 0.)
get_key_position(o, key) ==
  LET ns == {n \in RowLines(o.file) : Cell(get_line(o.file, n), o.key) = key}
  IN IF ns = {} THEN -1 ELSE Min(ns) - 1

\* Csv::get_row_number.
get_row_number(o, key) == get_key_position(o, key)

\* Csv::_test_values_size: the row has one value per column.
ValuesFit(o, row) == Len(Values(row)) = o.ncols

\* Csv::push_row: a wrong size or a duplicate key throws, otherwise the
\* line is appended.
push_row(o, row) ==
  IF ~ValuesFit(o, row) \/ get_row_number(o, Values(row)[o.key + 1]) /= -1
  THEN [status |-> "throw", file |-> o.file]
  ELSE [status |-> "ok", file |-> add_line(o.file, row)]

\* Csv::get_cell: a column out of range throws, and so does
\* (int) row + HEADER_SIZE < HEADER_SIZE (row -1).
get_cell(o, r, col) ==
  IF col = -1 \/ col >= o.ncols \/ r = -1 THEN [status |-> "throw", cell |-> 0]
  ELSE [status |-> "ok", cell |-> Cell(get_line(o.file, r + 1), col)]

\* Csv::replace_row: a wrong size throws; the key must be absent or at
\* that row; line r + 1 (after the header) is replaced.
replace_row(o, r, row) ==
  LET kp == get_row_number(o, Values(row)[o.key + 1]) IN
  IF ~ValuesFit(o, row) \/ ~(kp = r \/ kp = -1) THEN [status |-> "throw", file |-> o.file]
  ELSE replace_line(o.file, r + 1, row)

(***************************************************************************)
(* database::Database: each call names the column and the key.            *)
(***************************************************************************)
get_key_of_entries(o, name, value) ==
  get_all_keys_with_value(o, get_column_number(o, name), value)

add_entry(o, row) == push_row(o, row)

Database_get_cell(o, key, name) ==
  get_cell(o, get_row_number(o, key), get_column_number(o, name))

replace_entry(o, key, row) == replace_row(o, get_row_number(o, key), row)

\* Mutant: the creation date is read before the output is looked up.
RecordCellFirst(o, fingerprint) ==
  LET ks == get_key_of_entries(o, "output", fingerprint)
      c  == Database_get_cell(o, fingerprint, "creation_date")
  IN CASE c.status = "throw" -> [status |-> "throw", file |-> o.file]
       [] ks.status = "throw" -> [status |-> "throw", file |-> o.file]
       [] ks.keys = {} -> add_entry(o, [output |-> fingerprint, created |-> now, last |-> now])
       [] OTHER -> replace_entry(o, fingerprint, [output |-> fingerprint, created |-> c.cell, last |-> now])

\* main.cpp 71-82: add the output's row, or refresh it keeping its
\* creation date.
Record(o, fingerprint) ==
  LET ks == get_key_of_entries(o, "output", fingerprint)
      c  == Database_get_cell(o, fingerprint, "creation_date")
  IN CASE ks.status = "throw" -> [status |-> "throw", file |-> o.file]
       [] ks.keys = {} -> add_entry(o, [output |-> fingerprint, created |-> now, last |-> now])
       [] c.status = "throw" -> [status |-> "throw", file |-> o.file]
       [] OTHER -> replace_entry(o, fingerprint, [output |-> fingerprint, created |-> c.cell, last |-> now])

(***************************************************************************)
(* The driver                                                              *)
(***************************************************************************)
Init ==
  /\ code \in Scripts
  /\ pc = "start"
  /\ frame = NewFrame
  /\ fault = "none"
  /\ current_ssid = <<>>
  /\ db = NoDB
  /\ store = [s \in SSIDs |-> [csv |-> NoFile, metadata |-> NoFile]]
  /\ output = NoOutput
  /\ now = 0
  /\ err = "none"
  /\ sightings = {}

Sleep == IF now < MaxTime THEN now + 1 ELSE now

\* run() 30-44: new Frame, compile the script (outside the try: a throw
\* goes straight to main(), which sleeps and calls run() again).
Start ==
  /\ pc = "start"
  /\ IF code.err = "none"
     THEN /\ pc' = "loop"
          /\ UNCHANGED <<now, err>>
     ELSE /\ pc' = "start"
          /\ now' = Sleep
          /\ err' = "compile"
  /\ frame' = NewFrame
  /\ current_ssid' = <<>>
  /\ db' = NoDB
  /\ UNCHANGED <<code, fault, store, output, sightings>>

\* run() 47-55: sleep, update_raw_data, decode (a throw goes to the catch).
Capture(cap) ==
  /\ pc = "loop"
  /\ now' = Sleep
  /\ \E o \in decode(update_raw_data(frame, cap)) :
       /\ frame' = o.frame
       /\ fault' = IF fault = "none" THEN o.fault ELSE fault
       /\ pc' = IF o.status = "ok" THEN "evaluate" ELSE "catch"
       /\ err' = IF o.status = "ok" THEN err ELSE "decode"
  /\ UNCHANGED <<code, current_ssid, db, store, output, sightings>>

\* Mutant: the open Database is kept when the SSID changes.
OpenDatabaseNoSwitch(name) ==
  IF db = NoDB THEN name ELSE db

\* The Database run() writes through after reading SSID name: a new SSID
\* deletes the open one (64-65), a null pointer opens name's (68-69).
OpenDatabase(name) ==
  IF name /= current_ssid \/ db = NoDB THEN name ELSE db

\* run() 57: evaluate the tree; a throw goes to the catch.
Evaluate ==
  /\ pc = "evaluate"
  /\ output' = Root_get_value(code.tree, frame)
  /\ pc' = CASE output'.status = "ok" -> "persist"
            [] output'.status = "ub" -> "aborted"
            [] OTHER                 -> "catch"
  /\ err' = IF output'.status = "ok" THEN err ELSE output'.status
  /\ UNCHANGED <<code, frame, fault, current_ssid, db, store, now, sightings>>

\* run() 59-82: skip a frame without SSID, record the output.
Persist ==
  /\ pc = "persist"
  /\ LET ssid   == get_value(frame, SSIDField).value
         name   == CharString(ssid.bytes)
         table  == OpenDatabase(name)
         t      == IF table = db THEN store[table] ELSE Database(store[table])
         o      == Csv(t)
         r      == IF o.status = "ok" THEN Record(o, output.out)
                   ELSE [status |-> "throw", file |-> t.csv]
     IN IF ssid.null
        THEN /\ pc' = "loop"
             /\ UNCHANGED <<current_ssid, db, store, err, sightings>>
        ELSE /\ current_ssid' = name
             /\ db' = table
             /\ IF r.status = "ok"
                THEN /\ store' = [store EXCEPT ![table] = [t EXCEPT !.csv = r.file]]
                     /\ sightings' = sightings \cup {<<name, output.out, now>>}
                     /\ pc' = "loop"
                     /\ UNCHANGED err
                ELSE /\ pc' = "catch"
                     /\ err' = "persist"
                     /\ store' = [store EXCEPT ![table] = t]
                     /\ UNCHANGED sightings
  /\ output' = NoOutput
  /\ UNCHANGED <<code, frame, fault, now>>

\* run() 85-93 and main() 104-110: delete every object and restart; a
\* double free in ~Frame aborts the process.
Catch ==
  /\ pc = "catch"
  /\ fault' = IF fault = "none" THEN destroy_fault(frame) ELSE fault
  /\ pc' = IF destroy_fault(frame) = "none" THEN "start" ELSE "aborted"
  /\ frame' = NewFrame
  /\ db' = NoDB
  /\ output' = NoOutput
  /\ now' = Sleep
  /\ UNCHANGED <<code, current_ssid, store, err, sightings>>

Next ==
  \/ Start
  \/ \E cap \in Captures : Capture(cap)
  \/ Evaluate
  \/ Persist
  \/ Catch

Spec == Init /\ [][Next]_vars

\* Evaluate and Persist are enabled exactly when pc is at them and each of
\* their steps moves pc on; their weak fairness is that of leaving the
\* point, which TLC decides without evaluating the tree or the table.
Leaves(at, to) == pc = at /\ pc' \in to

\* run() is one thread that always has a next step (sleep returns), so
\* its steps are weakly fair.  The access points in range keep beaconing
\* and the device keeps the latest beacon, so a beacon the loop could read
\* again and again is eventually read: strong fairness on each capture.
Fairness ==
  /\ WF_vars(Start)
  /\ WF_pc(Leaves("evaluate", {"persist", "catch", "aborted"}))
  /\ WF_pc(Leaves("persist", {"loop", "catch"}))
  /\ WF_vars(Catch)
  /\ \A c \in Captures : SF_vars(Capture(c))

FairSpec == Spec /\ Fairness

-----------------------------------------------------------------------------
(***************************************************************************)
(* Properties                                                             *)
(***************************************************************************)
Row == [output : Seq(0..15), created : 0..MaxTime, last : 0..MaxTime]

TypeOK ==
  /\ pc \in {"start", "loop", "evaluate", "persist", "catch", "aborted"}
  /\ fault \in Faults
  /\ db \in SSIDs \cup {NoDB}
  /\ DOMAIN store = SSIDs
  /\ \A s \in SSIDs :
       \/ store[s] = [csv |-> NoFile, metadata |-> NoFile]
       \/ /\ Head(store[s].csv) = ColumnNames /\ Tail(store[s].csv) \in Seq(Row)
          /\ store[s].metadata \in Seq(Nat)
  /\ now \in 0..MaxTime
  /\ err \in {"none", "compile", "decode", "throw", "ub", "persist"}

\* The rows of s's table.
Rows(s) == IF exist(store[s].csv) THEN Tail(store[s].csv) ELSE <<>>

SeenAt(s, o) == {t \in 0..MaxTime : <<s, o, t>> \in sightings}

\* Across SSID changes, restarts and the reopening of tables, every row
\* of an SSID's table is a fingerprint processed under that SSID, its
\* creation_date is the first time it was, and its last_date the latest
\* (the database is switched when the SSID changes, and replace_entry
\* carries the creation date over with get_cell).
RowsRecordFirstAndLastSighting ==
  \A s \in SSIDs : \A i \in DOMAIN Rows(s) :
    LET row == Rows(s)[i] IN
    /\ SeenAt(s, row.output) /= {}
    /\ row.created = Min(SeenAt(s, row.output))
    /\ row.last = Max(SeenAt(s, row.output))

\* For script s and capture c, what reading and decoding c into a new
\* Frame and evaluating s give: whether every outcome decodes, carries an
\* SSID and has a non-empty output, and the <<SSID name, output>> pairs.
Fresh ==
  [p \in Scripts \X Captures |->
     LET os    == decode(update_raw_data(NewFrame, p[2]))
         ssid  == [o \in os |-> get_value(o.frame, SSIDField).value]
         out   == [o \in os |-> Root_get_value(p[1].tree, o.frame)]
     IN [recordable |->
           /\ p[1].err = "none"
           /\ os /= {}
           /\ \A o \in os : o.status = "ok" /\ ~ssid[o].null
                           /\ out[o].status = "ok" /\ out[o].out /= <<>>,
         rows |-> {<<CharString(ssid[o].bytes), out[o].out>> :
                     o \in {o \in os : o.status = "ok" /\ ~ssid[o].null}}]]

\* c decodes, carries an SSID and the script gives it a non-empty output.
Recordable(c) == Fresh[<<code, c>>].recordable

\* The table of c's SSID has a row for c's output.
Stored(c) ==
  \E r \in Fresh[<<code, c>>].rows :
    \E i \in DOMAIN Rows(r[1]) : Rows(r[1])[i].output = r[2]

\* Spec 5 and 7, the driver as a supervisor: every beacon that keeps
\* arriving, carries an SSID and has a non-empty fingerprint eventually has
\* its row in its SSID's table, however often other beacons' evaluation and
\* recording errors restart run() and switch the open Database.  (A row,
\* once added, keeps its output: replace_entry rewrites it under the same
\* key, so "eventually all" is "each eventually".)
EveryBeaconIsEventuallyRecorded ==
  <>(\A c \in Captures : Recordable(c) => Stored(c))

(***************************************************************************)
(* What a script's value is by spec 4.3, over the numbering of BitWindow  *)
(* (bit and byte offsets counted from the least significant end, as the  *)
(* decoder reads its fields): a reference the evaluator is checked        *)
(* against.  A hex string is read as a number of Len/2 bytes; a window of *)
(* s bits is written back in BytesFor(s) bytes; a zero width is Null, "". *)
(***************************************************************************)
HexNumber(h) == FoldLeft(LAMBDA a, x : a * 16 + x, 0, h)

HexOfWidth(v, nbytes) == [i \in 1..(2 * nbytes) |-> (v \div 16^(2 * nbytes - i)) % 16]

Decimal(s) == FoldLeft(LAMBDA a, x : a * 10 + x, 0, s)

RECURSIVE ScriptValue(_, _)
ScriptValue(n, f) ==
  LET vs   == [i \in DOMAIN n.args |-> ScriptValue(n.args[i], f)]
      from == Decimal(vs[2]) * (IF n.kind = "Cut_byte" THEN 8 ELSE 1)
      size == Decimal(vs[3]) * (IF n.kind = "Cut_byte" THEN 8 ELSE 1)
      v    == get_value(f, n.arg).value
  IN CASE n.kind = "value"  -> n.arg
       [] n.kind = "getter" -> IF v.null THEN <<>> ELSE HexString(v.bytes)
       [] n.kind = "Sha256" -> Digest(FlattenSeq(vs))
       [] vs[1] = <<>> \/ size = 0 -> <<>>
       [] OTHER -> HexOfWidth((HexNumber(vs[1]) \div 2^from) % 2^size, (size + 7) \div 8)

\* Spec 4.3 and 8: whenever evaluating the script over a decoded beacon
\* returns (rather than throws), the string it returns is the script's
\* value: the getter's hex text, the digest of the arguments, or the bit
\* or byte window of the value, "" for a zero width.  This is about the
\* whole of run() line 57: Function's argument loop, stoul, from_hex_string,
\* cut_bit's mask, shift and first-byte drop, and hex_string.
OutputIsScriptValue ==
  pc = "persist" => output.out = ScriptValue(code.tree, frame)

\* Spec 5 and 7: no error is fatal to the process; the driver catches
\* it, deletes the iteration's objects and restarts (~Frame must not
\* free the body a failed decode already freed).
NoDoubleFree == fault /= "double_free"

\* Spec 7: an absent value is not an error, it is "" and processing
\* continues: recording a fingerprint never throws.
RecordingNeverThrows == err /= "persist"
=============================================================================
