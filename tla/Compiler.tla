------------------------------ MODULE Compiler ------------------------------
(***************************************************************************)
(* compiler::Compiler (src/SnapDesk/src/compiler/compiler.cpp).  A script *)
(* line is abstracted to its syntactic kind: blank (also past the end of  *)
(* the file, where get_line returns ""), comment, close ("}"), open of a  *)
(* known function ("Sha256 {", ...), open of an unknown one, getter       *)
(* (">name") and value (anything else).  A tree node is a record; the     *)
(* compile result is [err, tree].  The harness is the driver: the script  *)
(* file is written line by line and run() compiles it (again) at start.   *)
(***************************************************************************)
EXTENDS Naturals, Sequences

CONSTANTS
  Fields,     \* getter field names
  Literals,   \* value literals
  MaxLines    \* longest script written

Functions == {"Sha256", "Cut_bit", "Cut_byte"}

Line(k, a) == [kind |-> k, arg |-> a]
Blank   == Line("blank", "")
Comment == Line("comment", "")
Close   == Line("close", "")
BadOpen == Line("bad_open", "")
Open(f) == Line("open", f)
Get(g)  == Line("getter", g)
Lit(v)  == Line("value", v)

Lines ==
  {Blank, Comment, Close, BadOpen} \cup {Open(f) : f \in Functions}
    \cup {Get(g) : g \in Fields} \cup {Lit(v) : v \in Literals}

\* Communicator::get_line: the line, or "" past the end of the file.
GetLine(script, n) == IF n <= Len(script) THEN script[n] ELSE Blank

\* Tree nodes: Value, Getter and Function (kind = function name, args).
NoNode == [kind |-> "none", arg |-> "", args |-> <<>>]
ValueNode(v)  == [kind |-> "value", arg |-> v, args |-> <<>>]
GetterNode(g) == [kind |-> "getter", arg |-> g, args |-> <<>>]
FunctionNode(f) == [kind |-> f, arg |-> "", args |-> <<>>]

\* Function::add_node, guarded by read_line's "if(new_node)".
AddNode(fn, n) == IF n = NoNode THEN fn ELSE [fn EXCEPT !.args = Append(@, n)]

\* A read_line outcome: the node it adds to its caller and the next line,
\* or a thrown error.
Done(n, next) == [err |-> "none", node |-> n, next |-> next]
Err(e, next)  == [err |-> e, node |-> NoNode, next |-> next]

(***************************************************************************)
(* Compiler::read_line.  Loop(s, n, aux) is one iteration of its while    *)
(* loop at line n with the open function aux (NoNode when none); every    *)
(* branch is taken in the order of the code's if/else chain.  Ending the  *)
(* loop checks for an unterminated function and returns next_line + 1.    *)
(***************************************************************************)
RECURSIVE Loop(_, _, _)

ReadLine(s, n) == Loop(s, n, NoNode)

\* Mutant: the line that ended the loop is not skipped.
EndLoopNoAdvance(newNode, aux, n) ==
  IF aux /= NoNode THEN Err("unterminated_function", n) ELSE Done(newNode, n)

EndLoop(newNode, aux, n) ==
  IF aux /= NoNode THEN Err("unterminated_function", n) ELSE Done(newNode, n + 1)

Loop(s, n, aux) ==
  LET line == GetLine(s, n) IN
  CASE line.kind = "blank"   -> EndLoop(NoNode, aux, n)
    [] line.kind = "comment" -> Loop(s, n + 1, aux)
    [] line.kind = "close"   ->
         IF aux = NoNode THEN Err("unmatched_close", n) ELSE EndLoop(aux, NoNode, n)
    [] aux /= NoNode ->
         LET r == ReadLine(s, n) IN
         IF r.err /= "none" THEN r ELSE Loop(s, r.next, AddNode(aux, r.node))
    [] line.kind = "open" ->
         LET r == ReadLine(s, n + 1) IN
         IF r.err /= "none" THEN r ELSE Loop(s, r.next, AddNode(FunctionNode(line.arg), r.node))
    [] line.kind = "bad_open" -> Err("unknown_function", n)
    [] line.kind = "getter"   -> EndLoop(GetterNode(line.arg), aux, n)
    [] OTHER                  -> EndLoop(ValueNode(line.arg), aux, n)

\* Mutant: trailing code is reported but the tree is still returned.
get_executable_treeKeepsTree(s) ==
  LET r == ReadLine(s, 1) IN
  CASE r.err /= "none"                     -> [err |-> r.err, tree |-> NoNode]
    [] GetLine(s, r.next).kind /= "blank"  -> [err |-> "trailing_code", tree |-> r.node]
    [] OTHER                               -> [err |-> "none", tree |-> r.node]

\* Compiler::get_executable_tree: the Root holds what read_line added (or
\* nothing); a non-empty line after it is "Too much code".
get_executable_tree(s) ==
  LET r == ReadLine(s, 1) IN
  CASE r.err /= "none"                     -> [err |-> r.err, tree |-> NoNode]
    [] GetLine(s, r.next).kind /= "blank"  -> [err |-> "trailing_code", tree |-> NoNode]
    [] OTHER                               -> [err |-> "none", tree |-> r.node]

-----------------------------------------------------------------------------
VARIABLES
  script,   \* the lines of the script file
  compiled  \* the result of the last compilation, or Stale

vars == <<script, compiled>>

\* No compilation of the current script yet.
Stale == [err |-> "stale", tree |-> NoNode]

Init ==
  /\ script = <<>>
  /\ compiled = Stale

\* The script file gains a line.
WriteLine(l) ==
  /\ Len(script) < MaxLines
  /\ script' = Append(script, l)
  /\ compiled' = Stale

\* run() starts: the script is compiled (main() restarts run() forever,
\* so compilation is always possible again).
Compile ==
  /\ compiled' = get_executable_tree(script)
  /\ UNCHANGED script

Next ==
  \/ \E l \in Lines : WriteLine(l)
  \/ Compile

Spec == Init /\ [][Next]_vars

-----------------------------------------------------------------------------
(***************************************************************************)
(* Reference: the line grammar of spec section 4.3, as a recursive        *)
(* descent.  Comments are skipped; a blank line ends the current scope    *)
(* (the script at top level, so an open function is then unterminated);  *)
(* "}" closes the innermost open function, which takes every other line   *)
(* as one more argument (any number of them, zero included); "}" with no *)
(* open function is unmatched; any non-empty line remaining after the     *)
(* expression is trailing code.                                           *)
(***************************************************************************)
RECURSIVE SkipComments(_, _), GrammarExpr(_, _), GrammarArgs(_, _, _)

SkipComments(s, n) == IF GetLine(s, n).kind = "comment" THEN SkipComments(s, n + 1) ELSE n

GrammarExpr(s, n) ==
  LET m == SkipComments(s, n)
      line == GetLine(s, m)
  IN CASE line.kind = "blank"    -> Done(NoNode, m)
       [] line.kind = "close"    -> Err("unmatched_close", m)
       [] line.kind = "bad_open" -> Err("unknown_function", m)
       [] line.kind = "open"     -> GrammarArgs(s, m + 1, FunctionNode(line.arg))
       [] line.kind = "getter"   -> Done(GetterNode(line.arg), m + 1)
       [] OTHER                  -> Done(ValueNode(line.arg), m + 1)

GrammarArgs(s, n, fn) ==
  LET m == SkipComments(s, n)
      line == GetLine(s, m)
  IN CASE line.kind = "close" -> Done(fn, m + 1)
       [] line.kind = "blank" -> Err("unterminated_function", m)
       [] OTHER ->
            LET r == GrammarExpr(s, m) IN
            IF r.err /= "none" THEN r ELSE GrammarArgs(s, r.next, AddNode(fn, r.node))

\* Some line at or after n is not blank.
CodeFrom(s, n) == \E k \in n..Len(s) : s[k].kind /= "blank"

GrammarCompile(s) ==
  LET r == GrammarExpr(s, 1) IN
  CASE r.err /= "none"  -> [err |-> r.err, tree |-> NoNode]
    [] CodeFrom(s, r.next) -> [err |-> "trailing_code", tree |-> NoNode]
    [] OTHER               -> [err |-> "none", tree |-> r.node]

\* Some function of the script is opened and, comments aside, closed at once.
HasEmptyFunction(s) ==
  \E i \in 1..Len(s) :
    s[i].kind = "open" /\ GetLine(s, SkipComments(s, i + 1)).kind = "close"

\* Some blank line of the script is followed by a non-empty one.
HasInnerBlank(s) ==
  \E i \in 1..Len(s) : s[i].kind = "blank" /\ CodeFrom(s, i + 1)

-----------------------------------------------------------------------------
(***************************************************************************)
(* Properties                                                             *)
(***************************************************************************)
Kinds == {"none", "value", "getter"} \cup Functions

TypeOK ==
  /\ script \in Seq(Lines)
  /\ Len(script) <= MaxLines
  /\ compiled.err \in {"stale", "none", "unterminated_function", "unmatched_close",
                      "unknown_function", "trailing_code"}
  /\ compiled.tree.kind \in Kinds
  /\ compiled.err /= "none" => compiled.tree = NoNode

\* read_line's recursion (each call reading one argument, the caller
\* closing the function, comments skipped by whichever call meets them)
\* and get_executable_tree's check of the line after the expression
\* compile as spec 4.3 says -- same tree, or the same error -- every script
\* outside the two shapes where they are known to part: a function closed
\* with no argument, and a blank line with code after it (which the code
\* skips inside a function and ignores at top level after the first line).
CompilerMatchesGrammar ==
  (compiled /= Stale /\ ~HasEmptyFunction(script) /\ ~HasInnerBlank(script))
    => compiled = GrammarCompile(script)

\* Spec 4.3: functions take a variable number of children and "}" closes
\* the innermost open function, so every script, "Sha256 {" "}" included,
\* compiles as the grammar says.
EveryScriptMatchesGrammar ==
  compiled /= Stale => compiled = GrammarCompile(script)
=============================================================================
