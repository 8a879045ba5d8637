----------------------------- MODULE NarParser -----------------------------
(***************************************************************************)
(* NarReader::parse (crates/niphas-core/src/nix/nar.rs): the recursive     *)
(* descent over the strings of an archive, one string read per step.  The  *)
(* stream is whatever comes: a step reads any string, or the stream ends   *)
(* or breaks.  The call stack is explicit: one frame per open directory.   *)
(***************************************************************************)
EXTENDS Naturals, Sequences, SequencesExt

CONSTANTS
  Names,      \* strings that come where an entry name is read
  Payloads,   \* byte strings that come as file contents or link targets
  NotText,    \* one that is not UTF-8
  Rank,       \* the byte order of Names
  Forbidden,  \* names with a '/' or a NUL in them
  MaxDepth,   \* max_depth
  MaxTokens   \* bound: length of the stream

Magic == "nix-archive-1"
Empty == ""
Words == {Magic, "(", ")", "type", "regular", "symlink", "directory", "executable",
          Empty, "contents", "target", "entry", "name", "node"}

ASSUME RankAssumption   == Rank \in [Names -> Nat] /\ \A m, n \in Names : Rank[m] = Rank[n] => m = n
ASSUME ParserAssumption == Forbidden \subseteq Names /\ MaxDepth \in Nat /\ MaxTokens \in Nat

VARIABLES
  read,    \* the strings read so far
  expect,  \* what the code reads next
  stack,   \* the open directories, innermost last: entries, last_name (none or one)
  node,    \* the node parsed last
  result   \* "reading", "ok", "eof" or "err"

vars == <<read, expect, stack, node, result>>

NoNode == [type |-> "none"]
Regular(exec, contents) == [type |-> "regular", executable |-> exec, contents |-> contents]
Symlink(to)             == [type |-> "symlink", target |-> to]
Directory(entries)      == [type |-> "directory", entries |-> entries]

Init ==
  /\ read = <<>> /\ expect = "magic" /\ stack = <<>>
  /\ node = NoNode /\ result = "reading"

-----------------------------------------------------------------------------
(* read_bytes gives a string; every read is hashed, so `read` is what the    *)
(* NarHash is computed of.                                                   *)
Reads(label, s) ==
  /\ result = "reading" /\ expect = label /\ Len(read) < MaxTokens
  /\ read' = Append(read, s)

Go(label) == expect' = label /\ UNCHANGED result
Refuse    == result' = "err" /\ UNCHANGED <<expect, stack, node>>

(* End of stream, a length above 128 MiB, padding that is not zero, or bytes *)
(* that are not UTF-8 where read_str is called.                              *)
ReadFails ==
  /\ result = "reading"
  /\ result' = "eof"
  /\ UNCHANGED <<read, expect, stack, node>>

(* The calls of expect_str with one way on: the string, and what follows. *)
Keyword ==
  [magic     |-> <<Magic, "open">>,          open      |-> <<"(", "type">>,
   type      |-> <<"type", "kind">>,         blank     |-> <<Empty, "contents">>,
   contents  |-> <<"contents", "execData">>, target    |-> <<"target", "link">>,
   entryOpen |-> <<"(", "entryName">>,       entryName |-> <<"name", "name">>,
   entryNode |-> <<"node", "open">>]

ExpectStr(label, s) ==
  /\ Reads(label, s)
  /\ \/ s = Keyword[label][1] /\ Go(Keyword[label][2]) /\ UNCHANGED <<stack, node>>
     \/ s # Keyword[label][1] /\ Refuse

(* Mutant: the depth is compared before it is counted. *)
NodeType_DepthOffByOne(s) ==
  /\ Reads("kind", s)
  /\ \/ s = "regular" /\ Go("body") /\ UNCHANGED <<stack, node>>
     \/ s = "symlink" /\ Go("target") /\ UNCHANGED <<stack, node>>
     \/ /\ s = "directory" /\ Len(stack) <= MaxDepth
        /\ stack' = Append(stack, [entries |-> <<>>, last |-> {}])
        /\ Go("directory") /\ UNCHANGED node
     \/ s = "directory" /\ Len(stack) > MaxDepth /\ Refuse
     \/ s \notin {"regular", "symlink", "directory"} /\ Refuse

(* The `match type_str` of parse_node and parse_node_inner. *)
NodeType(s) ==
  /\ Reads("kind", s)
  /\ \/ s = "regular" /\ Go("body") /\ UNCHANGED <<stack, node>>
     \/ s = "symlink" /\ Go("target") /\ UNCHANGED <<stack, node>>
     \/ /\ s = "directory" /\ Len(stack) < MaxDepth
        /\ stack' = Append(stack, [entries |-> <<>>, last |-> {}])
        /\ Go("directory") /\ UNCHANGED node
     \/ s = "directory" /\ Len(stack) >= MaxDepth /\ Refuse
     \/ s \notin {"regular", "symlink", "directory"} /\ Refuse

(* parse_regular *)
RegularBody(s) ==
  /\ Reads("body", s)
  /\ \/ s = "executable" /\ Go("blank") /\ UNCHANGED <<stack, node>>
     \/ s = "contents" /\ Go("data") /\ UNCHANGED <<stack, node>>
     \/ s \notin {"executable", "contents"} /\ Refuse

Contents(s) ==
  \E exec \in BOOLEAN :
    /\ Reads(IF exec THEN "execData" ELSE "data", s)
    /\ node' = Regular(exec, s)
    /\ Go("close") /\ UNCHANGED stack

(* parse_symlink: a target is read_str, which wants UTF-8. *)
LinkTarget(s) ==
  /\ Reads("link", s)
  /\ \/ s # NotText /\ node' = Symlink(s) /\ Go("close") /\ UNCHANGED stack
     \/ s = NotText /\ Refuse

-----------------------------------------------------------------------------
(* parse_directory *)

Top == stack[Len(stack)]

(* Mutant: the caller of a nested directory expects a ")" too. *)
DirectoryNext_InnerClose(s) ==
  /\ Reads("directory", s)
  /\ \/ s = "entry" /\ Go("entryOpen") /\ UNCHANGED <<stack, node>>
     \/ /\ s = ")"
        /\ node' = Directory(Top.entries)
        /\ stack' = Front(stack)
        /\ Go("close")
     \/ s \notin {"entry", ")"} /\ Refuse

(***************************************************************************)
(* The loop's head.  The ")" read here is the node's own; parse_node_inner *)
(* expects none after it, parse_node (the root) still does.                *)
(***************************************************************************)
DirectoryNext(s) ==
  /\ Reads("directory", s)
  /\ \/ s = "entry" /\ Go("entryOpen") /\ UNCHANGED <<stack, node>>
     \/ /\ s = ")"
        /\ node' = Directory(Top.entries)
        /\ stack' = Front(stack)
        /\ Go(IF Len(stack) = 1 THEN "close" ELSE "entryClose")
     \/ s \notin {"entry", ")"} /\ Refuse

ValidateEntryName(n) == n \notin {Empty, ".", ".."} /\ n \notin Forbidden

(* Mutant: only an equal name is refused. *)
InOrder_NoRepeat(n) == n \notin Top.last

InOrder(n) == \A prev \in Top.last : Rank[n] > Rank[prev]

EntryName(s) ==
  /\ Reads("name", s)
  /\ \/ /\ ValidateEntryName(s) /\ InOrder(s)
        /\ stack' = [stack EXCEPT ![Len(stack)].last = {s}]
        /\ Go("entryNode") /\ UNCHANGED node
     \/ ~(ValidateEntryName(s) /\ InOrder(s)) /\ Refuse

(* The ")" of a node, then that of its entry or the end of parse. *)
Close(s) ==
  /\ Reads("close", s)
  /\ \/ s = ")" /\ stack = <<>> /\ result' = "ok" /\ UNCHANGED <<expect, stack, node>>
     \/ s = ")" /\ stack # <<>> /\ Go("entryClose") /\ UNCHANGED <<stack, node>>
     \/ s # ")" /\ Refuse

CloseEntry(s) ==
  /\ Reads("entryClose", s)
  /\ \/ /\ s = ")"
        /\ stack' = [stack EXCEPT ![Len(stack)].entries =
                       Append(@, [name |-> CHOOSE n \in Top.last : TRUE, node |-> node])]
        /\ Go("directory") /\ UNCHANGED node
     \/ s # ")" /\ Refuse

-----------------------------------------------------------------------------
Next ==
  \/ \E s \in Words : \/ \E label \in DOMAIN Keyword : ExpectStr(label, s)
                      \/ NodeType(s) \/ RegularBody(s) \/ DirectoryNext(s)
                      \/ Close(s) \/ CloseEntry(s)
  \/ \E s \in Payloads : Contents(s) \/ LinkTarget(s)
  \/ \E s \in Names : EntryName(s)
  \/ ReadFails

Spec == Init /\ [][Next]_vars

-----------------------------------------------------------------------------
(* Properties *)

(***************************************************************************)
(* parse_directory: every directory being read has at most max_depth open  *)
(* around it and itself, and its entries have valid, strictly ascending    *)
(* names, so that what extract_node joins to a path stays below it and no  *)
(* two entries meet - while names of other directories come in between.    *)
(***************************************************************************)
OpenSorted ==
  /\ Len(stack) <= MaxDepth
  /\ \A d \in 1..Len(stack) :
       LET es == stack[d].entries
       IN  /\ \A i \in 1..Len(es) : ValidateEntryName(es[i].name)
           /\ \A i, j \in 1..Len(es) : i < j => Rank[es[i].name] < Rank[es[j].name]

=============================================================================
