----------------------------- MODULE NarGrammar -----------------------------
(***************************************************************************)
(* The archive format as a function from trees to strings, and what the    *)
(* parser accepts and refuses, measured by it.                             *)
(***************************************************************************)
EXTENDS NarParser

Leaves == {Regular(x, c) : x \in BOOLEAN, c \in Payloads}
            \cup {Symlink(t) : t \in Payloads \ {NotText}}

InNameOrder(es) ==
  \A i \in DOMAIN es : /\ ValidateEntryName(es[i].name)
                       /\ i > 1 => Rank[es[i - 1].name] < Rank[es[i].name]

(* Trees that may be extracted: names valid and ascending, depth bounded. *)
SafeTrees[depth \in 0..MaxDepth] ==
  Leaves \cup (IF depth = 0 THEN {}
               ELSE {n \in [type : {"directory"},
                            entries : Seq([name : Names, node : SafeTrees[depth - 1]])] :
                       InNameOrder(n.entries)})

(* The strings of a directory's entries, by those of the trees in them. *)
Entry(e, dump) ==
  <<"entry", "(", "name", e.name, "node">> \o dump[e.node] \o <<")">>

Listing(es, dump) ==
  LET first[k \in 0..Len(es)] == IF k = 0 THEN <<>> ELSE first[k - 1] \o Entry(es[k], dump)
  IN  first[Len(es)]

(* The strings of a tree. *)
LeafDump(n) ==
  CASE n.type = "symlink" -> <<"(", "type", "symlink", "target", n.target, ")">>
    [] n.type = "regular" /\ n.executable ->
         <<"(", "type", "regular", "executable", Empty, "contents", n.contents, ")">>
    [] n.type = "regular" /\ ~n.executable ->
         <<"(", "type", "regular", "contents", n.contents, ")">>

Dump[depth \in 0..MaxDepth] ==
  [n \in SafeTrees[depth] |->
     IF n.type # "directory" THEN LeafDump(n)
     ELSE <<"(", "type", "directory">> \o Listing(n.entries, Dump[depth - 1]) \o <<")">>]

(* The archive of a tree: parse's `"nix-archive-1" "(" node_body ")"`. *)
Archive(n) == <<Magic>> \o Dump[MaxDepth][n]

(***************************************************************************)
(* The stream this parser takes for a tree.  parse_directory reads the     *)
(* closing ")" of a root directory and parse_node expects it again, so     *)
(* there the stream has one string more than the archive.                  *)
(***************************************************************************)
Wire(n) == Archive(n) \o (IF n.type = "directory" THEN <<")">> ELSE <<>>)

(* A sample of the trees, with every way to end, repeat and nest. *)
Holding(nodes, n) ==
  {Directory(es) : es \in BoundedSeq([name : Names, node : nodes], n)}
Flat     == Holding(Leaves, 2)
Nested   == Holding({d \in Flat : Len(d.entries) <= 1}, 1)
Beside   == Holding({Directory(<<>>)} \cup Leaves, 2)
Trees    == {n \in Leaves \cup Nested \cup Beside : n \in SafeTrees[MaxDepth]}

Archives   == {Archive(n) : n \in Trees}
GoodStarts == UNION {Prefixes(w) : w \in Archives}

(***************************************************************************)
(* parse: a stream that is accepted is exactly the one of the tree         *)
(* returned (and of no other: nothing read was ignored, nothing was made   *)
(* up), and the tree is safe to extract.  For a file or a link the stream  *)
(* is its archive; for a directory it is not, by the last ")" of Wire.     *)
(***************************************************************************)
AcceptedIsArchive ==
  result = "ok" => node \in SafeTrees[MaxDepth] /\ read = Wire(node)

(***************************************************************************)
(* parse: no string of the archive of a safe tree is refused: what has     *)
(* been read when one is refused begins no such archive.  This says        *)
(* nothing of where an archive ends: that of a directory ends before       *)
(* parse_node has read its second ")".                                     *)
(***************************************************************************)
RefusedIsNoArchive == result = "err" => read \notin GoodStarts

=============================================================================
