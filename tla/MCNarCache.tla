----------------------------- MODULE MCNarCache -----------------------------
(* Two requests; hello has two builds, empty an empty directory, canonical *)
(* an archive that ends where it should, script one whose root is a file,   *)
(* and some cache serves a third hello that names an entry twice.           *)
EXTENDS NarCache, TLC

CONSTANTS r1, r2, hello, canonical, script, empty, bA, bB, bT, bCanonical, bFile, bTwice

MCClosures == {<<hello, empty>>, <<empty, hello>>, <<canonical>>, <<script>>}
MCServed   == (hello :> {bA, bB, bTwice}) @@ (canonical :> {bCanonical}) @@ (script :> {bFile}) @@ (empty :> {bT})
MCSymlinks == {"link"}
MCArchive  ==
  (bA :> [root |-> "directory", surplus |-> TRUE, entries |-> <<"link", "last">>])
  @@ (bB :> [root |-> "directory", surplus |-> TRUE, entries |-> <<"last">>])
  @@ (bT :> [root |-> "directory", surplus |-> TRUE, entries |-> <<>>])
  @@ (bCanonical :> [root |-> "directory", surplus |-> FALSE, entries |-> <<"file">>])
  @@ (bTwice :> [root |-> "directory", surplus |-> TRUE, entries |-> <<"link", "link">>])
  @@ (bFile :> [root |-> "regular", surplus |-> FALSE, entries |-> <<>>])
=============================================================================
