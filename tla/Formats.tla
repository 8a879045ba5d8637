------------------------------ MODULE Formats ------------------------------
(***************************************************************************)
(* The readers of niphas-core and niphas-eval, each given every input of   *)
(* its sample, one symbol longer at every step.  A behaviour is about one  *)
(* reader; the NAR parser keeps its own state machine.                     *)
(***************************************************************************)
EXTENDS NarGrammar, Readers

BaseLines(dropped) ==
  SetToSeq({Line(k, "v1") : k \in Required \ dropped})

Starts ==
  [bytes |-> {<<>>}, text |-> {<<>>}, basename |-> {<<>>}, glob |-> {<<>>},
   flakeRef |-> {<<>>}, attribute |-> {<<>>}, revision |-> {<<>>}, caches |-> {<<>>},
   narinfo |-> {BaseLines({})} \cup {BaseLines({k}) : k \in Required},
   config |-> {<<>>}, nar |-> {<<>>}]

Patterns == BoundedSeq({"a", "/", "*"}, 4)

(* A character of two bytes in UTF-8, its lead byte and one that follows it. *)
Accented  == 233
Bytes(c)  == IF c = Accented THEN <<195, 169>> ELSE <<c>>

(* The length an input may grow to, and the symbols that come n-th. *)
Longest ==
  [bytes |-> 5, text |-> 8, basename |-> HashLen + 3, glob |-> 4, flakeRef |-> 5,
   attribute |-> 5, revision |-> 42, caches |-> 3, narinfo |-> 9, config |-> 3, nar |-> 0]

LayerOver(keys, name) ==
  UNION {[ks -> {name, "bad"}] : ks \in SUBSET keys}
FileLayer(name) ==
  {Unreadable} \cup LayerOver({"allowedFlakeOrigins", "cache.path", "allowed_flake_origins"}, name)

Symbols(s, n) ==
  CASE s = "bytes"     -> {0, 1, 128, 165, 255}
    [] s = "text"      -> {1, 18, 31, 33}
    [] s = "basename"  -> IF n < HashLen - 3 THEN {5, 26} ELSE {26, Dash, 33, Accented}
    [] s = "glob"      -> {"a", "/"}
    [] s = "flakeRef"  -> {"a", "7", ":", "+", "/", "quote"}
    [] s = "attribute" -> {"a", "7", "_", "-", ".", "quote"}
    [] s = "revision"  -> IF n \in 3..38 THEN {"7"} ELSE {"a", "g"}
    [] s = "caches"    -> [priority : {10, 40}, answer : Answers]
    [] s = "narinfo"   -> {Blank} \cup {Line(k, v) : k \in Keys, v \in {"v2", "bad", ""}}
    [] s = "config"    -> CASE n = 1 -> FileLayer("path")
                            [] n = 2 -> FileLayer("standard")
                            [] n = 3 -> LayerOver(EnvKeys, "env")

FormatsInit ==
  /\ Init
  /\ subject \in DOMAIN Starts
  /\ input \in Starts[subject]
  /\ pattern \in (IF subject = "glob" THEN Patterns ELSE {<<>>})

OneMore ==
  /\ Len(input) < Longest[subject]
  /\ \E c \in Symbols(subject, Len(input) + 1) :
       input' = input \o (IF subject = "basename" THEN Bytes(c) ELSE <<c>>)
  /\ UNCHANGED <<vars, subject, pattern>>

FormatsNext ==
  \/ subject = "nar" /\ Next /\ UNCHANGED formatVars
  \/ OneMore

FormatsSpec == FormatsInit /\ [][FormatsNext]_<<vars, formatVars>>

=============================================================================
