------------------------------- MODULE Config -------------------------------
(***************************************************************************)
(* NiphasConfig::load_or_default (crates/niphas-core/src/config.rs): the   *)
(* defaults, overlaid by a file, the standard file and the environment.    *)
(* A layer maps the keys it sets to values; a file may also be unreadable. *)
(***************************************************************************)
EXTENDS Functions

(* Three settings stand for all: a list, a number and a nested path, by the  *)
(* names serde gives them.  A name a file spells in snake case is not one.   *)
Settings == {"allowedFlakeOrigins", "healthPort", "cache.path"}

(* What NIPHAS_... with split("_") can name: one word per level. *)
EnvKeys == {"health.port", "cache.path"}

Unreadable == [unreadable |-> "bad"]
Default    == [s \in Settings |-> "default"]

(* Figment::merge: the later layer's keys replace the earlier one's. *)
Merge(acc, layer) ==
  [k \in DOMAIN acc \cup DOMAIN layer |-> IF k \in DOMAIN layer THEN layer[k] ELSE acc[k]]

(* The merges of load, lowest first. *)
Merged(path, standard, env) == Merge(Merge(Merge(Default, path), standard), env)

(* extract: keys the struct does not have are ignored, a value of the wrong  *)
(* shape under one it has, or a file that is not YAML, is an error.          *)
LoadFails(path, standard, env) ==
  \/ Unreadable \in {path, standard}
  \/ \E s \in Settings : Merged(path, standard, env)[s] = "bad"

(* Mutant: only the bad setting falls back. *)
LoadOrDefault_FieldWise(path, standard, env) ==
  [s \in Settings |-> LET v == Merged(path, standard, env)[s]
                      IN  IF v = "bad" THEN "default" ELSE v]

LoadOrDefault(path, standard, env) ==
  IF LoadFails(path, standard, env) THEN Default
  ELSE Restrict(Merged(path, standard, env), Settings)

=============================================================================
