--------------------------- MODULE MCEvalService ---------------------------
(* Flakes that fit, that fit when the cache is warm, that never do, that hang *)
(* and that are refused.                                                      *)
EXTENDS EvalService

Takes(least, most) == [least |-> least, most |-> most]
Flake(nix, closure, output) ==
  [admission |-> "admitted", nix |-> nix, output |-> output, closure |-> closure]

MCProfiles ==
  {Flake(Takes(1, 1), Takes(0, 1), "path"), Flake(Takes(1, 5), Takes(2, 3), "path"),
   Flake(Takes(3, 3), Takes(2, 2), "path"), Flake(Takes(1, 1), Takes(0, 0), "error"),
   Flake(Takes(1, 1), Takes(0, 0), "noPath"), Flake(Takes(7, 7), Takes(0, 0), "path"),
   [Flake(Takes(1, 1), Takes(0, 0), "path") EXCEPT !.admission = "FlakeNotAllowed"]}
=============================================================================
