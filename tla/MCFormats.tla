----------------------------- MODULE MCFormats -----------------------------
(* Names: three valid ones, one of them a word of the format, and bad ones. *)
EXTENDS Formats, TLC

MCNames     == {")", "a", "b", "..", "x/y", ""}
MCRank      == ("" :> 0) @@ (")" :> 1) @@ (".." :> 2) @@ ("a" :> 3) @@ ("b" :> 4) @@ ("x/y" :> 5)
MCForbidden == {"x/y"}
MCPayloads  == {")", NotText}
=============================================================================
