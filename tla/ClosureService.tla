--------------------------- MODULE ClosureService ---------------------------
(***************************************************************************)
(* What resolve_closure promises its caller: one answer, either an error   *)
(* or exactly the closure of the root under the references that the        *)
(* binary cache serves.                                                    *)
(***************************************************************************)
CONSTANTS Paths, Root

VARIABLES refs, outcome, result

serviceVars == <<refs, outcome, result>>

ClosedUnder(g, s) == \A p \in s : g[p] \subseteq s

(* The least set that holds the root and is closed under references. *)
IsClosure(g, s) ==
  /\ Root \in s
  /\ ClosedUnder(g, s)
  /\ \A t \in SUBSET Paths : Root \in t /\ ClosedUnder(g, t) => s \subseteq t

Init ==
  /\ refs \in [Paths -> SUBSET Paths]
  /\ outcome = "running"
  /\ result = {}

Resolve ==
  /\ outcome = "running"
  /\ outcome' = "ok"
  /\ result' \in SUBSET Paths
  /\ IsClosure(refs, result')
  /\ UNCHANGED refs

Refuse ==
  /\ outcome = "running"
  /\ outcome' \in {"timeout", "failed"}
  /\ UNCHANGED <<refs, result>>

Next == Resolve \/ Refuse

Spec == Init /\ [][Next]_serviceVars
=============================================================================
