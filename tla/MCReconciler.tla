---------------------------- MODULE MCReconciler ----------------------------
(* Small instances of Reconciler. *)
EXTENDS Reconciler, TLC

CONSTANTS p1, p2

(* Three flakes: two that build, one that never evaluates. *)
MCBuild == [a |-> p1, b |-> p2, broken |-> NoPath]
MCPaths == {p1, p2}

Small   == [flake |-> "a", replicas |-> 1, extras |-> {}]
Large   == [flake |-> "b", replicas |-> 2, extras |-> {"Service", "Ingress"}]
Broken  == [flake |-> "broken", replicas |-> 1, extras |-> {}]
OffA    == [flake |-> "a", replicas |-> 0, extras |-> {}]
OffB    == [flake |-> "b", replicas |-> 0, extras |-> {}]

SafetySpecs == {Small, Large, Broken}
LiveSpecs   == {Small, OffB}
DualSpecs   == {OffA, OffB}
OperatorSymmetry == Permutations(Operators)
=============================================================================
