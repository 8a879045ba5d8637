--------------------------- MODULE MCNodeService ---------------------------
(* Two volumes over two store paths: one with both attributes, one with     *)
(* those of a pod of the operator's Deployment.                             *)
EXTENDS NodeService, TLC

CONSTANTS c1, c2, vol1, vol2, hello, glibc

MCContext == (vol1 :> [storePath |-> hello, closurePaths |-> {hello, glibc}])
          @@ (vol2 :> VolumeAttributes([storePath |-> hello, closurePaths |-> {hello}]))
=============================================================================
