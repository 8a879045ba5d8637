-------------------------- MODULE MCLeaderElection --------------------------
(* Two replicas.  A unit of time is 2.5 s: TTL 6, renewal every 2, a call  *)
(* takes at most 1.                                                        *)
EXTENDS LeaderElection
=============================================================================
