------------------------------ MODULE Closure -------------------------------
(***************************************************************************)
(* resolve_closure (crates/niphas-core/src/nix/closure.rs): a search over  *)
(* the References of .narinfo files in batches of at most `concurrency`    *)
(* concurrent fetches whose answers arrive in any order, under a deadline. *)
(***************************************************************************)
EXTENDS Naturals, Sequences, FiniteSets

CONSTANTS
  Paths,           \* store paths
  Root,            \* the path to resolve
  MaxConcurrency   \* bound: largest `concurrency` tried

ASSUME PathsAssumption == IsFiniteSet(Paths) /\ Root \in Paths
ASSUME ConcurrencyAssumption == MaxConcurrency \in Nat

VARIABLES
  refs,      \* References of every path in the binary cache; never changes
  limit,     \* the concurrency argument; never changes
  queue,     \* paths to look at, duplicates included
  visited,   \* paths whose fetch was started
  inflight,  \* fetches of the current batch that have not answered
  order,     \* resolved paths in the order their answers came
  outcome    \* "running", or what resolve_closure returned

vars == <<refs, limit, queue, visited, inflight, order, outcome>>

Elems(s) == {s[i] : i \in DOMAIN s}

(* The ways to list a finite set; a .narinfo fixes one of them. *)
Listings(S) ==
  {s \in [1..Cardinality(S) -> S] : \A x \in S : \E i \in DOMAIN s : s[i] = x}

Init ==
  /\ refs \in [Paths -> SUBSET Paths]
  /\ limit \in 0..MaxConcurrency
  /\ queue = <<Root>>
  /\ visited = {} /\ inflight = {} /\ order = <<>>
  /\ outcome = "running"

(* The head of the while loop, reached when every fetch has answered. *)
AtLoopHead == outcome = "running" /\ inflight = {}

Finish ==
  /\ AtLoopHead /\ queue = <<>>
  /\ outcome' = "ok"
  /\ UNCHANGED <<refs, limit, queue, visited, inflight, order>>

(* Mutant: the clock is only looked at once something was fetched. *)
DeadlinePassed_AfterFirstBatch ==
  /\ AtLoopHead /\ queue # <<>> /\ visited # {}
  /\ outcome' = "timeout"
  /\ UNCHANGED <<refs, limit, queue, visited, inflight, order>>

DeadlinePassed ==
  /\ AtLoopHead /\ queue # <<>>
  /\ outcome' = "timeout"
  /\ UNCHANGED <<refs, limit, queue, visited, inflight, order>>

BatchSize == IF Len(queue) < limit THEN Len(queue) ELSE limit

(* Mutant: forgets to skip what was visited since it was queued. *)
TakeBatch_Refetches ==
  LET batch == Elems(SubSeq(queue, 1, BatchSize))
  IN  /\ AtLoopHead /\ queue # <<>>
      /\ queue' = SubSeq(queue, BatchSize + 1, Len(queue))
      /\ inflight' = batch
      /\ visited' = visited \cup batch
      /\ UNCHANGED <<refs, limit, order, outcome>>

(* Mutant: takes the whole queue. *)
TakeBatch_Unbounded ==
  LET batch == Elems(queue)
  IN  /\ AtLoopHead /\ queue # <<>>
      /\ queue' = <<>>
      /\ inflight' = batch \ visited
      /\ visited' = visited \cup batch
      /\ UNCHANGED <<refs, limit, order, outcome>>

(* queue.drain(..min(len, concurrency)): start what was not visited yet. *)
TakeBatch ==
  LET batch == Elems(SubSeq(queue, 1, BatchSize))
  IN  /\ AtLoopHead /\ queue # <<>>
      /\ queue' = SubSeq(queue, BatchSize + 1, Len(queue))
      /\ inflight' = batch \ visited
      /\ visited' = visited \cup batch
      /\ UNCHANGED <<refs, limit, order, outcome>>

(* Mutant: marks references visited when they are queued. *)
Answered_MarksVisited(p) ==
  /\ outcome = "running" /\ p \in inflight
  /\ \E new \in Listings(refs[p] \ visited) : queue' = queue \o new
  /\ visited' = visited \cup refs[p]
  /\ order' = Append(order, p)
  /\ inflight' = inflight \ {p}
  /\ UNCHANGED <<refs, limit, outcome>>

(* A narinfo arrives: queue its unvisited references, record the path. *)
Answered(p) ==
  /\ outcome = "running" /\ p \in inflight
  /\ \E new \in Listings(refs[p] \ visited) : queue' = queue \o new
  /\ order' = Append(order, p)
  /\ inflight' = inflight \ {p}
  /\ UNCHANGED <<refs, limit, visited, outcome>>

(* Mutant: a failed fetch is skipped instead of failing the resolution. *)
FetchFailed_Skips(p) ==
  /\ outcome = "running" /\ p \in inflight
  /\ inflight' = inflight \ {p}
  /\ UNCHANGED <<refs, limit, queue, visited, order, outcome>>

(* Any fetch error ends the resolution; the other fetches are dropped. *)
FetchFailed(p) ==
  /\ outcome = "running" /\ p \in inflight
  /\ outcome' = "failed"
  /\ UNCHANGED <<refs, limit, queue, visited, inflight, order>>

Next ==
  \/ Finish \/ DeadlinePassed \/ TakeBatch
  \/ \E p \in Paths : Answered(p) \/ FetchFailed(p)

Spec == Init /\ [][Next]_vars

(* Every fetch is bounded by the HTTP client's timeout, the loop by time. *)
FairSpec == Spec /\ WF_vars(Next)

-----------------------------------------------------------------------------
Service == INSTANCE ClosureService
             WITH result <- IF outcome = "ok" THEN Elems(order) ELSE {}

(* Every variable keeps its type. *)
TypeOK ==
  /\ refs \in [Paths -> SUBSET Paths]
  /\ limit \in Nat
  /\ queue \in Seq(Paths)
  /\ visited \subseteq Paths
  /\ inflight \subseteq Paths
  /\ order \in Seq(Paths)
  /\ outcome \in {"running", "ok", "timeout", "failed"}

(***************************************************************************)
(* An Ok result is the closure: the root is there, references lead nowhere *)
(* else, and nothing outside the root's closure was picked up - whatever   *)
(* order the answers of the batches came in.                               *)
(***************************************************************************)
ResultIsClosure == outcome = "ok" => Service!IsClosure(refs, Elems(order))

(* No path is fetched or returned twice, however often it was queued. *)
FetchedOnce ==
  /\ \A i, j \in DOMAIN order : order[i] = order[j] => i = j
  /\ inflight \cap Elems(order) = {}

(* Never more fetches in flight than the concurrency argument allows. *)
BoundedFetches == Cardinality(inflight) <= limit

(* The caller gets the answer ClosureService promises, and one answer only. *)
ImplementsService == Service!Spec

(* resolve_closure returns, even with concurrency 0 (at its deadline). *)
Terminates == <>(outcome # "running")
=============================================================================
