--------------------------- MODULE ClosureProofs ----------------------------
(***************************************************************************)
(* resolve_closure returns the closure, for every set of paths, every      *)
(* reference graph, every concurrency and every order of the answers.      *)
(***************************************************************************)
EXTENDS Closure, FiniteSetTheorems, TLAPS

-----------------------------------------------------------------------------
(* Sequences as the bags of paths they list *)

(* A sequence over S lists only members of S. *)
LEMMA ElemsType ==
  ASSUME NEW S, NEW s \in Seq(S)
  PROVE  Elems(s) \subseteq S
BY DEF Elems

(* Queueing references after the queue adds exactly those paths. *)
LEMMA ElemsConcat ==
  ASSUME NEW S, NEW s \in Seq(S), NEW t \in Seq(S)
  PROVE  Elems(s \o t) = Elems(s) \cup Elems(t)
<1> DEFINE u == s \o t
<1>1. /\ u \in Seq(S) /\ Len(u) = Len(s) + Len(t)
      /\ DOMAIN u = 1..(Len(s) + Len(t))
      /\ DOMAIN s = 1..Len(s) /\ DOMAIN t = 1..Len(t)
      /\ Len(s) \in Nat /\ Len(t) \in Nat
  OBVIOUS
<1>2. \A i \in 1..Len(s) : u[i] = s[i]
  OBVIOUS
<1>3. \A i \in 1..Len(t) : u[Len(s) + i] = t[i]
  OBVIOUS
<1>4. Elems(u) \subseteq Elems(s) \cup Elems(t)
  <2> SUFFICES ASSUME NEW i \in DOMAIN u
               PROVE  u[i] \in Elems(s) \cup Elems(t)
    BY DEF Elems
  <2>1. CASE i <= Len(s)
    BY <1>1, <1>2, <2>1 DEF Elems
  <2>2. CASE i > Len(s)
    <3>1. i - Len(s) \in 1..Len(t) /\ i = Len(s) + (i - Len(s))
      BY <1>1, <2>2
    <3> QED BY <1>1, <1>3, <3>1 DEF Elems
  <2> QED BY <1>1, <2>1, <2>2
<1>5. Elems(s) \subseteq Elems(u)
  BY <1>1, <1>2 DEF Elems
<1>6. Elems(t) \subseteq Elems(u)
  <2> SUFFICES ASSUME NEW i \in DOMAIN t PROVE t[i] \in Elems(u)
    BY DEF Elems
  <2> Len(s) + i \in DOMAIN u
    BY <1>1
  <2> QED BY <1>1, <1>3 DEF Elems
<1> QED BY <1>4, <1>5, <1>6

(* Recording an answered path adds exactly that path to the order. *)
LEMMA ElemsAppend ==
  ASSUME NEW S, NEW s \in Seq(S), NEW x \in S
  PROVE  Elems(Append(s, x)) = Elems(s) \cup {x}
<1> DEFINE u == Append(s, x)
<1>1. /\ DOMAIN u = 1..(Len(s) + 1) /\ DOMAIN s = 1..Len(s) /\ Len(s) \in Nat
      /\ u[Len(s) + 1] = x
      /\ \A i \in 1..Len(s) : u[i] = s[i]
  OBVIOUS
<1>2. \A i \in DOMAIN u : i \in DOMAIN s \/ i = Len(s) + 1
  BY <1>1
<1> QED BY <1>1, <1>2 DEF Elems

(* Draining n paths from the front splits the queue and loses none. *)
LEMMA ElemsSplit ==
  ASSUME NEW S, NEW s \in Seq(S), NEW n \in 0..Len(s)
  PROVE  /\ SubSeq(s, 1, n) \in Seq(S)
         /\ SubSeq(s, n + 1, Len(s)) \in Seq(S)
         /\ Elems(s) = Elems(SubSeq(s, 1, n)) \cup Elems(SubSeq(s, n + 1, Len(s)))
<1> DEFINE u == SubSeq(s, 1, n)
           v == SubSeq(s, n + 1, Len(s))
<1>1. Len(s) \in Nat /\ n \in Nat /\ n <= Len(s) /\ DOMAIN s = 1..Len(s)
  OBVIOUS
<1>2. /\ u \in Seq(S) /\ DOMAIN u = 1..n /\ \A i \in 1..n : u[i] = s[i]
  BY <1>1
<1>3. /\ v \in Seq(S) /\ DOMAIN v = 1..(Len(s) - n)
      /\ \A i \in 1..(Len(s) - n) : v[i] = s[n + i]
  BY <1>1
<1>4. Elems(s) \subseteq Elems(u) \cup Elems(v)
  <2> SUFFICES ASSUME NEW i \in DOMAIN s PROVE s[i] \in Elems(u) \cup Elems(v)
    BY DEF Elems
  <2>1. CASE i <= n
    BY <1>1, <1>2, <2>1 DEF Elems
  <2>2. CASE i > n
    <3>1. i - n \in 1..(Len(s) - n) /\ i = n + (i - n)
      BY <1>1, <2>2
    <3> QED BY <1>3, <3>1 DEF Elems
  <2> QED BY <1>1, <2>1, <2>2
<1>5. Elems(u) \subseteq Elems(s)
  BY <1>1, <1>2 DEF Elems
<1>6. Elems(v) \subseteq Elems(s)
  <2> SUFFICES ASSUME NEW i \in 1..(Len(s) - n) PROVE s[n + i] \in Elems(s)
    BY <1>3 DEF Elems
  <2> n + i \in DOMAIN s
    BY <1>1
  <2> QED BY DEF Elems
<1> QED BY <1>2, <1>3, <1>4, <1>5, <1>6

(* Whichever order a narinfo lists a set of references in, it lists all. *)
LEMMA ListingsList ==
  ASSUME NEW S, IsFiniteSet(S), NEW s \in Listings(S)
  PROVE  s \in Seq(S) /\ Elems(s) = S
<1>1. Cardinality(S) \in Nat
  BY FS_CardinalityType
<1>2. s \in [1..Cardinality(S) -> S] /\ \A x \in S : \E i \in DOMAIN s : s[i] = x
  BY DEF Listings
<1>3. s \in Seq(S)
  BY <1>1, <1>2
<1> QED BY <1>2, <1>3 DEF Elems
-----------------------------------------------------------------------------
(* The inductive invariant *)

(* Fetched paths are in flight or answered, and answered once. *)
VisitedSplit ==
  /\ visited = inflight \cup Elems(order)
  /\ FetchedOnce

(* Nothing an answer refers to, and not the root, is forgotten. *)
NothingLost ==
  /\ Root \in visited \cup Elems(queue)
  /\ \A p \in Elems(order) : refs[p] \subseteq visited \cup Elems(queue)

(* Nothing outside the closure is ever looked at. *)
NothingForeign ==
  \A t \in SUBSET Paths :
    Root \in t /\ Service!ClosedUnder(refs, t) => visited \cup Elems(queue) \subseteq t

OkMeansDone == outcome = "ok" => queue = <<>> /\ inflight = {}

IInv == TypeOK /\ VisitedSplit /\ NothingLost /\ NothingForeign /\ OkMeansDone

(* The invariant holds when resolve_closure starts, with the root queued. *)
LEMMA InitIInv == Init => IInv
<1> SUFFICES ASSUME Init PROVE IInv
  OBVIOUS
<1>1. queue \in Seq(Paths) /\ Elems(queue) = {Root} /\ Elems(order) = {}
  BY PathsAssumption DEF Init, Elems
<1>2. TypeOK
  BY <1>1, ConcurrencyAssumption DEF Init, TypeOK
<1> QED
  BY <1>1, <1>2 DEF Init, IInv, VisitedSplit, FetchedOnce, NothingLost,
                    NothingForeign, OkMeansDone

(* Starting the fetches of a batch preserves the invariant. *)
LEMMA TakeBatchIInv == IInv /\ TakeBatch => IInv'
<1> SUFFICES ASSUME IInv, TakeBatch PROVE IInv'
  OBVIOUS
<1> USE DEF IInv
<1> DEFINE n == BatchSize
           batch == Elems(SubSeq(queue, 1, n))
<1>1. n \in 0..Len(queue)
  BY DEF TypeOK, BatchSize
<1>2. /\ SubSeq(queue, 1, n) \in Seq(Paths)
      /\ queue' \in Seq(Paths)
      /\ Elems(queue) = batch \cup Elems(queue')
  <2>1. queue' = SubSeq(queue, n + 1, Len(queue))
    BY DEF TakeBatch
  <2> HIDE DEF n
  <2> QED BY <1>1, <2>1, ElemsSplit DEF TypeOK
<1>3. batch \subseteq Paths
  BY <1>2, ElemsType
<1>4. /\ inflight = {} /\ outcome = "running"
      /\ inflight' = batch \ visited
      /\ visited' = visited \cup batch
      /\ UNCHANGED <<refs, limit, order, outcome>>
  BY DEF TakeBatch, AtLoopHead
<1>5. visited' \cup Elems(queue') = visited \cup Elems(queue)
  BY <1>2, <1>4
<1> HIDE DEF batch
<1>6. TypeOK'
  BY <1>2, <1>3, <1>4 DEF TypeOK
<1>7. VisitedSplit'
  <2>1. Elems(order)' = Elems(order)
    BY <1>4
  <2> QED BY <1>4, <2>1 DEF VisitedSplit, FetchedOnce
<1>8. NothingLost'
  BY <1>4, <1>5 DEF NothingLost, Elems
<1>9. NothingForeign'
  BY <1>4, <1>5 DEF NothingForeign, Service!ClosedUnder
<1> QED BY <1>4, <1>6, <1>7, <1>8, <1>9 DEF OkMeansDone

(* The answer of one fetch preserves the invariant. *)
LEMMA AnsweredIInv == ASSUME NEW p \in Paths PROVE IInv /\ Answered(p) => IInv'
<1> SUFFICES ASSUME IInv, Answered(p) PROVE IInv'
  OBVIOUS
<1> USE DEF IInv
<1>1. PICK new \in Listings(refs[p] \ visited) : queue' = queue \o new
  BY DEF Answered
<1>2. /\ outcome = "running" /\ p \in inflight
      /\ order' = Append(order, p)
      /\ inflight' = inflight \ {p}
      /\ UNCHANGED <<refs, limit, visited, outcome>>
  BY DEF Answered
<1>3. new \in Seq(Paths) /\ Elems(new) = refs[p] \ visited
  <2>1. refs[p] \ visited \subseteq Paths /\ IsFiniteSet(refs[p] \ visited)
    BY PathsAssumption, FS_Subset DEF TypeOK
  <2>2. new \in Seq(refs[p] \ visited) /\ Elems(new) = refs[p] \ visited
    BY <2>1, ListingsList
  <2> QED BY <2>1, <2>2
<1>4. queue' \in Seq(Paths) /\ Elems(queue') = Elems(queue) \cup (refs[p] \ visited)
  BY <1>1, <1>3, ElemsConcat DEF TypeOK
<1>5. order' \in Seq(Paths) /\ Elems(order') = Elems(order) \cup {p}
  BY <1>2, ElemsAppend DEF TypeOK
<1>6. TypeOK'
  BY <1>2, <1>4, <1>5 DEF TypeOK
<1>7. VisitedSplit'
  <2>1. p \notin Elems(order)
    BY <1>2 DEF VisitedSplit, FetchedOnce
  <2>2. \A i, j \in DOMAIN order' : order'[i] = order'[j] => i = j
    <3>1. /\ DOMAIN order' = 1..(Len(order) + 1) /\ DOMAIN order = 1..Len(order)
          /\ Len(order) \in Nat /\ order'[Len(order) + 1] = p
          /\ \A i \in 1..Len(order) : order'[i] = order[i]
      BY <1>2 DEF TypeOK
    <3>2. \A i \in DOMAIN order : order[i] # p
      BY <2>1 DEF Elems
    <3>3. \A i, j \in DOMAIN order : order[i] = order[j] => i = j
      BY DEF VisitedSplit, FetchedOnce
    <3> QED BY <3>1, <3>2, <3>3
  <2>3. inflight' \cap Elems(order') = {}
    BY <1>2, <1>5 DEF VisitedSplit, FetchedOnce
  <2>4. visited' = inflight' \cup Elems(order')
    BY <1>2, <1>5 DEF VisitedSplit
  <2> QED BY <2>2, <2>3, <2>4 DEF VisitedSplit, FetchedOnce
<1>8. NothingLost'
  BY <1>2, <1>4, <1>5 DEF NothingLost
<1>9. NothingForeign'
  <2> SUFFICES ASSUME NEW t \in SUBSET Paths, Root \in t, Service!ClosedUnder(refs, t)
               PROVE  visited \cup Elems(queue') \subseteq t
    BY <1>2 DEF NothingForeign, Service!ClosedUnder
  <2>1. visited \cup Elems(queue) \subseteq t
    BY DEF NothingForeign
  <2>2. p \in t
    BY <1>2, <2>1 DEF VisitedSplit
  <2>3. refs[p] \subseteq t
    BY <2>2 DEF Service!ClosedUnder
  <2> QED BY <1>4, <2>1, <2>3
<1> QED BY <1>2, <1>6, <1>7, <1>8, <1>9 DEF OkMeansDone

(* The steps that only write the outcome, and stuttering. *)
LEMMA OutcomeIInv ==
  ASSUME IInv, UNCHANGED <<refs, limit, queue, visited, inflight, order>>,
         outcome' \in {"running", "ok", "timeout", "failed"}, OkMeansDone'
  PROVE  IInv'
<1>1. Elems(queue)' = Elems(queue) /\ Elems(order)' = Elems(order)
  OBVIOUS
<1> QED BY <1>1 DEF IInv, TypeOK, VisitedSplit, FetchedOnce, NothingLost,
                    NothingForeign, Service!ClosedUnder

(* Every step of resolve_closure, or none, preserves the invariant. *)
LEMMA NextIInv == IInv /\ [Next]_vars => IInv'
<1> SUFFICES ASSUME IInv, [Next]_vars PROVE IInv'
  OBVIOUS
<1>1. CASE Finish
  BY <1>1, OutcomeIInv DEF Finish, AtLoopHead, OkMeansDone
<1>2. CASE DeadlinePassed
  BY <1>2, OutcomeIInv DEF DeadlinePassed, OkMeansDone
<1>3. CASE TakeBatch
  BY <1>3, TakeBatchIInv
<1>4. ASSUME NEW p \in Paths, Answered(p) PROVE IInv'
  BY <1>4, AnsweredIInv
<1>5. ASSUME NEW p \in Paths, FetchFailed(p) PROVE IInv'
  BY <1>5, OutcomeIInv DEF FetchFailed, OkMeansDone
<1>6. CASE UNCHANGED vars
  BY <1>6, OutcomeIInv DEF vars, IInv, TypeOK, OkMeansDone
<1> QED BY <1>1, <1>2, <1>3, <1>4, <1>5, <1>6 DEF Next

(* What is recorded, in flight and queued always covers what the answers so *)
(* far refer to, and holds nothing outside the closure of the root.         *)
THEOREM ClosureInvariant == Spec => []IInv
BY InitIInv, NextIInv, PTL DEF Spec

-----------------------------------------------------------------------------
(* Results *)

(* With nothing queued and nothing in flight, the order is the closure. *)
LEMMA OkIsClosure == IInv => ResultIsClosure
<1> SUFFICES ASSUME IInv, outcome = "ok"
             PROVE  Service!IsClosure(refs, Elems(order))
  BY DEF ResultIsClosure
<1>1. queue = <<>> /\ inflight = {}
  BY DEF IInv, OkMeansDone
<1>2. Elems(queue) = {}
  BY <1>1 DEF Elems
<1>3. visited = Elems(order)
  BY <1>1 DEF IInv, VisitedSplit
<1> QED BY <1>2, <1>3 DEF IInv, NothingLost, NothingForeign,
                          Service!IsClosure, Service!ClosedUnder

(* resolve_closure returns Ok only with the exact closure of its root. *)
THEOREM ResultIsClosureTheorem == Spec => []ResultIsClosure
BY ClosureInvariant, OkIsClosure, PTL

(* No path is fetched twice or listed twice in the result. *)
THEOREM FetchedOnceTheorem == Spec => []FetchedOnce
<1>1. IInv => FetchedOnce
  BY DEF IInv, VisitedSplit
<1> QED BY <1>1, ClosureInvariant, PTL

(* The first n paths of the queue are at most n paths. *)
LEMMA BatchBound ==
  ASSUME NEW S, NEW s \in Seq(S), NEW n \in 0..Len(s)
  PROVE  Cardinality(Elems(SubSeq(s, 1, n))) <= n
<1> DEFINE u == SubSeq(s, 1, n)
           f == [i \in 1..n |-> u[i]]
<1>1. n \in Nat /\ DOMAIN u = 1..n
  OBVIOUS
<1>2. Elems(u) = {u[i] : i \in 1..n}
  BY <1>1 DEF Elems
<1> HIDE DEF u
<1>3. f \in Surjection(1..n, Elems(u))
  BY <1>2 DEF Surjection
<1>4. ExistsSurjection(1..n, Elems(u))
  BY <1>3 DEF ExistsSurjection
<1>5. Cardinality(Elems(u)) <= n
  BY <1>1, <1>4, FS_SurjCardinalityBound
<1> QED BY <1>5 DEF u

(* Fetches start in batches of at most `limit`, and only when none is left. *)
LEMMA NextBounded == IInv /\ BoundedFetches /\ [Next]_vars => BoundedFetches'
<1> SUFFICES ASSUME IInv, BoundedFetches, [Next]_vars PROVE BoundedFetches'
  OBVIOUS
<1>1. /\ limit \in Nat /\ IsFiniteSet(inflight)
      /\ Cardinality(inflight) \in Nat /\ Cardinality(inflight) <= limit
  BY FS_Subset, FS_CardinalityType, PathsAssumption
  DEF IInv, TypeOK, BoundedFetches
<1>2. CASE TakeBatch
  <2> DEFINE n == BatchSize
             batch == Elems(SubSeq(queue, 1, n))
  <2>1. n \in 0..Len(queue) /\ n \in Nat /\ n <= limit
    BY DEF IInv, TypeOK, BatchSize
  <2>2. queue \in Seq(Paths) /\ inflight' = batch \ visited /\ limit' = limit
    BY <1>2 DEF IInv, TypeOK, TakeBatch
  <2> HIDE DEF n
  <2>3. SubSeq(queue, 1, n) \in Seq(Paths) /\ Cardinality(batch) <= n
    BY <2>1, <2>2, ElemsSplit, BatchBound
  <2>4. batch \subseteq Paths
    BY <2>3, ElemsType
  <2> HIDE DEF batch
  <2>5. IsFiniteSet(batch) /\ Cardinality(batch) \in Nat
    BY <2>4, FS_Subset, FS_CardinalityType, PathsAssumption
  <2>6. batch \ visited \subseteq batch
    OBVIOUS
  <2>7. /\ Cardinality(batch \ visited) \in Nat
        /\ Cardinality(batch \ visited) <= Cardinality(batch)
    BY <2>5, <2>6, FS_Subset, FS_CardinalityType
  <2> QED BY <1>1, <2>1, <2>2, <2>3, <2>5, <2>7 DEF BoundedFetches
<1>3. ASSUME NEW p \in Paths, Answered(p) PROVE BoundedFetches'
  <2>1. inflight' = inflight \ {p} /\ limit' = limit
    BY <1>3 DEF Answered
  <2>2. /\ Cardinality(inflight \ {p}) \in Nat
        /\ Cardinality(inflight \ {p}) <= Cardinality(inflight)
    BY <1>1, FS_Subset, FS_CardinalityType
  <2> QED BY <1>1, <2>1, <2>2 DEF BoundedFetches
<1>4. CASE UNCHANGED <<inflight, limit>>
  BY <1>4 DEF BoundedFetches
<1>5. Finish \/ DeadlinePassed \/ (\E p \in Paths : FetchFailed(p))
      \/ UNCHANGED vars => UNCHANGED <<inflight, limit>>
  BY DEF Finish, DeadlinePassed, FetchFailed, vars
<1> QED BY <1>2, <1>3, <1>4, <1>5 DEF Next

(* However long the queue grows, no more fetches than `concurrency` run. *)
THEOREM BoundedFetchesTheorem == Spec => []BoundedFetches
<1>1. Init => BoundedFetches
  BY FS_EmptySet DEF Init, BoundedFetches
<1> QED BY <1>1, ClosureInvariant, NextBounded, PTL DEF Spec

(* Every step of the search is a step of ClosureService or changes nothing *)
(* its caller sees.                                                        *)
LEMMA StepImplements == IInv /\ [Next]_vars => [Service!Next]_(Service!serviceVars)
<1> SUFFICES ASSUME IInv, [Next]_vars
             PROVE  Service!Next \/ UNCHANGED Service!serviceVars
  OBVIOUS
<1>1. IInv'
  BY NextIInv
<1>2. CASE Finish
  <2>1. outcome = "running" /\ outcome' = "ok" /\ UNCHANGED <<refs, order>>
    BY <1>2 DEF Finish, AtLoopHead
  <2>2. ResultIsClosure'
    BY <1>1, OkIsClosure, PTL
  <2>3. Service!IsClosure(refs, Elems(order'))
    BY <2>1, <2>2 DEF ResultIsClosure, Service!IsClosure, Service!ClosedUnder
  <2>4. Elems(order') \in SUBSET Paths
    BY <1>1, ElemsType DEF IInv, TypeOK
  <2> QED BY <2>1, <2>3, <2>4 DEF Service!Next, Service!Resolve
<1>3. CASE DeadlinePassed
  BY <1>3 DEF DeadlinePassed, AtLoopHead, Service!Next, Service!Refuse
<1>4. CASE TakeBatch
  BY <1>4 DEF TakeBatch, AtLoopHead, Service!serviceVars
<1>5. ASSUME NEW p \in Paths, Answered(p) PROVE UNCHANGED Service!serviceVars
  BY <1>5 DEF Answered, Service!serviceVars
<1>6. ASSUME NEW p \in Paths, FetchFailed(p) PROVE Service!Next
  BY <1>6 DEF FetchFailed, Service!Next, Service!Refuse
<1>7. CASE UNCHANGED vars
  BY <1>7 DEF vars, Service!serviceVars, Elems
<1> QED BY <1>2, <1>3, <1>4, <1>5, <1>6, <1>7 DEF Next

(* The batched, concurrent search implements the one-step service. *)
THEOREM Refinement == Spec => ImplementsService
<1>1. Init => Service!Init
  BY DEF Init, Service!Init
<1> QED BY <1>1, ClosureInvariant, StepImplements, PTL
        DEF Spec, ImplementsService, Service!Spec

=============================================================================
