-------------------------- MODULE ReconcilerProofs --------------------------
(***************************************************************************)
(* Theorems about the reconcile loop, for every set of operators, specs    *)
(* and store paths and every bound.                                        *)
(***************************************************************************)
EXTENDS Reconciler, TLAPS

-----------------------------------------------------------------------------
(* The inductive invariant behind FreshUnlessFailed *)

(* x.storePath is what the spec x.observed stands for evaluates to. *)
Fresh(x, sp, fg) ==
  x.observed # 0 /\ x.observed \notin fg
    => x.storePath = Build[sp[x.observed].flake]

(* What every version of the object satisfies, live or in a stale copy. *)
Sane(x, sp, fg) ==
  /\ x \in WorkloadType
  /\ x.observed <= x.generation
  /\ x.generation <= Len(sp)
  /\ x.exists => x.generation >= 1
  /\ Fresh(x, sp, fg)

GlobalTypes ==
  /\ specs \in Seq(Specs)
  /\ children \in [Kinds -> Nat]
  /\ image \in Paths \cup {NoPath}
  /\ readyPods \in Nat
  /\ failedGens \subseteq Nat
  /\ faults \in Nat /\ crashes \in Nat /\ unready \in Nat /\ others \in Nat

LocalTypes ==
  /\ cached \in [Operators -> WorkloadType]
  /\ queued \in [Operators -> BOOLEAN]
  /\ pc \in [Operators -> PCs]
  /\ snap \in [Operators -> WorkloadType]
  /\ found \in [Operators -> Paths \cup {NoPath}]
  /\ todo \in [Operators -> SUBSET Kinds]
  /\ ready \in [Operators -> Nat]

WorkloadInv ==
  /\ Sane(workload, specs, failedGens)
  /\ workload.exists => workload.generation = Len(specs)

ChildrenInv == \A k \in Kinds : children[k] <= Len(specs)

Decided == {"phaseProvisioning", "apply", "count", "updateStatus"}

(* What reconcile() carries across its awaits. *)
LocalAt(o) ==
  /\ Sane(cached[o], specs, failedGens)
  /\ Sane(snap[o], specs, failedGens)
  /\ pc[o] # "idle" => snap[o].exists
  /\ pc[o] \in Decided /\ snap[o].generation \notin failedGens
       => found[o] = Build[specs[snap[o].generation].flake]

LocalInv == \A o \in Operators : LocalAt(o)

IInv == GlobalTypes /\ LocalTypes /\ WorkloadInv /\ ChildrenInv /\ LocalInv

(* The inductive invariant contains the type invariant. *)
LEMMA SplitTypes == IInv => TypeOK
BY DEF IInv, GlobalTypes, LocalTypes, WorkloadInv, Sane, TypeOK

-----------------------------------------------------------------------------
(* Helpers *)

(* The placeholder for "no object" is a sane version. *)
LEMMA NoWorkloadSane ==
  ASSUME NEW sp \in Seq(Specs), NEW fg
  PROVE  Sane(NoWorkload, sp, fg)
BY DEF NoWorkload, Sane, WorkloadType, Phases, Fresh

(* Specs are only appended and failures only added: sane stays sane. *)
LEMMA SaneGrows ==
  ASSUME NEW sp \in Seq(Specs), NEW sp2 \in Seq(Specs), NEW fg, NEW fg2,
         Len(sp) <= Len(sp2), \A i \in 1..Len(sp) : sp2[i] = sp[i],
         fg \subseteq fg2, NEW x, Sane(x, sp, fg)
  PROVE  Sane(x, sp2, fg2)
BY DEF Sane, Fresh, WorkloadType

Grows ==
  /\ specs' \in Seq(Specs)
  /\ Len(specs) <= Len(specs')
  /\ \A i \in 1..Len(specs) : specs'[i] = specs[i]
  /\ failedGens \subseteq failedGens'

(* The spec of an old generation is never replaced. *)
LEMMA SpecsKept ==
  ASSUME IInv, UNCHANGED specs, failedGens \subseteq failedGens'
  PROVE  Grows
BY DEF Grows, IInv, GlobalTypes

(* The spec of a version that exists is one of Specs. *)
LEMMA SpecOfType ==
  ASSUME GlobalTypes, NEW x, Sane(x, specs, failedGens), x.exists
  PROVE  /\ x.generation \in 1..Len(specs)
         /\ SpecOf(x) \in Specs
         /\ SpecOf(x) \in SpecType
BY SpecsAssumption DEF GlobalTypes, Sane, SpecOf, WorkloadType

(* apply_child_resources only applies the four kinds. *)
LEMMA WantedType ==
  ASSUME NEW sp \in SpecType
  PROVE  Wanted(sp) \subseteq Kinds /\ "Deployment" \in Wanted(sp)
BY DEF SpecType, Wanted, Kinds

(* An operator that does not move keeps its part of the invariant. *)
LEMMA LocalKept ==
  ASSUME IInv, Grows, NEW o \in Operators,
         cached'[o] = cached[o], snap'[o] = snap[o],
         pc'[o] = pc[o], found'[o] = found[o]
  PROVE  LocalAt(o)'
<1>1. Sane(cached[o], specs, failedGens) /\ Sane(snap[o], specs, failedGens)
  BY DEF IInv, LocalInv, LocalAt
<1>2. Sane(cached[o], specs', failedGens') /\ Sane(snap[o], specs', failedGens')
  BY <1>1, SaneGrows DEF Grows, IInv, GlobalTypes
<1>3. pc[o] # "idle" => snap[o].generation \in 1..Len(specs)
  BY <1>1, SpecOfType DEF IInv, LocalInv, LocalAt
<1>4. pc[o] \in Decided => pc[o] # "idle"
  BY DEF Decided
<1> QED BY <1>2, <1>3, <1>4 DEF IInv, LocalInv, LocalAt, Grows

(* Nothing local changes. *)
LEMMA IdleLocal ==
  ASSUME IInv, UNCHANGED opVars, Grows
  PROVE  LocalTypes' /\ LocalInv'
<1>1. LocalTypes'
  BY DEF opVars, IInv, LocalTypes
<1>2. ASSUME NEW o \in Operators PROVE LocalAt(o)'
  BY LocalKept DEF opVars
<1> QED BY <1>1, <1>2 DEF LocalInv

(* reconcile() returns. *)
LEMMA ReturnLocal ==
  ASSUME IInv, NEW o \in Operators, NEW r \in BOOLEAN, Return(o, r), Grows
  PROVE  LocalTypes' /\ LocalInv'
<1>1. NoWorkload \in WorkloadType
  BY DEF NoWorkload, WorkloadType, Phases
<1>2. LocalTypes'
  BY <1>1 DEF Return, IInv, LocalTypes, PCs
<1>3. ASSUME NEW q \in Operators PROVE LocalAt(q)'
  <2>1. CASE q = o
    <3>1. Sane(cached[o], specs', failedGens')
      BY SaneGrows DEF Grows, IInv, GlobalTypes, LocalInv, LocalAt
    <3>2. Sane(NoWorkload, specs', failedGens')
      BY NoWorkloadSane DEF Grows
    <3> QED BY <2>1, <3>1, <3>2 DEF Return, IInv, LocalTypes, LocalAt, Decided
  <2>2. CASE q # o
    BY <2>2, LocalKept DEF Return, IInv, LocalTypes
  <2> QED BY <2>1, <2>2
<1> QED BY <1>2, <1>3 DEF LocalInv

-----------------------------------------------------------------------------
(* What a write does to the object *)

(* Removing an object whose last finalizer is gone keeps versions sane. *)
LEMMA SettleSane ==
  ASSUME NEW sp \in Seq(Specs), NEW fg, NEW w, Sane(w, sp, fg)
  PROVE  /\ Sane(Settle(w), sp, fg)
         /\ Settle(w) = w \/ ~Settle(w).exists
BY NoWorkloadSane DEF Settle, NoWorkload

(* A PATCH that succeeds, fails or loses its answer leaves the object as it *)
(* was or as asked for.                                                     *)
LEMMA PatchResult ==
  ASSUME NEW accepted, NEW new, faults \in Nat,
         PatchOk(accepted, new) \/ PatchErr(accepted, new)
  PROVE  /\ faults' \in Nat
         /\ workload' = workload \/ (accepted /\ workload' = new)
<1>1. faults' \in Nat
  <2>1. faults' = faults \/ faults' = faults + 1
    BY Zenon DEF PatchOk, PatchErr, Fault
  <2> QED BY <2>1
<1>2. workload' = workload \/ (accepted /\ workload' = new)
  BY Zenon DEF PatchOk, PatchErr
<1> QED BY <1>1, <1>2

(* A step of reconcile() that leaves the children alone. *)
LEMMA GlobalKept ==
  ASSUME IInv, UNCHANGED <<specs, children, image, readyPods, crashes, unready, others>>,
         failedGens' \subseteq Nat, faults' \in Nat
  PROVE  GlobalTypes' /\ ChildrenInv'
BY DEF IInv, GlobalTypes, ChildrenInv

(* The finalizer list is replaced. *)
LEMMA FinalizersPatched ==
  ASSUME IInv, NEW list \in SUBSET {Own, Other},
         UNCHANGED <<specs, failedGens>>,
         \/ PatchOk(AcceptsFinalizers(list), WithFinalizers(list))
         \/ PatchErr(AcceptsFinalizers(list), WithFinalizers(list))
  PROVE  WorkloadInv' /\ faults' \in Nat
<1> DEFINE w == [workload EXCEPT !.finalizers = list]
<1>1. faults \in Nat /\ specs \in Seq(Specs)
  BY DEF IInv, GlobalTypes
<1>2. /\ faults' \in Nat
      /\ \/ workload' = workload
         \/ AcceptsFinalizers(list) /\ workload' = WithFinalizers(list)
  BY <1>1, PatchResult, Zenon
<1>3. Sane(w, specs, failedGens) /\ w.generation = workload.generation
        /\ w.exists = workload.exists
  BY DEF IInv, WorkloadInv, Sane, Fresh, WorkloadType
<1>4. Sane(Settle(w), specs, failedGens) /\ (Settle(w) = w \/ ~Settle(w).exists)
  BY <1>1, <1>3, SettleSane
<1>5. workload' = workload \/ workload' = Settle(w)
  BY <1>2 DEF WithFinalizers
<1>6. CASE workload' = workload
  BY <1>2, <1>6 DEF IInv, WorkloadInv
<1>7. CASE workload' = Settle(w)
  <2> HIDE DEF w
  <2> QED BY <1>2, <1>3, <1>4, <1>7 DEF IInv, WorkloadInv
<1> QED BY <1>5, <1>6, <1>7

(* The phase is replaced. *)
LEMMA PhasePatched ==
  ASSUME IInv, NEW p \in Phases, UNCHANGED <<specs, failedGens>>,
         \/ PatchOk(workload.exists, [workload EXCEPT !.phase = p])
         \/ PatchErr(workload.exists, [workload EXCEPT !.phase = p])
  PROVE  WorkloadInv' /\ faults' \in Nat
<1> DEFINE w == [workload EXCEPT !.phase = p]
<1>1. faults \in Nat
  BY DEF IInv, GlobalTypes
<1>2. faults' \in Nat /\ (workload' = workload \/ workload' = w)
  BY <1>1, PatchResult, Zenon
<1>3. Sane(w, specs, failedGens) /\ w.generation = workload.generation
        /\ w.exists = workload.exists
  BY DEF IInv, WorkloadInv, Sane, Fresh, WorkloadType
<1> QED BY <1>2, <1>3 DEF IInv, WorkloadInv

(* The status is written for the generation of a snapshot. *)
LEMMA StatusPatched ==
  ASSUME IInv, NEW x, Sane(x, specs, failedGens), x.exists, workload.exists,
         specs' = specs, workload' \in WorkloadType,
         workload'.observed = x.generation,
         workload'.generation = workload.generation,
         Fresh(workload', specs, failedGens')
  PROVE  WorkloadInv'
<1>1. workload \in WorkloadType /\ workload.generation = Len(specs)
  BY DEF IInv, WorkloadInv, Sane
<1>2. x.generation \in Nat /\ x.generation <= Len(specs) /\ x.generation >= 1
  BY DEF Sane, WorkloadType
<1>3. Len(specs) \in Nat
  BY DEF IInv, GlobalTypes
<1> QED BY <1>1, <1>2, <1>3 DEF WorkloadInv, Sane

(* The object does not change. *)
LEMMA WorkloadKept ==
  ASSUME IInv, UNCHANGED workload, UNCHANGED specs, Grows
  PROVE  WorkloadInv'
<1>1. Sane(workload, specs, failedGens)
  BY DEF IInv, WorkloadInv
<1>2. Sane(workload, specs', failedGens')
  BY <1>1, SaneGrows DEF Grows, IInv, GlobalTypes
<1> QED BY <1>2 DEF IInv, WorkloadInv

-----------------------------------------------------------------------------
(* Every step preserves the invariant: reconcile() *)

(* add_finalizer, from however stale a snapshot, preserves the invariant. *)
LEMMA AddFinalizerStep ==
  ASSUME IInv, NEW o \in Operators, AddFinalizer(o) PROVE IInv'
<1> DEFINE list == snap[o].finalizers \cup {Own}
<1>1. list \in SUBSET {Own, Other}
  BY DEF IInv, LocalTypes, WorkloadType
<1>2. WorkloadInv' /\ faults' \in Nat
  BY <1>1, FinalizersPatched DEF AddFinalizer
<1>3. GlobalTypes' /\ ChildrenInv'
  BY <1>2, GlobalKept DEF AddFinalizer, IInv, GlobalTypes
<1>4. Grows
  BY SpecsKept DEF AddFinalizer
<1>5. LocalTypes' /\ LocalInv'
  BY <1>4, ReturnLocal DEF AddFinalizer
<1> QED BY <1>2, <1>3, <1>5 DEF IInv

(* remove_finalizer preserves the invariant. *)
LEMMA RemoveFinalizerStep ==
  ASSUME IInv, NEW o \in Operators, RemoveFinalizer(o) PROVE IInv'
<1> DEFINE list == snap[o].finalizers \ {Own}
<1>1. list \in SUBSET {Own, Other}
  BY DEF IInv, LocalTypes, WorkloadType
<1>2. WorkloadInv' /\ faults' \in Nat
  BY <1>1, FinalizersPatched DEF RemoveFinalizer
<1>3. GlobalTypes' /\ ChildrenInv'
  BY <1>2, GlobalKept DEF RemoveFinalizer, IInv, GlobalTypes
<1>4. Grows
  BY SpecsKept DEF RemoveFinalizer
<1>5. LocalTypes' /\ LocalInv'
  BY <1>4, ReturnLocal DEF RemoveFinalizer
<1> QED BY <1>2, <1>3, <1>5 DEF IInv

(* set_failed preserves the invariant: the generation it reports as observed *)
(* is from then on a failed one.                                             *)
LEMMA SetFailedStep ==
  ASSUME IInv, NEW o \in Operators, SetFailed(o) PROVE IInv'
<1> DEFINE new == [workload EXCEPT !.phase = "Failed", !.observed = snap[o].generation]
<1>0. /\ workload \in WorkloadType /\ snap[o] \in WorkloadType
      /\ failedGens \subseteq Nat /\ faults \in Nat
  BY DEF IInv, GlobalTypes, LocalTypes, WorkloadInv, Sane
<1>1. /\ faults' \in Nat
      /\ workload' = workload \/ (workload.exists /\ workload' = new)
  <2>1. PatchOk(workload.exists, new) \/ PatchErr(workload.exists, new)
    BY DEF SetFailed
  <2> HIDE DEF new
  <2> QED BY <1>0, <2>1, PatchResult, Zenon
<1>2. /\ failedGens \subseteq failedGens' /\ failedGens' \subseteq Nat
      /\ workload.exists /\ workload' = new => snap[o].generation \in failedGens'
  <2>1. snap[o].generation \in Nat
    BY <1>0 DEF WorkloadType
  <2> QED BY <1>0, <2>1 DEF SetFailed
<1>3. GlobalTypes' /\ ChildrenInv'
  BY <1>1, <1>2, GlobalKept DEF SetFailed
<1>4. Grows
  BY <1>2, SpecsKept DEF SetFailed
<1>5. LocalTypes' /\ LocalInv'
  BY <1>4, ReturnLocal DEF SetFailed
<1>6. Sane(snap[o], specs, failedGens) /\ snap[o].exists
  BY DEF SetFailed, At, IInv, LocalInv, LocalAt
<1>7. CASE workload' = workload
  BY <1>3, <1>4, <1>5, <1>7, WorkloadKept DEF SetFailed, IInv
<1>8. CASE workload.exists /\ workload' = new
  <2>1. /\ new \in WorkloadType /\ new.observed = snap[o].generation
        /\ new.generation = workload.generation
    BY <1>0 DEF WorkloadType, Phases
  <2>2. Fresh(workload', specs, failedGens')
    BY <1>2, <1>8, <2>1 DEF Fresh
  <2>3. specs' = specs
    BY DEF SetFailed
  <2>4. WorkloadInv'
    BY <1>6, <1>8, <2>1, <2>2, <2>3, StatusPatched
  <2> QED BY <1>3, <1>5, <2>4 DEF IInv
<1> QED BY <1>1, <1>7, <1>8

(* update_status preserves the invariant: path and generation belong together. *)
LEMMA UpdateStatusStep ==
  ASSUME IInv, NEW o \in Operators, UpdateStatus(o) PROVE IInv'
<1> DEFINE phase == IF ready[o] >= SpecOf(snap[o]).replicas THEN "Running" ELSE "Provisioning"
           new == [workload EXCEPT !.phase = phase, !.observed = snap[o].generation,
                                   !.storePath = found[o]]
<1>0. /\ workload \in WorkloadType /\ snap[o] \in WorkloadType
      /\ failedGens \subseteq Nat /\ faults \in Nat
      /\ found[o] \in Paths \cup {NoPath}
  BY DEF IInv, GlobalTypes, LocalTypes, WorkloadInv, Sane
<1>1. /\ faults' \in Nat
      /\ workload' = workload \/ (workload.exists /\ workload' = new)
  <2>1. PatchOk(workload.exists, new) \/ PatchErr(workload.exists, new)
    BY DEF UpdateStatus
  <2> HIDE DEF new
  <2> QED BY <1>0, <2>1, PatchResult, Zenon
<1>2. specs' = specs /\ failedGens' = failedGens
  BY DEF UpdateStatus
<1>3. GlobalTypes' /\ ChildrenInv'
  BY <1>0, <1>1, GlobalKept DEF UpdateStatus
<1>4. Grows
  BY <1>2, SpecsKept
<1>5. LocalTypes' /\ LocalInv'
  BY <1>4, ReturnLocal DEF UpdateStatus
<1>6. Sane(snap[o], specs, failedGens) /\ snap[o].exists
  BY DEF UpdateStatus, At, IInv, LocalInv, LocalAt
<1>7. CASE workload' = workload
  BY <1>2, <1>3, <1>4, <1>5, <1>7, WorkloadKept DEF IInv
<1>8. CASE workload.exists /\ workload' = new
  <2>1. phase \in Phases
    BY DEF Phases
  <2>2. /\ new \in WorkloadType /\ new.observed = snap[o].generation
        /\ new.generation = workload.generation
        /\ new.storePath = found[o]
    BY <1>0, <2>1 DEF WorkloadType
  <2>3. snap[o].generation \notin failedGens
          => found[o] = Build[specs[snap[o].generation].flake]
    BY DEF UpdateStatus, At, IInv, LocalInv, LocalAt, Decided
  <2>4. Fresh(workload', specs, failedGens')
    <3> HIDE DEF new
    <3> QED BY <1>2, <1>8, <2>2, <2>3 DEF Fresh
  <2>5. WorkloadInv'
    <3> HIDE DEF new
    <3> QED BY <1>2, <1>6, <1>8, <2>2, <2>4, StatusPatched
  <2> QED BY <1>3, <1>5, <2>5 DEF IInv
<1> QED BY <1>1, <1>7, <1>8

(* One operator moves and the rest stand still. *)
LEMMA MovedLocal ==
  ASSUME IInv, Grows, NEW o \in Operators, LocalAt(o)',
         \A q \in Operators \ {o} :
            /\ cached'[q] = cached[q] /\ snap'[q] = snap[q]
            /\ pc'[q] = pc[q] /\ found'[q] = found[q]
  PROVE  LocalInv'
<1>1. ASSUME NEW q \in Operators, q # o PROVE LocalAt(q)'
  BY <1>1, LocalKept
<1> QED BY <1>1 DEF LocalInv

(* A version that needs no evaluation carries the path of its own spec. *)
LEMMA NoEvalNeeded ==
  ASSUME NEW w, Sane(w, specs, failedGens), w.exists, ~NeedsEval(w),
         w.generation \notin failedGens
  PROVE  w.storePath = Build[specs[w.generation].flake]
<1>1. w.observed = w.generation /\ w.generation # 0
  BY DEF Sane, NeedsEval, WorkloadType
<1> QED BY <1>1 DEF Sane, Fresh

(* Entering reconcile() preserves the invariant; with no evaluation needed the *)
(* path taken from the status is the path of the generation.                   *)
LEMMA ReconcileStep ==
  ASSUME IInv, NEW o \in Operators, Reconcile(o) PROVE IInv'
<1> DEFINE next == Dispatch(cached[o])
<1>1. UNCHANGED specs /\ UNCHANGED failedGens /\ UNCHANGED workload
  BY DEF Reconcile
<1>2. Grows
  BY <1>1, SpecsKept
<1>3. GlobalTypes' /\ ChildrenInv'
  BY GlobalKept DEF Reconcile, budgetVars, IInv, GlobalTypes
<1>4. WorkloadInv'
  BY <1>1, <1>2, WorkloadKept
<1>5. CASE next = "idle"
  <2>1. Return(o, TRUE)
    BY <1>5 DEF Reconcile
  <2> QED BY <1>2, <1>3, <1>4, <2>1, ReturnLocal DEF IInv
<1>6. CASE next # "idle"
  <2>1. /\ pc' = [pc EXCEPT ![o] = next]
        /\ queued' = [queued EXCEPT ![o] = FALSE]
        /\ snap' = [snap EXCEPT ![o] = cached[o]]
        /\ found' = [found EXCEPT ![o] = IF next = "phaseProvisioning"
                                         THEN cached[o].storePath ELSE NoPath]
        /\ UNCHANGED <<cached, todo, ready>>
    BY <1>6 DEF Reconcile, FromStatus
  <2>2. cached[o] \in WorkloadType /\ cached[o].storePath \in Paths \cup {NoPath}
    BY DEF IInv, LocalTypes, WorkloadType
  <2>3. next \in PCs
    BY DEF Dispatch, PCs
  <2>4. LocalTypes'
    <3> HIDE DEF next
    <3> QED BY <2>1, <2>2, <2>3 DEF IInv, LocalTypes
  <2>5. /\ pc'[o] = next /\ snap'[o] = cached[o] /\ cached'[o] = cached[o]
        /\ next = "phaseProvisioning" => found'[o] = cached[o].storePath
    BY <2>1 DEF IInv, LocalTypes
  <2>6. Sane(cached[o], specs, failedGens) /\ cached[o].exists
    BY DEF IInv, LocalInv, LocalAt, Reconcile
  <2>7. next \in Decided => next = "phaseProvisioning" /\ ~NeedsEval(cached[o])
    BY DEF Dispatch, Decided
  <2>8. next \in Decided /\ cached[o].generation \notin failedGens
          => found'[o] = Build[specs[cached[o].generation].flake]
    BY <2>5, <2>6, <2>7, NoEvalNeeded
  <2>9. LocalAt(o)'
    <3> HIDE DEF next
    <3> QED BY <1>1, <2>5, <2>6, <2>8 DEF LocalAt
  <2>10. LocalInv'
    <3> HIDE DEF next
    <3> QED BY <1>2, <2>1, <2>9, MovedLocal DEF IInv, LocalTypes
  <2> QED BY <1>3, <1>4, <2>4, <2>10 DEF IInv
<1> QED BY <1>5, <1>6

(* set_phase(Evaluating) preserves the invariant. *)
LEMMA SetPhaseEvaluatingStep ==
  ASSUME IInv, NEW o \in Operators, SetPhaseEvaluating(o) PROVE IInv'
<1>1. UNCHANGED specs /\ UNCHANGED failedGens
  BY DEF SetPhaseEvaluating
<1>2. Grows
  BY <1>1, SpecsKept
<1>3. WorkloadInv' /\ faults' \in Nat
  <2>1. "Evaluating" \in Phases
    BY DEF Phases
  <2> QED BY <1>1, <2>1, PhasePatched, Zenon DEF SetPhaseEvaluating
<1>4. GlobalTypes' /\ ChildrenInv'
  BY <1>3, GlobalKept DEF SetPhaseEvaluating, IInv, GlobalTypes
<1>5. CASE Return(o, TRUE)
  BY <1>2, <1>3, <1>4, <1>5, ReturnLocal DEF IInv
<1>6. CASE Goto(o, "eval") /\ UNCHANGED <<found, todo, ready>>
  <2>1. LocalTypes'
    BY <1>6 DEF Goto, IInv, LocalTypes, PCs
  <2>2. LocalAt(o)'
    BY <1>1, <1>6 DEF Goto, IInv, LocalTypes, LocalInv, LocalAt, Decided,
                      SetPhaseEvaluating, At
  <2>3. LocalInv'
    BY <1>2, <1>6, <2>2, MovedLocal DEF Goto, IInv, LocalTypes
  <2> QED BY <1>3, <1>4, <2>1, <2>3 DEF IInv
<1> QED BY <1>5, <1>6 DEF SetPhaseEvaluating

(* The answer of the evaluator, or its error, preserves the invariant. *)
LEMMA CallEvalWebhookStep ==
  ASSUME IInv, NEW o \in Operators, CallEvalWebhook(o) PROVE IInv'
<1> DEFINE path == Build[SpecOf(snap[o]).flake]
<1>1. UNCHANGED specs /\ UNCHANGED failedGens /\ UNCHANGED workload
  BY DEF CallEvalWebhook
<1>2. Grows
  BY <1>1, SpecsKept
<1>3. faults' \in Nat
  BY DEF CallEvalWebhook, Fault, IInv, GlobalTypes
<1>4. GlobalTypes' /\ ChildrenInv'
  BY <1>3, GlobalKept DEF CallEvalWebhook, IInv, GlobalTypes
<1>5. WorkloadInv'
  BY <1>1, <1>2, WorkloadKept
<1>6. path \in Paths \cup {NoPath}
  <2>1. Sane(snap[o], specs, failedGens) /\ snap[o].exists
    BY DEF CallEvalWebhook, At, IInv, LocalInv, LocalAt
  <2>2. SpecOf(snap[o]).flake \in DOMAIN Build
    BY <2>1, SpecOfType DEF IInv, SpecType
  <2> QED BY <2>2, BuildAssumption
<1>7. CASE found' = [found EXCEPT ![o] = path] /\ Goto(o, "phaseProvisioning")
  <2>1. LocalTypes'
    BY <1>6, <1>7 DEF Goto, IInv, LocalTypes, PCs, CallEvalWebhook
  <2>2. found'[o] = Build[specs[snap[o].generation].flake]
    BY <1>7 DEF IInv, LocalTypes, SpecOf
  <2>3. /\ pc'[o] = "phaseProvisioning" /\ snap'[o] = snap[o]
        /\ cached'[o] = cached[o] /\ pc[o] = "eval"
    BY <1>7 DEF Goto, IInv, LocalTypes, CallEvalWebhook, At
  <2>4. LocalAt(o)'
    BY <1>1, <2>2, <2>3 DEF IInv, LocalInv, LocalAt
  <2>5. LocalInv'
    BY <1>2, <1>7, <2>4, MovedLocal DEF Goto, IInv, LocalTypes
  <2> QED BY <1>4, <1>5, <2>1, <2>5 DEF IInv
<1>8. CASE Goto(o, "setFailed") /\ UNCHANGED found
  <2>1. LocalTypes'
    BY <1>8 DEF Goto, IInv, LocalTypes, PCs, CallEvalWebhook
  <2>2. LocalAt(o)'
    BY <1>1, <1>8 DEF Goto, IInv, LocalTypes, LocalInv, LocalAt, Decided,
                      CallEvalWebhook, At
  <2>3. LocalInv'
    BY <1>2, <1>8, <2>2, MovedLocal DEF Goto, IInv, LocalTypes
  <2> QED BY <1>4, <1>5, <2>1, <2>3 DEF IInv
<1> QED BY <1>7, <1>8 DEF CallEvalWebhook

(* set_phase(Provisioning) preserves the invariant. *)
LEMMA SetPhaseProvisioningStep ==
  ASSUME IInv, NEW o \in Operators, SetPhaseProvisioning(o) PROVE IInv'
<1>1. UNCHANGED specs /\ UNCHANGED failedGens
  BY DEF SetPhaseProvisioning
<1>2. Grows
  BY <1>1, SpecsKept
<1>3. WorkloadInv' /\ faults' \in Nat
  <2>1. "Provisioning" \in Phases
    BY DEF Phases
  <2> QED BY <1>1, <2>1, PhasePatched, Zenon DEF SetPhaseProvisioning
<1>4. GlobalTypes' /\ ChildrenInv'
  BY <1>3, GlobalKept DEF SetPhaseProvisioning, IInv, GlobalTypes
<1>5. CASE Return(o, TRUE)
  BY <1>2, <1>3, <1>4, <1>5, ReturnLocal DEF IInv
<1>6. CASE /\ Goto(o, "apply")
           /\ todo' = [todo EXCEPT ![o] = Wanted(SpecOf(snap[o]))]
           /\ UNCHANGED <<found, ready>>
  <2>1. Wanted(SpecOf(snap[o])) \subseteq Kinds
    BY SpecOfType, WantedType DEF SetPhaseProvisioning, At, IInv, LocalInv, LocalAt
  <2>2. LocalTypes'
    BY <1>6, <2>1 DEF Goto, IInv, LocalTypes, PCs
  <2>3. LocalAt(o)'
    BY <1>1, <1>6 DEF Goto, IInv, LocalTypes, LocalInv, LocalAt, Decided,
                      SetPhaseProvisioning, At
  <2>4. LocalInv'
    BY <1>2, <1>6, <2>3, MovedLocal DEF Goto, IInv, LocalTypes
  <2> QED BY <1>3, <1>4, <2>2, <2>4 DEF IInv
<1> QED BY <1>5, <1>6 DEF SetPhaseProvisioning

(* Applying one child, or failing to, preserves the invariant. *)
LEMMA ApplyChildStep ==
  ASSUME IInv, NEW o \in Operators, NEW k \in Kinds, ApplyChild(o, k) PROVE IInv'
<1>1. UNCHANGED specs /\ UNCHANGED failedGens /\ UNCHANGED workload
  BY DEF ApplyChild
<1>2. Grows
  BY <1>1, SpecsKept
<1>3. WorkloadInv'
  BY <1>1, <1>2, WorkloadKept
<1>4. /\ snap[o].generation \in Nat /\ snap[o].generation <= Len(specs)
      /\ found[o] \in Paths \cup {NoPath}
  BY DEF IInv, LocalInv, LocalAt, LocalTypes, Sane, WorkloadType
<1>5. Applied(o, k) \/ UNCHANGED <<children, image>>
  BY DEF ApplyChild
<1>6. /\ children' \in [Kinds -> Nat] /\ image' \in Paths \cup {NoPath}
      /\ \A j \in Kinds : children'[j] <= Len(specs)
  BY <1>4, <1>5 DEF Applied, IInv, GlobalTypes, ChildrenInv
<1>7. faults' \in Nat
  BY DEF ApplyChild, Fault, IInv, GlobalTypes
<1>8. GlobalTypes' /\ ChildrenInv'
  BY <1>1, <1>6, <1>7 DEF ApplyChild, IInv, GlobalTypes, ChildrenInv
<1>9. ASSUME NEW label \in {"count", "apply", "setFailed"}, Goto(o, label),
             todo' \in [Operators -> SUBSET Kinds]
      PROVE  LocalTypes' /\ LocalInv'
  <2>1. UNCHANGED found /\ UNCHANGED ready
    BY DEF ApplyChild
  <2>2. LocalTypes'
    BY <1>9, <2>1 DEF Goto, IInv, LocalTypes, PCs
  <2>3. LocalAt(o)'
    BY <1>1, <1>9, <2>1 DEF Goto, IInv, LocalTypes, LocalInv, LocalAt, Decided,
                            ApplyChild, At
  <2>4. LocalInv'
    BY <1>2, <1>9, <2>1, <2>3, MovedLocal DEF Goto, IInv, LocalTypes
  <2> QED BY <2>2, <2>4
<1>10. todo' \in [Operators -> SUBSET Kinds]
  BY DEF ApplyChild, IInv, LocalTypes
<1>11. \E label \in {"count", "apply", "setFailed"} : Goto(o, label)
  BY DEF ApplyChild
<1>12. LocalTypes' /\ LocalInv'
  BY <1>9, <1>10, <1>11
<1> QED BY <1>3, <1>8, <1>12 DEF IInv

(* count_ready_replicas preserves the invariant. *)
LEMMA CountReadyReplicasStep ==
  ASSUME IInv, NEW o \in Operators, CountReadyReplicas(o) PROVE IInv'
<1>1. UNCHANGED specs /\ UNCHANGED failedGens /\ UNCHANGED workload
  BY DEF CountReadyReplicas
<1>2. Grows
  BY <1>1, SpecsKept
<1>3. WorkloadInv'
  BY <1>1, <1>2, WorkloadKept
<1>4. faults' \in Nat
  <2>1. faults' = faults \/ faults' = faults + 1
    BY Zenon DEF CountReadyReplicas, Fault
  <2> QED BY <2>1 DEF IInv, GlobalTypes
<1>5. GlobalTypes' /\ ChildrenInv'
  BY <1>4, GlobalKept DEF CountReadyReplicas, IInv, GlobalTypes
<1>6. CASE Return(o, TRUE)
  BY <1>2, <1>3, <1>5, <1>6, ReturnLocal DEF IInv
<1>7. CASE /\ ready' = [ready EXCEPT ![o] = readyPods]
           /\ Goto(o, "updateStatus")
           /\ UNCHANGED <<found, todo>>
  <2>1. LocalTypes'
    BY <1>7 DEF Goto, IInv, LocalTypes, GlobalTypes, PCs
  <2>2. LocalAt(o)'
    BY <1>1, <1>7 DEF Goto, IInv, LocalTypes, LocalInv, LocalAt, Decided,
                      CountReadyReplicas, At
  <2>3. LocalInv'
    BY <1>2, <1>7, <2>2, MovedLocal DEF Goto, IInv, LocalTypes
  <2> QED BY <1>3, <1>5, <2>1, <2>3 DEF IInv
<1> QED BY <1>6, <1>7 DEF CountReadyReplicas

-----------------------------------------------------------------------------
(* Every step preserves the invariant: kube-rs and the cluster *)

(* A reflector that catches up holds a sane version. *)
LEMMA WatchEventStep ==
  ASSUME IInv, NEW o \in Operators, WatchEvent(o) PROVE IInv'
<1>1. UNCHANGED specs /\ UNCHANGED failedGens /\ UNCHANGED workload
  BY DEF WatchEvent
<1>2. Grows
  BY <1>1, SpecsKept
<1>3. WorkloadInv'
  BY <1>1, <1>2, WorkloadKept
<1>4. GlobalTypes' /\ ChildrenInv'
  BY GlobalKept DEF WatchEvent, budgetVars, IInv, GlobalTypes
<1>5. Sane(workload, specs, failedGens) /\ workload \in WorkloadType
  BY DEF IInv, WorkloadInv, Sane
<1>6. LocalTypes'
  BY <1>5 DEF WatchEvent, IInv, LocalTypes
<1>7. LocalAt(o)'
  BY <1>1, <1>5 DEF WatchEvent, IInv, LocalTypes, LocalInv, LocalAt
<1>8. LocalInv'
  BY <1>2, <1>7, MovedLocal DEF WatchEvent, IInv, LocalTypes
<1> QED BY <1>3, <1>4, <1>6, <1>8 DEF IInv

(* Being scheduled changes nothing the invariant speaks of. *)
LEMMA OwnedEventStep ==
  ASSUME IInv, NEW o \in Operators, OwnedEvent(o) PROVE IInv'
<1>1. UNCHANGED specs /\ UNCHANGED failedGens /\ UNCHANGED workload
  BY DEF OwnedEvent
<1>2. Grows
  BY <1>1, SpecsKept
<1>3. WorkloadInv'
  BY <1>1, <1>2, WorkloadKept
<1>4. GlobalTypes' /\ ChildrenInv'
  BY GlobalKept DEF OwnedEvent, budgetVars, IInv, GlobalTypes
<1>5. LocalTypes'
  BY DEF OwnedEvent, IInv, LocalTypes
<1>6. ASSUME NEW q \in Operators PROVE LocalAt(q)'
  BY <1>2, LocalKept DEF OwnedEvent
<1> QED BY <1>3, <1>4, <1>5, <1>6 DEF IInv, LocalInv

(* A restart forgets what reconcile() carried and lists the object anew. *)
LEMMA CrashStep ==
  ASSUME IInv, NEW o \in Operators, Crash(o) PROVE IInv'
<1>1. UNCHANGED specs /\ UNCHANGED failedGens /\ UNCHANGED workload
  BY DEF Crash
<1>2. Grows
  BY <1>1, SpecsKept
<1>3. WorkloadInv'
  BY <1>1, <1>2, WorkloadKept
<1>4. GlobalTypes' /\ ChildrenInv'
  BY DEF Crash, IInv, GlobalTypes, ChildrenInv
<1>5. Sane(workload, specs, failedGens) /\ workload \in WorkloadType
  BY DEF IInv, WorkloadInv, Sane
<1>6. Sane(NoWorkload, specs, failedGens) /\ NoWorkload \in WorkloadType
  BY NoWorkloadSane DEF IInv, GlobalTypes, Sane
<1>7. LocalTypes'
  BY <1>5, <1>6 DEF Crash, IInv, LocalTypes, PCs
<1>8. LocalAt(o)'
  BY <1>1, <1>5, <1>6 DEF Crash, IInv, LocalTypes, LocalInv, LocalAt, Decided
<1>9. LocalInv'
  BY <1>2, <1>8, MovedLocal DEF Crash, IInv, LocalTypes
<1> QED BY <1>3, <1>4, <1>7, <1>9 DEF IInv

(* A new generation: the spec is appended and the object's number follows. *)
LEMMA NewGeneration ==
  ASSUME IInv, workload.exists, NEW sp \in Specs, specs' = Append(specs, sp),
         UNCHANGED <<children, image, readyPods, opVars, failedGens, budgetVars>>,
         NEW w, w.generation = workload.generation + 1,
         w \in WorkloadType, w.exists, w.observed = workload.observed,
         w.storePath = workload.storePath,
         workload' = w \/ workload' = Settle(w)
  PROVE  IInv'
<1>1. /\ specs \in Seq(Specs) /\ specs' \in Seq(Specs)
      /\ Len(specs') = Len(specs) + 1
      /\ \A i \in 1..Len(specs) : specs'[i] = specs[i]
  BY DEF IInv, GlobalTypes
<1>2. Grows
  BY <1>1 DEF Grows
<1>3. LocalTypes' /\ LocalInv'
  BY <1>2, IdleLocal
<1>4. GlobalTypes' /\ ChildrenInv'
  BY <1>1 DEF budgetVars, IInv, GlobalTypes, ChildrenInv
<1>5. Sane(workload, specs', failedGens')
  BY <1>1, <1>2, SaneGrows DEF Grows, IInv, WorkloadInv
<1>6. workload.generation = Len(specs)
  BY DEF IInv, WorkloadInv
<1>7. Sane(w, specs', failedGens') /\ w.generation = Len(specs')
  BY <1>1, <1>5, <1>6 DEF Sane, Fresh, WorkloadType
<1>8. WorkloadInv'
  BY <1>1, <1>7, SettleSane DEF WorkloadInv
<1> QED BY <1>3, <1>4, <1>8 DEF IInv

(* A user's edit preserves the invariant. *)
LEMMA EditSpecStep ==
  ASSUME IInv, EditSpec PROVE IInv'
<1> DEFINE w == [workload EXCEPT !.generation = @ + 1]
<1>1. PICK sp \in Specs : specs' = Append(specs, sp)
  BY DEF EditSpec
<1>2. workload \in WorkloadType /\ workload.exists
  BY DEF IInv, WorkloadInv, Sane, EditSpec
<1>3. /\ w \in WorkloadType /\ w.exists /\ w.generation = workload.generation + 1
      /\ w.observed = workload.observed /\ w.storePath = workload.storePath
  BY <1>2 DEF WorkloadType
<1>4. /\ workload' = w
      /\ UNCHANGED <<children, image, readyPods, opVars, failedGens, budgetVars>>
  BY DEF EditSpec
<1> HIDE DEF w
<1> QED BY <1>1, <1>2, <1>3, <1>4, NewGeneration

(* Stated for any set B in the place of BOOLEAN: SMT wants no Boolean terms. *)
LEMMA MarkVersion ==
  ASSUME NEW B, NEW P, NEW S, NEW F, NEW d \in B, NEW g \in Nat,
         NEW x \in [exists : B, generation : Nat, finalizers : F, deleting : B,
                    phase : P, observed : Nat, storePath : S]
  PROVE  LET w == [x EXCEPT !.deleting = d, !.generation = g]
         IN  /\ w \in [exists : B, generation : Nat, finalizers : F, deleting : B,
                       phase : P, observed : Nat, storePath : S]
             /\ w.exists = x.exists /\ w.generation = g
             /\ w.observed = x.observed /\ w.storePath = x.storePath
OBVIOUS

(* The object with deletionTimestamp and a new generation is sane. *)
LEMMA MarkDeleted ==
  ASSUME NEW x \in WorkloadType
  PROVE  LET w == [x EXCEPT !.deleting = TRUE, !.generation = @ + 1]
         IN  /\ w \in WorkloadType /\ w.exists = x.exists
             /\ w.generation = x.generation + 1
             /\ w.observed = x.observed /\ w.storePath = x.storePath
<1> DEFINE g == x.generation + 1
<1>1. g \in Nat
  BY DEF WorkloadType
<1>2. TRUE \in BOOLEAN
  OBVIOUS
<1> QED BY <1>1, <1>2, MarkVersion, Zenon DEF WorkloadType

(* Marking the workload for deletion preserves the invariant. *)
LEMMA DeleteWorkloadStep ==
  ASSUME IInv, DeleteWorkload PROVE IInv'
<1> DEFINE w == [workload EXCEPT !.deleting = TRUE, !.generation = @ + 1]
<1>1. workload \in WorkloadType /\ workload.exists
  BY DEF IInv, WorkloadInv, Sane, DeleteWorkload
<1>2. specs[Len(specs)] \in Specs
  <2>1. workload.generation \in 1..Len(specs) /\ workload.generation = Len(specs)
    BY <1>1, SpecOfType DEF IInv, WorkloadInv
  <2> QED BY <2>1 DEF IInv, GlobalTypes
<1>3. /\ w \in WorkloadType /\ w.exists /\ w.generation = workload.generation + 1
      /\ w.observed = workload.observed /\ w.storePath = workload.storePath
  BY <1>1, MarkDeleted, Zenon
<1>4. /\ workload' = Settle(w) /\ specs' = Append(specs, specs[Len(specs)])
      /\ UNCHANGED <<children, image, readyPods, opVars, failedGens, budgetVars>>
  BY DEF DeleteWorkload
<1> HIDE DEF w
<1> QED BY <1>1, <1>2, <1>3, <1>4, NewGeneration

(* Another controller's finalizer coming or going preserves the invariant. *)
LEMMA OtherFinalizerStep ==
  ASSUME IInv, OtherAddsFinalizer \/ OtherRemovesFinalizer PROVE IInv'
<1>1. UNCHANGED specs /\ UNCHANGED failedGens /\ UNCHANGED opVars
  BY DEF OtherAddsFinalizer, OtherRemovesFinalizer
<1>2. LocalTypes' /\ LocalInv'
  BY <1>1, SpecsKept, IdleLocal
<1>3. GlobalTypes' /\ ChildrenInv'
  BY DEF OtherAddsFinalizer, OtherRemovesFinalizer, budgetVars, IInv,
         GlobalTypes, ChildrenInv
<1>4. PICK list \in SUBSET {Own, Other} :
        LET w == [workload EXCEPT !.finalizers = list]
        IN  workload' = w \/ workload' = Settle(w)
  <2>1. workload.finalizers \in SUBSET {Own, Other}
    BY DEF IInv, WorkloadInv, Sane, WorkloadType
  <2>2. CASE OtherAddsFinalizer
    <3>1. workload.finalizers \cup {Other} \in SUBSET {Own, Other}
      BY <2>1
    <3>2. workload' = [workload EXCEPT !.finalizers = workload.finalizers \cup {Other}]
      BY <2>2 DEF OtherAddsFinalizer
    <3> QED BY <3>1, <3>2
  <2>3. CASE OtherRemovesFinalizer
    <3>1. workload.finalizers \ {Other} \in SUBSET {Own, Other}
      BY <2>1
    <3>2. workload' = Settle([workload EXCEPT !.finalizers = workload.finalizers \ {Other}])
      BY <2>3 DEF OtherRemovesFinalizer, WithFinalizers
    <3> QED BY <3>1, <3>2
  <2> QED BY <2>2, <2>3
<1> DEFINE w == [workload EXCEPT !.finalizers = list]
<1>5. Sane(w, specs, failedGens) /\ w.generation = workload.generation
        /\ w.exists = workload.exists
  BY DEF IInv, WorkloadInv, Sane, Fresh, WorkloadType
<1>6. Sane(Settle(w), specs, failedGens) /\ (Settle(w) = w \/ ~Settle(w).exists)
  BY <1>5, SettleSane DEF IInv, GlobalTypes
<1>7. workload' = w \/ workload' = Settle(w)
  BY <1>4
<1>8. WorkloadInv'
  <2> HIDE DEF w
  <2> QED BY <1>1, <1>5, <1>6, <1>7 DEF IInv, WorkloadInv
<1> QED BY <1>2, <1>3, <1>8 DEF IInv

(* Garbage collection and pods coming and going preserve the invariant. *)
LEMMA ClusterStep ==
  ASSUME IInv, CollectGarbage \/ PodReady \/ PodStopped \/ PodUnready PROVE IInv'
<1>1. UNCHANGED specs /\ UNCHANGED failedGens /\ UNCHANGED opVars /\ UNCHANGED workload
  BY DEF CollectGarbage, PodReady, PodStopped, PodUnready
<1>2. Grows
  BY <1>1, SpecsKept
<1>3. LocalTypes' /\ LocalInv'
  BY <1>1, <1>2, IdleLocal
<1>4. WorkloadInv'
  BY <1>1, <1>2, WorkloadKept
<1>5. DesiredPods \in Nat
  <2>1. CASE children["Deployment"] = 0
    BY <2>1 DEF DesiredPods
  <2>2. CASE children["Deployment"] # 0
    <3>1. children["Deployment"] \in 1..Len(specs)
      BY <2>2 DEF IInv, GlobalTypes, ChildrenInv, Kinds
    <3>2. specs[children["Deployment"]].replicas \in Nat
      BY <3>1, SpecsAssumption DEF IInv, GlobalTypes, SpecType
    <3> QED BY <3>2 DEF DesiredPods
  <2> QED BY <2>1, <2>2
<1>6. CASE CollectGarbage
  BY <1>3, <1>4, <1>6 DEF CollectGarbage, budgetVars, IInv, GlobalTypes, ChildrenInv
<1>7. CASE PodReady
  BY <1>3, <1>4, <1>7 DEF PodReady, budgetVars, IInv, GlobalTypes, ChildrenInv
<1>8. CASE PodStopped
  BY <1>3, <1>4, <1>5, <1>8 DEF PodStopped, budgetVars, IInv, GlobalTypes, ChildrenInv
<1>9. CASE PodUnready
  BY <1>3, <1>4, <1>9 DEF PodUnready, budgetVars, IInv, GlobalTypes, ChildrenInv
<1> QED BY <1>6, <1>7, <1>8, <1>9

-----------------------------------------------------------------------------
(* The theorems *)

(* The invariant holds when the workload is first seen. *)
LEMMA InitIInv == Init => IInv
<1> SUFFICES ASSUME Init PROVE IInv
  OBVIOUS
<1>1. PICK sp \in Specs : specs = <<sp>>
  BY DEF Init
<1>2. specs \in Seq(Specs) /\ Len(specs) = 1
  BY <1>1
<1>3. PICK f \in SUBSET {Other} :
        workload = [NoWorkload EXCEPT !.exists = TRUE, !.generation = 1, !.finalizers = f]
  BY DEF Init
<1>4. Sane(workload, specs, {}) /\ workload.generation = 1
  <2>1. /\ workload \in WorkloadType /\ workload.generation = 1
        /\ workload.observed = 0
    BY <1>3 DEF NoWorkload, WorkloadType, Phases
  <2> QED BY <1>2, <2>1 DEF Sane, Fresh
<1>5. Sane(NoWorkload, specs, {})
  BY <1>2, NoWorkloadSane
<1>6. GlobalTypes /\ WorkloadInv /\ ChildrenInv
  BY <1>2, <1>4 DEF Init, GlobalTypes, WorkloadInv, ChildrenInv
<1>7. LocalTypes
  BY <1>4, <1>5 DEF Init, LocalTypes, Sane, PCs
<1>8. LocalInv
  BY <1>4, <1>5 DEF Init, LocalInv, LocalAt, Decided
<1> QED BY <1>6, <1>7, <1>8 DEF IInv

(* Every step of any operator or of its environment preserves the invariant. *)
LEMMA NextIInv == IInv /\ [Next]_vars => IInv'
<1> SUFFICES ASSUME IInv, [Next]_vars PROVE IInv'
  OBVIOUS
<1>1. CASE UNCHANGED vars
  <2>1. UNCHANGED specs /\ UNCHANGED failedGens /\ UNCHANGED opVars /\ UNCHANGED workload
    BY <1>1 DEF vars
  <2>2. Grows
    BY <2>1, SpecsKept
  <2>3. LocalTypes' /\ LocalInv'
    BY <2>1, <2>2, IdleLocal
  <2>4. WorkloadInv'
    BY <2>1, <2>2, WorkloadKept
  <2> QED BY <1>1, <2>3, <2>4 DEF vars, budgetVars, IInv, GlobalTypes, ChildrenInv
<1>2. ASSUME NEW o \in Operators, Step(o) PROVE IInv'
  BY <1>2, ReconcileStep, AddFinalizerStep, RemoveFinalizerStep,
     SetPhaseEvaluatingStep, CallEvalWebhookStep, SetPhaseProvisioningStep,
     ApplyChildStep, SetFailedStep, CountReadyReplicasStep, UpdateStatusStep,
     Zenon DEF Step
<1>3. ASSUME NEW o \in Operators, WatchEvent(o) \/ OwnedEvent(o) \/ Crash(o)
      PROVE  IInv'
  BY <1>3, WatchEventStep, OwnedEventStep, CrashStep
<1>4. CASE Environment
  BY <1>4, EditSpecStep, DeleteWorkloadStep, OtherFinalizerStep, ClusterStep
     DEF Environment
<1> QED BY <1>1, <1>2, <1>3, <1>4, Zenon DEF Next

(***************************************************************************)
(* The inductive invariant holds in every behaviour: every copy of the     *)
(* object, live or stale, carries the store path of the generation it      *)
(* says it observed unless that generation failed, and reconcile() only    *)
(* goes past evaluation with the path of its snapshot's own spec.          *)
(***************************************************************************)
THEOREM ReconcilerInvariant == Spec => []IInv
BY InitIInv, NextIInv, PTL DEF Spec

(* Type correctness of the reconcile loop's state. *)
THEOREM TypeCorrect == Spec => []TypeOK
<1>1. IInv => TypeOK
  BY SplitTypes
<1> QED BY <1>1, ReconcilerInvariant, PTL

(***************************************************************************)
(* With any number of operators at once, an observed generation that never *)
(* failed carries the store path its own spec evaluates to.                *)
(***************************************************************************)
THEOREM FreshTheorem == Spec => []FreshUnlessFailed
<1>1. IInv => FreshUnlessFailed
  BY DEF IInv, WorkloadInv, Sane, Fresh, FreshUnlessFailed
<1> QED BY <1>1, ReconcilerInvariant, PTL

-----------------------------------------------------------------------------
(* What add_finalizer and remove_finalizer may not do *)

(* A list that names another finalizer replaces the list: the object stays, *)
(* and so does that finalizer.                                              *)
LEMMA ListWritten ==
  ASSUME workload \in WorkloadType, Other \in workload.finalizers, faults \in Nat,
         NEW list, Other \in list,
         \/ PatchOk(AcceptsFinalizers(list), WithFinalizers(list))
         \/ PatchErr(AcceptsFinalizers(list), WithFinalizers(list))
  PROVE  Other \in workload'.finalizers
<1> DEFINE w == [workload EXCEPT !.finalizers = list]
<1>1. workload' = workload \/ workload' = WithFinalizers(list)
  BY PatchResult, Zenon
<1>2. w.finalizers = list
  BY DEF WorkloadType
<1>3. WithFinalizers(list) = w
  <2>1. w.finalizers # {}
    BY <1>2
  <2> HIDE DEF w
  <2>2. Settle(w) = w
    BY <2>1, Zenon DEF Settle
  <2> QED BY <2>2 DEF WithFinalizers, w
<1> QED BY <1>1, <1>2, <1>3

(* A call that is under way when another operator moves stays under way. *)
LEMMA OnlyOwnSteps ==
  ASSUME IInv, [Next]_vars, NEW o \in Operators, pc'[o] # pc[o]
  PROVE  Step(o) \/ Crash(o)
<1>1. ASSUME UNCHANGED pc PROVE FALSE
  BY <1>1
<1>2. ~(Environment \/ UNCHANGED vars)
  BY <1>1 DEF Environment, EditSpec, DeleteWorkload, OtherAddsFinalizer,
     OtherRemovesFinalizer, CollectGarbage, PodReady, PodStopped, PodUnready,
     vars, opVars
<1>3. PICK q \in Operators : Step(q) \/ WatchEvent(q) \/ OwnedEvent(q) \/ Crash(q)
  BY <1>2, Zenon DEF Next
<1>4. ~WatchEvent(q) /\ ~OwnedEvent(q)
  BY <1>1 DEF WatchEvent, OwnedEvent
<1>5. \E label : pc' = [pc EXCEPT ![q] = label]
  <2>1. CASE Crash(q)
    BY <2>1 DEF Crash
  <2>2. CASE Step(q)
    BY <2>2 DEF Step, Reconcile, AddFinalizer, RemoveFinalizer, SetPhaseEvaluating,
       CallEvalWebhook, SetPhaseProvisioning, ApplyChild, SetFailed,
       CountReadyReplicas, UpdateStatus, Goto, Return
  <2> QED BY <1>3, <1>4, <2>1, <2>2
<1>6. q = o
  BY <1>5 DEF IInv, LocalTypes
<1> QED BY <1>3, <1>4, <1>6

(***************************************************************************)
(* With any number of operators, and however late, lost or repeated their  *)
(* patches: add_finalizer and remove_finalizer never drop a finalizer of   *)
(* another controller that their snapshot has.                             *)
(***************************************************************************)
THEOREM SeenFinalizersTheorem == Spec => SeenFinalizersKept
<1> DEFINE Kept == \A o \in Operators :
             pc[o] \in {"addFinalizer", "removeFinalizer"} /\ pc'[o] = "idle"
               /\ Other \in snap[o].finalizers \cap workload.finalizers
               => Other \in workload'.finalizers
<1>1. ASSUME IInv, [Next]_vars PROVE Kept
  <2> SUFFICES ASSUME NEW o \in Operators,
                      pc[o] \in {"addFinalizer", "removeFinalizer"}, pc'[o] = "idle",
                      Other \in snap[o].finalizers, Other \in workload.finalizers
               PROVE  Other \in workload'.finalizers
    BY Zenon
  <2>1. workload \in WorkloadType /\ faults \in Nat
    BY <1>1 DEF IInv, GlobalTypes, WorkloadInv, Sane
  <2>2. Step(o) \/ Crash(o)
    BY <1>1, OnlyOwnSteps
  <2>3. CASE Crash(o)
    BY <2>3 DEF Crash
  <2>4. CASE AddFinalizer(o)
    <3> DEFINE list == snap[o].finalizers \cup {Own}
    <3>1. \/ PatchOk(AcceptsFinalizers(list), WithFinalizers(list))
          \/ PatchErr(AcceptsFinalizers(list), WithFinalizers(list))
      BY <2>4 DEF AddFinalizer
    <3>2. Other \in list
      OBVIOUS
    <3> HIDE DEF list
    <3> QED BY <2>1, <3>1, <3>2, ListWritten
  <2>5. CASE RemoveFinalizer(o)
    <3> DEFINE list == snap[o].finalizers \ {Own}
    <3>1. \/ PatchOk(AcceptsFinalizers(list), WithFinalizers(list))
          \/ PatchErr(AcceptsFinalizers(list), WithFinalizers(list))
      BY <2>5, Zenon DEF RemoveFinalizer
    <3>2. Other \in list
      BY DEF Own, Other
    <3> HIDE DEF list
    <3> QED BY <2>1, <3>1, <3>2, ListWritten
  <2>6. ASSUME Step(o), ~AddFinalizer(o), ~RemoveFinalizer(o) PROVE FALSE
    BY <2>6 DEF Step, Reconcile, SetPhaseEvaluating, CallEvalWebhook,
       SetPhaseProvisioning, ApplyChild, SetFailed, CountReadyReplicas,
       UpdateStatus, At
  <2> QED BY <2>2, <2>3, <2>4, <2>5, <2>6
<1>2. IInv /\ [Next]_vars => [Kept]_vars
  BY <1>1
<1> HIDE DEF Kept
<1>3. Spec => [][Kept]_vars
  BY <1>2, ReconcilerInvariant, PTL DEF Spec
<1> QED BY <1>3 DEF Kept, SeenFinalizersKept

-----------------------------------------------------------------------------
(***************************************************************************)
(* What the reconcile loop guarantees when one operator is at work, as     *)
(* leader election is there to ensure.  With two operators each of these   *)
(* can fail (run reconciler_dual shows one failure).                       *)
(***************************************************************************)

SoleOperator == \A o, q \in Operators : o = q

-----------------------------------------------------------------------------
(* The inductive invariant *)

Working == {"phaseEvaluating", "eval", "phaseProvisioning", "apply",
            "setFailed", "count", "updateStatus"}

(* No copy is so old that its generation is below the observed one. *)
OrderOK(o) ==
  workload.exists =>
    /\ workload.observed <= cached[o].generation
    /\ pc[o] # "idle" => /\ workload.observed <= snap[o].generation
                         /\ snap[o].generation <= cached[o].generation

(* Deletion is never taken back, and the finalizer only removed after the *)
(* reflector has seen it.                                                  *)
MarkedOK(o) ==
  /\ cached[o].deleting => ~workload.exists \/ workload.deleting
  /\ ~cached[o].exists => ~workload.exists
  /\ pc[o] = "removeFinalizer" => ~cached[o].exists \/ cached[o].deleting

Held == workload.exists /\ Own \in workload.finalizers

(* A copy not marked for deletion that has our finalizer is right about it. *)
HeldOK(o) ==
  /\ cached[o].exists /\ Own \in cached[o].finalizers => cached[o].deleting \/ Held
  /\ pc[o] \in Working => Held

(* What apply_child_resources has written so far, under a phase other than *)
(* Running.                                                                *)
WrittenOK(o) ==
  pc[o] \in {"apply", "count", "updateStatus"} =>
    /\ workload.phase # "Running"
    /\ \A k \in Wanted(SpecOf(snap[o])) \ (IF pc[o] = "apply" THEN todo[o] ELSE {}) :
          /\ children[k] = snap[o].generation
          /\ k = "Deployment" => image = found[o]

RunningOK ==
  workload.exists /\ workload.phase = "Running"
    => workload.observed >= 1 /\ RunningMatchesChildren

SoleAt(o) == OrderOK(o) /\ MarkedOK(o) /\ HeldOK(o) /\ WrittenOK(o)

SInv == IInv /\ RunningOK /\ \A o \in Operators : SoleAt(o)

-----------------------------------------------------------------------------
(* How the object may move *)

(* Deletion is not taken back and a deleted object does not come back. *)
Ages ==
  workload'.exists => /\ workload.exists
                      /\ workload.deleting => workload'.deleting

(* The object is not reported Running where it was not, and the report of *)
(* an object that is Running still says the same.                         *)
RunningAsBefore ==
  workload'.exists /\ workload'.phase = "Running"
    => /\ workload.exists /\ workload.phase = "Running"
       /\ workload'.observed = workload.observed
       /\ workload'.storePath = workload.storePath

(* Running means the same as before, while specs are appended. *)
LEMMA RunningKept ==
  ASSUME SInv, Grows, RunningAsBefore,
         UNCHANGED <<children, image>> \/ ~workload'.exists
  PROVE  RunningOK'
<1> SUFFICES ASSUME workload'.exists, workload'.phase = "Running"
             PROVE  workload'.observed >= 1 /\ RunningMatchesChildren'
  BY DEF RunningOK
<1>1. /\ workload.exists /\ workload.phase = "Running"
      /\ workload'.observed = workload.observed
      /\ workload'.storePath = workload.storePath
      /\ children' = children /\ image' = image
  BY DEF RunningAsBefore
<1>2. workload.observed >= 1 /\ RunningMatchesChildren
  BY <1>1 DEF SInv, RunningOK
<1>3. workload.observed \in 1..Len(specs)
  BY <1>2 DEF SInv, IInv, GlobalTypes, WorkloadInv, Sane, WorkloadType
<1>4. specs'[workload'.observed] = specs[workload.observed]
  BY <1>1, <1>3 DEF Grows
<1> QED BY <1>1, <1>2, <1>4 DEF RunningMatchesChildren

(* The snapshot's spec stays what it is. *)
LEMMA SnapSpecKept ==
  ASSUME SInv, Grows, NEW o \in Operators, pc[o] # "idle"
  PROVE  specs'[snap[o].generation] = specs[snap[o].generation]
<1>1. Sane(snap[o], specs, failedGens) /\ snap[o].exists
  BY DEF SInv, IInv, LocalInv, LocalAt
<1>2. snap[o].generation \in 1..Len(specs)
  BY <1>1, SpecOfType DEF SInv, IInv
<1> QED BY <1>2 DEF Grows

(* Users, other controllers and the cluster move; the operator does not. *)
LEMMA Framed ==
  ASSUME SInv, IInv', Grows, Ages, RunningAsBefore, UNCHANGED opVars,
         UNCHANGED <<children, image>> \/ ~workload.exists,
         workload'.exists => workload'.observed = workload.observed,
         workload'.exists => workload'.phase = workload.phase,
         Held => Held'
  PROVE  SInv'
<1>1. RunningOK'
  BY RunningKept DEF Ages
<1>2. ASSUME NEW o \in Operators PROVE SoleAt(o)'
  <2>1. /\ cached'[o] = cached[o] /\ snap'[o] = snap[o] /\ pc'[o] = pc[o]
        /\ found'[o] = found[o] /\ todo'[o] = todo[o]
    BY DEF opVars
  <2>2. SoleAt(o)
    BY DEF SInv
  <2>3. OrderOK(o)'
    BY <2>1, <2>2 DEF SoleAt, OrderOK, Ages
  <2>4. MarkedOK(o)'
    BY <2>1, <2>2 DEF SoleAt, MarkedOK, Ages
  <2>5. HeldOK(o)'
    BY <2>1, <2>2 DEF SoleAt, HeldOK
  <2>6. WrittenOK(o)'
    <3> SUFFICES ASSUME pc[o] \in {"apply", "count", "updateStatus"}
                 PROVE  WrittenOK(o)'
      BY <2>1 DEF WrittenOK
    <3>1. Held /\ Held'
      BY <2>2 DEF SoleAt, HeldOK, Working
    <3>2. specs'[snap[o].generation] = specs[snap[o].generation]
      BY SnapSpecKept
    <3>3. children' = children /\ image' = image /\ workload'.phase = workload.phase
      BY <3>1 DEF Held
    <3> QED BY <2>1, <2>2, <3>2, <3>3 DEF SoleAt, WrittenOK, SpecOf
  <2> QED BY <2>3, <2>4, <2>5, <2>6 DEF SoleAt
<1> QED BY <1>1, <1>2 DEF SInv

(* reconcile() returns. *)
LEMMA Returned ==
  ASSUME SInv, IInv', SoleOperator, NEW o \in Operators, NEW r, Return(o, r),
         Ages, RunningOK',
         workload'.exists => workload'.observed <= cached[o].generation,
         Held => Held' \/ pc[o] = "removeFinalizer"
  PROVE  SInv'
<1>1. pc'[o] = "idle" /\ cached'[o] = cached[o]
  BY DEF Return, SInv, IInv, LocalTypes
<1>2. SoleAt(o)
  BY DEF SInv
<1>3. OrderOK(o)'
  BY <1>1 DEF OrderOK
<1>4. MarkedOK(o)'
  BY <1>1, <1>2 DEF SoleAt, MarkedOK, Ages
<1>5. HeldOK(o)'
  BY <1>1, <1>2 DEF SoleAt, MarkedOK, HeldOK, Working
<1>6. WrittenOK(o)'
  BY <1>1 DEF WrittenOK
<1>7. SoleAt(o)'
  BY <1>3, <1>4, <1>5, <1>6 DEF SoleAt
<1> QED BY <1>7 DEF SoleOperator, SInv

(* reconcile() goes on to its next call. *)
LEMMA Continued ==
  ASSUME SInv, IInv', SoleOperator, NEW o \in Operators, NEW label, Goto(o, label),
         label \in Working, pc[o] \in Working, Ages, RunningOK',
         workload'.exists => workload'.observed = workload.observed,
         Held => Held', WrittenOK(o)'
  PROVE  SInv'
<1>1. pc'[o] = label /\ cached'[o] = cached[o] /\ snap'[o] = snap[o]
  BY DEF Goto, SInv, IInv, LocalTypes
<1>2. SoleAt(o) /\ label # "removeFinalizer" /\ pc[o] # "idle"
  BY DEF SInv, Working
<1>3. OrderOK(o)'
  BY <1>1, <1>2 DEF SoleAt, OrderOK, Ages
<1>4. MarkedOK(o)'
  BY <1>1, <1>2 DEF SoleAt, MarkedOK, Ages
<1>5. HeldOK(o)'
  BY <1>1, <1>2 DEF SoleAt, HeldOK
<1>6. SoleAt(o)'
  BY <1>3, <1>4, <1>5 DEF SoleAt
<1> QED BY <1>6 DEF SoleOperator, SInv

-----------------------------------------------------------------------------
(* What the writes do *)

(* A finalizer list is written, and the object may go with its last one. *)
LEMMA ListEffect ==
  ASSUME workload \in WorkloadType, NEW list, NEW w,
         w = [workload EXCEPT !.finalizers = list],
         workload' = workload \/ workload' = w \/ workload' = Settle(w)
  PROVE  /\ Ages /\ RunningAsBefore
         /\ workload'.exists => workload'.observed = workload.observed
         /\ workload'.exists => workload'.phase = workload.phase
         /\ Own \in list => (Held => Held')
<1>1. /\ w.exists = workload.exists /\ w.deleting = workload.deleting
      /\ w.phase = workload.phase /\ w.observed = workload.observed
      /\ w.storePath = workload.storePath /\ w.finalizers = list
  BY DEF WorkloadType
<1>2. workload' = workload \/ workload' = w \/ workload' = NoWorkload
  BY DEF Settle
<1>3. Own \in list => workload' = workload \/ workload' = w
  BY <1>1 DEF Settle
<1>4. ~NoWorkload.exists
  BY DEF NoWorkload
<1> QED BY <1>1, <1>2, <1>3, <1>4 DEF Ages, RunningAsBefore, Held

(* The PATCH of a finalizer list is one of those. *)
LEMMA PatchList ==
  ASSUME IInv, NEW list,
         \/ PatchOk(AcceptsFinalizers(list), WithFinalizers(list))
         \/ PatchErr(AcceptsFinalizers(list), WithFinalizers(list))
  PROVE  /\ Ages /\ RunningAsBefore
         /\ workload'.exists => workload'.observed = workload.observed
         /\ Own \in list => (Held => Held')
<1>1. faults \in Nat /\ workload \in WorkloadType
  BY DEF IInv, GlobalTypes, WorkloadInv, Sane
<1>2. workload' = workload \/ workload' = WithFinalizers(list)
  BY <1>1, PatchResult, Zenon
<1> QED BY <1>1, <1>2, ListEffect DEF WithFinalizers

(* The PATCH of the phase. *)
LEMMA PatchPhase ==
  ASSUME IInv, NEW p, p # "Running",
         \/ PatchOk(workload.exists, [workload EXCEPT !.phase = p])
         \/ PatchErr(workload.exists, [workload EXCEPT !.phase = p])
  PROVE  /\ Ages /\ RunningAsBefore
         /\ workload'.observed = workload.observed
         /\ (Held => Held')
<1> DEFINE w == [workload EXCEPT !.phase = p]
<1>1. faults \in Nat /\ workload \in WorkloadType
  BY DEF IInv, GlobalTypes, WorkloadInv, Sane
<1>2. workload' = workload \/ workload' = w
  BY <1>1, PatchResult, Zenon
<1>3. /\ w.exists = workload.exists /\ w.deleting = workload.deleting
      /\ w.phase = p /\ w.observed = workload.observed
      /\ w.finalizers = workload.finalizers
  BY <1>1 DEF WorkloadType
<1> HIDE DEF w
<1> QED BY <1>2, <1>3 DEF Ages, RunningAsBefore, Held

-----------------------------------------------------------------------------
(* Every step of reconcile() preserves the invariant *)

(* The object, the children and the specs stand still. *)
LEMMA StillWorld ==
  ASSUME SInv, UNCHANGED <<specs, failedGens, workload, children, image>>
  PROVE  /\ Grows /\ Ages /\ RunningOK'
         /\ workload'.exists => workload'.observed = workload.observed
         /\ (Held => Held')
<1>1. Grows
  BY SpecsKept DEF SInv
<1>2. Ages /\ RunningAsBefore
  BY DEF Ages, RunningAsBefore
<1> QED BY <1>1, <1>2, RunningKept DEF Held

(* What the object says was observed is no newer than the copies. *)
LEMMA ObservedBelow ==
  ASSUME SInv, NEW o \in Operators, Ages,
         workload'.exists => workload'.observed = workload.observed
  PROVE  workload'.exists => workload'.observed <= cached[o].generation
BY DEF SInv, SoleAt, OrderOK, Ages

(* reconcile() starts from a copy that is right about our finalizer. *)
LEMMA SoleReconcile ==
  ASSUME SInv, IInv', SoleOperator, NEW o \in Operators, Reconcile(o) PROVE SInv'
<1> DEFINE next == Dispatch(cached[o])
<1>1. UNCHANGED <<specs, failedGens, workload, children, image>>
  BY DEF Reconcile
<1>2. /\ Ages /\ RunningOK' /\ (Held => Held')
      /\ workload'.exists => workload'.observed = workload.observed
  BY <1>1, StillWorld
<1>3. CASE next = "idle"
  <2>1. Return(o, TRUE)
    BY <1>3 DEF Reconcile
  <2> QED BY <1>2, <2>1, ObservedBelow, Returned
<1>4. CASE next # "idle"
  <2>1. pc'[o] = next /\ snap'[o] = cached[o] /\ cached'[o] = cached[o]
    BY <1>4 DEF Reconcile, SInv, IInv, LocalTypes
  <2>2. SoleAt(o) /\ cached[o].exists
    BY DEF SInv, Reconcile
  <2>3. /\ next = "removeFinalizer" => cached[o].deleting
        /\ next \in Working => ~cached[o].deleting /\ Own \in cached[o].finalizers
        /\ next \notin {"apply", "count", "updateStatus"}
    BY DEF Dispatch, Working
  <2> HIDE DEF next
  <2>4. cached[o].generation \in Nat
    BY DEF SInv, IInv, LocalTypes, WorkloadType
  <2>5. OrderOK(o)'
    BY <1>1, <2>1, <2>2, <2>4 DEF SoleAt, OrderOK
  <2>6. MarkedOK(o)'
    BY <1>1, <2>1, <2>2, <2>3 DEF SoleAt, MarkedOK
  <2>7. HeldOK(o)'
    BY <1>2, <2>1, <2>2, <2>3 DEF SoleAt, HeldOK
  <2>8. WrittenOK(o)'
    BY <2>1, <2>3 DEF WrittenOK
  <2>9. SoleAt(o)'
    BY <2>5, <2>6, <2>7, <2>8 DEF SoleAt
  <2> QED BY <1>2, <2>9 DEF SoleOperator, SInv
<1> QED BY <1>3, <1>4

(* add_finalizer and remove_finalizer. *)
LEMMA SoleFinalizer ==
  ASSUME SInv, IInv', SoleOperator, NEW o \in Operators,
         AddFinalizer(o) \/ RemoveFinalizer(o)
  PROVE  SInv'
<1>1. UNCHANGED <<specs, failedGens, children, image>>
  BY DEF AddFinalizer, RemoveFinalizer
<1>2. Grows
  BY <1>1, SpecsKept DEF SInv
<1>3. /\ Ages /\ RunningAsBefore
      /\ workload'.exists => workload'.observed = workload.observed
      /\ Held => Held' \/ pc[o] = "removeFinalizer"
  <2>1. CASE AddFinalizer(o)
    <3> DEFINE list == snap[o].finalizers \cup {Own}
    <3>1. \/ PatchOk(AcceptsFinalizers(list), WithFinalizers(list))
          \/ PatchErr(AcceptsFinalizers(list), WithFinalizers(list))
      BY <2>1 DEF AddFinalizer
    <3>2. Own \in list
      OBVIOUS
    <3> HIDE DEF list
    <3> QED BY <3>1, <3>2, PatchList DEF SInv
  <2>2. CASE RemoveFinalizer(o)
    <3> DEFINE list == snap[o].finalizers \ {Own}
    <3>1. \/ PatchOk(AcceptsFinalizers(list), WithFinalizers(list))
          \/ PatchErr(AcceptsFinalizers(list), WithFinalizers(list))
      BY <2>2, Zenon DEF RemoveFinalizer
    <3>2. pc[o] = "removeFinalizer"
      BY <2>2 DEF RemoveFinalizer, At
    <3> HIDE DEF list
    <3> QED BY <3>1, <3>2, PatchList DEF SInv
  <2> QED BY <2>1, <2>2
<1>4. RunningOK'
  BY <1>1, <1>2, <1>3, RunningKept
<1>5. Return(o, TRUE) \/ Return(o, FALSE)
  BY DEF AddFinalizer, RemoveFinalizer
<1> QED BY <1>3, <1>4, <1>5, ObservedBelow, Returned

(* set_phase(Evaluating). *)
LEMMA SoleEvaluating ==
  ASSUME SInv, IInv', SoleOperator, NEW o \in Operators, SetPhaseEvaluating(o)
  PROVE  SInv'
<1>1. UNCHANGED <<specs, failedGens, children, image>> /\ pc[o] \in Working
  BY DEF SetPhaseEvaluating, At, Working
<1>2. Grows
  BY <1>1, SpecsKept DEF SInv
<1>3. /\ Ages /\ RunningAsBefore /\ (Held => Held')
      /\ workload'.observed = workload.observed
  <2>1. "Evaluating" # "Running"
    OBVIOUS
  <2> QED BY <2>1, PatchPhase, Zenon DEF SetPhaseEvaluating, SInv
<1>4. RunningOK'
  BY <1>1, <1>2, <1>3, RunningKept
<1>5. CASE Return(o, TRUE)
  BY <1>3, <1>4, <1>5, ObservedBelow, Returned
<1>6. CASE Goto(o, "eval")
  <2>1. WrittenOK(o)' /\ "eval" \in Working
    BY <1>6 DEF Goto, SInv, IInv, LocalTypes, WrittenOK, Working
  <2> QED BY <1>1, <1>3, <1>4, <1>6, <2>1, Continued
<1> QED BY <1>5, <1>6 DEF SetPhaseEvaluating

(* call_eval_webhook. *)
LEMMA SoleEval ==
  ASSUME SInv, IInv', SoleOperator, NEW o \in Operators, CallEvalWebhook(o)
  PROVE  SInv'
<1>1. /\ UNCHANGED <<specs, failedGens, workload, children, image>>
      /\ pc[o] \in Working
  BY DEF CallEvalWebhook, At, Working
<1>2. /\ Ages /\ RunningOK' /\ (Held => Held')
      /\ workload'.exists => workload'.observed = workload.observed
  BY <1>1, StillWorld
<1>3. PICK label \in {"phaseProvisioning", "setFailed"} : Goto(o, label)
  BY DEF CallEvalWebhook
<1>4. WrittenOK(o)' /\ label \in Working
  BY <1>3 DEF Goto, SInv, IInv, LocalTypes, WrittenOK, Working
<1> QED BY <1>1, <1>2, <1>3, <1>4, Continued

(* set_phase(Provisioning): from here on nothing says Running. *)
LEMMA SoleProvisioning ==
  ASSUME SInv, IInv', SoleOperator, NEW o \in Operators, SetPhaseProvisioning(o)
  PROVE  SInv'
<1>1. UNCHANGED <<specs, failedGens, children, image>> /\ pc[o] \in Working
  BY DEF SetPhaseProvisioning, At, Working
<1>2. Grows
  BY <1>1, SpecsKept DEF SInv
<1>3. /\ Ages /\ RunningAsBefore /\ (Held => Held')
      /\ workload'.observed = workload.observed
  <2>1. "Provisioning" # "Running"
    OBVIOUS
  <2> QED BY <2>1, PatchPhase, Zenon DEF SetPhaseProvisioning, SInv
<1>4. RunningOK'
  BY <1>1, <1>2, <1>3, RunningKept
<1>5. CASE Return(o, TRUE)
  BY <1>3, <1>4, <1>5, ObservedBelow, Returned
<1>6. CASE /\ PatchOk(workload.exists, [workload EXCEPT !.phase = "Provisioning"])
           /\ Goto(o, "apply")
           /\ todo' = [todo EXCEPT ![o] = Wanted(SpecOf(snap[o]))]
  <2>1. /\ pc'[o] = "apply" /\ snap'[o] = snap[o]
        /\ todo'[o] = Wanted(SpecOf(snap[o]))
    BY <1>6 DEF Goto, SInv, IInv, LocalTypes
  <2>2. workload'.phase # "Running"
    BY <1>6 DEF PatchOk, SInv, IInv, WorkloadInv, Sane, WorkloadType
  <2>3. todo'[o] = Wanted(SpecOf(snap[o]))'
    BY <1>1, <2>1 DEF SpecOf
  <2>4. WrittenOK(o)' /\ "apply" \in Working
    BY <2>1, <2>2, <2>3 DEF WrittenOK, Working
  <2> QED BY <1>1, <1>3, <1>4, <1>6, <2>4, Continued
<1> QED BY <1>5, <1>6 DEF SetPhaseProvisioning

(* One child is applied, or fails to be. *)
LEMMA SoleApply ==
  ASSUME SInv, IInv', SoleOperator, NEW o \in Operators, NEW k \in Kinds,
         ApplyChild(o, k)
  PROVE  SInv'
<1>1. /\ UNCHANGED <<specs, failedGens, workload, found>>
      /\ pc[o] = "apply" /\ pc[o] \in Working
  BY DEF ApplyChild, At, Working
<1>2. SoleAt(o) /\ workload.phase # "Running"
  BY <1>1 DEF SInv, SoleAt, WrittenOK
<1>3. /\ Ages /\ (Held => Held') /\ RunningOK'
      /\ workload'.exists => workload'.observed = workload.observed
  BY <1>1, <1>2 DEF Ages, Held, RunningOK
<1>4. CASE Goto(o, "setFailed")
  <2>1. WrittenOK(o)' /\ "setFailed" \in Working
    BY <1>4 DEF Goto, SInv, IInv, LocalTypes, WrittenOK, Working
  <2> QED BY <1>1, <1>3, <1>4, <2>1, Continued
<1>5. CASE /\ Applied(o, k)
           /\ todo' = [todo EXCEPT ![o] = @ \ {k}]
           /\ Goto(o, IF todo[o] = {k} THEN "count" ELSE "apply")
  <2> DEFINE label == IF todo[o] = {k} THEN "count" ELSE "apply"
  <2>1. /\ pc'[o] = label /\ snap'[o] = snap[o] /\ found'[o] = found[o]
        /\ todo'[o] = todo[o] \ {k}
    BY <1>1, <1>5 DEF Goto, SInv, IInv, LocalTypes
  <2>2. label \in Working
    BY DEF Working
  <2>3. ASSUME NEW j \in Wanted(SpecOf(snap[o])),
               j \notin (IF label = "apply" THEN todo[o] \ {k} ELSE {})
        PROVE  children'[j] = snap[o].generation /\ (j = "Deployment" => image' = found[o])
    <3>0. j \in Kinds
      BY <1>1, SpecOfType, WantedType DEF SInv, IInv, LocalInv, LocalAt
    <3>1. j = k \/ j \notin todo[o]
      BY <2>3
    <3>2. CASE j = k
      BY <1>5, <3>0, <3>2 DEF Applied, SInv, IInv, GlobalTypes
    <3>3. CASE j # k
      <4>1. children[j] = snap[o].generation /\ (j = "Deployment" => image = found[o])
        BY <1>1, <1>2, <3>1, <3>3 DEF SoleAt, WrittenOK
      <4> QED BY <1>5, <3>0, <3>3, <4>1 DEF Applied, SInv, IInv, GlobalTypes
    <3> QED BY <3>2, <3>3
  <2>4. WrittenOK(o)'
    <3> HIDE DEF label
    <3>1. SpecOf(snap[o])' = SpecOf(snap[o]) /\ workload' = workload
      BY <1>1, <2>1 DEF SpecOf
    <3> QED BY <1>2, <2>1, <2>3, <3>1 DEF WrittenOK
  <2> HIDE DEF label
  <2>5. Goto(o, label)
    BY <1>5 DEF label
  <2> QED BY <1>1, <1>3, <2>2, <2>4, <2>5, Continued
<1> QED BY <1>4, <1>5 DEF ApplyChild

(* set_failed. *)
LEMMA SoleFailed ==
  ASSUME SInv, IInv', SoleOperator, NEW o \in Operators, SetFailed(o) PROVE SInv'
<1> DEFINE w == [workload EXCEPT !.phase = "Failed", !.observed = snap[o].generation]
<1>1. UNCHANGED <<specs, children, image>> /\ Return(o, TRUE) /\ pc[o] = "setFailed"
  BY DEF SetFailed, At
<1>2. workload \in WorkloadType /\ faults \in Nat
  BY DEF SInv, IInv, GlobalTypes, WorkloadInv, Sane
<1>3. /\ w.exists = workload.exists /\ w.deleting = workload.deleting
      /\ w.phase = "Failed" /\ w.observed = snap[o].generation
      /\ w.finalizers = workload.finalizers
  BY <1>2 DEF WorkloadType
<1>4. PatchOk(workload.exists, w) \/ PatchErr(workload.exists, w)
  BY DEF SetFailed
<1>5. failedGens \subseteq failedGens'
  BY DEF SetFailed
<1> HIDE DEF w
<1>6. workload' = workload \/ (workload.exists /\ workload' = w)
  BY <1>2, <1>4, PatchResult, Zenon
<1>7. Grows
  BY <1>1, <1>5, SpecsKept DEF SInv
<1>8. Ages /\ RunningAsBefore /\ (Held => Held')
  BY <1>3, <1>6 DEF Ages, RunningAsBefore, Held
<1>9. workload'.exists => workload'.observed <= cached[o].generation
  BY <1>1, <1>3, <1>6 DEF SInv, SoleAt, OrderOK
<1>10. RunningOK'
  BY <1>1, <1>7, <1>8, RunningKept
<1> QED BY <1>1, <1>8, <1>9, <1>10, Returned

(* count_ready_replicas. *)
LEMMA SoleCount ==
  ASSUME SInv, IInv', SoleOperator, NEW o \in Operators, CountReadyReplicas(o)
  PROVE  SInv'
<1>1. /\ UNCHANGED <<specs, failedGens, workload, children, image>>
      /\ pc[o] = "count" /\ pc[o] \in Working
  BY DEF CountReadyReplicas, At, Working
<1>2. /\ Ages /\ RunningOK' /\ (Held => Held')
      /\ workload'.exists => workload'.observed = workload.observed
  BY <1>1, StillWorld
<1>3. CASE Return(o, TRUE)
  BY <1>2, <1>3, ObservedBelow, Returned
<1>4. CASE Goto(o, "updateStatus") /\ UNCHANGED <<found, todo>>
  <2>1. /\ pc'[o] = "updateStatus" /\ snap'[o] = snap[o] /\ found'[o] = found[o]
    BY <1>4 DEF Goto, SInv, IInv, LocalTypes
  <2>2. WrittenOK(o) /\ "updateStatus" \in Working
    BY DEF SInv, SoleAt, Working
  <2>3. WrittenOK(o)'
    BY <1>1, <2>1, <2>2 DEF WrittenOK, SpecOf
  <2> QED BY <1>1, <1>2, <1>4, <2>2, <2>3, Continued
<1> QED BY <1>3, <1>4 DEF CountReadyReplicas

(* update_status: Running is written over what was applied. *)
LEMMA SoleStatus ==
  ASSUME SInv, IInv', SoleOperator, NEW o \in Operators, UpdateStatus(o) PROVE SInv'
<1> DEFINE phase == IF ready[o] >= SpecOf(snap[o]).replicas THEN "Running" ELSE "Provisioning"
           w == [workload EXCEPT !.phase = phase, !.observed = snap[o].generation,
                                 !.storePath = found[o]]
<1>1. /\ UNCHANGED <<specs, failedGens, children, image>> /\ Return(o, TRUE)
      /\ pc[o] = "updateStatus"
  BY DEF UpdateStatus, At
<1>2. workload \in WorkloadType /\ faults \in Nat
  BY DEF SInv, IInv, GlobalTypes, WorkloadInv, Sane
<1>3. /\ w.exists = workload.exists /\ w.deleting = workload.deleting
      /\ w.observed = snap[o].generation /\ w.storePath = found[o]
      /\ w.finalizers = workload.finalizers
  BY <1>2 DEF WorkloadType
<1>4. PatchOk(workload.exists, w) \/ PatchErr(workload.exists, w)
  BY DEF UpdateStatus
<1> HIDE DEF w
<1>5. workload' = workload \/ (workload.exists /\ workload' = w)
  BY <1>2, <1>4, PatchResult, Zenon
<1>6. Grows
  BY <1>1, SpecsKept DEF SInv
<1>7. Ages /\ (Held => Held')
  BY <1>3, <1>5 DEF Ages, Held
<1>8. workload'.exists => workload'.observed <= cached[o].generation
  BY <1>1, <1>3, <1>5 DEF SInv, SoleAt, OrderOK
<1>9. CASE workload' = workload
  <2>1. RunningOK'
    BY <1>1, <1>6, <1>9, RunningKept DEF RunningAsBefore
  <2> QED BY <1>1, <1>7, <1>8, <2>1, Returned
<1>10. CASE workload' = w
  <2>1. Sane(snap[o], specs, failedGens) /\ snap[o].exists
    BY <1>1 DEF SInv, IInv, LocalInv, LocalAt
  <2>2. SpecOf(snap[o]) \in SpecType /\ snap[o].generation \in 1..Len(specs)
    BY <2>1, SpecOfType DEF SInv, IInv
  <2>3. "Deployment" \in Wanted(SpecOf(snap[o]))
    BY <2>2, WantedType
  <2>4. /\ image = found[o]
        /\ \A k \in Wanted(SpecOf(snap[o])) : children[k] = snap[o].generation
    BY <1>1, <2>3 DEF SInv, SoleAt, WrittenOK
  <2>5. RunningMatchesChildren'
    BY <1>1, <1>3, <1>10, <2>4 DEF RunningMatchesChildren, SpecOf
  <2>6. RunningOK'
    BY <1>3, <1>10, <2>2, <2>5 DEF RunningOK
  <2> QED BY <1>1, <1>7, <1>8, <2>6, Returned
<1> QED BY <1>5, <1>9, <1>10

-----------------------------------------------------------------------------
(* kube-rs and the cluster preserve the invariant *)

(* The reflector or a restarted process reads the object anew. *)
LEMMA Refreshed ==
  ASSUME SInv, IInv', SoleOperator, NEW o \in Operators,
         UNCHANGED <<specs, failedGens, workload, children, image>>,
         cached'[o] = workload,
         \/ pc'[o] = "idle"
         \/ /\ pc'[o] = pc[o] /\ snap'[o] = snap[o]
            /\ found'[o] = found[o] /\ todo'[o] = todo[o]
  PROVE  SInv'
<1>1. RunningOK'
  BY StillWorld
<1>2. SoleAt(o)
  BY DEF SInv
<1>3. /\ workload.exists => workload.observed <= workload.generation
      /\ workload.exists => snap[o].generation <= workload.generation
  BY DEF SInv, IInv, WorkloadInv, LocalInv, LocalAt, Sane
<1>4. OrderOK(o)'
  BY <1>2, <1>3 DEF SoleAt, OrderOK
<1>5. MarkedOK(o)'
  BY <1>2 DEF SoleAt, MarkedOK
<1>6. HeldOK(o)'
  BY <1>2 DEF SoleAt, HeldOK, Held, Working
<1>7. WrittenOK(o)'
  BY <1>2 DEF SoleAt, WrittenOK, SpecOf
<1>8. SoleAt(o)'
  BY <1>4, <1>5, <1>6, <1>7 DEF SoleAt
<1> QED BY <1>1, <1>8 DEF SoleOperator, SInv

(* Watch events, events of owned objects and restarts. *)
LEMMA SoleKube ==
  ASSUME SInv, IInv', SoleOperator, NEW o \in Operators,
         WatchEvent(o) \/ OwnedEvent(o) \/ Crash(o)
  PROVE  SInv'
<1>1. UNCHANGED <<specs, failedGens, workload, children, image>>
  BY DEF WatchEvent, OwnedEvent, Crash
<1>2. CASE WatchEvent(o)
  <2>1. /\ cached'[o] = workload /\ pc'[o] = pc[o] /\ snap'[o] = snap[o]
        /\ found'[o] = found[o] /\ todo'[o] = todo[o]
    BY <1>2 DEF WatchEvent, SInv, IInv, LocalTypes
  <2> QED BY <1>1, <2>1, Refreshed
<1>3. CASE Crash(o)
  <2>1. cached'[o] = workload /\ pc'[o] = "idle"
    BY <1>3 DEF Crash, SInv, IInv, LocalTypes
  <2> QED BY <1>1, <2>1, Refreshed
<1>4. CASE OwnedEvent(o)
  <2>1. UNCHANGED <<cached, pc, snap, found, todo>>
    BY <1>4 DEF OwnedEvent
  <2>2. RunningOK'
    BY <1>1, StillWorld
  <2>3. \A q \in Operators : SoleAt(q)'
    BY <1>1, <2>1 DEF SInv, SoleAt, OrderOK, MarkedOK, HeldOK, Held, WrittenOK, SpecOf
  <2> QED BY <2>2, <2>3 DEF SInv
<1> QED BY <1>2, <1>3, <1>4

(* The object gets a new generation, and may be marked for deletion. *)
LEMMA GenerationEffect ==
  ASSUME IInv, EditSpec \/ DeleteWorkload
  PROVE  /\ Ages /\ RunningAsBefore
         /\ workload'.exists => workload'.observed = workload.observed
         /\ workload'.exists => workload'.phase = workload.phase
         /\ Held => Held'
<1>1. workload \in WorkloadType
  BY DEF IInv, WorkloadInv, Sane
<1>2. CASE EditSpec
  <2> DEFINE w == [workload EXCEPT !.generation = @ + 1]
  <2>1. /\ w.exists = workload.exists /\ w.deleting = workload.deleting
        /\ w.phase = workload.phase /\ w.observed = workload.observed
        /\ w.storePath = workload.storePath /\ w.finalizers = workload.finalizers
    BY <1>1 DEF WorkloadType
  <2>2. workload' = w
    BY <1>2 DEF EditSpec
  <2> HIDE DEF w
  <2> QED BY <2>1, <2>2 DEF Ages, RunningAsBefore, Held
<1>3. CASE DeleteWorkload
  <2> DEFINE w == [workload EXCEPT !.deleting = TRUE, !.generation = @ + 1]
  <2>1. /\ w.exists = workload.exists /\ w.deleting
        /\ w.phase = workload.phase /\ w.observed = workload.observed
        /\ w.storePath = workload.storePath /\ w.finalizers = workload.finalizers
    BY <1>1 DEF WorkloadType
  <2>2. workload' = Settle(w)
    BY <1>3 DEF DeleteWorkload
  <2> HIDE DEF w
  <2>3. workload' = w \/ workload' = NoWorkload
    BY <2>2 DEF Settle
  <2>4. Own \in workload.finalizers => workload' = w
    BY <2>1, <2>2 DEF Settle
  <2>5. ~NoWorkload.exists
    BY DEF NoWorkload
  <2> QED BY <2>1, <2>3, <2>4, <2>5 DEF Ages, RunningAsBefore, Held
<1> QED BY <1>2, <1>3

(* Another controller adds or removes its finalizer. *)
LEMMA OtherEffect ==
  ASSUME IInv, OtherAddsFinalizer \/ OtherRemovesFinalizer
  PROVE  /\ Ages /\ RunningAsBefore
         /\ workload'.exists => workload'.observed = workload.observed
         /\ workload'.exists => workload'.phase = workload.phase
         /\ Held => Held'
<1>1. workload \in WorkloadType
  BY DEF IInv, WorkloadInv, Sane
<1>2. PICK list : /\ Own \in workload.finalizers => Own \in list
                  /\ LET w == [workload EXCEPT !.finalizers = list]
                     IN  workload' = w \/ workload' = Settle(w)
  <2>1. CASE OtherAddsFinalizer
    BY <2>1 DEF OtherAddsFinalizer
  <2>2. CASE OtherRemovesFinalizer
    <3>1. Own \in workload.finalizers => Own \in workload.finalizers \ {Other}
      BY DEF Own, Other
    <3>2. workload' = Settle([workload EXCEPT !.finalizers = workload.finalizers \ {Other}])
      BY <2>2 DEF OtherRemovesFinalizer, WithFinalizers
    <3> QED BY <3>1, <3>2
  <2> QED BY <2>1, <2>2
<1> QED BY <1>1, <1>2, ListEffect DEF Held

(* Users, other controllers, the collector and the pods. *)
LEMMA SoleEnvironment ==
  ASSUME SInv, IInv', Environment PROVE SInv'
<1>1. UNCHANGED opVars /\ UNCHANGED failedGens
  BY DEF Environment, EditSpec, DeleteWorkload, OtherAddsFinalizer,
     OtherRemovesFinalizer, CollectGarbage, PodReady, PodStopped, PodUnready
<1>2. Grows
  <2>1. CASE EditSpec \/ DeleteWorkload
    <3>1. PICK sp : specs' = Append(specs, sp)
      BY <2>1 DEF EditSpec, DeleteWorkload
    <3>2. specs \in Seq(Specs) /\ specs' \in Seq(Specs)
      BY DEF SInv, IInv, GlobalTypes
    <3>3. Len(specs') = Len(specs) + 1 /\ \A i \in 1..Len(specs) : specs'[i] = specs[i]
      BY <3>1, <3>2
    <3> QED BY <1>1, <3>2, <3>3 DEF Grows
  <2>2. CASE UNCHANGED specs
    BY <1>1, <2>2, SpecsKept DEF SInv
  <2> QED BY <2>1, <2>2 DEF Environment, OtherAddsFinalizer, OtherRemovesFinalizer,
             CollectGarbage, PodReady, PodStopped, PodUnready
<1>3. CASE EditSpec \/ DeleteWorkload
  BY <1>1, <1>2, <1>3, GenerationEffect, Framed DEF SInv, EditSpec, DeleteWorkload
<1>4. CASE OtherAddsFinalizer \/ OtherRemovesFinalizer
  BY <1>1, <1>2, <1>4, OtherEffect, Framed
     DEF SInv, OtherAddsFinalizer, OtherRemovesFinalizer
<1>5. CASE CollectGarbage \/ PodReady \/ PodStopped \/ PodUnready
  <2>1. workload' = workload /\ (UNCHANGED <<children, image>> \/ ~workload.exists)
    BY <1>5 DEF CollectGarbage, PodReady, PodStopped, PodUnready
  <2>2. Ages /\ RunningAsBefore /\ (Held => Held')
    BY <2>1 DEF Ages, RunningAsBefore, Held
  <2> QED BY <1>1, <1>2, <2>1, <2>2, Framed
<1> QED BY <1>3, <1>4, <1>5 DEF Environment

-----------------------------------------------------------------------------
(* The theorems *)

(* A workload that was just created satisfies the invariant. *)
LEMMA InitSInv == Init => SInv
<1> SUFFICES ASSUME Init PROVE SInv
  OBVIOUS
<1>1. IInv
  BY InitIInv
<1>2. /\ workload.phase = "Pending" /\ workload.observed = 0
      /\ workload.exists /\ ~workload.deleting /\ Own \notin workload.finalizers
      /\ workload.generation = 1
  BY DEF Init, NoWorkload, Own, Other
<1>3. ASSUME NEW o \in Operators PROVE SoleAt(o)
  <2>1. cached[o] = workload /\ pc[o] = "idle"
    BY DEF Init
  <2> QED BY <1>2, <2>1 DEF SoleAt, OrderOK, MarkedOK, HeldOK, WrittenOK, Working
<1> QED BY <1>1, <1>2, <1>3 DEF SInv, RunningOK

(* Every step preserves it while one operator is at work. *)
LEMMA NextSInv ==
  ASSUME SoleOperator PROVE SInv /\ [Next]_vars => SInv'
<1> SUFFICES ASSUME SInv, [Next]_vars PROVE SInv'
  OBVIOUS
<1>1. IInv'
  BY NextIInv DEF SInv
<1>2. CASE UNCHANGED vars
  <2>1. UNCHANGED <<specs, failedGens, workload, children, image, opVars>>
    BY <1>2 DEF vars
  <2>2. Grows
    BY <2>1, SpecsKept DEF SInv
  <2>3. Ages /\ RunningAsBefore /\ (Held => Held')
    BY <2>1 DEF Ages, RunningAsBefore, Held
  <2> QED BY <1>1, <2>1, <2>2, <2>3, Framed
<1>3. ASSUME NEW o \in Operators, Step(o) PROVE SInv'
  BY <1>1, <1>3, SoleReconcile, SoleFinalizer, SoleEvaluating, SoleEval,
     SoleProvisioning, SoleApply, SoleFailed, SoleCount, SoleStatus, Zenon DEF Step
<1>4. ASSUME NEW o \in Operators, WatchEvent(o) \/ OwnedEvent(o) \/ Crash(o)
      PROVE  SInv'
  BY <1>1, <1>4, SoleKube
<1>5. CASE Environment
  BY <1>1, <1>5, SoleEnvironment
<1> QED BY <1>2, <1>3, <1>4, <1>5, Zenon DEF Next

(***************************************************************************)
(* The invariant of one operator at work: no copy it holds is older than   *)
(* the status it wrote, a copy that has our finalizer and is not marked    *)
(* for deletion is right about it, and whatever was applied since the      *)
(* phase left Running was applied from the snapshot.                       *)
(***************************************************************************)
THEOREM SoleInvariant ==
  ASSUME SoleOperator PROVE Spec => []SInv
<1>1. SInv /\ [Next]_vars => SInv'
  BY NextSInv
<1> QED BY <1>1, InitSInv, PTL DEF Spec

(***************************************************************************)
(* With one operator, Running means that the Deployment runs the path in   *)
(* the status and that every child of the observed generation was applied  *)
(* from it, through every failed call, lost answer and restart.            *)
(***************************************************************************)
THEOREM RunningTheorem ==
  ASSUME SoleOperator PROVE Spec => []RunningMatchesChildren
<1>1. SInv => RunningMatchesChildren
  BY DEF SInv, RunningOK, RunningMatchesChildren
<1> QED BY <1>1, SoleInvariant, PTL

(***************************************************************************)
(* With one operator, set_failed and update_status never take the observed *)
(* generation back, however stale the snapshot they write from.            *)
(***************************************************************************)
THEOREM ObservedTheorem ==
  ASSUME SoleOperator PROVE Spec => ObservedMonotone
<1> DEFINE Up == workload'.exists => workload'.observed >= workload.observed
<1>1. ASSUME SInv, [Next]_vars PROVE Up
  <2>1. workload \in WorkloadType /\ workload.observed \in Nat /\ faults \in Nat /\ IInv
    BY <1>1 DEF SInv, IInv, GlobalTypes, WorkloadInv, Sane, WorkloadType
  <2>2. ASSUME workload'.exists => workload'.observed = workload.observed PROVE Up
    BY <2>1, <2>2
  <2>3. CASE UNCHANGED workload
    BY <2>2, <2>3
  <2>4. ASSUME NEW o \in Operators, pc[o] # "idle",
               NEW w, PatchOk(workload.exists, w) \/ PatchErr(workload.exists, w),
               w.observed = snap[o].generation
        PROVE  Up
    <3>1. workload' = workload \/ (workload.exists /\ workload' = w)
      BY <2>1, <2>4, PatchResult, Zenon
    <3> QED BY <1>1, <2>1, <2>4, <3>1 DEF SInv, SoleAt, OrderOK
  <2>5. ASSUME NEW o \in Operators, SetFailed(o) PROVE Up
    <3> DEFINE w == [workload EXCEPT !.phase = "Failed", !.observed = snap[o].generation]
    <3>1. w.observed = snap[o].generation
      BY <2>1 DEF WorkloadType
    <3>2. (PatchOk(workload.exists, w) \/ PatchErr(workload.exists, w)) /\ pc[o] # "idle"
      BY <2>5 DEF SetFailed, At
    <3> HIDE DEF w
    <3> QED BY <2>4, <3>1, <3>2
  <2>6. ASSUME NEW o \in Operators, UpdateStatus(o) PROVE Up
    <3> DEFINE p == IF ready[o] >= SpecOf(snap[o]).replicas THEN "Running" ELSE "Provisioning"
               w == [workload EXCEPT !.phase = p, !.observed = snap[o].generation,
                                     !.storePath = found[o]]
    <3>1. w.observed = snap[o].generation
      BY <2>1 DEF WorkloadType
    <3>2. (PatchOk(workload.exists, w) \/ PatchErr(workload.exists, w)) /\ pc[o] # "idle"
      BY <2>6 DEF UpdateStatus, At
    <3> HIDE DEF w
    <3> QED BY <2>4, <3>1, <3>2
  <2>7. ASSUME NEW o \in Operators, AddFinalizer(o) \/ RemoveFinalizer(o) PROVE Up
    <3>1. PICK list : \/ PatchOk(AcceptsFinalizers(list), WithFinalizers(list))
                      \/ PatchErr(AcceptsFinalizers(list), WithFinalizers(list))
      BY <2>7, Zenon DEF AddFinalizer, RemoveFinalizer
    <3> QED BY <2>1, <2>2, <3>1, PatchList
  <2>8. ASSUME NEW o \in Operators, SetPhaseEvaluating(o) \/ SetPhaseProvisioning(o)
        PROVE  Up
    <3>1. PICK p \in {"Evaluating", "Provisioning"} :
            \/ PatchOk(workload.exists, [workload EXCEPT !.phase = p])
            \/ PatchErr(workload.exists, [workload EXCEPT !.phase = p])
      BY <2>8, Zenon DEF SetPhaseEvaluating, SetPhaseProvisioning
    <3>2. p # "Running"
      OBVIOUS
    <3> QED BY <2>1, <2>2, <3>1, <3>2, PatchPhase
  <2>9. ASSUME NEW o \in Operators,
               \/ Reconcile(o) \/ CallEvalWebhook(o) \/ CountReadyReplicas(o)
               \/ \E k \in Kinds : ApplyChild(o, k)
               \/ WatchEvent(o) \/ OwnedEvent(o) \/ Crash(o)
        PROVE  Up
    <3>1. UNCHANGED workload
      BY <2>9 DEF Reconcile, CallEvalWebhook, CountReadyReplicas, ApplyChild,
                  WatchEvent, OwnedEvent, Crash
    <3> QED BY <2>3, <3>1
  <2>10. CASE EditSpec \/ DeleteWorkload
    BY <2>1, <2>2, <2>10, GenerationEffect
  <2>11. CASE OtherAddsFinalizer \/ OtherRemovesFinalizer
    BY <2>1, <2>2, <2>11, OtherEffect
  <2>12. CASE CollectGarbage \/ PodReady \/ PodStopped \/ PodUnready \/ UNCHANGED vars
    <3>1. UNCHANGED workload
      BY <2>12 DEF CollectGarbage, PodReady, PodStopped, PodUnready, vars
    <3> QED BY <2>3, <3>1
  <2> HIDE DEF Up
  <2> QED BY <1>1, <2>5, <2>6, <2>7, <2>8, <2>9, <2>10, <2>11, <2>12, Zenon
          DEF Next, Step, Environment
<1>2. SInv /\ [Next]_vars => [Up]_vars
  BY <1>1
<1> HIDE DEF Up
<1>3. Spec => [][Up]_vars
  BY <1>2, SoleInvariant, PTL DEF Spec
<1> QED BY <1>3 DEF Up, ObservedMonotone

(***************************************************************************)
(* With one operator, apply_child_resources only writes a child while the  *)
(* workload is there and holds our finalizer, however late the reflector   *)
(* learns of a deletion.                                                   *)
(***************************************************************************)
THEOREM AppliesTheorem ==
  ASSUME SoleOperator PROVE Spec => AppliesUnderFinalizer
<1> DEFINE Under == (\E k \in Kinds : children'[k] # children[k] /\ children'[k] # 0)
                      => workload.exists /\ Own \in workload.finalizers
<1>1. ASSUME SInv, [Next]_vars PROVE Under
  <2>1. CASE UNCHANGED children
    BY <2>1
  <2>2. CASE CollectGarbage
    BY <2>2 DEF CollectGarbage
  <2>3. ASSUME NEW o \in Operators, NEW k \in Kinds, ApplyChild(o, k) PROVE Under
    BY <1>1, <2>3 DEF ApplyChild, At, SInv, SoleAt, HeldOK, Working, Held
  <2>4. CASE \/ EditSpec \/ DeleteWorkload \/ OtherAddsFinalizer \/ OtherRemovesFinalizer
             \/ PodReady \/ PodStopped \/ PodUnready \/ UNCHANGED vars
    <3>1. UNCHANGED children
      BY <2>4 DEF EditSpec, DeleteWorkload, OtherAddsFinalizer, OtherRemovesFinalizer,
                  PodReady, PodStopped, PodUnready, vars
    <3> QED BY <2>1, <3>1
  <2>5. ASSUME NEW o \in Operators,
               \/ Step(o) /\ ~\E k \in Kinds : ApplyChild(o, k)
               \/ WatchEvent(o) \/ OwnedEvent(o) \/ Crash(o)
        PROVE  Under
    <3>1. UNCHANGED children
      BY <2>5 DEF Step, Reconcile, AddFinalizer, RemoveFinalizer, SetPhaseEvaluating,
         CallEvalWebhook, SetPhaseProvisioning, SetFailed, CountReadyReplicas,
         UpdateStatus, WatchEvent, OwnedEvent, Crash
    <3> QED BY <2>1, <3>1
  <2> HIDE DEF Under
  <2> QED BY <1>1, <2>2, <2>3, <2>4, <2>5, Zenon DEF Next, Environment
<1>2. SInv /\ [Next]_vars => [Under]_vars
  BY <1>1
<1> HIDE DEF Under
<1>3. Spec => [][Under]_vars
  BY <1>2, SoleInvariant, PTL DEF Spec
<1> QED BY <1>3 DEF Under, AppliesUnderFinalizer
=============================================================================
