----------------------------- MODULE Reconciler -----------------------------
(***************************************************************************)
(* The reconcile loop of niphas-operator (crates/niphas-operator) over one *)
(* NiphasWorkload: the object in the API server, the child objects, the    *)
(* reflector copy each operator process works from, and every await of     *)
(* reconcile() as a step of its own.  Users, other controllers, the        *)
(* Deployment controller and the garbage collector run in between.         *)
(***************************************************************************)
EXTENDS Naturals, Sequences, FiniteSets

CONSTANTS
  Operators,    \* operator processes that believe they lead
  Specs,        \* the specs a user may write
  Build,        \* flake -> store path it evaluates to, NoPath if it cannot
  Paths,        \* store paths
  NoPath,       \* "no storePath in the status", "evaluation fails"
  MaxEdits,     \* bound: spec edits by the user
  MaxFaults,    \* bound: failed API or webhook calls
  MaxCrashes,   \* bound: operator restarts
  MaxUnready,   \* bound: pods that lose readiness
  MaxOthers     \* bound: finalizers other controllers add later

Own   == "niphas.io/workload-cleanup"
Other == "other-controller"

Kinds  == {"Deployment", "Service", "Ingress", "PodDisruptionBudget"}
Rank   == [Deployment |-> 1, Service |-> 2, Ingress |-> 3, PodDisruptionBudget |-> 4]
Phases == {"Pending", "Evaluating", "Provisioning", "Running", "Failed"}

(***************************************************************************)
(* What the model keeps of spec: the fields evaluation reads (one flake),  *)
(* spec.replicas and which optional children it asks for.                  *)
(***************************************************************************)
SpecType == [flake : DOMAIN Build, replicas : Nat,
             extras : SUBSET {"Service", "Ingress"}]

ASSUME SpecsAssumption   == Specs \subseteq SpecType /\ Specs # {}
ASSUME BuildAssumption   == Build \in [DOMAIN Build -> Paths \cup {NoPath}]
ASSUME NoPathAssumption  == NoPath \notin Paths
ASSUME BoundsAssumption  == /\ MaxEdits \in Nat /\ MaxFaults \in Nat
                            /\ MaxCrashes \in Nat /\ MaxUnready \in Nat
                            /\ MaxOthers \in Nat
ASSUME OperatorsNonEmpty == Operators # {}

VARIABLES
  specs,      \* the spec of every generation so far
  workload,   \* the object in the API server
  children,   \* kind -> generation the live child was built from, 0 if none
  image,      \* store path the live Deployment runs
  readyPods,  \* Deployment.status.readyReplicas
  cached,     \* reflector store of each operator
  queued,     \* a reconcile is scheduled (watch event or requeue timer)
  pc,         \* where each operator's reconcile() stands
  snap,       \* the Arc<NiphasWorkload> reconcile() was called with
  found,      \* eval_result
  todo,       \* children apply_child_resources still has to apply
  ready,      \* result of count_ready_replicas
  failedGens, \* history: generations some set_failed was written for
  faults, crashes, unready, others

opVars     == <<cached, queued, pc, snap, found, todo, ready>>
budgetVars == <<faults, crashes, unready, others>>
vars       == <<specs, workload, children, image, readyPods, opVars,
                failedGens, budgetVars>>

-----------------------------------------------------------------------------
(* Reading an object *)

NoWorkload ==
  [exists |-> FALSE, generation |-> 0, finalizers |-> {}, deleting |-> FALSE,
   phase |-> "Pending", observed |-> 0, storePath |-> NoPath]

WorkloadType ==
  [exists : BOOLEAN, generation : Nat, finalizers : SUBSET {Own, Other},
   deleting : BOOLEAN, phase : Phases, observed : Nat,
   storePath : Paths \cup {NoPath}]

SpecOf(w) == specs[w.generation]

(* Mutant: forgets the generation check. *)
NeedsEval_PathOnly(w) == w.storePath = NoPath

NeedsEval(w) == w.observed < w.generation \/ w.storePath = NoPath

(* EvalResult::from_status: no evaluation, the recorded path is used. *)
FromStatus(w) == w.storePath

(* The children apply_child_resources applies for a spec. *)
Wanted(sp) ==
  {"Deployment"} \cup sp.extras
     \cup (IF sp.replicas >= 2 THEN {"PodDisruptionBudget"} ELSE {})

(* Mutant: goes on without our finalizer. *)
Dispatch_NoFinalizer(w) ==
  IF w.deleting                                      THEN "removeFinalizer"
  ELSE IF w.observed >= w.generation
          /\ w.phase = "Running"                     THEN "idle"
  ELSE IF NeedsEval(w)                               THEN "phaseEvaluating"
  ELSE "phaseProvisioning"

(* How far reconcile() gets before its first await. *)
Dispatch(w) ==
  IF w.deleting                                      THEN "removeFinalizer"
  ELSE IF Own \notin w.finalizers                    THEN "addFinalizer"
  ELSE IF w.observed >= w.generation
          /\ w.phase = "Running"                     THEN "idle"
  ELSE IF NeedsEval(w)                               THEN "phaseEvaluating"
  ELSE "phaseProvisioning"

PCs == {"idle", "addFinalizer", "removeFinalizer", "phaseEvaluating", "eval",
        "phaseProvisioning", "apply", "setFailed", "count", "updateStatus"}

Init ==
  /\ \E sp \in Specs : specs = <<sp>>
  /\ \E f \in SUBSET {Other} :
        workload = [NoWorkload EXCEPT !.exists = TRUE, !.generation = 1,
                                      !.finalizers = f]
  /\ children = [k \in Kinds |-> 0]
  /\ image = NoPath
  /\ readyPods = 0
  /\ cached = [o \in Operators |-> workload]
  /\ queued = [o \in Operators |-> TRUE]
  /\ pc = [o \in Operators |-> "idle"]
  /\ snap = [o \in Operators |-> NoWorkload]
  /\ found = [o \in Operators |-> NoPath]
  /\ todo = [o \in Operators |-> {}]
  /\ ready = [o \in Operators |-> 0]
  /\ failedGens = {}
  /\ faults = 0 /\ crashes = 0 /\ unready = 0 /\ others = 0

-----------------------------------------------------------------------------
(* The API server and the users of the object (external) *)

(* An object being deleted disappears with its last finalizer. *)
Settle(w) == IF w.deleting /\ w.finalizers = {} THEN NoWorkload ELSE w

(* A write of the whole finalizer list; none may be added during deletion. *)
AcceptsFinalizers(list) ==
  workload.exists /\ (workload.deleting => list \subseteq workload.finalizers)
WithFinalizers(list) == Settle([workload EXCEPT !.finalizers = list])

EditSpec ==
  /\ workload.exists
  /\ Len(specs) <= MaxEdits
  /\ \E sp \in Specs \ {specs[Len(specs)]} : specs' = Append(specs, sp)
  /\ workload' = [workload EXCEPT !.generation = @ + 1]
  /\ UNCHANGED <<children, image, readyPods, opVars, failedGens, budgetVars>>

(* Setting deletionTimestamp bumps the generation and leaves the spec. *)
DeleteWorkload ==
  /\ workload.exists /\ ~workload.deleting
  /\ specs' = Append(specs, specs[Len(specs)])
  /\ workload' = Settle([workload EXCEPT !.deleting = TRUE, !.generation = @ + 1])
  /\ UNCHANGED <<children, image, readyPods, opVars, failedGens, budgetVars>>

OtherAddsFinalizer ==
  /\ workload.exists /\ ~workload.deleting /\ Other \notin workload.finalizers
  /\ others < MaxOthers
  /\ others' = others + 1
  /\ workload' = [workload EXCEPT !.finalizers = @ \cup {Other}]
  /\ UNCHANGED <<specs, children, image, readyPods, opVars, failedGens,
                 faults, crashes, unready>>

OtherRemovesFinalizer ==
  /\ workload.exists /\ Other \in workload.finalizers
  /\ workload' = WithFinalizers(workload.finalizers \ {Other})
  /\ UNCHANGED <<specs, children, image, readyPods, opVars, failedGens, budgetVars>>

(* The owner is gone: ownerReferences let the collector take the children. *)
CollectGarbage ==
  /\ ~workload.exists
  /\ \E k \in Kinds : children[k] # 0
  /\ children' = [k \in Kinds |-> 0]
  /\ image' = NoPath
  /\ readyPods' = 0
  /\ UNCHANGED <<specs, workload, opVars, failedGens, budgetVars>>

DesiredPods ==
  IF children["Deployment"] = 0 THEN 0 ELSE specs[children["Deployment"]].replicas

PodReady ==
  /\ readyPods < DesiredPods
  /\ readyPods' = readyPods + 1
  /\ UNCHANGED <<specs, workload, children, image, opVars, failedGens, budgetVars>>

PodStopped ==
  /\ readyPods > DesiredPods
  /\ readyPods' = readyPods - 1
  /\ UNCHANGED <<specs, workload, children, image, opVars, failedGens, budgetVars>>

PodUnready ==
  /\ readyPods > 0 /\ unready < MaxUnready
  /\ readyPods' = readyPods - 1
  /\ unready' = unready + 1
  /\ UNCHANGED <<specs, workload, children, image, opVars, failedGens, faults, crashes, others>>

-----------------------------------------------------------------------------
(* kube-rs: reflector, scheduler, process restart (external) *)

(* A watch event brings the reflector up to date and schedules the object. *)
WatchEvent(o) ==
  /\ cached[o] # workload
  /\ cached' = [cached EXCEPT ![o] = workload]
  /\ queued' = [queued EXCEPT ![o] = TRUE]
  /\ UNCHANGED <<specs, workload, children, image, readyPods, pc, snap, found,
                 todo, ready, failedGens, budgetVars>>

(* An event of an owned Deployment or pod schedules its workload.  (The      *)
(* queue is only read when reconcile() is not running.)                      *)
OwnedEvent(o) ==
  /\ pc[o] = "idle" /\ ~queued[o] /\ children["Deployment"] # 0
  /\ queued' = [queued EXCEPT ![o] = TRUE]
  /\ UNCHANGED <<specs, workload, children, image, readyPods, cached, pc, snap,
                 found, todo, ready, failedGens, budgetVars>>

(* The process dies anywhere and comes back with a fresh list. *)
Crash(o) ==
  /\ crashes < MaxCrashes
  /\ crashes' = crashes + 1
  /\ cached' = [cached EXCEPT ![o] = workload]
  /\ queued' = [queued EXCEPT ![o] = TRUE]
  /\ pc' = [pc EXCEPT ![o] = "idle"]
  /\ snap' = [snap EXCEPT ![o] = NoWorkload]
  /\ found' = [found EXCEPT ![o] = NoPath]
  /\ todo' = [todo EXCEPT ![o] = {}]
  /\ ready' = [ready EXCEPT ![o] = 0]
  /\ UNCHANGED <<specs, workload, children, image, readyPods, failedGens, faults, unready, others>>

-----------------------------------------------------------------------------
(* reconcile(), one action per awaited call *)

At(o, label) == pc[o] = label

Goto(o, label) ==
  /\ pc' = [pc EXCEPT ![o] = label]
  /\ UNCHANGED <<cached, queued, snap>>

(* reconcile() returns; every result but Action::await_change() requeues. *)
Return(o, requeue) ==
  /\ pc' = [pc EXCEPT ![o] = "idle"]
  /\ queued' = [queued EXCEPT ![o] = queued[o] \/ requeue]
  /\ snap' = [snap EXCEPT ![o] = NoWorkload]
  /\ found' = [found EXCEPT ![o] = NoPath]
  /\ todo' = [todo EXCEPT ![o] = {}]
  /\ ready' = [ready EXCEPT ![o] = 0]
  /\ UNCHANGED cached

Fault == faults < MaxFaults /\ faults' = faults + 1

(* A PATCH of the workload: it succeeds, or the caller sees an error because *)
(* the server refuses it, the request is lost, or only its answer is lost.   *)
PatchOk(accepted, new) == accepted /\ workload' = new /\ UNCHANGED faults
PatchErr(accepted, new) ==
  \/ ~accepted /\ UNCHANGED <<workload, faults>>
  \/ Fault /\ (UNCHANGED workload \/ (accepted /\ workload' = new))

Reconcile(o) ==
  /\ At(o, "idle") /\ queued[o] /\ cached[o].exists
  /\ LET next == Dispatch(cached[o]) IN
       IF next = "idle" THEN Return(o, TRUE)
       ELSE /\ pc' = [pc EXCEPT ![o] = next]
            /\ queued' = [queued EXCEPT ![o] = FALSE]
            /\ snap' = [snap EXCEPT ![o] = cached[o]]
            /\ found' = [found EXCEPT ![o] = IF next = "phaseProvisioning"
                                             THEN FromStatus(cached[o]) ELSE NoPath]
            /\ UNCHANGED <<cached, todo, ready>>
  /\ UNCHANGED <<specs, workload, children, image, readyPods, failedGens, budgetVars>>

(* Mutant: the list written holds our finalizer alone. *)
AddFinalizer_OwnOnly(o) ==
  LET list == {Own}
  IN  /\ At(o, "addFinalizer")
      /\ \/ PatchOk(AcceptsFinalizers(list), WithFinalizers(list))
         \/ PatchErr(AcceptsFinalizers(list), WithFinalizers(list))
      /\ Return(o, TRUE)
      /\ UNCHANGED <<specs, children, image, readyPods, failedGens, crashes, unready, others>>

(* add_finalizer: the snapshot's list with ours appended, as a merge patch. *)
AddFinalizer(o) ==
  LET list == snap[o].finalizers \cup {Own}
  IN  /\ At(o, "addFinalizer")
      /\ \/ PatchOk(AcceptsFinalizers(list), WithFinalizers(list))
         \/ PatchErr(AcceptsFinalizers(list), WithFinalizers(list))
      /\ Return(o, TRUE)
      /\ UNCHANGED <<specs, children, image, readyPods, failedGens, crashes, unready, others>>

(* Mutant: a failed patch is not retried. *)
RemoveFinalizer_NoRetry(o) ==
  LET list == snap[o].finalizers \ {Own}
  IN  /\ At(o, "removeFinalizer")
      /\ \/ PatchOk(AcceptsFinalizers(list), WithFinalizers(list))
         \/ PatchErr(AcceptsFinalizers(list), WithFinalizers(list))
      /\ Return(o, FALSE)
      /\ UNCHANGED <<specs, children, image, readyPods, failedGens, crashes, unready, others>>

(* handle_deletion; the finalizer list is the snapshot's, less Own. *)
RemoveFinalizer(o) ==
  LET list == snap[o].finalizers \ {Own}
  IN  /\ At(o, "removeFinalizer")
      /\ \/ PatchOk(AcceptsFinalizers(list), WithFinalizers(list)) /\ Return(o, FALSE)
         \/ PatchErr(AcceptsFinalizers(list), WithFinalizers(list)) /\ Return(o, TRUE)
      /\ UNCHANGED <<specs, children, image, readyPods, failedGens, crashes, unready, others>>

SetPhaseEvaluating(o) ==
  LET new == [workload EXCEPT !.phase = "Evaluating"]
  IN  /\ At(o, "phaseEvaluating")
      /\ \/ /\ PatchOk(workload.exists, new)
            /\ Goto(o, "eval")
            /\ UNCHANGED <<found, todo, ready>>
         \/ PatchErr(workload.exists, new) /\ Return(o, TRUE)
      /\ UNCHANGED <<specs, children, image, readyPods, failedGens, crashes, unready, others>>

(* call_eval_webhook: a store path, or any error (timeout, HTTP, refused). *)
CallEvalWebhook(o) ==
  LET path == Build[SpecOf(snap[o]).flake]
  IN  /\ At(o, "eval")
      /\ \/ /\ path # NoPath
            /\ found' = [found EXCEPT ![o] = path]
            /\ Goto(o, "phaseProvisioning")
            /\ UNCHANGED faults
         \/ /\ (path = NoPath /\ UNCHANGED faults) \/ Fault
            /\ Goto(o, "setFailed")
            /\ UNCHANGED found
      /\ UNCHANGED <<specs, workload, children, image, readyPods, todo, ready,
                     failedGens, crashes, unready, others>>

SetPhaseProvisioning(o) ==
  LET new == [workload EXCEPT !.phase = "Provisioning"]
  IN  /\ At(o, "phaseProvisioning")
      /\ \/ /\ PatchOk(workload.exists, new)
            /\ Goto(o, "apply")
            /\ todo' = [todo EXCEPT ![o] = Wanted(SpecOf(snap[o]))]
            /\ UNCHANGED <<found, ready>>
         \/ PatchErr(workload.exists, new) /\ Return(o, TRUE)
      /\ UNCHANGED <<specs, children, image, readyPods, failedGens, crashes, unready, others>>

(* Server-side apply of one child, in the order of apply_child_resources. *)
Applied(o, k) ==
  /\ children' = [children EXCEPT ![k] = snap[o].generation]
  /\ image' = IF k = "Deployment" THEN found[o] ELSE image

(* Mutant: an apply error is swallowed. *)
ApplyChild_IgnoresErrors(o, k) ==
  /\ At(o, "apply")
  /\ k \in todo[o] /\ \A j \in todo[o] : Rank[k] <= Rank[j]
  /\ \/ Applied(o, k) /\ UNCHANGED faults
     \/ Fault /\ UNCHANGED <<children, image>>
  /\ todo' = [todo EXCEPT ![o] = @ \ {k}]
  /\ Goto(o, IF todo[o] = {k} THEN "count" ELSE "apply")
  /\ UNCHANGED <<specs, workload, readyPods, found, ready, failedGens, crashes, unready, others>>

ApplyChild(o, k) ==
  /\ At(o, "apply")
  /\ k \in todo[o] /\ \A j \in todo[o] : Rank[k] <= Rank[j]
  /\ \/ /\ Applied(o, k)
        /\ todo' = [todo EXCEPT ![o] = @ \ {k}]
        /\ Goto(o, IF todo[o] = {k} THEN "count" ELSE "apply")
        /\ UNCHANGED faults
     \/ /\ Fault
        /\ Applied(o, k) \/ UNCHANGED <<children, image>>
        /\ Goto(o, "setFailed")
        /\ UNCHANGED todo
  /\ UNCHANGED <<specs, workload, readyPods, found, ready, failedGens, crashes, unready, others>>

(* Mutant: writes back the observedGeneration of the snapshot. *)
SetFailed_KeepsObserved(o) ==
  LET new == [workload EXCEPT !.phase = "Failed", !.observed = snap[o].observed]
  IN  /\ At(o, "setFailed")
      /\ PatchOk(workload.exists, new) \/ PatchErr(workload.exists, new)
      /\ failedGens' = IF workload.exists /\ workload' = new
                       THEN failedGens \cup {snap[o].generation} ELSE failedGens
      /\ Return(o, TRUE)
      /\ UNCHANGED <<specs, children, image, readyPods, crashes, unready, others>>

(* set_failed records the generation and keeps storePath as it was. *)
SetFailed(o) ==
  LET new == [workload EXCEPT !.phase = "Failed", !.observed = snap[o].generation]
  IN  /\ At(o, "setFailed")
      /\ PatchOk(workload.exists, new) \/ PatchErr(workload.exists, new)
      /\ failedGens' = IF workload.exists /\ workload' = new
                       THEN failedGens \cup {snap[o].generation} ELSE failedGens
      /\ Return(o, TRUE)
      /\ UNCHANGED <<specs, children, image, readyPods, crashes, unready, others>>

CountReadyReplicas(o) ==
  /\ At(o, "count")
  /\ \/ /\ ready' = [ready EXCEPT ![o] = readyPods]
        /\ Goto(o, "updateStatus")
        /\ UNCHANGED <<found, todo, faults>>
     \/ Fault /\ Return(o, TRUE)
  /\ UNCHANGED <<specs, workload, children, image, readyPods, failedGens, crashes, unready, others>>

(* Mutant: no requeue while replicas are missing. *)
UpdateStatus_AwaitsChange(o) ==
  LET phase == IF ready[o] >= SpecOf(snap[o]).replicas THEN "Running" ELSE "Provisioning"
      new   == [workload EXCEPT !.phase = phase, !.observed = snap[o].generation,
                                !.storePath = found[o]]
  IN  /\ At(o, "updateStatus")
      /\ PatchOk(workload.exists, new) \/ PatchErr(workload.exists, new)
      /\ Return(o, phase = "Running")
      /\ UNCHANGED <<specs, children, image, readyPods, failedGens, crashes, unready, others>>

UpdateStatus(o) ==
  LET phase == IF ready[o] >= SpecOf(snap[o]).replicas THEN "Running" ELSE "Provisioning"
      new   == [workload EXCEPT !.phase = phase, !.observed = snap[o].generation,
                                !.storePath = found[o]]
  IN  /\ At(o, "updateStatus")
      /\ PatchOk(workload.exists, new) \/ PatchErr(workload.exists, new)
      /\ Return(o, TRUE)
      /\ UNCHANGED <<specs, children, image, readyPods, failedGens, crashes, unready, others>>

-----------------------------------------------------------------------------
Step(o) ==
  \/ Reconcile(o) \/ AddFinalizer(o) \/ RemoveFinalizer(o)
  \/ SetPhaseEvaluating(o) \/ CallEvalWebhook(o) \/ SetPhaseProvisioning(o)
  \/ \E k \in Kinds : ApplyChild(o, k)
  \/ SetFailed(o) \/ CountReadyReplicas(o) \/ UpdateStatus(o)

Environment ==
  \/ EditSpec \/ DeleteWorkload \/ OtherAddsFinalizer \/ OtherRemovesFinalizer
  \/ CollectGarbage \/ PodReady \/ PodStopped \/ PodUnready

Next ==
  \/ \E o \in Operators : Step(o) \/ WatchEvent(o) \/ OwnedEvent(o) \/ Crash(o)
  \/ Environment

Spec == Init /\ [][Next]_vars

(***************************************************************************)
(* A reconcile that is due runs, every awaited call returns, watch events  *)
(* arrive, and the cluster's own controllers do their work.  Users, other  *)
(* controllers' additions, faults and crashes are never required.          *)
(***************************************************************************)
Fairness ==
  /\ \A o \in Operators : WF_vars(Step(o)) /\ WF_vars(WatchEvent(o))
  /\ WF_vars(CollectGarbage) /\ WF_vars(PodReady) /\ WF_vars(PodStopped)

FairSpec == Spec /\ Fairness

-----------------------------------------------------------------------------
(* Properties *)

(* Every variable keeps the type the code gives it. *)
TypeOK ==
  /\ specs \in Seq(Specs)
  /\ workload \in WorkloadType
  /\ children \in [Kinds -> Nat]
  /\ image \in Paths \cup {NoPath}
  /\ readyPods \in Nat
  /\ cached \in [Operators -> WorkloadType]
  /\ queued \in [Operators -> BOOLEAN]
  /\ pc \in [Operators -> PCs]
  /\ snap \in [Operators -> WorkloadType]
  /\ found \in [Operators -> Paths \cup {NoPath}]
  /\ todo \in [Operators -> SUBSET Kinds]
  /\ ready \in [Operators -> Nat]
  /\ failedGens \subseteq Nat
  /\ faults \in Nat /\ crashes \in Nat /\ unready \in Nat /\ others \in Nat

(***************************************************************************)
(* update_status: a generation the status reports as observed, and for     *)
(* which set_failed never wrote, has the store path its own spec evaluates *)
(* to - whoever wrote it, from however stale a snapshot, and whether the   *)
(* path was evaluated or taken back from the status by from_status.        *)
(***************************************************************************)
FreshUnlessFailed ==
  workload.observed # 0 /\ workload.observed \notin failedGens
    => workload.storePath = Build[specs[workload.observed].flake]

(***************************************************************************)
(* What phase Running means with one operator at work: the Deployment runs *)
(* the status's store path and every child the observed generation asks    *)
(* for was applied from that generation.  Failed calls and crashes between *)
(* two applies must not leave an older Running in place.                   *)
(***************************************************************************)
RunningMatchesChildren ==
  workload.exists /\ workload.phase = "Running"
    => /\ image = workload.storePath
       /\ \A k \in Wanted(specs[workload.observed]) :
             children[k] = workload.observed

(* With one operator the status never goes back to an older generation. *)
ObservedMonotone ==
  [][workload'.exists => workload'.observed >= workload.observed]_vars

(***************************************************************************)
(* With one operator, a child is only written while the workload is there  *)
(* and holds our finalizer: nothing is applied once deletion was released, *)
(* however late the reflector learns of it.                                *)
(***************************************************************************)
AppliesUnderFinalizer ==
  [][(\E k \in Kinds : children'[k] # children[k] /\ children'[k] # 0)
       => workload.exists /\ Own \in workload.finalizers]_vars

(***************************************************************************)
(* add_finalizer and remove_finalizer write back the whole list they read  *)
(* before the await: another controller's finalizer survives whenever the  *)
(* snapshot has it, in failed and repeated patches and during deletion.    *)
(* (One added after the snapshot is lost, which is as far as this goes.)   *)
(***************************************************************************)
SeenFinalizersKept ==
  [][\A o \in Operators :
       pc[o] \in {"addFinalizer", "removeFinalizer"} /\ pc'[o] = "idle"
         /\ Other \in snap[o].finalizers \cap workload.finalizers
         => Other \in workload'.finalizers]_vars

(* A workload marked for deletion loses our finalizer, whatever call fails. *)
DeletionReleased ==
  workload.deleting ~> Own \notin workload.finalizers

(***************************************************************************)
(* Edits, faults, crashes and pod losses end: then, unless the workload is *)
(* deleted, it is reported Running at its last generation again and again. *)
(* (Not for good: a reconcile that starts before the watch delivers the    *)
(* last status write sets Provisioning once more.)                         *)
(***************************************************************************)
ReachesRunning ==
  []<>(\/ ~workload.exists \/ workload.deleting
       \/ workload.phase = "Running" /\ workload.observed = workload.generation)

-----------------------------------------------------------------------------
(* What the documentation and the comments say, and the code does not do *)

(***************************************************************************)
(* docs/src/architecture/deploy-flow.md:102-104: a changed flakeRef is     *)
(* re-evaluated and the Deployment patched.  So a workload Running at its  *)
(* current generation runs what that generation's flake evaluates to.      *)
(***************************************************************************)
RunningDeploysItsSpec ==
  workload.exists /\ workload.phase = "Running"
    /\ workload.observed = workload.generation
    => workload.storePath = Build[SpecOf(workload).flake]

(***************************************************************************)
(* docs/src/components/operator.md:80 "Reconciliation is idempotent, so    *)
(* brief dual-leader windows are safe": once every operator has seen the   *)
(* object and finds nothing left to do, status and children agree.         *)
(***************************************************************************)
QuietMeansConsistent ==
  (\A o \in Operators :
      At(o, "idle") /\ cached[o] = workload /\ Dispatch(workload) = "idle")
    => RunningMatchesChildren

=============================================================================
