---------------------------- MODULE NodeService ----------------------------
(***************************************************************************)
(* The CSI node service (crates/niphas-csi/src/node.rs and mount.rs):      *)
(* NodePublishVolume and NodeUnpublishVolume as sequences of system calls  *)
(* on the mounts of the node, over the cache's promises (CacheStore), with *)
(* a kubelet that retries, times out and deletes pods.                     *)
(***************************************************************************)
EXTENDS Naturals, Sequences, SequencesExt

CONSTANTS
  Calls,        \* RPCs that can be in progress at once
  Targets,      \* target paths, one per pod volume
  Paths,        \* store paths
  NoCall,
  Context,      \* target -> volume_context, the volumeAttributes of the pod
  MaxFaults,    \* bound: failed system calls, failed and dropped cache requests
  MaxCrashes,   \* bound: restarts of the driver
  MaxLate       \* bound: calls the kubelet gives up that run on to their end

ASSUME ContextAssumption ==
  \A t \in Targets :
    /\ DOMAIN Context[t] \subseteq {"storePath", "closurePaths"}
    /\ "storePath" \in DOMAIN Context[t] => Context[t].storePath \in Paths
    /\ "closurePaths" \in DOMAIN Context[t] => Context[t].closurePaths \subseteq Paths
ASSUME NodeAssumption   == NoCall \notin Calls /\ Targets # {}
ASSUME NodeBounds       == MaxFaults \in Nat /\ MaxCrashes \in Nat /\ MaxLate \in Nat

VARIABLES
  have, asked, answer,  \* the cache, see CacheStore
  mounts,     \* target -> mounts stacked on it, the visible one last
  dir,        \* target -> the target directory exists
  npc,        \* where each call's handler stands
  target,     \* the target_path each call is about
  live,       \* target -> the call the kubelet waits for
  pod,        \* target -> "wanted", "deleted" or "cleaned" for the kubelet
  published,  \* target -> the last publish was answered Ok
  unreadable, \* paths whose archives the cache refuses every time, see NarCache
  leftover,   \* paths a failed extraction blocks until the driver restarts
  ignored,    \* target -> call -> how often its error was not looked at
  faults, crashes, late

storeVars   == <<have, asked, answer>>
blockedVars == <<unreadable, leftover>>
kubeletVars == <<live, pod, published>>
budgetVars  == <<faults, crashes, late>>
vars == <<storeVars, blockedVars, mounts, dir, npc, target, kubeletVars, ignored, budgetVars>>

Cache == INSTANCE CacheStore WITH Requests <- Calls

PCs == {"idle", "publish", "ensure", "setup", "bind", "remount", "undo", "abandon",
        "unpublish", "unmount", "cleanup"}

(* The calls whose errors node.rs and mount.rs take for an answer or drop. *)
Unchecked == {"mountinfo", "umount2", "remove_dir"}

Init ==
  /\ Cache!Init /\ leftover = {} /\ unreadable \in SUBSET Paths
  /\ mounts = [t \in Targets |-> <<>>]
  /\ dir = [t \in Targets |-> FALSE]
  /\ npc = [c \in Calls |-> "idle"]
  /\ target \in [Calls -> {CHOOSE t \in Targets : TRUE}]
  /\ live = [t \in Targets |-> NoCall]
  /\ pod = [t \in Targets |-> "wanted"]
  /\ published = [t \in Targets |-> FALSE]
  /\ ignored = [t \in Targets |-> [call \in Unchecked |-> 0]]
  /\ faults = 0 /\ crashes = 0 /\ late = 0

-----------------------------------------------------------------------------
(* The kubelet (external) *)

Fault == faults < MaxFaults /\ faults' = faults + 1

(* One call per target at a time; it repeats a publish after a restart too. *)
KubeletCalls(c, t, kind) ==
  /\ npc[c] = "idle" /\ live[t] = NoCall
  /\ pod[t] = (IF kind = "publish" THEN "wanted" ELSE "deleted")
  /\ npc' = [npc EXCEPT ![c] = kind]
  /\ target' = [target EXCEPT ![c] = t]
  /\ live' = [live EXCEPT ![t] = c]
  /\ UNCHANGED <<storeVars, blockedVars, mounts, dir, pod, published, ignored, budgetVars>>

DeletePod(t) ==
  /\ pod[t] = "wanted" /\ live[t] = NoCall
  /\ pod' = [pod EXCEPT ![t] = "deleted"]
  /\ published' = [published EXCEPT ![t] = FALSE]
  /\ UNCHANGED <<storeVars, blockedVars, mounts, dir, npc, target, live, ignored, budgetVars>>

(* A deadline passes while the handler awaits the cache: tonic drops it. *)
TimeoutDrops(t) ==
  LET c == live[t]
  IN  /\ c # NoCall /\ Fault
      /\ npc[c] = "ensure" /\ answer[c] = "wait"
      /\ Cache!Close(c)
      /\ npc' = [npc EXCEPT ![c] = "idle"]
      /\ live' = [live EXCEPT ![t] = NoCall]
      /\ UNCHANGED <<blockedVars, mounts, dir, target, pod, published, ignored, crashes, late>>

(* It passes while the handler makes system calls: the handler runs on. *)
TimeoutLate(t) ==
  LET c == live[t]
  IN  /\ c # NoCall /\ late < MaxLate
      /\ npc[c] # "ensure" \/ answer[c] # "wait"
      /\ late' = late + 1
      /\ live' = [live EXCEPT ![t] = NoCall]
      /\ UNCHANGED <<storeVars, blockedVars, mounts, dir, npc, target, pod, published, ignored, faults, crashes>>

(* The answer reaches the kubelet if it still waits for this call. *)
Return(c, kind, ok) ==
  LET t == target[c]
      heard == live[t] = c
  IN  /\ npc' = [npc EXCEPT ![c] = "idle"]
      /\ live' = [live EXCEPT ![t] = IF heard THEN NoCall ELSE @]
      /\ published' = [published EXCEPT ![t] = @ \/ (heard /\ ok /\ kind = "publish")]
      /\ pod' = [pod EXCEPT ![t] = IF heard /\ ok /\ kind = "unpublish" THEN "cleaned" ELSE @]

-----------------------------------------------------------------------------
(* mount.rs *)

(* A call about t fails, and the code goes on as if it had not. *)
Ignores(t, call) == Fault /\ ignored' = [ignored EXCEPT ![t][call] = @ + 1]

NoError == UNCHANGED <<ignored, faults>>

At(c, label) == npc[c] = label
Goto(c, label) == npc' = [npc EXCEPT ![c] = label] /\ UNCHANGED kubeletVars

IsMountpoint(t) == dir[t] /\ mounts[t] # <<>>

(* What is_mountpoint says: FALSE as well when it cannot read mountinfo or *)
(* resolve the path.                                                       *)
Looks(t, mounted) ==
  \/ mounted = IsMountpoint(t) /\ NoError
  \/ ~mounted /\ IsMountpoint(t) /\ Ignores(t, "mountinfo")

(* remove_dir: an error, that of a mountpoint or another, is dropped. *)
CleanupTarget(t) ==
  \/ dir' = [dir EXCEPT ![t] = @ /\ mounts[t] # <<>>] /\ NoError
  \/ dir[t] /\ mounts[t] = <<>> /\ Ignores(t, "remove_dir") /\ UNCHANGED dir

-----------------------------------------------------------------------------
(* NodePublishVolume *)

(* What node_publish_volume reads of the context; both keys are required. *)
Root(t)     == Context[t].storePath
Closure(t)  == Context[t].closurePaths
Complete(t) == /\ {"storePath", "closurePaths"} \subseteq DOMAIN Context[t]
               /\ Closure(t) # {}

(* The volumeAttributes build_deployment gives the pods of a workload. *)
VolumeAttributes(result) == [closurePaths |-> result.closurePaths]

(* Mutant: no look at what is mounted already. *)
PublishCheck_Blind(c) ==
  LET t == target[c]
  IN  /\ At(c, "publish")
      /\ \/ ~Complete(t) /\ Return(c, "publish", FALSE) /\ UNCHANGED storeVars
         \/ Complete(t) /\ Goto(c, "ensure") /\ Cache!Ask(c, Closure(t))
      /\ UNCHANGED <<blockedVars, mounts, dir, target, ignored, budgetVars>>

(* Mutant: a volume that is mounted already is an error. *)
PublishCheck_Strict(c) ==
  LET t == target[c]
  IN  /\ At(c, "publish")
      /\ \/ (IsMountpoint(t) \/ ~Complete(t)) /\ Return(c, "publish", FALSE) /\ UNCHANGED storeVars
         \/ ~IsMountpoint(t) /\ Complete(t) /\ Goto(c, "ensure") /\ Cache!Ask(c, Closure(t))
      /\ UNCHANGED <<blockedVars, mounts, dir, target, ignored, budgetVars>>

(* Idempotency first, then volume_context, then ensure_cached. *)
PublishCheck(c) ==
  LET t == target[c]
  IN  /\ At(c, "publish")
      /\ \/ Looks(t, TRUE) /\ Return(c, "publish", TRUE) /\ UNCHANGED storeVars
         \/ Looks(t, FALSE) /\ ~Complete(t) /\ Return(c, "publish", FALSE) /\ UNCHANGED storeVars
         \/ Looks(t, FALSE) /\ Complete(t) /\ Goto(c, "ensure") /\ Cache!Ask(c, Closure(t))
      /\ UNCHANGED <<blockedVars, mounts, dir, target, crashes, late>>

(***************************************************************************)
(* What the cache does for the call meanwhile.  It refuses a path it       *)
(* cannot extract every time it is asked; a fault refuses once, and may    *)
(* leave what blocks the path until the next restart.                      *)
(***************************************************************************)
CacheWorks(c) ==
  LET missing == asked[c] \ have
      blocked == unreadable \cup leftover
  IN  /\ \/ (\E p \in Paths \ blocked : Cache!Store(c, p)) /\ UNCHANGED <<leftover, faults>>
         \/ Cache!Succeed(c) /\ UNCHANGED <<leftover, faults>>
         \/ missing \cap blocked # {} /\ Cache!Refuse(c) /\ UNCHANGED <<leftover, faults>>
         \/ /\ missing # {} /\ Fault /\ Cache!Refuse(c)
            /\ leftover' \in {leftover} \cup {leftover \cup {p} : p \in missing}
      /\ UNCHANGED <<unreadable, mounts, dir, npc, target, kubeletVars, ignored, crashes, late>>

(* Mutant: an error of ensure_cached is only logged. *)
Ensured_LogsErrors(c) ==
  /\ At(c, "ensure") /\ answer[c] \in {"ok", "err"}
  /\ Cache!Close(c) /\ Goto(c, "setup")
  /\ UNCHANGED <<blockedVars, mounts, dir, target, ignored, budgetVars>>

Ensured(c) ==
  /\ At(c, "ensure")
  /\ Cache!Close(c)
  /\ \/ answer[c] = "ok" /\ Goto(c, "setup")
     \/ answer[c] = "err" /\ Return(c, "publish", FALSE)
  /\ UNCHANGED <<blockedVars, mounts, dir, target, ignored, budgetVars>>

SetupTargetDir(c) ==
  /\ At(c, "setup")
  /\ \/ dir' = [dir EXCEPT ![target[c]] = TRUE] /\ Goto(c, "bind") /\ UNCHANGED faults
     \/ ~dir[target[c]] /\ Fault /\ UNCHANGED dir /\ Return(c, "publish", FALSE)
  /\ UNCHANGED <<storeVars, blockedVars, mounts, target, ignored, crashes, late>>

(* mount(MS_BIND): writable, visible at once, over whatever is there. *)
BindMount(c) ==
  LET t == target[c]
      possible == Root(t) \in have /\ dir[t]
  IN  /\ At(c, "bind")
      /\ \/ /\ possible
            /\ mounts' = [mounts EXCEPT ![t] = Append(@, [path |-> Root(t), ro |-> FALSE])]
            /\ Goto(c, "remount") /\ UNCHANGED faults
         \/ /\ (~possible /\ UNCHANGED faults) \/ Fault
            /\ Goto(c, "abandon") /\ UNCHANGED mounts
      /\ UNCHANGED <<storeVars, blockedVars, dir, target, ignored, crashes, late>>

(* Mutant: a failed remount leaves the writable mount. *)
RemountReadonly_NoUndo(c) ==
  LET t == target[c]
      top == Len(mounts[t])
  IN  /\ At(c, "remount")
      /\ \/ /\ top > 0
            /\ mounts' = [mounts EXCEPT ![t][top].ro = TRUE]
            /\ Return(c, "publish", TRUE) /\ UNCHANGED faults
         \/ /\ (top = 0 /\ UNCHANGED faults) \/ Fault
            /\ Goto(c, "abandon") /\ UNCHANGED mounts
      /\ UNCHANGED <<storeVars, blockedVars, dir, target, ignored, crashes, late>>

(* The second mount call. *)
RemountReadonly(c) ==
  LET t == target[c]
      top == Len(mounts[t])
  IN  /\ At(c, "remount")
      /\ \/ /\ top > 0
            /\ mounts' = [mounts EXCEPT ![t][top].ro = TRUE]
            /\ Return(c, "publish", TRUE) /\ UNCHANGED faults
         \/ /\ (top = 0 /\ UNCHANGED faults) \/ Fault
            /\ Goto(c, "undo") /\ UNCHANGED mounts
      /\ UNCHANGED <<storeVars, blockedVars, dir, target, ignored, crashes, late>>

(* `let _ = self.unmount(target)`: whether it worked is not looked at. *)
UndoBind(c) ==
  LET t == target[c]
  IN  /\ At(c, "undo")
      /\ \/ mounts[t] # <<>> /\ mounts' = [mounts EXCEPT ![t] = Front(@)] /\ NoError
         \/ mounts[t] = <<>> /\ UNCHANGED mounts /\ NoError
         \/ mounts[t] # <<>> /\ Ignores(t, "umount2") /\ UNCHANGED mounts
      /\ Goto(c, "abandon")
      /\ UNCHANGED <<storeVars, blockedVars, dir, target, crashes, late>>

(* bind_mount_readonly failed: cleanup_target, and the error. *)
Abandon(c) ==
  /\ At(c, "abandon")
  /\ CleanupTarget(target[c])
  /\ Return(c, "publish", FALSE)
  /\ UNCHANGED <<storeVars, blockedVars, mounts, target, crashes, late>>

-----------------------------------------------------------------------------
(* NodeUnpublishVolume *)

(* Mutant: a target that is not mounted is an error. *)
UnpublishCheck_Strict(c) ==
  LET t == target[c]
  IN  /\ At(c, "unpublish")
      /\ \/ Looks(t, TRUE) /\ Goto(c, "unmount")
         \/ Looks(t, FALSE) /\ Return(c, "unpublish", FALSE)
      /\ UNCHANGED <<storeVars, blockedVars, mounts, dir, target, crashes, late>>

UnpublishCheck(c) ==
  LET t == target[c]
  IN  /\ At(c, "unpublish")
      /\ \/ Looks(t, TRUE) /\ Goto(c, "unmount")
         \/ Looks(t, FALSE) /\ Goto(c, "cleanup")
      /\ UNCHANGED <<storeVars, blockedVars, mounts, dir, target, crashes, late>>

(* Mutant: an unmount error is ignored like that of remove_dir. *)
Unmount_IgnoresErrors(c) ==
  LET t == target[c]
  IN  /\ At(c, "unmount")
      /\ \/ mounts' = [mounts EXCEPT ![t] = Front(@)] /\ UNCHANGED faults
         \/ Fault /\ UNCHANGED mounts
      /\ Goto(c, "cleanup")
      /\ UNCHANGED <<storeVars, blockedVars, dir, target, ignored, crashes, late>>

(* umount2(MNT_DETACH) takes the topmost mount off. *)
Unmount(c) ==
  LET t == target[c]
      mounted == mounts[t] # <<>>
  IN  /\ At(c, "unmount")
      /\ \/ mounted /\ mounts' = [mounts EXCEPT ![t] = Front(@)] /\ Goto(c, "cleanup") /\ UNCHANGED faults
         \/ /\ (~mounted /\ UNCHANGED faults) \/ Fault
            /\ Return(c, "unpublish", FALSE) /\ UNCHANGED mounts
      /\ UNCHANGED <<storeVars, blockedVars, dir, target, ignored, crashes, late>>

(* Both ends of an unpublish that found no mount, or took it off. *)
Cleanup(c) ==
  /\ At(c, "cleanup")
  /\ CleanupTarget(target[c])
  /\ Return(c, "unpublish", TRUE)
  /\ UNCHANGED <<storeVars, blockedVars, mounts, target, crashes, late>>

-----------------------------------------------------------------------------
(* The driver dies and comes back, with the cache's temporary directories    *)
(* removed; the node's mounts survive it.                                    *)
Crash ==
  /\ crashes < MaxCrashes
  /\ crashes' = crashes + 1
  /\ Cache!CloseAll /\ leftover' = {}
  /\ npc' = [c \in Calls |-> "idle"]
  /\ live' = [t \in Targets |-> NoCall]
  /\ UNCHANGED <<unreadable, mounts, dir, target, pod, published, ignored, faults, late>>

Step(c) ==
  \/ PublishCheck(c) \/ CacheWorks(c) \/ Ensured(c) \/ SetupTargetDir(c)
  \/ BindMount(c) \/ RemountReadonly(c) \/ UndoBind(c) \/ Abandon(c)
  \/ UnpublishCheck(c) \/ Unmount(c) \/ Cleanup(c)

Publishes(t)   == \E c \in Calls : KubeletCalls(c, t, "publish")
Unpublishes(t) == \E c \in Calls : KubeletCalls(c, t, "unpublish")

Next ==
  \/ \E c \in Calls : Step(c)
  \/ \E t \in Targets : \/ Publishes(t) \/ Unpublishes(t)
                        \/ DeletePod(t) \/ TimeoutDrops(t) \/ TimeoutLate(t)
  \/ Crash

Spec == Init /\ [][Next]_vars

(* System calls and the cache return; the kubelet retries both calls. *)
Fairness == /\ \A c \in Calls : WF_vars(Step(c))
            /\ \A t \in Targets : SF_vars(Publishes(t)) /\ SF_vars(Unpublishes(t))

FairSpec == Spec /\ Fairness

-----------------------------------------------------------------------------
(* Properties *)

(* Every variable keeps its type. *)
TypeOK ==
  /\ have \subseteq Paths
  /\ asked \in [Calls -> SUBSET Paths] /\ answer \in [Calls -> Cache!Answers]
  /\ mounts \in [Targets -> Seq([path : Paths, ro : BOOLEAN])]
  /\ dir \in [Targets -> BOOLEAN]
  /\ npc \in [Calls -> PCs] /\ target \in [Calls -> Targets]
  /\ live \in [Targets -> Calls \cup {NoCall}]
  /\ pod \in [Targets -> {"wanted", "deleted", "cleaned"}]
  /\ published \in [Targets -> BOOLEAN]
  /\ unreadable \subseteq Paths /\ leftover \subseteq Paths
  /\ ignored \in [Targets -> [Unchecked -> Nat]]
  /\ faults \in Nat /\ crashes \in Nat /\ late \in Nat

(***************************************************************************)
(* node_publish_volume: a volume the kubelet was told is published shows   *)
(* the volume's store path, and its whole closure is in the cache, however *)
(* many attempts failed, were dropped or died before.                      *)
(***************************************************************************)
PublishedIsUsable ==
  \A t \in Targets : published[t] /\ late = 0
    => /\ mounts[t] # <<>> /\ Last(mounts[t]).path = Root(t)
       /\ Closure(t) \subseteq have

(***************************************************************************)
(* bind_mount_readonly: a published volume is read-only, whichever mount   *)
(* call failed before, unless the driver died, a call was outlived, or one *)
(* of two errors that nobody looks at happened: umount2 in the undo (the   *)
(* next publish finds the writable mount and answers Ok), or mountinfo     *)
(* unreadable (a repeated publish mounts, writable first, over the pod).   *)
(***************************************************************************)
PublishedIsReadOnly ==
  \A t \in Targets :
    /\ published[t] /\ crashes = 0 /\ late = 0
    /\ ignored[t]["umount2"] = 0 /\ ignored[t]["mountinfo"] = 0
    => Last(mounts[t]).ro

(***************************************************************************)
(* is_mountpoint before the mount: publishes repeated in any number stack  *)
(* at most one extra mount for each call that outlived its deadline and    *)
(* for each time mountinfo could not be read.                              *)
(***************************************************************************)
MountsBounded ==
  \A t \in Targets : Len(mounts[t]) <= 1 + late + ignored[t]["mountinfo"]

(***************************************************************************)
(* node_unpublish_volume: once the kubelet is told a volume is gone, there *)
(* is neither a mount nor a directory, unless a call was outlived,         *)
(* mountinfo could not be read, or (the directory) remove_dir failed.      *)
(***************************************************************************)
CleanedIsGone ==
  \A t \in Targets :
    pod[t] = "cleaned" /\ late = 0 /\ ignored[t]["mountinfo"] = 0
    => mounts[t] = <<>> /\ (dir[t] => ignored[t]["remove_dir"] > 0)

(* The volume of a deleted pod is unpublished, whatever state it was left in. *)
EventuallyCleaned ==
  \A t \in Targets : pod[t] = "deleted" ~> pod[t] = "cleaned"

(***************************************************************************)
(* A pod that stays wanted gets its volume, whatever failed, was dropped   *)
(* or died before, if its volumeAttributes have both keys and the root is  *)
(* in the closure - unless the cache refuses a path of the closure every   *)
(* time, or what a failed extraction left blocks one until a restart.      *)
(***************************************************************************)
CompleteGetPublished ==
  \A t \in {u \in Targets : Complete(u) /\ Root(u) \in Closure(u)} :
    pod[t] = "wanted" ~> \/ published[t] \/ pod[t] # "wanted"
                         \/ Closure(t) \cap (unreadable \cup leftover) # {}

-----------------------------------------------------------------------------
(* What the documentation says, and the code does not do *)

(***************************************************************************)
(* docs/src/architecture/deploy-flow.md:85-86 "CSI driver fetches NARs",   *)
(* "Pod starts with Nix binary as entrypoint": the pods of the Deployment  *)
(* the operator creates get their volume as well, when the cache can fetch *)
(* and extract everything.                                                 *)
(***************************************************************************)
EveryPodStarts ==
  \A t \in Targets : pod[t] = "wanted" ~> \/ published[t] \/ pod[t] # "wanted"
                                         \/ unreadable \cup leftover # {}

=============================================================================
