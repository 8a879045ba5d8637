-------------------------- MODULE NodeServiceProofs --------------------------
(***************************************************************************)
(* NodePublishVolume and NodeUnpublishVolume for every set of calls,       *)
(* targets and store paths, every volume_context and every number of       *)
(* failed system calls, restarts, dropped calls and calls that outlive     *)
(* their deadline.                                                         *)
(***************************************************************************)
EXTENDS NodeService, FiniteSetTheorems, SequenceTheorems, TLAPS

-----------------------------------------------------------------------------
(* The inductive invariant *)

Pending      == {"ensure", "setup", "bind"}
Halfway      == {"remount", "undo"}
Publishing   == {"publish", "abandon"} \cup Pending \cup Halfway
Unpublishing == {"unpublish", "unmount", "cleanup"}

(* How often a mount of t was missed because mountinfo could not be read. *)
Blind(t) == ignored[t]["mountinfo"]

(* No restart, and no error about t that could leave a writable mount. *)
Clean(t) == crashes = 0 /\ Blind(t) = 0 /\ ignored[t]["umount2"] = 0

(* The handlers that run on after the kubelet gave their call up. *)
Outlived == {c \in Calls : npc[c] # "idle" /\ live[target[c]] # c}

(* The handlers that found t without a mount and have not mounted it yet. *)
Mounting(t) == {c \in Calls : npc[c] \in Pending /\ target[c] = t}

(* The kubelet waits for calls that are in progress. *)
LiveOK == \A t \in Targets : live[t] # NoCall => npc[live[t]] # "idle" /\ target[live[t]] = t

(* One of the calls it gave up for each deadline that passed. *)
OutlivedOK == IsFiniteSet(Outlived) /\ Cardinality(Outlived) <= late

(* Every handler between its check and its mount may add a mount, and a    *)
(* handler is there for t if it was outlived, is the only one the kubelet  *)
(* waits for, or did not see the mount that is there.                      *)
HasRoom(t) ==
  /\ IsFiniteSet(Mounting(t))
  /\ Len(mounts[t]) + Cardinality(Mounting(t)) <= 1 + late + Blind(t)

RoomOK == \A t \in Targets : HasRoom(t)

(* What is mounted, and below which directory. *)
MountOK ==
  \A t \in Targets : mounts[t] # <<>>
    => /\ dir[t] /\ Closure(t) \subseteq have
       /\ \A i \in 1..Len(mounts[t]) : mounts[t][i].path = Root(t)

(* What a handler knows of the cache. *)
CallOK(c) ==
  /\ npc[c] = "ensure" => answer[c] # "none" /\ asked[c] = Closure(target[c])
  /\ answer[c] = "ok" => asked[c] \subseteq have
  /\ answer[c] # "none" => npc[c] = "ensure"
  /\ npc[c] \in {"setup", "bind"} => Closure(target[c]) \subseteq have

(* With no call outlived, a handler has its target for itself. *)
AloneOK(c) ==
  LET t == target[c]
  IN  /\ npc[c] \in Publishing => pod[t] = "wanted"
      /\ npc[c] \in Unpublishing => pod[t] = "deleted"
      /\ npc[c] \in Halfway => mounts[t] # <<>> /\ (published[t] => Len(mounts[t]) >= 2)
      /\ Blind(t) = 0
           => /\ npc[c] \in Pending \cup {"cleanup"} => mounts[t] = <<>>
              /\ npc[c] \in Halfway => ~published[t]

(* What the kubelet was told is so. *)
ToldOK(t) ==
  /\ published[t] => pod[t] = "wanted" /\ mounts[t] # <<>>
  /\ Blind(t) = 0 /\ pod[t] = "cleaned"
       => mounts[t] = <<>> /\ (dir[t] => ignored[t]["remove_dir"] > 0)
  /\ Clean(t) /\ mounts[t] # <<>>
       => mounts[t][1].ro \/ \E c \in Calls : npc[c] \in Halfway /\ target[c] = t

QuietOK ==
  late = 0 => (\A c \in Calls : AloneOK(c)) /\ (\A t \in Targets : ToldOK(t))

IInv ==
  /\ TypeOK /\ LiveOK /\ OutlivedOK /\ RoomOK /\ MountOK /\ QuietOK
  /\ \A c \in Calls : CallOK(c)

-----------------------------------------------------------------------------
(* Counting and stacking *)

(* A smaller set of calls counts no more. *)
LEMMA Smaller ==
  ASSUME NEW S, NEW T, IsFiniteSet(S), T \subseteq S
  PROVE  IsFiniteSet(T) /\ Cardinality(T) \in Nat /\ Cardinality(S) \in Nat
         /\ Cardinality(T) <= Cardinality(S)
BY FS_Subset, FS_CardinalityType

(* A set that is another and at most one more call. *)
LEMMA OneMore ==
  ASSUME NEW S, NEW T, NEW x, IsFiniteSet(S), T \subseteq S \cup {x}
  PROVE  IsFiniteSet(T) /\ Cardinality(T) \in Nat /\ Cardinality(S) \in Nat
         /\ Cardinality(T) <= Cardinality(S) + 1
<1>1. /\ IsFiniteSet(S \cup {x}) /\ Cardinality(S) \in Nat
      /\ Cardinality(S \cup {x}) <= Cardinality(S) + 1
      /\ Cardinality(S \cup {x}) \in Nat
  BY FS_AddElement, FS_CardinalityType
<1>2. /\ IsFiniteSet(T) /\ Cardinality(T) \in Nat
      /\ Cardinality(T) <= Cardinality(S \cup {x})
  BY <1>1, Smaller
<1> QED BY <1>1, <1>2

(* umount2 takes the visible mount off and leaves the others. *)
LEMMA FrontFacts ==
  ASSUME NEW S, NEW s \in Seq(S), s # <<>>
  PROVE  /\ Front(s) \in Seq(S) /\ Len(s) \in Nat \ {0} /\ Len(Front(s)) = Len(s) - 1
         /\ \A i \in 1..(Len(s) - 1) : Front(s)[i] = s[i]
         /\ Len(s) = 1 => Front(s) = <<>>
<1>1. Len(s) \in Nat \ {0}
  OBVIOUS
<1> DEFINE n == Len(s) - 1
<1>2. /\ Front(s) \in Seq(S) /\ Len(Front(s)) = Len(s) - 1
      /\ \A i \in 1..(Len(s) - 1) : Front(s)[i] = s[i]
  <2>1. n \in Nat /\ n \in 0..Len(s) /\ Front(s) = SubSeq(s, 1, n)
    BY <1>1 DEF Front
  <2> HIDE DEF n
  <2>2. /\ SubSeq(s, 1, n) \in Seq(S) /\ Len(SubSeq(s, 1, n)) = n
        /\ \A i \in 1..n : SubSeq(s, 1, n)[i] = s[i]
    BY <1>1, <2>1
  <2> QED BY <2>1, <2>2 DEF n
<1>3. Len(s) = 1 => Front(s) = <<>>
  BY <1>2
<1> QED BY <1>1, <1>2, <1>3

(* A sequence is empty when it is of length zero. *)
LEMMA LenFacts ==
  ASSUME NEW S, NEW s \in Seq(S)
  PROVE  Len(s) \in Nat /\ (Len(s) = 0 <=> s = <<>>)
OBVIOUS

-----------------------------------------------------------------------------
(* What the handler of one call does leaves the other calls alone *)

Frame(c) ==
  LET t == target[c]
  IN  /\ \A d \in Calls \ {c} : npc'[d] = npc[d] /\ asked'[d] = asked[d] /\ answer'[d] = answer[d]
      /\ \A u \in Targets \ {t} : /\ mounts'[u] = mounts[u] /\ dir'[u] = dir[u]
                                  /\ live'[u] = live[u] /\ pod'[u] = pod[u]
                                  /\ published'[u] = published[u]
                                  /\ ignored'[u] = ignored[u]
      /\ UNCHANGED <<target, late, crashes>>
      /\ have \subseteq have'
      /\ \/ live'[t] = live[t] /\ (live[t] = c => npc'[c] # "idle")
         \/ live[t] = c /\ live'[t] = NoCall /\ npc'[c] = "idle"

(* With no call outlived, two calls in progress are about two targets. *)
LEMMA Alone ==
  ASSUME IInv, late = 0, NEW c \in Calls, npc[c] # "idle"
  PROVE  /\ live[target[c]] = c
         /\ \A d \in Calls \ {c} : npc[d] # "idle" => target[d] # target[c]
<1>1. Outlived = {}
  <2>1. IsFiniteSet(Outlived) /\ Cardinality(Outlived) <= 0
    BY DEF IInv, OutlivedOK
  <2>2. Cardinality(Outlived) \in Nat
    BY <2>1, FS_CardinalityType
  <2>3. Cardinality(Outlived) = 0
    BY <2>1, <2>2
  <2> QED BY <2>1, <2>3, FS_EmptySet
<1> QED BY <1>1 DEF Outlived

(* Who the kubelet waits for and who was given up. *)
LEMMA LiveKept ==
  ASSUME IInv, NEW c \in Calls, npc[c] # "idle", TypeOK', Frame(c)
  PROVE  LiveOK' /\ OutlivedOK'
<1>1. target[c] \in Targets
  BY DEF IInv, TypeOK
<1>2. LiveOK'
  <2> SUFFICES ASSUME NEW u \in Targets, live'[u] # NoCall
               PROVE  npc'[live'[u]] # "idle" /\ target'[live'[u]] = u
    BY DEF LiveOK
  <2>1. live'[u] = live[u] /\ live[u] \in Calls
    BY DEF Frame, IInv, TypeOK
  <2>2. npc[live[u]] # "idle" /\ target[live[u]] = u
    BY <2>1 DEF IInv, LiveOK
  <2>3. CASE live[u] = c
    BY <2>1, <2>2, <2>3 DEF Frame
  <2>4. CASE live[u] # c
    BY <2>1, <2>2, <2>4 DEF Frame
  <2> QED BY <2>3, <2>4
<1>3. Outlived' \subseteq Outlived
  <2> SUFFICES ASSUME NEW d \in Calls, npc'[d] # "idle", live'[target'[d]] # d
               PROVE  npc[d] # "idle" /\ live[target[d]] # d
    BY DEF Outlived
  <2>1. target'[d] = target[d] /\ target[d] \in Targets
    BY DEF Frame, IInv, TypeOK
  <2>2. CASE d = c
    BY <2>1, <2>2 DEF Frame
  <2>3. CASE d # c
    BY <2>1, <2>3 DEF Frame
  <2> QED BY <2>2, <2>3
<1>4. late' = late /\ late \in Nat
  BY DEF Frame, IInv, TypeOK
<1>5. OutlivedOK'
  BY <1>3, <1>4, Smaller DEF IInv, OutlivedOK
<1> QED BY <1>2, <1>5

(* The whole invariant, from what the acting handler owes. *)
LEMMA Framed ==
  ASSUME IInv, NEW c \in Calls, NEW t \in Targets, npc[c] # "idle", target[c] = t,
         TypeOK', Frame(c), CallOK(c)',
         late = 0 => AloneOK(c)' /\ ToldOK(t)',
         HasRoom(t)',
         mounts'[t] # <<>>
           => /\ dir'[t] /\ Closure(t) \subseteq have'
              /\ \A i \in 1..Len(mounts'[t]) : mounts'[t][i].path = Root(t)
  PROVE  IInv'
<1>1. late' = late /\ crashes' = crashes /\ target' = target
  BY DEF Frame, IInv, TypeOK
<1>2. RoomOK'
  <2> SUFFICES ASSUME NEW u \in Targets PROVE HasRoom(u)'
    BY DEF RoomOK
  <2>1. CASE u = t
    BY <2>1
  <2>2. CASE u # t
    <3>1. Mounting(u)' = Mounting(u)
      BY <1>1, <2>2 DEF Frame, Mounting
    <3>2. mounts'[u] = mounts[u] /\ Blind(u)' = Blind(u)
      BY <2>2 DEF Frame, Blind
    <3> QED BY <1>1, <3>1, <3>2 DEF IInv, RoomOK, HasRoom
  <2> QED BY <2>1, <2>2
<1>3. MountOK'
  <2> SUFFICES ASSUME NEW u \in Targets, mounts'[u] # <<>>
               PROVE  /\ dir'[u] /\ Closure(u) \subseteq have'
                      /\ \A i \in 1..Len(mounts'[u]) : mounts'[u][i].path = Root(u)
    BY DEF MountOK
  <2>1. CASE u = t
    BY <2>1
  <2>2. CASE u # t
    <3>1. mounts'[u] = mounts[u] /\ dir'[u] = dir[u] /\ have \subseteq have'
      BY <2>2 DEF Frame
    <3> QED BY <3>1 DEF IInv, MountOK
  <2> QED BY <2>1, <2>2
<1>4. \A d \in Calls : CallOK(d)'
  <2> SUFFICES ASSUME NEW d \in Calls \ {c} PROVE CallOK(d)'
    OBVIOUS
  <2>1. /\ npc'[d] = npc[d] /\ asked'[d] = asked[d] /\ answer'[d] = answer[d]
        /\ target'[d] = target[d] /\ have \subseteq have'
    BY DEF Frame
  <2> QED BY <2>1 DEF IInv, CallOK
<1>5. QuietOK'
  <2> SUFFICES ASSUME late = 0
               PROVE  (\A d \in Calls : AloneOK(d)') /\ (\A u \in Targets : ToldOK(u)')
    BY <1>1 DEF QuietOK
  <2>1. ASSUME NEW d \in Calls \ {c} PROVE AloneOK(d)'
    <3>1. npc'[d] = npc[d] /\ target'[d] = target[d] /\ target[d] \in Targets
      BY <2>1 DEF Frame, IInv, TypeOK
    <3>2. CASE npc[d] = "idle"
      BY <3>1, <3>2 DEF AloneOK, Publishing, Unpublishing, Pending, Halfway
    <3>3. CASE npc[d] # "idle"
      <4>1. target[d] # t
        BY <3>3, Alone
      <4>2. /\ mounts'[target[d]] = mounts[target[d]] /\ pod'[target[d]] = pod[target[d]]
            /\ published'[target[d]] = published[target[d]]
            /\ Blind(target[d])' = Blind(target[d])
        BY <1>1, <3>1, <4>1 DEF Frame, Blind
      <4>3. AloneOK(d)
        BY DEF IInv, QuietOK
      <4> QED BY <3>1, <4>2, <4>3 DEF AloneOK, Blind
    <3> QED BY <3>2, <3>3
  <2>2. ASSUME NEW u \in Targets \ {t} PROVE ToldOK(u)'
    <3>1. /\ mounts'[u] = mounts[u] /\ dir'[u] = dir[u] /\ pod'[u] = pod[u]
          /\ published'[u] = published[u] /\ ignored'[u] = ignored[u]
      BY <2>2 DEF Frame
    <3>2. ASSUME NEW d \in Calls, npc[d] \in Halfway, target[d] = u
          PROVE  npc'[d] \in Halfway /\ target'[d] = u
      BY <2>2, <3>2 DEF Frame
    <3>3. ToldOK(u) /\ (Clean(u)' <=> Clean(u)) /\ (Blind(u)' = Blind(u))
      BY <1>1, <3>1 DEF IInv, QuietOK, Clean, Blind
    <3>4. /\ published'[u] => pod'[u] = "wanted" /\ mounts'[u] # <<>>
          /\ Blind(u)' = 0 /\ pod'[u] = "cleaned"
               => mounts'[u] = <<>> /\ (dir'[u] => ignored'[u]["remove_dir"] > 0)
      BY <3>1, <3>3 DEF ToldOK
    <3>5. ASSUME Clean(u)', mounts'[u] # <<>>, ~mounts'[u][1].ro
          PROVE  \E d \in Calls : npc'[d] \in Halfway /\ target'[d] = u
      <4>1. PICK d \in Calls : npc[d] \in Halfway /\ target[d] = u
        BY <3>1, <3>3, <3>5 DEF ToldOK
      <4> QED BY <3>2, <4>1
    <3> QED BY <3>4, <3>5 DEF ToldOK
  <2> QED BY <2>1, <2>2
<1>6. LiveOK' /\ OutlivedOK'
  BY LiveKept
<1> QED BY <1>2, <1>3, <1>4, <1>5, <1>6 DEF IInv

-----------------------------------------------------------------------------
(* A handler goes on, or returns *)

Mount == [path : Paths, ro : BOOLEAN]

(* Errors are only ever counted, and those about t for t. *)
Counts(t) ==
  /\ ignored' \in [Targets -> [Unchecked -> Nat]]
  /\ \A u \in Targets \ {t} : ignored'[u] = ignored[u]
  /\ \A call \in Unchecked : ignored[t][call] <= ignored'[t][call]

(* What a step of the handler of c does to the cache and to the node. *)
SystemPart(c, t) ==
  /\ have \subseteq have' /\ have' \subseteq Paths
  /\ unreadable' \subseteq Paths /\ leftover' \subseteq Paths
  /\ asked' \in [Calls -> SUBSET Paths] /\ answer' \in [Calls -> Cache!Answers]
  /\ \A d \in Calls \ {c} : asked'[d] = asked[d] /\ answer'[d] = answer[d]
  /\ mounts' \in [Targets -> Seq(Mount)] /\ dir' \in [Targets -> BOOLEAN]
  /\ \A u \in Targets \ {t} : mounts'[u] = mounts[u] /\ dir'[u] = dir[u]
  /\ UNCHANGED <<target, late, crashes>> /\ faults' \in Nat /\ Counts(t)

(* What was not missed and not left after the step was not before it. *)
LEMMA CountsFacts ==
  ASSUME IInv, NEW t \in Targets, Counts(t), crashes' = crashes
  PROVE  /\ Blind(t) \in Nat /\ Blind(t)' \in Nat /\ Blind(t) <= Blind(t)'
         /\ Blind(t)' = 0 => Blind(t) = 0
         /\ Clean(t)' => Clean(t)
         /\ ignored[t]["remove_dir"] > 0 => ignored'[t]["remove_dir"] > 0
<1>1. "mountinfo" \in Unchecked /\ "umount2" \in Unchecked /\ "remove_dir" \in Unchecked
  BY DEF Unchecked
<1>2. /\ ignored[t] \in [Unchecked -> Nat] /\ ignored'[t] \in [Unchecked -> Nat]
      /\ \A call \in Unchecked : ignored[t][call] <= ignored'[t][call]
  BY DEF Counts, IInv, TypeOK
<1>3. \A call \in Unchecked : ignored[t][call] \in Nat /\ ignored'[t][call] \in Nat
  BY <1>2
<1> QED BY <1>1, <1>2, <1>3 DEF Blind, Clean

(* A step without an error, and one that passes over an error. *)
LEMMA UncountedFacts ==
  ASSUME IInv, NEW t \in Targets, UNCHANGED ignored
  PROVE  Counts(t)
<1>1. ignored \in [Targets -> [Unchecked -> Nat]]
  BY DEF IInv, TypeOK
<1>2. ASSUME NEW call \in Unchecked PROVE ignored[t][call] <= ignored'[t][call]
  BY <1>1
<1> QED BY <1>1, <1>2 DEF Counts

LEMMA IgnoresFacts ==
  ASSUME IInv, NEW t \in Targets, NEW call \in Unchecked, Ignores(t, call)
  PROVE  /\ Counts(t) /\ faults' \in Nat
         /\ ignored'[t][call] = ignored[t][call] + 1 /\ ignored[t][call] \in Nat
<1>1. /\ ignored \in [Targets -> [Unchecked -> Nat]] /\ faults \in Nat
      /\ ignored' = [ignored EXCEPT ![t][call] = ignored[t][call] + 1] /\ faults' = faults + 1
  BY DEF Ignores, Fault, IInv, TypeOK
<1>2. ignored[t] \in [Unchecked -> Nat] /\ ignored[t][call] \in Nat
  BY <1>1
<1>3. /\ ignored'[t] = [ignored[t] EXCEPT ![call] = ignored[t][call] + 1]
      /\ \A u \in Targets \ {t} : ignored'[u] = ignored[u]
  BY <1>1
<1>4. ignored'[t] \in [Unchecked -> Nat] /\ ignored'[t][call] = ignored[t][call] + 1
  BY <1>2, <1>3
<1>5. ASSUME NEW other \in Unchecked PROVE ignored[t][other] <= ignored'[t][other]
  <2>1. ignored[t][other] \in Nat
    BY <1>2
  <2>2. CASE other = call
    BY <1>4, <2>1, <2>2
  <2>3. CASE other # call
    <3>1. ignored'[t][other] = ignored[t][other]
      BY <1>2, <1>3, <2>3
    <3> QED BY <2>1, <3>1
  <2> QED BY <2>2, <2>3
<1>6. ignored' \in [Targets -> [Unchecked -> Nat]]
  BY <1>1, <1>3, <1>4
<1> QED BY <1>1, <1>2, <1>3, <1>4, <1>5, <1>6 DEF Counts

(* The mounts of t are below its directory, and of its closure's root. *)
Placed(t) ==
  mounts[t] # <<>> => /\ dir[t] /\ Closure(t) \subseteq have
                      /\ \A i \in 1..Len(mounts[t]) : mounts[t][i].path = Root(t)

(* A handler that stays behind its check, or has passed its mount, and     *)
(* stacks nothing, needs no more room.                                     *)
LEMMA RoomKept ==
  ASSUME IInv, NEW c \in Calls, NEW t \in Targets, SystemPart(c, t),
         \A d \in Calls \ {c} : npc'[d] = npc[d],
         npc'[c] \in Pending => npc[c] \in Pending,
         Len(mounts'[t]) <= Len(mounts[t])
  PROVE  HasRoom(t)'
<1>1. Mounting(t)' \subseteq Mounting(t) /\ late' = late
  BY DEF Mounting, SystemPart
<1>2. /\ IsFiniteSet(Mounting(t))
      /\ Len(mounts[t]) + Cardinality(Mounting(t)) <= 1 + late + Blind(t)
  BY DEF IInv, RoomOK, HasRoom
<1>3. /\ Len(mounts[t]) \in Nat /\ Len(mounts'[t]) \in Nat /\ late \in Nat
      /\ Blind(t) \in Nat /\ Blind(t)' \in Nat /\ Blind(t) <= Blind(t)'
  BY LenFacts, CountsFacts DEF SystemPart, IInv, TypeOK
<1>4. /\ IsFiniteSet(Mounting(t)') /\ Cardinality(Mounting(t)') \in Nat
      /\ Cardinality(Mounting(t)) \in Nat
      /\ Cardinality(Mounting(t)') <= Cardinality(Mounting(t))
  BY <1>1, <1>2, Smaller
<1>5. Len(mounts'[t]) + Cardinality(Mounting(t)') <= 1 + late + Blind(t)'
  BY <1>2, <1>3, <1>4
<1> QED BY <1>1, <1>4, <1>5 DEF HasRoom

(* With no call outlived, no restart and no error passed over, a mounted   *)
(* target whose handler is not in the middle of mounting it is read-only.  *)
LEMMA ReadOnlyAlone ==
  ASSUME IInv, late = 0, NEW c \in Calls, NEW t \in Targets, target[c] = t, Clean(t),
         npc[c] \notin {"idle"} \cup Halfway, mounts[t] # <<>>
  PROVE  mounts[t][1].ro
<1> SUFFICES ASSUME ~mounts[t][1].ro PROVE FALSE
  OBVIOUS
<1>1. ToldOK(t)
  BY DEF IInv, QuietOK
<1>2. PICK d \in Calls : npc[d] \in Halfway /\ target[d] = t
  BY <1>1 DEF ToldOK
<1> QED BY <1>2, Alone DEF Halfway

(* The handler goes on to its next system call. *)
LEMMA GotoKeeps ==
  ASSUME IInv, NEW c \in Calls, NEW t \in Targets, target[c] = t, npc[c] # "idle",
         NEW label \in PCs \ {"idle"}, Goto(c, label), SystemPart(c, t),
         CallOK(c)', Placed(t)',
         late = 0 => AloneOK(c)' /\ ToldOK(t)',
         HasRoom(t)'
  PROVE  IInv'
<1>1. npc' = [npc EXCEPT ![c] = label] /\ UNCHANGED <<live, pod, published>>
  BY DEF Goto, kubeletVars
<1>2. npc'[c] = label /\ \A d \in Calls \ {c} : npc'[d] = npc[d]
  BY <1>1 DEF IInv, TypeOK
<1>3. TypeOK'
  BY <1>1 DEF SystemPart, Counts, IInv, TypeOK, Mount
<1>4. Frame(c)
  BY <1>1, <1>2 DEF Frame, SystemPart, Counts
<1> QED BY <1>3, <1>4, Framed DEF Placed

(* What the kubelet hears of a call that returns. *)
LEMMA ReturnEffect ==
  ASSUME IInv, NEW c \in Calls, NEW t \in Targets, target[c] = t,
         NEW kind, NEW ok \in BOOLEAN, Return(c, kind, ok)
  PROVE  /\ npc'[c] = "idle" /\ \A d \in Calls \ {c} : npc'[d] = npc[d]
         /\ live[t] = c => live'[t] = NoCall
         /\ live[t] # c => live'[t] = live[t]
         /\ published'[t] <=> published[t] \/ (live[t] = c /\ ok /\ kind = "publish")
         /\ pod'[t] = IF live[t] = c /\ ok /\ kind = "unpublish" THEN "cleaned" ELSE pod[t]
         /\ \A u \in Targets \ {t} : /\ live'[u] = live[u] /\ pod'[u] = pod[u]
                                     /\ published'[u] = published[u]
         /\ npc' \in [Calls -> PCs] /\ live' \in [Targets -> Calls \cup {NoCall}]
         /\ pod' \in [Targets -> {"wanted", "deleted", "cleaned"}]
         /\ published' \in [Targets -> BOOLEAN]
BY DEF Return, IInv, TypeOK, PCs

(* An Ok that the kubelet hears. *)
LEMMA HeardPublish ==
  ASSUME IInv, NEW c \in Calls, NEW t \in Targets, target[c] = t, live[t] = c,
         Return(c, "publish", TRUE)
  PROVE  published'[t] /\ pod'[t] = pod[t]
BY DEF Return, IInv, TypeOK

LEMMA HeardUnpublish ==
  ASSUME IInv, NEW c \in Calls, NEW t \in Targets, target[c] = t, live[t] = c,
         Return(c, "unpublish", TRUE)
  PROVE  (published'[t] <=> published[t]) /\ pod'[t] = "cleaned"
BY DEF Return, IInv, TypeOK

(* The handler returns and leaves what it knows of the cache. *)
LEMMA ReturnKeeps ==
  ASSUME IInv, NEW c \in Calls, NEW t \in Targets, target[c] = t, npc[c] # "idle",
         NEW kind, NEW ok \in BOOLEAN, Return(c, kind, ok), SystemPart(c, t),
         answer'[c] = "none", Placed(t)', Len(mounts'[t]) <= Len(mounts[t]),
         late = 0 => ToldOK(t)'
  PROVE  IInv'
<1>1. npc'[c] = "idle" /\ \A d \in Calls \ {c} : npc'[d] = npc[d]
  BY ReturnEffect
<1>2. TypeOK'
  <2>1. /\ npc' \in [Calls -> PCs] /\ live' \in [Targets -> Calls \cup {NoCall}]
        /\ pod' \in [Targets -> {"wanted", "deleted", "cleaned"}]
        /\ published' \in [Targets -> BOOLEAN]
    BY ReturnEffect
  <2> QED BY <2>1 DEF SystemPart, Counts, IInv, TypeOK, Mount
<1>3. Frame(c)
  <2>1. \/ live[t] # c /\ live'[t] = live[t]
        \/ live[t] = c /\ live'[t] = NoCall
    BY ReturnEffect
  <2>2. \A u \in Targets \ {t} : /\ live'[u] = live[u] /\ pod'[u] = pod[u]
                                 /\ published'[u] = published[u]
    BY ReturnEffect
  <2> QED BY <1>1, <2>1, <2>2 DEF Frame, SystemPart, Counts
<1>4. CallOK(c)' /\ AloneOK(c)'
  BY <1>1 DEF CallOK, AloneOK, Publishing, Unpublishing, Pending, Halfway
<1>5. HasRoom(t)'
  BY <1>1, RoomKept DEF Pending
<1> QED BY <1>2, <1>3, <1>4, <1>5, Framed DEF Placed

(* What the kubelet was told stays so when a call about t fails. *)
LEMMA ToldAfterError ==
  ASSUME IInv, late = 0, NEW c \in Calls, NEW t \in Targets, target[c] = t,
         npc[c] \notin {"idle"} \cup Halfway, NEW kind, Return(c, kind, FALSE),
         SystemPart(c, t), mounts'[t] = mounts[t], dir'[t] => dir[t]
  PROVE  ToldOK(t)'
<1>1. ToldOK(t)
  BY DEF IInv, QuietOK
<1>2. (published'[t] <=> published[t]) /\ pod'[t] = pod[t]
  BY DEF Return, IInv, TypeOK
<1>3. /\ Blind(t)' = 0 => Blind(t) = 0
      /\ Clean(t)' => Clean(t)
      /\ ignored[t]["remove_dir"] > 0 => ignored'[t]["remove_dir"] > 0
  BY CountsFacts DEF SystemPart
<1>4. /\ published'[t] => pod'[t] = "wanted" /\ mounts'[t] # <<>>
      /\ Blind(t)' = 0 /\ pod'[t] = "cleaned"
           => mounts'[t] = <<>> /\ (dir'[t] => ignored'[t]["remove_dir"] > 0)
  BY <1>1, <1>2, <1>3 DEF ToldOK
<1>5. ASSUME Clean(t)', mounts'[t] # <<>> PROVE mounts'[t][1].ro
  BY <1>3, <1>5, ReadOnlyAlone
<1> QED BY <1>4, <1>5 DEF ToldOK

-----------------------------------------------------------------------------
(* One lemma for each action *)

(* The invariant holds on a node with no mounts and no calls. *)
LEMMA InitIInv == Init => IInv
<1> SUFFICES ASSUME Init PROVE IInv
  OBVIOUS
<1>1. have = {} /\ asked = [c \in Calls |-> {}] /\ answer = [c \in Calls |-> "none"]
  BY DEF Init, Cache!Init
<1>2. target \in [Calls -> Targets]
  BY NodeAssumption DEF Init
<1>3. TypeOK
  BY <1>1, <1>2 DEF Init, TypeOK, PCs, Cache!Answers
<1>4. Outlived = {} /\ \A t \in Targets : Mounting(t) = {}
  BY DEF Init, Outlived, Mounting, Pending
<1>5. OutlivedOK /\ RoomOK
  <2>1. late = 0 /\ \A t \in Targets : Len(mounts[t]) = 0
    BY DEF Init
  <2>2. IsFiniteSet({}) /\ Cardinality({}) = 0
    BY FS_EmptySet
  <2>3. OutlivedOK
    BY <1>4, <2>1, <2>2 DEF OutlivedOK
  <2>4. ASSUME NEW t \in Targets
        PROVE  HasRoom(t)
    <3>1. Mounting(t) = {}
      BY <1>4
    <3>2. Len(mounts[t]) + 0 <= 1 + late + Blind(t)
      BY <2>1 DEF Init, Blind, Unchecked
    <3> QED BY <2>2, <3>1, <3>2 DEF HasRoom
  <2> QED BY <2>3, <2>4 DEF RoomOK
<1>6. LiveOK /\ MountOK /\ QuietOK
  BY DEF Init, LiveOK, MountOK, QuietOK, AloneOK, ToldOK, Publishing, Unpublishing, Pending,
         Halfway
<1>7. \A c \in Calls : CallOK(c)
  BY <1>1 DEF Init, CallOK
<1> QED BY <1>3, <1>5, <1>6, <1>7 DEF IInv

(* The parts of SystemPart a step leaves alone. *)
LEMMA SystemSame ==
  ASSUME IInv
  PROVE  /\ have \subseteq Paths
         /\ asked \in [Calls -> SUBSET Paths] /\ answer \in [Calls -> Cache!Answers]
         /\ mounts \in [Targets -> Seq(Mount)] /\ dir \in [Targets -> BOOLEAN]
         /\ unreadable \subseteq Paths /\ leftover \subseteq Paths
         /\ faults \in Nat /\ late \in Nat /\ crashes \in Nat
         /\ \A t \in Targets : Blind(t) \in Nat
         /\ \A t \in Targets : Placed(t)
         /\ \A t \in Targets : Len(mounts[t]) \in Nat
<1>1. \A t \in Targets : Blind(t) \in Nat
  BY DEF IInv, TypeOK, Unchecked, Blind
<1> QED BY <1>1, LenFacts DEF IInv, TypeOK, Mount, MountOK, Placed

(* What the handler learns when it looks for a mount on t. *)
LEMMA LooksFacts ==
  ASSUME IInv, NEW t \in Targets, NEW mounted \in BOOLEAN, Looks(t, mounted)
  PROVE  /\ Counts(t) /\ faults' \in Nat
         /\ mounted => mounts[t] # <<>>
         /\ ~mounted => mounts[t] = <<>> \/ Blind(t)' = Blind(t) + 1
         /\ UNCHANGED ignored \/ Blind(t)' # 0
<1>1. "mountinfo" \in Unchecked
  BY DEF Unchecked
<1>2. CASE mounted = IsMountpoint(t) /\ NoError
  <2>1. UNCHANGED ignored /\ faults' = faults
    BY <1>2 DEF NoError
  <2>2. ~IsMountpoint(t) => mounts[t] = <<>>
    BY DEF IsMountpoint, IInv, MountOK
  <2> QED BY <1>2, <2>1, <2>2, UncountedFacts, SystemSame DEF IsMountpoint
<1>3. CASE ~mounted /\ IsMountpoint(t) /\ Ignores(t, "mountinfo")
  <2>1. /\ Counts(t) /\ faults' \in Nat
        /\ Blind(t)' = Blind(t) + 1 /\ Blind(t) \in Nat
    BY <1>1, <1>3, IgnoresFacts DEF Blind
  <2> QED BY <1>3, <2>1
<1> QED BY <1>2, <1>3 DEF Looks

(* The look at the mount table, at the context, and the cache is asked. *)
LEMMA PublishCheckKeeps ==
  ASSUME IInv, NEW c \in Calls, PublishCheck(c)
  PROVE  IInv'
<1>1. PICK t \in Targets : target[c] = t
  BY DEF IInv, TypeOK
<1>2. /\ npc[c] = "publish"
      /\ UNCHANGED <<unreadable, leftover, mounts, dir, target, crashes, late>>
  BY DEF PublishCheck, At, blockedVars
<1>3. answer[c] = "none" /\ npc[c] \notin {"idle"} \cup Halfway
  BY <1>2 DEF IInv, CallOK, Halfway
<1>4. late = 0 => live[t] = c /\ pod[t] = "wanted"
  BY <1>1, <1>2, Alone DEF IInv, QuietOK, AloneOK, Publishing
<1>5. ASSUME Looks(t, TRUE), Return(c, "publish", TRUE), UNCHANGED storeVars PROVE IInv'
  <2>1. Counts(t) /\ faults' \in Nat /\ mounts[t] # <<>>
    BY <1>5, LooksFacts
  <2>2. SystemPart(c, t)
    BY <1>2, <1>5, <2>1, SystemSame DEF SystemPart, storeVars
  <2>3. ASSUME late = 0 PROVE ToldOK(t)'
    <3>1. published'[t] /\ pod'[t] = "wanted" /\ mounts'[t] # <<>>
      BY <1>1, <1>2, <1>4, <1>5, <2>1, <2>3, HeardPublish
    <3>2. ASSUME Clean(t)' PROVE mounts'[t][1].ro
      BY <1>1, <1>2, <1>3, <2>1, <2>3, <3>2, ReadOnlyAlone, CountsFacts
    <3> QED BY <3>1, <3>2 DEF ToldOK
  <2>4. Placed(t)' /\ Len(mounts'[t]) <= Len(mounts[t]) /\ answer'[c] = "none"
    BY <1>2, <1>3, <1>5, SystemSame DEF Placed, storeVars
  <2> QED BY <1>1, <1>2, <1>5, <2>2, <2>3, <2>4, ReturnKeeps
<1>6. ASSUME Looks(t, FALSE), Return(c, "publish", FALSE), UNCHANGED storeVars PROVE IInv'
  <2>1. Counts(t) /\ faults' \in Nat
    BY <1>6, LooksFacts
  <2>2. SystemPart(c, t)
    BY <1>2, <1>6, <2>1, SystemSame DEF SystemPart, storeVars
  <2>3. ASSUME late = 0 PROVE ToldOK(t)'
    BY <1>1, <1>2, <1>3, <1>6, <2>2, <2>3, ToldAfterError
  <2>4. Placed(t)' /\ Len(mounts'[t]) <= Len(mounts[t]) /\ answer'[c] = "none"
    BY <1>2, <1>3, <1>6, SystemSame DEF Placed, storeVars
  <2> QED BY <1>1, <1>2, <1>6, <2>2, <2>3, <2>4, ReturnKeeps
<1>7. ASSUME Looks(t, FALSE), Complete(t), Goto(c, "ensure"), Cache!Ask(c, Closure(t))
      PROVE  IInv'
  <2>1. Closure(t) \in SUBSET Paths
    BY <1>7, ContextAssumption DEF Complete, Closure
  <2>2. /\ asked' = [asked EXCEPT ![c] = Closure(t)]
        /\ answer' = [answer EXCEPT ![c] = "wait"] /\ UNCHANGED have
    BY <1>7 DEF Cache!Ask
  <2>3. /\ Counts(t) /\ faults' \in Nat
        /\ mounts[t] = <<>> \/ Blind(t)' = Blind(t) + 1
    BY <1>7, LooksFacts
  <2>4. SystemPart(c, t)
    BY <1>2, <2>1, <2>2, <2>3, SystemSame DEF SystemPart, Cache!Answers
  <2>5. /\ npc'[c] = "ensure" /\ \A d \in Calls \ {c} : npc'[d] = npc[d]
        /\ UNCHANGED <<live, pod, published>>
    BY <1>7 DEF Goto, kubeletVars, IInv, TypeOK
  <2>6. CallOK(c)'
    BY <1>1, <1>2, <2>2, <2>5, SystemSame DEF CallOK
  <2>7. /\ Blind(t) \in Nat /\ (Blind(t)' = 0 => Blind(t) = 0 /\ mounts[t] = <<>>)
        /\ Clean(t)' => Clean(t)
        /\ ignored[t]["remove_dir"] > 0 => ignored'[t]["remove_dir"] > 0
    BY <1>2, <2>3, CountsFacts
  <2>8. ASSUME late = 0 PROVE AloneOK(c)' /\ ToldOK(t)'
    <3>1. AloneOK(c)'
      BY <1>1, <1>2, <1>4, <2>5, <2>7, <2>8
         DEF AloneOK, Publishing, Unpublishing, Pending, Halfway
    <3>2. ToldOK(t)
      BY <2>8 DEF IInv, QuietOK
    <3>3. /\ published'[t] => pod'[t] = "wanted" /\ mounts'[t] # <<>>
          /\ pod'[t] # "cleaned"
      BY <1>2, <1>4, <2>5, <2>8, <3>2 DEF ToldOK
    <3>4. Clean(t)' => mounts'[t] = <<>>
      BY <1>2, <2>7 DEF Clean
    <3> QED BY <3>1, <3>3, <3>4 DEF ToldOK
  <2>9. HasRoom(t)'
    <3>1. CASE mounts[t] = <<>>
      <4>1. Mounting(t)' \subseteq Outlived \cup {live[t]}
        BY <1>1, <1>2, <2>5 DEF Mounting, Outlived, Pending
      <4>2. IsFiniteSet(Outlived) /\ Cardinality(Outlived) <= late
        BY DEF IInv, OutlivedOK
      <4>3. /\ IsFiniteSet(Mounting(t)') /\ Cardinality(Mounting(t)') \in Nat
            /\ Cardinality(Outlived) \in Nat
            /\ Cardinality(Mounting(t)') <= Cardinality(Outlived) + 1
        BY <4>1, <4>2, OneMore
      <4>4. Len(mounts'[t]) = 0 /\ late \in Nat /\ Blind(t)' \in Nat
        BY <1>2, <2>3, <3>1, SystemSame, CountsFacts
      <4>5. Len(mounts'[t]) + Cardinality(Mounting(t)') <= 1 + late + Blind(t)'
        BY <4>2, <4>3, <4>4
      <4> QED BY <1>2, <4>3, <4>5 DEF HasRoom
    <3>2. CASE Blind(t)' = Blind(t) + 1
      <4>1. Mounting(t)' \subseteq Mounting(t) \cup {c}
        BY <1>1, <1>2, <2>5 DEF Mounting, Pending
      <4>2. /\ IsFiniteSet(Mounting(t))
            /\ Len(mounts[t]) + Cardinality(Mounting(t)) <= 1 + late + Blind(t)
        BY DEF IInv, RoomOK, HasRoom
      <4>3. /\ IsFiniteSet(Mounting(t)') /\ Cardinality(Mounting(t)') \in Nat
            /\ Cardinality(Mounting(t)) \in Nat
            /\ Cardinality(Mounting(t)') <= Cardinality(Mounting(t)) + 1
        BY <4>1, <4>2, OneMore
      <4>4. Len(mounts[t]) \in Nat /\ late \in Nat /\ mounts' = mounts
        BY <1>2, SystemSame
      <4>5. Len(mounts'[t]) + Cardinality(Mounting(t)') <= 1 + late + Blind(t)'
        BY <2>7, <3>2, <4>2, <4>3, <4>4
      <4> QED BY <1>2, <4>3, <4>5 DEF HasRoom
    <3> QED BY <2>3, <3>1, <3>2
  <2>10. Placed(t)'
    BY <1>2, <2>2, SystemSame DEF Placed
  <2>11. "ensure" \in PCs \ {"idle"}
    BY DEF PCs
  <2> QED BY <1>1, <1>2, <1>7, <2>4, <2>6, <2>8, <2>9, <2>10, <2>11, GotoKeeps
<1> QED BY <1>1, <1>5, <1>6, <1>7 DEF PublishCheck

(* The cache works for a call that awaits it. *)
LEMMA CacheWorksKeeps ==
  ASSUME IInv, NEW c \in Calls, CacheWorks(c)
  PROVE  IInv'
<1>1. PICK t \in Targets : target[c] = t
  BY DEF IInv, TypeOK
<1>2. UNCHANGED <<unreadable, mounts, dir, npc, target, live, pod, published, ignored, crashes, late>>
  BY DEF CacheWorks, kubeletVars
<1>3. /\ answer[c] = "wait" /\ UNCHANGED asked
      /\ \/ answer' = answer /\ \E p \in asked[c] : have' = have \cup {p}
         \/ UNCHANGED have /\ answer' = [answer EXCEPT ![c] = "ok"] /\ asked[c] \subseteq have
         \/ UNCHANGED have /\ answer' = [answer EXCEPT ![c] = "err"]
  BY DEF CacheWorks, Cache!Store, Cache!Succeed, Cache!Refuse
<1>4. npc[c] = "ensure" /\ CallOK(c) /\ asked[c] \subseteq Paths
  BY <1>3 DEF IInv, CallOK, TypeOK
<1>5. faults' \in Nat /\ leftover' \subseteq Paths
  BY <1>4, SystemSame DEF CacheWorks, Fault
<1>6. SystemPart(c, t)
  BY <1>2, <1>3, <1>4, <1>5, SystemSame, UncountedFacts DEF SystemPart, Cache!Answers
<1>7. TypeOK'
  BY <1>2, <1>6 DEF SystemPart, Counts, IInv, TypeOK, Mount
<1>8. Frame(c)
  BY <1>1, <1>2, <1>4, <1>6 DEF Frame, SystemPart, Counts
<1>9. CallOK(c)'
  BY <1>2, <1>3, <1>4, SystemSame DEF CallOK
<1>10. ASSUME late = 0 PROVE AloneOK(c)' /\ ToldOK(t)'
  <2>1. AloneOK(c) /\ ToldOK(t)
    BY <1>10 DEF IInv, QuietOK
  <2>2. Blind(t)' = Blind(t) /\ (Clean(t)' <=> Clean(t))
    BY <1>2 DEF Blind, Clean
  <2>3. AloneOK(c)'
    BY <1>1, <1>2, <2>1 DEF AloneOK, Blind
  <2>4. ToldOK(t)'
    BY <1>2, <2>1, <2>2 DEF ToldOK
  <2> QED BY <2>3, <2>4
<1>11. Placed(t)'
  BY <1>2, <1>6, SystemSame DEF Placed, SystemPart
<1>12. HasRoom(t)'
  <2>1. Mounting(t)' = Mounting(t) /\ Blind(t)' = Blind(t)
    BY <1>2 DEF Mounting, Blind
  <2> QED BY <1>2, <2>1 DEF IInv, RoomOK, HasRoom
<1> QED BY <1>1, <1>4, <1>7, <1>8, <1>9, <1>10, <1>11, <1>12, Framed DEF Placed

(* What the kubelet was told stays so when the handler goes on and neither *)
(* mounts nor unmounts.                                                    *)
LEMMA ToldOn ==
  ASSUME IInv, late = 0, NEW c \in Calls, NEW t \in Targets, target[c] = t, npc[c] # "idle",
         SystemPart(c, t), UNCHANGED <<pod, published>>, mounts'[t] = mounts[t],
         dir'[t] => dir[t] \/ pod[t] # "cleaned",
         npc[c] \in Halfway => npc'[c] \in Halfway
  PROVE  ToldOK(t)'
<1>1. ToldOK(t)
  BY DEF IInv, QuietOK
<1>2. /\ Blind(t)' = 0 => Blind(t) = 0
      /\ Clean(t)' => Clean(t)
      /\ ignored[t]["remove_dir"] > 0 => ignored'[t]["remove_dir"] > 0
  BY CountsFacts DEF SystemPart
<1>3. /\ published'[t] => pod'[t] = "wanted" /\ mounts'[t] # <<>>
      /\ Blind(t)' = 0 /\ pod'[t] = "cleaned"
           => mounts'[t] = <<>> /\ (dir'[t] => ignored'[t]["remove_dir"] > 0)
  BY <1>1, <1>2 DEF ToldOK
<1>4. ASSUME Clean(t)', mounts'[t] # <<>>, npc[c] \notin Halfway PROVE mounts'[t][1].ro
  BY <1>2, <1>4, ReadOnlyAlone
<1>5. npc[c] \in Halfway => npc'[c] \in Halfway /\ target'[c] = t
  BY DEF SystemPart
<1> QED BY <1>3, <1>4, <1>5 DEF ToldOK

(* The answer of ensure_cached. *)
LEMMA EnsuredKeeps ==
  ASSUME IInv, NEW c \in Calls, Ensured(c)
  PROVE  IInv'
<1>1. PICK t \in Targets : target[c] = t
  BY DEF IInv, TypeOK
<1>2. /\ npc[c] = "ensure"
      /\ UNCHANGED <<unreadable, leftover, mounts, dir, target, ignored, faults, crashes, late>>
      /\ asked' = [asked EXCEPT ![c] = {}] /\ answer' = [answer EXCEPT ![c] = "none"]
      /\ UNCHANGED have
  BY DEF Ensured, At, budgetVars, blockedVars, Cache!Close
<1>3. SystemPart(c, t) /\ npc[c] \notin {"idle"} \cup Halfway
  BY <1>2, SystemSame, UncountedFacts DEF SystemPart, Cache!Answers, Halfway
<1>4. Placed(t)' /\ Len(mounts'[t]) <= Len(mounts[t]) /\ answer'[c] = "none"
  BY <1>2, SystemSame DEF Placed
<1>5. ASSUME answer[c] = "ok", Goto(c, "setup") PROVE IInv'
  <2>1. /\ npc'[c] = "setup" /\ \A d \in Calls \ {c} : npc'[d] = npc[d]
        /\ UNCHANGED <<live, pod, published>>
    BY <1>5 DEF Goto, kubeletVars, IInv, TypeOK
  <2>2. CallOK(c)'
    BY <1>2, <1>4, <1>5, <2>1 DEF IInv, CallOK
  <2>3. ASSUME late = 0 PROVE AloneOK(c)' /\ ToldOK(t)'
    <3>1. AloneOK(c)
      BY <2>3 DEF IInv, QuietOK
    <3>2. AloneOK(c)'
      BY <1>2, <2>1, <3>1 DEF AloneOK, Publishing, Unpublishing, Pending, Halfway, Blind
    <3>3. ToldOK(t)'
      BY <1>1, <1>2, <1>3, <2>1, <2>3, ToldOn
    <3> QED BY <3>2, <3>3
  <2>4. HasRoom(t)'
    BY <1>2, <1>3, <1>4, <2>1, RoomKept DEF Pending
  <2>5. "setup" \in PCs \ {"idle"}
    BY DEF PCs
  <2> QED BY <1>1, <1>2, <1>3, <1>4, <1>5, <2>2, <2>3, <2>4, <2>5, GotoKeeps
<1>6. ASSUME Return(c, "publish", FALSE) PROVE IInv'
  <2>1. ASSUME late = 0 PROVE ToldOK(t)'
    BY <1>1, <1>2, <1>3, <1>6, <2>1, ToldAfterError
  <2> QED BY <1>1, <1>2, <1>3, <1>4, <1>6, <2>1, ReturnKeeps
<1> QED BY <1>5, <1>6 DEF Ensured

(* create_dir_all of the target directory. *)
LEMMA SetupTargetDirKeeps ==
  ASSUME IInv, NEW c \in Calls, SetupTargetDir(c)
  PROVE  IInv'
<1>1. PICK t \in Targets : target[c] = t
  BY DEF IInv, TypeOK
<1>2. /\ npc[c] = "setup" /\ UNCHANGED <<have, asked, answer, unreadable, leftover>>
      /\ UNCHANGED <<mounts, target, ignored, crashes, late>>
  BY DEF SetupTargetDir, At, storeVars, blockedVars
<1>3. /\ answer[c] = "none" /\ Closure(t) \subseteq have
      /\ npc[c] \notin {"idle"} \cup Halfway
  BY <1>1, <1>2 DEF IInv, CallOK, Halfway
<1>4. ASSUME dir' = [dir EXCEPT ![t] = TRUE], Goto(c, "bind"), UNCHANGED faults PROVE IInv'
  <2>1. /\ npc'[c] = "bind" /\ \A d \in Calls \ {c} : npc'[d] = npc[d]
        /\ UNCHANGED <<live, pod, published>>
    BY <1>4 DEF Goto, kubeletVars, IInv, TypeOK
  <2>2. SystemPart(c, t) /\ dir'[t] = TRUE
    BY <1>2, <1>4, SystemSame, UncountedFacts DEF SystemPart
  <2>3. CallOK(c)'
    BY <1>1, <1>2, <1>3, <2>1 DEF CallOK
  <2>4. ASSUME late = 0 PROVE AloneOK(c)' /\ ToldOK(t)'
    <3>1. AloneOK(c)
      BY <2>4 DEF IInv, QuietOK
    <3>2. AloneOK(c)'
      BY <1>2, <2>1, <3>1 DEF AloneOK, Publishing, Unpublishing, Pending, Halfway, Blind
    <3>3. pod[t] = "wanted"
      BY <1>1, <1>2, <3>1 DEF AloneOK, Pending, Publishing
    <3>4. ToldOK(t)'
      BY <1>1, <1>2, <1>3, <2>1, <2>2, <2>4, <3>3, ToldOn
    <3> QED BY <3>2, <3>4
  <2>5. HasRoom(t)'
    BY <1>2, <2>1, <2>2, SystemSame, RoomKept DEF Pending
  <2>6. Placed(t)' /\ "bind" \in PCs \ {"idle"}
    BY <1>2, <2>2, SystemSame DEF Placed, PCs
  <2> QED BY <1>1, <1>2, <1>4, <2>2, <2>3, <2>4, <2>5, <2>6, GotoKeeps
<1>5. ASSUME Fault, UNCHANGED dir, Return(c, "publish", FALSE) PROVE IInv'
  <2>1. SystemPart(c, t)
    BY <1>2, <1>5, SystemSame, UncountedFacts DEF SystemPart, Fault
  <2>2. ASSUME late = 0 PROVE ToldOK(t)'
    BY <1>1, <1>2, <1>3, <1>5, <2>1, <2>2, ToldAfterError
  <2>3. Placed(t)' /\ Len(mounts'[t]) <= Len(mounts[t]) /\ answer'[c] = "none"
    BY <1>2, <1>3, <1>5, SystemSame DEF Placed
  <2> QED BY <1>1, <1>2, <1>5, <2>1, <2>2, <2>3, ReturnKeeps
<1> QED BY <1>1, <1>4, <1>5 DEF SetupTargetDir

(* cleanup_target never removes the directory of a target still mounted,   *)
(* and leaves that of another only with an error.                          *)
LEMMA CleanupFacts ==
  ASSUME IInv, NEW t \in Targets, CleanupTarget(t)
  PROVE  /\ dir' \in [Targets -> BOOLEAN]
         /\ dir'[t] => dir[t]
         /\ mounts[t] # <<>> => dir'[t] = dir[t]
         /\ mounts[t] = <<>> /\ dir'[t] => ignored'[t]["remove_dir"] > 0
         /\ \A u \in Targets \ {t} : dir'[u] = dir[u]
         /\ Counts(t) /\ faults' \in Nat
<1>1. CASE dir' = [dir EXCEPT ![t] = dir[t] /\ mounts[t] # <<>>] /\ NoError
  <2>1. /\ dir' \in [Targets -> BOOLEAN] /\ (dir'[t] <=> dir[t] /\ mounts[t] # <<>>)
        /\ \A u \in Targets \ {t} : dir'[u] = dir[u]
    BY <1>1 DEF IInv, TypeOK
  <2>2. dir[t] \in BOOLEAN /\ dir'[t] \in BOOLEAN
    BY <2>1 DEF IInv, TypeOK
  <2> QED BY <1>1, <2>1, <2>2, UncountedFacts, SystemSame DEF NoError
<1>2. CASE dir[t] /\ mounts[t] = <<>> /\ Ignores(t, "remove_dir") /\ UNCHANGED dir
  <2>1. "remove_dir" \in Unchecked
    BY DEF Unchecked
  <2>2. /\ Counts(t) /\ faults' \in Nat
        /\ ignored'[t]["remove_dir"] = ignored[t]["remove_dir"] + 1
        /\ ignored[t]["remove_dir"] \in Nat
    BY <1>2, <2>1, IgnoresFacts
  <2>3. ignored'[t]["remove_dir"] > 0
    BY <2>2
  <2> QED BY <1>2, <2>2, <2>3, SystemSame
<1> QED BY <1>1, <1>2 DEF CleanupTarget

(* With no call outlived and mountinfo read there is at most one mount.    *)
LEMMA OneMount ==
  ASSUME IInv, late = 0, NEW t \in Targets, Blind(t) = 0
  PROVE  Len(mounts[t]) <= 1
<1>1. Len(mounts[t]) + Cardinality(Mounting(t)) <= 1 /\ Cardinality(Mounting(t)) \in Nat
  BY FS_CardinalityType DEF IInv, RoomOK, HasRoom
<1>2. Len(mounts[t]) \in Nat
  BY SystemSame
<1> QED BY <1>1, <1>2

(* mount(MS_BIND), or its error. *)
LEMMA BindMountKeeps ==
  ASSUME IInv, NEW c \in Calls, BindMount(c)
  PROVE  IInv'
<1>1. PICK t \in Targets : target[c] = t
  BY DEF IInv, TypeOK
<1>2. /\ npc[c] = "bind" /\ UNCHANGED <<have, asked, answer, unreadable, leftover>>
      /\ UNCHANGED <<dir, target, ignored, crashes, late>>
  BY DEF BindMount, At, storeVars, blockedVars
<1>3. /\ answer[c] = "none" /\ Closure(t) \subseteq have
      /\ npc[c] \notin {"idle"} \cup Halfway
  BY <1>1, <1>2 DEF IInv, CallOK, Halfway
<1>4. ASSUME Root(t) \in have, dir[t], Goto(c, "remount"), UNCHANGED faults,
             mounts' = [mounts EXCEPT ![t] = Append(mounts[t], [path |-> Root(t), ro |-> FALSE])]
      PROVE  IInv'
  <2> DEFINE new == [path |-> Root(t), ro |-> FALSE]
  <2>1. /\ npc'[c] = "remount" /\ \A d \in Calls \ {c} : npc'[d] = npc[d]
        /\ UNCHANGED <<live, pod, published>>
    BY <1>4 DEF Goto, kubeletVars, IInv, TypeOK
  <2>2. new \in Mount /\ new.path = Root(t) /\ mounts[t] \in Seq(Mount)
    BY <1>4, SystemSame DEF Mount
  <2> HIDE DEF new
  <2>3. /\ mounts'[t] = Append(mounts[t], new) /\ mounts'[t] \in Seq(Mount)
        /\ \A u \in Targets \ {t} : mounts'[u] = mounts[u]
        /\ mounts' \in [Targets -> Seq(Mount)]
    BY <1>4, <2>2, SystemSame DEF new
  <2>4. /\ Len(mounts'[t]) = Len(mounts[t]) + 1 /\ Len(mounts[t]) \in Nat
        /\ \A i \in 1..Len(mounts[t]) : mounts'[t][i] = mounts[t][i]
        /\ mounts'[t][Len(mounts[t]) + 1] = new /\ mounts'[t] # <<>>
    <3>1. /\ Len(Append(mounts[t], new)) = Len(mounts[t]) + 1
          /\ \A i \in 1..Len(mounts[t]) : Append(mounts[t], new)[i] = mounts[t][i]
          /\ Append(mounts[t], new)[Len(mounts[t]) + 1] = new
          /\ Append(mounts[t], new) # <<>>
      BY ONLY <2>2, AppendProperties
    <3>2. Len(mounts[t]) \in Nat
      BY SystemSame
    <3> QED BY <2>3, <3>1, <3>2
  <2>5. SystemPart(c, t)
    BY <1>2, <1>4, <2>3, SystemSame, UncountedFacts DEF SystemPart
  <2>6. CallOK(c)'
    BY <1>1, <1>2, <1>3, <2>1 DEF CallOK
  <2>7. ASSUME late = 0 PROVE AloneOK(c)' /\ ToldOK(t)'
    <3>1. /\ pod[t] = "wanted" /\ (Blind(t) = 0 => mounts[t] = <<>> /\ ~published[t])
          /\ published[t] => mounts[t] # <<>>
      BY <1>1, <1>2, <2>7 DEF IInv, QuietOK, AloneOK, ToldOK, Pending, Publishing
    <3>2. published[t] => Len(mounts'[t]) >= 2
      <4>1. mounts[t] # <<>> => Len(mounts[t]) # 0
        BY <2>2, LenFacts
      <4> QED BY <2>4, <3>1, <4>1
    <3>3. /\ npc'[c] = "remount" /\ target'[c] = t /\ pod'[t] = "wanted"
          /\ published'[t] = published[t] /\ Blind(t)' = Blind(t) /\ mounts'[t] # <<>>
      BY <1>1, <1>2, <2>1, <2>4, <3>1 DEF Blind
    <3>4. AloneOK(c)'
      BY <3>1, <3>2, <3>3 DEF AloneOK, Publishing, Unpublishing, Pending, Halfway
    <3>5. ToldOK(t)'
      BY <3>3 DEF ToldOK, Halfway
    <3> QED BY <3>4, <3>5
  <2>8. HasRoom(t)'
    <3>1. Mounting(t)' = Mounting(t) \ {c} /\ c \in Mounting(t)
      BY <1>1, <1>2, <2>1 DEF Mounting, Pending
    <3>2. /\ IsFiniteSet(Mounting(t)) /\ Cardinality(Mounting(t)) \in Nat
          /\ Len(mounts[t]) + Cardinality(Mounting(t)) <= 1 + late + Blind(t)
      BY FS_CardinalityType DEF IInv, RoomOK, HasRoom
    <3>3. /\ IsFiniteSet(Mounting(t)')
          /\ Cardinality(Mounting(t)') = Cardinality(Mounting(t)) - 1
      BY <3>1, <3>2, FS_RemoveElement
    <3>4. Len(mounts'[t]) + Cardinality(Mounting(t)') <= 1 + late + Blind(t)
      BY <2>4, <3>2, <3>3, SystemSame
    <3>5. Blind(t)' = Blind(t)
      BY <1>2 DEF Blind
    <3> QED BY <1>2, <3>3, <3>4, <3>5 DEF HasRoom
  <2>9. Placed(t)'
    <3>1. ASSUME NEW i \in 1..Len(mounts'[t]) PROVE mounts'[t][i].path = Root(t)
      <4>1. CASE i = Len(mounts[t]) + 1
        BY <2>2, <2>4, <4>1
      <4>2. CASE i # Len(mounts[t]) + 1
        <5>1. i \in 1..Len(mounts[t])
          BY <2>4, <4>2
        <5>2. mounts[t] # <<>>
          BY <5>1
        <5> QED BY <2>4, <5>1, <5>2, SystemSame DEF Placed
      <4> QED BY <4>1, <4>2
    <3> QED BY <1>2, <1>3, <1>4, <3>1 DEF Placed
  <2>10. "remount" \in PCs \ {"idle"}
    BY DEF PCs
  <2> QED BY <1>1, <1>2, <1>4, <2>5, <2>6, <2>7, <2>8, <2>9, <2>10, GotoKeeps
<1>5. ASSUME Fault \/ UNCHANGED faults, Goto(c, "abandon"), UNCHANGED mounts
      PROVE  IInv'
  <2>1. /\ npc'[c] = "abandon" /\ \A d \in Calls \ {c} : npc'[d] = npc[d]
        /\ UNCHANGED <<live, pod, published>>
    BY <1>5 DEF Goto, kubeletVars, IInv, TypeOK
  <2>2. SystemPart(c, t)
    BY <1>2, <1>5, SystemSame, UncountedFacts DEF SystemPart, Fault
  <2>3. CallOK(c)'
    BY <1>2, <1>3, <2>1 DEF CallOK
  <2>4. ASSUME late = 0 PROVE AloneOK(c)' /\ ToldOK(t)'
    <3>1. AloneOK(c)
      BY <2>4 DEF IInv, QuietOK
    <3>2. AloneOK(c)'
      BY <1>2, <2>1, <3>1 DEF AloneOK, Publishing, Unpublishing, Pending, Halfway
    <3>3. ToldOK(t)'
      BY <1>1, <1>2, <1>3, <1>5, <2>1, <2>2, <2>4, ToldOn
    <3> QED BY <3>2, <3>3
  <2>5. HasRoom(t)'
    <3>1. Len(mounts'[t]) <= Len(mounts[t]) /\ npc'[c] \notin Pending
      BY <1>5, <2>1, SystemSame DEF Pending
    <3> QED BY <2>1, <2>2, <3>1, RoomKept
  <2>6. Placed(t)' /\ "abandon" \in PCs \ {"idle"}
    BY <1>2, <1>5, SystemSame DEF Placed, PCs
  <2> QED BY <1>1, <1>2, <1>5, <2>2, <2>3, <2>4, <2>5, <2>6, GotoKeeps
<1> QED BY <1>1, <1>4, <1>5 DEF BindMount

(* The remount, or its error. *)
LEMMA RemountKeeps ==
  ASSUME IInv, NEW c \in Calls, RemountReadonly(c)
  PROVE  IInv'
<1>1. PICK t \in Targets : target[c] = t
  BY DEF IInv, TypeOK
<1> DEFINE top == Len(mounts[t])
<1>2. /\ npc[c] = "remount" /\ UNCHANGED <<have, asked, answer, unreadable, leftover>>
      /\ UNCHANGED <<dir, target, ignored, crashes, late>>
  BY DEF RemountReadonly, At, storeVars, blockedVars
<1>3. answer[c] = "none" /\ mounts[t] \in Seq(Mount) /\ top \in Nat
  BY <1>1, <1>2, SystemSame DEF IInv, CallOK
<1>4. late = 0 => live[t] = c /\ pod[t] = "wanted"
  BY <1>1, <1>2, Alone DEF IInv, QuietOK, AloneOK, Publishing, Halfway
<1>5. ASSUME top > 0, mounts' = [mounts EXCEPT ![t][top].ro = TRUE],
             Return(c, "publish", TRUE), UNCHANGED faults
      PROVE  IInv'
  <2> DEFINE new == [mounts[t][top] EXCEPT !.ro = TRUE]
  <2>1. top \in 1..top /\ mounts[t][top] \in Mount /\ mounts[t] # <<>>
    BY <1>3, <1>5
  <2>2. new \in Mount /\ new.path = mounts[t][top].path /\ new.ro
    BY <2>1 DEF Mount
  <2>3. mounts' = [mounts EXCEPT ![t] = [mounts[t] EXCEPT ![top] = new]]
    BY <1>5
  <2> HIDE DEF new
  <2>4. /\ mounts'[t] = [mounts[t] EXCEPT ![top] = new]
        /\ \A u \in Targets \ {t} : mounts'[u] = mounts[u]
    BY <2>3, SystemSame
  <2>5. /\ mounts'[t] \in Seq(Mount) /\ Len(mounts'[t]) = top
        /\ \A i \in 1..top : mounts'[t][i] = IF i = top THEN new ELSE mounts[t][i]
    BY <1>3, <2>1, <2>2, <2>4, ExceptSeq
  <2>6. mounts' \in [Targets -> Seq(Mount)]
    BY <2>3, <2>4, <2>5, SystemSame
  <2>7. SystemPart(c, t)
    BY <1>2, <1>5, <2>4, <2>6, SystemSame, UncountedFacts DEF SystemPart
  <2>8. mounts'[t] # <<>>
    BY <1>5, <2>5
  <2>9. Placed(t)'
    <3>1. \A i \in 1..top : mounts[t][i].path = Root(t)
      BY <2>1, SystemSame DEF Placed
    <3>2. \A i \in 1..top : mounts'[t][i].path = Root(t)
      BY <2>1, <2>2, <2>5, <3>1
    <3> QED BY <1>2, <1>5, <2>1, <2>5, <3>2, SystemSame DEF Placed
  <2>10. ASSUME late = 0 PROVE ToldOK(t)'
    <3>1. published'[t] /\ pod'[t] = "wanted"
      BY <1>1, <1>4, <1>5, <2>10, HeardPublish
    <3>2. ASSUME Clean(t)' PROVE mounts'[t][1].ro
      <4>1. Blind(t) = 0
        BY <1>2, <3>2 DEF Clean, Blind
      <4>2. top <= 1
        BY <2>10, <4>1, OneMount
      <4>3. top = 1
        <5> HIDE DEF top
        <5> QED BY <1>3, <1>5, <4>2
      <4> QED BY <2>1, <2>2, <2>5, <4>3
    <3> QED BY <2>8, <3>1, <3>2 DEF ToldOK
  <2>11. answer'[c] = "none" /\ Len(mounts'[t]) <= Len(mounts[t])
    BY <1>2, <1>3, <2>5
  <2> QED BY <1>1, <1>2, <1>5, <2>7, <2>9, <2>10, <2>11, ReturnKeeps
<1>6. ASSUME Fault \/ UNCHANGED faults, Goto(c, "undo"), UNCHANGED mounts
      PROVE  IInv'
  <2>1. /\ npc'[c] = "undo" /\ \A d \in Calls \ {c} : npc'[d] = npc[d]
        /\ UNCHANGED <<live, pod, published>>
    BY <1>6 DEF Goto, kubeletVars, IInv, TypeOK
  <2>2. SystemPart(c, t)
    BY <1>2, <1>6, SystemSame, UncountedFacts DEF SystemPart, Fault
  <2>3. CallOK(c)'
    BY <1>2, <1>3, <2>1 DEF CallOK
  <2>4. ASSUME late = 0 PROVE AloneOK(c)' /\ ToldOK(t)'
    <3>1. AloneOK(c)
      BY <2>4 DEF IInv, QuietOK
    <3>2. AloneOK(c)'
      BY <1>2, <1>6, <2>1, <3>1 DEF AloneOK, Publishing, Unpublishing, Pending, Halfway, Blind
    <3>3. npc[c] # "idle" /\ npc'[c] \in Halfway
      BY <1>2, <2>1 DEF Halfway
    <3>4. ToldOK(t)'
      BY <1>1, <1>2, <1>6, <2>1, <2>2, <2>4, <3>3, ToldOn
    <3> QED BY <3>2, <3>4
  <2>5. HasRoom(t)'
    <3>1. Len(mounts'[t]) <= Len(mounts[t]) /\ npc'[c] \notin Pending
      BY <1>6, <2>1, SystemSame DEF Pending
    <3> QED BY <2>1, <2>2, <3>1, RoomKept
  <2>6. Placed(t)' /\ "undo" \in PCs \ {"idle"}
    BY <1>2, <1>6, SystemSame DEF Placed, PCs
  <2> QED BY <1>1, <1>2, <1>6, <2>2, <2>3, <2>4, <2>5, <2>6, GotoKeeps
<1> QED BY <1>1, <1>5, <1>6 DEF RemountReadonly

(* umount2 takes the visible mount of t off and changes nothing else. *)
LEMMA PopFacts ==
  ASSUME IInv, NEW t \in Targets, mounts[t] # <<>>,
         mounts' = [mounts EXCEPT ![t] = Front(mounts[t])],
         UNCHANGED <<have, dir>>
  PROVE  /\ mounts' \in [Targets -> Seq(Mount)]
         /\ \A u \in Targets \ {t} : mounts'[u] = mounts[u]
         /\ Len(mounts[t]) \in Nat \ {0} /\ Len(mounts'[t]) = Len(mounts[t]) - 1
         /\ Len(mounts'[t]) <= Len(mounts[t])
         /\ late = 0 /\ Blind(t) = 0 => mounts'[t] = <<>>
         /\ Len(mounts[t]) >= 2 => mounts'[t] # <<>>
         /\ Placed(t)'
<1>1. mounts[t] \in Seq(Mount)
  BY SystemSame
<1>2. /\ Front(mounts[t]) \in Seq(Mount) /\ Len(mounts[t]) \in Nat \ {0}
      /\ Len(Front(mounts[t])) = Len(mounts[t]) - 1
      /\ \A i \in 1..(Len(mounts[t]) - 1) : Front(mounts[t])[i] = mounts[t][i]
      /\ Len(mounts[t]) = 1 => Front(mounts[t]) = <<>>
  BY <1>1, FrontFacts
<1>3. /\ mounts'[t] = Front(mounts[t]) /\ \A u \in Targets \ {t} : mounts'[u] = mounts[u]
      /\ mounts' \in [Targets -> Seq(Mount)]
  BY <1>2, SystemSame
<1>4. Len(mounts'[t]) <= Len(mounts[t]) /\ Len(mounts'[t]) = Len(mounts[t]) - 1
  BY <1>2, <1>3
<1>5. ASSUME late = 0, Blind(t) = 0 PROVE mounts'[t] = <<>>
  <2>1. Len(mounts[t]) <= 1
    BY <1>5, OneMount
  <2>2. \A n \in Nat \ {0} : n <= 1 => n = 1
    OBVIOUS
  <2> QED BY <1>2, <1>3, <2>1, <2>2
<1>6. ASSUME Len(mounts[t]) >= 2 PROVE mounts'[t] # <<>>
  <2>1. Len(mounts'[t]) # 0
    BY <1>2, <1>4, <1>6
  <2> QED BY <2>1
<1>7. Placed(t)'
  <2>1. \A i \in 1..Len(mounts'[t]) : i \in 1..Len(mounts[t]) /\ mounts'[t][i] = mounts[t][i]
    BY <1>2, <1>3
  <2>0. Placed(t)
    BY SystemSame
  <2>2. /\ dir[t] /\ Closure(t) \subseteq have
        /\ \A i \in 1..Len(mounts[t]) : mounts[t][i].path = Root(t)
    BY <2>0 DEF Placed
  <2>3. \A i \in 1..Len(mounts'[t]) : mounts'[t][i].path = Root(t)
    BY <2>1, <2>2
  <2> QED BY <2>2, <2>3 DEF Placed
<1> QED BY <1>2, <1>3, <1>4, <1>5, <1>6, <1>7

(* The undo of a mount that could not be made read-only. *)
LEMMA UndoBindKeeps ==
  ASSUME IInv, NEW c \in Calls, UndoBind(c)
  PROVE  IInv'
<1>1. PICK t \in Targets : target[c] = t
  BY DEF IInv, TypeOK
<1>2. /\ npc[c] = "undo" /\ UNCHANGED <<have, asked, answer, unreadable, leftover>>
      /\ UNCHANGED <<dir, target, crashes, late>> /\ Goto(c, "abandon")
  BY DEF UndoBind, At, storeVars, blockedVars
<1>3. answer[c] = "none" /\ npc[c] # "idle"
  BY <1>2 DEF IInv, CallOK
<1>4. /\ npc'[c] = "abandon" /\ \A d \in Calls \ {c} : npc'[d] = npc[d]
      /\ UNCHANGED <<live, pod, published>>
  BY <1>2 DEF Goto, kubeletVars, IInv, TypeOK
<1>5. CallOK(c)' /\ "abandon" \in PCs \ {"idle"} /\ npc'[c] \notin Pending
  BY <1>2, <1>3, <1>4 DEF CallOK, PCs, Pending
<1>6. ASSUME late = 0
      PROVE  /\ pod[t] = "wanted" /\ mounts[t] # <<>> /\ ToldOK(t)
             /\ published[t] => Len(mounts[t]) >= 2
             /\ AloneOK(c)'
  <2>1. AloneOK(c) /\ ToldOK(t)
    BY <1>6 DEF IInv, QuietOK
  <2>2. /\ pod[t] = "wanted" /\ mounts[t] # <<>>
        /\ published[t] => Len(mounts[t]) >= 2
    BY <1>1, <1>2, <2>1 DEF AloneOK, Publishing, Halfway
  <2>3. AloneOK(c)'
    BY <1>1, <1>2, <1>4, <2>2 DEF AloneOK, Publishing, Unpublishing, Pending, Halfway
  <2> QED BY <2>1, <2>2, <2>3
<1>7. ASSUME mounts[t] # <<>>, mounts' = [mounts EXCEPT ![t] = Front(mounts[t])], NoError
      PROVE  IInv'
  <2>1. /\ mounts' \in [Targets -> Seq(Mount)] /\ Len(mounts'[t]) <= Len(mounts[t])
        /\ \A u \in Targets \ {t} : mounts'[u] = mounts[u]
        /\ late = 0 /\ Blind(t) = 0 => mounts'[t] = <<>>
        /\ Len(mounts[t]) >= 2 => mounts'[t] # <<>>
        /\ Placed(t)'
    BY <1>2, <1>7, PopFacts
  <2>2. SystemPart(c, t)
    BY <1>2, <1>7, <2>1, SystemSame, UncountedFacts DEF SystemPart, NoError
  <2>3. ASSUME late = 0 PROVE AloneOK(c)' /\ ToldOK(t)'
    <3>1. Blind(t)' = Blind(t) /\ (Clean(t)' => Blind(t) = 0)
      BY <1>7 DEF NoError, Blind, Clean
    <3>2. /\ published'[t] => pod'[t] = "wanted" /\ mounts'[t] # <<>>
          /\ pod'[t] # "cleaned"
          /\ Clean(t)' => mounts'[t] = <<>>
      BY <1>4, <1>6, <2>1, <2>3, <3>1
    <3> QED BY <1>6, <2>3, <3>2 DEF ToldOK
  <2>4. HasRoom(t)'
    BY <1>4, <1>5, <2>1, <2>2, RoomKept
  <2> QED BY <1>1, <1>2, <1>3, <1>5, <2>1, <2>2, <2>3, <2>4, GotoKeeps
<1>8. ASSUME mounts[t] = <<>>, UNCHANGED mounts, NoError PROVE IInv'
  <2>1. SystemPart(c, t)
    BY <1>2, <1>8, SystemSame, UncountedFacts DEF SystemPart, NoError
  <2>2. ASSUME late = 0 PROVE AloneOK(c)' /\ ToldOK(t)'
    BY <1>6, <1>8, <2>2
  <2>3. HasRoom(t)'
    <3>1. Len(mounts'[t]) <= Len(mounts[t])
      BY <1>8, SystemSame
    <3> QED BY <1>4, <1>5, <2>1, <3>1, RoomKept
  <2>4. Placed(t)'
    BY <1>2, <1>8, SystemSame DEF Placed
  <2> QED BY <1>1, <1>2, <1>3, <1>5, <2>1, <2>2, <2>3, <2>4, GotoKeeps
<1>9. ASSUME mounts[t] # <<>>, Ignores(t, "umount2"), UNCHANGED mounts PROVE IInv'
  <2>1. "umount2" \in Unchecked
    BY DEF Unchecked
  <2>2. /\ Counts(t) /\ faults' \in Nat /\ ignored[t]["umount2"] \in Nat
        /\ ignored'[t]["umount2"] = ignored[t]["umount2"] + 1
    BY <1>9, <2>1, IgnoresFacts
  <2>3. SystemPart(c, t)
    BY <1>2, <1>9, <2>2, SystemSame DEF SystemPart
  <2>4. ~Clean(t)'
    BY <2>2 DEF Clean
  <2>5. ASSUME late = 0 PROVE AloneOK(c)' /\ ToldOK(t)'
    <3>1. /\ published'[t] => pod'[t] = "wanted" /\ mounts'[t] # <<>>
          /\ pod'[t] # "cleaned"
      BY <1>4, <1>6, <1>9, <2>5
    <3> QED BY <1>6, <2>4, <2>5, <3>1 DEF ToldOK
  <2>6. HasRoom(t)'
    <3>1. Len(mounts'[t]) <= Len(mounts[t])
      BY <1>9, SystemSame
    <3> QED BY <1>4, <1>5, <2>3, <3>1, RoomKept
  <2>7. Placed(t)'
    BY <1>2, <1>9, SystemSame DEF Placed
  <2> QED BY <1>1, <1>2, <1>3, <1>5, <2>3, <2>5, <2>6, <2>7, GotoKeeps
<1> QED BY <1>1, <1>7, <1>8, <1>9 DEF UndoBind

(* cleanup_target and the error that ends a publish. *)
LEMMA AbandonKeeps ==
  ASSUME IInv, NEW c \in Calls, Abandon(c)
  PROVE  IInv'
<1>1. PICK t \in Targets : target[c] = t
  BY DEF IInv, TypeOK
<1>2. /\ npc[c] = "abandon" /\ UNCHANGED <<have, asked, answer, unreadable, leftover>>
      /\ UNCHANGED <<mounts, target, crashes, late>>
      /\ CleanupTarget(t) /\ Return(c, "publish", FALSE)
  BY <1>1 DEF Abandon, At, storeVars, blockedVars
<1>3. answer'[c] = "none" /\ npc[c] \notin {"idle"} \cup Halfway
  BY <1>2 DEF IInv, CallOK, Halfway
<1>4. /\ dir' \in [Targets -> BOOLEAN] /\ (dir'[t] => dir[t])
      /\ mounts[t] # <<>> => dir'[t] = dir[t]
      /\ \A u \in Targets \ {t} : dir'[u] = dir[u]
      /\ Counts(t) /\ faults' \in Nat
  BY <1>2, CleanupFacts
<1>5. SystemPart(c, t)
  BY <1>2, <1>4, SystemSame DEF SystemPart
<1>6. ASSUME late = 0 PROVE ToldOK(t)'
  BY <1>1, <1>2, <1>3, <1>4, <1>5, <1>6, ToldAfterError
<1>7. Placed(t)' /\ Len(mounts'[t]) <= Len(mounts[t])
  BY <1>2, <1>4, SystemSame DEF Placed
<1> QED BY <1>1, <1>2, <1>3, <1>5, <1>6, <1>7, ReturnKeeps

(* cleanup_target and the Ok that ends an unpublish. *)
LEMMA CleanupKeeps ==
  ASSUME IInv, NEW c \in Calls, Cleanup(c)
  PROVE  IInv'
<1>1. PICK t \in Targets : target[c] = t
  BY DEF IInv, TypeOK
<1>2. /\ npc[c] = "cleanup" /\ UNCHANGED <<have, asked, answer, unreadable, leftover>>
      /\ UNCHANGED <<mounts, target, crashes, late>>
      /\ CleanupTarget(t) /\ Return(c, "unpublish", TRUE)
  BY <1>1 DEF Cleanup, At, storeVars, blockedVars
<1>3. answer'[c] = "none" /\ npc[c] \notin {"idle"} \cup Halfway
  BY <1>2 DEF IInv, CallOK, Halfway
<1>4. /\ dir' \in [Targets -> BOOLEAN]
      /\ mounts[t] # <<>> => dir'[t] = dir[t]
      /\ mounts[t] = <<>> /\ dir'[t] => ignored'[t]["remove_dir"] > 0
      /\ \A u \in Targets \ {t} : dir'[u] = dir[u]
      /\ Counts(t) /\ faults' \in Nat
  BY <1>2, CleanupFacts
<1>5. SystemPart(c, t)
  BY <1>2, <1>4, SystemSame DEF SystemPart
<1>6. ASSUME late = 0 PROVE ToldOK(t)'
  <2>1. live[t] = c
    BY <1>1, <1>3, <1>6, Alone
  <2>2. AloneOK(c) /\ ToldOK(t)
    BY <1>6 DEF IInv, QuietOK
  <2>3. ~published[t] /\ (Blind(t) = 0 => mounts[t] = <<>>)
    BY <1>1, <1>2, <2>2 DEF AloneOK, ToldOK, Unpublishing
  <2>4. ~published'[t] /\ pod'[t] = "cleaned"
    BY <1>1, <1>2, <2>1, <2>3, HeardUnpublish
  <2>5. (Blind(t)' = 0 => Blind(t) = 0) /\ (Clean(t)' => Blind(t) = 0)
    BY <1>2, <1>4, CountsFacts DEF Clean
  <2>6. Blind(t) = 0 => mounts'[t] = <<>> /\ (dir'[t] => ignored'[t]["remove_dir"] > 0)
    BY <1>2, <1>4, <2>3
  <2> QED BY <2>4, <2>5, <2>6 DEF ToldOK
<1>7. Placed(t)' /\ Len(mounts'[t]) <= Len(mounts[t])
  BY <1>2, <1>4, SystemSame DEF Placed
<1> QED BY <1>1, <1>2, <1>3, <1>5, <1>6, <1>7, ReturnKeeps

(* The look at the mount table that starts an unpublish. *)
LEMMA UnpublishCheckKeeps ==
  ASSUME IInv, NEW c \in Calls, UnpublishCheck(c)
  PROVE  IInv'
<1>1. PICK t \in Targets : target[c] = t
  BY DEF IInv, TypeOK
<1>2. /\ npc[c] = "unpublish" /\ UNCHANGED <<have, asked, answer, unreadable, leftover>>
      /\ UNCHANGED <<mounts, dir, target, crashes, late>>
  BY DEF UnpublishCheck, At, storeVars, blockedVars
<1>3. npc[c] \notin {"idle"} \cup Halfway /\ answer[c] = "none"
  BY <1>2 DEF Halfway, IInv, CallOK
<1>4. ASSUME NEW label \in {"unmount", "cleanup"}, Goto(c, label), NEW mounted \in BOOLEAN,
             Looks(t, mounted), label = "cleanup" => ~mounted
      PROVE  IInv'
  <2>1. /\ npc'[c] = label /\ \A d \in Calls \ {c} : npc'[d] = npc[d]
        /\ UNCHANGED <<live, pod, published>>
    BY <1>4 DEF Goto, kubeletVars, IInv, TypeOK
  <2>2. /\ Counts(t) /\ faults' \in Nat
        /\ ~mounted => mounts[t] = <<>> \/ Blind(t)' = Blind(t) + 1
    BY <1>4, LooksFacts
  <2>3. SystemPart(c, t)
    BY <1>2, <2>2, SystemSame DEF SystemPart
  <2>4. CallOK(c)'
    BY <1>2, <1>3, <1>4, <2>1 DEF CallOK
  <2>5. ASSUME late = 0 PROVE AloneOK(c)' /\ ToldOK(t)'
    <3>1. AloneOK(c)
      BY <2>5 DEF IInv, QuietOK
    <3>2. pod[t] = "deleted"
      BY <1>1, <1>2, <3>1 DEF AloneOK, Unpublishing
    <3>3. Blind(t)' = 0 /\ label = "cleanup" => mounts'[t] = <<>>
      <4>1. Blind(t) \in Nat
        BY SystemSame
      <4>2. Blind(t) + 1 # 0
        BY <4>1
      <4> QED BY <1>2, <1>4, <2>2, <4>2
    <3>4. AloneOK(c)'
      BY <1>1, <1>2, <1>4, <2>1, <3>2, <3>3
         DEF AloneOK, Publishing, Unpublishing, Pending, Halfway
    <3>5. ToldOK(t)'
      BY <1>1, <1>2, <1>3, <2>1, <2>3, <2>5, ToldOn
    <3> QED BY <3>4, <3>5
  <2>6. HasRoom(t)'
    <3>1. Len(mounts'[t]) <= Len(mounts[t]) /\ npc'[c] \notin Pending
      BY <1>2, <1>4, <2>1, SystemSame DEF Pending
    <3> QED BY <2>1, <2>3, <3>1, RoomKept
  <2>7. Placed(t)' /\ label \in PCs \ {"idle"}
    BY <1>2, <1>4, SystemSame DEF Placed, PCs
  <2> QED BY <1>1, <1>2, <1>3, <1>4, <2>3, <2>4, <2>5, <2>6, <2>7, GotoKeeps
<1> QED BY <1>1, <1>4 DEF UnpublishCheck

(* umount2, or its error. *)
LEMMA UnmountKeeps ==
  ASSUME IInv, NEW c \in Calls, Unmount(c)
  PROVE  IInv'
<1>1. PICK t \in Targets : target[c] = t
  BY DEF IInv, TypeOK
<1>2. /\ npc[c] = "unmount" /\ UNCHANGED <<have, asked, answer, unreadable, leftover>>
      /\ UNCHANGED <<dir, target, ignored, crashes, late>>
  BY DEF Unmount, At, storeVars, blockedVars
<1>3. answer[c] = "none" /\ npc[c] \notin {"idle"} \cup Halfway
  BY <1>2 DEF IInv, CallOK, Halfway
<1>4. ASSUME mounts[t] # <<>>, mounts' = [mounts EXCEPT ![t] = Front(mounts[t])],
             Goto(c, "cleanup"), UNCHANGED faults
      PROVE  IInv'
  <2>1. /\ npc'[c] = "cleanup" /\ \A d \in Calls \ {c} : npc'[d] = npc[d]
        /\ UNCHANGED <<live, pod, published>>
    BY <1>4 DEF Goto, kubeletVars, IInv, TypeOK
  <2>2. /\ mounts' \in [Targets -> Seq(Mount)] /\ Len(mounts'[t]) <= Len(mounts[t])
        /\ \A u \in Targets \ {t} : mounts'[u] = mounts[u]
        /\ late = 0 /\ Blind(t) = 0 => mounts'[t] = <<>>
        /\ Placed(t)'
    BY <1>2, <1>4, PopFacts
  <2>3. SystemPart(c, t)
    BY <1>2, <1>4, <2>2, SystemSame, UncountedFacts DEF SystemPart
  <2>4. CallOK(c)'
    BY <1>2, <1>3, <2>1 DEF CallOK
  <2>5. HasRoom(t)'
    <3>1. npc'[c] \notin Pending
      BY <2>1 DEF Pending
    <3> QED BY <2>1, <2>2, <2>3, <3>1, RoomKept
  <2>6. ASSUME late = 0 PROVE AloneOK(c)' /\ ToldOK(t)'
    <3>1. AloneOK(c) /\ ToldOK(t)
      BY <2>6 DEF IInv, QuietOK
    <3>2. pod[t] = "deleted" /\ ~published[t]
      BY <1>1, <1>2, <3>1 DEF AloneOK, ToldOK, Unpublishing
    <3>3. Blind(t)' = Blind(t) /\ (Clean(t)' => Blind(t) = 0)
      BY <1>2 DEF Blind, Clean
    <3>4. AloneOK(c)'
      BY <1>1, <1>2, <2>1, <2>2, <2>6, <3>2, <3>3
         DEF AloneOK, Publishing, Unpublishing, Pending, Halfway
    <3>5. ToldOK(t)'
      BY <2>1, <2>2, <2>6, <3>2, <3>3 DEF ToldOK
    <3> QED BY <3>4, <3>5
  <2>7. "cleanup" \in PCs \ {"idle"}
    BY DEF PCs
  <2> QED BY <1>1, <1>2, <1>4, <2>2, <2>3, <2>4, <2>5, <2>6, <2>7, GotoKeeps
<1>5. ASSUME Fault \/ UNCHANGED faults, Return(c, "unpublish", FALSE), UNCHANGED mounts
      PROVE  IInv'
  <2>1. SystemPart(c, t)
    BY <1>2, <1>5, SystemSame, UncountedFacts DEF SystemPart, Fault
  <2>2. ASSUME late = 0 PROVE ToldOK(t)'
    BY <1>1, <1>2, <1>3, <1>5, <2>1, <2>2, ToldAfterError
  <2>3. Placed(t)' /\ Len(mounts'[t]) <= Len(mounts[t]) /\ answer'[c] = "none"
    BY <1>2, <1>3, <1>5, SystemSame DEF Placed
  <2> QED BY <1>1, <1>2, <1>5, <2>1, <2>2, <2>3, ReturnKeeps
<1> QED BY <1>1, <1>4, <1>5 DEF Unmount

(* The deadline of a call that awaits the cache: the handler is dropped. *)
LEMMA TimeoutDropsKeeps ==
  ASSUME IInv, NEW t \in Targets, TimeoutDrops(t)
  PROVE  IInv'
<1>1. PICK c \in Calls : c = live[t]
  BY DEF TimeoutDrops, IInv, TypeOK
<1>2. /\ npc[c] = "ensure" /\ target[c] = t /\ faults' = faults + 1
      /\ npc' = [npc EXCEPT ![c] = "idle"] /\ live' = [live EXCEPT ![t] = NoCall]
      /\ asked' = [asked EXCEPT ![c] = {}] /\ answer' = [answer EXCEPT ![c] = "none"]
      /\ UNCHANGED <<have, unreadable, leftover, mounts, dir, target, pod, published>>
      /\ UNCHANGED <<ignored, crashes, late>>
  BY <1>1 DEF TimeoutDrops, Fault, Cache!Close, blockedVars, IInv, LiveOK
<1>3. SystemPart(c, t)
  BY <1>2, SystemSame, UncountedFacts DEF SystemPart, Cache!Answers
<1>4. /\ npc'[c] = "idle" /\ \A d \in Calls \ {c} : npc'[d] = npc[d]
      /\ live'[t] = NoCall /\ \A u \in Targets \ {t} : live'[u] = live[u]
      /\ answer'[c] = "none"
  BY <1>2 DEF IInv, TypeOK
<1>5. TypeOK'
  BY <1>2, <1>3 DEF SystemPart, Counts, IInv, TypeOK, Mount, PCs
<1>6. Frame(c)
  BY <1>1, <1>2, <1>3, <1>4 DEF Frame, SystemPart, Counts
<1>7. CallOK(c)' /\ AloneOK(c)'
  BY <1>4 DEF CallOK, AloneOK, Publishing, Unpublishing, Pending, Halfway
<1>8. ASSUME late = 0 PROVE ToldOK(t)'
  <2>1. npc[c] \notin {"idle"} \cup Halfway
    BY <1>2 DEF Halfway
  <2> QED BY <1>2, <1>3, <1>8, <2>1, ToldOn
<1>9. HasRoom(t)'
  <2>1. Len(mounts'[t]) <= Len(mounts[t]) /\ npc'[c] \notin Pending
    BY <1>2, <1>4, SystemSame DEF Pending
  <2> QED BY <1>3, <1>4, <2>1, RoomKept
<1>10. Placed(t)'
  BY <1>2, SystemSame DEF Placed
<1> QED BY <1>2, <1>5, <1>6, <1>7, <1>8, <1>9, <1>10, Framed DEF Placed

(* A new call from the kubelet. *)
LEMMA KubeletCallsKeeps ==
  ASSUME IInv, NEW c \in Calls, NEW t \in Targets, NEW kind \in {"publish", "unpublish"},
         KubeletCalls(c, t, kind)
  PROVE  IInv'
<1>1. /\ npc[c] = "idle" /\ live[t] = NoCall
      /\ pod[t] = (IF kind = "publish" THEN "wanted" ELSE "deleted")
      /\ npc' = [npc EXCEPT ![c] = kind] /\ target' = [target EXCEPT ![c] = t]
      /\ live' = [live EXCEPT ![t] = c]
      /\ UNCHANGED <<have, asked, answer, unreadable, leftover, mounts, dir, pod, published>>
      /\ UNCHANGED <<ignored, faults, crashes, late>>
  BY DEF KubeletCalls, storeVars, blockedVars, budgetVars
<1>2. /\ npc'[c] = kind /\ target'[c] = t /\ live'[t] = c
      /\ \A d \in Calls \ {c} : npc'[d] = npc[d] /\ target'[d] = target[d]
      /\ \A u \in Targets \ {t} : live'[u] = live[u]
  BY <1>1 DEF IInv, TypeOK
<1>3. TypeOK'
  BY <1>1 DEF IInv, TypeOK, PCs
<1>4. LiveOK'
  BY <1>1, <1>2 DEF IInv, LiveOK, TypeOK
<1>5. Outlived' = Outlived
  <2>1. ASSUME NEW d \in Calls \ {c}
        PROVE  (npc'[d] # "idle" /\ live'[target'[d]] # d) <=> (npc[d] # "idle" /\ live[target[d]] # d)
    <3>1. target[d] \in Targets /\ NoCall # d
      BY <2>1, NodeAssumption DEF IInv, TypeOK
    <3> QED BY <1>1, <1>2, <2>1, <3>1
  <2> QED BY <1>1, <1>2, <2>1 DEF Outlived
<1>6. OutlivedOK'
  BY <1>1, <1>5 DEF IInv, OutlivedOK
<1>7. \A u \in Targets : Mounting(u)' = Mounting(u)
  BY <1>1, <1>2 DEF Mounting, Pending
<1>8. RoomOK' /\ MountOK'
  BY <1>1, <1>7 DEF IInv, RoomOK, HasRoom, Blind, MountOK
<1>9. \A d \in Calls : CallOK(d)'
  BY <1>1, <1>2 DEF IInv, CallOK
<1>10. QuietOK'
  <2> SUFFICES ASSUME late = 0
               PROVE  (\A d \in Calls : AloneOK(d)') /\ (\A u \in Targets : ToldOK(u)')
    BY <1>1 DEF QuietOK
  <2>1. AloneOK(c)'
    <3>1. npc'[c] \in {"publish", "unpublish"} /\ target'[c] = t
      BY <1>2
    <3> QED BY <1>1, <1>2, <3>1 DEF AloneOK, Publishing, Unpublishing, Pending, Halfway
  <2>2. ASSUME NEW d \in Calls \ {c} PROVE AloneOK(d)'
    BY <1>1, <1>2, <2>2 DEF IInv, QuietOK, AloneOK, Blind
  <2>3. ASSUME NEW u \in Targets PROVE ToldOK(u)'
    <3>1. ToldOK(u) /\ Blind(u)' = Blind(u) /\ (Clean(u)' <=> Clean(u))
      BY <1>1 DEF IInv, QuietOK, Blind, Clean
    <3>2. ASSUME NEW d \in Calls, npc[d] \in Halfway, target[d] = u
          PROVE  npc'[d] \in Halfway /\ target'[d] = u
      BY <1>1, <1>2, <3>2 DEF Halfway
    <3> QED BY <1>1, <3>1, <3>2 DEF ToldOK
  <2> QED BY <2>1, <2>2, <2>3
<1> QED BY <1>3, <1>4, <1>6, <1>8, <1>9, <1>10 DEF IInv

(* The pod is deleted while no call about its volume is in progress. *)
LEMMA DeletePodKeeps ==
  ASSUME IInv, NEW t \in Targets, DeletePod(t)
  PROVE  IInv'
<1>1. /\ live[t] = NoCall
      /\ pod' = [pod EXCEPT ![t] = "deleted"] /\ published' = [published EXCEPT ![t] = FALSE]
      /\ UNCHANGED <<have, asked, answer, unreadable, leftover, mounts, dir, npc, target, live>>
      /\ UNCHANGED <<ignored, faults, crashes, late>>
  BY DEF DeletePod, storeVars, blockedVars, budgetVars
<1>2. /\ pod'[t] = "deleted" /\ ~published'[t]
      /\ \A u \in Targets \ {t} : pod'[u] = pod[u] /\ published'[u] = published[u]
  BY <1>1 DEF IInv, TypeOK
<1>3. TypeOK' /\ LiveOK' /\ MountOK'
  BY <1>1 DEF IInv, TypeOK, LiveOK, MountOK
<1>4. OutlivedOK' /\ RoomOK'
  <2>1. Outlived' = Outlived /\ \A u \in Targets : Mounting(u)' = Mounting(u)
    BY <1>1 DEF Outlived, Mounting
  <2> QED BY <1>1, <2>1 DEF IInv, OutlivedOK, RoomOK, HasRoom, Blind
<1>5. \A d \in Calls : CallOK(d)'
  BY <1>1 DEF IInv, CallOK
<1>6. QuietOK'
  <2> SUFFICES ASSUME late = 0
               PROVE  (\A d \in Calls : AloneOK(d)') /\ (\A u \in Targets : ToldOK(u)')
    BY <1>1 DEF QuietOK
  <2>1. ASSUME NEW d \in Calls PROVE AloneOK(d)'
    <3>1. AloneOK(d) /\ target[d] \in Targets
      BY <2>1 DEF IInv, QuietOK, TypeOK
    <3>2. CASE npc[d] = "idle"
      BY <1>1, <3>2 DEF AloneOK, Publishing, Unpublishing, Pending, Halfway
    <3>3. CASE npc[d] # "idle"
      <4>1. target[d] # t
        BY <1>1, <3>3, Alone, NodeAssumption
      <4> QED BY <1>1, <1>2, <3>1, <4>1 DEF AloneOK, Blind
    <3> QED BY <3>2, <3>3
  <2>2. ASSUME NEW u \in Targets PROVE ToldOK(u)'
    <3>1. ToldOK(u) /\ Blind(u)' = Blind(u) /\ (Clean(u)' <=> Clean(u))
      BY <1>1 DEF IInv, QuietOK, Blind, Clean
    <3>2. /\ published'[u] => pod'[u] = "wanted" /\ mounts'[u] # <<>>
          /\ Blind(u)' = 0 /\ pod'[u] = "cleaned"
               => mounts'[u] = <<>> /\ (dir'[u] => ignored'[u]["remove_dir"] > 0)
      BY <1>1, <1>2, <3>1 DEF ToldOK
    <3> QED BY <1>1, <3>1, <3>2 DEF ToldOK
  <2> QED BY <2>1, <2>2
<1> QED BY <1>3, <1>4, <1>5, <1>6 DEF IInv

(* The deadline of a call in its system calls: the handler is outlived. *)
LEMMA TimeoutLateKeeps ==
  ASSUME IInv, NEW t \in Targets, TimeoutLate(t)
  PROVE  IInv'
<1>1. PICK c \in Calls : c = live[t]
  BY DEF TimeoutLate, IInv, TypeOK
<1>2. /\ late' = late + 1 /\ live' = [live EXCEPT ![t] = NoCall]
      /\ UNCHANGED <<have, asked, answer, unreadable, leftover, mounts, dir, npc, target>>
      /\ UNCHANGED <<pod, published, ignored, faults, crashes>>
  BY DEF TimeoutLate, storeVars, blockedVars
<1>3. late \in Nat /\ late' \in Nat /\ late' # 0
  BY <1>2, SystemSame
<1>4. TypeOK' /\ MountOK' /\ QuietOK'
  BY <1>2, <1>3 DEF IInv, TypeOK, MountOK, QuietOK
<1>5. LiveOK'
  BY <1>2 DEF IInv, LiveOK, TypeOK
<1>6. OutlivedOK'
  <2>1. Outlived' \subseteq Outlived \cup {c}
    <3> SUFFICES ASSUME NEW d \in Calls \ {c}, npc'[d] # "idle", live'[target'[d]] # d
                 PROVE  npc[d] # "idle" /\ live[target[d]] # d
      BY DEF Outlived
    <3>1. target[d] \in Targets
      BY DEF IInv, TypeOK
    <3> QED BY <1>1, <1>2, <3>1 DEF IInv, TypeOK
  <2>2. IsFiniteSet(Outlived) /\ Cardinality(Outlived) <= late
    BY DEF IInv, OutlivedOK
  <2>3. /\ IsFiniteSet(Outlived') /\ Cardinality(Outlived') \in Nat
        /\ Cardinality(Outlived) \in Nat
        /\ Cardinality(Outlived') <= Cardinality(Outlived) + 1
    BY <2>1, <2>2, OneMore
  <2>4. Cardinality(Outlived') <= late'
    BY <1>2, <1>3, <2>2, <2>3
  <2> QED BY <2>3, <2>4 DEF OutlivedOK
<1>7. RoomOK'
  <2> SUFFICES ASSUME NEW u \in Targets PROVE HasRoom(u)'
    BY DEF RoomOK
  <2>1. Mounting(u)' = Mounting(u) /\ Blind(u)' = Blind(u)
    BY <1>2 DEF Mounting, Blind
  <2>2. /\ IsFiniteSet(Mounting(u)) /\ Cardinality(Mounting(u)) \in Nat /\ Blind(u) \in Nat
        /\ Len(mounts[u]) + Cardinality(Mounting(u)) <= 1 + late + Blind(u)
        /\ Len(mounts[u]) \in Nat
    BY FS_CardinalityType, SystemSame DEF IInv, RoomOK, HasRoom
  <2>3. Len(mounts[u]) + Cardinality(Mounting(u)) <= 1 + late' + Blind(u)
    BY <1>2, <1>3, <2>2
  <2> QED BY <1>2, <2>1, <2>2, <2>3 DEF HasRoom
<1>8. \A d \in Calls : CallOK(d)'
  BY <1>2 DEF IInv, CallOK
<1> QED BY <1>4, <1>5, <1>6, <1>7, <1>8 DEF IInv

(* The driver restarts; its calls are gone, its mounts are not. *)
LEMMA CrashKeeps ==
  ASSUME IInv, Crash
  PROVE  IInv'
<1>1. /\ crashes' = crashes + 1 /\ npc' = [c \in Calls |-> "idle"]
      /\ live' = [t \in Targets |-> NoCall]
      /\ asked' = [c \in Calls |-> {}] /\ answer' = [c \in Calls |-> "none"]
      /\ leftover' = {}
      /\ UNCHANGED <<have, unreadable, mounts, dir, target, pod, published, ignored, faults, late>>
  BY DEF Crash, Cache!CloseAll
<1>2. crashes' \in Nat /\ crashes' # 0
  BY <1>1, SystemSame
<1>3. TypeOK'
  BY <1>1, <1>2 DEF IInv, TypeOK, PCs, Cache!Answers
<1>4. LiveOK' /\ MountOK'
  BY <1>1 DEF IInv, LiveOK, MountOK
<1>5. Outlived' = {} /\ \A u \in Targets : Mounting(u)' = {}
  BY <1>1 DEF Outlived, Mounting, Pending
<1>6. IsFiniteSet({}) /\ Cardinality({}) = 0 /\ late \in Nat
  BY FS_EmptySet, SystemSame
<1>7. OutlivedOK'
  BY <1>1, <1>5, <1>6 DEF OutlivedOK
<1>8. RoomOK'
  <2> SUFFICES ASSUME NEW u \in Targets PROVE HasRoom(u)'
    BY DEF RoomOK
  <2>1. /\ Len(mounts[u]) + Cardinality(Mounting(u)) <= 1 + late + Blind(u)
        /\ Cardinality(Mounting(u)) \in Nat /\ Len(mounts[u]) \in Nat /\ Blind(u) \in Nat
    BY FS_CardinalityType, SystemSame DEF IInv, RoomOK, HasRoom
  <2>2. Mounting(u)' = {} /\ Blind(u)' = Blind(u)
    BY <1>1, <1>5 DEF Blind
  <2>3. Len(mounts[u]) + 0 <= 1 + late + Blind(u)
    BY <1>6, <2>1
  <2> QED BY <1>1, <1>6, <2>2, <2>3 DEF HasRoom
<1>9. \A d \in Calls : CallOK(d)'
  BY <1>1 DEF CallOK
<1>10. QuietOK'
  <2> SUFFICES ASSUME late = 0
               PROVE  (\A d \in Calls : AloneOK(d)') /\ (\A u \in Targets : ToldOK(u)')
    BY <1>1 DEF QuietOK
  <2>1. \A d \in Calls : AloneOK(d)'
    BY <1>1 DEF AloneOK, Publishing, Unpublishing, Pending, Halfway
  <2>2. ASSUME NEW u \in Targets PROVE ToldOK(u)'
    <3>1. ToldOK(u) /\ Blind(u)' = Blind(u) /\ ~Clean(u)'
      BY <1>1, <1>2 DEF IInv, QuietOK, Blind, Clean
    <3> QED BY <1>1, <3>1 DEF ToldOK
  <2> QED BY <2>1, <2>2
<1> QED BY <1>3, <1>4, <1>7, <1>8, <1>9, <1>10 DEF IInv

(* Every step of a handler, of the kubelet and of the node, and no step. *)
LEMMA NextIInv == IInv /\ [Next]_vars => IInv'
<1> SUFFICES ASSUME IInv, [Next]_vars PROVE IInv'
  OBVIOUS
<1>1. ASSUME NEW c \in Calls, Step(c) PROVE IInv'
  BY <1>1, PublishCheckKeeps, CacheWorksKeeps, EnsuredKeeps, SetupTargetDirKeeps,
     BindMountKeeps, RemountKeeps, UndoBindKeeps, AbandonKeeps, UnpublishCheckKeeps,
     UnmountKeeps, CleanupKeeps DEF Step
<1>2. ASSUME NEW t \in Targets, Publishes(t) \/ Unpublishes(t) PROVE IInv'
  BY <1>2, KubeletCallsKeeps DEF Publishes, Unpublishes
<1>3. ASSUME NEW t \in Targets, DeletePod(t) PROVE IInv'
  BY <1>3, DeletePodKeeps
<1>4. ASSUME NEW t \in Targets, TimeoutDrops(t) PROVE IInv'
  BY <1>4, TimeoutDropsKeeps
<1>5. ASSUME NEW t \in Targets, TimeoutLate(t) PROVE IInv'
  BY <1>5, TimeoutLateKeeps
<1>6. CASE Crash
  BY <1>6, CrashKeeps
<1>7. CASE UNCHANGED vars
  <2>1. /\ UNCHANGED <<have, asked, answer, unreadable, leftover, mounts, dir, npc, target>>
        /\ UNCHANGED <<live, pod, published, ignored, faults, crashes, late>>
    BY <1>7 DEF vars, storeVars, blockedVars, kubeletVars, budgetVars
  <2>2. TypeOK' /\ LiveOK' /\ MountOK'
    BY <2>1 DEF IInv, TypeOK, LiveOK, MountOK
  <2>3. Outlived' = Outlived /\ \A u \in Targets : Mounting(u)' = Mounting(u)
    BY <2>1 DEF Outlived, Mounting
  <2>4. OutlivedOK' /\ RoomOK'
    BY <2>1, <2>3 DEF IInv, OutlivedOK, RoomOK, HasRoom, Blind
  <2>5. QuietOK'
    BY <2>1 DEF IInv, QuietOK, AloneOK, ToldOK, Blind, Clean
  <2>6. \A d \in Calls : CallOK(d)'
    BY <2>1 DEF IInv, CallOK
  <2> QED BY <2>2, <2>4, <2>5, <2>6 DEF IInv
<1> QED BY <1>1, <1>2, <1>3, <1>4, <1>5, <1>6, <1>7 DEF Next

(* The handlers in progress, the mounts, the directory and what the        *)
(* kubelet was told agree at every step.                                   *)
THEOREM NodeInvariant == Spec => []IInv
BY InitIInv, NextIInv, PTL DEF Spec

-----------------------------------------------------------------------------
(* Results *)

(* node_publish_volume: publishes repeated in any number, by any number of *)
(* calls, stack at most one extra mount for each call outlived and each    *)
(* look at mountinfo that failed.                                          *)
THEOREM MountsBoundedTheorem == Spec => []MountsBounded
<1>1. IInv => MountsBounded
  <2> SUFFICES ASSUME IInv, NEW t \in Targets PROVE Len(mounts[t]) <= 1 + late + Blind(t)
    BY DEF MountsBounded, Blind
  <2>1. /\ Len(mounts[t]) + Cardinality(Mounting(t)) <= 1 + late + Blind(t)
        /\ Cardinality(Mounting(t)) \in Nat /\ Len(mounts[t]) \in Nat /\ late \in Nat
        /\ Blind(t) \in Nat
    BY FS_CardinalityType, SystemSame DEF IInv, RoomOK, HasRoom
  <2> QED BY <2>1
<1> QED BY <1>1, NodeInvariant, PTL

(* node_publish_volume: a volume the kubelet was told is published shows   *)
(* its store path, with the whole closure cached, whichever errors the     *)
(* handlers passed over.                                                   *)
THEOREM PublishedIsUsableTheorem == Spec => []PublishedIsUsable
<1>1. IInv => PublishedIsUsable
  <2> SUFFICES ASSUME IInv, NEW t \in Targets, published[t], late = 0
               PROVE  /\ mounts[t] # <<>> /\ Last(mounts[t]).path = Root(t)
                      /\ Closure(t) \subseteq have
    BY DEF PublishedIsUsable
  <2>1. mounts[t] # <<>>
    BY DEF IInv, QuietOK, ToldOK
  <2>2. Len(mounts[t]) \in 1..Len(mounts[t])
    BY <2>1, SystemSame, LenFacts
  <2> QED BY <2>1, <2>2, SystemSame DEF Placed, Last
<1> QED BY <1>1, NodeInvariant, PTL

(* bind_mount_readonly: without a restart, an outlived call, a failed undo *)
(* or a failed look at mountinfo, a published volume is read-only.         *)
THEOREM PublishedIsReadOnlyTheorem == Spec => []PublishedIsReadOnly
<1>1. IInv => PublishedIsReadOnly
  <2> SUFFICES ASSUME IInv, NEW t \in Targets, published[t], crashes = 0, late = 0,
                      ignored[t]["umount2"] = 0, ignored[t]["mountinfo"] = 0
               PROVE  Last(mounts[t]).ro
    BY DEF PublishedIsReadOnly
  <2>1. ToldOK(t) /\ (\A c \in Calls : AloneOK(c)) /\ Clean(t) /\ Blind(t) = 0
    BY DEF IInv, QuietOK, Clean, Blind
  <2>2. mounts[t] # <<>>
    BY <2>1 DEF ToldOK
  <2>3. ~\E c \in Calls : npc[c] \in Halfway /\ target[c] = t
    BY <2>1 DEF AloneOK
  <2>4. mounts[t][1].ro
    BY <2>1, <2>2, <2>3 DEF ToldOK
  <2>5. Len(mounts[t]) \in Nat \ {0} /\ Len(mounts[t]) <= 1
    BY <2>1, <2>2, OneMount, SystemSame, LenFacts
  <2>6. \A n \in Nat \ {0} : n <= 1 => n = 1
    OBVIOUS
  <2>7. Len(mounts[t]) = 1
    BY <2>5, <2>6
  <2> QED BY <2>4, <2>7 DEF Last
<1> QED BY <1>1, NodeInvariant, PTL

(* node_unpublish_volume: once the kubelet is told a volume is gone, there *)
(* is no mount, and a directory only if remove_dir failed, unless a call   *)
(* was outlived or mountinfo could not be read.                            *)
THEOREM CleanedIsGoneTheorem == Spec => []CleanedIsGone
<1>1. IInv => CleanedIsGone
  BY DEF IInv, QuietOK, ToldOK, Blind, CleanedIsGone
<1> QED BY <1>1, NodeInvariant, PTL

=============================================================================
