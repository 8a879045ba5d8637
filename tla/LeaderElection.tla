--------------------------- MODULE LeaderElection ---------------------------
(***************************************************************************)
(* Leader election of niphas-operator (crates/niphas-operator/src/main.rs):*)
(* the loop that acquires the lease, the renewer beside the controller,    *)
(* shutdown and restart, with time as a variable.  Reconciler models what  *)
(* the processes do that believe they lead.                                *)
(***************************************************************************)
EXTENDS Naturals

CONSTANTS
  Processes,         \* replicas of the operator, each with its POD_NAME
  NoProcess,
  TTL,               \* LEASE_TTL
  Interval,          \* LEASE_RENEW_INTERVAL
  MaxRenewFailures,  \* MAX_RENEW_FAILURES
  MaxCall,           \* longest time a lease call takes, its timeout included
  MaxFaults,         \* bound: lease calls that end in an error
  MaxCrashes         \* bound: processes that are killed

ASSUME TimesAssumption ==
  /\ TTL \in Nat /\ Interval \in Nat \ {0} /\ MaxCall \in Nat
  /\ MaxRenewFailures \in Nat \ {0}
ASSUME LeaseBounds == MaxFaults \in Nat /\ MaxCrashes \in Nat
ASSUME NoProcessAssumption == NoProcess \notin Processes

VARIABLES
  holder,   \* the lease's holderIdentity
  age,      \* time since the lease's renewTime, up to TTL
  pc,       \* where main() or the renewer stands
  timer,    \* time since the current sleep or call began
  reply,    \* what the API server has decided about the current call
  fails,    \* consecutive_failures
  since,    \* history: time since a call of the process took the lease
  faults, crashes

vars == <<holder, age, pc, timer, reply, fails, since, faults, crashes>>

PCs      == {"down", "acquire", "wait", "lead", "renew", "stopping"}
Calling  == {"acquire", "renew"}
Sleeping == {"wait", "lead"}

(* The controller runs from the moment the lease is acquired until main()  *)
(* has noticed that the shutdown token was cancelled.                      *)
Running(p) == pc[p] \in {"lead", "renew", "stopping"}

Init ==
  /\ holder = NoProcess /\ age = 0
  /\ pc = [p \in Processes |-> "down"]
  /\ timer = [p \in Processes |-> 0]
  /\ reply = [p \in Processes |-> "none"]
  /\ fails = [p \in Processes |-> 0]
  /\ since = [p \in Processes |-> 0]
  /\ faults = 0 /\ crashes = 0

Goto(p, label) ==
  /\ pc' = [pc EXCEPT ![p] = label]
  /\ timer' = [timer EXCEPT ![p] = 0]
  /\ reply' = [reply EXCEPT ![p] = "none"]

-----------------------------------------------------------------------------
(* try_acquire_or_renew (external) *)

Available(p) == holder \in {p, NoProcess} \/ age >= TTL

(* The API server decides, some time before the caller hears of it. *)
Served(p) ==
  /\ pc[p] \in Calling /\ reply[p] = "none"
  /\ \/ /\ Available(p)
        /\ holder' = p /\ age' = 0
        /\ reply' = [reply EXCEPT ![p] = "acquired"]
        /\ since' = [since EXCEPT ![p] = 0]
     \/ /\ ~Available(p)
        /\ reply' = [reply EXCEPT ![p] = "refused"]
        /\ UNCHANGED <<holder, age, since>>
  /\ UNCHANGED <<pc, timer, fails, faults, crashes>>

(* Any error: the request was lost, or only its answer. *)
Fault == faults < MaxFaults /\ faults' = faults + 1

-----------------------------------------------------------------------------
(* main(): acquire the lease, or wait *)

Start(p) ==
  /\ pc[p] = "down"
  /\ Goto(p, "acquire")
  /\ fails' = [fails EXCEPT ![p] = 0]
  /\ UNCHANGED <<holder, age, since, faults, crashes>>

(* Mutant: the controller starts whatever the answer was. *)
AcquireAnswered_IgnoresRefusal(p) ==
  /\ pc[p] = "acquire"
  /\ \/ reply[p] # "none" /\ Goto(p, "lead") /\ UNCHANGED faults
     \/ Fault /\ Goto(p, "down")
  /\ UNCHANGED <<holder, age, fails, since, crashes>>

(* Acquired, not acquired, or `?`: main() returns and the pod restarts. *)
AcquireAnswered(p) ==
  /\ pc[p] = "acquire"
  /\ \/ reply[p] = "acquired" /\ Goto(p, "lead") /\ UNCHANGED faults
     \/ reply[p] = "refused" /\ Goto(p, "wait") /\ UNCHANGED faults
     \/ Fault /\ Goto(p, "down")
  /\ UNCHANGED <<holder, age, fails, since, crashes>>

(* Mutant: waits for the lease to be given up instead of asking again. *)
Retry_WhenReleased(p) ==
  /\ pc[p] = "wait" /\ timer[p] = Interval /\ holder = NoProcess
  /\ Goto(p, "acquire")
  /\ UNCHANGED <<holder, age, fails, since, faults, crashes>>

Retry(p) ==
  /\ pc[p] = "wait" /\ timer[p] = Interval
  /\ Goto(p, "acquire")
  /\ UNCHANGED <<holder, age, fails, since, faults, crashes>>

-----------------------------------------------------------------------------
(* The renewer *)

Renew(p) ==
  /\ pc[p] = "lead" /\ timer[p] = Interval
  /\ Goto(p, "renew")
  /\ UNCHANGED <<holder, age, fails, since, faults, crashes>>

(* Mutant: a lost lease is only logged. *)
RenewAnswered_LogsLoss(p) ==
  /\ pc[p] = "renew"
  /\ \/ /\ reply[p] # "none"
        /\ fails' = [fails EXCEPT ![p] = 0]
        /\ Goto(p, "lead") /\ UNCHANGED faults
     \/ /\ Fault
        /\ fails' = [fails EXCEPT ![p] = @ + 1]
        /\ Goto(p, IF fails[p] + 1 >= MaxRenewFailures THEN "stopping" ELSE "lead")
  /\ UNCHANGED <<holder, age, since, crashes>>

RenewAnswered(p) ==
  /\ pc[p] = "renew"
  /\ \/ /\ reply[p] = "acquired"
        /\ fails' = [fails EXCEPT ![p] = 0]
        /\ Goto(p, "lead") /\ UNCHANGED faults
     \/ /\ reply[p] = "refused"
        /\ Goto(p, "stopping") /\ UNCHANGED <<fails, faults>>
     \/ /\ Fault
        /\ fails' = [fails EXCEPT ![p] = @ + 1]
        /\ Goto(p, IF fails[p] + 1 >= MaxRenewFailures THEN "stopping" ELSE "lead")
  /\ UNCHANGED <<holder, age, since, crashes>>

(* select! drops the controller and main() returns. *)
Shutdown(p) ==
  /\ pc[p] = "stopping"
  /\ Goto(p, "down")
  /\ UNCHANGED <<holder, age, fails, since, faults, crashes>>

(* The process is killed; nobody gives its lease back. *)
Kill(p) ==
  /\ pc[p] # "down" /\ crashes < MaxCrashes
  /\ crashes' = crashes + 1
  /\ Goto(p, "down")
  /\ UNCHANGED <<holder, age, fails, since, faults>>

-----------------------------------------------------------------------------
(* Time *)

UpTo(cap, n) == IF n < cap THEN n + 1 ELSE cap

(* How long a controller can run on after its lease was last taken. *)
Patience == MaxCall + MaxRenewFailures * (Interval + MaxCall)

(* A sleep ends when it is over, a call within MaxCall, select! at once. *)
MayWait(p) ==
  /\ pc[p] \in Sleeping => timer[p] < Interval
  /\ pc[p] \in Calling => timer[p] < MaxCall
  /\ pc[p] # "stopping"

(* One unit of time; what is measured stops at the largest useful value. *)
Tick ==
  /\ \A p \in Processes : MayWait(p)
  /\ age' = UpTo(TTL, age)
  /\ timer' = [p \in Processes |-> IF pc[p] = "down" THEN 0 ELSE timer[p] + 1]
  /\ since' = [p \in Processes |-> UpTo(Patience + 1, since[p])]
  /\ UNCHANGED <<holder, pc, reply, fails, faults, crashes>>

Step(p) ==
  \/ Served(p) \/ AcquireAnswered(p) \/ Retry(p)
  \/ Renew(p) \/ RenewAnswered(p) \/ Shutdown(p)

Next ==
  \/ \E p \in Processes : Step(p) \/ Start(p) \/ Kill(p)
  \/ Tick

Spec == Init /\ [][Next]_vars

(* Time passes and calls return.  A process that is down may stay down. *)
FairSpec == Spec /\ WF_vars(Tick) /\ \A p \in Processes : WF_vars(Step(p))

-----------------------------------------------------------------------------
(* Properties *)

(* Every variable keeps its type. *)
TypeOK ==
  /\ holder \in Processes \cup {NoProcess}
  /\ age \in 0..TTL
  /\ pc \in [Processes -> PCs]
  /\ timer \in [Processes -> Nat]
  /\ reply \in [Processes -> {"none", "acquired", "refused"}]
  /\ fails \in [Processes -> 0..MaxRenewFailures]
  /\ since \in [Processes -> 0..(Patience + 1)]
  /\ faults \in 0..MaxFaults /\ crashes \in 0..MaxCrashes

(***************************************************************************)
(* The renewer gives up in time: whatever mix of errors, lost answers and  *)
(* refusals it meets, a controller never runs on for longer than the       *)
(* failures it is allowed since the lease was last its own.                *)
(***************************************************************************)
LeaderRenewed == \A p \in Processes : Running(p) => since[p] <= Patience

(***************************************************************************)
(* LEASE_TTL against LEASE_RENEW_INTERVAL: as long as the errors so far    *)
(* cannot have kept a renewal away for a whole TTL, however slow each call *)
(* was, no two controllers run at once, across restarts and kills.         *)
(***************************************************************************)
OneLeader ==
  (faults + 1) * Interval + (faults + 2) * MaxCall < TTL
    => \A p, q \in Processes : Running(p) /\ Running(q) => p = q

(***************************************************************************)
(* A standby that stays up sees a leader again and again, also when the    *)
(* leader was killed and never returns to give its lease back.             *)
(***************************************************************************)
StandbyTakesOver ==
  \A p \in Processes : []<>(pc[p] = "down" \/ \E q \in Processes : Running(q))
=============================================================================
