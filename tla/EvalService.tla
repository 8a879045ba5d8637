---------------------------- MODULE EvalService ----------------------------
(***************************************************************************)
(* The evaluation of workloads against time: call_eval_webhook in the      *)
(* operator (crates/niphas-operator/src/eval.rs) and the pipeline behind   *)
(* POST /evaluate (crates/niphas-eval): admission, the nix subprocess, the *)
(* closure.  The operator's request and the subprocess have the same       *)
(* timeout; a subprocess nobody waits for any more is not killed.          *)
(***************************************************************************)
EXTENDS Naturals, Sequences, SequencesExt

CONSTANTS
  Workloads,
  Profiles,       \* the flakes a workload may name, see ProfileType
  EvalTimeout,    \* eval_timeout, of the request and of the subprocess
  ClosureTimeout, \* closure_resolution.timeout
  MaxLag,         \* ticks a request is under way to the handler, at most
  MaxFaults,      \* bound: closures that fail to resolve
  MaxRestarts,    \* bound: restarts of niphas-eval
  MaxOperatorRestarts

(* A flake: is it admitted or with which error refused, how long nix runs on *)
(* it, with what result, and how long its closure takes to resolve.  Both    *)
(* times differ from attempt to attempt, as the evaluation cache fills.      *)
Span        == {d \in [least : Nat, most : Nat] : d.least <= d.most}
ProfileType == [admission : {"admitted", "InvalidInput", "FlakeNotAllowed"},
                nix : Span, output : {"path", "error", "noPath"}, closure : Span]

ASSUME ProfilesAssumption == Profiles \subseteq ProfileType
ASSUME TimesAssumption    == /\ EvalTimeout \in Nat \ {0} /\ ClosureTimeout \in Nat \ {0}
                             /\ MaxLag \in Nat /\ MaxLag < EvalTimeout
ASSUME EvalBounds         == /\ MaxFaults \in Nat /\ MaxRestarts \in Nat
                             /\ MaxOperatorRestarts \in Nat

VARIABLES
  profile,   \* workload -> its flake
  call,      \* workload -> "due", "waiting", "done" or the error it got
  elapsed,   \* workload -> ticks since its request was sent
  handler,   \* workload -> "none", "queued", "nix" or "closure"
  age,       \* workload -> ticks the handler has spent there
  orphans,   \* workload -> ages of nix processes without a handler, oldest first
  warm,      \* is_warm
  faults, restarts, operatorRestarts

vars == <<profile, call, elapsed, handler, age, orphans, warm,
          faults, restarts, operatorRestarts>>
budgetVars == <<faults, restarts, operatorRestarts>>

Errors == {"InvalidInput", "FlakeNotAllowed", "EvalFailed", "EvalTimeout",
           "InternalError", "ClosureResolutionFailed", "RequestFailed"}

Init ==
  /\ profile \in [Workloads -> Profiles]
  /\ call = [w \in Workloads |-> "due"]
  /\ elapsed = [w \in Workloads |-> 0]
  /\ handler = [w \in Workloads |-> "none"]
  /\ age = [w \in Workloads |-> 0]
  /\ orphans = [w \in Workloads |-> <<>>]
  /\ warm = FALSE
  /\ faults = 0 /\ restarts = 0 /\ operatorRestarts = 0

-----------------------------------------------------------------------------
(* The operator *)

(* Mutant: a failed evaluation is not tried again. *)
Call_Once(w) ==
  /\ call[w] = "due"
  /\ call' = [call EXCEPT ![w] = "waiting"]
  /\ elapsed' = [elapsed EXCEPT ![w] = 0]
  /\ handler' = [handler EXCEPT ![w] = "queued"]
  /\ age' = [age EXCEPT ![w] = 0]
  /\ UNCHANGED <<profile, orphans, warm, budgetVars>>

(***************************************************************************)
(* The next reconcile of a workload without a store path posts the         *)
(* request.  After an error that may be at once: set_failed changes the    *)
(* object, whose watch event comes before the requeue.                     *)
(***************************************************************************)
Call(w) ==
  /\ call[w] \in Errors \cup {"due"}
  /\ call' = [call EXCEPT ![w] = "waiting"]
  /\ elapsed' = [elapsed EXCEPT ![w] = 0]
  /\ handler' = [handler EXCEPT ![w] = "queued"]
  /\ age' = [age EXCEPT ![w] = 0]
  /\ UNCHANGED <<profile, orphans, warm, budgetVars>>

(* The handler's future is dropped; a nix process it had started lives on. *)
Orphaned(w) ==
  IF handler[w] = "nix" THEN Append(orphans[w], age[w]) ELSE orphans[w]

Abandon(w) ==
  /\ handler' = [handler EXCEPT ![w] = "none"]
  /\ age' = [age EXCEPT ![w] = 0]
  /\ orphans' = [orphans EXCEPT ![w] = Orphaned(w)]

(* Mutant: the request has half the time. *)
TimedOut_Short(w) == call[w] = "waiting" /\ 2 * elapsed[w] >= EvalTimeout

(* Mutant: the request allows for the closure as well. *)
TimedOut_Generous(w) ==
  call[w] = "waiting" /\ elapsed[w] >= EvalTimeout + ClosureTimeout

(* .timeout(eval_timeout) of the request. *)
TimedOut(w) == call[w] = "waiting" /\ elapsed[w] >= EvalTimeout

(* The connection closes and axum drops the handler. *)
CallerTimeout(w) ==
  /\ TimedOut(w)
  /\ call' = [call EXCEPT ![w] = "EvalTimeout"]
  /\ elapsed' = [elapsed EXCEPT ![w] = 0]
  /\ Abandon(w)
  /\ UNCHANGED <<profile, warm, budgetVars>>

OperatorRestart ==
  /\ operatorRestarts < MaxOperatorRestarts
  /\ operatorRestarts' = operatorRestarts + 1
  /\ call' = [w \in Workloads |-> IF call[w] = "waiting" THEN "due" ELSE call[w]]
  /\ elapsed' = [w \in Workloads |-> 0]
  /\ handler' = [w \in Workloads |-> "none"]
  /\ age' = [w \in Workloads |-> 0]
  /\ orphans' = [w \in Workloads |-> Orphaned(w)]
  /\ UNCHANGED <<profile, warm, faults, restarts>>

-----------------------------------------------------------------------------
(* evaluate() *)

Goto(w, stage) ==
  /\ handler' = [handler EXCEPT ![w] = stage]
  /\ age' = [age EXCEPT ![w] = 0]
  /\ UNCHANGED <<call, elapsed>>

(* The response; nothing is left of the handler. *)
Answer(w, outcome) ==
  /\ call' = [call EXCEPT ![w] = outcome]
  /\ elapsed' = [elapsed EXCEPT ![w] = 0]
  /\ handler' = [handler EXCEPT ![w] = "none"]
  /\ age' = [age EXCEPT ![w] = 0]

(* validate_eval_request and the allowlist, before nix is started. *)
Admit(w) ==
  /\ handler[w] = "queued"
  /\ LET admission == profile[w].admission
     IN  \/ admission = "admitted" /\ Goto(w, "nix")
         \/ admission # "admitted" /\ Answer(w, admission)
  /\ UNCHANGED <<profile, orphans, warm, budgetVars>>

In(n, span) == span.least <= n /\ n <= span.most

(* The subprocess ends: its output is a path, something else, or an error. *)
NixExits(w) ==
  /\ handler[w] = "nix" /\ In(age[w], profile[w].nix)
  /\ \/ profile[w].output = "path"   /\ Goto(w, "closure")
     \/ profile[w].output = "error"  /\ Answer(w, "EvalFailed")
     \/ profile[w].output = "noPath" /\ Answer(w, "InternalError")
  /\ UNCHANGED <<profile, orphans, warm, budgetVars>>

(* tokio::time::timeout around the subprocess, which is not killed. *)
NixTimeout(w) ==
  /\ handler[w] = "nix" /\ age[w] >= EvalTimeout
  /\ orphans' = [orphans EXCEPT ![w] = Orphaned(w)]
  /\ Answer(w, "EvalTimeout")
  /\ UNCHANGED <<profile, warm, budgetVars>>

Resolved(w) ==
  /\ handler[w] = "closure" /\ In(age[w], profile[w].closure)
  /\ warm' = TRUE
  /\ Answer(w, "done")
  /\ UNCHANGED <<profile, orphans, budgetVars>>

(***************************************************************************)
(* Every error of resolve_closure, a path no cache has included.  Its      *)
(* deadline is read before a batch is started, so that from then on the    *)
(* closure may fail and the last batch may still complete it.              *)
(***************************************************************************)
ResolveFails(w) ==
  /\ handler[w] = "closure"
  /\ \/ age[w] >= ClosureTimeout /\ UNCHANGED faults
     \/ faults < MaxFaults /\ faults' = faults + 1
  /\ Answer(w, "ClosureResolutionFailed")
  /\ UNCHANGED <<profile, orphans, warm, restarts, operatorRestarts>>

(* The container dies with every process in it. *)
Restart ==
  /\ restarts < MaxRestarts
  /\ restarts' = restarts + 1
  /\ call' = [w \in Workloads |-> IF call[w] = "waiting" THEN "RequestFailed" ELSE call[w]]
  /\ elapsed' = [w \in Workloads |-> 0]
  /\ handler' = [w \in Workloads |-> "none"]
  /\ age' = [w \in Workloads |-> 0]
  /\ orphans' = [w \in Workloads |-> <<>>]
  /\ warm' = FALSE
  /\ UNCHANGED <<profile, faults, operatorRestarts>>

-----------------------------------------------------------------------------
(* Time (external): nothing that is due is passed over *)

OrphanExits(w) ==
  /\ \E i \in 1..Len(orphans[w]) :
       /\ In(orphans[w][i], profile[w].nix)
       /\ orphans' = [orphans EXCEPT ![w] = RemoveAt(@, i)]
  /\ UNCHANGED <<profile, call, elapsed, handler, age, warm, budgetVars>>

Overdue(w) ==
  \/ handler[w] = "queued" /\ elapsed[w] >= MaxLag
  \/ TimedOut(w)
  \/ handler[w] = "nix" /\ age[w] >= EvalTimeout
  \/ handler[w] = "nix" /\ age[w] >= profile[w].nix.most
  \/ handler[w] = "closure" /\ age[w] >= profile[w].closure.most
  \/ \E i \in 1..Len(orphans[w]) : orphans[w][i] >= profile[w].nix.most

Tick ==
  /\ \A w \in Workloads : ~Overdue(w)
  /\ elapsed' = [w \in Workloads |-> IF call[w] = "waiting" THEN elapsed[w] + 1 ELSE 0]
  /\ age' = [w \in Workloads |-> IF handler[w] \in {"nix", "closure"} THEN age[w] + 1 ELSE 0]
  /\ orphans' = [w \in Workloads |-> [i \in DOMAIN orphans[w] |-> orphans[w][i] + 1]]
  /\ UNCHANGED <<profile, call, handler, warm, budgetVars>>

-----------------------------------------------------------------------------
Step(w) ==
  \/ Call(w) \/ CallerTimeout(w) \/ Admit(w) \/ NixExits(w) \/ NixTimeout(w)
  \/ Resolved(w) \/ ResolveFails(w) \/ OrphanExits(w)

Next ==
  \/ \E w \in Workloads : Step(w)
  \/ Restart \/ OperatorRestart \/ Tick

Spec == Init /\ [][Next]_vars

(* Time goes on, and a reconcile that is due posts its request. *)
Fairness == WF_vars(Tick) /\ \A w \in Workloads : WF_vars(Step(w))

FairSpec == Spec /\ Fairness

-----------------------------------------------------------------------------
(* Properties *)

(***************************************************************************)
(* nix_eval: processes that outlive their request pile up, but no faster   *)
(* than one per timeout: one workload never has more of them than timeouts *)
(* fit into the longest life of one (and the way of its request), and one  *)
(* more for each restart of the operator.                                  *)
(***************************************************************************)
ProcessesBounded ==
  \A w \in Workloads :
    Len(Orphaned(w)) <= 1 + (profile[w].nix.most + MaxLag) \div EvalTimeout + operatorRestarts

(***************************************************************************)
(* call_eval_webhook: the one timeout has to hold evaluation and closure.  *)
(* A workload is done only if some attempt of its flake can be that short: *)
(* one for which both, at their fastest and each alone in time, take more  *)
(* together is never deployed, however often it is tried.                  *)
(***************************************************************************)
DoneOnlyIfBothFit ==
  \A w \in Workloads : call[w] = "done"
    => /\ profile[w].admission = "admitted"
       /\ profile[w].nix.least + profile[w].closure.least <= EvalTimeout

(***************************************************************************)
(* A flake that is admitted, evaluates and always fits is evaluated in the *)
(* end, whatever restarts, failed closures and abandoned attempts come     *)
(* before.                                                                 *)
(***************************************************************************)
Fits(w) ==
  /\ profile[w].admission = "admitted" /\ profile[w].output = "path"
  /\ MaxLag + profile[w].nix.most + profile[w].closure.most < EvalTimeout
  /\ profile[w].closure.most < ClosureTimeout

EventuallyEvaluated == \A w \in Workloads : Fits(w) ~> call[w] = "done"

=============================================================================
