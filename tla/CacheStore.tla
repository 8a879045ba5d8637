----------------------------- MODULE CacheStore -----------------------------
(***************************************************************************)
(* What NodePublishVolume relies on when it calls NarCache::ensure_cached: *)
(* a path once cached stays, a path is only added for a request that asked *)
(* for it, and a request answered Ok finds every path it asked for.        *)
(*                                                                         *)
(* There is no eviction here because cache.rs has none.  The docs describe *)
(* one ("LRU garbage collection", csi-driver.md; "Evict and re-fetch",     *)
(* resilience.md), config.rs has its watermarks and its interval, and      *)
(* nothing reads them: `have` shrinks by no action, and the disk that      *)
(* fills up is never given back.                                           *)
(***************************************************************************)
EXTENDS Sequences

CONSTANTS Requests, Paths

VARIABLES
  have,    \* store paths present in the cache directory
  asked,   \* the closure each request waits for
  answer   \* "none", "wait", "ok" or "err"

storeVars == <<have, asked, answer>>

Answers == {"none", "wait", "ok", "err"}

Init ==
  /\ have = {}
  /\ asked = [r \in Requests |-> {}]
  /\ answer = [r \in Requests |-> "none"]

Ask(r, paths) ==
  /\ answer[r] = "none"
  /\ asked' = [asked EXCEPT ![r] = paths]
  /\ answer' = [answer EXCEPT ![r] = "wait"]
  /\ UNCHANGED have

Store(r, p) ==
  /\ answer[r] = "wait" /\ p \in asked[r] \ have
  /\ have' = have \cup {p}
  /\ UNCHANGED <<asked, answer>>

Succeed(r) ==
  /\ answer[r] = "wait" /\ asked[r] \subseteq have
  /\ answer' = [answer EXCEPT ![r] = "ok"]
  /\ UNCHANGED <<have, asked>>

Refuse(r) ==
  /\ answer[r] = "wait"
  /\ answer' = [answer EXCEPT ![r] = "err"]
  /\ UNCHANGED <<have, asked>>

(* The answer is consumed, or the caller's future is dropped. *)
Close(r) ==
  /\ answer[r] # "none"
  /\ asked' = [asked EXCEPT ![r] = {}]
  /\ answer' = [answer EXCEPT ![r] = "none"]
  /\ UNCHANGED have

(* The driver restarts: every request is gone, the directory is not. *)
CloseAll ==
  /\ asked' = [r \in Requests |-> {}]
  /\ answer' = [r \in Requests |-> "none"]
  /\ UNCHANGED have

Next ==
  \/ \E r \in Requests : \/ \E paths \in SUBSET Paths : Ask(r, paths)
                         \/ \E p \in Paths : Store(r, p)
                         \/ Succeed(r) \/ Refuse(r) \/ Close(r)
  \/ CloseAll

Spec == Init /\ [][Next]_storeVars

=============================================================================
