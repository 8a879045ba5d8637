# niphas in TLA+

niphas deploys Nix flakes on Kubernetes. A user writes a `NiphasWorkload`; the
operator has its flake evaluated to a store path, resolves the path's closure and
applies a Deployment whose pods mount the closure through a CSI volume; the CSI
driver on each node fetches the closure from binary caches and bind-mounts it
read-only. This directory models the parts of that system that keep state and meet
concurrency and failure, and the readers everything rests on; it model-checks them
with TLC on small instances, and proves the results that matter most with TLAPS for
every instance.

`PROJECT.json` holds the same project in tables: components, runs, mutants (one
plausible bug per checked property, which TLC must catch), the map from definitions
to source lines, hazards, findings and theorems.

## 1. Inventory

| Part (crate) | State | Operations | Talks to |
|---|---|---|---|
| reconcile loop (`niphas-operator`, `reconciler.rs`, `eval.rs`) | none of its own: the object's status and finalizers | `reconcile`, `add_finalizer`, `remove_finalizer`, `handle_deletion`, `set_phase`, `set_failed`, `update_status`, `call_eval_webhook` | API server (reads a reflector copy, writes by PATCH), eval webhook |
| child resources (`resources.rs`) | Deployment, Service, Ingress, PodDisruptionBudget | server-side apply, in this order | API server; the collector deletes them with their owner |
| leader election (`main.rs`) | the lease; `consecutive_failures`; the shutdown token | acquire, retry, renew, shut down | API server; starts and stops the reconcile loop |
| closure resolution (`niphas-core`, `nix/closure.rs`) | queue, visited set, fetches in flight | one resolution per call | binary caches |
| cache client (`nix/cache_client.rs`) | list of caches by priority | fetch narinfo, fetch NAR | HTTP |
| NAR parser (`nix/nar.rs`) | depth, hash and call stack while it reads | `parse` | the stream of an archive |
| narinfo, hashes, store paths, signatures (`nix/`) | none | pure parsing and arithmetic | |
| NAR cache (`niphas-csi`, `cache.rs`) | directory on the node, `.tmp-` directories, a lock per path | `ensure_cached`, `fetch_and_extract`, `cleanup_temp_dirs` | cache client, file system |
| node service (`node.rs`, `mount.rs`) | the node's mount table and target directories | `NodePublishVolume`, `NodeUnpublishVolume` | kubelet (gRPC), NAR cache, kernel |
| eval webhook (`niphas-eval`) | `warm`; the nix processes it started | validators, allowlist, `nix eval`, closure resolution | operator, nix, caches |
| configuration (`config.rs`) | none | `load`, `load_or_default` | files, environment |
| health endpoints, identity service, telemetry, mesh stub | a flag, constants | | |

**What is hard.** Everything the operator decides it decides from a copy that may lag
behind its own writes, and each of its awaited calls can fail before or after it took
effect; a crash can fall between any two. Two operators may run at once when a lease
is lost. Answers of concurrent fetches come in any order. Requests race for the same
cache path, are dropped at an await, or die with the driver and leave files behind.
The kubelet retries calls that still run. System calls fail, some of them where nobody
looks at the result. A timeout of the operator drops an
evaluation whose nix process runs on. The parser meets whatever bytes a cache serves.
The 40 entries under `hazards` give the line
where each of these bites and the property that would catch it.

**What makes each part correct.** The status tells the truth about generation, store
path and children, never goes backwards, and deletion and readiness are reached in the
end; children are only written under the operator's finalizer. One leader at a time
within the lease's margin, and a standby takes over. A resolved closure is exactly
the closure. A path visible in the cache is a whole verified archive, fetched by one
request, and every request ends. A volume reported published is mounted, complete and
read-only, one reported gone is gone, every deleted pod's volume gets cleaned, and a
pod whose volume carries what the driver needs gets it, unless the cache refuses it. A flake that fits its timeout
is evaluated. Each reader accepts the language it is meant for, and returns what was
written.

## 2. Modules

| Module | Models | State and actions |
|---|---|---|
| `Reconciler` | `reconciler.rs`, `eval.rs`, the control of `resources.rs` | `workload`, `specs` (one per generation), `children` (generation each child was built from), `image`, `readyPods`; per operator the reflector copy `cached`, the queue flag, `pc`, and the locals `snap`, `found`, `todo`, `ready`. One action per awaited call, named after the function |
| `LeaderElection` | the lease loop of `main.rs` | lease `holder` and `age`; per process `pc`, `timer`, `reply`, `fails`; `Tick` passes a unit of time |
| `ClosureService` | what `resolve_closure` promises | one step to the closure or to an error |
| `Closure` | `closure.rs` | `queue`, `visited`, `inflight`, `order`; the loop's branches are the actions |
| `CacheStore` | what `ensure_cached` promises its caller | `have`, `asked`, `answer` |
| `NarCache` | `cache.rs` | directories `final` and `tmp`, the path locks `holder`, and the progress of each request; each await and each system call that matters is an action |
| `NodeService` | `node.rs`, `mount.rs`, over `CacheStore`; the volume attributes of `resources.rs` | mount stacks, target directories, handlers, the kubelet's view (`live`, `pod`, `published`), the paths the cache refuses for good (`unreadable`) or until a restart (`leftover`), and per target how often an error was not looked at (`ignored`, a history variable) |
| `EvalService` | `call_eval_webhook` of the operator and the pipeline of `niphas-eval` | per workload the operator's `call` and its clock, the `handler` and its clock, the nix processes without a handler (`orphans`); `Tick` passes a unit of time |
| `NarParser` | `nar.rs` | strings `read`, what is `expect`ed next, the `stack` of open directories, the last `node`, `result`; a read is a step |
| `NarGrammar` | the format `NarParser` is measured by | `Archive`, the documented format, and `Wire`, the stream the code takes: from trees to strings |
| `Base32`, `Admission`, `CacheClient`, `Config` | `hash.rs` and `store_path.rs`; `eval.rs` (core) and `allowlist.rs`; `cache_client.rs` and `narinfo.rs`; `config.rs` | operators (loops are recursive functions), with the reference definitions they are compared with |
| `Readers` | a reader with its input | `subject`, `input`, `pattern`: any reader and any input of its type; what each reader promises |
| `Formats` | all readers on TLC's samples | the same state and the parser's; a step gives a reader one more symbol |
| `MC*` | constants of the TLC instances | |
| `ReconcilerProofs`, `LeaderElectionProofs`, `ClosureProofs`, `NarCacheProofs`, `NodeServiceProofs`, `EvalServiceProofs`, `NarParserProofs`, `ReaderProofs` | theorems about the module of their name (`NarParserProofs`: with `NarGrammar`; `ReaderProofs`: about `Readers`) | |

Composition: `NodeService` INSTANCEs `CacheStore`, which `NarCache` is shown to
implement (`ImplementsStore`, checked and proved), so the node service is checked against the cache's
promise and the cache against the same promise. `Closure` implements `ClosureService`
(`ImplementsService`, checked and proved). `LeaderElection` says when two operators
can run at once; `Reconciler` with two operators says what then happens. The operator's
`VolumeAttributes` and the driver's `PublishCheck` meet in `NodeService`: one of its two
volumes is a pod's of the Deployment the operator writes. `EvalService` takes the
operator's call and the webhook's handler together; `Reconciler` sees only its answer.

Names ending in `_Something` preceded by the word "Mutant" are deliberately wrong
variants of the definition after them; no specification uses them.

### Abstractions

* **Reconciler.** One workload, which is created once. A spec is a flake, a replica
  count and the optional children it asks for; `Build` gives the path a flake evaluates
  to, or none. Events, condition texts and manifest fields are left out. Nobody but the
  operator and the collector changes a child, and a write never takes effect after the
  crash of its sender. Pod counts do not tell old from new pods. `OwnedEvent` is
  restricted to an idle operator: the queue flag is not read while `reconcile` runs.
* **LeaderElection.** Times are whole units, the same for everybody (no clock skew);
  delays of scheduling count as part of a call (`MaxCall`; the call itself has no
  timeout in `main.rs`, so the constant stands for the client's). `since` is a history
  variable. A killed process's request does not take effect afterwards. The ready flag
  is left out.
* **Closure.** A narinfo whose references do not parse is a failed fetch. The clock is
  a nondeterministic choice at the loop's head, where the code reads it.
* **NarCache.** Archives are a root type, a list of entry names and whether there is a
  closing token too many (which the parser requires of directories, section 5); an
  archive that repeats a name does not parse, and of the order of names no more is kept. The
  narinfo and the bytes may come from different caches with different builds: FileHash
  and NarHash are compared as builds. Sub-directories count as their files. A write that
  fails on a full disk may leave a truncated file, which is of no build. Errors of
  `remove_dir_all`, which the code ignores, are left out.
* **NodeService.** Every system call may fail. Three failures the code takes for an
  answer or drops, and goes on: reading mountinfo (`Looks`), the `umount2` that undoes a
  bind (`UndoBind`), and `remove_dir` (`CleanupTarget`). `ignored` counts them per target,
  so that a property can say what it is worth without them. Of the cache there is
  `CacheStore`, with the refusals that `NarCache` has: `unreadable` paths, chosen at the
  start, are refused at every request (a root that is a file, an archive the parser
  refuses), and a fault may put a path into `leftover`, where it stays refused until the
  driver restarts. A call that is outlived by its
  deadline while it makes system calls runs to its end; one that awaits the cache is
  dropped. `volume_context` is fixed per target; `binaryCacheUrl`, which the
  code passes on and ignores, is left out.
* **EvalService.** Time is in ticks, and what is due in a tick happens in it, in any
  order. A flake is its admission, the least and the most ticks nix takes, what nix prints
  and the least and the most ticks its closure takes (`Span`): each attempt takes any time
  in between, as the evaluation cache of `eval.md` fills and empties. The closure's own
  deadline is read before a batch, so once it has passed `resolve_closure` may fail or
  still complete. Workloads have no store path yet (one
  that has one is not evaluated again after an error, finding 1). A process that lost
  its handler ends by itself; it has nobody to write to, which shortens its life at most.
* **NarParser.** Strings are whole: an over-long length, padding that is not zero, the
  end of the stream and a string that is not UTF-8 are one failing read (`ReadFails`).
  Every other string is a word of the format, a name or a payload. A call stack of
  directories stands for the recursion; the depth is its height.
* **Base32, Admission, CacheClient, Config.** A character of the base-32 alphabet is its
  value. A name is a sequence of bytes where the code slices by bytes (`parse_basename`),
  with a character of two bytes among them. Validators see one character of each class they tell apart. A cache is its
  priority and its answer, a narinfo line a key and a good, bad or empty value. Three
  settings stand for all of them: one a file may set or misspell, one of two words that
  the environment tries to name, and a nested one.

## 3. Runs

Bounds are named constants (`Max...`) that occur only in guards of environment actions
and faults, so they cut the number of disturbances, never what the code does next.

| Run | Instance | Shows |
|---|---|---|
| `reconciler_safety` | 1 operator; 3 specs (one never evaluates, one asks for all four children); 1 edit, fault, crash, foreign finalizer, deletion at any time; 4.2 M states | `FreshUnlessFailed`, `RunningMatchesChildren`, `ObservedMonotone`, `AppliesUnderFinalizer`, `SeenFinalizersKept` |
| `reconciler_live` | 1 operator, 1 edit, fault, pod loss | `DeletionReleased`, `ReachesRunning` under fairness |
| `reconciler_stale` | no faults | violation of `RunningDeploysItsSpec` |
| `reconciler_dual` | 2 operators, 1 edit, 1 crash | violation of `QuietMeansConsistent` |
| `leader` | 2 processes, unit 2.5 s: TTL 6, interval 2, 3 failures, calls up to 1 unit; 3 errors, 1 kill; 93 k states | `LeaderRenewed`, `OneLeader`, `StandbyTakesOver` |
| `closure` | every reference graph on 3 paths (512, cycles and self references too), concurrency 0 to 3 | `ResultIsClosure`, `FetchedOnce`, `BoundedFetches`, `ImplementsService`, `Terminates` |
| `narcache` | 2 requests, 4 paths, 6 archives (two builds of one path and a third that names an entry twice, an empty directory, one the parser refuses, one whose root is a file), closures in opposite orders; 1 fault, full disk, restart; 317 k states | `CachedIsWhole`, `NoDuplicateFetch`, `RequestEnds`, `ImplementsStore` |
| `narcache_leftover` | a full disk | violation of `OnlyVerifiedContent` |
| `node_service` | 2 calls, 2 volumes (one with both attributes, one as the operator writes it), every set of paths the cache refuses for good; 2 faults (failed system calls, checked or ignored, and cache requests that fail or are dropped), 1 crash, 1 outlived call; 174 k states | `PublishedIsUsable`, `PublishedIsReadOnly`, `MountsBounded`, `CleanedIsGone`, `EventuallyCleaned`, `CompleteGetPublished` |
| `node_deploy` | the same volumes, no faults at all | violation of `EveryPodStarts` |
| `eval_service` | 2 workloads, 7 flakes (fits; fits when the evaluation cache is warm; never fits although each half does; nix fails, prints no path, outlives its timeout; refused), timeout 4, closure timeout 2, requests up to 1 tick under way, 1 failed closure, 1 restart of each side; 743 k states | `ProcessesBounded`, `DoneOnlyIfBothFit`, `EventuallyEvaluated` |
| `formats` | streams of up to 40 strings, depth 2, 6 names; 5 bytes, 8 characters; 4-symbol texts and patterns; 5-symbol references and attributes; revisions of 0 to 42 characters; up to 3 caches; narinfo files of all or all but one required line and up to two more; two files and the environment; 720 k states | the readers' 11 properties, below |

**The readers.** `AcceptedIsArchive`: an accepted stream is exactly the `Wire` of the
tree returned, and the tree is safe to extract; that is the archive for a file or a link,
and the archive with one `)` more for a directory. `RefusedIsNoArchive`: nothing that an
archive (of the documented format) may start with is refused. Together they say where the
parser leaves the format: at the end of a root directory and nowhere else.
`OpenSorted`: the directories still open are safe to extract too.
`EncodedIsTheBits`, `DecodedIsTheBits`: both directions of base-32 keep bit `n` at bit
`n`, and text of every length that an encoding can have decodes; nothing is asked at the
lengths 1, 3, 6 modulo 8, where the code panics. `BasenamePrintsBack`: exactly the proper
store path names parse, they print back as they were, and a panic needs a character that
lies across the hash's end. `GlobIsItsLanguage`: what the allowlist's comment describes is
accepted, and what is accepted lies along the pattern, `*` covering `/` as well; the two
bounds meet on texts without `/`. `ValidatorsKeepTheirGrammar`: the loops accept what
their grammars say. `FirstSuccessDecides`: the fallback between caches. `NarInfoIsItsLines`: a field is
what its last line says, an empty value never reads. `ConfigAllOrNothing`: the highest
layer decides each setting, and one bad value undoes them all.

**Why the bounds are enough.** One edit already makes a stale and a current
generation; one fault already separates "refused", "lost" and "answer lost" for every
call; a crash can fall at every point. Three paths give chains, diamonds, cycles and
self references, and concurrency 0 to 3 covers the empty, partial and full batch. Two
requests with closures in opposite orders are what a lock cycle needs; two builds of
one path are what a mixed directory needs. The lease instance has the ratio of the
real constants (15 s, 5 s, 3), calls of up to half an interval, and more errors than
the TTL can take. Two failed system calls are what a failed
remount with a failed undo needs. A nix process of 7 ticks outlives its request of 4 and
meets the one of the next, which is what a pile of processes needs. Base-32 repeats after 8 characters and 5 bytes; the samples
have every length up to there. The hash of a store path has 8 characters instead of 32;
both fill whole bytes. Depth 2 has a directory at the root, one inside and one refused;
five symbols hold an empty segment at the start, in the middle and at the end.

Runs that may really stop say `CHECK_DEADLOCK FALSE`: a resolution returns, a workload
is deleted for good, a cleaned volume is not asked about again, an input is read to its
end. `narcache`, `leader` and `eval_service` are checked for deadlock.

**Fairness.** `Reconciler`: weak fairness of each operator's steps (kube-rs runs what
is queued and error results requeue; HTTP calls return), of watch events, of the
collector and of pods starting and stopping; never of users, faults or crashes.
`Closure`: weak fairness of the whole (every fetch has the HTTP client's timeout, and
the loop reads the clock). `NarCache`: weak fairness of a request's steps, and strong
fairness of taking the lock, because a tokio `Mutex` queues its waiters in order.
`NodeService`: weak fairness of handlers; strong fairness of the kubelet's publish and
unpublish, which it repeats until they are answered Ok. Nothing is assumed of the
cache's answers: `CompleteGetPublished` excepts the paths it refuses for good or until a
restart. `EvalService`: time passes, and
a reconcile that is due posts its request (kube-rs requeues); never faults or restarts. `LeaderElection`: time passes and calls
return; a process that is down may stay down for ever, so `StandbyTakesOver` does not
rest on the old leader's return.

**What is learnt about the lease.** `OneLeader` states the exact margin: after `f`
errors two controllers cannot run at once if
`(f+1) * Interval + (f+2) * MaxCall < TTL`; replacing `<` by `<=` makes TLC find two
leaders (for TTL 4 and 7 in the units of the run). With 15 s and 5 s this asks for calls below 5 s without
errors and below 1.67 s after one error, and nothing suffices after two, although
three errors are allowed. `LeaderRenewed` bounds how long the overlap can last.

## 4. Proofs

The theorems hold for every value of the constants that satisfies the named `ASSUME`s
(types, non-emptiness, `NoPath`, `NoProcess`, `NoCall` outside their sets, finite
`Paths`), which TLC evaluates on every run. The numbers of faults, edits, crashes and
restarts are among these constants, so a theorem bounds none of them.

Each proof has the same layout: the inductive invariant (`IInv`, a conjunction of named
parts), lemmas about the operators and data it needs, one lemma per action or group of
actions, `NextIInv`, the theorem `Spec => []IInv`, and the properties as its
consequences. TLC checks these invariants too, on instances like those of section 3 (of
`NarParserProofs` only `StackInv`: the others speak of unbounded sets of trees and of
strings).

* **`ReconcilerProofs`** - `FreshTheorem : Spec => []FreshUnlessFailed`, for any number
  of operators. The property alone is not inductive: a status is written from a
  snapshot, so `IInv` says of *every version of the object in sight* (live, reflector
  copy, snapshot) that its generation exists and that an observed generation that
  never failed comes with its own spec's path (`Sane`), and that an operator past the
  evaluation carries the path of its snapshot's generation (`LocalAt`) unless that
  generation has failed. Specs are only appended and failures only added, so a sane
  version stays sane (`SaneGrows`); that is why stale copies do no harm here.
  `TypeCorrect` follows from the same invariant. `SeenFinalizersTheorem` is an action
  property: the list an operator writes is its snapshot's, with its own finalizer put in
  or taken out, and no step of one operator moves another's `pc`.
  `RunningTheorem`, `ObservedTheorem` and `AppliesTheorem` carry the hypothesis
  `SoleOperator` (any two operators are the same one). Leader
  election is in the code to provide it, and `OneLeaderTheorem` says when it does;
  `reconciler_dual` shows that nothing of the kind holds without it. The properties
  compare the object with what was decided from an old copy, so the invariant orders
  the copies. `OrderOK`: observed generation, then snapshot, then reflector copy (a
  write of a snapshot's generation then never goes back). `MarkedOK` and `HeldOK`: the
  finalizer is removed only after the *reflector* has seen the deletion, so a copy
  that is not marked for deletion and has the finalizer is right about it, and an
  operator at work holds it. `WrittenOK`: while children are applied the phase is not
  Running, and those already applied are from the snapshot; it makes the last write,
  which sets Running, true.
* **`LeaderElectionProofs`** - `LeaderRenewedTheorem` and `OneLeaderTheorem`. `Timing`
  bounds the age of a leader's lease by the budget `MaxCall + n * (Interval + MaxCall)`
  of the `n` errors it has met, at each place of the loop; `Owns` says that who took
  the lease less than a TTL ago still holds it, with the lease exactly as old as the
  process's own measure. `Owns` cannot be kept without `Timing` (the clocks are
  capped), and exclusion follows from both.
* **`ClosureProofs`** - `ResultIsClosureTheorem`, `FetchedOnceTheorem`, `Refinement
  : Spec => ImplementsService` and `BoundedFetchesTheorem`. The invariant: what was
  visited is exactly what is in flight or answered; references of answered paths are
  visited or queued; everything seen lies in every closed set that holds the root;
  `order` has no repetitions and is disjoint from `inflight`. At the empty queue with
  nothing in flight this gives closedness and minimality. The bound on fetches adds only
  that the first `n` places of a queue hold at most `n` paths (`BatchBound`).
* **`NarCacheProofs`** - `NoDuplicateFetchTheorem`, `CachedIsWholeTheorem`, `Refinement :
  Spec => ImplementsStore`. `RequestOK` ties each place of the code to the lock: from the
  second look on, the request holds its path's lock and the path is not there. What it
  has extracted is in the temporary directory (`Written`); that nothing else is
  there needs `NoLeftovers`, that every entry of a temporary directory was put there by a
  request still extracting, which holds until a write fails. `ClosureOK` (a path of the
  closure is there or still to do) carries the refinement. An archive that names an entry
  twice would make a symlink's second creation fail with the first in place and no write
  failed: the proof found that, the parser refuses such archives, and `Parses` now says so.
* **`NodeServiceProofs`** - `MountsBoundedTheorem`, `PublishedIsUsableTheorem`,
  `PublishedIsReadOnlyTheorem`, `CleanedIsGoneTheorem`. A bound on the mounts alone is
  not inductive, since a handler mounts long after its check: `RoomOK` counts a target's
  mounts *and* the handlers between their check and their mount, and keeps the sum within
  `1 + late` and the looks at mountinfo that failed (`Blind`). For that a second handler
  needs a missed deadline of its own: `OutlivedOK` counts the handlers the kubelet gave up
  by `late`. `QuietOK` says what is exact while there is none: a handler has its target for
  itself (`AloneOK`, more of it while no mount was missed), and what the kubelet was told
  is so (`ToldOK`). Read-only needs one more part, that without a failed undo the first
  mount of a target is read-only or a handler is still between bind and remount.
* **`EvalServiceProofs`** - `DoneTheorem` and `ProcessesTheorem`. `ClockOK`: the request's
  clock covers what its handler spent on nix, at least the flake's least, and on the closure,
  hence the fastest of both fit when an answer arrives in time. Orphans may end in any order
  (`Removed`), each at any age in its span. The bound on processes comes from their spacing. `SpacedOK`:
  an orphan is as old as one timeout for each process started after it, but for those an
  operator restart cut short and the time a request is under way; `AgesOK`: none is older
  than its longest life. Both at the oldest orphan give the quotient of `ProcessesBounded`.
* **`NarParserProofs`** - for every stream, set of names and payloads, order of the names
  and `max_depth`, in three layers.
  1. `OpenSortedTheorem`. That entries ascend is only known of a directory *between* two
     entries by looking at its `last_name`; all outer directories wait for a child that
     will be appended later. `StackInv` therefore tells `Settled` from `Pending` (the name
     being read is already `last_name`, above all entries) and lets only the innermost one
     be settled, so that a returned child can be appended whatever was read in between.
  2. `AcceptedTheorem : Spec => []AcceptedIsArchive`. The property speaks of the last
     string only. `ArchiveInv` says at every string what has been read: the magic string,
     for each open directory the strings of the entries it has and the head of the one
     being read (`pre`, `Directories`), and then what the place in the code says of the
     node (`InNode`) or of the next entry (`InDirectory`). A closing token turns the
     strings of a directory into those of one more entry of the directory around it
     (`DirectoryCloses`, `EntryEnds`).
  3. `RefusesNoneTheorem` (of archives) and `AcceptsAllTheorem` (of `Wire`), about *every*
     safe tree; the property `RefusedIsNoArchive`, which TLC can only check of a sample of
     trees, is a corollary (`RefusedTheorem`). They look the other way:
     `ForetoldInv` says that whenever what has been read begins some tree's `Wire`, the
     strings to come (`ToCome`) are those of the rest of the node, the entries left in each
     open directory (`rem`, all with names above its `last_name`) and the ends of the
     directories (`tail`). So the next string is the one the code wants, and while the code
     reads on there is one. No argument that the grammar is unambiguous is needed, since
     the rest is followed string by string. Layers 2 and 3 together: the streams `parse`
     accepts are exactly the `Wire`s of safe trees. An archive begins a `Wire`
     (`ArchiveBegins`), so none of its strings is refused; but a directory's ends one `)`
     before the parser has what it wants, and no directory is accepted in the documented
     format (finding 5).
* **`ReaderProofs`** - the eight reader properties, one theorem each, for every input of the
  reader's type (`Inputs`: byte strings, texts, patterns, lists of lines or caches, and
  layers of any length and content) rather than TLC's samples: `EncodedTheorem`,
  `DecodedTheorem`, `BasenameTheorem`, `GlobTheorem`, `ValidatorsTheorem`,
  `FirstSuccessTheorem`, `NarInfoTheorem`, `ConfigTheorem`. `ReadersSpec` lets the
  input be anything at any time, so what carries the proofs is induction over the loops
  and not over steps. `LeastOf` takes it from the library's well-foundedness of the
  naturals (as the least counterexample), `ByInduction` and `Iterate` give it the form the
  proofs use; that a recursive function has the values its definition says is shown the
  same way. Loop invariants: in base-32, the bits placed before a turn stay where they are,
  through the masking of a byte's two halves; in the glob, that the last
  `k` characters of the pattern match from a position exactly when they can be laid along
  the text from there (`GlobWalls` then compares the two readings of `*`); in the narinfo, each field
  is that of the last line read with its key.

Only model-checked: all liveness (`DeletionReleased`, `ReachesRunning`, `Terminates`,
`RequestEnds`, `EventuallyCleaned`, `CompleteGetPublished`, `EventuallyEvaluated`,
`StandbyTakesOver`), which is out of the proof system's reach. Every safety property a
passing run checks has its theorem.

## 5. Where code and documentation disagree

`findings` quotes the lines. Four runs exhibit a disagreement as a violation:

1. A failed evaluation records the new generation but keeps the old store path; the
   retry trusts it and reports the new generation Running on the old build
   (`reconciler_stale`).
2. Two leaders with different snapshots can leave children and status of different
   generations, and neither sees work left (`reconciler_dual`).
3. A failed extraction leaves its temporary directory; a retry may rename it with files
   of two builds (`narcache_leftover`). With a symlink in it the retry fails until the
   driver restarts.
4. The pods of a Deployment the operator writes never get their volume: its
   `volumeAttributes` lack the `storePath` that the driver requires (`node_deploy`).

In seven more the property states what the code does, with the documented claim as far as
it is true, and the exception named; of 5 to 10 TLC finds the counterexample as soon as
the exception is taken out of the property:

5. An archive whose root is a directory, as most store paths' is, is accepted only with one
   `)` more than the format has (`nar.rs:150` against `nar.rs:133`), and what follows an
   archive is not looked at (`nix-wire.md:34`): `Wire` is not `Archive` in
   `AcceptedIsArchive`.
6. A failing `umount2` after a failed remount, or a crash between the two mount calls,
   leaves a writable mount that the retry reports published (`resilience.md:77`, "Never
   leaves a partial mount — operations are atomic"): the exceptions of
   `PublishedIsReadOnly`.
7. An unreadable mountinfo counts as "not mounted" (`mount.rs:28`): an unpublish is
   answered Ok over a mount, a repeated publish mounts twice. `CleanedIsGone` and
   `MountsBounded` count these reads.
8. `from_nix_base32` panics at lengths 1, 3 and 6 modulo 8 (`hash.rs:76`; `testing.md:73`,
   "No-panic"): `DecodedIsTheBits` leaves them out.
9. `parse_basename` panics on a character that lies across byte 32 (`store_path.rs:44`;
   the same line of `testing.md`): `BasenamePrintsBack`.
10. `*` crosses `/` (`allowlist.rs:6` says it does not): the two bounds of
    `GlobIsItsLanguage`.
11. There is no garbage collection (`csi-driver.md:65`, `mesh-protocol.md:82`,
    `resilience.md:101`; `config.rs:86` has its watermarks, which nothing reads).
    `CacheStore` promises that a cached path stays because no code removes one, and
    `ImplementsStore` shows that; a collector would have to weaken the promise and to
    spare what is mounted. `CompleteGetPublished` and `PublishedIsUsable` rest on it.

Others are part of what the modules say:

* A finalizer added after the operator's snapshot is dropped (`reconciler.rs:208`,
  "without clobbering existing ones"): `SeenFinalizersKept` speaks of the seen ones only.
* An outlived publish can mount after the unpublish of its target was answered
  (`csi-driver.md:40`): `CleanedIsGone` and `MountsBounded` count such calls.
* A narinfo whose `References` are empty is refused, the line being trimmed before it is
  split at ": " (`narinfo.rs:82`; `Malformed` in `CacheClient`).
* Of several caches, "not cached" only means that the last one answered 404; a success
  with an unreadable body ends the search.
* The file at `/etc/niphas/config.yaml` overrides the one given to `load`, which its
  comment does not mention, and the environment can name no setting of two words. The
  chart's configmap writes names in snake case, which the camel-case settings do not
  have: the values are ignored, and an empty allowlist denies everything.
* `StorePathNotCached` is never returned by the evaluator (`eval.md:51`): every error of
  the closure is `ClosureResolutionFailed`.
* The evaluation and the closure share one timeout of the operator's request, which is
  the timeout of nix alone; a dropped evaluation leaves its nix process running.

Met while reading, without a model: `readyReplicas` counts pods of the old rollout
(`reconciler.rs:146`, `deploy-flow.md:86`); `closure.rs:16` says "topologically sorted"
of an order of arrival; children that are dropped from a spec are never removed; a
reconcile that starts before the watch delivers the last status write sets Provisioning
once more; the requeue of 30 s after an error is overtaken by the watch event of the
status write itself; `/readyz` of the webhook is only true after a first success.

## 6. Not modelled, and the plan

Not modelled: health endpoints, identity RPCs, telemetry and the mesh stub (no state the
properties speak of); signatures and the fingerprint (`verify_narinfo` is not called on
the driver's path, and cryptography is out of reach); the duration format of the
configuration; the manifests' fields that nothing else reads; pods per image during a
rollout, which belong to Kubernetes' own controllers; test code.

What is left:

1. Liveness is model-checked only (section 4).
2. `OneLeader` and `SoleOperator` are stated in two modules; a module that composes both
   would let the operators' set be the leaders of the moment, and turn the hypothesis of
   the theorems about a single operator into the margin of `OneLeaderTheorem`.
3. That two trees never have the same archive follows from no theorem: `AcceptedTheorem`
   says that the tree returned has the archive read, not that no other tree has.
