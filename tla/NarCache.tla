------------------------------ MODULE NarCache ------------------------------
(***************************************************************************)
(* The node-local NAR cache of niphas-csi (crates/niphas-csi/src/cache.rs):*)
(* ensure_cached called by several requests at once, the per-path lock,    *)
(* fetch_and_extract with its ".tmp-" directory and rename, dropped        *)
(* requests, and restarts of the driver that clean the cache directory.    *)
(***************************************************************************)
EXTENDS Naturals, Sequences, SequencesExt

CONSTANTS
  Requests,     \* concurrent calls of ensure_cached
  Paths,        \* store path basenames
  Closures,     \* the closurePaths a request may carry
  Builds,       \* archives the binary caches hold
  NoBuild,
  Served,       \* path -> builds some cache serves for it
  Archive,      \* build -> [root, surplus, entries], see ArchiveType
  Symlinks,     \* the entry names that are symbolic links
  NoRequest,
  MaxFaults,    \* bound: failed fetches, hash mismatches, failed file calls
  MaxFull,      \* bound: a write of extract_node fails (disk full)
  MaxCrashes    \* bound: restarts of the driver

(***************************************************************************)
(* entries are the names below the root, in order (sub-directories count   *)
(* as the files in them).  surplus: one ")" more than the format has.      *)
(***************************************************************************)
ArchiveType == [root : {"directory", "regular", "symlink"},
                surplus : BOOLEAN, entries : Seq(STRING)]

ASSUME ClosuresAssumption == Closures \subseteq Seq(Paths)
ASSUME ServedAssumption   == Served \in [Paths -> SUBSET Builds]
ASSUME ArchiveAssumption  == \A b \in Builds : Archive[b] \in ArchiveType
ASSUME CacheAssumption    == NoBuild \notin Builds /\ NoRequest \notin Requests
ASSUME CacheBounds        == MaxFaults \in Nat /\ MaxFull \in Nat /\ MaxCrashes \in Nat

VARIABLES
  final,     \* path -> the directory <cache>/<basename>
  tmp,       \* path -> the directory <cache>/.tmp-<basename>-<pid>
  holder,    \* path -> request that holds its lock
  pc, todo, asked,
  build,     \* request -> build its narinfo names
  bytes,     \* request -> build whose archive it was given
  at,        \* request -> next entry extract_node writes
  faults, full, crashes

requestVars == <<pc, todo, asked, build, bytes, at>>
vars == <<final, tmp, holder, requestVars, faults, full, crashes>>

(* A directory of the cache: the entries in it, each with its build. *)
Absent == [there |-> FALSE, entries |-> {}]
Dir(entries) == [there |-> TRUE, entries |-> entries]
Put(d, name, b) == Dir({e \in d.entries : e.name # name} \cup {[name |-> name, build |-> b]})
Whole(b) == Dir({[name |-> n, build |-> b] : n \in ToSet(Archive[b].entries)})

Writing == {"parse", "extract", "rename"}
Locked  == {"narinfo", "nar", "unpack", "mkdir"} \cup Writing
Working == {"probe", "lock"} \cup Locked
PCs     == {"idle", "ok", "err"} \cup Working

Init ==
  /\ final = [p \in Paths |-> Absent]
  /\ tmp = [p \in Paths |-> Absent]
  /\ holder = [p \in Paths |-> NoRequest]
  /\ pc = [r \in Requests |-> "idle"]
  /\ todo = [r \in Requests |-> <<>>]
  /\ asked = [r \in Requests |-> {}]
  /\ build = [r \in Requests |-> NoBuild]
  /\ bytes = [r \in Requests |-> NoBuild]
  /\ at = [r \in Requests |-> 1]
  /\ faults = 0 /\ full = 0 /\ crashes = 0

-----------------------------------------------------------------------------
(* ensure_cached *)

Fault == faults < MaxFaults /\ faults' = faults + 1

Current(r) == Head(todo[r])

Goto(r, label) ==
  /\ pc' = [pc EXCEPT ![r] = label]
  /\ UNCHANGED <<todo, asked>>

Unlock(r) == holder' = [p \in Paths |-> IF holder[p] = r THEN NoRequest ELSE holder[p]]

(* The loop's `continue`, or its body's end: the guard goes out of scope. *)
NextPath(r) ==
  /\ pc' = [pc EXCEPT ![r] = "probe"]
  /\ todo' = [todo EXCEPT ![r] = Tail(@)]
  /\ build' = [build EXCEPT ![r] = NoBuild]
  /\ bytes' = [bytes EXCEPT ![r] = NoBuild]
  /\ at' = [at EXCEPT ![r] = 1]
  /\ Unlock(r)
  /\ UNCHANGED asked

(* Mutant: the lock survives an error. *)
Fail_KeepsLock(r) ==
  /\ Goto(r, "err")
  /\ build' = [build EXCEPT ![r] = NoBuild]
  /\ bytes' = [bytes EXCEPT ![r] = NoBuild]
  /\ at' = [at EXCEPT ![r] = 1]
  /\ UNCHANGED holder

(* `?`: the error leaves ensure_cached and drops the guard. *)
Fail(r) ==
  /\ Goto(r, "err")
  /\ build' = [build EXCEPT ![r] = NoBuild]
  /\ bytes' = [bytes EXCEPT ![r] = NoBuild]
  /\ at' = [at EXCEPT ![r] = 1]
  /\ Unlock(r)

Begin(r, closure) ==
  /\ pc[r] = "idle"
  /\ pc' = [pc EXCEPT ![r] = "probe"]
  /\ todo' = [todo EXCEPT ![r] = closure]
  /\ asked' = [asked EXCEPT ![r] = ToSet(closure)]
  /\ UNCHANGED <<final, tmp, holder, build, bytes, at, faults, full, crashes>>

(* is_cached, before any lock. *)
Probe(r) ==
  /\ pc[r] = "probe" /\ todo[r] # <<>>
  /\ \/ final[Current(r)].there /\ NextPath(r)
     \/ ~final[Current(r)].there /\ Goto(r, "lock") /\ UNCHANGED <<holder, build, bytes, at>>
  /\ UNCHANGED <<final, tmp, faults, full, crashes>>

Finish(r) ==
  /\ pc[r] = "probe" /\ todo[r] = <<>>
  /\ Goto(r, "ok")
  /\ UNCHANGED <<final, tmp, holder, build, bytes, at, faults, full, crashes>>

(* Mutant: no second look under the lock. *)
Acquire_NoRecheck(r) ==
  LET p == Current(r)
  IN  /\ pc[r] = "lock" /\ holder[p] = NoRequest
      /\ Goto(r, "narinfo") /\ holder' = [holder EXCEPT ![p] = r]
      /\ UNCHANGED <<build, bytes, at>>
      /\ UNCHANGED <<final, tmp, faults, full, crashes>>

(* The per-path lock, and the second look at the directory under it. *)
Acquire(r) ==
  LET p == Current(r)
  IN  /\ pc[r] = "lock" /\ holder[p] = NoRequest
      /\ \/ final[p].there /\ NextPath(r)
         \/ /\ ~final[p].there
            /\ Goto(r, "narinfo") /\ holder' = [holder EXCEPT ![p] = r]
            /\ UNCHANGED <<build, bytes, at>>
      /\ UNCHANGED <<final, tmp, faults, full, crashes>>

-----------------------------------------------------------------------------
(* fetch_and_extract, with the path's lock held *)

(* The narinfo of some build, or an error: no cache has it, or a fault. *)
FetchNarinfo(r) ==
  LET p == Current(r)
  IN  /\ pc[r] = "narinfo"
      /\ \/ \E b \in Served[p] :
              /\ build' = [build EXCEPT ![r] = b]
              /\ Goto(r, "nar")
              /\ UNCHANGED <<bytes, at, holder, faults>>
         \/ Served[p] = {} /\ Fail(r) /\ UNCHANGED faults
         \/ Fault /\ Fail(r)
      /\ UNCHANGED <<final, tmp, full, crashes>>

(* The bytes some cache has under the narinfo's URL - not always the cache   *)
(* the narinfo came from, so maybe another build of the path - or an error.  *)
FetchNar(r) ==
  /\ pc[r] = "nar"
  /\ \/ /\ \E b \in Served[Current(r)] : bytes' = [bytes EXCEPT ![r] = b]
        /\ Goto(r, "unpack") /\ UNCHANGED <<build, at, holder, faults>>
     \/ Fault /\ Fail(r)
  /\ UNCHANGED <<final, tmp, full, crashes>>

(* The FileHash comparison, then decompress_nar. *)
Unpack(r) ==
  /\ pc[r] = "unpack"
  /\ \/ /\ bytes[r] = build[r]
        /\ Goto(r, "mkdir") /\ UNCHANGED <<build, bytes, at, holder, faults>>
     \/ /\ (bytes[r] # build[r] /\ UNCHANGED faults) \/ Fault
        /\ Fail(r)
  /\ UNCHANGED <<final, tmp, full, crashes>>

(* create_dir_all(tmp): what an earlier attempt left there stays. *)
MakeTmp(r) ==
  LET p == Current(r)
  IN  /\ pc[r] = "mkdir"
      /\ \/ /\ tmp' = [tmp EXCEPT ![p] = Dir(@.entries)]
            /\ Goto(r, "parse")
            /\ UNCHANGED <<build, bytes, at, holder, faults>>
         \/ Fault /\ Fail(r) /\ UNCHANGED tmp
      /\ UNCHANGED <<final, full, crashes>>

(* remove_dir_all(tmp).  (The code ignores its errors; they are left out.) *)
RemoveTmp(p) == tmp' = [tmp EXCEPT ![p] = Absent]

(* NarReader::parse: parse_directory has already eaten the root's ")", and   *)
(* has refused names that do not ascend, so that no entry comes twice.       *)
Parses(b) == Archive[b].root = "directory"
               => Archive[b].surplus /\ IsInjective(Archive[b].entries)

(* parse(), then the NarHash comparison. *)
Parse(r) ==
  /\ pc[r] = "parse"
  /\ \/ /\ Parses(bytes[r]) /\ bytes[r] = build[r]
        /\ Goto(r, "extract") /\ UNCHANGED <<tmp, build, bytes, at, holder, faults>>
     \/ /\ (~(Parses(bytes[r]) /\ bytes[r] = build[r]) /\ UNCHANGED faults) \/ Fault
        /\ RemoveTmp(Current(r)) /\ Fail(r)
  /\ UNCHANGED <<final, full, crashes>>

(***************************************************************************)
(* extract_node.  The root's name is the temporary directory itself: a     *)
(* regular file cannot be written there, a symlink cannot be made there.   *)
(* An error returns at once and leaves the directory as it is, with a file *)
(* of no build in it when the disk filled up in the middle of its content. *)
(***************************************************************************)
Extracting(r) ==
  pc[r] = "extract" /\ Archive[bytes[r]].root = "directory"
    /\ at[r] <= Len(Archive[bytes[r]].entries)

Blocked(d, name) == name \in Symlinks /\ \E e \in d.entries : e.name = name

ExtractEntry(r) ==
  LET p == Current(r)
      name == Archive[bytes[r]].entries[at[r]]
  IN  /\ Extracting(r)
      /\ \/ /\ ~Blocked(tmp[p], name)
            /\ tmp' = [tmp EXCEPT ![p] = Put(@, name, bytes[r])]
            /\ at' = [at EXCEPT ![r] = @ + 1]
            /\ UNCHANGED <<holder, pc, todo, asked, build, bytes, full>>
         \/ /\ full < MaxFull /\ full' = full + 1
            /\ Fail(r)
            /\ \/ UNCHANGED tmp
               \/ /\ name \notin Symlinks
                  /\ tmp' = [tmp EXCEPT ![p] = Put(@, name, NoBuild)]
         \/ /\ Blocked(tmp[p], name)
            /\ Fail(r) /\ UNCHANGED <<tmp, full>>
      /\ UNCHANGED <<final, faults, crashes>>

ExtractRoot(r) ==
  /\ pc[r] = "extract" /\ ~Extracting(r)
  /\ \/ Archive[bytes[r]].root = "directory" /\ Goto(r, "rename") /\ UNCHANGED <<holder, build, bytes, at>>
     \/ Archive[bytes[r]].root # "directory" /\ Fail(r)
  /\ UNCHANGED <<final, tmp, faults, full, crashes>>

(* Mutant: the error of fetch_and_extract does not end the loop. *)
Rename_SkipsErrors(r) ==
  LET p == Current(r)
  IN  /\ pc[r] = "rename"
      /\ \/ final' = [final EXCEPT ![p] = tmp[p]] /\ UNCHANGED faults
         \/ Fault /\ UNCHANGED final
      /\ RemoveTmp(p)
      /\ NextPath(r)
      /\ UNCHANGED <<full, crashes>>

(* rename(tmp, final) replaces nothing but an empty directory. *)
Rename(r) ==
  LET p == Current(r)
      free == final[p].entries = {}
  IN  /\ pc[r] = "rename"
      /\ \/ /\ free
            /\ final' = [final EXCEPT ![p] = tmp[p]]
            /\ RemoveTmp(p) /\ NextPath(r)
            /\ UNCHANGED faults
         \/ /\ Fault \/ (~free /\ UNCHANGED faults)
            /\ RemoveTmp(p) /\ Fail(r)
            /\ UNCHANGED final
      /\ UNCHANGED <<full, crashes>>

-----------------------------------------------------------------------------
(* The callers and the process *)

(* The handler takes the result, or tonic drops its future at an await. *)
Drop(r) ==
  /\ pc[r] \in {"ok", "err", "lock", "narinfo", "nar"}
  /\ pc' = [pc EXCEPT ![r] = "idle"]
  /\ todo' = [todo EXCEPT ![r] = <<>>]
  /\ asked' = [asked EXCEPT ![r] = {}]
  /\ build' = [build EXCEPT ![r] = NoBuild]
  /\ bytes' = [bytes EXCEPT ![r] = NoBuild]
  /\ at' = [at EXCEPT ![r] = 1]
  /\ Unlock(r)
  /\ UNCHANGED <<final, tmp, faults, full, crashes>>

Forget ==
  /\ holder' = [p \in Paths |-> NoRequest]
  /\ pc' = [r \in Requests |-> "idle"]
  /\ todo' = [r \in Requests |-> <<>>]
  /\ asked' = [r \in Requests |-> {}]
  /\ build' = [r \in Requests |-> NoBuild]
  /\ bytes' = [r \in Requests |-> NoBuild]
  /\ at' = [r \in Requests |-> 1]

(* Mutant: main() does not call cleanup_temp_dirs. *)
Restart_NoCleanup ==
  /\ crashes < MaxCrashes
  /\ crashes' = crashes + 1
  /\ Forget
  /\ UNCHANGED <<final, tmp, faults, full>>

(***************************************************************************)
(* The driver dies anywhere; main() removes every ".tmp-" directory before *)
(* it serves.  The process id in the name is that of the container's first *)
(* process, the same after every restart.                                  *)
(***************************************************************************)
Restart ==
  /\ crashes < MaxCrashes
  /\ crashes' = crashes + 1
  /\ Forget
  /\ tmp' = [p \in Paths |-> Absent]
  /\ UNCHANGED <<final, faults, full>>

-----------------------------------------------------------------------------
Step(r) ==
  \/ Probe(r) \/ Finish(r) \/ Acquire(r) \/ FetchNarinfo(r) \/ FetchNar(r)
  \/ Unpack(r) \/ MakeTmp(r) \/ Parse(r) \/ ExtractEntry(r) \/ ExtractRoot(r) \/ Rename(r)

Next ==
  \/ \E r \in Requests : \/ \E closure \in Closures : Begin(r, closure)
                         \/ Step(r) \/ Drop(r)
  \/ Restart

Spec == Init /\ [][Next]_vars

(* Calls return; the lock is a tokio Mutex, which serves waiters in turn. *)
Fairness == \A r \in Requests : WF_vars(Step(r)) /\ SF_vars(Acquire(r))

FairSpec == Spec /\ Fairness

-----------------------------------------------------------------------------
(* Properties *)

(* Every variable keeps its type. *)
TypeOK ==
  /\ \A p \in Paths : final[p].there \in BOOLEAN /\ tmp[p].there \in BOOLEAN
  /\ holder \in [Paths -> Requests \cup {NoRequest}]
  /\ pc \in [Requests -> PCs]
  /\ todo \in [Requests -> Seq(Paths)]
  /\ asked \in [Requests -> SUBSET Paths]
  /\ build \in [Requests -> Builds \cup {NoBuild}]
  /\ bytes \in [Requests -> Builds \cup {NoBuild}]
  /\ at \in [Requests -> Nat]
  /\ faults \in 0..MaxFaults /\ full \in 0..MaxFull /\ crashes \in 0..MaxCrashes

(***************************************************************************)
(* fetch_and_extract: a path present in the cache holds every entry of one *)
(* archive that parsed, and nothing else as long as no write failed,       *)
(* whatever requests raced for it, whichever builds the caches served to   *)
(* them and wherever the driver was killed.                                *)
(***************************************************************************)
CachedIsWhole ==
  \A p \in Paths : final[p].there
    => \E b \in Served[p] :
         /\ Parses(b)
         /\ Whole(b).entries \subseteq final[p].entries
         /\ full = 0 => final[p] = Whole(b)

(***************************************************************************)
(* ensure_cached: the per-path lock and the second look under it mean that *)
(* a path being fetched is not in the cache, and by one request only.      *)
(***************************************************************************)
NoDuplicateFetch ==
  \A r \in Requests : pc[r] \in Locked
    => /\ ~final[Current(r)].there
       /\ \A q \in Requests \ {r} : pc[q] \in Locked => Current(q) # Current(r)

(* Every call of ensure_cached ends, however many others want its paths. *)
RequestEnds ==
  \A r \in Requests : pc[r] \in Working ~> pc[r] \notin Working

(***************************************************************************)
(* ensure_cached keeps the promises of CacheStore: Ok only with the whole  *)
(* closure present, and nothing cached is ever removed.  The second is what *)
(* the code does and not what the docs say: the garbage collection of       *)
(* csi-driver.md and of config.rs's watermarks does not exist, and an       *)
(* implementation of it would break this refinement.                        *)
(***************************************************************************)
Answer(r) ==
  IF pc[r] = "idle" THEN "none" ELSE IF pc[r] \in Working THEN "wait" ELSE pc[r]

Store == INSTANCE CacheStore
           WITH have <- {p \in Paths : final[p].there},
                answer <- [r \in Requests |-> Answer(r)]

ImplementsStore == Store!Spec

(***************************************************************************)
(* docs/src/components/csi-driver.md:57 "Unverified NAR never reaches a    *)
(* pod.": what a path in the cache holds is one archive that was verified  *)
(* as a whole, and no entry of any other.                                  *)
(***************************************************************************)
OnlyVerifiedContent ==
  \A p \in Paths : final[p].there => \E b \in Served[p] : final[p] = Whole(b)

=============================================================================
