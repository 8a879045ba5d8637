--------------------------- MODULE NarCacheProofs ---------------------------
(***************************************************************************)
(* ensure_cached for every set of requests, paths, builds and archives,    *)
(* and for every number of faults, failed writes and restarts: no path is  *)
(* fetched twice at once, what is cached is one whole archive, and the     *)
(* callers get what CacheStore promises.                                   *)
(***************************************************************************)
EXTENDS NarCache, TLAPS

-----------------------------------------------------------------------------
(* The inductive invariant *)

Entry == [name : STRING, build : Builds \cup {NoBuild}]
Directories == {d \in [there : BOOLEAN, entries : SUBSET Entry] : d.there \/ d.entries = {}}

Typed ==
  /\ TypeOK
  /\ final \in [Paths -> Directories]
  /\ tmp \in [Paths -> Directories]

Filling == {"extract", "rename"}
Given   == {"unpack", "mkdir"} \cup Writing
Listed(r) == Archive[bytes[r]].entries

(* What extract_node has behind it is in the temporary directory. *)
Written(r) ==
  \A i \in 1..Len(Listed(r)) : i < at[r]
    => [name |-> Listed(r)[i], build |-> bytes[r]] \in tmp[Current(r)].entries

(* What a request between its steps relies on. *)
RequestOK(r) ==
  /\ pc[r] \in {"lock"} \cup Locked => todo[r] # <<>>
  /\ pc[r] \in Locked => holder[Current(r)] = r /\ ~final[Current(r)].there
  /\ pc[r] \in Given => bytes[r] \in Served[Current(r)]
  /\ pc[r] \in Writing => tmp[Current(r)].there
  /\ pc[r] \in Filling => Parses(bytes[r]) /\ at[r] >= 1 /\ Written(r)
  /\ pc[r] \notin Filling => at[r] = 1
  /\ pc[r] = "rename" => /\ Archive[bytes[r]].root = "directory"
                         /\ at[r] > Len(Listed(r))

(* An entry that the extraction of r has put into the temporary directory. *)
WrittenBy(r, e) ==
  /\ pc[r] \in Filling /\ Archive[bytes[r]].root = "directory"
  /\ e.build = bytes[r]
  /\ \E i \in 1..Len(Listed(r)) : i < at[r] /\ e.name = Listed(r)[i]

(* Until a write fails, temporary directories hold nothing but the work of *)
(* the request that holds the lock.                                        *)
NoLeftovers ==
  full = 0 => \A p \in Paths : \A e \in tmp[p].entries :
                \E r \in Requests : WrittenBy(r, e) /\ Current(r) = p

(* The paths a request has left are the ones of its closure not yet seen. *)
ClosureOK(r) ==
  pc[r] \in Working =>
    /\ ToSet(todo[r]) \subseteq asked[r]
    /\ \A p \in asked[r] : final[p].there \/ p \in ToSet(todo[r])

IInv ==
  /\ Typed /\ NoLeftovers /\ CachedIsWhole
  /\ \A r \in Requests : RequestOK(r) /\ ClosureOK(r)

-----------------------------------------------------------------------------
(* Closures and directories *)

(* The paths a request has left: the current one and the ones after it. *)
LEMMA Remaining ==
  ASSUME NEW S, NEW s \in Seq(S), s # <<>>
  PROVE  /\ Head(s) \in S /\ Tail(s) \in Seq(S)
         /\ ToSet(s) = {Head(s)} \cup ToSet(Tail(s))
<1>1. /\ Len(s) \in Nat \ {0} /\ DOMAIN s = 1..Len(s) /\ Head(s) = s[1]
      /\ Tail(s) \in Seq(S) /\ Len(Tail(s)) = Len(s) - 1
      /\ DOMAIN Tail(s) = 1..(Len(s) - 1)
      /\ \A i \in 1..(Len(s) - 1) : Tail(s)[i] = s[i + 1]
  OBVIOUS
<1>2. Head(s) \in S
  BY <1>1
<1>3. ASSUME NEW i \in DOMAIN s PROVE s[i] \in {Head(s)} \cup ToSet(Tail(s))
  <2>1. CASE i = 1
    BY <1>1, <2>1
  <2>2. CASE i # 1
    <3>1. i - 1 \in 1..(Len(s) - 1) /\ i = (i - 1) + 1
      BY <1>1, <2>2
    <3>2. Tail(s)[i - 1] = s[i]
      BY <1>1, <3>1
    <3> QED BY <1>1, <3>1, <3>2 DEF ToSet
  <2> QED BY <2>1, <2>2
<1>4. ASSUME NEW i \in DOMAIN Tail(s) PROVE Tail(s)[i] \in ToSet(s)
  <2>1. i + 1 \in DOMAIN s /\ Tail(s)[i] = s[i + 1]
    BY <1>1
  <2> QED BY <2>1 DEF ToSet
<1>5. Head(s) \in ToSet(s)
  BY <1>1 DEF ToSet
<1> QED BY <1>1, <1>2, <1>3, <1>4, <1>5 DEF ToSet

(* A sequence over S lists members of S. *)
LEMMA ToSetType ==
  ASSUME NEW S, NEW s \in Seq(S)
  PROVE  ToSet(s) \subseteq S
BY DEF ToSet

(* The calls on the temporary directory leave a directory. *)
LEMMA DirectoryTypes ==
  /\ Absent \in Directories
  /\ \A d \in Directories : Dir(d.entries) \in Directories
  /\ \A d \in Directories, n \in STRING, b \in Builds \cup {NoBuild} : Put(d, n, b) \in Directories
BY DEF Absent, Dir, Put, Directories, Entry

(* The names an archive lists. *)
LEMMA ListedType ==
  ASSUME NEW b \in Builds
  PROVE  /\ Archive[b].entries \in Seq(STRING)
         /\ Len(Archive[b].entries) \in Nat
         /\ DOMAIN Archive[b].entries = 1..Len(Archive[b].entries)
BY ArchiveAssumption DEF ArchiveType

-----------------------------------------------------------------------------
(* What one request does leaves the others alone *)

Frame(r) ==
  /\ \A q \in Requests \ {r} :
       /\ pc'[q] = pc[q] /\ todo'[q] = todo[q] /\ asked'[q] = asked[q]
       /\ bytes'[q] = bytes[q] /\ at'[q] = at[q]
       /\ \A p \in Paths : holder[p] = q => holder'[p] = q
  /\ \A p \in Paths : \/ pc[r] \in Locked /\ p = Current(r)
                      \/ tmp'[p] = tmp[p] /\ final'[p] = final[p]
  /\ \A p \in Paths : final[p].there => final'[p].there
  /\ full' = 0 => full = 0

(* Two requests that hold locks are at different paths. *)
LEMMA Exclusion ==
  ASSUME IInv, NEW q \in Requests, NEW r \in Requests, q # r,
         pc[q] \in Locked, pc[r] \in Locked
  PROVE  Current(q) # Current(r)
BY DEF IInv, RequestOK

(* The path a request is at is one of the cache's. *)
LEMMA CurrentType ==
  ASSUME IInv, NEW r \in Requests, pc[r] \in {"lock"} \cup Locked
  PROVE  Current(r) \in Paths /\ todo[r] # <<>> /\ todo[r] \in Seq(Paths)
<1>1. todo[r] \in Seq(Paths) /\ todo[r] # <<>>
  BY DEF IInv, Typed, TypeOK, RequestOK
<1> QED BY <1>1, Remaining DEF Current

(* A request that is not extracting finds an empty temporary directory. *)
LEMMA FreshTmp ==
  ASSUME IInv, NEW r \in Requests, pc[r] \in Locked \ Filling, full = 0
  PROVE  tmp[Current(r)].entries = {}
<1> SUFFICES ASSUME NEW e \in tmp[Current(r)].entries PROVE FALSE
  OBVIOUS
<1>1. Current(r) \in Paths
  BY CurrentType
<1>2. PICK q \in Requests : WrittenBy(q, e) /\ Current(q) = Current(r)
  BY <1>1 DEF IInv, NoLeftovers
<1>3. q # r /\ pc[q] \in Locked
  BY <1>2 DEF WrittenBy, Filling, Locked, Writing
<1> QED BY <1>2, <1>3, Exclusion

(* The invariant of the others is kept by whatever one request does. *)
LEMMA OthersKept ==
  ASSUME IInv, NEW r \in Requests, Frame(r), NEW q \in Requests \ {r}
  PROVE  RequestOK(q)' /\ ClosureOK(q)'
<1>1. /\ pc'[q] = pc[q] /\ todo'[q] = todo[q] /\ asked'[q] = asked[q]
      /\ bytes'[q] = bytes[q] /\ at'[q] = at[q]
      /\ Current(q)' = Current(q)
      /\ \A p \in Paths : holder[p] = q => holder'[p] = q
      /\ \A p \in Paths : final[p].there => final'[p].there
  BY DEF Frame, Current
<1>2. RequestOK(q) /\ ClosureOK(q)
  BY DEF IInv
<1>3. ClosureOK(q)'
  <2>1. asked[q] \subseteq Paths
    BY DEF IInv, Typed, TypeOK
  <2> QED BY <1>1, <1>2, <2>1 DEF ClosureOK
<1>4. RequestOK(q)'
  <2>1. CASE pc[q] \notin Locked
    BY <1>1, <1>2, <2>1 DEF RequestOK, Locked, Writing, Filling, Given
  <2>2. CASE pc[q] \in Locked
    <3>1. Current(q) \in Paths
      BY <2>2, CurrentType
    <3>2. tmp'[Current(q)] = tmp[Current(q)] /\ final'[Current(q)] = final[Current(q)]
      BY <2>2, <3>1, Exclusion DEF Frame
    <3>3. holder'[Current(q)] = q
      BY <1>1, <1>2, <2>2, <3>1 DEF RequestOK
    <3>4. Listed(q)' = Listed(q) /\ (Written(q) => Written(q)')
      BY <1>1, <3>2 DEF Listed, Written
    <3> QED BY <1>1, <1>2, <3>2, <3>3, <3>4 DEF RequestOK
  <2> QED BY <2>1, <2>2
<1> QED BY <1>3, <1>4

(* The whole invariant, from what the acting request owes. *)
LEMMA Framed ==
  ASSUME IInv, NEW r \in Requests, Frame(r), Typed',
         RequestOK(r)', ClosureOK(r)', CachedIsWhole',
         pc[r] \in Locked /\ full' = 0
           => \A e \in tmp'[Current(r)].entries :
                WrittenBy(r, e)' /\ Current(r)' = Current(r)
  PROVE  IInv'
<1>1. ASSUME full' = 0, NEW p \in Paths, NEW e \in tmp'[p].entries
      PROVE  \E q \in Requests : (WrittenBy(q, e) /\ Current(q) = p)'
  <2>1. CASE pc[r] \in Locked /\ p = Current(r)
    BY <1>1, <2>1
  <2>2. CASE ~(pc[r] \in Locked /\ p = Current(r))
    <3>1. e \in tmp[p].entries /\ full = 0
      BY <1>1, <2>2 DEF Frame
    <3>2. PICK q \in Requests : WrittenBy(q, e) /\ Current(q) = p
      BY <3>1 DEF IInv, NoLeftovers
    <3>3. q # r
      BY <2>2, <3>2 DEF WrittenBy, Filling, Locked, Writing
    <3>4. /\ pc'[q] = pc[q] /\ bytes'[q] = bytes[q] /\ at'[q] = at[q]
          /\ todo'[q] = todo[q]
      BY <3>3 DEF Frame
    <3> QED BY <3>2, <3>4 DEF WrittenBy, Listed, Current
  <2> QED BY <2>1, <2>2
<1>2. NoLeftovers'
  BY <1>1 DEF NoLeftovers
<1>3. \A q \in Requests : RequestOK(q)' /\ ClosureOK(q)'
  BY OthersKept
<1> QED BY <1>2, <1>3 DEF IInv

-----------------------------------------------------------------------------
(* One lemma for each way a request moves *)

(* What is cached stays whole while nothing is renamed. *)
LEMMA WholeKept ==
  ASSUME CachedIsWhole, final' = final, full' = 0 => full = 0
  PROVE  CachedIsWhole'
BY DEF CachedIsWhole

(* An error of fetch_and_extract, with nothing of the attempt left behind  *)
(* unless a write failed.                                                  *)
LEMMA FailKeeps ==
  ASSUME IInv, NEW r \in Requests, pc[r] \in Locked, Fail(r), UNCHANGED <<final, crashes>>,
         \/ tmp' = tmp \/ RemoveTmp(Current(r))
         \/ \E n \in STRING : tmp' = [tmp EXCEPT ![Current(r)] = Put(@, n, NoBuild)],
         faults' \in 0..MaxFaults, full' \in 0..MaxFull, full' = 0 => full = 0,
         full' = 0 => tmp'[Current(r)].entries = {}
  PROVE  IInv'
<1>1. /\ pc' = [pc EXCEPT ![r] = "err"] /\ UNCHANGED <<todo, asked>>
      /\ build' = [build EXCEPT ![r] = NoBuild] /\ bytes' = [bytes EXCEPT ![r] = NoBuild]
      /\ at' = [at EXCEPT ![r] = 1]
      /\ holder' = [p \in Paths |-> IF holder[p] = r THEN NoRequest ELSE holder[p]]
  BY DEF Fail, Goto, Unlock
<1>2. Current(r) \in Paths
  BY CurrentType
<1>3. Typed'
  <2>1. tmp' \in [Paths -> Directories]
    BY <1>2, DirectoryTypes DEF IInv, Typed, RemoveTmp
  <2>2. TypeOK'
    <3>1. \A p \in Paths : final'[p].there \in BOOLEAN /\ tmp'[p].there \in BOOLEAN
      BY <2>1 DEF IInv, Typed, Directories
    <3> QED BY <1>1, <3>1 DEF IInv, Typed, TypeOK, PCs
  <2> QED BY <2>1, <2>2 DEF IInv, Typed
<1>4. Frame(r)
  <2>1. \A p \in Paths \ {Current(r)} : tmp'[p] = tmp[p]
    BY <1>2 DEF RemoveTmp, IInv, Typed
  <2> QED BY <1>1, <2>1 DEF Frame, IInv, Typed, TypeOK
<1>5. pc'[r] = "err" /\ at'[r] = 1
  BY <1>1 DEF IInv, Typed, TypeOK
<1>6. RequestOK(r)' /\ ClosureOK(r)'
  BY <1>5 DEF RequestOK, ClosureOK, Locked, Writing, Given, Filling, Working
<1>7. CachedIsWhole'
  BY WholeKept DEF IInv
<1> QED BY <1>3, <1>4, <1>6, <1>7, Framed

(* A step within fetch_and_extract that touches nothing but the request's  *)
(* own registers: from one place under the lock to the next.               *)
LEMMA MoveKeeps ==
  ASSUME IInv, NEW r \in Requests, NEW label \in Locked,
         pc[r] \in Locked, Goto(r, label), UNCHANGED <<final, tmp, holder, at, full>>,
         Typed', RequestOK(r)',
         label \notin Filling => pc[r] \notin Filling,
         pc[r] \in Filling => bytes'[r] = bytes[r],
         \A q \in Requests \ {r} : bytes'[q] = bytes[q]
  PROVE  IInv'
<1>1. pc' = [pc EXCEPT ![r] = label] /\ UNCHANGED <<todo, asked>>
  BY DEF Goto
<1>2. pc'[r] = label /\ Current(r)' = Current(r)
  BY <1>1 DEF IInv, Typed, TypeOK, Current
<1>3. Frame(r)
  BY <1>1 DEF Frame, IInv, Typed, TypeOK
<1>4. ClosureOK(r)'
  BY <1>1, <1>2 DEF IInv, ClosureOK, Working
<1>5. CachedIsWhole'
  BY WholeKept DEF IInv
<1>6. ASSUME full' = 0, NEW e \in tmp'[Current(r)].entries PROVE WrittenBy(r, e)'
  <2>1. full = 0 /\ e \in tmp[Current(r)].entries /\ Current(r) \in Paths
    BY <1>6, CurrentType
  <2>2. pc[r] \in Filling
    BY <2>1, FreshTmp
  <2>3. PICK q \in Requests : WrittenBy(q, e) /\ Current(q) = Current(r)
    BY <2>1 DEF IInv, NoLeftovers
  <2>4. q = r
    BY <2>3, Exclusion DEF WrittenBy, Filling, Locked, Writing
  <2> QED BY <1>2, <2>2, <2>3, <2>4 DEF WrittenBy, Listed
<1> QED BY <1>2, <1>3, <1>4, <1>5, <1>6, Framed

(* `continue`, or the end of the loop's body: the current path is cached. *)
LEMMA NextPathKeeps ==
  ASSUME IInv, NEW r \in Requests, pc[r] \in {"probe", "lock", "rename"}, todo[r] # <<>>,
         NextPath(r), Typed', CachedIsWhole', final'[Current(r)].there,
         \A p \in Paths \ {Current(r)} : final'[p] = final[p] /\ tmp'[p] = tmp[p],
         pc[r] # "rename" => UNCHANGED <<final, tmp>>,
         pc[r] = "rename" => tmp'[Current(r)].entries = {},
         full' = full
  PROVE  IInv'
<1>1. /\ pc' = [pc EXCEPT ![r] = "probe"] /\ UNCHANGED asked
      /\ todo' = [todo EXCEPT ![r] = Tail(todo[r])]
      /\ bytes' = [bytes EXCEPT ![r] = NoBuild]
      /\ at' = [at EXCEPT ![r] = 1]
      /\ holder' = [p \in Paths |-> IF holder[p] = r THEN NoRequest ELSE holder[p]]
  BY DEF NextPath, Unlock
<1>2. pc'[r] = "probe" /\ at'[r] = 1 /\ todo'[r] = Tail(todo[r])
  BY <1>1 DEF IInv, Typed, TypeOK
<1>3. /\ todo[r] \in Seq(Paths) /\ Current(r) \in Paths
      /\ ToSet(todo[r]) = {Current(r)} \cup ToSet(Tail(todo[r]))
  <2>1. todo[r] \in Seq(Paths)
    BY DEF IInv, Typed, TypeOK
  <2> QED BY <2>1, Remaining DEF Current
<1>4. pc[r] \in Locked => pc[r] = "rename"
  BY DEF Locked, Writing
<1>5. pc[r] = "rename" => pc[r] \in Locked
  BY DEF Locked, Writing
<1>6. Frame(r)
  <2>1. \A p \in Paths : final[p].there => final'[p].there
    OBVIOUS
  <2>2. \A p \in Paths : \/ pc[r] \in Locked /\ p = Current(r)
                         \/ tmp'[p] = tmp[p] /\ final'[p] = final[p]
    BY <1>5
  <2>3. \A q \in Requests \ {r} :
          /\ pc'[q] = pc[q] /\ todo'[q] = todo[q] /\ asked'[q] = asked[q]
          /\ bytes'[q] = bytes[q] /\ at'[q] = at[q]
          /\ \A p \in Paths : holder[p] = q => holder'[p] = q
    BY <1>1 DEF IInv, Typed, TypeOK
  <2> QED BY <2>1, <2>2, <2>3 DEF Frame
<1>7. RequestOK(r)'
  BY <1>2 DEF RequestOK, Locked, Writing, Given, Filling
<1>8. ClosureOK(r)'
  <2>1. ClosureOK(r) /\ asked[r] \subseteq Paths
    BY DEF IInv, Typed, TypeOK
  <2>2. pc[r] \in Working
    BY DEF Working, Locked, Writing
  <2> QED BY <1>1, <1>2, <1>3, <1>6, <2>1, <2>2 DEF ClosureOK, Frame
<1> QED BY <1>4, <1>6, <1>7, <1>8, Framed

-----------------------------------------------------------------------------
(* One lemma for each action *)

(* The invariant holds on an empty cache with no call under way. *)
LEMMA InitIInv == Init => IInv
<1> SUFFICES ASSUME Init PROVE IInv
  OBVIOUS
<1>1. Typed
  <2>1. final \in [Paths -> Directories] /\ tmp \in [Paths -> Directories]
    BY DirectoryTypes DEF Init
  <2>2. \A p \in Paths : final[p].there \in BOOLEAN /\ tmp[p].there \in BOOLEAN
    BY <2>1 DEF Directories
  <2> QED BY CacheBounds, <2>1, <2>2 DEF Init, Typed, TypeOK, PCs
<1>2. NoLeftovers /\ CachedIsWhole
  BY DEF Init, NoLeftovers, CachedIsWhole, Absent
<1>3. \A r \in Requests : RequestOK(r) /\ ClosureOK(r)
  BY DEF Init, RequestOK, ClosureOK, Locked, Writing, Given, Filling, Working
<1> QED BY <1>1, <1>2, <1>3 DEF IInv

(* A call arrives with its closure. *)
LEMMA BeginKeeps ==
  ASSUME IInv, NEW r \in Requests, NEW closure \in Closures, Begin(r, closure)
  PROVE  IInv'
<1>1. /\ pc[r] = "idle" /\ pc' = [pc EXCEPT ![r] = "probe"]
      /\ todo' = [todo EXCEPT ![r] = closure]
      /\ asked' = [asked EXCEPT ![r] = ToSet(closure)]
      /\ UNCHANGED <<final, tmp, holder, build, bytes, at, faults, full, crashes>>
  BY DEF Begin
<1>2. closure \in Seq(Paths) /\ ToSet(closure) \subseteq Paths
  BY ClosuresAssumption, ToSetType
<1>3. Typed'
  BY <1>1, <1>2 DEF IInv, Typed, TypeOK, PCs, Working
<1>4. /\ pc'[r] = "probe" /\ todo'[r] = closure /\ asked'[r] = ToSet(closure)
      /\ at'[r] = at[r]
  BY <1>1 DEF IInv, Typed, TypeOK
<1>5. Frame(r)
  BY <1>1 DEF Frame, IInv, Typed, TypeOK
<1>6. RequestOK(r)'
  BY <1>1, <1>4 DEF IInv, RequestOK, Locked, Writing, Given, Filling
<1>7. ClosureOK(r)'
  BY <1>4 DEF ClosureOK
<1>8. CachedIsWhole' /\ pc[r] \notin Locked
  BY <1>1, WholeKept DEF IInv, Locked, Writing
<1> QED BY <1>3, <1>5, <1>6, <1>7, <1>8, Framed

(* The effect of NextPath on the types. *)
LEMMA NextPathTypes ==
  ASSUME IInv, NEW r \in Requests, todo[r] # <<>>, NextPath(r),
         final' \in [Paths -> Directories], tmp' \in [Paths -> Directories],
         faults' \in 0..MaxFaults, UNCHANGED <<full, crashes>>
  PROVE  Typed'
<1>1. Tail(todo[r]) \in Seq(Paths)
  BY Remaining DEF IInv, Typed, TypeOK
<1>2. \A p \in Paths : final'[p].there \in BOOLEAN /\ tmp'[p].there \in BOOLEAN
  BY DEF Directories
<1> QED BY <1>1, <1>2 DEF IInv, Typed, TypeOK, NextPath, Unlock, PCs, Working

(* The look at the cache before the lock is taken. *)
LEMMA ProbeKeeps ==
  ASSUME IInv, NEW r \in Requests, Probe(r)
  PROVE  IInv'
<1>1. /\ pc[r] = "probe" /\ todo[r] # <<>> /\ UNCHANGED <<final, tmp, faults, full, crashes>>
  BY DEF Probe
<1>2. CASE final[Current(r)].there /\ NextPath(r)
  <2>1. Typed'
    BY <1>1, <1>2, NextPathTypes DEF IInv, Typed, TypeOK
  <2>2. CachedIsWhole'
    BY <1>1, WholeKept DEF IInv
  <2> QED BY <1>1, <1>2, <2>1, <2>2, NextPathKeeps
<1>3. CASE Goto(r, "lock") /\ UNCHANGED <<holder, build, bytes, at>>
  <2>1. Typed'
    BY <1>1, <1>3 DEF Goto, IInv, Typed, TypeOK, PCs, Working
  <2>2. pc'[r] = "lock" /\ UNCHANGED <<todo, asked, at>>
    BY <1>3 DEF Goto, IInv, Typed, TypeOK
  <2>3. Frame(r)
    BY <1>1, <1>3 DEF Goto, Frame, IInv, Typed, TypeOK
  <2>4. RequestOK(r)'
    BY <1>1, <2>2 DEF IInv, RequestOK, Locked, Writing, Given, Filling
  <2>5. ClosureOK(r)'
    BY <1>1, <2>2 DEF IInv, ClosureOK, Working
  <2>6. CachedIsWhole' /\ pc[r] \notin Locked
    BY <1>1, WholeKept DEF IInv, Locked, Writing
  <2> QED BY <2>1, <2>3, <2>4, <2>5, <2>6, Framed
<1> QED BY <1>2, <1>3 DEF Probe

(* The loop ends with nothing left to look at. *)
LEMMA FinishKeeps ==
  ASSUME IInv, NEW r \in Requests, Finish(r)
  PROVE  IInv'
<1>1. /\ pc[r] = "probe" /\ pc' = [pc EXCEPT ![r] = "ok"]
      /\ UNCHANGED <<todo, asked, final, tmp, holder, build, bytes, at, faults, full, crashes>>
  BY DEF Finish, Goto
<1>2. Typed' /\ pc'[r] = "ok"
  BY <1>1 DEF IInv, Typed, TypeOK, PCs
<1>3. Frame(r)
  BY <1>1 DEF Frame, IInv, Typed, TypeOK
<1>4. RequestOK(r)' /\ ClosureOK(r)'
  BY <1>1, <1>2 DEF IInv, RequestOK, ClosureOK, Locked, Writing, Given, Filling, Working
<1>5. CachedIsWhole' /\ pc[r] \notin Locked
  BY <1>1, WholeKept DEF IInv, Locked, Writing
<1> QED BY <1>2, <1>3, <1>4, <1>5, Framed

(* The lock is granted; under it the cache is looked at again. *)
LEMMA AcquireKeeps ==
  ASSUME IInv, NEW r \in Requests, Acquire(r)
  PROVE  IInv'
<1> DEFINE p == Current(r)
<1>1. /\ pc[r] = "lock" /\ holder[p] = NoRequest
      /\ UNCHANGED <<final, tmp, faults, full, crashes>>
  BY DEF Acquire
<1>2. p \in Paths /\ todo[r] # <<>>
  BY <1>1, CurrentType
<1>3. CASE final[p].there /\ NextPath(r)
  <2>1. Typed'
    BY <1>1, <1>2, <1>3, NextPathTypes DEF IInv, Typed, TypeOK
  <2>2. CachedIsWhole'
    BY <1>1, WholeKept DEF IInv
  <2> QED BY <1>1, <1>2, <1>3, <2>1, <2>2, NextPathKeeps
<1>4. CASE /\ ~final[p].there /\ Goto(r, "narinfo")
           /\ holder' = [holder EXCEPT ![p] = r] /\ UNCHANGED <<build, bytes, at>>
  <2>1. Typed'
    BY <1>1, <1>2, <1>4 DEF Goto, IInv, Typed, TypeOK, PCs, Working, Locked
  <2>2. /\ pc'[r] = "narinfo" /\ UNCHANGED <<todo, asked, at>> /\ holder'[p] = r
        /\ Current(r)' = p
    BY <1>2, <1>4 DEF Goto, IInv, Typed, TypeOK, Current
  <2>3. Frame(r)
    <3>1. \A q \in Requests \ {r}, x \in Paths : holder[x] = q => holder'[x] = q
      BY <1>1, <1>2, <1>4, CacheAssumption DEF IInv, Typed, TypeOK
    <3> QED BY <1>1, <1>4, <3>1 DEF Goto, Frame, IInv, Typed, TypeOK
  <2>4. RequestOK(r)'
    BY <1>1, <1>2, <1>4, <2>2 DEF IInv, RequestOK, Locked, Writing, Given, Filling
  <2>5. ClosureOK(r)'
    BY <1>1, <2>2 DEF IInv, ClosureOK, Working
  <2>6. CachedIsWhole' /\ pc[r] \notin Locked
    BY <1>1, WholeKept DEF IInv, Locked, Writing
  <2> QED BY <2>1, <2>3, <2>4, <2>5, <2>6, Framed
<1> QED BY <1>3, <1>4 DEF Acquire

(* The narinfo: a build the caches serve for the path, or an error. *)
LEMMA FetchNarinfoKeeps ==
  ASSUME IInv, NEW r \in Requests, FetchNarinfo(r)
  PROVE  IInv'
<1> DEFINE p == Current(r)
<1>1. pc[r] = "narinfo" /\ UNCHANGED <<final, tmp, full, crashes>>
  BY DEF FetchNarinfo
<1>2. pc[r] \in Locked \ Filling /\ p \in Paths
  BY <1>1, CurrentType DEF Locked, Writing, Filling
<1>3. ASSUME NEW b \in Served[p], build' = [build EXCEPT ![r] = b], Goto(r, "nar"),
             UNCHANGED <<bytes, at, holder, faults>>
      PROVE  IInv'
  <2>1. b \in Builds
    BY <1>2, ServedAssumption
  <2>2. Typed'
    BY <1>1, <1>3, <2>1 DEF Goto, IInv, Typed, TypeOK, PCs, Working, Locked
  <2>3. pc'[r] = "nar" /\ UNCHANGED <<todo, at>> /\ Current(r)' = p
    BY <1>3 DEF Goto, IInv, Typed, TypeOK, Current
  <2>4. RequestOK(r)'
    BY <1>1, <1>3, <2>3 DEF IInv, RequestOK, Locked, Writing, Given, Filling
  <2>5. "nar" \in Locked
    BY DEF Locked
  <2> QED BY <1>1, <1>2, <1>3, <2>2, <2>4, <2>5, MoveKeeps
<1>4. ASSUME Fail(r), faults' \in 0..MaxFaults PROVE IInv'
  BY <1>1, <1>2, <1>4, FreshTmp, FailKeeps DEF IInv, Typed, TypeOK
<1>5. Fault \/ UNCHANGED faults => faults' \in 0..MaxFaults
  BY CacheBounds DEF Fault, IInv, Typed, TypeOK
<1> QED BY <1>3, <1>4, <1>5 DEF FetchNarinfo

(* The bytes: of any build the caches serve for the path, or an error. *)
LEMMA FetchNarKeeps ==
  ASSUME IInv, NEW r \in Requests, FetchNar(r)
  PROVE  IInv'
<1> DEFINE p == Current(r)
<1>1. pc[r] = "nar" /\ UNCHANGED <<final, tmp, full, crashes>>
  BY DEF FetchNar
<1>2. pc[r] \in Locked \ Filling /\ p \in Paths
  BY <1>1, CurrentType DEF Locked, Writing, Filling
<1>3. ASSUME NEW b \in Served[p], bytes' = [bytes EXCEPT ![r] = b], Goto(r, "unpack"),
             UNCHANGED <<build, at, holder, faults>>
      PROVE  IInv'
  <2>1. b \in Builds
    BY <1>2, ServedAssumption
  <2>2. Typed'
    BY <1>1, <1>3, <2>1 DEF Goto, IInv, Typed, TypeOK, PCs, Working, Locked
  <2>3. pc'[r] = "unpack" /\ UNCHANGED <<todo, at>> /\ Current(r)' = p /\ bytes'[r] = b
    BY <1>3 DEF Goto, IInv, Typed, TypeOK, Current
  <2>4. RequestOK(r)'
    BY <1>1, <1>3, <2>3 DEF IInv, RequestOK, Locked, Writing, Given, Filling
  <2>5. "unpack" \in Locked
    BY DEF Locked
  <2>6. \A q \in Requests \ {r} : bytes'[q] = bytes[q]
    BY <1>3 DEF IInv, Typed, TypeOK
  <2> QED BY <1>1, <1>2, <1>3, <2>2, <2>4, <2>5, <2>6, MoveKeeps
<1>4. ASSUME Fail(r), Fault PROVE IInv'
  <2>1. faults' \in 0..MaxFaults
    BY <1>4, CacheBounds DEF Fault, IInv, Typed, TypeOK
  <2> QED BY <1>1, <1>2, <1>4, <2>1, FreshTmp, FailKeeps DEF IInv, Typed, TypeOK
<1> QED BY <1>3, <1>4 DEF FetchNar

(* The comparison with FileHash, and the decompression. *)
LEMMA UnpackKeeps ==
  ASSUME IInv, NEW r \in Requests, Unpack(r)
  PROVE  IInv'
<1>1. pc[r] = "unpack" /\ UNCHANGED <<final, tmp, full, crashes>>
  BY DEF Unpack
<1>2. pc[r] \in Locked \ Filling
  BY <1>1 DEF Locked, Writing, Filling
<1>3. ASSUME Goto(r, "mkdir"), UNCHANGED <<build, bytes, at, holder, faults>>
      PROVE  IInv'
  <2>2. Typed'
    BY <1>1, <1>3 DEF Goto, IInv, Typed, TypeOK, PCs, Working, Locked
  <2>3. pc'[r] = "mkdir" /\ UNCHANGED <<todo, at, bytes>> /\ Current(r)' = Current(r)
    BY <1>3 DEF Goto, IInv, Typed, TypeOK, Current
  <2>4. RequestOK(r)'
    BY <1>1, <1>3, <2>3 DEF IInv, RequestOK, Locked, Writing, Given, Filling
  <2>5. "mkdir" \in Locked
    BY DEF Locked
  <2> QED BY <1>1, <1>2, <1>3, <2>2, <2>4, <2>5, MoveKeeps
<1>4. ASSUME Fail(r), Fault \/ UNCHANGED faults PROVE IInv'
  <2>1. faults' \in 0..MaxFaults
    BY <1>4, CacheBounds DEF Fault, IInv, Typed, TypeOK
  <2> QED BY <1>1, <1>2, <1>4, <2>1, FreshTmp, FailKeeps DEF IInv, Typed, TypeOK
<1> QED BY <1>3, <1>4 DEF Unpack

(* create_dir_all of the temporary directory. *)
LEMMA MakeTmpKeeps ==
  ASSUME IInv, NEW r \in Requests, MakeTmp(r)
  PROVE  IInv'
<1> DEFINE p == Current(r)
<1>1. pc[r] = "mkdir" /\ UNCHANGED <<final, full, crashes>>
  BY DEF MakeTmp
<1>2. pc[r] \in Locked \ Filling /\ p \in Paths
  BY <1>1, CurrentType DEF Locked, Writing, Filling
<1>3. ASSUME tmp' = [tmp EXCEPT ![p] = Dir(tmp[p].entries)], Goto(r, "parse"),
             UNCHANGED <<build, bytes, at, holder, faults>>
      PROVE  IInv'
  <2>1. /\ pc' = [pc EXCEPT ![r] = "parse"] /\ UNCHANGED <<todo, asked>>
        /\ pc'[r] = "parse" /\ Current(r)' = p
    BY <1>3 DEF Goto, IInv, Typed, TypeOK, Current
  <2>2. tmp' \in [Paths -> Directories] /\ tmp'[p] = Dir(tmp[p].entries)
    BY <1>2, <1>3, DirectoryTypes DEF IInv, Typed
  <2>3. Typed'
    <3>1. \A x \in Paths : final'[x].there \in BOOLEAN /\ tmp'[x].there \in BOOLEAN
      BY <1>1, <2>2 DEF IInv, Typed, Directories
    <3> QED BY <1>1, <1>3, <2>1, <2>2, <3>1
            DEF IInv, Typed, TypeOK, PCs, Working, Locked, Writing
  <2>4. Frame(r)
    BY <1>1, <1>2, <1>3, <2>1 DEF Frame, IInv, Typed, TypeOK
  <2>5. RequestOK(r)'
    BY <1>1, <1>3, <2>1, <2>2 DEF IInv, RequestOK, Locked, Writing, Given, Filling, Dir
  <2>6. ClosureOK(r)'
    BY <1>1, <2>1 DEF IInv, ClosureOK, Working, Locked, Writing
  <2>7. CachedIsWhole'
    BY <1>1, WholeKept DEF IInv
  <2>8. full' = 0 => tmp'[p].entries = {}
    BY <1>1, <1>2, <2>2, FreshTmp DEF Dir
  <2> QED BY <2>3, <2>4, <2>5, <2>6, <2>7, <2>8, Framed
<1>4. ASSUME Fail(r), Fault, UNCHANGED tmp PROVE IInv'
  <2>1. faults' \in 0..MaxFaults
    BY <1>4, CacheBounds DEF Fault, IInv, Typed, TypeOK
  <2> QED BY <1>1, <1>2, <1>4, <2>1, FreshTmp, FailKeeps DEF IInv, Typed, TypeOK
<1> QED BY <1>3, <1>4 DEF MakeTmp

(* parse and the comparison with NarHash. *)
LEMMA ParseKeeps ==
  ASSUME IInv, NEW r \in Requests, Parse(r)
  PROVE  IInv'
<1> DEFINE p == Current(r)
<1>1. pc[r] = "parse" /\ UNCHANGED <<final, full, crashes>>
  BY DEF Parse
<1>2. pc[r] \in Locked \ Filling /\ p \in Paths
  BY <1>1, CurrentType DEF Locked, Writing, Filling
<1>3. ASSUME Parses(bytes[r]), Goto(r, "extract"),
             UNCHANGED <<tmp, build, bytes, at, holder, faults>>
      PROVE  IInv'
  <2>1. Typed'
    BY <1>1, <1>3 DEF Goto, IInv, Typed, TypeOK, PCs, Working, Locked, Writing
  <2>2. /\ pc'[r] = "extract" /\ UNCHANGED <<todo, at, bytes>> /\ Current(r)' = p
    BY <1>3 DEF Goto, IInv, Typed, TypeOK, Current
  <2>3. RequestOK(r) /\ at[r] = 1
    BY <1>1 DEF IInv, RequestOK, Filling
  <2>4. Written(r)'
    BY <2>2, <2>3 DEF Written
  <2>5. RequestOK(r)'
    BY <1>1, <1>3, <2>2, <2>3, <2>4
       DEF RequestOK, Locked, Writing, Given, Filling, Parses
  <2>6. "extract" \in Locked
    BY DEF Locked, Writing
  <2> QED BY <1>1, <1>2, <1>3, <2>1, <2>5, <2>6, MoveKeeps DEF Filling
<1>4. ASSUME RemoveTmp(p), Fail(r), Fault \/ UNCHANGED faults PROVE IInv'
  <2>1. faults' \in 0..MaxFaults
    BY <1>4, CacheBounds DEF Fault, IInv, Typed, TypeOK
  <2>2. tmp'[p].entries = {}
    BY <1>2, <1>4 DEF RemoveTmp, Absent, IInv, Typed
  <2> QED BY <1>1, <1>2, <1>4, <2>1, <2>2, FailKeeps DEF IInv, Typed, TypeOK
<1> QED BY <1>3, <1>4 DEF Parse

(* While a request extracts and no write has failed, what its temporary    *)
(* directory holds is its own work.                                        *)
LEMMA OwnWork ==
  ASSUME IInv, NEW r \in Requests, pc[r] \in Filling, full = 0,
         NEW e \in tmp[Current(r)].entries
  PROVE  WrittenBy(r, e)
<1>1. pc[r] \in Locked /\ Current(r) \in Paths
  BY CurrentType DEF Filling, Locked, Writing
<1>2. PICK q \in Requests : WrittenBy(q, e) /\ Current(q) = Current(r)
  BY <1>1 DEF IInv, NoLeftovers
<1>3. q = r
  BY <1>1, <1>2, Exclusion DEF WrittenBy, Filling, Locked, Writing
<1> QED BY <1>2, <1>3

(* The symlink that is already there was not written by this extraction:   *)
(* parse refused repeated names, so an earlier write must have failed.     *)
LEMMA BlockedByLeftover ==
  ASSUME IInv, NEW r \in Requests, Extracting(r),
         Blocked(tmp[Current(r)], Listed(r)[at[r]])
  PROVE  full # 0
<1> SUFFICES ASSUME full = 0 PROVE FALSE
  OBVIOUS
<1>1. pc[r] \in Filling /\ Archive[bytes[r]].root = "directory" /\ at[r] <= Len(Listed(r))
  BY DEF Extracting, Filling, Listed
<1>2. /\ Parses(bytes[r]) /\ at[r] >= 1 /\ bytes[r] \in Served[Current(r)]
      /\ Current(r) \in Paths
  BY <1>1, CurrentType DEF IInv, RequestOK, Filling, Given, Writing, Locked
<1>3. bytes[r] \in Builds /\ at[r] \in Nat
  BY <1>2, ServedAssumption DEF IInv, Typed, TypeOK
<1>4. PICK e \in tmp[Current(r)].entries : e.name = Listed(r)[at[r]]
  BY DEF Blocked
<1>5. PICK i \in 1..Len(Listed(r)) : i < at[r] /\ e.name = Listed(r)[i]
  BY <1>1, <1>4, OwnWork DEF WrittenBy
<1>6. IsInjective(Listed(r)) /\ DOMAIN Listed(r) = 1..Len(Listed(r)) /\ Len(Listed(r)) \in Nat
  BY <1>1, <1>2, <1>3, ListedType DEF Parses, Listed
<1>7. at[r] \in DOMAIN Listed(r) /\ i \in DOMAIN Listed(r)
  BY <1>1, <1>2, <1>3, <1>5, <1>6
<1>8. i = at[r]
  BY <1>4, <1>5, <1>6, <1>7 DEF IsInjective
<1> QED BY <1>3, <1>5, <1>8

(* One entry is written, or a write fails. *)
LEMMA ExtractEntryKeeps ==
  ASSUME IInv, NEW r \in Requests, ExtractEntry(r)
  PROVE  IInv'
<1> DEFINE p == Current(r)
           name == Listed(r)[at[r]]
<1>1. Extracting(r) /\ UNCHANGED <<final, faults, crashes>>
  BY DEF ExtractEntry
<1>2. /\ pc[r] = "extract" /\ Archive[bytes[r]].root = "directory"
      /\ at[r] <= Len(Listed(r))
  BY <1>1 DEF Extracting, Listed
<1>3. pc[r] \in Locked /\ pc[r] \in Filling /\ p \in Paths
  BY <1>2, CurrentType DEF Locked, Writing, Filling
<1>4. /\ RequestOK(r) /\ at[r] >= 1 /\ at[r] \in Nat /\ bytes[r] \in Served[p]
      /\ Written(r) /\ bytes[r] \in Builds
  BY <1>2, <1>3, ServedAssumption
     DEF IInv, Typed, TypeOK, RequestOK, Given, Writing, Filling
<1>5. /\ Len(Listed(r)) \in Nat /\ Listed(r) \in Seq(STRING)
      /\ at[r] \in 1..Len(Listed(r)) /\ name \in STRING
  <2>1. Len(Listed(r)) \in Nat /\ Listed(r) \in Seq(STRING)
    BY <1>4, ListedType DEF Listed
  <2>2. at[r] \in 1..Len(Listed(r))
    BY <1>2, <1>4, <2>1
  <2> QED BY <2>1, <2>2
<1>6. ASSUME tmp' = [tmp EXCEPT ![p] = Put(tmp[p], name, bytes[r])],
             at' = [at EXCEPT ![r] = at[r] + 1],
             UNCHANGED <<holder, pc, todo, asked, build, bytes, full>>
      PROVE  IInv'
  <2>1. tmp' \in [Paths -> Directories] /\ tmp'[p] = Put(tmp[p], name, bytes[r])
    BY <1>3, <1>4, <1>5, <1>6, DirectoryTypes DEF IInv, Typed
  <2>2. Typed'
    <3>1. \A x \in Paths : final'[x].there \in BOOLEAN /\ tmp'[x].there \in BOOLEAN
      BY <1>1, <2>1 DEF IInv, Typed, Directories
    <3> QED BY <1>1, <1>4, <1>6, <2>1, <3>1 DEF IInv, Typed, TypeOK
  <2>3. /\ Current(r)' = p /\ Listed(r)' = Listed(r) /\ at'[r] = at[r] + 1
    BY <1>6 DEF Current, Listed, IInv, Typed, TypeOK
  <2>4. Frame(r)
    BY <1>1, <1>3, <1>6 DEF Frame, IInv, Typed, TypeOK
  <2>5. tmp'[p].there /\ tmp'[p].entries
          = {e \in tmp[p].entries : e.name # name} \cup {[name |-> name, build |-> bytes[r]]}
    BY <2>1 DEF Put, Dir
  <2>6. Written(r)'
    <3> SUFFICES ASSUME NEW i \in 1..Len(Listed(r)), i < at[r] + 1
                 PROVE  [name |-> Listed(r)[i], build |-> bytes[r]] \in tmp'[p].entries
      BY <1>6, <2>3 DEF Written
    <3>1. CASE Listed(r)[i] = name
      BY <2>5, <3>1
    <3>2. CASE Listed(r)[i] # name
      <4>1. i < at[r]
        BY <1>4, <3>2
      <4> QED BY <1>4, <2>5, <3>2, <4>1 DEF Written
    <3> QED BY <3>1, <3>2
  <2>7. RequestOK(r)'
    BY <1>1, <1>2, <1>4, <1>6, <2>3, <2>5, <2>6
       DEF RequestOK, Locked, Writing, Given, Filling, Parses
  <2>8. ClosureOK(r)'
    BY <1>1, <1>6 DEF IInv, ClosureOK
  <2>9. CachedIsWhole'
    BY <1>1, <1>6, WholeKept DEF IInv
  <2>10. ASSUME full' = 0, NEW e \in tmp'[p].entries PROVE WrittenBy(r, e)'
    <3>1. CASE e = [name |-> name, build |-> bytes[r]]
      <4>1. at[r] < at'[r] /\ e.name = Listed(r)'[at[r]] /\ at[r] \in 1..Len(Listed(r)')
        BY <1>4, <1>5, <2>3, <3>1
      <4> QED BY <1>2, <1>3, <1>6, <2>3, <3>1, <4>1 DEF WrittenBy
    <3>2. CASE e \in tmp[p].entries
      <4>1. WrittenBy(r, e)
        BY <1>3, <1>6, <2>10, <3>2, OwnWork
      <4>2. PICK i \in 1..Len(Listed(r)) : i < at[r] /\ e.name = Listed(r)[i]
        BY <4>1 DEF WrittenBy
      <4>3. i < at'[r]
        BY <1>4, <1>5, <2>3, <4>2
      <4> QED BY <1>2, <1>3, <1>6, <2>3, <4>1, <4>2, <4>3 DEF WrittenBy
    <3> QED BY <2>5, <3>1, <3>2
  <2> QED BY <2>2, <2>3, <2>4, <2>7, <2>8, <2>9, <2>10, Framed
<1>7. ASSUME full < MaxFull, full' = full + 1, Fail(r),
             UNCHANGED tmp \/ tmp' = [tmp EXCEPT ![p] = Put(@, name, NoBuild)]
      PROVE  IInv'
  <2>1. full' \in 0..MaxFull /\ full' # 0
    BY <1>7, CacheBounds DEF IInv, Typed, TypeOK
  <2> QED BY <1>1, <1>3, <1>5, <1>7, <2>1, FailKeeps DEF IInv, Typed, TypeOK
<1>8. ASSUME Blocked(tmp[p], name), Fail(r), UNCHANGED <<tmp, full>> PROVE IInv'
  <2>1. full # 0
    BY <1>1, <1>8, BlockedByLeftover
  <2> QED BY <1>1, <1>3, <1>8, <2>1, FailKeeps DEF IInv, Typed, TypeOK
<1> QED BY <1>6, <1>7, <1>8 DEF ExtractEntry, Listed

(* extract_node returns: with every entry written, or with the error of a  *)
(* root that is no directory.                                              *)
LEMMA ExtractRootKeeps ==
  ASSUME IInv, NEW r \in Requests, ExtractRoot(r)
  PROVE  IInv'
<1> DEFINE p == Current(r)
<1>1. pc[r] = "extract" /\ ~Extracting(r) /\ UNCHANGED <<final, tmp, faults, full, crashes>>
  BY DEF ExtractRoot
<1>2. pc[r] \in Locked /\ pc[r] \in Filling /\ p \in Paths
  BY <1>1, CurrentType DEF Locked, Writing, Filling
<1>3. RequestOK(r) /\ at[r] \in Nat /\ bytes[r] \in Builds
  BY <1>1, <1>2, ServedAssumption DEF IInv, Typed, TypeOK, RequestOK, Given, Writing
<1>4. ASSUME Archive[bytes[r]].root = "directory", Goto(r, "rename"),
             UNCHANGED <<holder, build, bytes, at>>
      PROVE  IInv'
  <2>1. at[r] > Len(Listed(r))
    BY <1>1, <1>3, <1>4, ListedType DEF Extracting, Listed
  <2>2. Typed'
    BY <1>1, <1>4 DEF Goto, IInv, Typed, TypeOK, PCs, Working, Locked, Writing
  <2>3. pc'[r] = "rename" /\ UNCHANGED todo /\ Current(r)' = p
    BY <1>4 DEF Goto, IInv, Typed, TypeOK, Current
  <2>4. RequestOK(r)'
    BY <1>1, <1>3, <1>4, <2>1, <2>3
       DEF RequestOK, Locked, Writing, Given, Filling, Parses, Listed, Written
  <2>5. "rename" \in Locked /\ "rename" \in Filling
    BY DEF Locked, Writing, Filling
  <2> QED BY <1>1, <1>2, <1>4, <2>2, <2>4, <2>5, MoveKeeps
<1>5. ASSUME Archive[bytes[r]].root # "directory", Fail(r) PROVE IInv'
  <2>1. full = 0 => tmp[p].entries = {}
    BY <1>2, <1>5, OwnWork DEF WrittenBy
  <2> QED BY <1>1, <1>2, <1>5, <2>1, FailKeeps DEF IInv, Typed, TypeOK
<1> QED BY <1>4, <1>5 DEF ExtractRoot

(* The temporary directory becomes the path's, or the rename fails. *)
LEMMA RenameKeeps ==
  ASSUME IInv, NEW r \in Requests, Rename(r)
  PROVE  IInv'
<1> DEFINE p == Current(r)
           b == bytes[r]
<1>1. pc[r] = "rename" /\ UNCHANGED <<full, crashes>>
  BY DEF Rename
<1>2. pc[r] \in Locked /\ pc[r] \in Filling /\ p \in Paths /\ todo[r] # <<>>
  BY <1>1, CurrentType DEF Locked, Writing, Filling
<1>3. /\ b \in Served[p] /\ b \in Builds /\ Parses(b) /\ tmp[p].there /\ Written(r)
      /\ Archive[b].root = "directory" /\ at[r] > Len(Listed(r)) /\ at[r] \in Nat
  BY <1>1, <1>2, ServedAssumption
     DEF IInv, Typed, TypeOK, RequestOK, Given, Writing, Filling
<1>4. Listed(r) \in Seq(STRING) /\ Len(Listed(r)) \in Nat /\ DOMAIN Listed(r) = 1..Len(Listed(r))
  BY <1>3, ListedType DEF Listed
<1>5. ASSUME RemoveTmp(p) PROVE tmp' \in [Paths -> Directories] /\ tmp'[p].entries = {}
  BY <1>2, <1>5, DirectoryTypes DEF RemoveTmp, Absent, IInv, Typed
<1>6. ASSUME final' = [final EXCEPT ![p] = tmp[p]], RemoveTmp(p), NextPath(r), UNCHANGED faults
      PROVE  IInv'
  <2>1. final' \in [Paths -> Directories] /\ final'[p] = tmp[p]
    BY <1>2, <1>6 DEF IInv, Typed
  <2>2. Typed'
    BY <1>1, <1>2, <1>5, <1>6, <2>1, NextPathTypes DEF IInv, Typed, TypeOK
  <2>3. Whole(b).entries \subseteq tmp[p].entries
    <3> SUFFICES ASSUME NEW i \in 1..Len(Listed(r))
                 PROVE  [name |-> Listed(r)[i], build |-> b] \in tmp[p].entries
      BY <1>4 DEF Whole, Dir, ToSet, Listed
    <3>1. i < at[r]
      BY <1>3, <1>4
    <3> QED BY <1>3, <3>1 DEF Written
  <2>4. full = 0 => tmp[p] = Whole(b)
    <3> SUFFICES ASSUME full = 0 PROVE tmp[p] = Whole(b)
      OBVIOUS
    <3>1. tmp[p].entries \subseteq Whole(b).entries
      <4> SUFFICES ASSUME NEW e \in tmp[p].entries PROVE e \in Whole(b).entries
        OBVIOUS
      <4>1. WrittenBy(r, e)
        BY <1>2, OwnWork
      <4>2. e.name \in ToSet(Listed(r)) /\ e.build = b
        BY <1>4, <4>1 DEF WrittenBy, ToSet
      <4>3. e \in Entry
        BY <1>2 DEF IInv, Typed, Directories
      <4>4. e = [name |-> e.name, build |-> b]
        BY <4>2, <4>3 DEF Entry
      <4> QED BY <4>2, <4>4 DEF Whole, Dir, Listed
    <3>2. tmp[p] = [there |-> tmp[p].there, entries |-> tmp[p].entries]
      BY <1>2 DEF IInv, Typed, Directories
    <3> QED BY <1>3, <2>3, <3>1, <3>2 DEF Whole, Dir
  <2>5. CachedIsWhole'
    <3> SUFFICES ASSUME NEW x \in Paths, final'[x].there
                 PROVE  \E c \in Served[x] :
                          /\ Parses(c)
                          /\ Whole(c).entries \subseteq final'[x].entries
                          /\ full' = 0 => final'[x] = Whole(c)
      BY DEF CachedIsWhole
    <3>1. CASE x = p
      BY <1>1, <1>3, <2>1, <2>3, <2>4, <3>1
    <3>2. CASE x # p
      <4>1. final'[x] = final[x]
        BY <1>2, <1>6, <3>2 DEF IInv, Typed
      <4> QED BY <1>1, <4>1 DEF IInv, CachedIsWhole
    <3> QED BY <3>1, <3>2
  <2>6. \A x \in Paths \ {p} : final'[x] = final[x] /\ tmp'[x] = tmp[x]
    BY <1>2, <1>6 DEF RemoveTmp, IInv, Typed
  <2> QED BY <1>1, <1>2, <1>3, <1>5, <1>6, <2>1, <2>2, <2>5, <2>6, NextPathKeeps
<1>7. ASSUME Fault \/ UNCHANGED faults, RemoveTmp(p), Fail(r), UNCHANGED final PROVE IInv'
  <2>1. faults' \in 0..MaxFaults
    BY <1>7, CacheBounds DEF Fault, IInv, Typed, TypeOK
  <2> QED BY <1>1, <1>2, <1>5, <1>7, <2>1, FailKeeps DEF IInv, Typed, TypeOK
<1> QED BY <1>6, <1>7 DEF Rename

(* A request answered or dropped: never while its extraction runs. *)
LEMMA DropKeeps ==
  ASSUME IInv, NEW r \in Requests, Drop(r)
  PROVE  IInv'
<1>1. /\ pc[r] \in {"ok", "err", "lock", "narinfo", "nar"}
      /\ pc' = [pc EXCEPT ![r] = "idle"] /\ todo' = [todo EXCEPT ![r] = <<>>]
      /\ asked' = [asked EXCEPT ![r] = {}]
      /\ build' = [build EXCEPT ![r] = NoBuild] /\ bytes' = [bytes EXCEPT ![r] = NoBuild]
      /\ at' = [at EXCEPT ![r] = 1]
      /\ holder' = [p \in Paths |-> IF holder[p] = r THEN NoRequest ELSE holder[p]]
      /\ UNCHANGED <<final, tmp, faults, full, crashes>>
  BY DEF Drop, Unlock
<1>2. Typed'
  BY <1>1 DEF IInv, Typed, TypeOK, PCs
<1>3. pc'[r] = "idle" /\ at'[r] = 1
  BY <1>1 DEF IInv, Typed, TypeOK
<1>4. Frame(r)
  BY <1>1 DEF Frame, IInv, Typed, TypeOK
<1>5. RequestOK(r)' /\ ClosureOK(r)'
  BY <1>3 DEF RequestOK, ClosureOK, Locked, Writing, Given, Filling, Working
<1>6. CachedIsWhole'
  BY <1>1, WholeKept DEF IInv
<1>7. pc[r] \in Locked /\ full = 0 => tmp[Current(r)].entries = {}
  BY <1>1, FreshTmp DEF Filling
<1> QED BY <1>1, <1>2, <1>4, <1>5, <1>6, <1>7, Framed

(* The driver restarts on a cache directory without temporary directories. *)
LEMMA RestartKeeps ==
  ASSUME IInv, Restart
  PROVE  IInv'
<1>1. /\ crashes < MaxCrashes /\ crashes' = crashes + 1
      /\ holder' = [p \in Paths |-> NoRequest]
      /\ pc' = [r \in Requests |-> "idle"] /\ todo' = [r \in Requests |-> <<>>]
      /\ asked' = [r \in Requests |-> {}]
      /\ build' = [r \in Requests |-> NoBuild] /\ bytes' = [r \in Requests |-> NoBuild]
      /\ at' = [r \in Requests |-> 1]
      /\ tmp' = [p \in Paths |-> Absent] /\ UNCHANGED <<final, faults, full>>
  BY DEF Restart, Forget
<1>2. Typed'
  <2>1. tmp' \in [Paths -> Directories]
    BY <1>1, DirectoryTypes
  <2>2. \A p \in Paths : final'[p].there \in BOOLEAN /\ tmp'[p].there \in BOOLEAN
    BY <1>1, <2>1 DEF IInv, Typed, Directories
  <2>3. crashes' \in 0..MaxCrashes
    BY <1>1, CacheBounds DEF IInv, Typed, TypeOK
  <2> QED BY <1>1, <2>1, <2>2, <2>3 DEF IInv, Typed, TypeOK, PCs
<1>3. NoLeftovers'
  BY <1>1 DEF NoLeftovers, Absent
<1>4. CachedIsWhole'
  BY <1>1, WholeKept DEF IInv
<1>5. \A r \in Requests : RequestOK(r)' /\ ClosureOK(r)'
  BY <1>1 DEF RequestOK, ClosureOK, Locked, Writing, Given, Filling, Working
<1> QED BY <1>2, <1>3, <1>4, <1>5 DEF IInv

(* Every step of every request, every restart, and no step at all. *)
LEMMA NextIInv == IInv /\ [Next]_vars => IInv'
<1> SUFFICES ASSUME IInv, [Next]_vars PROVE IInv'
  OBVIOUS
<1>1. ASSUME NEW r \in Requests, NEW closure \in Closures, Begin(r, closure) PROVE IInv'
  BY <1>1, BeginKeeps
<1>2. ASSUME NEW r \in Requests, Step(r) PROVE IInv'
  BY <1>2, ProbeKeeps, FinishKeeps, AcquireKeeps, FetchNarinfoKeeps, FetchNarKeeps,
     UnpackKeeps, MakeTmpKeeps, ParseKeeps, ExtractEntryKeeps, ExtractRootKeeps,
     RenameKeeps DEF Step
<1>3. ASSUME NEW r \in Requests, Drop(r) PROVE IInv'
  BY <1>3, DropKeeps
<1>4. CASE Restart
  BY <1>4, RestartKeeps
<1>5. CASE UNCHANGED vars
  <2>1. Typed' /\ CachedIsWhole'
    BY <1>5 DEF vars, requestVars, IInv, Typed, TypeOK, CachedIsWhole
  <2>2. NoLeftovers'
    BY <1>5 DEF vars, requestVars, IInv, NoLeftovers, WrittenBy, Listed, Current
  <2>3. \A r \in Requests : RequestOK(r)' /\ ClosureOK(r)'
    BY <1>5 DEF vars, requestVars, IInv, RequestOK, ClosureOK, Current, Written, Listed
  <2> QED BY <2>1, <2>2, <2>3 DEF IInv
<1> QED BY <1>1, <1>2, <1>3, <1>4, <1>5 DEF Next

(* The lock is held by the request it was granted to, the temporary        *)
(* directory is that request's work, and what is cached is whole.          *)
THEOREM CacheInvariant == Spec => []IInv
BY InitIInv, NextIInv, PTL DEF Spec

-----------------------------------------------------------------------------
(* Results *)

(* ensure_cached: a path under its lock is not cached, and is fetched by   *)
(* one request only, whatever the number of requests and paths.            *)
THEOREM NoDuplicateFetchTheorem == Spec => []NoDuplicateFetch
<1>1. IInv => NoDuplicateFetch
  <2> SUFFICES ASSUME IInv, NEW r \in Requests, pc[r] \in Locked
               PROVE  /\ ~final[Current(r)].there
                      /\ \A q \in Requests \ {r} : pc[q] \in Locked => Current(q) # Current(r)
    BY DEF NoDuplicateFetch
  <2> QED BY Exclusion DEF IInv, RequestOK
<1> QED BY <1>1, CacheInvariant, PTL

(* fetch_and_extract: a cached path holds every entry of one archive that  *)
(* parsed and was served for it, and nothing else until a write fails.     *)
THEOREM CachedIsWholeTheorem == Spec => []CachedIsWhole
<1>1. IInv => CachedIsWhole
  BY DEF IInv
<1> QED BY <1>1, CacheInvariant, PTL

(* Every step of the cache is a step of CacheStore or changes nothing the  *)
(* callers see.                                                            *)
LEMMA StepImplements == IInv /\ [Next]_vars => [Store!Next]_(Store!storeVars)
<1> SUFFICES ASSUME IInv, [Next]_vars
             PROVE  Store!Next \/ UNCHANGED Store!storeVars
  OBVIOUS
<1> DEFINE have == {p \in Paths : final[p].there}
           answer == [r \in Requests |-> Answer(r)]
<1>1. ASSUME UNCHANGED final PROVE have' = have
  BY <1>1
<1>2. ASSUME NEW r \in Requests, NEW label, pc' = [pc EXCEPT ![r] = label]
      PROVE  answer' = [answer EXCEPT ![r] = IF label = "idle" THEN "none" ELSE
                                             IF label \in Working THEN "wait" ELSE label]
  BY <1>2 DEF Answer, IInv, Typed, TypeOK
<1>3. ASSUME NEW r \in Requests, NEW closure \in Closures, Begin(r, closure)
      PROVE  Store!Next
  <2>1. answer' = [answer EXCEPT ![r] = "wait"] /\ answer[r] = "none"
    BY <1>2, <1>3 DEF Begin, Answer, Working
  <2>2. ToSet(closure) \in SUBSET Paths
    BY ClosuresAssumption, ToSetType
  <2>3. Store!Ask(r, ToSet(closure))
    BY <1>1, <1>3, <2>1 DEF Begin, Store!Ask
  <2> QED BY <2>2, <2>3 DEF Store!Next
<1>4. ASSUME NEW r \in Requests, NEW label \in Working, pc[r] \in Working,
             pc' = [pc EXCEPT ![r] = label], UNCHANGED <<final, asked>>
      PROVE  UNCHANGED Store!storeVars
  <2>1. answer' = answer
    BY <1>4 DEF Answer, Working, Locked, Writing, IInv, Typed, TypeOK
  <2> QED BY <1>1, <1>4, <2>1 DEF Store!storeVars
<1>5. ASSUME NEW r \in Requests, pc[r] \in Working, Fail(r), UNCHANGED final
      PROVE  Store!Next
  <2>1. answer' = [answer EXCEPT ![r] = "err"] /\ answer[r] = "wait" /\ UNCHANGED asked
    <3>1. pc' = [pc EXCEPT ![r] = "err"] /\ UNCHANGED asked
      BY <1>5 DEF Fail, Goto
    <3> QED BY <1>2, <1>5, <3>1 DEF Answer, Working, Locked, Writing
  <2> QED BY <1>1, <1>5, <2>1 DEF Store!Next, Store!Refuse
<1>6. ASSUME NEW r \in Requests, Probe(r) \/ Acquire(r) PROVE UNCHANGED Store!storeVars
  <2>1. /\ UNCHANGED <<final, asked>> /\ pc[r] \in Working
        /\ \E label \in Working : pc' = [pc EXCEPT ![r] = label]
    BY <1>6 DEF Probe, Acquire, NextPath, Goto, Working, Locked
  <2> QED BY <1>4, <2>1
<1>7. ASSUME NEW r \in Requests, Finish(r) PROVE Store!Next
  <2>1. /\ pc[r] = "probe" /\ todo[r] = <<>> /\ UNCHANGED <<final, asked>>
        /\ pc' = [pc EXCEPT ![r] = "ok"]
    BY <1>7 DEF Finish, Goto
  <2>2. answer' = [answer EXCEPT ![r] = "ok"] /\ answer[r] = "wait"
    BY <1>2, <2>1 DEF Answer, Working, Locked, Writing
  <2>3. asked[r] \subseteq have
    <3>1. ToSet(todo[r]) = {} /\ asked[r] \subseteq Paths
      BY <2>1 DEF ToSet, IInv, Typed, TypeOK
    <3> QED BY <2>1, <3>1 DEF IInv, ClosureOK, Working
  <2> QED BY <1>1, <2>1, <2>2, <2>3 DEF Store!Next, Store!Succeed
<1>8. ASSUME NEW r \in Requests,
             \/ FetchNarinfo(r) \/ FetchNar(r) \/ Unpack(r) \/ MakeTmp(r) \/ Parse(r)
             \/ ExtractRoot(r)
      PROVE  Store!Next \/ UNCHANGED Store!storeVars
  <2>1. /\ UNCHANGED final /\ pc[r] \in Working
        /\ Fail(r) \/ \E label \in Working : Goto(r, label)
    BY <1>8 DEF FetchNarinfo, FetchNar, Unpack, MakeTmp, Parse, ExtractRoot,
                Working, Locked, Writing
  <2> QED BY <1>4, <1>5, <2>1 DEF Goto
<1>9. ASSUME NEW r \in Requests, ExtractEntry(r)
      PROVE  Store!Next \/ UNCHANGED Store!storeVars
  <2>1. /\ UNCHANGED final /\ pc[r] \in Working
        /\ Fail(r) \/ UNCHANGED <<pc, asked>>
    BY <1>9 DEF ExtractEntry, Extracting, Working, Locked, Writing
  <2>2. CASE UNCHANGED <<pc, asked>>
    <3>1. answer' = answer
      BY <2>2 DEF Answer
    <3> QED BY <1>1, <2>1, <2>2, <3>1 DEF Store!storeVars
  <2> QED BY <1>5, <2>1, <2>2
<1>10. ASSUME NEW r \in Requests, Rename(r) PROVE Store!Next
  <2> DEFINE p == Current(r)
  <2>1. pc[r] = "rename" /\ pc[r] \in Working /\ pc[r] \in Locked /\ pc[r] \in Writing
    BY <1>10 DEF Rename, Working, Locked, Writing
  <2>2. CASE Fail(r) /\ UNCHANGED final
    BY <1>5, <2>1, <2>2
  <2>3. CASE final' = [final EXCEPT ![p] = tmp[p]] /\ NextPath(r)
    <3>1. p \in Paths /\ todo[r] # <<>> /\ todo[r] \in Seq(Paths)
      BY <2>1, CurrentType
    <3>2. p \in asked[r]
      <4>1. p \in ToSet(todo[r])
        BY <3>1, Remaining DEF Current
      <4> QED BY <2>1, <4>1 DEF IInv, ClosureOK
    <3>3. ~final[p].there /\ tmp[p].there
      BY <2>1 DEF IInv, RequestOK
    <3>4. have' = have \cup {p} /\ p \notin have
      BY <2>3, <3>1, <3>3 DEF IInv, Typed
    <3>5. /\ pc' = [pc EXCEPT ![r] = "probe"] /\ UNCHANGED asked
      BY <2>3 DEF NextPath
    <3>6. answer' = answer /\ answer[r] = "wait"
      BY <2>1, <3>5 DEF Answer, Working, Locked, Writing, IInv, Typed, TypeOK
    <3>7. \E x \in Paths : Store!Store(r, x)
      BY <3>1, <3>2, <3>4, <3>5, <3>6 DEF Store!Store
    <3> QED BY <3>7 DEF Store!Next
  <2> QED BY <1>10, <2>2, <2>3 DEF Rename
<1>11. ASSUME NEW r \in Requests, Drop(r) PROVE Store!Next
  <2>1. /\ pc[r] \in {"ok", "err", "lock", "narinfo", "nar"} /\ UNCHANGED final
        /\ pc' = [pc EXCEPT ![r] = "idle"] /\ asked' = [asked EXCEPT ![r] = {}]
    BY <1>11 DEF Drop
  <2>2. answer' = [answer EXCEPT ![r] = "none"] /\ answer[r] # "none"
    BY <1>2, <2>1 DEF Answer
  <2> QED BY <1>1, <2>1, <2>2 DEF Store!Next, Store!Close
<1>12. CASE Restart
  <2>1. /\ UNCHANGED final /\ asked' = [r \in Requests |-> {}]
        /\ pc' = [r \in Requests |-> "idle"]
    BY <1>12 DEF Restart, Forget
  <2>2. answer' = [r \in Requests |-> "none"]
    BY <2>1 DEF Answer
  <2> QED BY <1>1, <2>1, <2>2 DEF Store!Next, Store!CloseAll
<1>13. CASE UNCHANGED vars
  BY <1>13 DEF vars, requestVars, Store!storeVars, Answer
<1> QED BY <1>3, <1>6, <1>7, <1>8, <1>9, <1>10, <1>11, <1>12, <1>13 DEF Next, Step

(* ensure_cached implements CacheStore: an Ok means that the whole closure *)
(* is cached, a path enters the cache only for a request that asked for    *)
(* it, and no path leaves the cache - restarts included.                   *)
THEOREM Refinement == Spec => ImplementsStore
<1>1. Init => Store!Init
  BY DEF Init, Store!Init, Absent, Answer
<1> QED BY <1>1, CacheInvariant, StepImplements, PTL
        DEF Spec, ImplementsStore, Store!Spec

=============================================================================
