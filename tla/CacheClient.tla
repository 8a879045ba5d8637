---------------------------- MODULE CacheClient ----------------------------
(***************************************************************************)
(* Fetching from several binary caches                                     *)
(* (crates/niphas-core/src/nix/cache_client.rs) and reading the .narinfo   *)
(* that comes back (narinfo.rs).  A cache is its priority and what its     *)
(* answer to the request would be.                                         *)
(***************************************************************************)
EXTENDS Naturals, Sequences, FiniteSets

(* good: a success with a body that parses; garbled: a success whose body    *)
(* cannot be read or parsed; notFound: 404; refused: another status; down.   *)
Answers == {"good", "garbled", "notFound", "refused", "down"}
Success == {"good", "garbled"}

(* Mutant: the least preferred first. *)
SortedByPriority_Reversed(caches) ==
  LET Before(i, j) == \/ caches[i].priority > caches[j].priority
                      \/ caches[i].priority = caches[j].priority /\ i < j
  IN  [k \in DOMAIN caches |->
         CHOOSE i \in DOMAIN caches :
           Cardinality({j \in DOMAIN caches : Before(j, i)}) = k - 1]

(* CacheClient::new: sort_by_key keeps the order of equal priorities.        *)
(* The result lists positions in the configured list: the k-th has k - 1     *)
(* before it.                                                                *)
SortedByPriority(caches) ==
  LET Before(i, j) == \/ caches[i].priority < caches[j].priority
                      \/ caches[i].priority = caches[j].priority /\ i < j
  IN  [k \in DOMAIN caches |->
         CHOOSE i \in DOMAIN caches :
           Cardinality({j \in DOMAIN caches : Before(j, i)}) = k - 1]

NoCaches == [tag |-> "Cache", from |-> 0]

(* The loop of fetch_narinfo and fetch_narinfo_by_hash: the first success is *)
(* returned, readable or not; an error is remembered and the loop goes on.   *)
FetchNarinfo(caches) ==
  LET Ask(r, i) ==
        IF r.tag \in {"NarInfo", "Body"} THEN r
        ELSE [from |-> i,
              tag  |-> CASE caches[i].answer = "good"     -> "NarInfo"
                         [] caches[i].answer = "garbled"  -> "Body"
                         [] caches[i].answer = "notFound" -> "StorePathNotCached"
                         [] OTHER                         -> "Cache"]
      after[n \in 0..Len(caches)] ==
        IF n = 0 THEN NoCaches ELSE Ask(after[n - 1], SortedByPriority(caches)[n])
  IN  after[Len(caches)]

(* fetch_nar: the same loop, with no case for 404, over the same caches in   *)
(* the same order, whichever of them the narinfo came from.                  *)
FetchNar(caches) ==
  LET Ask(r, i) ==
        IF r.tag \in {"Bytes", "Body"} THEN r
        ELSE [from |-> i,
              tag  |-> CASE caches[i].answer = "good"    -> "Bytes"
                         [] caches[i].answer = "garbled" -> "Body"
                         [] OTHER                        -> "Cache"]
      after[n \in 0..Len(caches)] ==
        IF n = 0 THEN NoCaches ELSE Ask(after[n - 1], SortedByPriority(caches)[n])
  IN  after[Len(caches)]

-----------------------------------------------------------------------------
(* NarInfo::parse.  A line is blank, or a key and a value. *)

Required == {"StorePath", "URL", "Compression", "FileHash", "FileSize", "NarHash", "NarSize"}
Keys     == Required \cup {"References", "Deriver", "Sig", "CA", "Unknown"}
Free     == {"URL", "Deriver", "CA", "Unknown"}   \* any text will do

Blank       == [key |-> "", value |-> ""]
Line(k, v)  == [key |-> k, value |-> v]

(***************************************************************************)
(* trim() also takes the blank after the colon of a line with no value, so *)
(* split_once(": ") finds nothing there and the line is malformed.         *)
(***************************************************************************)
Malformed(line) == line.value = ""
Parses(line)    == line.key \in Free \/ line.value # "bad"

NoInfo == [k \in Keys \ {"Unknown"} |-> <<>>]

(* Mutant: the first value of a key stays. *)
ReadLine_FirstWins(info, line) ==
  CASE line.key = "Unknown" -> info
    [] line.key = "Sig"     -> [info EXCEPT !.Sig = Append(@, line.value)]
    [] OTHER                -> [info EXCEPT ![line.key] = IF @ = <<>> THEN <<line.value>> ELSE @]

(* A key that comes again replaces what it said, except Sig, which adds. *)
ReadLine(info, line) ==
  CASE line.key = "Unknown" -> info
    [] line.key = "Sig"     -> [info EXCEPT !.Sig = Append(@, line.value)]
    [] OTHER                -> [info EXCEPT ![line.key] = <<line.value>>]

ParseNarInfo(lines) ==
  LET Turn(r, line) ==
        IF r.tag = "err" \/ line = Blank THEN r
        ELSE IF Malformed(line) \/ ~Parses(line) THEN [r EXCEPT !.tag = "err"]
        ELSE [r EXCEPT !.info = ReadLine(@, line)]
      after[n \in 0..Len(lines)] ==
        IF n = 0 THEN [tag |-> "ok", info |-> NoInfo] ELSE Turn(after[n - 1], lines[n])
      read == after[Len(lines)]
  IN  IF \E k \in Required : read.info[k] = <<>> THEN [read EXCEPT !.tag = "err"] ELSE read

=============================================================================
