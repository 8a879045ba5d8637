----------------------------- MODULE Admission -----------------------------
(***************************************************************************)
(* What niphas-eval checks before it runs nix: the validators of           *)
(* crates/niphas-core/src/eval.rs and the allowlist of                     *)
(* crates/niphas-eval/src/allowlist.rs.  A text is a sequence of           *)
(* characters; one character stands for each class the code tells apart.   *)
(***************************************************************************)
EXTENDS Naturals, Sequences, SequencesExt

Letters   == {"a", "g"}                    \* "a" is a hexadecimal digit
Digits    == {"7"}
HexDigits == {"a", "7"}
Alnum     == Letters \cup Digits
InScheme  == Alnum \cup {"+", "-", "."}
InPath    == Alnum \cup {"/", "_", "-", ".", "@", ":", "#", "+", "?", "=", "&", "~"}

All(s, class) == \A i \in DOMAIN s : s[i] \in class

(* str::split_once and str::split at a character *)
FirstAt(s, c)    ==
  LET at == {i \in DOMAIN s : s[i] = c} IN IF at = {} THEN 0 ELSE Min(at)
Before(s, i)     == SubSeq(s, 1, i - 1)
After(s, i)      == SubSeq(s, i + 1, Len(s))
Segments(s, c)   ==
  LET cuts == {0, Len(s) + 1} \cup {i \in DOMAIN s : s[i] = c}
      next == {e \in cuts \X cuts : e[1] < e[2] /\ \A k \in cuts : k <= e[1] \/ k >= e[2]}
  IN  {SubSeq(s, e[1] + 1, e[2] - 1) : e \in next}

ValidateFlakeRef(s) ==
  LET colon == FirstAt(s, ":")
      scheme == Before(s, colon)
      path   == After(s, colon)
  IN  /\ s # <<>> /\ colon # 0
      /\ scheme # <<>> /\ scheme[1] \in Letters /\ All(Tail(scheme), InScheme)
      /\ path # <<>> /\ All(path, InPath)

(* Mutant: an empty segment is let through. *)
ValidateAttribute_EmptySegment(s) ==
  /\ s # <<>>
  /\ \A seg \in Segments(s, ".") :
       seg # <<>> => /\ seg[1] \in Letters \cup {"_"}
                     /\ All(Tail(seg), Alnum \cup {"_", "-"})

ValidateAttribute(s) ==
  /\ s # <<>>
  /\ \A seg \in Segments(s, ".") :
       /\ seg # <<>> /\ seg[1] \in Letters \cup {"_"}
       /\ All(Tail(seg), Alnum \cup {"_", "-"})

ValidateRevision(s) == Len(s) \in 6..40 /\ All(s, HexDigits)

-----------------------------------------------------------------------------
(* Mutant: the position after the last character is not tried. *)
MatchesGlob_OffByOne(input, pattern) ==
  LET end == Len(input) + 1
      matches[left \in 0..Len(pattern)] ==
        [p \in 1..end |->
           LET pc == pattern[Len(pattern) - left + 1]
           IN  CASE left = 0 -> p = end
                 [] left > 0 /\ pc = "*" -> left = 1 \/ \E i \in p..end - 1 : matches[left - 1][i]
                 [] OTHER -> p < end /\ pc = input[p] /\ matches[left - 1][p + 1]]
  IN  matches[Len(pattern)][1]

(***************************************************************************)
(* matches_glob: the loop eats equal characters; at a '*' it tries the     *)
(* rest of the pattern at every position of the rest of the input.         *)
(* matches[left][p]: do the last left characters of the pattern match the  *)
(* input from position p?                                                  *)
(***************************************************************************)
MatchesGlob(input, pattern) ==
  LET end == Len(input) + 1
      matches[left \in 0..Len(pattern)] ==
        [p \in 1..end |->
           LET pc == pattern[Len(pattern) - left + 1]
           IN  CASE left = 0 -> p = end
                 [] left > 0 /\ pc = "*" -> left = 1 \/ \E i \in p..end : matches[left - 1][i]
                 [] OTHER -> p < end /\ pc = input[p] /\ matches[left - 1][p + 1]]
  IN  matches[Len(pattern)][1]

(* validate_flake_ref of allowlist.rs: an empty list denies everything. *)
OnAllowlist(ref, allowlist) == \E p \in Range(allowlist) : MatchesGlob(ref, p)

-----------------------------------------------------------------------------
(* The same languages, said of positions instead of read by a loop. *)

(* A flake reference: the doc comment's scheme and path. *)
FlakeRefGrammar(s) ==
  \E k \in 2..Len(s) - 1 :
    /\ s[k] = ":" /\ s[1] \in Letters
    /\ \A i \in 1..k - 1 : s[i] \in InScheme
    /\ \A i \in k + 1..Len(s) : s[i] \in InPath

(* An attribute: an identifier starts at the start and after every dot. *)
AttributeGrammar(s) ==
  /\ s # <<>> /\ s[Len(s)] # "."
  /\ \A i \in DOMAIN s :
       IF i = 1 \/ s[i - 1] = "." THEN s[i] \in Letters \cup {"_"}
       ELSE s[i] \in Alnum \cup {"_", "-", "."}

(***************************************************************************)
(* A pattern: it can be laid along the text, each '*' over a stretch       *)
(* without a character of `walls`.  The doc comment has one wall, '/'.     *)
(***************************************************************************)
GlobLanguage(text, pattern, walls) ==
  \E end \in [0..Len(pattern) -> 0..Len(text)] :
    /\ end[0] = 0 /\ end[Len(pattern)] = Len(text)
    /\ \A i \in DOMAIN pattern :
         IF pattern[i] = "*"
         THEN /\ end[i] >= end[i - 1]
              /\ \A k \in end[i - 1] + 1..end[i] : text[k] \notin walls
         ELSE end[i] = end[i - 1] + 1 /\ text[end[i]] = pattern[i]

=============================================================================
