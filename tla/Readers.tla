------------------------------ MODULE Readers ------------------------------
(***************************************************************************)
(* The readers of niphas-core and niphas-eval that map a whole input to a  *)
(* result, each given any input of its type, and what each of them         *)
(* promises about it.                                                      *)
(***************************************************************************)
EXTENDS Base32, Admission, CacheClient, Config

VARIABLES
  subject,   \* the reader a behaviour is about
  input,     \* what it has been given
  pattern    \* the allowlist entry a glob is matched with

formatVars == <<subject, input, pattern>>

Texts  == Seq(STRING)
Lines  == {Blank} \cup [key : Keys, value : STRING]
Caches == [priority : Nat, answer : Answers]
Layer  == UNION {[ks -> STRING] : ks \in SUBSET STRING}

(* What each reader may be given.  Figment's environment provider only makes *)
(* the keys of EnvKeys, among those that a setting has.                      *)
Inputs ==
  [bytes |-> Seq(0..255), text |-> Seq(Nat), basename |-> Seq(Nat), glob |-> Texts,
   flakeRef |-> Texts, attribute |-> Texts, revision |-> Texts, caches |-> Seq(Caches),
   narinfo |-> Seq(Lines),
   config |-> {ls \in Seq(Layer) : Len(ls) = 3 => DOMAIN ls[3] \subseteq EnvKeys}]

ReadersTypeOK ==
  /\ subject \in DOMAIN Inputs /\ input \in Inputs[subject]
  /\ pattern \in Texts

ReadersSpec == ReadersTypeOK /\ [][ReadersTypeOK']_formatVars

-----------------------------------------------------------------------------
(* Properties *)

(***************************************************************************)
(* to_nix_base32: bit n of the bytes is bit n of the text, counted from    *)
(* the text's end, with zeros after the last byte; decoding gives the      *)
(* bytes back, at every length.                                            *)
(***************************************************************************)
EncodedIsTheBits ==
  subject = "bytes" =>
    LET text == ToNixBase32(input)
    IN  /\ \A n \in 0..5 * Len(text) - 1 :
             BitOfText(text, n) = IF n < 8 * Len(input) THEN BitOfBytes(input, n) ELSE 0
        /\ FromNixBase32(text) = Ok(input)

(***************************************************************************)
(* from_nix_base32: text that is not of the alphabet is refused; text of   *)
(* the alphabet decodes, if at all, to its low bits, surplus high bits     *)
(* being dropped; and it does decode at every length an encoding has.  At  *)
(* the other lengths the first character has no byte to go to and the      *)
(* index is out of bounds: the property asks for nothing there.            *)
(***************************************************************************)
DecodedIsTheBits ==
  subject = "text" =>
    LET r       == FromNixBase32(input)
        letters == \A i \in DOMAIN input : IsDigit(input[i])
    IN  /\ ~letters => r = Err
        /\ letters /\ Len(input) % 8 \in {0, 2, 4, 5, 7} => r.tag = "ok"
        /\ r.tag = "ok" => /\ Len(r.value) = (5 * Len(input)) \div 8
                          /\ \A n \in 0..8 * Len(r.value) - 1 :
                               BitOfBytes(r.value, n) = BitOfText(input, n)

(***************************************************************************)
(* StorePath::parse_basename accepts exactly the proper names, and what it *)
(* accepts prints back as it was - the directory names of the cache and    *)
(* the names in References are compared as text.  It panics, if ever, on   *)
(* a text in which a character lies across the hash's end.                 *)
(***************************************************************************)
BasenamePrintsBack ==
  subject = "basename" =>
    LET r      == ParseBasename(input)
        proper == /\ Len(input) > HashLen + 1 /\ input[HashLen + 1] = Dash
                  /\ \A i \in 1..HashLen : IsDigit(input[i])
    IN  /\ r.tag = "ok" <=> proper
        /\ r.tag = "ok" => Basename(r.value) = input
        /\ r.tag = "panic" => Len(input) > HashLen + 1 /\ InCharacter(input[HashLen + 1])

(***************************************************************************)
(* matches_glob, whatever its backtracking does, accepts what the doc      *)
(* comment describes, where a '*' covers no '/', and nothing that the      *)
(* pattern cannot be laid along at all.  The two agree on references       *)
(* without a '/'; on others the code takes more than the comment says.  An *)
(* empty list admits nothing.                                              *)
(***************************************************************************)
GlobIsItsLanguage ==
  subject = "glob" =>
    LET accepted == OnAllowlist(input, <<pattern>>)
    IN  /\ GlobLanguage(input, pattern, {"/"}) => accepted
        /\ accepted => GlobLanguage(input, pattern, {})
        /\ accepted /\ "/" \notin Range(input) => GlobLanguage(input, pattern, {"/"})
        /\ ~OnAllowlist(input, <<>>)

(***************************************************************************)
(* The validators accept exactly what their doc comments' grammars say, so *)
(* nothing that ends the Nix string or the attribute path reaches nix_eval.*)
(***************************************************************************)
ValidatorsKeepTheirGrammar ==
  /\ subject = "flakeRef"  => ValidateFlakeRef(input) = FlakeRefGrammar(input)
  /\ subject = "attribute" => ValidateAttribute(input) = AttributeGrammar(input)
  /\ subject = "revision"  =>
       ValidateRevision(input) = (/\ 5 < Len(input) /\ Len(input) < 41
                                  /\ \A i \in DOMAIN input : input[i] \in {"a", "7"})

(***************************************************************************)
(* CacheClient: the most preferred cache that answers with a success       *)
(* decides, even with a body that is no narinfo; with none, the error is   *)
(* the least preferred cache's, so StorePathNotCached says nothing of the  *)
(* others.  The NAR is asked in the same order.                            *)
(***************************************************************************)
FirstSuccessDecides ==
  subject = "caches" /\ input # <<>> =>
    LET Prefers(i, j) == \/ input[i].priority < input[j].priority
                         \/ input[i].priority = input[j].priority /\ i <= j
        wins  == {i \in DOMAIN input : input[i].answer \in Success}
        first == CHOOSE i \in wins : \A j \in wins : Prefers(i, j)
        last  == CHOOSE i \in DOMAIN input : \A j \in DOMAIN input : Prefers(j, i)
        info  == FetchNarinfo(input)
    IN  /\ info.from = FetchNar(input).from
        /\ info.from = IF wins # {} THEN first ELSE last
        /\ info.tag = "NarInfo" <=> wins # {} /\ input[first].answer = "good"
        /\ info.tag = "StorePathNotCached" <=> wins = {} /\ input[last].answer = "notFound"

(***************************************************************************)
(* NarInfo::parse: accepted are the files whose every line reads and which *)
(* have all that is required; a field is what its last line says.  A line  *)
(* without a value - the References of a path that has none - never reads. *)
(***************************************************************************)
NarInfoIsItsLines ==
  subject = "narinfo" =>
    LET r     == ParseNarInfo(input)
        At(k) == {i \in DOMAIN input : input[i].key = k}
        reads == \A i \in DOMAIN input :
                   input[i] = Blank \/ (input[i].value # "" /\ Parses(input[i]))
    IN  /\ r.tag = "ok" <=> reads /\ \A k \in Required : At(k) # {}
        /\ r.tag = "ok" => \A k \in Keys \ {"Unknown", "Sig"} :
             IF At(k) = {} THEN r.info[k] = <<>>
             ELSE \E i \in At(k) : /\ \A j \in At(k) : j <= i
                                   /\ r.info[k] = <<input[i].value>>
        /\ r.tag = "ok" => Len(r.info["Sig"]) = Cardinality(At("Sig"))

(***************************************************************************)
(* load_or_default: every setting is what the highest layer that spells    *)
(* its name says - the standard file above the one given - or, once one    *)
(* of them is bad or a file is unreadable, every setting is its default,   *)
(* which leaves the allowlist empty.                                       *)
(***************************************************************************)
ConfigAllOrNothing ==
  subject = "config" /\ Len(input) = 3 =>
    LET loaded    == LoadOrDefault(input[1], input[2], input[3])
        Setters(s) == {i \in 1..3 : s \in DOMAIN input[i]}
        Says(s)   == input[CHOOSE i \in Setters(s) : \A j \in Setters(s) : j <= i][s]
        sound     == /\ \A i \in 1..3 : input[i] # Unreadable
                     /\ \A s \in Settings : Setters(s) # {} => Says(s) # "bad"
    IN  \A s \in Settings :
          loaded[s] = IF sound /\ Setters(s) # {} THEN Says(s) ELSE "default"

=============================================================================
