---------------------------- MODULE ReaderProofs ----------------------------
(***************************************************************************)
(* What the readers promise, for every input.  Their loops are recursive   *)
(* functions; a property of one is shown by induction on the turns, which  *)
(* rests on the least element of a set of naturals.                        *)
(***************************************************************************)
EXTENDS Readers, FiniteSetTheorems, WellFoundedInduction, NaturalsInduction, TLAPS

-----------------------------------------------------------------------------
(* Induction and iteration *)

(* A set of naturals that is not empty has a least element. *)
LEMMA LeastOf == ASSUME NEW T \in SUBSET Nat, T # {} PROVE \E m \in T : \A n \in T : m <= n
<1> DEFINE R == OpToRel(<, Nat)
<1>1. IsWellFoundedOn(R, Nat)
  BY NatLessThanWellFounded
<1>2. R = {p \in Nat \X Nat : p[1] < p[2]}
  BY DEF OpToRel
<1> HIDE DEF R
<1>3. PICK m \in T : \A n \in T : ~(<<n, m>> \in R)
  BY <1>1, WFMin
<1>4. ASSUME NEW n \in T PROVE m <= n
  <2>1. <<n, m>> \in Nat \X Nat /\ <<n, m>>[1] = n /\ <<n, m>>[2] = m
    OBVIOUS
  <2>2. ~(n < m)
    BY <1>2, <1>3, <2>1
  <2> QED BY <2>2
<1> QED BY <1>4

(* Induction up to n: a set with 0 in it, and with i when i - 1 is, has *)
(* them all.                                                            *)
LEMMA ByInduction ==
  ASSUME NEW n \in Nat, NEW Good, 0 \in Good,
         \A i \in 1..n : i - 1 \in Good => i \in Good
  PROVE  \A i \in 0..n : i \in Good
<1> SUFFICES ASSUME NEW j \in 0..n, j \notin Good PROVE FALSE
  OBVIOUS
<1> DEFINE T == {i \in 0..n : i \notin Good}
<1>1. T \in SUBSET Nat /\ T # {}
  OBVIOUS
<1>2. PICK m \in T : \A i \in T : m <= i
  BY <1>1, LeastOf
<1>3. m \in 0..n /\ m # 0
  BY <1>2
<1>4. m - 1 \in 0..n /\ m \in 1..n
  BY <1>3
<1>5. m - 1 \notin T
  BY <1>2, <1>4
<1> QED BY <1>2, <1>3, <1>4, <1>5

(* Iteration: n steps from b, the i-th by F[i], go through values g[0..n]. *)
(* This is what makes a loop written as a recursive function have a value. *)
LEMMA Iterate ==
  ASSUME NEW V, NEW b \in V, NEW n \in Nat, NEW F \in [1..n -> [V -> V]]
  PROVE  \E g \in [0..n -> V] : g[0] = b /\ \A i \in 1..n : g[i] = F[i][g[i - 1]]
<1> DEFINE Runs(k, g) == g[0] = b /\ \A i \in 1..k : g[i] = F[i][g[i - 1]]
           Good == {k \in 0..n : \E g \in [0..k -> V] : Runs(k, g)}
<1>1. 0 \in Good
  <2> DEFINE g == [i \in 0..0 |-> b]
  <2>1. g \in [0..0 -> V] /\ Runs(0, g)
    OBVIOUS
  <2> HIDE DEF g
  <2> QED BY <2>1, 0 \in 0..n
<1>2. ASSUME NEW k \in 1..n, k - 1 \in Good PROVE k \in Good
  <2>1. PICK h \in [0..k - 1 -> V] : Runs(k - 1, h)
    BY <1>2
  <2> DEFINE g == [i \in 0..k |-> IF i = k THEN F[k][h[k - 1]] ELSE h[i]]
  <2>2. h[k - 1] \in V /\ F[k] \in [V -> V]
    OBVIOUS
  <2>3. g \in [0..k -> V]
    BY <2>2
  <2>4. Runs(k, g)
    <3>1. g[0] = b
      BY <2>1
    <3>2. ASSUME NEW i \in 1..k PROVE g[i] = F[i][g[i - 1]]
      <4>1. i - 1 \in 0..k /\ i - 1 # k /\ i \in 0..k
        OBVIOUS
      <4>2. g[i - 1] = h[i - 1]
        BY <4>1
      <4>3. CASE i = k
        BY <4>2, <4>3
      <4>4. CASE i # k
        BY <2>1, <4>2, <4>4
      <4> QED BY <4>3, <4>4
    <3> QED BY <3>1, <3>2
  <2> HIDE DEF g
  <2> QED BY <2>3, <2>4, k \in 0..n
<1> HIDE DEF Good
<1>3. \A k \in 0..n : k \in Good
  BY <1>1, <1>2, ByInduction
<1>4. n \in Good
  BY <1>3, n \in 0..n
<1> QED BY <1>4 DEF Good

-----------------------------------------------------------------------------
(* The configuration *)

(* load_or_default, for any three layers: the setting of the highest one, *)
(* or the defaults once one of them is bad.                               *)
LEMMA ConfigHolds == ReadersTypeOK => ConfigAllOrNothing
<1> SUFFICES ASSUME ReadersTypeOK, subject = "config", Len(input) = 3
             PROVE  ConfigAllOrNothing
  BY DEF ConfigAllOrNothing
<1> DEFINE path == input[1]
           standard == input[2]
           env == input[3]
           Setters(s) == {i \in 1..3 : s \in DOMAIN input[i]}
           Says(s) == input[CHOOSE i \in Setters(s) : \A j \in Setters(s) : j <= i][s]
           sound == /\ \A i \in 1..3 : input[i] # Unreadable
                    /\ \A s \in Settings : Setters(s) # {} => Says(s) # "bad"
           merged == Merged(path, standard, env)
(* Says is the highest layer's word. *)
<1>1. ASSUME NEW s
      PROVE  Setters(s) # {} =>
               Says(s) = IF s \in DOMAIN env THEN env[s]
                         ELSE IF s \in DOMAIN standard THEN standard[s] ELSE path[s]
  <2> SUFFICES ASSUME Setters(s) # {}
               PROVE Says(s) = IF s \in DOMAIN env THEN env[s]
                               ELSE IF s \in DOMAIN standard THEN standard[s] ELSE path[s]
    OBVIOUS
  <2> DEFINE top == CHOOSE i \in Setters(s) : \A j \in Setters(s) : j <= i
  <2>1. \E i \in Setters(s) : \A j \in Setters(s) : j <= i
    <3>1. 3 \in Setters(s) \/ 2 \in Setters(s) \/ 1 \in Setters(s)
      OBVIOUS
    <3>2. \A j \in Setters(s) : j = 1 \/ j = 2 \/ j = 3
      OBVIOUS
    <3> QED BY <3>1, <3>2
  <2>2. top \in Setters(s) /\ \A j \in Setters(s) : j <= top
    BY <2>1
  <2> HIDE DEF top
  <2>3. Says(s) = input[top][s]
    BY DEF top
  <2>4. /\ 3 \in Setters(s) <=> s \in DOMAIN env
        /\ 2 \in Setters(s) <=> s \in DOMAIN standard
        /\ 1 \in Setters(s) <=> s \in DOMAIN path
        /\ top \in {1, 2, 3}
    BY <2>2
  <2> HIDE DEF Setters, Says
  <2>5. top = IF s \in DOMAIN env THEN 3 ELSE IF s \in DOMAIN standard THEN 2 ELSE 1
    BY <2>2, <2>4
  <2> QED BY <2>3, <2>5
<1>2. ASSUME NEW s \in Settings
      PROVE  /\ s \in DOMAIN merged
             /\ merged[s] = IF Setters(s) # {} THEN Says(s) ELSE "default"
  <2>1. Setters(s) # {} <=> (s \in DOMAIN env \/ s \in DOMAIN standard \/ s \in DOMAIN path)
    <3>1. /\ 3 \in Setters(s) <=> s \in DOMAIN env
          /\ 2 \in Setters(s) <=> s \in DOMAIN standard
          /\ 1 \in Setters(s) <=> s \in DOMAIN path
      OBVIOUS
    <3>2. \A j \in Setters(s) : j = 1 \/ j = 2 \/ j = 3
      OBVIOUS
    <3> HIDE DEF Setters
    <3> QED BY <3>1, <3>2
  <2> HIDE DEF Setters, Says
  <2> QED BY <1>1, <2>1 DEF Merged, Merge, Default
<1>3. env # Unreadable
  <2>1. DOMAIN env \subseteq EnvKeys
    BY DEF ReadersTypeOK, Inputs
  <2>2. "unreadable" \in DOMAIN Unreadable /\ "unreadable" \notin EnvKeys
    BY DEF Unreadable, EnvKeys
  <2> QED BY <2>1, <2>2
<1> HIDE DEF Setters, Says
<1>4. sound <=> ~LoadFails(path, standard, env)
  <2> HIDE DEF merged
  <2>1. (\A s \in Settings : Setters(s) # {} => Says(s) # "bad")
          <=> (\A s \in Settings : merged[s] # "bad")
    BY <1>2
  <2>2. (\A i \in 1..3 : input[i] # Unreadable) <=> (Unreadable \notin {path, standard})
    <3>1. \A i \in 1..3 : i = 1 \/ i = 2 \/ i = 3
      OBVIOUS
    <3> QED BY <1>3, <3>1
  <2> QED BY <2>1, <2>2 DEF LoadFails, merged
<1>5. ASSUME NEW s \in Settings
      PROVE  LoadOrDefault(path, standard, env)[s]
               = IF sound /\ Setters(s) # {} THEN Says(s) ELSE "default"
  <2> HIDE DEF merged, sound
  <2>1. CASE sound
    BY <1>2, <1>4, <2>1 DEF LoadOrDefault, Restrict, merged
  <2>2. CASE ~sound
    BY <1>4, <2>2 DEF LoadOrDefault, Default
  <2> QED BY <2>1, <2>2
<1> QED BY <1>5 DEF ConfigAllOrNothing, Setters, Says

-----------------------------------------------------------------------------
(* Flake references and attributes *)

(* A stretch of a sequence, by its positions. *)
LEMMA SubSeqAt ==
  ASSUME NEW C, NEW s \in Seq(C), NEW a \in Nat \ {0}, NEW b \in 0..Len(s), a <= b + 1
  PROVE  /\ SubSeq(s, a, b) \in Seq(C)
         /\ Len(SubSeq(s, a, b)) = b - a + 1
         /\ \A i \in 1..b - a + 1 : SubSeq(s, a, b)[i] = s[a + i - 1]
  OBVIOUS

(* All but the first element, by its positions. *)
LEMMA TailAt ==
  ASSUME NEW C, NEW s \in Seq(C), s # <<>>
  PROVE  /\ Tail(s) \in Seq(C)
         /\ Len(Tail(s)) = Len(s) - 1
         /\ \A i \in 1..Len(s) - 1 : Tail(s)[i] = s[i + 1]
  OBVIOUS

(* A sequence is empty when it has no length. *)
LEMMA Empty ==
  ASSUME NEW C, NEW s \in Seq(C)
  PROVE  s # <<>> <=> Len(s) >= 1
  OBVIOUS

(* The first character of a piece and the rest of it, by positions. *)
LEMMA Piece ==
  ASSUME NEW s \in Texts, NEW a \in Nat \ {0}, NEW b \in 0..Len(s), a <= b,
         NEW H, NEW R
  PROVE  LET p == SubSeq(s, a, b)
         IN  (p[1] \in H /\ All(Tail(p), R)) <=> (s[a] \in H /\ \A i \in a + 1..b : s[i] \in R)
<1> DEFINE p == SubSeq(s, a, b)
<1>1. p \in Seq(STRING) /\ Len(p) = b - a + 1 /\ \A i \in 1..b - a + 1 : p[i] = s[a + i - 1]
  BY SubSeqAt DEF Texts
<1> HIDE DEF p
<1>2. p # <<>>
  BY <1>1, Empty
<1>3. /\ Tail(p) \in Seq(STRING) /\ Len(Tail(p)) = b - a
      /\ \A i \in 1..b - a : Tail(p)[i] = p[i + 1]
  BY <1>1, <1>2, TailAt
<1>4. \A i \in 1..b - a : Tail(p)[i] = s[a + i]
  BY <1>1, <1>3
<1>5. DOMAIN Tail(p) = 1..b - a
  BY <1>3
<1>6. All(Tail(p), R) <=> \A i \in 1..b - a : s[a + i] \in R
  BY <1>4, <1>5 DEF All
<1>7. (\A i \in 1..b - a : s[a + i] \in R) <=> \A i \in a + 1..b : s[i] \in R
  <2>1. ASSUME \A i \in 1..b - a : s[a + i] \in R, NEW i \in a + 1..b PROVE s[i] \in R
    <3>1. i - a \in 1..b - a /\ a + (i - a) = i
      OBVIOUS
    <3> QED BY <2>1, <3>1
  <2>2. ASSUME \A i \in a + 1..b : s[i] \in R, NEW i \in 1..b - a PROVE s[a + i] \in R
    BY <2>2
  <2> QED BY <2>1, <2>2
<1>8. p[1] = s[a]
  BY <1>1
<1> QED BY <1>6, <1>7, <1>8 DEF p

(* FirstAt is 0 when the character does not occur, and else its first *)
(* position.                                                          *)
LEMMA FirstAtIs ==
  ASSUME NEW s \in Texts, NEW c
  PROVE  /\ FirstAt(s, c) = 0 => \A i \in 1..Len(s) : s[i] # c
         /\ FirstAt(s, c) # 0 => /\ FirstAt(s, c) \in 1..Len(s) /\ s[FirstAt(s, c)] = c
                                 /\ \A i \in 1..FirstAt(s, c) - 1 : s[i] # c
<1> DEFINE at == {i \in DOMAIN s : s[i] = c}
<1>1. DOMAIN s = 1..Len(s) /\ Len(s) \in Nat
  BY DEF Texts
<1>2. CASE at = {}
  BY <1>1, <1>2 DEF FirstAt
<1>3. CASE at # {}
  <2>1. at \in SUBSET Nat
    BY <1>1
  <2>2. \E m \in at : \A i \in at : m <= i
    BY <2>1, <1>3, LeastOf
  <2>3. FirstAt(s, c) \in at /\ \A i \in at : FirstAt(s, c) <= i
    BY <1>3, <2>2 DEF FirstAt, Min
  <2> QED BY <1>1, <2>3
<1> QED BY <1>2, <1>3

(* validate_flake_ref accepts exactly the references of its grammar. *)
LEMMA FlakeRefLemma ==
  ASSUME NEW s \in Texts
  PROVE  ValidateFlakeRef(s) <=> FlakeRefGrammar(s)
<1> DEFINE k == FirstAt(s, ":")
<1>1. Len(s) \in Nat /\ (s # <<>> <=> Len(s) >= 1)
  BY Empty DEF Texts
<1>2. ":" \notin InScheme /\ Letters \subseteq InScheme
  BY DEF InScheme, Alnum, Letters, Digits
<1>3. ASSUME k \in 2..Len(s) - 1
      PROVE  /\ Before(s, k) # <<>> /\ After(s, k) # <<>>
             /\ (Before(s, k)[1] \in Letters /\ All(Tail(Before(s, k)), InScheme))
                  <=> (s[1] \in Letters /\ \A i \in 2..k - 1 : s[i] \in InScheme)
             /\ All(After(s, k), InPath) <=> \A i \in k + 1..Len(s) : s[i] \in InPath
  <2> HIDE DEF k
  <2>1. /\ Before(s, k) \in Seq(STRING) /\ Len(Before(s, k)) = k - 1
        /\ After(s, k) \in Seq(STRING) /\ Len(After(s, k)) = Len(s) - k
        /\ \A i \in 1..Len(s) - k : After(s, k)[i] = s[k + i]
    <3>1. /\ k - 1 \in 0..Len(s) /\ 1 <= (k - 1) + 1 /\ 1 \in Nat \ {0}
          /\ k + 1 \in Nat \ {0} /\ Len(s) \in 0..Len(s) /\ k + 1 <= Len(s) + 1
      BY <1>1, <1>3
    <3>2. Before(s, k) \in Seq(STRING) /\ Len(Before(s, k)) = (k - 1) - 1 + 1
      BY <3>1, SubSeqAt DEF Before, Texts
    <3>3. /\ After(s, k) \in Seq(STRING) /\ Len(After(s, k)) = Len(s) - (k + 1) + 1
          /\ \A i \in 1..Len(s) - (k + 1) + 1 : After(s, k)[i] = s[(k + 1) + i - 1]
      BY <3>1, SubSeqAt DEF After, Texts
    <3>4. k \in Nat
      BY <1>1, <1>3
    <3> QED BY <1>1, <3>2, <3>3, <3>4
  <2>2. Before(s, k) # <<>> /\ After(s, k) # <<>>
    BY <1>1, <1>3, <2>1, Empty
  <2>3. (Before(s, k)[1] \in Letters /\ All(Tail(Before(s, k)), InScheme))
                  <=> (s[1] \in Letters /\ \A i \in 1 + 1..k - 1 : s[i] \in InScheme)
    <3>1. k - 1 \in 0..Len(s) /\ 1 <= k - 1 /\ 1 \in Nat \ {0}
      BY <1>1, <1>3
    <3> QED BY <3>1, Piece DEF Before
  <2>4. All(After(s, k), InPath) <=> \A i \in k + 1..Len(s) : s[i] \in InPath
    <3>1. All(After(s, k), InPath) <=> \A i \in 1..Len(s) - k : s[k + i] \in InPath
      BY <2>1 DEF All
    <3>2. ASSUME \A i \in 1..Len(s) - k : s[k + i] \in InPath, NEW i \in k + 1..Len(s)
          PROVE  s[i] \in InPath
      <4>1. i - k \in 1..Len(s) - k /\ k + (i - k) = i
        BY <1>1, <1>3
      <4> QED BY <3>2, <4>1
    <3>3. ASSUME \A i \in k + 1..Len(s) : s[i] \in InPath, NEW i \in 1..Len(s) - k
          PROVE  s[k + i] \in InPath
      <4>1. k + i \in k + 1..Len(s)
        BY <1>1, <1>3
      <4> QED BY <3>3, <4>1
    <3> QED BY <3>1, <3>2, <3>3
  <2> QED BY <2>2, <2>3, <2>4
<1>4. ASSUME ValidateFlakeRef(s) PROVE FlakeRefGrammar(s)
  <2>1. k # 0 /\ Before(s, k) # <<>> /\ After(s, k) # <<>>
    BY <1>4 DEF ValidateFlakeRef
  <2>2. k \in 1..Len(s) /\ s[k] = ":"
    BY <2>1, FirstAtIs
  <2> HIDE DEF k
  <2>3. k # 1 /\ k # Len(s)
    <3>1. SubSeq(s, 1, 0) = <<>>
      BY DEF Texts
    <3>2. SubSeq(s, Len(s) + 1, Len(s)) = <<>>
      BY <1>1 DEF Texts
    <3> QED BY <1>1, <2>1, <3>1, <3>2 DEF Before, After
  <2>4. k \in 2..Len(s) - 1
    BY <1>1, <2>2, <2>3
  <2>5. /\ Before(s, k)[1] \in Letters /\ All(Tail(Before(s, k)), InScheme)
        /\ All(After(s, k), InPath)
    BY <1>4 DEF ValidateFlakeRef, k
  <2>6. /\ s[1] \in Letters /\ \A i \in 2..k - 1 : s[i] \in InScheme
        /\ \A i \in k + 1..Len(s) : s[i] \in InPath
    BY <1>3, <2>4, <2>5
  <2>7. \A i \in 1..k - 1 : s[i] \in InScheme
    <3>1. \A i \in 1..k - 1 : i = 1 \/ i \in 2..k - 1
      BY <2>4
    <3> QED BY <1>2, <2>6, <3>1
  <2> QED BY <2>2, <2>4, <2>6, <2>7 DEF FlakeRefGrammar
<1>5. ASSUME FlakeRefGrammar(s) PROVE ValidateFlakeRef(s)
  <2>1. PICK j \in 2..Len(s) - 1 :
          /\ s[j] = ":" /\ s[1] \in Letters
          /\ \A i \in 1..j - 1 : s[i] \in InScheme
          /\ \A i \in j + 1..Len(s) : s[i] \in InPath
    BY <1>5 DEF FlakeRefGrammar
  <2>2. j \in 1..Len(s)
    BY <1>1
  <2>3. k # 0 /\ k \in 1..Len(s) /\ s[k] = ":" /\ \A i \in 1..k - 1 : s[i] # ":"
    BY <2>1, <2>2, FirstAtIs
  <2> HIDE DEF k
  <2>4. ~(k < j)
    <3> SUFFICES ASSUME k < j PROVE FALSE
      OBVIOUS
    <3>1. k \in 1..j - 1
      BY <1>1, <2>2, <2>3
    <3> QED BY <1>2, <2>1, <2>3, <3>1
  <2>5. ~(j < k)
    <3> SUFFICES ASSUME j < k PROVE FALSE
      OBVIOUS
    <3>1. j \in 1..k - 1
      BY <1>1, <2>2, <2>3
    <3> QED BY <2>1, <2>3, <3>1
  <2>6. k = j
    BY <1>1, <2>2, <2>3, <2>4, <2>5
  <2>7. \A i \in 2..k - 1 : i \in 1..k - 1
    BY <2>6
  <2>8. /\ Before(s, k) # <<>> /\ After(s, k) # <<>>
        /\ Before(s, k)[1] \in Letters /\ All(Tail(Before(s, k)), InScheme)
        /\ All(After(s, k), InPath)
    BY <1>3, <2>1, <2>6, <2>7
  <2>9. s # <<>>
    BY <1>1, <2>2
  <2> QED BY <2>3, <2>8, <2>9 DEF ValidateFlakeRef, k
<1> QED BY <1>4, <1>5

(* The same from above, for a set with a bound. *)
LEMMA GreatestOf ==
  ASSUME NEW n \in Nat, NEW T \in SUBSET (0..n), T # {}
  PROVE  \E m \in T : \A i \in T : i <= m
<1> DEFINE U == {n - i : i \in T}
<1>1. U \in SUBSET Nat /\ U # {}
  <2>1. ASSUME NEW u \in U PROVE u \in Nat
    <3>1. PICK i \in T : u = n - i
      OBVIOUS
    <3>2. i \in 0..n
      OBVIOUS
    <3> QED BY <3>1, <3>2
  <2>2. PICK i \in T : TRUE
    OBVIOUS
  <2>3. n - i \in U
    OBVIOUS
  <2> QED BY <2>1, <2>3
<1>2. PICK u \in U : \A v \in U : u <= v
  BY <1>1, LeastOf
<1>3. PICK m \in T : u = n - m
  BY <1>2
<1>4. ASSUME NEW i \in T PROVE i <= m
  <2>1. n - i \in U
    OBVIOUS
  <2>2. n - m <= n - i
    BY <1>2, <1>3, <2>1
  <2> QED BY <2>2
<1> QED BY <1>4

(* The cuts of a text at its dots, with its two ends; the gaps between cuts *)
(* next to each other; and the characters a segment begins and goes on      *)
(* with.                                                                    *)
Cuts(s) == {0, Len(s) + 1} \cup {i \in DOMAIN s : s[i] = "."}
IsGap(s, a, b) == a < b /\ \A k \in Cuts(s) : k <= a \/ k >= b
Named == Letters \cup {"_"}
Inner == Alnum \cup {"_", "-"}

(* The dots of a text and its two ends: numbers from 0 to its length + 1. *)
LEMMA CutsAre ==
  ASSUME NEW s \in Texts
  PROVE  /\ Len(s) \in Nat /\ DOMAIN s = 1..Len(s)
         /\ 0 \in Cuts(s) /\ Len(s) + 1 \in Cuts(s)
         /\ \A i \in 1..Len(s) : i \in Cuts(s) <=> s[i] = "."
         /\ Cuts(s) \subseteq 0..Len(s) + 1
<1>1. Len(s) \in Nat /\ DOMAIN s = 1..Len(s)
  BY DEF Texts
<1> QED BY <1>1 DEF Cuts

(* Every position lies in a gap between two cuts next to each other. *)
LEMMA GapAround ==
  ASSUME NEW s \in Texts, NEW i \in 1..Len(s)
  PROVE  /\ \E a \in Cuts(s) : a < i /\ \A k \in Cuts(s) : k < i => k <= a
         /\ \E b \in Cuts(s) : b >= i /\ \A k \in Cuts(s) : k >= i => k >= b
<1> DEFINE n == Len(s) + 1
           C == Cuts(s)
           Low == {k \in C : k < i}
           High == {k \in C : k >= i}
<1>1. n \in Nat /\ C \subseteq 0..n /\ 0 \in C /\ n \in C /\ i \in 1..n
  BY CutsAre
<1> HIDE DEF n, C
<1>2. Low \in SUBSET (0..n) /\ High \in SUBSET Nat
  <2>1. \A k \in 0..n : k \in Nat
    OBVIOUS
  <2> QED BY <1>1, <2>1
<1>3. 0 \in Low /\ n \in High
  <2>1. 0 < i /\ n >= i
    BY <1>1
  <2> QED BY <1>1, <2>1
<1>4. PICK a \in Low : \A k \in Low : k <= a
  BY <1>1, <1>2, <1>3, GreatestOf
<1>5. PICK b \in High : \A k \in High : b <= k
  BY <1>2, <1>3, LeastOf
<1>6. a \in C /\ a < i /\ \A k \in C : k < i => k <= a
  BY <1>4
<1>7. b \in C /\ b >= i /\ \A k \in C : k >= i => k >= b
  BY <1>1, <1>5
<1> QED BY <1>6, <1>7 DEF C

(* The segments, by the cuts around them. *)
LEMMA AttributeByGaps ==
  ASSUME NEW s \in Texts
  PROVE  ValidateAttribute(s) <=>
           /\ s # <<>>
           /\ \A a, b \in Cuts(s) : IsGap(s, a, b) =>
                /\ a + 1 <= b - 1 /\ s[a + 1] \in Named
                /\ \A i \in a + 2..b - 1 : s[i] \in Inner
<1> DEFINE Sound(p) == p # <<>> /\ p[1] \in Named /\ All(Tail(p), Inner)
           Cut(a, b) == SubSeq(s, a + 1, b - 1)
<1>1. ASSUME NEW a \in Cuts(s), NEW b \in Cuts(s), IsGap(s, a, b)
      PROVE  Sound(Cut(a, b)) <=> /\ a + 1 <= b - 1 /\ s[a + 1] \in Named
                                  /\ \A i \in a + 2..b - 1 : s[i] \in Inner
  <2>1. a \in 0..Len(s) + 1 /\ b \in 0..Len(s) + 1 /\ a < b /\ Len(s) \in Nat
    BY <1>1, CutsAre DEF IsGap
  <2>2. a + 1 \in Nat \ {0} /\ b - 1 \in 0..Len(s) /\ a + 1 <= (b - 1) + 1
    BY <2>1
  <2>3. Cut(a, b) \in Seq(STRING) /\ Len(Cut(a, b)) = (b - 1) - (a + 1) + 1
    BY <2>2, SubSeqAt DEF Texts
  <2>4. Cut(a, b) # <<>> <=> a + 1 <= b - 1
    <3> HIDE DEF Cut
    <3>1. Cut(a, b) # <<>> <=> Len(Cut(a, b)) >= 1
      BY <2>3, Empty
    <3> QED BY <2>1, <2>3, <3>1
  <2>5. a + 1 <= b - 1 =>
          ((Cut(a, b)[1] \in Named /\ All(Tail(Cut(a, b)), Inner))
             <=> (s[a + 1] \in Named /\ \A i \in (a + 1) + 1..b - 1 : s[i] \in Inner))
    BY <2>2, Piece
  <2>6. (a + 1) + 1 = a + 2
    BY <2>1
  <2> HIDE DEF Cut
  <2> QED BY <2>4, <2>5, <2>6
<1>2. Segments(s, ".") =
        {Cut(e[1], e[2]) : e \in {e \in Cuts(s) \X Cuts(s) : IsGap(s, e[1], e[2])}}
  BY DEF Segments, Cuts, IsGap
<1>3. (\A seg \in Segments(s, ".") : Sound(seg))
        <=> \A a, b \in Cuts(s) : IsGap(s, a, b) => Sound(Cut(a, b))
  <2> DEFINE Gaps == {e \in Cuts(s) \X Cuts(s) : IsGap(s, e[1], e[2])}
  <2> HIDE DEF Sound, Cut
  <2>1. ASSUME \A seg \in Segments(s, ".") : Sound(seg),
               NEW a \in Cuts(s), NEW b \in Cuts(s), IsGap(s, a, b)
        PROVE  Sound(Cut(a, b))
    <3>1. <<a, b>> \in Gaps
      BY <2>1
    <3>2. Cut(<<a, b>>[1], <<a, b>>[2]) \in Segments(s, ".")
      BY <1>2, <3>1
    <3> QED BY <2>1, <3>2
  <2>2. ASSUME \A a, b \in Cuts(s) : IsGap(s, a, b) => Sound(Cut(a, b)),
               NEW seg \in Segments(s, ".")
        PROVE  Sound(seg)
    <3>1. PICK e \in Gaps : seg = Cut(e[1], e[2])
      BY <1>2
    <3>2. e[1] \in Cuts(s) /\ e[2] \in Cuts(s) /\ IsGap(s, e[1], e[2])
      BY <3>1
    <3> QED BY <2>2, <3>1, <3>2
  <2> QED BY <2>1, <2>2
<1>4. ValidateAttribute(s) <=> s # <<>> /\ \A seg \in Segments(s, ".") : Sound(seg)
  BY DEF ValidateAttribute, Named, Inner
<1> HIDE DEF Sound, Cut
<1> QED BY <1>1, <1>3, <1>4

(* validate_attribute accepts exactly the paths of its grammar. *)
LEMMA AttributeLemma ==
  ASSUME NEW s \in Texts
  PROVE  ValidateAttribute(s) <=> AttributeGrammar(s)
<1>1. /\ Len(s) \in Nat /\ DOMAIN s = 1..Len(s)
      /\ s # <<>> <=> Len(s) >= 1
  BY CutsAre, Empty DEF Texts
<1>2. /\ "." \notin Named /\ "." \notin Inner
      /\ Inner \cup {"."} = Alnum \cup {"_", "-", "."}
      /\ Named = Letters \cup {"_"}
  BY DEF Named, Inner, Alnum, Letters, Digits
<1>3. ASSUME ValidateAttribute(s) PROVE AttributeGrammar(s)
  <2>1. Len(s) >= 1 /\ \A a, b \in Cuts(s) : IsGap(s, a, b) =>
                /\ a + 1 <= b - 1 /\ s[a + 1] \in Named
                /\ \A i \in a + 2..b - 1 : s[i] \in Inner
    BY <1>1, <1>3, AttributeByGaps
  <2>2. s[Len(s)] # "."
    <3> SUFFICES ASSUME s[Len(s)] = "." PROVE FALSE
      OBVIOUS
    <3>1. Len(s) \in Cuts(s) /\ Len(s) + 1 \in Cuts(s) /\ Cuts(s) \subseteq 0..Len(s) + 1
      BY <1>1, <2>1, CutsAre
    <3>2. IsGap(s, Len(s), Len(s) + 1)
      BY <1>1, <3>1 DEF IsGap
    <3> QED BY <1>1, <2>1, <3>1, <3>2
  <2>3. ASSUME NEW i \in 1..Len(s), i = 1 \/ s[i - 1] = "."
        PROVE  s[i] \in Named
    <3>1. i - 1 \in Cuts(s)
      <4>1. i - 1 = 0 \/ i - 1 \in 1..Len(s)
        OBVIOUS
      <4>2. CASE i = 1
        BY <4>2, CutsAre
      <4>3. CASE i # 1
        BY <2>3, <4>1, <4>3, CutsAre
      <4> QED BY <4>2, <4>3
    <3>2. PICK b \in Cuts(s) : b >= i /\ \A k \in Cuts(s) : k >= i => k >= b
      BY GapAround
    <3>3. \A k \in Cuts(s) : k \in Int
      BY <1>1, CutsAre
    <3>4. IsGap(s, i - 1, b)
      BY <3>2, <3>3 DEF IsGap
    <3>5. s[(i - 1) + 1] \in Named
      BY <2>1, <3>1, <3>4
    <3> QED BY <3>5
  <2>4. ASSUME NEW i \in 1..Len(s), i # 1, s[i - 1] # "."
        PROVE  s[i] \in Inner \cup {"."}
    <3>1. CASE s[i] = "."
      BY <3>1
    <3>2. CASE s[i] # "."
      <4>1. PICK a \in Cuts(s) : a < i /\ \A k \in Cuts(s) : k < i => k <= a
        BY GapAround
      <4>2. PICK b \in Cuts(s) : b >= i /\ \A k \in Cuts(s) : k >= i => k >= b
        BY GapAround
      <4>3. \A k \in Cuts(s) : k \in Int
        BY <1>1, CutsAre
      <4>4. IsGap(s, a, b)
        BY <4>1, <4>2, <4>3 DEF IsGap
      <4>5. i \notin Cuts(s) /\ i - 1 \notin Cuts(s)
        <5>1. i - 1 \in 1..Len(s)
          BY <2>4
        <5> QED BY <2>4, <3>2, <5>1, CutsAre
      <4>6. i \in a + 2..b - 1
        BY <4>1, <4>2, <4>3, <4>5
      <4> QED BY <2>1, <4>4, <4>6
    <3> QED BY <3>1, <3>2
  <2> QED BY <1>1, <1>2, <2>1, <2>2, <2>3, <2>4 DEF AttributeGrammar
<1>4. ASSUME AttributeGrammar(s) PROVE ValidateAttribute(s)
  <2>1. /\ Len(s) >= 1 /\ s[Len(s)] # "."
        /\ \A i \in 1..Len(s) : (i = 1 \/ s[i - 1] = ".") => s[i] \in Named
        /\ \A i \in 1..Len(s) : ~(i = 1 \/ s[i - 1] = ".") => s[i] \in Inner \cup {"."}
    BY <1>1, <1>2, <1>4 DEF AttributeGrammar
  <2>2. ASSUME NEW a \in Cuts(s), NEW b \in Cuts(s), IsGap(s, a, b)
        PROVE  /\ a + 1 <= b - 1 /\ s[a + 1] \in Named
               /\ \A i \in a + 2..b - 1 : s[i] \in Inner
    <3>1. a \in 0..Len(s) + 1 /\ b \in 0..Len(s) + 1 /\ a < b
      BY <2>2, CutsAre DEF IsGap
    <3>2. a # Len(s)
      <4> SUFFICES ASSUME a = Len(s) PROVE FALSE
        OBVIOUS
      <4>1. Len(s) \in 1..Len(s)
        BY <1>1, <2>1
      <4> QED BY <2>1, <4>1, CutsAre
    <3>3. a + 1 \in 1..Len(s)
      <4> DEFINE n == Len(s)
      <4>1. n \in Nat /\ a \in 0..n + 1 /\ b \in 0..n + 1 /\ a < b /\ a # n
        BY <1>1, <3>1, <3>2
      <4> HIDE DEF n
      <4>2. a + 1 \in 1..n
        BY <4>1
      <4> QED BY <4>2 DEF n
    <3>4. a + 1 = 1 \/ s[(a + 1) - 1] = "."
      <4>1. a = 0 \/ a \in 1..Len(s)
        BY <1>1, <3>1, <3>3
      <4>2. (a + 1) - 1 = a
        BY <3>1
      <4> QED BY <4>1, <4>2, CutsAre
    <3>5. s[a + 1] \in Named
      BY <2>1, <3>3, <3>4
    <3>6. b # a + 1
      BY <1>2, <3>3, <3>5, CutsAre
    <3>7. ASSUME NEW i \in a + 2..b - 1 PROVE s[i] \in Inner
      <4>1. i \in 1..Len(s) /\ i - 1 \in 1..Len(s) /\ a < i - 1 /\ i < b /\ i # 1 /\ i - 1 < b
        BY <1>1, <3>1
      <4>2. i \notin Cuts(s) /\ i - 1 \notin Cuts(s)
        BY <2>2, <3>1, <4>1 DEF IsGap
      <4>3. s[i] # "." /\ s[i - 1] # "."
        BY <4>1, <4>2, CutsAre
      <4> QED BY <2>1, <4>1, <4>3
    <3>8. a + 1 <= b - 1
      BY <3>1, <3>6
    <3> QED BY <3>5, <3>7, <3>8
  <2> QED BY <1>1, <2>1, <2>2, AttributeByGaps
<1> QED BY <1>3, <1>4

(* The three validators accept exactly the texts of their grammars, for any *)
(* text.                                                                    *)
THEOREM ValidatorsHold == ReadersTypeOK => ValidatorsKeepTheirGrammar
<1> SUFFICES ASSUME ReadersTypeOK PROVE ValidatorsKeepTheirGrammar
  OBVIOUS
<1>1. ASSUME subject = "flakeRef" PROVE ValidateFlakeRef(input) = FlakeRefGrammar(input)
  <2>1. input \in Texts
    BY <1>1 DEF ReadersTypeOK, Inputs
  <2>2. ValidateFlakeRef(input) \in BOOLEAN /\ FlakeRefGrammar(input) \in BOOLEAN
    BY DEF ValidateFlakeRef, FlakeRefGrammar
  <2> QED BY <2>1, <2>2, FlakeRefLemma
<1>2. ASSUME subject = "attribute" PROVE ValidateAttribute(input) = AttributeGrammar(input)
  <2>1. input \in Texts
    BY <1>2 DEF ReadersTypeOK, Inputs
  <2>2. ValidateAttribute(input) \in BOOLEAN /\ AttributeGrammar(input) \in BOOLEAN
    BY DEF ValidateAttribute, AttributeGrammar
  <2> QED BY <2>1, <2>2, AttributeLemma
<1>3. ASSUME subject = "revision"
      PROVE  ValidateRevision(input) = (/\ 5 < Len(input) /\ Len(input) < 41
                                        /\ \A i \in DOMAIN input : input[i] \in {"a", "7"})
  <2>1. input \in Seq(STRING)
    BY <1>3 DEF ReadersTypeOK, Inputs, Texts
  <2>2. Len(input) \in Nat
    BY <2>1
  <2>3. Len(input) \in 6..40 <=> 5 < Len(input) /\ Len(input) < 41
    <3> DEFINE n == Len(input)
    <3>1. n \in Nat
      BY <2>2
    <3> HIDE DEF n
    <3>2. n \in 6..40 <=> 5 < n /\ n < 41
      BY <3>1
    <3> QED BY <3>2 DEF n
  <2> QED BY <2>3 DEF ValidateRevision, All, HexDigits
<1> QED BY <1>1, <1>2, <1>3 DEF ValidatorsKeepTheirGrammar

-----------------------------------------------------------------------------
(* Allowlist patterns *)

(* Does the input from p match the last left characters, given the answers *)
(* prev for one character fewer? *)
GlobAt(text, pat, left, prev, p) ==
  LET end == Len(text) + 1
      pc  == pat[Len(pat) - left + 1]
  IN  CASE left = 0 -> p = end
        [] left > 0 /\ pc = "*" -> left = 1 \/ \E i \in p..end : prev[i]
        [] OTHER -> p < end /\ pc = text[p] /\ prev[p + 1]

(* matches_glob's table has a row for every number of pattern characters *)
(* left, each computed from the one before.                              *)
LEMMA GlobTable ==
  ASSUME NEW text \in Texts, NEW pat \in Texts
  PROVE  \E m : /\ \A left \in 0..Len(pat), p \in 1..Len(text) + 1 :
                     m[left][p] = GlobAt(text, pat, left, m[left - 1], p)
                /\ MatchesGlob(text, pat) = m[Len(pat)][1]
<1> DEFINE n == Len(pat)
           end == Len(text) + 1
           V == [1..end -> BOOLEAN]
           Row(left, prev) == [p \in 1..end |-> GlobAt(text, pat, left, prev, p)]
           F == [left \in 1..n |-> [v \in V |-> Row(left, v)]]
           base == [p \in 1..end |-> p = end]
<1>1. n \in Nat /\ end \in Nat
  BY DEF Texts
<1>2. base \in V
  OBVIOUS
<1>3. ASSUME NEW left \in 1..n, NEW v \in V PROVE Row(left, v) \in V
  <2>1. ASSUME NEW p \in 1..end PROVE GlobAt(text, pat, left, v, p) \in BOOLEAN
    <3>1. p < end => p + 1 \in 1..end
      BY <1>1
    <3>2. left # 0
      BY <1>1
    <3> QED BY <3>1, <3>2 DEF GlobAt
  <2> QED BY <2>1
<1> HIDE DEF V, Row, base, n, end
<1>4. F \in [1..n -> [V -> V]]
  <2> DEFINE G(left) == [v \in V |-> Row(left, v)]
  <2>1. ASSUME NEW left \in 1..n PROVE G(left) \in [V -> V]
    BY <1>3
  <2>2. F = [left \in 1..n |-> G(left)]
    OBVIOUS
  <2> HIDE DEF F, G
  <2> QED BY <2>1, <2>2
<1> HIDE DEF F
<1>5. PICK g \in [0..n -> V] : g[0] = base /\ \A i \in 1..n : g[i] = F[i][g[i - 1]]
  BY <1>1, <1>2, <1>4, Iterate
<1>6. ASSUME NEW left \in 0..n PROVE g[left] = Row(left, g[left - 1])
  <2>1. CASE left = 0
    BY <1>5, <2>1 DEF base, Row, GlobAt, end
  <2>2. CASE left # 0
    <3>1. left \in 1..n /\ left - 1 \in 0..n
      BY <1>1, <2>2
    <3>2. g[left - 1] \in V
      BY <3>1
    <3> QED BY <1>5, <3>1, <3>2 DEF F
  <2> QED BY <2>1, <2>2
<1>7. g = [left \in 0..n |-> Row(left, g[left - 1])]
  BY <1>6
<1> DEFINE m == CHOOSE m : m = [left \in 0..n |-> Row(left, m[left - 1])]
<1>8. m = [left \in 0..n |-> Row(left, m[left - 1])]
  BY <1>7
<1>9. MatchesGlob(text, pat) = m[n][1]
  BY DEF MatchesGlob, Row, GlobAt, n, end
<1> HIDE DEF m
<1>10. ASSUME NEW left \in 0..n, NEW p \in 1..end
       PROVE  m[left][p] = GlobAt(text, pat, left, m[left - 1], p)
  <2>1. m[left] = Row(left, m[left - 1])
    BY <1>8
  <2> QED BY <2>1 DEF Row
<1> QED BY <1>9, <1>10 DEF n, end

(* The last left characters can be laid along the text from position p. *)
Follows(text, pat, e, i) ==
  IF pat[i] = "*" THEN e[i] >= e[i - 1] ELSE e[i] = e[i - 1] + 1 /\ text[e[i]] = pat[i]

Laid(text, pat, left, p) ==
  \E e \in [Len(pat) - left..Len(pat) -> 0..Len(text)] :
    /\ e[Len(pat) - left] = p - 1 /\ e[Len(pat)] = Len(text)
    /\ \A i \in Len(pat) - left + 1..Len(pat) : Follows(text, pat, e, i)

(* One character more is laid at the front. *)
LEMMA LaidStep ==
  ASSUME NEW text \in Texts, NEW pat \in Texts, NEW left \in 1..Len(pat),
         NEW p \in 1..Len(text) + 1
  PROVE  Laid(text, pat, left, p) <=>
           LET pc == pat[Len(pat) - left + 1]
           IN  IF pc = "*" THEN \E q \in p..Len(text) + 1 : Laid(text, pat, left - 1, q)
               ELSE p < Len(text) + 1 /\ pc = text[p] /\ Laid(text, pat, left - 1, p + 1)
<1> DEFINE n == Len(pat)
           len == Len(text)
           at == n - left + 1
           Fits(e, i) == Follows(text, pat, e, i)
           Lays(e, l, q) == /\ e[n - l] = q - 1 /\ e[n] = len
                            /\ \A i \in n - l + 1..n : Fits(e, i)
           L(l, q) == \E e \in [n - l..n -> 0..len] : Lays(e, l, q)
<1>1. n \in Nat /\ len \in Nat /\ left \in 1..n /\ p \in 1..len + 1
  BY DEF Texts
<1>2. \A l, q : L(l, q) <=> Laid(text, pat, l, q)
  BY DEF Laid
<1> HIDE DEF n, len
<1>3. at \in 1..n /\ n - left = at - 1 /\ n - (left - 1) = at /\ left - 1 \in 0..n
  BY <1>1
(* A laying of the shorter pattern from q, with p - 1 in front of it. *)
<1>4. ASSUME NEW q \in 1..len + 1, L(left - 1, q),
             IF pat[at] = "*" THEN q >= p ELSE q = p + 1 /\ text[p] = pat[at]
      PROVE  L(left, p)
  <2>1. PICK e \in [at..n -> 0..len] : Lays(e, left - 1, q)
    BY <1>3, <1>4
  <2> DEFINE f == [i \in at - 1..n |-> IF i = at - 1 THEN p - 1 ELSE e[i]]
  <2>2. f \in [n - left..n -> 0..len]
    BY <1>1, <1>3
  <2>3. f[at - 1] = p - 1 /\ \A i \in at..n : f[i] = e[i]
    <3>1. at - 1 \in at - 1..n /\ \A i \in at..n : i \in at - 1..n /\ i # at - 1
      BY <1>1, <1>3
    <3> HIDE DEF at
    <3> QED BY <3>1
  <2>4. e[at] = q - 1 /\ e[n] = len /\ \A i \in at + 1..n : Fits(e, i)
    BY <1>3, <2>1
  <2> HIDE DEF f
  <2>5. Fits(f, at)
    <3>1. f[at] = q - 1 /\ f[at - 1] = p - 1
      BY <1>3, <2>3, <2>4
    <3>2. CASE pat[at] = "*"
      BY <1>1, <1>4, <3>1, <3>2 DEF Follows
    <3>3. CASE pat[at] # "*"
      <4>1. q - 1 = p - 1 + 1 /\ q - 1 = p
        BY <1>1, <1>4, <3>3
      <4> QED BY <1>4, <3>1, <3>3, <4>1 DEF Follows
    <3> QED BY <3>2, <3>3
  <2>6. ASSUME NEW i \in n - left + 1..n PROVE Fits(f, i)
    <3>1. CASE i = at
      BY <2>5, <3>1
    <3>2. CASE i # at
      <4>1. i \in at + 1..n /\ i \in at..n /\ i - 1 \in at..n
        BY <1>1, <1>3, <3>2
      <4>2. Fits(e, i) /\ f[i] = e[i] /\ f[i - 1] = e[i - 1]
        BY <2>3, <2>4, <4>1
      <4> QED BY <4>2 DEF Follows
    <3> QED BY <3>1, <3>2
  <2>7. f[n - left] = p - 1 /\ f[n] = len
    <3>1. n \in at..n
      BY <1>1, <1>3
    <3> QED BY <1>3, <2>3, <2>4, <3>1
  <2>8. Lays(f, left, p)
    BY <2>6, <2>7
  <2> HIDE DEF Lays
  <2> QED BY <2>2, <2>8
(* And a laying from p, without its first place. *)
<1>5. ASSUME L(left, p)
      PROVE  \E q \in 1..len + 1 :
               /\ L(left - 1, q)
               /\ IF pat[at] = "*" THEN q >= p ELSE q = p + 1 /\ text[p] = pat[at]
  <2>1. PICK e \in [at - 1..n -> 0..len] : Lays(e, left, p)
    BY <1>3, <1>5
  <2> DEFINE f == [i \in at..n |-> e[i]]
             q == e[at] + 1
  <2>2. at \in at - 1..n /\ e[at] \in 0..len
    BY <1>1, <1>3
  <2>3. f \in [n - (left - 1)..n -> 0..len]
    BY <1>1, <1>3
  <2>4. \A i \in at..n : f[i] = e[i]
    OBVIOUS
  <2>5. e[at - 1] = p - 1 /\ e[n] = len /\ \A i \in at..n : Fits(e, i)
    BY <1>3, <2>1
  <2> HIDE DEF f
  <2>6. ASSUME NEW i \in n - (left - 1) + 1..n PROVE Fits(f, i)
    <3>1. i \in at..n /\ i - 1 \in at..n
      BY <1>1, <1>3
    <3>2. Fits(e, i) /\ f[i] = e[i] /\ f[i - 1] = e[i - 1]
      BY <2>4, <2>5, <3>1
    <3> QED BY <3>2 DEF Follows
  <2>7. f[n - (left - 1)] = q - 1 /\ f[n] = len
    <3>1. n \in at..n /\ at \in at..n
      BY <1>1, <1>3
    <3>2. f[at] = e[at] /\ f[n] = e[n]
      BY <2>4, <3>1
    <3> QED BY <1>3, <2>2, <2>5, <3>2
  <2>8. L(left - 1, q)
    <3>1. Lays(f, left - 1, q)
      BY <2>6, <2>7
    <3> QED BY <2>3, <3>1
  <2>9. Fits(e, at)
    <3>1. at \in at..n
      BY <1>1, <1>3
    <3> QED BY <2>5, <3>1
  <2>10. IF pat[at] = "*" THEN q >= p ELSE q = p + 1 /\ text[p] = pat[at]
    <3>1. CASE pat[at] = "*"
      BY <1>1, <2>2, <2>5, <2>9, <3>1 DEF Follows
    <3>2. CASE pat[at] # "*"
      <4>1. e[at] = p - 1 + 1 /\ text[e[at]] = pat[at]
        BY <2>5, <2>9, <3>2 DEF Follows
      <4>2. e[at] = p
        BY <1>1, <4>1
      <4> QED BY <3>2, <4>1, <4>2
    <3> QED BY <3>1, <3>2
  <2>11. q \in 1..len + 1
    BY <1>1, <2>2
  <2> HIDE DEF q
  <2> QED BY <2>8, <2>10, <2>11
<1> HIDE DEF L, at
<1>6. CASE pat[at] = "*"
  <2>1. L(left, p) <=> \E q \in p..len + 1 : L(left - 1, q)
    <3>1. \A q \in 1..len + 1 : q >= p <=> q \in p..len + 1
      BY <1>1
    <3>2. \A q \in p..len + 1 : q \in 1..len + 1
      BY <1>1
    <3> QED BY <1>4, <1>5, <1>6, <3>1, <3>2
  <2> QED BY <1>2, <1>6, <2>1 DEF at, n, len
<1>7. CASE pat[at] # "*"
  <2>1. L(left, p) <=> p < len + 1 /\ pat[at] = text[p] /\ L(left - 1, p + 1)
    <3>1. p + 1 \in 1..len + 1 <=> p < len + 1
      BY <1>1
    <3> QED BY <1>4, <1>5, <1>7, <3>1
  <2> QED BY <1>2, <1>7, <2>1 DEF at, n, len
<1> QED BY <1>6, <1>7

(* matches_glob accepts exactly the texts the pattern can be laid along. *)
LEMMA GlobLemma ==
  ASSUME NEW text \in Texts, NEW pat \in Texts
  PROVE  MatchesGlob(text, pat) <=> GlobLanguage(text, pat, {})
<1> DEFINE n == Len(pat)
           end == Len(text) + 1
<1>1. n \in Nat /\ end \in Nat /\ end >= 1 /\ Len(text) \in Nat
  BY DEF Texts
<1>2. PICK m : /\ \A left \in 0..n, p \in 1..end :
                    m[left][p] = GlobAt(text, pat, left, m[left - 1], p)
               /\ MatchesGlob(text, pat) = m[n][1]
  BY GlobTable
<1> DEFINE Good == {left \in 0..n : \A p \in 1..end : m[left][p] <=> Laid(text, pat, left, p)}
<1>3. ASSUME NEW p \in 1..end PROVE Laid(text, pat, 0, p) <=> p = end
  <2>1. ASSUME Laid(text, pat, 0, p) PROVE p = end
    <3>1. PICK e \in [n - 0..n -> 0..Len(text)] : e[n - 0] = p - 1 /\ e[n] = Len(text)
      BY <2>1 DEF Laid
    <3>2. n - 0 = n
      BY <1>1
    <3> QED BY <1>1, <3>1, <3>2
  <2>2. ASSUME p = end PROVE Laid(text, pat, 0, p)
    <3> DEFINE e == [i \in n..n |-> Len(text)]
    <3>1. e \in [n..n -> 0..Len(text)] /\ e[n] = Len(text)
      BY <1>1
    <3>2. n - 0 = n /\ n + 1..n = {} /\ p - 1 = Len(text)
      BY <1>1, <2>2
    <3> HIDE DEF e
    <3> QED BY <3>1, <3>2 DEF Laid
  <2> QED BY <2>1, <2>2
<1>4. 0 \in Good
  <2>1. 0 \in 0..n
    BY <1>1
  <2>2. \A p \in 1..end : m[0][p] = (p = end)
    BY <1>2, <2>1 DEF GlobAt
  <2> QED BY <1>3, <2>1, <2>2
<1>5. ASSUME NEW left \in 1..n, left - 1 \in Good PROVE left \in Good
  <2>1. left \in 0..n /\ left # 0 /\ left > 0
    BY <1>1
  <2>2. ASSUME NEW p \in 1..end PROVE m[left][p] <=> Laid(text, pat, left, p)
    <3> DEFINE pc == pat[n - left + 1]
    <3>1. m[left][p] = GlobAt(text, pat, left, m[left - 1], p)
      BY <1>2, <2>1
    <3>2. \A q \in 1..end : m[left - 1][q] <=> Laid(text, pat, left - 1, q)
      BY <1>5
    <3>3. CASE pc = "*"
      <4>1. GlobAt(text, pat, left, m[left - 1], p)
              <=> (left = 1 \/ \E q \in p..end : m[left - 1][q])
        BY <2>1, <3>3 DEF GlobAt
      <4>2. Laid(text, pat, left, p) <=> \E q \in p..end : Laid(text, pat, left - 1, q)
        BY <3>3, LaidStep
      <4>3. \A q \in p..end : q \in 1..end
        BY <1>1
      <4>4. left = 1 => \E q \in p..end : Laid(text, pat, left - 1, q)
        <5>1. end \in p..end /\ end \in 1..end
          BY <1>1
        <5> QED BY <1>3, <5>1
      <4> QED BY <3>1, <3>2, <4>1, <4>2, <4>3, <4>4
    <3>4. CASE pc # "*"
      <4>1. GlobAt(text, pat, left, m[left - 1], p)
              <=> (p < end /\ pc = text[p] /\ m[left - 1][p + 1])
        BY <2>1, <3>4 DEF GlobAt
      <4>2. Laid(text, pat, left, p)
              <=> (p < end /\ pc = text[p] /\ Laid(text, pat, left - 1, p + 1))
        BY <3>4, LaidStep
      <4>3. p < end => p + 1 \in 1..end
        BY <1>1
      <4> QED BY <3>1, <3>2, <4>1, <4>2, <4>3
    <3> QED BY <3>3, <3>4
  <2> QED BY <2>1, <2>2
<1> HIDE DEF Good
<1>6. \A left \in 0..n : left \in Good
  BY <1>1, <1>4, <1>5, ByInduction
<1>7. n \in 0..n /\ 1 \in 1..end
  BY <1>1
<1>8. m[n][1] <=> Laid(text, pat, n, 1)
  BY <1>6, <1>7 DEF Good
<1>9. Laid(text, pat, n, 1) <=> GlobLanguage(text, pat, {})
  <2>1. n - n = 0 /\ 1 - 1 = 0 /\ 0 + 1 = 1 /\ DOMAIN pat = 1..n
    BY <1>1 DEF Texts
  <2> DEFINE Lays(e) == /\ e[0] = 0 /\ e[n] = Len(text)
                        /\ \A i \in 1..n : Follows(text, pat, e, i)
  <2>2. Laid(text, pat, n, 1) <=> \E e \in [0..n -> 0..Len(text)] : Lays(e)
    BY <2>1 DEF Laid
  <2>3. GlobLanguage(text, pat, {}) <=> \E e \in [0..n -> 0..Len(text)] : Lays(e)
    BY <2>1 DEF GlobLanguage, Follows
  <2> HIDE DEF Lays
  <2> QED BY <2>2, <2>3
<1> QED BY <1>2, <1>8, <1>9

(* Where a '*' may cover less, less is described; and as much if the text *)
(* has nothing that it may not cover.                                     *)
LEMMA GlobWalls ==
  ASSUME NEW text \in Texts, NEW pat \in Texts, NEW walls
  PROVE  /\ GlobLanguage(text, pat, walls) => GlobLanguage(text, pat, {})
         /\ GlobLanguage(text, pat, {}) /\ Range(text) \cap walls = {}
              => GlobLanguage(text, pat, walls)
<1> DEFINE n == Len(pat)
           len == Len(text)
           Over(e, i, w) == \A k \in e[i - 1] + 1..e[i] : text[k] \notin w
           Lays(e, w) == /\ e[0] = 0 /\ e[n] = len
                         /\ \A i \in DOMAIN pat :
                              IF pat[i] = "*" THEN e[i] >= e[i - 1] /\ Over(e, i, w)
                              ELSE e[i] = e[i - 1] + 1 /\ text[e[i]] = pat[i]
<1>1. \A w : GlobLanguage(text, pat, w) <=> \E e \in [0..n -> 0..len] : Lays(e, w)
  BY DEF GlobLanguage
<1>2. n \in Nat /\ len \in Nat /\ DOMAIN pat = 1..n /\ DOMAIN text = 1..len
  BY DEF Texts
<1>3. \A e, i : Over(e, i, {})
  OBVIOUS
<1>4. ASSUME NEW e \in [0..n -> 0..len], NEW i \in 1..n, Range(text) \cap walls = {}
      PROVE  Over(e, i, walls)
  <2>1. e[i] \in 0..len /\ e[i - 1] \in 0..len
    BY <1>2
  <2>2. \A k \in e[i - 1] + 1..e[i] : k \in DOMAIN text
    BY <1>2, <2>1
  <2>3. \A k \in DOMAIN text : text[k] \in Range(text)
    BY DEF Range
  <2> QED BY <1>4, <2>2, <2>3
<1> HIDE DEF Over
<1>5. \A e : Lays(e, walls) => Lays(e, {})
  BY <1>3
<1>6. ASSUME Range(text) \cap walls = {}, NEW e \in [0..n -> 0..len], Lays(e, {})
      PROVE  Lays(e, walls)
  BY <1>2, <1>4, <1>6
<1> HIDE DEF Lays
<1> QED BY <1>1, <1>5, <1>6

(* On the allowlist, with one pattern: everything that the doc comment's *)
(* language has, and nothing that is not in the widest one.              *)
LEMMA GlobHolds == ReadersTypeOK => GlobIsItsLanguage
<1> SUFFICES ASSUME ReadersTypeOK, subject = "glob" PROVE GlobIsItsLanguage
  BY DEF GlobIsItsLanguage
<1>1. input \in Texts /\ pattern \in Texts
  BY DEF ReadersTypeOK, Inputs
<1>2. MatchesGlob(input, pattern) <=> GlobLanguage(input, pattern, {})
  BY <1>1, GlobLemma
<1>3. Range(<<pattern>>) = {pattern} /\ Range(<<>>) = {}
  BY DEF Range
<1>4. OnAllowlist(input, <<pattern>>) <=> MatchesGlob(input, pattern)
  BY <1>3 DEF OnAllowlist
<1>5. ~OnAllowlist(input, <<>>)
  BY <1>3 DEF OnAllowlist
<1>6. /\ GlobLanguage(input, pattern, {"/"}) => GlobLanguage(input, pattern, {})
      /\ GlobLanguage(input, pattern, {}) /\ Range(input) \cap {"/"} = {}
           => GlobLanguage(input, pattern, {"/"})
  BY <1>1, GlobWalls
<1>7. "/" \notin Range(input) => Range(input) \cap {"/"} = {}
  OBVIOUS
<1> QED BY <1>2, <1>4, <1>5, <1>6, <1>7 DEF GlobIsItsLanguage

-----------------------------------------------------------------------------
(* The caches, in the order they are asked *)

(* The order of CacheClient::new: by priority, equal ones as configured. *)
Ahead(c, i, j) == \/ c[i].priority < c[j].priority
                  \/ c[i].priority = c[j].priority /\ i < j
AllAhead(c, i) == {j \in DOMAIN c : Ahead(c, j, i)}
HasPriorities(c, n) == DOMAIN c = 1..n /\ \A i \in 1..n : c[i].priority \in Nat

(* The caches ahead of one are fewer than those ahead of a later one. *)
LEMMA RankOrder ==
  ASSUME NEW n \in Nat, NEW c, HasPriorities(c, n), NEW i \in 1..n, NEW j \in 1..n
  PROVE  /\ Cardinality(AllAhead(c, i)) \in 0..n - 1
         /\ Ahead(c, i, j) =>
              Cardinality(AllAhead(c, i)) < Cardinality(AllAhead(c, j))
         /\ i # j => Ahead(c, i, j) \/ Ahead(c, j, i)
<1> DEFINE A(k) == AllAhead(c, k)
<1>1. IsFiniteSet(1..n) /\ Cardinality(1..n) = n
  BY FS_Interval
<1>2. ASSUME NEW k \in 1..n
      PROVE  IsFiniteSet(A(k)) /\ Cardinality(A(k)) \in 0..n - 1
  <2>1. A(k) \in SUBSET (1..n \ {k})
    BY DEF AllAhead, Ahead, HasPriorities
  <2>2. IsFiniteSet(1..n \ {k}) /\ Cardinality(1..n \ {k}) = n - 1
    BY <1>1, FS_RemoveElement
  <2>3. IsFiniteSet(A(k)) /\ Cardinality(A(k)) <= n - 1
    BY <2>1, <2>2, FS_Subset
  <2>4. Cardinality(A(k)) \in Nat
    BY <2>3, FS_CardinalityType
  <2> HIDE DEF A
  <2> QED BY <2>3, <2>4
<1>3. ASSUME Ahead(c, i, j) PROVE Cardinality(A(i)) < Cardinality(A(j))
  <2>1. A(i) \in SUBSET A(j)
    <3> SUFFICES ASSUME NEW k \in 1..n, Ahead(c, k, i) PROVE Ahead(c, k, j)
      BY DEF AllAhead, HasPriorities
    <3>1. c[i].priority \in Nat /\ c[j].priority \in Nat /\ c[k].priority \in Nat
      BY DEF HasPriorities
    <3> QED BY <1>3, <3>1 DEF Ahead
  <2>2. i \in A(j) /\ i \notin A(i)
    BY <1>3 DEF AllAhead, Ahead, HasPriorities
  <2>3. A(i) # A(j)
    BY <2>2
  <2>4. Cardinality(A(i)) <= Cardinality(A(j)) /\ Cardinality(A(i)) # Cardinality(A(j))
    <3> HIDE DEF A
    <3> QED BY <1>2, <2>1, <2>3, FS_Subset
  <2>5. Cardinality(A(i)) \in 0..n - 1 /\ Cardinality(A(j)) \in 0..n - 1
    BY <1>2
  <2> HIDE DEF A
  <2> QED BY <2>4, <2>5
<1>4. i # j => Ahead(c, i, j) \/ Ahead(c, j, i)
  <2>1. c[i].priority \in Nat /\ c[j].priority \in Nat
    BY DEF HasPriorities
  <2> QED BY <2>1 DEF Ahead
<1> QED BY <1>2, <1>3, <1>4

(* SortedByPriority lists every cache, the preferred ones first. *)
LEMMA Sorted ==
  ASSUME NEW n \in Nat, NEW c, HasPriorities(c, n), NEW p, p = SortedByPriority(c)
  PROVE  /\ p \in [1..n -> 1..n]
         /\ \A i \in 1..n : \E k \in 1..n : p[k] = i
         /\ \A k, l \in 1..n : k < l => Ahead(c, p[k], p[l])
<1> DEFINE Rank(i) == Cardinality(AllAhead(c, i))
           f == [i \in 1..n |-> Rank(i) + 1]
<1>1. \A i \in 1..n : Rank(i) \in 0..n - 1
  BY RankOrder
<1>2. \A i, j \in 1..n : Ahead(c, i, j) => Rank(i) < Rank(j)
  BY RankOrder
<1>3. \A i, j \in 1..n : i # j => Ahead(c, i, j) \/ Ahead(c, j, i)
  BY RankOrder
<1>4. p = [k \in 1..n |-> CHOOSE i \in 1..n : Rank(i) = k - 1]
  <2>1. DOMAIN c = 1..n
    BY DEF HasPriorities
  <2> QED BY <2>1 DEF SortedByPriority, AllAhead, Ahead
<1> HIDE DEF Rank
<1>5. ASSUME NEW i \in 1..n, NEW j \in 1..n, Rank(i) = Rank(j) PROVE i = j
  <2>1. Rank(i) \in Int /\ Rank(j) \in Int
    BY <1>1
  <2>2. ~(Rank(i) < Rank(j)) /\ ~(Rank(j) < Rank(i))
    BY <1>5, <2>1
  <2> QED BY <1>2, <1>3, <2>2
<1>6. f \in [1..n -> 1..n]
  BY <1>1
<1>7. f \in Injection(1..n, 1..n)
  <2>1. ASSUME NEW i \in 1..n, NEW j \in 1..n, f[i] = f[j] PROVE i = j
    <3>1. Rank(i) \in 0..n - 1 /\ Rank(j) \in 0..n - 1 /\ Rank(i) + 1 = Rank(j) + 1
      BY <1>1, <2>1
    <3>2. Rank(i) = Rank(j)
      BY <3>1
    <3> QED BY <1>5, <3>2
  <2> QED BY <1>6, <2>1 DEF Injection, IsInjective
<1>8. f \in Surjection(1..n, 1..n)
  <2>1. IsFiniteSet(1..n)
    BY FS_Interval
  <2> HIDE DEF f
  <2> QED BY <1>7, <2>1, FS_Injection
<1>9. \A k \in 1..n : \E i \in 1..n : Rank(i) = k - 1
  <2> SUFFICES ASSUME NEW k \in 1..n PROVE \E i \in 1..n : Rank(i) = k - 1
    OBVIOUS
  <2>1. PICK i \in 1..n : f[i] = k
    <3> HIDE DEF f
    <3> QED BY <1>8 DEF Surjection
  <2>2. Rank(i) = k - 1
    <3> DEFINE r == Rank(i)
    <3>1. r \in 0..n - 1 /\ r + 1 = k
      BY <1>1, <2>1
    <3> HIDE DEF r, f
    <3>2. r = k - 1
      BY <3>1
    <3> QED BY <3>2 DEF r
  <2> QED BY <2>2
<1>10. \A k \in 1..n : p[k] \in 1..n /\ Rank(p[k]) = k - 1
  BY <1>4, <1>9
<1>11. p \in [1..n -> 1..n]
  BY <1>4, <1>10
<1>12. ASSUME NEW i \in 1..n PROVE \E k \in 1..n : p[k] = i
  <2>1. Rank(i) + 1 \in 1..n /\ (Rank(i) + 1) - 1 = Rank(i)
    BY <1>1
  <2>2. p[Rank(i) + 1] = i
    BY <1>5, <1>10, <2>1
  <2> QED BY <2>1, <2>2
<1>13. ASSUME NEW k \in 1..n, NEW l \in 1..n, k < l PROVE Ahead(c, p[k], p[l])
  <2>1. p[k] # p[l] /\ ~(Rank(p[l]) < Rank(p[k]))
    <3>1. Rank(p[k]) = k - 1 /\ Rank(p[l]) = l - 1 /\ k - 1 # l - 1 /\ ~(l - 1 < k - 1)
      BY <1>10, <1>13
    <3> QED BY <3>1
  <2> QED BY <1>2, <1>3, <1>10, <2>1
<1> QED BY <1>11, <1>12, <1>13

(* The loop over the caches in the order p: its results, one per turn. *)
AskLoop(n, p, tag, done, m) ==
  [k \in 0..n |-> IF k = 0 THEN NoCaches
                  ELSE IF m[k - 1].tag \in done THEN m[k - 1]
                  ELSE [from |-> p[k], tag |-> tag[k]]]

(* The loop has a run, whatever the caches answer. *)
LEMMA AskLoopExists ==
  ASSUME NEW n \in Nat, NEW p, p \in [1..n -> 1..n], NEW T, "Cache" \in T,
         NEW tag, tag \in [1..n -> T], NEW done
  PROVE  \E m : m = AskLoop(n, p, tag, done, m)
<1> DEFINE V == [from : Nat, tag : T]
           Turn(k, r) == IF r.tag \in done THEN r ELSE [from |-> p[k], tag |-> tag[k]]
           G(k) == [r \in V |-> Turn(k, r)]
           F == [k \in 1..n |-> G(k)]
<1>1. NoCaches \in V
  <2>1. NoCaches = [from |-> 0, tag |-> "Cache"]
    BY DEF NoCaches
  <2> QED BY <2>1
<1>2. ASSUME NEW k \in 1..n PROVE G(k) \in [V -> V]
  <2>1. p[k] \in Nat /\ tag[k] \in T
    <3>1. p[k] \in 1..n
      OBVIOUS
    <3> QED BY <3>1
  <2>2. ASSUME NEW r \in V PROVE Turn(k, r) \in V
    BY <2>1
  <2> HIDE DEF Turn, V
  <2> QED BY <2>2
<1> HIDE DEF G, V
<1>3. F \in [1..n -> [V -> V]]
  BY <1>2
<1> HIDE DEF F
<1>4. PICK m \in [0..n -> V] : m[0] = NoCaches /\ \A k \in 1..n : m[k] = F[k][m[k - 1]]
  <2>1. n \in Nat
    OBVIOUS
  <2> QED BY ONLY <1>1, <1>3, <2>1, Iterate
<1>5. ASSUME NEW k \in 0..n
      PROVE  m[k] = IF k = 0 THEN NoCaches
                    ELSE IF m[k - 1].tag \in done THEN m[k - 1]
                    ELSE [from |-> p[k], tag |-> tag[k]]
  <2>1. CASE k = 0
    BY <1>4, <2>1
  <2>2. CASE k # 0
    <3>1. k \in 1..n /\ k - 1 \in 0..n
      BY <2>2
    <3>2. m[k - 1] \in V
      BY <3>1
    <3>3. m[k] = Turn(k, m[k - 1])
      BY <1>4, <3>1, <3>2 DEF F, G
    <3> QED BY <2>2, <3>3
  <2> QED BY <2>1, <2>2
<1>6. m = AskLoop(n, p, tag, done, m)
  BY <1>5 DEF AskLoop
<1> QED BY <1>6

(* It ends with the first tag that is done, or else with the last one. *)
LEMMA AskLoopEnds ==
  ASSUME NEW n \in Nat, NEW p, NEW tag, NEW done, "Cache" \notin done,
         NEW m, m = AskLoop(n, p, tag, done, m)
  PROVE  \/ \E k \in 1..n : /\ tag[k] \in done /\ \A l \in 1..k - 1 : tag[l] \notin done
                            /\ m[n] = [from |-> p[k], tag |-> tag[k]]
         \/ /\ \A k \in 1..n : tag[k] \notin done
            /\ m[n] = IF n = 0 THEN NoCaches ELSE [from |-> p[n], tag |-> tag[n]]
<1> DEFINE R(k) == [from |-> p[k], tag |-> tag[k]]
           First(i) == \E k \in 1..i : /\ tag[k] \in done /\ \A l \in 1..k - 1 : tag[l] \notin done
                                       /\ m[i] = R(k)
           None(i) == /\ \A k \in 1..i : tag[k] \notin done
                      /\ m[i] = IF i = 0 THEN NoCaches ELSE R(i)
           Good == {i \in 0..n : First(i) \/ None(i)}
<1>1. \A k \in 0..n : m[k] = IF k = 0 THEN NoCaches
                             ELSE IF m[k - 1].tag \in done THEN m[k - 1] ELSE R(k)
  BY DEF AskLoop
<1>2. \A k : R(k).tag = tag[k]
  OBVIOUS
<1>3. NoCaches.tag \notin done
  BY DEF NoCaches
<1> HIDE DEF R
<1>4. 0 \in Good
  <2>1. 0 \in 0..n
    OBVIOUS
  <2>2. None(0)
    BY <1>1, <2>1
  <2> QED BY <2>1, <2>2
<1>5. ASSUME NEW i \in 1..n, i - 1 \in Good PROVE i \in Good
  <2>1. i \in 0..n /\ i # 0 /\ \A k \in 1..i : k = i \/ k \in 1..i - 1
    OBVIOUS
  <2>2. m[i] = IF m[i - 1].tag \in done THEN m[i - 1] ELSE R(i)
    BY <1>1, <2>1
  <2>3. CASE First(i - 1)
    <3>1. PICK k \in 1..i - 1 : /\ tag[k] \in done /\ \A l \in 1..k - 1 : tag[l] \notin done
                                /\ m[i - 1] = R(k)
      BY <2>3
    <3>2. m[i] = R(k) /\ k \in 1..i
      <4>1. m[i - 1].tag \in done
        BY <1>2, <3>1
      <4> QED BY <2>2, <3>1, <4>1
    <3>3. First(i)
      BY <3>1, <3>2
    <3> QED BY <2>1, <3>3
  <2>4. CASE None(i - 1)
    <3>1. m[i - 1].tag \notin done
      <4>1. i - 1 = 0 \/ i - 1 \in 1..i - 1
        OBVIOUS
      <4> QED BY <1>2, <1>3, <2>4, <4>1
    <3>2. m[i] = R(i)
      BY <2>2, <3>1
    <3>3. CASE tag[i] \in done
      <4>1. First(i)
        BY <2>4, <3>2, <3>3, i \in 1..i
      <4> QED BY <2>1, <4>1
    <3>4. CASE tag[i] \notin done
      <4>1. None(i)
        BY <2>1, <2>4, <3>2, <3>4
      <4> QED BY <2>1, <4>1
    <3> QED BY <3>3, <3>4
  <2> QED BY <1>5, <2>3, <2>4
<1>6. \A i \in 0..n : i \in Good
  <2> HIDE DEF Good
  <2> QED BY <1>4, <1>5, ByInduction
<1>7. First(n) \/ None(n)
  BY <1>6, n \in 0..n
<1> QED BY <1>7 DEF R

(* What a cache that answers a gives fetch_narinfo and fetch_nar. *)
InfoTag(a) == CASE a = "good"     -> "NarInfo"
                [] a = "garbled"  -> "Body"
                [] a = "notFound" -> "StorePathNotCached"
                [] OTHER          -> "Cache"
NarTag(a)  == CASE a = "good"    -> "Bytes"
                [] a = "garbled" -> "Body"
                [] OTHER         -> "Cache"
Tags == {"NarInfo", "Bytes", "Body", "StorePathNotCached", "Cache"}

(* What both loops compute, from the order the caches are asked in. *)
LEMMA FetchLoops ==
  ASSUME NEW c, c \in Seq(Caches), NEW p, p = SortedByPriority(c), p \in [1..Len(c) -> 1..Len(c)]
  PROVE  LET n == Len(c)
             info == [k \in 1..n |-> InfoTag(c[p[k]].answer)]
             nar  == [k \in 1..n |-> NarTag(c[p[k]].answer)]
         IN  /\ info \in [1..n -> Tags] /\ nar \in [1..n -> Tags]
             /\ \E m : /\ m = AskLoop(n, p, info, {"NarInfo", "Body"}, m)
                       /\ FetchNarinfo(c) = m[n]
             /\ \E m : /\ m = AskLoop(n, p, nar, {"Bytes", "Body"}, m)
                       /\ FetchNar(c) = m[n]
<1> DEFINE n == Len(c)
           info == [k \in 1..n |-> InfoTag(c[p[k]].answer)]
           nar  == [k \in 1..n |-> NarTag(c[p[k]].answer)]
<1>1. n \in Nat
  OBVIOUS
<1>2. info \in [1..n -> Tags] /\ nar \in [1..n -> Tags] /\ "Cache" \in Tags
  BY DEF InfoTag, NarTag, Tags
<1>3. \E m : /\ m = AskLoop(n, p, info, {"NarInfo", "Body"}, m) /\ FetchNarinfo(c) = m[n]
  <2> DEFINE Body(m) == [k \in 0..n |-> IF k = 0 THEN NoCaches
                           ELSE IF m[k - 1].tag \in {"NarInfo", "Body"} THEN m[k - 1]
                           ELSE [from |-> p[k], tag |-> InfoTag(c[p[k]].answer)]]
             m0 == CHOOSE m : m = Body(m)
  <2>1. ASSUME NEW m PROVE Body(m) = AskLoop(n, p, info, {"NarInfo", "Body"}, m)
    <3>1. \A k \in 0..n : k # 0 => k \in 1..n
      BY <1>1
    <3> HIDE DEF n
    <3> QED BY <3>1 DEF AskLoop
  <2>2. \E m : m = AskLoop(n, p, info, {"NarInfo", "Body"}, m)
    <3>1. p \in [1..n -> 1..n]
      OBVIOUS
    <3> HIDE DEF n, info
    <3> QED BY ONLY <1>1, <1>2, <3>1, AskLoopExists
  <2>3. m0 = Body(m0)
    <3> HIDE DEF Body
    <3> QED BY <2>1, <2>2
  <2>4. FetchNarinfo(c) = m0[n]
    BY DEF FetchNarinfo, InfoTag
  <2> HIDE DEF m0, Body
  <2> QED BY <2>1, <2>3, <2>4
<1>4. \E m : /\ m = AskLoop(n, p, nar, {"Bytes", "Body"}, m) /\ FetchNar(c) = m[n]
  <2> DEFINE Body(m) == [k \in 0..n |-> IF k = 0 THEN NoCaches
                           ELSE IF m[k - 1].tag \in {"Bytes", "Body"} THEN m[k - 1]
                           ELSE [from |-> p[k], tag |-> NarTag(c[p[k]].answer)]]
             m0 == CHOOSE m : m = Body(m)
  <2>1. ASSUME NEW m PROVE Body(m) = AskLoop(n, p, nar, {"Bytes", "Body"}, m)
    <3>1. \A k \in 0..n : k # 0 => k \in 1..n
      BY <1>1
    <3> HIDE DEF n
    <3> QED BY <3>1 DEF AskLoop
  <2>2. \E m : m = AskLoop(n, p, nar, {"Bytes", "Body"}, m)
    <3>1. p \in [1..n -> 1..n]
      OBVIOUS
    <3> HIDE DEF n, nar
    <3> QED BY ONLY <1>1, <1>2, <3>1, AskLoopExists
  <2>3. m0 = Body(m0)
    <3> HIDE DEF Body
    <3> QED BY <2>1, <2>2
  <2>4. FetchNar(c) = m0[n]
    BY DEF FetchNar, NarTag
  <2> HIDE DEF m0, Body
  <2> QED BY <2>1, <2>3, <2>4
<1> QED BY <1>2, <1>3, <1>4

(* Configured caches have a priority and an answer each. *)
LEMMA CachesAre ==
  ASSUME NEW c, c \in Seq(Caches)
  PROVE  /\ Len(c) \in Nat /\ HasPriorities(c, Len(c))
         /\ \A i \in 1..Len(c) : c[i].answer \in Answers
<1>1. Len(c) \in Nat /\ DOMAIN c = 1..Len(c) /\ \A i \in 1..Len(c) : c[i] \in Caches
  OBVIOUS
<1>2. \A x \in Caches : x.priority \in Nat /\ x.answer \in Answers
  BY DEF Caches
<1> QED BY <1>1, <1>2 DEF HasPriorities

(* Where the loops end: at the first success, else at the last cache. *)
LEMMA LoopsEnd ==
  ASSUME NEW c, c \in Seq(Caches), c # <<>>, NEW p, p = SortedByPriority(c),
         NEW n, n = Len(c)
  PROVE  \/ \E k \in 1..n :
              /\ c[p[k]].answer \in Success
              /\ \A l \in 1..k - 1 : c[p[l]].answer \notin Success
              /\ FetchNarinfo(c) = [from |-> p[k], tag |-> InfoTag(c[p[k]].answer)]
              /\ FetchNar(c) = [from |-> p[k], tag |-> NarTag(c[p[k]].answer)]
         \/ /\ \A k \in 1..n : c[p[k]].answer \notin Success
            /\ FetchNarinfo(c) = [from |-> p[n], tag |-> InfoTag(c[p[n]].answer)]
            /\ FetchNar(c) = [from |-> p[n], tag |-> NarTag(c[p[n]].answer)]
<1> DEFINE info == [k \in 1..n |-> InfoTag(c[p[k]].answer)]
           nar  == [k \in 1..n |-> NarTag(c[p[k]].answer)]
           W(k) == c[p[k]].answer \in Success
           got  == {"NarInfo", "Body"}
           gotN == {"Bytes", "Body"}
<1>1. n \in Nat /\ n # 0 /\ n \in 1..n
  OBVIOUS
<1>2. p \in [1..n -> 1..n]
  BY ONLY <1>1, CachesAre, Sorted, c \in Seq(Caches), n = Len(c), p = SortedByPriority(c)
<1>3. \A k \in 1..n : c[p[k]].answer \in Answers
  BY <1>2, CachesAre
<1>4. \A k \in 1..n : (info[k] \in got <=> W(k)) /\ (nar[k] \in gotN <=> W(k))
  BY <1>3 DEF InfoTag, NarTag, Answers, Success
<1>5. PICK m : m = AskLoop(n, p, info, got, m) /\ FetchNarinfo(c) = m[n]
  BY <1>2, FetchLoops
<1>6. PICK m2 : m2 = AskLoop(n, p, nar, gotN, m2) /\ FetchNar(c) = m2[n]
  BY <1>2, FetchLoops
<1>8. "Cache" \notin got /\ "Cache" \notin gotN
  OBVIOUS
<1>9. \A k \in 1..n : info[k] = InfoTag(c[p[k]].answer) /\ nar[k] = NarTag(c[p[k]].answer)
  OBVIOUS
<1> HIDE DEF info, nar, got, gotN, W
<1>10. \/ \E k \in 1..n : /\ info[k] \in got /\ \A l \in 1..k - 1 : info[l] \notin got
                          /\ m[n] = [from |-> p[k], tag |-> info[k]]
       \/ /\ \A k \in 1..n : info[k] \notin got
          /\ m[n] = IF n = 0 THEN NoCaches ELSE [from |-> p[n], tag |-> info[n]]
  BY ONLY <1>1, <1>5, <1>8, AskLoopEnds
<1>11. \/ \E k \in 1..n : /\ nar[k] \in gotN /\ \A l \in 1..k - 1 : nar[l] \notin gotN
                          /\ m2[n] = [from |-> p[k], tag |-> nar[k]]
       \/ /\ \A k \in 1..n : nar[k] \notin gotN
          /\ m2[n] = IF n = 0 THEN NoCaches ELSE [from |-> p[n], tag |-> nar[n]]
  BY ONLY <1>1, <1>6, <1>8, AskLoopEnds
<1>12. \/ \E k \in 1..n : /\ W(k) /\ \A l \in 1..k - 1 : ~W(l)
                          /\ FetchNarinfo(c) = [from |-> p[k], tag |-> info[k]]
       \/ /\ \A k \in 1..n : ~W(k)
          /\ FetchNarinfo(c) = [from |-> p[n], tag |-> info[n]]
  <2>1. \A k \in 1..n : \A l \in 1..k - 1 : l \in 1..n
    BY <1>1
  <2> QED BY <1>1, <1>4, <1>5, <1>10, <2>1
<1>13. \/ \E k \in 1..n : /\ W(k) /\ \A l \in 1..k - 1 : ~W(l)
                          /\ FetchNar(c) = [from |-> p[k], tag |-> nar[k]]
       \/ /\ \A k \in 1..n : ~W(k)
          /\ FetchNar(c) = [from |-> p[n], tag |-> nar[n]]
  <2>1. \A k \in 1..n : \A l \in 1..k - 1 : l \in 1..n
    BY <1>1
  <2> QED BY <1>1, <1>4, <1>6, <1>11, <2>1
<1>14. CASE \A k \in 1..n : ~W(k)
  BY <1>1, <1>9, <1>12, <1>13, <1>14 DEF W
<1>15. CASE \E k \in 1..n : W(k)
  <2>1. PICK k \in 1..n : /\ W(k) /\ \A l \in 1..k - 1 : ~W(l)
                          /\ FetchNarinfo(c) = [from |-> p[k], tag |-> info[k]]
    BY <1>12, <1>15
  <2>2. PICK j \in 1..n : /\ W(j) /\ \A l \in 1..j - 1 : ~W(l)
                          /\ FetchNar(c) = [from |-> p[j], tag |-> nar[j]]
    BY <1>13, <1>15
  <2>3. j = k
    <3>1. j \notin 1..k - 1 /\ k \notin 1..j - 1
      BY <2>1, <2>2
    <3> QED BY <1>1, <3>1
  <2> QED BY <1>9, <2>1, <2>2, <2>3 DEF W
<1> QED BY <1>14, <1>15

(* fetch_narinfo and fetch_nar, for any list of caches: the most preferred *)
(* success decides, else the least preferred cache.                        *)
LEMMA FirstSuccessHolds == ReadersTypeOK => FirstSuccessDecides
<1> SUFFICES ASSUME ReadersTypeOK, subject = "caches", input # <<>>
             PROVE  FirstSuccessDecides
  BY DEF FirstSuccessDecides
<1> DEFINE Prefers(i, j) == \/ input[i].priority < input[j].priority
                            \/ input[i].priority = input[j].priority /\ i <= j
           wins  == {i \in DOMAIN input : input[i].answer \in Success}
           first == CHOOSE i \in wins : \A j \in wins : Prefers(i, j)
           last  == CHOOSE i \in DOMAIN input : \A j \in DOMAIN input : Prefers(j, i)
           info  == FetchNarinfo(input)
           n == Len(input)
           p == SortedByPriority(input)
<1>1. input \in Seq(Caches)
  BY DEF ReadersTypeOK, Inputs
<1>2. n \in Nat /\ n # 0 /\ DOMAIN input = 1..n
  BY <1>1
<1>3. HasPriorities(input, n) /\ \A i \in 1..n : input[i].answer \in Answers
  BY <1>1, CachesAre
<1>4. /\ p \in [1..n -> 1..n]
      /\ \A i \in 1..n : \E k \in 1..n : p[k] = i
      /\ \A k, l \in 1..n : k < l => Ahead(input, p[k], p[l])
  <2> HIDE DEF p, n
  <2> QED BY ONLY <1>2, <1>3, Sorted DEF p
<1>5. \A i \in 1..n : input[i].priority \in Nat /\ i \in Nat
  BY <1>3 DEF HasPriorities
<1>6. ASSUME NEW k \in 1..n, NEW l \in 1..n, k <= l PROVE Prefers(p[k], p[l])
  <2>1. CASE k = l
    <3>1. p[k] \in 1..n
      BY <1>4
    <3> QED BY <1>5, <2>1, <3>1
  <2>2. CASE k # l
    <3>1. k < l /\ p[k] \in 1..n /\ p[l] \in 1..n
      <4> HIDE DEF p, n
      <4>1. k < l
        BY <1>2, <1>6, <2>2
      <4> QED BY <1>4, <4>1
    <3>2. Ahead(input, p[k], p[l])
      BY <1>4, <3>1
    <3> HIDE DEF p
    <3> QED BY <3>1, <3>2 DEF Ahead
  <2> QED BY <2>1, <2>2
<1>7. ASSUME NEW i \in 1..n, NEW j \in 1..n, Prefers(i, j), Prefers(j, i) PROVE i = j
  <2>1. input[i].priority \in Nat /\ input[j].priority \in Nat
    BY <1>5
  <2> QED BY <1>7, <2>1
<1>8. \/ \E k \in 1..n :
              /\ input[p[k]].answer \in Success
              /\ \A l \in 1..k - 1 : input[p[l]].answer \notin Success
              /\ info = [from |-> p[k], tag |-> InfoTag(input[p[k]].answer)]
              /\ FetchNar(input) = [from |-> p[k], tag |-> NarTag(input[p[k]].answer)]
      \/ /\ \A k \in 1..n : input[p[k]].answer \notin Success
         /\ info = [from |-> p[n], tag |-> InfoTag(input[p[n]].answer)]
         /\ FetchNar(input) = [from |-> p[n], tag |-> NarTag(input[p[n]].answer)]
  BY <1>1, LoopsEnd
<1>9. \A a \in Answers : /\ InfoTag(a) = "NarInfo" <=> a = "good"
                         /\ InfoTag(a) = "StorePathNotCached" <=> a = "notFound"
  BY DEF Answers, InfoTag
<1>10. "good" \in Success /\ "notFound" \notin Success
  BY DEF Success
<1> HIDE DEF Prefers, n, p, info
<1> SUFFICES /\ info.from = FetchNar(input).from
             /\ info.from = IF wins # {} THEN first ELSE last
             /\ info.tag = "NarInfo" <=> wins # {} /\ input[first].answer = "good"
             /\ info.tag = "StorePathNotCached" <=> wins = {} /\ input[last].answer = "notFound"
  BY DEF FirstSuccessDecides, Prefers, info
<1>11. CASE \A k \in 1..n : input[p[k]].answer \notin Success
  <2>1. wins = {}
    BY <1>2, <1>4, <1>11
  <2>2. n \in 1..n /\ p[n] \in 1..n
    BY <1>2, <1>4
  <2>3. \A j \in DOMAIN input : Prefers(j, p[n])
    <3> SUFFICES ASSUME NEW j \in 1..n PROVE Prefers(j, p[n])
      BY <1>2
    <3>1. PICK l \in 1..n : p[l] = j
      BY <1>4
    <3>2. l <= n
      BY <1>2
    <3> QED BY <1>6, <2>2, <3>1, <3>2
  <2>4. last \in DOMAIN input /\ \A j \in DOMAIN input : Prefers(j, last)
    BY <1>2, <2>2, <2>3
  <2>5. last = p[n]
    <3> HIDE DEF last
    <3> QED BY <1>2, <1>7, <2>2, <2>3, <2>4
  <2>6. info = [from |-> p[n], tag |-> InfoTag(input[p[n]].answer)]
        /\ FetchNar(input) = [from |-> p[n], tag |-> NarTag(input[p[n]].answer)]
    BY <1>8, <1>11
  <2>7. input[p[n]].answer \in Answers /\ input[p[n]].answer \notin Success
    BY <1>3, <1>11, <2>2 DEF n
  <2>8. info.from = p[n] /\ FetchNar(input).from = p[n] /\ info.tag = InfoTag(input[p[n]].answer)
    BY <2>6
  <2> HIDE DEF wins, first, last
  <2> QED BY <1>9, <1>10, <2>1, <2>5, <2>7, <2>8
<1>12. ASSUME NEW k \in 1..n, input[p[k]].answer \in Success,
              \A l \in 1..k - 1 : input[p[l]].answer \notin Success,
              info = [from |-> p[k], tag |-> InfoTag(input[p[k]].answer)],
              FetchNar(input) = [from |-> p[k], tag |-> NarTag(input[p[k]].answer)]
       PROVE  /\ info.from = FetchNar(input).from
              /\ info.from = IF wins # {} THEN first ELSE last
              /\ info.tag = "NarInfo" <=> wins # {} /\ input[first].answer = "good"
              /\ info.tag = "StorePathNotCached" <=> wins = {} /\ input[last].answer = "notFound"
  <2>1. p[k] \in 1..n
    BY <1>4
  <2>2. p[k] \in wins
    BY <1>2, <1>12, <2>1
  <2>3. ASSUME NEW j \in wins PROVE Prefers(p[k], j)
    <3>1. j \in 1..n /\ input[j].answer \in Success
      BY <1>2
    <3>2. PICK l \in 1..n : p[l] = j
      BY <1>4, <3>1
    <3>3. l \notin 1..k - 1
      BY <1>12, <3>1, <3>2
    <3>4. k <= l
      BY <1>2, <3>3
    <3> QED BY <1>6, <3>2, <3>4
  <2>4. first \in wins /\ \A j \in wins : Prefers(first, j)
    BY <2>2, <2>3
  <2>5. first = p[k]
    <3>1. first \in 1..n
      BY <1>2, <2>4
    <3> HIDE DEF first
    <3> QED BY <1>7, <2>1, <2>2, <2>3, <2>4, <3>1
  <2>6. input[p[k]].answer \in Answers
    BY <1>3, <2>1
  <2>7. info.from = p[k] /\ FetchNar(input).from = p[k] /\ info.tag = InfoTag(input[p[k]].answer)
    BY <1>12
  <2>8. wins # {}
    BY <2>2
  <2> HIDE DEF wins, first, last
  <2> QED BY <1>9, <1>10, <1>12, <2>5, <2>6, <2>7, <2>8
<1> QED BY <1>8, <1>11, <1>12

-----------------------------------------------------------------------------
(* narinfo files *)

(* One turn of NarInfo::parse's loop, and what it goes through. *)
NarTurn(r, line) ==
  IF r.tag = "err" \/ line = Blank THEN r
  ELSE IF Malformed(line) \/ ~Parses(line) THEN [r EXCEPT !.tag = "err"]
  ELSE [r EXCEPT !.info = ReadLine(@, line)]

Fields   == Keys \ {"Unknown"}
Infos    == [Fields -> Seq(STRING)]
Progress == [tag : {"ok", "err"}, info : Infos]
Start    == [tag |-> "ok", info |-> NoInfo]

(* Reading a line keeps the fields lists of values. *)
LEMMA ReadLineType ==
  ASSUME NEW info, info \in Infos, NEW line, line \in [key : Keys, value : STRING]
  PROVE  ReadLine(info, line) \in Infos
<1> DEFINE key == line.key
           v == line.value
<1>1. key \in Keys /\ v \in STRING
  OBVIOUS
<1>2. Append(info["Sig"], v) \in Seq(STRING) /\ <<v>> \in Seq(STRING)
  <2>1. "Sig" \in Fields
    BY DEF Fields, Keys
  <2>2. info["Sig"] \in Seq(STRING)
    BY <2>1 DEF Infos
  <2> QED BY <1>1, <2>2
<1>3. ReadLine(info, line) = CASE key = "Unknown" -> info
                               [] key = "Sig"     -> [info EXCEPT !["Sig"] = Append(info["Sig"], v)]
                               [] OTHER           -> [info EXCEPT ![key] = <<v>>]
  BY DEF ReadLine
<1> DEFINE s == Append(info["Sig"], v)
           w == <<v>>
<1> HIDE DEF s, w, key, v
<1>4. s \in Seq(STRING) /\ w \in Seq(STRING)
  BY <1>2 DEF s, w
<1>5. CASE key = "Unknown"
  BY <1>3, <1>5
<1>6. CASE key = "Sig"
  BY <1>3, <1>4, <1>6 DEF Infos, s
<1>7. CASE key \notin {"Unknown", "Sig"}
  BY <1>3, <1>4, <1>7 DEF Infos, w
<1> QED BY <1>5, <1>6, <1>7

(* A turn of the loop leaves a result or an error. *)
LEMMA NarTurnType ==
  ASSUME NEW r, r \in Progress, NEW line, line \in Lines
  PROVE  NarTurn(r, line) \in Progress
<1>1. line # Blank => line \in [key : Keys, value : STRING]
  BY DEF Lines
<1>2. r.tag \in {"ok", "err"} /\ r.info \in Infos /\ r = [tag |-> r.tag, info |-> r.info]
  BY DEF Progress
<1>3. [r EXCEPT !.tag = "err"] = [tag |-> "err", info |-> r.info]
  BY <1>2
<1>4. [r EXCEPT !.info = ReadLine(@, line)] = [tag |-> r.tag, info |-> ReadLine(r.info, line)]
  BY <1>2
<1>5. line # Blank => ReadLine(r.info, line) \in Infos
  BY <1>1, <1>2, ReadLineType
<1> QED BY <1>2, <1>3, <1>4, <1>5 DEF NarTurn, Progress

(* NarInfo::parse's loop has a run, and its end with the check of the *)
(* required fields is the result.                                     *)
LEMMA NarLoop ==
  ASSUME NEW lines, lines \in Seq(Lines), NEW n, n = Len(lines)
  PROVE  \E m : /\ m[0] = Start /\ \A i \in 1..n : m[i] = NarTurn(m[i - 1], lines[i])
                /\ \A i \in 0..n : m[i] \in Progress
                /\ ParseNarInfo(lines) = IF \E k \in Required : m[n].info[k] = <<>>
                                         THEN [m[n] EXCEPT !.tag = "err"] ELSE m[n]
<1> DEFINE G(i) == [r \in Progress |-> NarTurn(r, lines[i])]
           F == [i \in 1..n |-> G(i)]
           Body(m) == [i \in 0..n |-> IF i = 0 THEN Start ELSE NarTurn(m[i - 1], lines[i])]
           m0 == CHOOSE m : m = Body(m)
<1>1. n \in Nat /\ \A i \in 1..n : lines[i] \in Lines
  OBVIOUS
<1>2. Start \in Progress
  <2>1. <<>> \in Seq(STRING)
    OBVIOUS
  <2>2. NoInfo \in Infos
    BY <2>1 DEF NoInfo, Infos, Fields
  <2> QED BY <2>2 DEF Start, Progress
<1>3. \A i \in 1..n : G(i) \in [Progress -> Progress]
  BY <1>1, NarTurnType
<1>4. F \in [1..n -> [Progress -> Progress]]
  <2> HIDE DEF G
  <2> QED BY <1>3
<1> HIDE DEF F
<1>5. PICK g \in [0..n -> Progress] : g[0] = Start /\ \A i \in 1..n : g[i] = F[i][g[i - 1]]
  <2>1. n \in Nat
    BY <1>1
  <2> QED BY ONLY <1>2, <1>4, <2>1, Iterate
<1>6. g = Body(g)
  <2>1. ASSUME NEW i \in 0..n PROVE g[i] = IF i = 0 THEN Start ELSE NarTurn(g[i - 1], lines[i])
    <3>1. CASE i = 0
      BY <1>5, <3>1
    <3>2. CASE i # 0
      <4>1. i \in 1..n /\ i - 1 \in 0..n
        BY <1>1, <3>2
      <4>2. g[i - 1] \in Progress /\ g[i] = F[i][g[i - 1]]
        BY <1>5, <4>1
      <4> QED BY <3>2, <4>1, <4>2 DEF F
    <3> QED BY <3>1, <3>2
  <2> QED BY <2>1
<1>7. m0 = Body(m0)
  <2> HIDE DEF Body
  <2> QED BY <1>6
<1>8. ParseNarInfo(lines) = IF \E k \in Required : m0[n].info[k] = <<>>
                            THEN [m0[n] EXCEPT !.tag = "err"] ELSE m0[n]
  BY DEF ParseNarInfo, NarTurn, Start
<1> HIDE DEF m0
<1>9. m0[0] = Start /\ \A i \in 1..n : m0[i] = NarTurn(m0[i - 1], lines[i])
  <2>1. \A i \in 0..n : m0[i] = IF i = 0 THEN Start ELSE NarTurn(m0[i - 1], lines[i])
    BY <1>7
  <2>2. 0 \in 0..n /\ \A i \in 1..n : i \in 0..n /\ i # 0
    BY <1>1
  <2> QED BY <2>1, <2>2
<1> DEFINE Good == {i \in 0..n : m0[i] \in Progress}
<1>10. 0 \in Good
  BY <1>1, <1>2, <1>9
<1>11. ASSUME NEW i \in 1..n, i - 1 \in Good PROVE i \in Good
  BY <1>1, <1>9, <1>11, NarTurnType
<1>12. \A i \in 0..n : i \in Good
  <2> HIDE DEF Good
  <2> QED BY ONLY <1>1, <1>10, <1>11, ByInduction
<1> QED BY <1>8, <1>9, <1>12

(* The lines of a key among the first i, and whether a line reads. *)
At(lines, k, i) == {j \in 1..i : lines[j].key = k}
Reads(line) == line = Blank \/ (line.value # "" /\ Parses(line))

(* A field is what its last line so far says. *)
LastSays(lines, info, k, i) ==
  IF At(lines, k, i) = {} THEN info[k] = <<>>
  ELSE \E j \in At(lines, k, i) : /\ \A l \in At(lines, k, i) : l <= j
                                  /\ info[k] = <<lines[j].value>>

(* One line more is one line more of its key and of no other. *)
LEMMA AtStep ==
  ASSUME NEW lines, NEW i \in Nat \ {0}, NEW k
  PROVE  At(lines, k, i) = IF lines[i].key = k THEN At(lines, k, i - 1) \cup {i}
                           ELSE At(lines, k, i - 1)
<1>1. \A j : j \in 1..i <=> (j \in 1..i - 1 \/ j = i)
  OBVIOUS
<1> QED BY <1>1 DEF At

(* One line more: the fields it is not about stay, the one it is about is new. *)
LEMMA SaysStep ==
  ASSUME NEW lines, NEW i \in Nat \ {0}, NEW k, NEW old, NEW new,
         lines[i].key # k => LastSays(lines, old, k, i - 1) /\ new[k] = old[k],
         lines[i].key = k => new[k] = <<lines[i].value>>
  PROVE  LastSays(lines, new, k, i)
<1>1. CASE lines[i].key # k
  <2>1. At(lines, k, i) = At(lines, k, i - 1)
    BY <1>1, AtStep
  <2> QED BY <1>1, <2>1 DEF LastSays
<1>2. CASE lines[i].key = k
  <2>1. At(lines, k, i) # {} /\ i \in At(lines, k, i)
    BY <1>2, AtStep
  <2>2. \A l \in At(lines, k, i) : l <= i
    BY DEF At
  <2> QED BY <1>2, <2>1, <2>2 DEF LastSays
<1> QED BY <1>1, <1>2

(* And so it counts once, for its key. *)
LEMMA CountStep ==
  ASSUME NEW lines, NEW i \in Nat \ {0}, NEW k
  PROVE  /\ IsFiniteSet(At(lines, k, i))
         /\ Cardinality(At(lines, k, i)) =
              IF lines[i].key = k THEN Cardinality(At(lines, k, i - 1)) + 1
              ELSE Cardinality(At(lines, k, i - 1))
<1>1. \A j \in Nat : IsFiniteSet(At(lines, k, j))
  <2> SUFFICES ASSUME NEW j \in Nat PROVE IsFiniteSet(At(lines, k, j))
    OBVIOUS
  <2>1. IsFiniteSet(1..j)
    BY FS_Interval
  <2>2. At(lines, k, j) \in SUBSET (1..j)
    BY DEF At
  <2> QED BY ONLY <2>1, <2>2, FS_Subset
<1>2. i - 1 \in Nat /\ i \notin At(lines, k, i - 1)
  BY DEF At
<1>3. IsFiniteSet(At(lines, k, i - 1))
  BY <1>1, <1>2
<1>4. Cardinality(At(lines, k, i - 1) \cup {i}) = Cardinality(At(lines, k, i - 1)) + 1
  BY <1>2, <1>3, FS_AddElement
<1>5. At(lines, k, i) = IF lines[i].key = k THEN At(lines, k, i - 1) \cup {i}
                        ELSE At(lines, k, i - 1)
  BY AtStep
<1>6. IsFiniteSet(At(lines, k, i))
  BY <1>1
<1> QED BY <1>4, <1>5, <1>6

(* What a turn that reads a line does to the fields. *)
LEMMA ReadLineSays ==
  ASSUME NEW info, info \in Infos, NEW line, line \in [key : Keys, value : STRING]
  PROVE  /\ \A k \in Fields : line.key # k => ReadLine(info, line)[k] = info[k]
         /\ \A k \in Fields \ {"Sig"} : line.key = k => ReadLine(info, line)[k] = <<line.value>>
         /\ Len(ReadLine(info, line)["Sig"])
              = IF line.key = "Sig" THEN Len(info["Sig"]) + 1 ELSE Len(info["Sig"])
<1> DEFINE key == line.key
           v == line.value
           s == Append(info["Sig"], v)
           w == <<v>>
<1>1. ReadLine(info, line) = CASE key = "Unknown" -> info
                               [] key = "Sig"     -> [info EXCEPT !["Sig"] = s]
                               [] OTHER           -> [info EXCEPT ![key] = w]
  BY DEF ReadLine
<1>2. "Sig" \in Fields /\ "Unknown" \notin Fields /\ DOMAIN info = Fields
  BY DEF Fields, Keys, Infos
<1>3. Len(s) = Len(info["Sig"]) + 1
  <2>1. info["Sig"] \in Seq(STRING)
    BY <1>2 DEF Infos
  <2>2. v \in STRING
    OBVIOUS
  <2> QED BY <2>1, <2>2
<1>4. key \in Keys
  OBVIOUS
<1> HIDE DEF key, v, s, w
<1>5. CASE key = "Unknown"
  BY <1>1, <1>2, <1>5 DEF key
<1>6. CASE key = "Sig"
  BY <1>1, <1>2, <1>3, <1>6 DEF key
<1>7. CASE key \notin {"Unknown", "Sig"}
  <2>1. ReadLine(info, line) = [info EXCEPT ![key] = w]
    BY <1>1, <1>7
  <2> QED BY <1>2, <1>7, <2>1 DEF key, w, v
<1> QED BY <1>5, <1>6, <1>7

(* What is right about the result after i lines. *)
ReadSoFar(lines, r, i) ==
  /\ r.tag = "ok" <=> \A j \in 1..i : Reads(lines[j])
  /\ r.tag = "ok" => /\ \A k \in Fields \ {"Sig"} : LastSays(lines, r.info, k, i)
                     /\ Len(r.info["Sig"]) = Cardinality(At(lines, "Sig", i))

(* A turn of the loop keeps what has been read so far right. *)
LEMMA ReadStep ==
  ASSUME NEW lines, NEW i \in Nat \ {0}, lines[i] \in Lines,
         NEW r, r \in Progress, ReadSoFar(lines, r, i - 1)
  PROVE  ReadSoFar(lines, NarTurn(r, lines[i]), i)
<1> DEFINE line == lines[i]
           s == NarTurn(r, line)
<1>1. r.tag \in {"ok", "err"} /\ r.info \in Infos /\ DOMAIN r = {"tag", "info"}
  BY DEF Progress
<1>2. (\A j \in 1..i : Reads(lines[j])) <=> (\A j \in 1..i - 1 : Reads(lines[j])) /\ Reads(line)
  <2>1. \A j : j \in 1..i <=> (j \in 1..i - 1 \/ j = i)
    OBVIOUS
  <2> QED BY <2>1
<1>3. CASE r.tag = "err"
  <2>1. s = r
    BY <1>3 DEF NarTurn
  <2> QED BY <1>2, <1>3, <2>1 DEF ReadSoFar
<1>4. CASE r.tag = "ok" /\ line = Blank
  <2>1. s = r
    BY <1>4 DEF NarTurn
  <2>2. Reads(line) /\ line.key = ""
    <3>1. Blank.key = ""
      BY DEF Blank
    <3> HIDE DEF line
    <3> QED BY <1>4, <3>1 DEF Reads
  <2>3. \A k \in Fields : line.key # k
    BY <2>2 DEF Fields, Keys, Required
  <2>4. \A k \in Fields \ {"Sig"} : LastSays(lines, r.info, k, i)
    <3> SUFFICES ASSUME NEW k \in Fields \ {"Sig"} PROVE LastSays(lines, r.info, k, i)
      OBVIOUS
    <3>1. line.key # k /\ LastSays(lines, r.info, k, i - 1)
      BY <1>4, <2>3 DEF ReadSoFar
    <3> QED BY <3>1, SaysStep
  <2>5. Cardinality(At(lines, "Sig", i)) = Cardinality(At(lines, "Sig", i - 1))
    <3>1. line.key # "Sig"
      BY <2>2
    <3> QED BY <3>1, CountStep
  <2> QED BY <1>2, <1>4, <2>1, <2>2, <2>4, <2>5 DEF ReadSoFar
<1>5. CASE r.tag = "ok" /\ line # Blank /\ (Malformed(line) \/ ~Parses(line))
  <2>1. s.tag = "err"
    BY <1>1, <1>5 DEF NarTurn
  <2>2. ~Reads(line)
    BY <1>5 DEF Reads, Malformed
  <2> QED BY <1>2, <2>1, <2>2 DEF ReadSoFar
<1>6. CASE r.tag = "ok" /\ line # Blank /\ ~(Malformed(line) \/ ~Parses(line))
  <2>1. s.tag = "ok" /\ s.info = ReadLine(r.info, line)
    BY <1>1, <1>6 DEF NarTurn
  <2>2. Reads(line)
    BY <1>6 DEF Reads, Malformed
  <2>3. line \in [key : Keys, value : STRING]
    BY <1>6 DEF Lines
  <2>4. /\ \A k \in Fields : line.key # k => s.info[k] = r.info[k]
        /\ \A k \in Fields \ {"Sig"} : line.key = k => s.info[k] = <<line.value>>
        /\ Len(s.info["Sig"])
              = IF line.key = "Sig" THEN Len(r.info["Sig"]) + 1 ELSE Len(r.info["Sig"])
    <3> DEFINE x == r.info
    <3>1. x \in Infos
      BY <1>1
    <3> HIDE DEF line, x
    <3>2. /\ \A k \in Fields : line.key # k => ReadLine(x, line)[k] = x[k]
          /\ \A k \in Fields \ {"Sig"} : line.key = k => ReadLine(x, line)[k] = <<line.value>>
          /\ Len(ReadLine(x, line)["Sig"])
               = IF line.key = "Sig" THEN Len(x["Sig"]) + 1 ELSE Len(x["Sig"])
      BY ONLY <2>3, <3>1, ReadLineSays
    <3>3. s.info = ReadLine(x, line)
      BY <2>1 DEF x
    <3> HIDE DEF s
    <3> QED BY ONLY <3>2, <3>3 DEF x
  <2>5. \A k \in Fields \ {"Sig"} : LastSays(lines, s.info, k, i)
    <3> SUFFICES ASSUME NEW k \in Fields \ {"Sig"} PROVE LastSays(lines, s.info, k, i)
      OBVIOUS
    <3> DEFINE old == r.info
               new == s.info
    <3>1. line.key # k => LastSays(lines, old, k, i - 1) /\ new[k] = old[k]
      BY <1>6, <2>4 DEF ReadSoFar
    <3>2. line.key = k => new[k] = <<line.value>>
      BY <2>4
    <3> HIDE DEF old, new
    <3>3. LastSays(lines, new, k, i)
      BY <3>1, <3>2, SaysStep
    <3> QED BY <3>3 DEF new
  <2>6. Len(s.info["Sig"]) = Cardinality(At(lines, "Sig", i))
    <3>1. Len(r.info["Sig"]) = Cardinality(At(lines, "Sig", i - 1))
      BY <1>6 DEF ReadSoFar
    <3>2. Cardinality(At(lines, "Sig", i)) =
              IF line.key = "Sig" THEN Cardinality(At(lines, "Sig", i - 1)) + 1
              ELSE Cardinality(At(lines, "Sig", i - 1))
      BY CountStep
    <3> QED BY <2>4, <3>1, <3>2
  <2>7. \A j \in 1..i - 1 : Reads(lines[j])
    BY <1>6 DEF ReadSoFar
  <2> HIDE DEF s, line
  <2> QED BY <1>2, <2>1, <2>2, <2>5, <2>6, <2>7 DEF ReadSoFar, s, line
<1> QED BY <1>1, <1>3, <1>4, <1>5, <1>6

(* After the last line it is right for the whole file. *)
LEMMA ReadAll ==
  ASSUME NEW lines, lines \in Seq(Lines), NEW n, n = Len(lines)
  PROVE  \E r : /\ r \in Progress /\ ReadSoFar(lines, r, n)
                /\ ParseNarInfo(lines) = IF \E k \in Required : r.info[k] = <<>>
                                         THEN [r EXCEPT !.tag = "err"] ELSE r
<1>1. PICK m : /\ m[0] = Start /\ \A i \in 1..n : m[i] = NarTurn(m[i - 1], lines[i])
               /\ \A i \in 0..n : m[i] \in Progress
               /\ ParseNarInfo(lines) = IF \E k \in Required : m[n].info[k] = <<>>
                                        THEN [m[n] EXCEPT !.tag = "err"] ELSE m[n]
  BY NarLoop
<1>2. n \in Nat /\ \A i \in 1..n : lines[i] \in Lines
  OBVIOUS
<1> DEFINE Good == {i \in 0..n : ReadSoFar(lines, m[i], i)}
<1>3. 0 \in Good
  <2>1. 1..0 = {} /\ 0 \in 0..n
    BY <1>2
  <2>2. \A k : At(lines, k, 0) = {}
    BY <2>1 DEF At
  <2>3. Start.tag = "ok" /\ \A k \in Fields : Start.info[k] = <<>>
    BY DEF Start, NoInfo, Fields
  <2>4. "Sig" \in Fields
    BY DEF Fields, Keys
  <2>5. Len(Start.info["Sig"]) = 0 /\ Cardinality(At(lines, "Sig", 0)) = 0
    <3>1. Start.info["Sig"] = <<>>
      BY <2>3, <2>4
    <3>2. Len(<<>>) = 0
      OBVIOUS
    <3>3. Cardinality({}) = 0
      BY FS_EmptySet
    <3> QED BY <2>2, <3>1, <3>2, <3>3
  <2>6. ReadSoFar(lines, Start, 0)
    BY <2>1, <2>2, <2>3, <2>5 DEF ReadSoFar, LastSays
  <2> QED BY <1>1, <2>1, <2>6
<1>4. ASSUME NEW i \in 1..n, i - 1 \in Good PROVE i \in Good
  <2>1. i \in Nat \ {0} /\ i \in 0..n /\ i - 1 \in 0..n
    BY <1>2
  <2>2. m[i] = NarTurn(m[i - 1], lines[i]) /\ m[i - 1] \in Progress /\ lines[i] \in Lines
    BY <1>1, <1>2, <2>1
  <2>3. ReadSoFar(lines, m[i - 1], i - 1)
    BY <1>4
  <2>4. ReadSoFar(lines, m[i], i)
    BY <2>1, <2>2, <2>3, ReadStep
  <2> QED BY <2>1, <2>4
<1>5. \A i \in 0..n : i \in Good
  <2>1. n \in Nat
    BY <1>2
  <2> HIDE DEF Good
  <2> QED BY ONLY <1>3, <1>4, <2>1, ByInduction
<1>6. n \in 0..n
  BY <1>2
<1>7. m[n] \in Progress /\ ReadSoFar(lines, m[n], n)
  BY <1>1, <1>5, <1>6
<1> QED BY <1>1, <1>7

(* NarInfo::parse, for any file: accepted when every line reads and none is *)
(* missing, with the values of the last lines.                              *)
LEMMA NarInfoHolds == ReadersTypeOK => NarInfoIsItsLines
<1> SUFFICES ASSUME ReadersTypeOK, subject = "narinfo" PROVE NarInfoIsItsLines
  BY DEF NarInfoIsItsLines
<1> DEFINE res == ParseNarInfo(input)
           n == Len(input)
           A(k) == {i \in DOMAIN input : input[i].key = k}
           reads == \A i \in DOMAIN input :
                      input[i] = Blank \/ (input[i].value # "" /\ Parses(input[i]))
<1>1. input \in Seq(Lines)
  BY DEF ReadersTypeOK, Inputs
<1>2. DOMAIN input = 1..n
  BY <1>1
<1>3. PICK r : /\ r \in Progress /\ ReadSoFar(input, r, n)
               /\ res = IF \E k \in Required : r.info[k] = <<>>
                        THEN [r EXCEPT !.tag = "err"] ELSE r
  BY <1>1, ReadAll
<1>4. \A k : At(input, k, n) = A(k)
  BY <1>2 DEF At
<1>5. reads <=> \A i \in 1..n : Reads(input[i])
  BY <1>2 DEF Reads
<1> HIDE DEF reads, A, n, res
<1>6. r.tag = "ok" <=> reads
  BY <1>3, <1>5 DEF ReadSoFar
<1>7. r.tag = "ok" => /\ \A k \in Fields \ {"Sig"} :
                           IF A(k) = {} THEN r.info[k] = <<>>
                           ELSE \E j \in A(k) : /\ \A l \in A(k) : l <= j
                                                /\ r.info[k] = <<input[j].value>>
                      /\ Len(r.info["Sig"]) = Cardinality(A("Sig"))
  BY <1>3, <1>4 DEF ReadSoFar, LastSays
<1>8. DOMAIN r = {"tag", "info"}
  BY <1>3 DEF Progress
<1>9. Required \subseteq Fields \ {"Sig"}
  BY DEF Required, Fields, Keys
<1>10. \A v : <<v>> # <<>>
  OBVIOUS
<1>11. r.tag = "ok" => \A k \in Required : r.info[k] = <<>> <=> A(k) = {}
  <2> SUFFICES ASSUME r.tag = "ok", NEW k \in Required PROVE r.info[k] = <<>> <=> A(k) = {}
    OBVIOUS
  <2>1. k \in Fields \ {"Sig"}
    BY <1>9
  <2>2. IF A(k) = {} THEN r.info[k] = <<>>
        ELSE \E j \in A(k) : r.info[k] = <<input[j].value>>
    BY <1>7, <2>1
  <2> QED BY <1>10, <2>2
<1>12. res.tag = "ok" <=> r.tag = "ok" /\ \A k \in Required : r.info[k] # <<>>
  BY <1>3, <1>8
<1>13. res.tag = "ok" => res = r
  BY <1>3, <1>8
<1>14. res.tag = "ok" <=> reads /\ \A k \in Required : A(k) # {}
  BY <1>6, <1>11, <1>12
<1>15. Fields \ {"Sig"} = Keys \ {"Unknown", "Sig"}
  BY DEF Fields
<1> QED
  <2>1. res.tag = "ok" => \A k \in Keys \ {"Unknown", "Sig"} :
             IF A(k) = {} THEN res.info[k] = <<>>
             ELSE \E i \in A(k) : /\ \A j \in A(k) : j <= i
                                  /\ res.info[k] = <<input[i].value>>
    BY <1>7, <1>12, <1>13, <1>15
  <2>2. res.tag = "ok" => Len(res.info["Sig"]) = Cardinality(A("Sig"))
    BY <1>7, <1>12, <1>13
  <2> QED BY <1>14, <2>1, <2>2 DEF NarInfoIsItsLines, reads, A, res

-----------------------------------------------------------------------------
(* Bytes and their bits *)

(* The powers of two a byte needs. *)
LEMMA Powers ==
  /\ 2^0 = 1 /\ 2^1 = 2 /\ 2^2 = 4 /\ 2^3 = 8 /\ 2^4 = 16
  /\ 2^5 = 32 /\ 2^6 = 64 /\ 2^7 = 128
  OBVIOUS

(* A byte, put together from its bits. *)
IsBit(b) == b \in 0..1
Byte == 0..255
Octet(a, b, c, d, e, f, g, h) ==
  a + 2 * b + 4 * c + 8 * d + 16 * e + 32 * f + 64 * g + 128 * h

(* A bit is 0 or 1. *)
LEMMA BitType ==
  ASSUME NEW x \in Nat, NEW k \in 0..7
  PROVE  IsBit(Bit(x, k))
  BY DEF Bit, IsBit

(* A byte has eight of them. *)
LEMMA EachBit ==
  ASSUME NEW k \in 0..7
  PROVE  k = 0 \/ k = 1 \/ k = 2 \/ k = 3 \/ k = 4 \/ k = 5 \/ k = 6 \/ k = 7
  OBVIOUS

(* The bits of a number, by its quotients. *)
LEMMA BitsAt ==
  ASSUME NEW x \in Nat
  PROVE  /\ Bit(x, 0) = x % 2 /\ Bit(x, 1) = (x \div 2) % 2
         /\ Bit(x, 2) = (x \div 4) % 2 /\ Bit(x, 3) = (x \div 8) % 2
         /\ Bit(x, 4) = (x \div 16) % 2 /\ Bit(x, 5) = (x \div 32) % 2
         /\ Bit(x, 6) = (x \div 64) % 2 /\ Bit(x, 7) = (x \div 128) % 2
<1>1. x \div 1 = x
  OBVIOUS
<1> QED BY <1>1, Powers DEF Bit

(* The number put together from eight bits is a byte with these bits. *)
LEMMA OctetBits ==
  ASSUME NEW a, NEW b, NEW c, NEW d, NEW e, NEW f, NEW g, NEW h,
         IsBit(a), IsBit(b), IsBit(c), IsBit(d), IsBit(e), IsBit(f), IsBit(g), IsBit(h),
         NEW x, x = Octet(a, b, c, d, e, f, g, h)
  PROVE  /\ x \in Byte
         /\ Bit(x, 0) = a /\ Bit(x, 1) = b /\ Bit(x, 2) = c /\ Bit(x, 3) = d
         /\ Bit(x, 4) = e /\ Bit(x, 5) = f /\ Bit(x, 6) = g /\ Bit(x, 7) = h
<1>1. x \in Byte /\ x \in Nat
  BY DEF IsBit, Octet, Byte
<1>2. x % 2 = a /\ (x \div 2) % 2 = b
  BY DEF IsBit, Octet
<1>3. (x \div 4) % 2 = c
  <2> DEFINE q == c + 2 * d + 4 * e + 8 * f + 16 * g + 32 * h
             r == a + 2 * b
  <2>1. x = 4 * q + r /\ q \in Int /\ r \in 0..3 /\ q % 2 = c
    BY DEF IsBit, Octet
  <2> HIDE DEF q, r
  <2>2. x \div 4 = q
    BY <2>1
  <2> QED BY <2>1, <2>2
<1>4. (x \div 8) % 2 = d
  <2> DEFINE q == d + 2 * e + 4 * f + 8 * g + 16 * h
             r == a + 2 * b + 4 * c
  <2>1. x = 8 * q + r /\ q \in Int /\ r \in 0..7 /\ q % 2 = d
    BY DEF IsBit, Octet
  <2> HIDE DEF q, r
  <2>2. x \div 8 = q
    BY <2>1
  <2> QED BY <2>1, <2>2
<1>5. (x \div 16) % 2 = e
  <2> DEFINE q == e + 2 * f + 4 * g + 8 * h
             r == a + 2 * b + 4 * c + 8 * d
  <2>1. x = 16 * q + r /\ q \in Int /\ r \in 0..15 /\ q % 2 = e
    BY DEF IsBit, Octet
  <2> HIDE DEF q, r
  <2>2. x \div 16 = q
    BY <2>1
  <2> QED BY <2>1, <2>2
<1>6. (x \div 32) % 2 = f
  <2> DEFINE q == f + 2 * g + 4 * h
             r == a + 2 * b + 4 * c + 8 * d + 16 * e
  <2>1. x = 32 * q + r /\ q \in Int /\ r \in 0..31 /\ q % 2 = f
    BY DEF IsBit, Octet
  <2> HIDE DEF q, r
  <2>2. x \div 32 = q
    BY <2>1
  <2> QED BY <2>1, <2>2
<1>7. (x \div 64) % 2 = g
  <2> DEFINE q == g + 2 * h
             r == a + 2 * b + 4 * c + 8 * d + 16 * e + 32 * f
  <2>1. x = 64 * q + r /\ q \in Int /\ r \in 0..63 /\ q % 2 = g
    BY DEF IsBit, Octet
  <2> HIDE DEF q, r
  <2>2. x \div 64 = q
    BY <2>1
  <2> QED BY <2>1, <2>2
<1>8. (x \div 128) % 2 = h
  <2> DEFINE q == h
             r == a + 2 * b + 4 * c + 8 * d + 16 * e + 32 * f + 64 * g
  <2>1. x = 128 * q + r /\ q \in Int /\ r \in 0..127 /\ q % 2 = h
    BY DEF IsBit, Octet
  <2> HIDE DEF q, r
  <2>2. x \div 128 = q
    BY <2>1
  <2> QED BY <2>1, <2>2
<1> QED BY <1>1, <1>2, <1>3, <1>4, <1>5, <1>6, <1>7, <1>8, BitsAt

(* A byte is put together from its bits. *)
LEMMA ByteIsOctet ==
  ASSUME NEW x \in Byte
  PROVE  x = Octet(Bit(x, 0), Bit(x, 1), Bit(x, 2), Bit(x, 3),
                   Bit(x, 4), Bit(x, 5), Bit(x, 6), Bit(x, 7))
<1>1. x \in Nat /\ x < 256
  BY DEF Byte
<1>2. x = (x % 2) + 2 * ((x \div 2) % 2) + 4 * ((x \div 4) % 2) + 8 * ((x \div 8) % 2)
          + 16 * ((x \div 16) % 2) + 32 * ((x \div 32) % 2) + 64 * ((x \div 64) % 2)
          + 128 * ((x \div 128) % 2)
  BY <1>1
<1>3. x = Octet(x % 2, (x \div 2) % 2, (x \div 4) % 2, (x \div 8) % 2,
                (x \div 16) % 2, (x \div 32) % 2, (x \div 64) % 2, (x \div 128) % 2)
  BY <1>2 DEF Octet
<1>4. /\ Bit(x, 0) = x % 2 /\ Bit(x, 1) = (x \div 2) % 2
      /\ Bit(x, 2) = (x \div 4) % 2 /\ Bit(x, 3) = (x \div 8) % 2
      /\ Bit(x, 4) = (x \div 16) % 2 /\ Bit(x, 5) = (x \div 32) % 2
      /\ Bit(x, 6) = (x \div 64) % 2 /\ Bit(x, 7) = (x \div 128) % 2
  BY <1>1, BitsAt
<1> QED BY ONLY <1>3, <1>4, Zenon

(* Bytes with the same bits are the same. *)
LEMMA SameBits ==
  ASSUME NEW x \in Byte, NEW y \in Byte, \A k \in 0..7 : Bit(x, k) = Bit(y, k)
  PROVE  x = y
<1>1. /\ Bit(x, 0) = Bit(y, 0) /\ Bit(x, 1) = Bit(y, 1) /\ Bit(x, 2) = Bit(y, 2)
      /\ Bit(x, 3) = Bit(y, 3) /\ Bit(x, 4) = Bit(y, 4) /\ Bit(x, 5) = Bit(y, 5)
      /\ Bit(x, 6) = Bit(y, 6) /\ Bit(x, 7) = Bit(y, 7)
  OBVIOUS
<1>2. /\ x = Octet(Bit(x, 0), Bit(x, 1), Bit(x, 2), Bit(x, 3),
                   Bit(x, 4), Bit(x, 5), Bit(x, 6), Bit(x, 7))
      /\ y = Octet(Bit(y, 0), Bit(y, 1), Bit(y, 2), Bit(y, 3),
                   Bit(y, 4), Bit(y, 5), Bit(y, 6), Bit(y, 7))
  BY ByteIsOctet
<1> QED BY <1>1, <1>2, Zenon

(* x << s moves the bits up; those above the byte are lost. *)
LEMMA ShiftLBits ==
  ASSUME NEW x \in Byte, NEW s \in 0..7
  PROVE  /\ ShiftL(x, s) \in Byte
         /\ \A k \in 0..7 : Bit(ShiftL(x, s), k) = IF k < s THEN 0 ELSE Bit(x, k - s)
<1> DEFINE b0 == Bit(x, 0)
           b1 == Bit(x, 1)
           b2 == Bit(x, 2)
           b3 == Bit(x, 3)
           b4 == Bit(x, 4)
           b5 == Bit(x, 5)
           b6 == Bit(x, 6)
           b7 == Bit(x, 7)
<1>1. x = Octet(b0, b1, b2, b3, b4, b5, b6, b7)
  BY ByteIsOctet
<1>2. /\ IsBit(b0) /\ IsBit(b1) /\ IsBit(b2) /\ IsBit(b3) /\ IsBit(b4)
      /\ IsBit(b5) /\ IsBit(b6) /\ IsBit(b7) /\ IsBit(0)
  BY BitType DEF Byte, IsBit
<1> HIDE DEF b0, b1, b2, b3, b4, b5, b6, b7
<1> DEFINE y == ShiftL(x, s)
           Is(a, b, c, d, e, f, g, h) ==
             /\ y \in Byte /\ Bit(y, 0) = a /\ Bit(y, 1) = b /\ Bit(y, 2) = c /\ Bit(y, 3) = d
             /\ Bit(y, 4) = e /\ Bit(y, 5) = f /\ Bit(y, 6) = g /\ Bit(y, 7) = h
<1>3. s = 0 => Is(b0, b1, b2, b3, b4, b5, b6, b7)
  <2> SUFFICES ASSUME s = 0 PROVE Is(b0, b1, b2, b3, b4, b5, b6, b7)
    OBVIOUS
  <2>1. y = Octet(b0, b1, b2, b3, b4, b5, b6, b7)
    BY <1>1, <1>2, Powers DEF ShiftL, Octet, IsBit
  <2> HIDE DEF y
  <2> QED BY <1>2, <2>1, OctetBits
<1>4. s = 1 => Is(0, b0, b1, b2, b3, b4, b5, b6)
  <2> SUFFICES ASSUME s = 1 PROVE Is(0, b0, b1, b2, b3, b4, b5, b6)
    OBVIOUS
  <2>1. y = Octet(0, b0, b1, b2, b3, b4, b5, b6)
    BY <1>1, <1>2, Powers DEF ShiftL, Octet, IsBit
  <2> HIDE DEF y
  <2> QED BY <1>2, <2>1, OctetBits
<1>5. s = 2 => Is(0, 0, b0, b1, b2, b3, b4, b5)
  <2> SUFFICES ASSUME s = 2 PROVE Is(0, 0, b0, b1, b2, b3, b4, b5)
    OBVIOUS
  <2>1. y = Octet(0, 0, b0, b1, b2, b3, b4, b5)
    BY <1>1, <1>2, Powers DEF ShiftL, Octet, IsBit
  <2> HIDE DEF y
  <2> QED BY <1>2, <2>1, OctetBits
<1>6. s = 3 => Is(0, 0, 0, b0, b1, b2, b3, b4)
  <2> SUFFICES ASSUME s = 3 PROVE Is(0, 0, 0, b0, b1, b2, b3, b4)
    OBVIOUS
  <2>1. y = Octet(0, 0, 0, b0, b1, b2, b3, b4)
    BY <1>1, <1>2, Powers DEF ShiftL, Octet, IsBit
  <2> HIDE DEF y
  <2> QED BY <1>2, <2>1, OctetBits
<1>7. s = 4 => Is(0, 0, 0, 0, b0, b1, b2, b3)
  <2> SUFFICES ASSUME s = 4 PROVE Is(0, 0, 0, 0, b0, b1, b2, b3)
    OBVIOUS
  <2>1. y = Octet(0, 0, 0, 0, b0, b1, b2, b3)
    BY <1>1, <1>2, Powers DEF ShiftL, Octet, IsBit
  <2> HIDE DEF y
  <2> QED BY <1>2, <2>1, OctetBits
<1>8. s = 5 => Is(0, 0, 0, 0, 0, b0, b1, b2)
  <2> SUFFICES ASSUME s = 5 PROVE Is(0, 0, 0, 0, 0, b0, b1, b2)
    OBVIOUS
  <2>1. y = Octet(0, 0, 0, 0, 0, b0, b1, b2)
    BY <1>1, <1>2, Powers DEF ShiftL, Octet, IsBit
  <2> HIDE DEF y
  <2> QED BY <1>2, <2>1, OctetBits
<1>9. s = 6 => Is(0, 0, 0, 0, 0, 0, b0, b1)
  <2> SUFFICES ASSUME s = 6 PROVE Is(0, 0, 0, 0, 0, 0, b0, b1)
    OBVIOUS
  <2>1. y = Octet(0, 0, 0, 0, 0, 0, b0, b1)
    BY <1>1, <1>2, Powers DEF ShiftL, Octet, IsBit
  <2> HIDE DEF y
  <2> QED BY <1>2, <2>1, OctetBits
<1>10. s = 7 => Is(0, 0, 0, 0, 0, 0, 0, b0)
  <2> SUFFICES ASSUME s = 7 PROVE Is(0, 0, 0, 0, 0, 0, 0, b0)
    OBVIOUS
  <2>1. y = Octet(0, 0, 0, 0, 0, 0, 0, b0)
    BY <1>1, <1>2, Powers DEF ShiftL, Octet, IsBit
  <2> HIDE DEF y
  <2> QED BY <1>2, <2>1, OctetBits
<1> QED
  <2>1. y \in Byte
    BY <1>3, <1>4, <1>5, <1>6, <1>7, <1>8, <1>9, <1>10, EachBit
  <2>2. ASSUME NEW k \in 0..7 PROVE Bit(y, k) = IF k < s THEN 0 ELSE Bit(x, k - s)
    <3> HIDE DEF y
    <3> QED BY <1>3, <1>4, <1>5, <1>6, <1>7, <1>8, <1>9, <1>10, EachBit DEF b0, b1, b2, b3, b4, b5, b6, b7
  <2> QED BY <2>1, <2>2

(* x >> s moves the bits down. *)
LEMMA ShiftRBits ==
  ASSUME NEW x \in Byte, NEW s \in 0..7
  PROVE  /\ ShiftR(x, s) \in Byte
         /\ \A k \in 0..7 : Bit(ShiftR(x, s), k) = IF k + s < 8 THEN Bit(x, k + s) ELSE 0
<1> DEFINE b0 == Bit(x, 0)
           b1 == Bit(x, 1)
           b2 == Bit(x, 2)
           b3 == Bit(x, 3)
           b4 == Bit(x, 4)
           b5 == Bit(x, 5)
           b6 == Bit(x, 6)
           b7 == Bit(x, 7)
<1>1. x = Octet(b0, b1, b2, b3, b4, b5, b6, b7)
  BY ByteIsOctet
<1>2. /\ IsBit(b0) /\ IsBit(b1) /\ IsBit(b2) /\ IsBit(b3) /\ IsBit(b4)
      /\ IsBit(b5) /\ IsBit(b6) /\ IsBit(b7) /\ IsBit(0)
  BY BitType DEF Byte, IsBit
<1> HIDE DEF b0, b1, b2, b3, b4, b5, b6, b7
<1> DEFINE y == ShiftR(x, s)
           Is(a, b, c, d, e, f, g, h) ==
             /\ y \in Byte /\ Bit(y, 0) = a /\ Bit(y, 1) = b /\ Bit(y, 2) = c /\ Bit(y, 3) = d
             /\ Bit(y, 4) = e /\ Bit(y, 5) = f /\ Bit(y, 6) = g /\ Bit(y, 7) = h
<1>3. s = 0 => Is(b0, b1, b2, b3, b4, b5, b6, b7)
  <2> SUFFICES ASSUME s = 0 PROVE Is(b0, b1, b2, b3, b4, b5, b6, b7)
    OBVIOUS
  <2>1. y = Octet(b0, b1, b2, b3, b4, b5, b6, b7)
    BY <1>1, <1>2, Powers DEF ShiftR, Octet, IsBit
  <2> HIDE DEF y
  <2> QED BY <1>2, <2>1, OctetBits
<1>4. s = 1 => Is(b1, b2, b3, b4, b5, b6, b7, 0)
  <2> SUFFICES ASSUME s = 1 PROVE Is(b1, b2, b3, b4, b5, b6, b7, 0)
    OBVIOUS
  <2>1. y = Octet(b1, b2, b3, b4, b5, b6, b7, 0)
    BY <1>1, <1>2, Powers DEF ShiftR, Octet, IsBit
  <2> HIDE DEF y
  <2> QED BY <1>2, <2>1, OctetBits
<1>5. s = 2 => Is(b2, b3, b4, b5, b6, b7, 0, 0)
  <2> SUFFICES ASSUME s = 2 PROVE Is(b2, b3, b4, b5, b6, b7, 0, 0)
    OBVIOUS
  <2>1. y = Octet(b2, b3, b4, b5, b6, b7, 0, 0)
    BY <1>1, <1>2, Powers DEF ShiftR, Octet, IsBit
  <2> HIDE DEF y
  <2> QED BY <1>2, <2>1, OctetBits
<1>6. s = 3 => Is(b3, b4, b5, b6, b7, 0, 0, 0)
  <2> SUFFICES ASSUME s = 3 PROVE Is(b3, b4, b5, b6, b7, 0, 0, 0)
    OBVIOUS
  <2>1. y = Octet(b3, b4, b5, b6, b7, 0, 0, 0)
    BY <1>1, <1>2, Powers DEF ShiftR, Octet, IsBit
  <2> HIDE DEF y
  <2> QED BY <1>2, <2>1, OctetBits
<1>7. s = 4 => Is(b4, b5, b6, b7, 0, 0, 0, 0)
  <2> SUFFICES ASSUME s = 4 PROVE Is(b4, b5, b6, b7, 0, 0, 0, 0)
    OBVIOUS
  <2>1. y = Octet(b4, b5, b6, b7, 0, 0, 0, 0)
    BY <1>1, <1>2, Powers DEF ShiftR, Octet, IsBit
  <2> HIDE DEF y
  <2> QED BY <1>2, <2>1, OctetBits
<1>8. s = 5 => Is(b5, b6, b7, 0, 0, 0, 0, 0)
  <2> SUFFICES ASSUME s = 5 PROVE Is(b5, b6, b7, 0, 0, 0, 0, 0)
    OBVIOUS
  <2>1. y = Octet(b5, b6, b7, 0, 0, 0, 0, 0)
    BY <1>1, <1>2, Powers DEF ShiftR, Octet, IsBit
  <2> HIDE DEF y
  <2> QED BY <1>2, <2>1, OctetBits
<1>9. s = 6 => Is(b6, b7, 0, 0, 0, 0, 0, 0)
  <2> SUFFICES ASSUME s = 6 PROVE Is(b6, b7, 0, 0, 0, 0, 0, 0)
    OBVIOUS
  <2>1. y = Octet(b6, b7, 0, 0, 0, 0, 0, 0)
    BY <1>1, <1>2, Powers DEF ShiftR, Octet, IsBit
  <2> HIDE DEF y
  <2> QED BY <1>2, <2>1, OctetBits
<1>10. s = 7 => Is(b7, 0, 0, 0, 0, 0, 0, 0)
  <2> SUFFICES ASSUME s = 7 PROVE Is(b7, 0, 0, 0, 0, 0, 0, 0)
    OBVIOUS
  <2>1. y = Octet(b7, 0, 0, 0, 0, 0, 0, 0)
    BY <1>1, <1>2, Powers DEF ShiftR, Octet, IsBit
  <2> HIDE DEF y
  <2> QED BY <1>2, <2>1, OctetBits
<1> QED
  <2>1. y \in Byte
    BY <1>3, <1>4, <1>5, <1>6, <1>7, <1>8, <1>9, <1>10, EachBit
  <2>2. ASSUME NEW k \in 0..7 PROVE Bit(y, k) = IF k + s < 8 THEN Bit(x, k + s) ELSE 0
    <3> HIDE DEF y
    <3> QED BY <1>3, <1>4, <1>5, <1>6, <1>7, <1>8, <1>9, <1>10, EachBit DEF b0, b1, b2, b3, b4, b5, b6, b7
  <2> QED BY <2>1, <2>2

(* x & 31 keeps the low five bits. *)
LEMMA LowFive ==
  ASSUME NEW x \in Byte
  PROVE  /\ x % 32 \in 0..31
         /\ \A k \in 0..7 : Bit(x % 32, k) = IF k < 5 THEN Bit(x, k) ELSE 0
<1> DEFINE b0 == Bit(x, 0)
           b1 == Bit(x, 1)
           b2 == Bit(x, 2)
           b3 == Bit(x, 3)
           b4 == Bit(x, 4)
           b5 == Bit(x, 5)
           b6 == Bit(x, 6)
           b7 == Bit(x, 7)
<1>1. x = Octet(b0, b1, b2, b3, b4, b5, b6, b7)
  BY ByteIsOctet
<1>2. /\ IsBit(b0) /\ IsBit(b1) /\ IsBit(b2) /\ IsBit(b3) /\ IsBit(b4)
      /\ IsBit(b5) /\ IsBit(b6) /\ IsBit(b7) /\ IsBit(0)
  BY BitType DEF Byte, IsBit
<1> HIDE DEF b0, b1, b2, b3, b4, b5, b6, b7
<1>3. x % 32 = Octet(b0, b1, b2, b3, b4, 0, 0, 0) /\ x % 32 \in 0..31
  BY <1>1, <1>2 DEF Octet, IsBit
<1> DEFINE y == x % 32
<1> HIDE DEF y
<1>4. /\ Bit(y, 0) = b0 /\ Bit(y, 1) = b1 /\ Bit(y, 2) = b2 /\ Bit(y, 3) = b3
      /\ Bit(y, 4) = b4 /\ Bit(y, 5) = 0 /\ Bit(y, 6) = 0 /\ Bit(y, 7) = 0
  BY <1>2, <1>3, OctetBits DEF y
<1>5. ASSUME NEW k \in 0..7 PROVE Bit(y, k) = IF k < 5 THEN Bit(x, k) ELSE 0
  BY <1>4, EachBit DEF b0, b1, b2, b3, b4
<1> QED BY <1>3, <1>5 DEF y

(* A digit has five bits. *)
LEMMA DigitBits ==
  ASSUME NEW d \in 0..31, NEW k \in 5..7
  PROVE  Bit(d, k) = 0
<1>1. d \in Byte /\ d % 32 = d /\ k \in 0..7 /\ ~(k < 5)
  BY DEF Byte
<1> QED BY <1>1, LowFive

(* The | of two bits. *)
Either(a, b) == IF a = 1 \/ b = 1 THEN 1 ELSE 0

(* x | y has a bit when x or y does. *)
LEMMA OrBits ==
  ASSUME NEW x \in Byte, NEW y \in Byte
  PROVE  /\ Or(x, y) \in Byte
         /\ \A k \in 0..7 : Bit(Or(x, y), k) = Either(Bit(x, k), Bit(y, k))
<1> DEFINE O(k) == Either(Bit(x, k), Bit(y, k))
           z == Or(x, y)
<1>1. \A k : IsBit(O(k))
  BY DEF Either, IsBit
<1>2. z = Octet(O(0), O(1), O(2), O(3), O(4), O(5), O(6), O(7))
  <2> DEFINE P(k) == IF Bit(x, k) = 1 \/ Bit(y, k) = 1 THEN 2^k ELSE 0
  <2>1. z = P(0) + P(1) + P(2) + P(3) + P(4) + P(5) + P(6) + P(7)
    BY DEF Or
  <2>2. /\ P(0) = IF O(0) = 1 THEN 1 ELSE 0
        /\ P(1) = IF O(1) = 1 THEN 2 ELSE 0
        /\ P(2) = IF O(2) = 1 THEN 4 ELSE 0
        /\ P(3) = IF O(3) = 1 THEN 8 ELSE 0
        /\ P(4) = IF O(4) = 1 THEN 16 ELSE 0
        /\ P(5) = IF O(5) = 1 THEN 32 ELSE 0
        /\ P(6) = IF O(6) = 1 THEN 64 ELSE 0
        /\ P(7) = IF O(7) = 1 THEN 128 ELSE 0
    BY Powers DEF Either
  <2> HIDE DEF O, P, z
  <2>3. /\ P(0) = O(0) /\ P(1) = 2 * O(1) /\ P(2) = 4 * O(2) /\ P(3) = 8 * O(3)
        /\ P(4) = 16 * O(4) /\ P(5) = 32 * O(5) /\ P(6) = 64 * O(6) /\ P(7) = 128 * O(7)
    BY <1>1, <2>2 DEF IsBit
  <2> QED BY <2>1, <2>3 DEF Octet
<1> HIDE DEF O, z
<1>3. /\ z \in Byte
      /\ Bit(z, 0) = O(0) /\ Bit(z, 1) = O(1) /\ Bit(z, 2) = O(2) /\ Bit(z, 3) = O(3)
      /\ Bit(z, 4) = O(4) /\ Bit(z, 5) = O(5) /\ Bit(z, 6) = O(6) /\ Bit(z, 7) = O(7)
  BY <1>1, <1>2, OctetBits
<1>4. ASSUME NEW k \in 0..7 PROVE Bit(z, k) = O(k)
  BY <1>3, EachBit
<1> QED BY <1>3, <1>4 DEF O, z

-----------------------------------------------------------------------------
(* Writing base-32 *)

(* Which byte and which bit of it: 5 * q + j, by the byte and bit of 5 * q. *)
LEMMA Place ==
  ASSUME NEW q \in Nat, NEW j \in 0..7
  PROVE  LET byte == (q * 5) \div 8
             bit  == (q * 5) % 8
         IN  /\ byte \in Nat /\ bit \in 0..7 /\ q * 5 = 8 * byte + bit
             /\ bit + j < 8 => (5 * q + j) \div 8 = byte /\ (5 * q + j) % 8 = bit + j
             /\ bit + j >= 8 => (5 * q + j) \div 8 = byte + 1 /\ (5 * q + j) % 8 = bit + j - 8
  OBVIOUS

(* A character of the text has the five bits it stands for. *)
LEMMA DigitLemma ==
  ASSUME NEW bs, bs \in Seq(Byte), NEW q \in Nat, q * 5 < 8 * Len(bs), NEW j \in 0..4
  PROVE  /\ Digit(bs, q) \in 0..31
         /\ Bit(Digit(bs, q), j) =
              IF 5 * q + j < 8 * Len(bs) THEN BitOfBytes(bs, 5 * q + j) ELSE 0
<1> DEFINE byte == (q * 5) \div 8
           bit  == (q * 5) % 8
           n    == 5 * q + j
           m    == Len(bs)
           x    == bs[byte + 1]
           y    == bs[byte + 2]
           c    == ShiftR(x, bit) % 32
           up   == ShiftL(y, 8 - bit)
<1>1. /\ byte \in Nat /\ bit \in 0..7 /\ q * 5 = 8 * byte + bit
      /\ bit + j < 8 => n \div 8 = byte /\ n % 8 = bit + j
      /\ bit + j >= 8 => n \div 8 = byte + 1 /\ n % 8 = bit + j - 8
  <2>1. j \in 0..7
    OBVIOUS
  <2> QED BY <2>1, Place
<1>2. m \in Nat /\ \A i \in 1..m : bs[i] \in Byte
  OBVIOUS
<1>3. n = 8 * byte + bit + j /\ j \in 0..7
  BY <1>1
<1>4. byte + 1 \in 1..m
  <2> HIDE DEF byte, bit, m
  <2>1. 8 * byte + bit < 8 * m
    BY <1>1 DEF m
  <2> QED BY <1>1, <1>2, <2>1
<1>5. x \in Byte
  BY <1>2, <1>4
<1>6. BitOfBytes(bs, n) = Bit(bs[(n \div 8) + 1], n % 8)
  BY DEF BitOfBytes
<1>7. Digit(bs, q) = IF bit > 3 /\ byte + 1 < m THEN Or(c, up) % 32 ELSE c
  BY DEF Digit
<1> HIDE DEF byte, bit, n, m, x, y
<1>8. ShiftR(x, bit) \in Byte /\ Bit(ShiftR(x, bit), j) = IF j + bit < 8 THEN Bit(x, j + bit) ELSE 0
  BY <1>1, <1>3, <1>5, ShiftRBits
<1>9. c \in 0..31 /\ c \in Byte /\ Bit(c, j) = IF j + bit < 8 THEN Bit(x, j + bit) ELSE 0
  <2>1. c \in 0..31 /\ Bit(c, j) = Bit(ShiftR(x, bit), j)
    <3>1. j < 5
      OBVIOUS
    <3> QED BY <1>3, <1>8, <3>1, LowFive
  <2>2. c \in Byte
    BY <2>1 DEF Byte
  <2> QED BY <1>8, <2>1, <2>2
<1>10. CASE bit > 3 /\ byte + 1 < m
  <2>1. byte + 2 \in 1..m /\ 8 - bit \in 0..7
    BY <1>1, <1>2, <1>10
  <2>2. y \in Byte
    BY <1>2, <2>1 DEF y
  <2>3. up \in Byte /\ Bit(up, j) = IF j < 8 - bit THEN 0 ELSE Bit(y, j - (8 - bit))
    BY <1>3, <2>1, <2>2, ShiftLBits
  <2> HIDE DEF up, c
  <2>4. Or(c, up) \in Byte /\ Bit(Or(c, up), j) = Either(Bit(c, j), Bit(up, j))
    BY <1>3, <1>9, <2>3, OrBits
  <2>5. Or(c, up) % 32 \in 0..31 /\ Bit(Or(c, up) % 32, j) = Either(Bit(c, j), Bit(up, j))
    <3>1. j < 5
      OBVIOUS
    <3> DEFINE o == Or(c, up)
    <3> HIDE DEF o
    <3>2. o \in Byte /\ Bit(o, j) = Either(Bit(c, j), Bit(up, j))
      BY <2>4 DEF o
    <3>3. o % 32 \in 0..31 /\ Bit(o % 32, j) = Bit(o, j)
      BY <1>3, <3>1, <3>2, LowFive
    <3> QED BY <3>2, <3>3 DEF o
  <2>6. n < 8 * m
    BY <1>1, <1>2, <1>3, <1>10
  <2>7. CASE bit + j < 8
    <3>1. j < 8 - bit /\ j + bit < 8 /\ j + bit = bit + j /\ bit + j \in 0..7
      BY <1>1, <2>7
    <3>2. Bit(c, j) = Bit(x, bit + j) /\ Bit(up, j) = 0
      BY <1>9, <2>3, <3>1
    <3>3. Bit(x, bit + j) \in 0..1
      <4>1. x \in Nat
        BY <1>5 DEF Byte
      <4> QED BY <3>1, <4>1, BitType DEF IsBit
    <3>4. Either(Bit(c, j), Bit(up, j)) = Bit(x, bit + j)
      BY <3>2, <3>3 DEF Either
    <3>5. BitOfBytes(bs, n) = Bit(x, bit + j)
      BY <1>1, <1>6, <2>7 DEF x
    <3> QED BY <1>7, <1>10, <2>5, <2>6, <3>4, <3>5 DEF n, m, c, up
  <2>8. CASE bit + j >= 8
    <3>1. ~(j < 8 - bit) /\ ~(j + bit < 8) /\ j - (8 - bit) = bit + j - 8 /\ bit + j - 8 \in 0..7
      BY <1>1, <2>8
    <3>2. Bit(c, j) = 0 /\ Bit(up, j) = Bit(y, bit + j - 8)
      BY <1>9, <2>3, <3>1
    <3>3. Bit(y, bit + j - 8) \in 0..1
      <4>1. y \in Nat
        BY <2>2 DEF Byte
      <4> QED BY <3>1, <4>1, BitType DEF IsBit
    <3>4. Either(Bit(c, j), Bit(up, j)) = Bit(y, bit + j - 8)
      BY <3>2, <3>3 DEF Either
    <3>5. BitOfBytes(bs, n) = Bit(y, bit + j - 8)
      <4>1. (n \div 8) + 1 = byte + 2
        BY <1>1, <2>8
      <4> QED BY <1>1, <1>6, <2>8, <4>1 DEF y
    <3> QED BY <1>7, <1>10, <2>5, <2>6, <3>4, <3>5 DEF n, m, c, up
  <2>9. bit + j < 8 \/ bit + j >= 8
    BY <1>1
  <2> QED BY <2>7, <2>8, <2>9
<1>11. CASE ~(bit > 3 /\ byte + 1 < m)
  <2>1. Digit(bs, q) = c
    BY <1>7, <1>11
  <2>2. CASE bit + j < 8
    <3>1. n < 8 * m
      BY <1>1, <1>2, <1>3, <1>4, <2>2
    <3>2. BitOfBytes(bs, n) = Bit(x, j + bit)
      <4>1. bit + j = j + bit
        BY <1>1
      <4> QED BY <1>1, <1>6, <2>2, <4>1 DEF x
    <3>3. j + bit < 8
      BY <1>1, <2>2
    <3> HIDE DEF c
    <3> QED BY <1>9, <2>1, <3>1, <3>2, <3>3 DEF n, m
  <2>3. CASE bit + j >= 8
    <3>1. bit > 3 /\ byte + 1 = m
      BY <1>1, <1>2, <1>4, <1>11, <2>3
    <3>2. ~(n < 8 * m) /\ ~(j + bit < 8)
      BY <1>1, <1>3, <2>3, <3>1
    <3> HIDE DEF c
    <3> QED BY <1>9, <2>1, <3>2 DEF n, m
  <2>4. bit + j < 8 \/ bit + j >= 8
    BY <1>1
  <2> QED BY <2>2, <2>3, <2>4
<1> QED BY <1>10, <1>11

(* Bit n of the text, for n = 5 * q + j, is bit j of its q-th character from the end. *)
LEMMA TextPlace ==
  ASSUME NEW n \in Nat
  PROVE  LET q == n \div 5
             j == n % 5
         IN  q \in Nat /\ j \in 0..4 /\ n = 5 * q + j
  OBVIOUS

(* What to_nix_base32 writes. *)
LEMMA EncodedLemma ==
  ASSUME NEW bs, bs \in Seq(Byte), NEW m, m = Len(bs), NEW len, len = (m * 8 + 4) \div 5
  PROVE  /\ ToNixBase32(bs) \in [1..len -> 0..31] /\ len \in Nat
         /\ \A n \in 0..5 * len - 1 :
              BitOfText(ToNixBase32(bs), n) = IF n < 8 * m THEN BitOfBytes(bs, n) ELSE 0
<1> DEFINE text == ToNixBase32(bs)
<1>1. m \in Nat
  OBVIOUS
<1>2. len \in Nat /\ 5 * len <= 8 * m + 4
  BY <1>1
<1>3. text = [k \in 1..len |-> Digit(bs, len - k)]
  BY DEF ToNixBase32
<1> HIDE DEF text
<1>4. ASSUME NEW q \in Nat, q < len PROVE q * 5 < 8 * m
  BY <1>1, <1>2, <1>4
<1>5. ASSUME NEW k \in 1..len PROVE Digit(bs, len - k) \in 0..31
  <2> DEFINE q == len - k
  <2>1. q \in Nat /\ q < len
    BY <1>2
  <2> HIDE DEF q
  <2>2. q * 5 < 8 * Len(bs) /\ 0 \in 0..4
    BY <1>4, <2>1
  <2>3. Digit(bs, q) \in 0..31
    BY <2>1, <2>2, DigitLemma
  <2> QED BY <2>3 DEF q
<1>6. text \in [1..len -> 0..31]
  BY <1>3, <1>5
<1>7. Len(text) = len
  BY <1>2, <1>6
<1>8. ASSUME NEW n \in 0..5 * len - 1
      PROVE  BitOfText(text, n) = IF n < 8 * m THEN BitOfBytes(bs, n) ELSE 0
  <2> DEFINE q == n \div 5
             j == n % 5
  <2>1. q \in Nat /\ j \in 0..4 /\ n = 5 * q + j /\ n \in Nat
    BY TextPlace
  <2>2. BitOfText(text, n) = Bit(text[len - q], j)
    BY <1>7 DEF BitOfText
  <2> HIDE DEF q, j
  <2>3. q < len
    BY <1>2, <2>1
  <2>4. len - q \in 1..len /\ len - (len - q) = q
    BY <1>2, <2>1, <2>3
  <2>5. text[len - q] = Digit(bs, q)
    BY <1>3, <2>4
  <2>6. q * 5 < 8 * Len(bs)
    BY <1>4, <2>1, <2>3
  <2>7. Bit(Digit(bs, q), j) = IF 5 * q + j < 8 * Len(bs) THEN BitOfBytes(bs, 5 * q + j) ELSE 0
    BY <2>1, <2>6, DigitLemma
  <2> QED BY <2>1, <2>2, <2>5, <2>7
<1> QED BY <1>2, <1>6, <1>8 DEF text

(* Bit t of a character, and zero outside it. *)
DigitAt(d, t) == IF t \in 0..4 THEN Bit(d, t) ELSE 0

(* Zero adds nothing to a bit. *)
LEMMA EitherNone ==
  ASSUME NEW b \in 0..1
  PROVE  Either(b, 0) = b /\ Either(0, b) = b
  BY DEF Either

(* A byte is a natural number. *)
LEMMA ByteIsNat == ASSUME NEW x \in Byte PROVE x \in Nat
  BY DEF Byte

(* Bit n of the bytes, by its byte and its place in it. *)
LEMMA BytePlace ==
  ASSUME NEW n \in Nat
  PROVE  n \div 8 \in Nat /\ n % 8 \in 0..7 /\ n = 8 * (n \div 8) + (n % 8)
  OBVIOUS

(* A bit of the bytes is 0 or 1. *)
LEMMA BitOfBytesType ==
  ASSUME NEW m \in Nat, NEW out, out \in [1..m -> Byte], NEW n \in 0..8 * m - 1
  PROVE  BitOfBytes(out, n) \in 0..1
<1> DEFINE byte == n \div 8
           bit  == n % 8
<1>1. n \in Nat
  OBVIOUS
<1>2. byte \in Nat /\ bit \in 0..7 /\ n = 8 * byte + bit
  BY <1>1, BytePlace
<1>3. BitOfBytes(out, n) = Bit(out[byte + 1], bit)
  BY DEF BitOfBytes
<1> HIDE DEF byte, bit
<1>4. byte + 1 \in 1..m
  BY <1>2
<1>5. out[byte + 1] \in Nat
  <2>1. out[byte + 1] \in Byte
    BY <1>4
  <2> QED BY <2>1, ByteIsNat
<1> QED BY <1>2, <1>3, <1>5, BitType DEF IsBit

(* The bytes new are those of out with character d laid over them at bit 5 * i. *)
Overlaid(new, out, m, i, d) ==
  \A n \in 0..8 * m - 1 : BitOfBytes(new, n) = Either(BitOfBytes(out, n), DigitAt(d, n - 5 * i))

(* What a turn of from_nix_base32 adds to the bytes. *)
LEMMA PutDigitLemma ==
  ASSUME NEW m, m \in Nat, NEW out, out \in [1..m -> Byte], NEW i \in Nat, (i * 5) \div 8 < m,
         NEW d \in 0..31
  PROVE  /\ PutDigit(out, i, d) \in [1..m -> Byte]
         /\ Overlaid(PutDigit(out, i, d), out, m, i, d)
<1> DEFINE byte == (i * 5) \div 8
           bit  == (i * 5) % 8
           x    == Or(out[byte + 1], ShiftL(d, bit))
           y    == Or(out[byte + 2], ShiftR(d, 8 - bit))
           put  == PutDigit(out, i, d)
           two  == bit > 3 /\ byte + 1 < m
<1>1. byte \in Nat /\ bit \in 0..7 /\ i * 5 = 8 * byte + bit
  BY Place, 0 \in 0..7
<1>2. byte < m
  OBVIOUS
<1>3. Len(out) = m
  OBVIOUS
<1>4. put = [k \in 1..m |-> IF k = byte + 1 THEN x
                            ELSE IF two /\ k = byte + 2 THEN y ELSE out[k]]
  <2> DEFINE a == byte + 1
             b == byte + 2
             low == [out EXCEPT ![a] = x]
  <2>1. put = IF two THEN [low EXCEPT ![b] = Or(low[b], ShiftR(d, 8 - bit))] ELSE low
    BY <1>3 DEF PutDigit
  <2>2. a # b
    BY <1>1
  <2>3. two => b \in 1..m
    BY <1>1
  <2> HIDE DEF a, b, two, x, put, byte, bit
  <2>4. two => low[b] = out[b]
    BY <2>2, <2>3
  <2>5. two => put = [low EXCEPT ![b] = Or(out[b], ShiftR(d, 8 - bit))]
    BY <2>1, <2>4
  <2>6. two => put = [low EXCEPT ![b] = y]
    BY <2>5 DEF y, b
  <2> HIDE DEF y
  <2> QED BY <2>1, <2>2, <2>6 DEF a, b
<1>5. d \in Byte
  BY DEF Byte
<1> HIDE DEF byte, bit, put, two
<1>6. out[byte + 1] \in Byte
  BY <1>1, <1>2
<1>7. /\ x \in Byte
      /\ \A k \in 0..7 : Bit(x, k) = Either(Bit(out[byte + 1], k),
                                            IF k < bit THEN 0 ELSE Bit(d, k - bit))
  <2>1. /\ ShiftL(d, bit) \in Byte
        /\ \A k \in 0..7 : Bit(ShiftL(d, bit), k) = IF k < bit THEN 0 ELSE Bit(d, k - bit)
    BY <1>1, <1>5, ShiftLBits
  <2> DEFINE o == out[byte + 1]
             s == ShiftL(d, bit)
  <2> HIDE DEF o, s
  <2>2. Or(o, s) \in Byte /\ \A k \in 0..7 : Bit(Or(o, s), k) = Either(Bit(o, k), Bit(s, k))
    BY <1>6, <2>1, OrBits DEF o, s
  <2> QED BY <2>1, <2>2 DEF o, s
<1>8. two => /\ y \in Byte
             /\ \A k \in 0..7 : Bit(y, k) = Either(Bit(out[byte + 2], k),
                                              IF k + (8 - bit) < 8 THEN Bit(d, k + (8 - bit)) ELSE 0)
  <2> SUFFICES ASSUME two
               PROVE  /\ y \in Byte
                      /\ \A k \in 0..7 : Bit(y, k) = Either(Bit(out[byte + 2], k),
                                              IF k + (8 - bit) < 8 THEN Bit(d, k + (8 - bit)) ELSE 0)
    OBVIOUS
  <2> DEFINE r == 8 - bit
  <2>1. r \in 0..7 /\ byte + 2 \in 1..m
    BY <1>1 DEF two
  <2>2. out[byte + 2] \in Byte
    BY <2>1
  <2> HIDE DEF r
  <2>3. /\ ShiftR(d, r) \in Byte
        /\ \A k \in 0..7 : Bit(ShiftR(d, r), k) = IF k + r < 8 THEN Bit(d, k + r) ELSE 0
    BY <1>5, <2>1, ShiftRBits
  <2> DEFINE o == out[byte + 2]
             s == ShiftR(d, r)
  <2> HIDE DEF o, s
  <2>4. Or(o, s) \in Byte /\ \A k \in 0..7 : Bit(Or(o, s), k) = Either(Bit(o, k), Bit(s, k))
    BY <2>2, <2>3, OrBits DEF o, s
  <2> QED BY <2>3, <2>4 DEF o, s, r
<1> HIDE DEF x, y
<1>9. put \in [1..m -> Byte]
  BY <1>4, <1>7, <1>8
<1>10. ASSUME NEW n \in 0..8 * m - 1
       PROVE  BitOfBytes(put, n) = Either(BitOfBytes(out, n), DigitAt(d, n - 5 * i))
  <2> DEFINE b == n \div 8
             k == n % 8
             t == n - 5 * i
  <2>1. n \in Nat
    OBVIOUS
  <2>2. b \in Nat /\ k \in 0..7 /\ n = 8 * b + k
    BY <2>1, BytePlace
  <2>3. BitOfBytes(put, n) = Bit(put[b + 1], k) /\ BitOfBytes(out, n) = Bit(out[b + 1], k)
    BY DEF BitOfBytes
  <2>4. t = 8 * b + k - 8 * byte - bit
    BY <1>1, <2>2
  <2> HIDE DEF b, k, t
  <2>5. b + 1 \in 1..m
    BY <2>2
  <2>6. put[b + 1] = IF b = byte THEN x ELSE IF two /\ b = byte + 1 THEN y ELSE out[b + 1]
    <3>1. (b + 1 = byte + 1 <=> b = byte) /\ (b + 1 = byte + 2 <=> b = byte + 1)
      BY <1>1, <2>2
    <3> QED BY <1>4, <2>5, <3>1
  <2>7. Bit(out[b + 1], k) \in 0..1
    <3>1. out[b + 1] \in Nat
      <4>1. out[b + 1] \in Byte
        BY <2>5
      <4> QED BY <4>1, ByteIsNat
    <3> QED BY <2>2, <3>1, BitType DEF IsBit
  <2>8. t \in 5..7 => Bit(d, t) = 0
    BY DigitBits
  <2>9. CASE b = byte
    <3>1. t = k - bit /\ t \in Int /\ t < 8
      BY <1>1, <2>2, <2>4, <2>9
    <3>2. DigitAt(d, t) = IF k < bit THEN 0 ELSE Bit(d, k - bit)
      BY <1>1, <2>2, <2>8, <3>1 DEF DigitAt
    <3>3. Bit(put[b + 1], k) = Either(Bit(out[b + 1], k), DigitAt(d, t))
      BY <1>7, <2>2, <2>6, <2>9, <3>2
    <3> QED BY <2>3, <3>3 DEF t
  <2>10. CASE two /\ b = byte + 1
    <3>1. t = k + (8 - bit) /\ t \in Nat /\ b + 1 = byte + 2 /\ b # byte
      BY <1>1, <2>2, <2>4, <2>10
    <3>2. DigitAt(d, t) = IF k + (8 - bit) < 8 THEN Bit(d, k + (8 - bit)) ELSE 0
      BY <2>8, <3>1 DEF DigitAt
    <3>3. Bit(put[b + 1], k) = Either(Bit(out[b + 1], k), DigitAt(d, t))
      BY <1>8, <2>2, <2>6, <2>10, <3>1, <3>2
    <3> QED BY <2>3, <3>3 DEF t
  <2>11. CASE b # byte /\ ~(two /\ b = byte + 1)
    <3>1. t \notin 0..4
      BY <1>1, <2>2, <2>4, <2>5, <2>11 DEF two
    <3>2. DigitAt(d, t) = 0
      BY <3>1 DEF DigitAt
    <3>3. put[b + 1] = out[b + 1]
      BY <2>6, <2>11
    <3>4. Bit(put[b + 1], k) = Either(Bit(out[b + 1], k), DigitAt(d, t))
      BY <2>7, <3>2, <3>3, EitherNone
    <3> QED BY <2>3, <3>4 DEF t
  <2> QED BY <2>9, <2>10, <2>11
<1> QED BY <1>9, <1>10 DEF put, Overlaid

-----------------------------------------------------------------------------
(* Reading it *)

(* One turn of from_nix_base32's loop, over the i-th character from the end. *)
DecodeTurn(text, len, outLen, r, i) ==
  IF r.tag # "ok" THEN r
  ELSE IF ~IsDigit(text[len - i]) THEN Err
  ELSE IF (i * 5) \div 8 >= outLen THEN Panic
  ELSE Ok(PutDigit(r.value, i, text[len - i]))

(* What the loop may hold: an error, or bytes. *)
Results(outLen) == {Err, Panic} \cup {Ok(v) : v \in [1..outLen -> Byte]}

(* The tags of the three kinds of result. *)
LEMMA Tagged ==
  /\ Err.tag = "err" /\ Panic.tag = "panic" /\ \A v : Ok(v).tag = "ok" /\ Ok(v).value = v
  BY DEF Err, Panic, Ok

(* A result with the tag of a success is one, with bytes. *)
LEMMA OkIs ==
  ASSUME NEW outLen, NEW r, r \in Results(outLen), r.tag = "ok"
  PROVE  r.value \in [1..outLen -> Byte] /\ r = Ok(r.value)
<1>1. r # Err /\ r # Panic
  BY Tagged
<1>2. PICK v \in [1..outLen -> Byte] : r = Ok(v)
  BY <1>1 DEF Results
<1> QED BY <1>2, Tagged

(* A character of the alphabet is below 32. *)
LEMMA DigitIs == ASSUME NEW d \in Nat, IsDigit(d) PROVE d \in 0..31
  BY DEF IsDigit

(* Zero has no bits. *)
LEMMA NoBits == ASSUME NEW k \in 0..7 PROVE Bit(0, k) = 0
<1>1. 0 \in Nat /\ 0 % 2 = 0
  OBVIOUS
<1>2. \A d \in {2, 4, 8, 16, 32, 64, 128} : 0 \div d = 0
  OBVIOUS
<1> QED BY <1>1, <1>2, EachBit, BitsAt

(* A turn of the loop leaves bytes of the same number, or an error. *)
LEMMA DecodeTurnType ==
  ASSUME NEW len \in Nat, NEW text, text \in [1..len -> Nat], NEW outLen, outLen \in Nat,
         NEW r, r \in Results(outLen), NEW i \in 0..len - 1
  PROVE  DecodeTurn(text, len, outLen, r, i) \in Results(outLen)
<1> DEFINE d == text[len - i]
<1>1. d \in Nat /\ i \in Nat
  OBVIOUS
<1>2. DecodeTurn(text, len, outLen, r, i) =
        IF r.tag # "ok" THEN r ELSE IF ~IsDigit(d) THEN Err
        ELSE IF (i * 5) \div 8 >= outLen THEN Panic ELSE Ok(PutDigit(r.value, i, d))
  BY DEF DecodeTurn
<1>3. Err \in Results(outLen) /\ Panic \in Results(outLen)
  BY DEF Results
<1>4. CASE r.tag = "ok" /\ IsDigit(d) /\ ~((i * 5) \div 8 >= outLen)
  <2> DEFINE v == r.value
  <2>1. v \in [1..outLen -> Byte]
    BY <1>4, OkIs
  <2>2. d \in 0..31
    BY <1>1, <1>4, DigitIs
  <2>3. (i * 5) \div 8 < outLen
    BY <1>4, <1>1
  <2> HIDE DEF v, d
  <2>4. PutDigit(v, i, d) \in [1..outLen -> Byte]
    BY ONLY <1>1, <2>1, <2>2, <2>3, outLen \in Nat, PutDigitLemma
  <2>5. Ok(PutDigit(v, i, d)) \in Results(outLen)
    BY <2>4 DEF Results
  <2> QED BY <1>2, <1>4, <2>5 DEF v
<1> HIDE DEF d
<1> QED BY <1>2, <1>3, <1>4

(* The values the loop's turns leave, from the first to the last. *)
IsRun(text, len, outLen, g) ==
  /\ g[0] = Ok([k \in 1..outLen |-> 0])
  /\ \A n \in 1..len : g[n] = DecodeTurn(text, len, outLen, g[n - 1], n - 1)

(* The loop of from_nix_base32 has a run, and its result is the last one. *)
LEMMA DecodeLoop ==
  ASSUME NEW len, len \in Nat, NEW text, text \in [1..len -> Nat],
         NEW outLen, outLen = (len * 5) \div 8
  PROVE  \E g : IsRun(text, len, outLen, g) /\ FromNixBase32(text) = g[len]
<1> DEFINE V == Results(outLen)
           Start0 == Ok([k \in 1..outLen |-> 0])
           G(n) == [r \in V |-> DecodeTurn(text, len, outLen, r, n - 1)]
           F == [n \in 1..len |-> G(n)]
           Body(m) == [n \in 0..len |-> IF n = 0 THEN Start0
                                        ELSE DecodeTurn(text, len, outLen, m[n - 1], n - 1)]
           m0 == CHOOSE m : m = Body(m)
<1>1. outLen \in Nat
  OBVIOUS
<1>2. Start0 \in V
  <2>1. 0 \in Byte
    BY DEF Byte
  <2>2. [k \in 1..outLen |-> 0] \in [1..outLen -> Byte]
    BY <2>1
  <2> QED BY <2>2 DEF Results
<1> HIDE DEF Start0
<1>3. ASSUME NEW n \in 1..len PROVE G(n) \in [V -> V]
  <2> HIDE DEF V
  <2>1. n - 1 \in 0..len - 1
    OBVIOUS
  <2>2. \A r \in V : DecodeTurn(text, len, outLen, r, n - 1) \in V
    BY <1>1, <2>1, DecodeTurnType DEF V
  <2> QED BY <2>2
<1> HIDE DEF V
<1>4. F \in [1..len -> [V -> V]]
  <2> HIDE DEF G
  <2> QED BY <1>3
<1> HIDE DEF F
<1>5. PICK g \in [0..len -> V] : g[0] = Start0 /\ \A i \in 1..len : g[i] = F[i][g[i - 1]]
  <2>1. len \in Nat
    OBVIOUS
  <2> QED BY ONLY <1>2, <1>4, <2>1, Iterate
<1>6. g = Body(g)
  <2>1. ASSUME NEW i \in 0..len
        PROVE  g[i] = IF i = 0 THEN Start0 ELSE DecodeTurn(text, len, outLen, g[i - 1], i - 1)
    <3>1. CASE i = 0
      BY <1>5, <3>1
    <3>2. CASE i # 0
      <4>1. i \in 1..len /\ i - 1 \in 0..len
        BY <3>2
      <4>2. g[i - 1] \in V /\ g[i] = F[i][g[i - 1]]
        BY <1>5, <4>1
      <4>3. F[i] = G(i)
        BY <4>1 DEF F
      <4>4. G(i)[g[i - 1]] = DecodeTurn(text, len, outLen, g[i - 1], i - 1)
        BY <4>2
      <4> HIDE DEF G
      <4> QED BY <3>2, <4>2, <4>3, <4>4
    <3> QED BY <3>1, <3>2
  <2> QED BY <2>1
<1>7. m0 = Body(m0)
  <2> HIDE DEF Body
  <2> QED BY <1>6
<1>8. FromNixBase32(text) = m0[len]
  <2>1. Len(text) = len
    OBVIOUS
  <2> QED BY <2>1 DEF FromNixBase32, DecodeTurn, Start0
<1> HIDE DEF m0
<1>9. \A i \in 0..len : m0[i] = IF i = 0 THEN Start0
                                ELSE DecodeTurn(text, len, outLen, m0[i - 1], i - 1)
  BY <1>7
<1>10. 0 \in 0..len /\ \A i \in 1..len : i \in 0..len /\ i # 0
  OBVIOUS
<1>11. m0[0] = Start0 /\ \A i \in 1..len : m0[i] = DecodeTurn(text, len, outLen, m0[i - 1], i - 1)
  BY <1>9, <1>10
<1> QED BY <1>8, <1>11 DEF Start0, IsRun

(* Where out has no byte for a character: at the first one, at three lengths of eight. *)
LEMMA OutOfBounds ==
  ASSUME NEW len \in Nat, NEW i \in 0..len - 1
  PROVE  (i * 5) \div 8 >= (len * 5) \div 8 <=> i = len - 1 /\ len % 8 \in {1, 3, 6}
<1> DEFINE a == len \div 8
           c == len % 8
           b == i \div 8
           e == i % 8
<1>1. a \in Nat /\ c \in 0..7 /\ len = 8 * a + c
  OBVIOUS
<1>2. b \in Nat /\ e \in 0..7 /\ i = 8 * b + e
  OBVIOUS
<1> HIDE DEF a, b, e, c
<1>3. (len * 5) \div 8 = 5 * a + ((c * 5) \div 8)
  BY <1>1
<1>4. (i * 5) \div 8 = 5 * b + ((e * 5) \div 8)
  BY <1>2
<1>5. b < a \/ (b = a /\ e < c)
  BY <1>1, <1>2
<1>6. len % 8 = c
  BY <1>1
<1> QED BY <1>1, <1>2, <1>3, <1>4, <1>5, <1>6

(* A character outside the alphabet among the last n. *)
Wrong(text, len, n) == \E i \in 1..n : ~IsDigit(text[len + 1 - i])

(* What the loop holds after n turns. *)
DecodedSoFar(text, len, outLen, r, n) ==
  IF Wrong(text, len, n) THEN r = Err
  ELSE IF n = len /\ len % 8 \in {1, 3, 6} THEN r = Panic
  ELSE /\ r.tag = "ok" /\ r.value \in [1..outLen -> Byte]
       /\ \A k \in 0..8 * outLen - 1 :
            BitOfBytes(r.value, k) = IF k < 5 * n THEN BitOfText(text, k) ELSE 0

(* A turn of the loop keeps what it holds right: the next five bits, the *)
(* refusal of a character, or the index out of bounds.                   *)
LEMMA DecodeStep ==
  ASSUME NEW len, len \in Nat, NEW text, text \in [1..len -> Nat],
         NEW outLen, outLen = (len * 5) \div 8, NEW i \in 0..len - 1,
         NEW r, DecodedSoFar(text, len, outLen, r, i)
  PROVE  DecodedSoFar(text, len, outLen, DecodeTurn(text, len, outLen, r, i), i + 1)
<1> DEFINE n == i + 1
           d == text[len - i]
           s == DecodeTurn(text, len, outLen, r, i)
<1>1. i \in Nat /\ i \in 0..len - 1 /\ n = i + 1 /\ i # len /\ outLen \in Nat
  OBVIOUS
<1>2. d \in Nat /\ len + 1 - n = len - i
  BY <1>1
<1> HIDE DEF n
<1>3. Wrong(text, len, n) <=> Wrong(text, len, i) \/ ~IsDigit(d)
  <2>1. 1..n = 1..i \cup {n}
    <3>1. i \in Nat /\ n = i + 1
      BY <1>1
    <3> QED BY ONLY <3>1
  <2> QED BY <1>2, <2>1 DEF Wrong
<1>4. s = IF r.tag # "ok" THEN r ELSE IF ~IsDigit(d) THEN Err
          ELSE IF (i * 5) \div 8 >= outLen THEN Panic ELSE Ok(PutDigit(r.value, i, d))
  BY DEF DecodeTurn
<1>5. CASE Wrong(text, len, i)
  <2>1. r = Err
    BY <1>5 DEF DecodedSoFar
  <2>2. s = Err
    BY <1>4, <2>1, Tagged
  <2> QED BY <1>3, <1>5, <2>2 DEF DecodedSoFar, n
<1>6. CASE ~Wrong(text, len, i)
  <2> DEFINE v == r.value
  <2>1. /\ r.tag = "ok" /\ v \in [1..outLen -> Byte]
        /\ \A k \in 0..8 * outLen - 1 :
             BitOfBytes(v, k) = IF k < 5 * i THEN BitOfText(text, k) ELSE 0
    BY <1>1, <1>6 DEF DecodedSoFar
  <2>2. CASE ~IsDigit(d)
    <3>1. s = Err
      BY <1>4, <2>1, <2>2
    <3> QED BY <1>3, <2>2, <3>1 DEF DecodedSoFar, n
  <2>3. CASE IsDigit(d) /\ (i * 5) \div 8 >= outLen
    <3>1. n = len /\ len % 8 \in {1, 3, 6}
      BY <1>1, <2>3, OutOfBounds
    <3>2. s = Panic
      BY <1>4, <2>1, <2>3
    <3>3. ~Wrong(text, len, n)
      BY <1>3, <1>6, <2>3
    <3> QED BY <3>1, <3>2, <3>3 DEF DecodedSoFar, n
  <2>4. CASE IsDigit(d) /\ ~((i * 5) \div 8 >= outLen)
    <3>1. ~(n = len /\ len % 8 \in {1, 3, 6}) /\ (i * 5) \div 8 < outLen
      BY <1>1, <2>4, OutOfBounds
    <3> DEFINE w == PutDigit(v, i, d)
    <3>2. s = Ok(w)
      BY <1>4, <2>1, <2>4
    <3>3. s.tag = "ok" /\ s.value = w
      BY <3>2, Tagged
    <3>4. d \in 0..31
      BY <1>2, <2>4, DigitIs
    <3>5. ~Wrong(text, len, n)
      BY <1>3, <1>6, <2>4
    <3>6. i \in Nat /\ outLen \in Nat
      BY <1>1
    <3>7. Len(text) = len
      OBVIOUS
    <3> HIDE DEF d, v
    <3>8. w \in [1..outLen -> Byte] /\ Overlaid(w, v, outLen, i, d)
      <4>1. v \in [1..outLen -> Byte] /\ (i * 5) \div 8 < outLen
        BY <2>1, <3>1
      <4> QED BY ONLY <3>4, <3>6, <4>1, PutDigitLemma
    <3>9. ASSUME NEW k \in 0..8 * outLen - 1
          PROVE  BitOfBytes(w, k) = IF k < 5 * n THEN BitOfText(text, k) ELSE 0
      <4> DEFINE t == k - 5 * i
      <4>1. BitOfBytes(w, k) = Either(BitOfBytes(v, k), DigitAt(d, t))
        BY <3>8 DEF Overlaid
      <4>2. BitOfBytes(v, k) = IF k < 5 * i THEN BitOfText(text, k) ELSE 0
        BY <2>1
      <4>3. BitOfBytes(v, k) \in 0..1
        BY ONLY <2>1, <3>6, k \in 0..8 * outLen - 1, BitOfBytesType
      <4>4. t \in Int /\ k = 5 * i + t /\ k \in Nat
        BY <1>1
      <4> HIDE DEF t, w
      <4>5. CASE t \in 0..4
        <5>1. ~(k < 5 * i) /\ k < 5 * n
          BY <1>1, <4>4, <4>5
        <5>2. k \div 5 = i /\ k % 5 = t
          BY ONLY <3>6, <4>4, <4>5
        <5>3. BitOfText(text, k) = Bit(d, t)
          BY <3>7, <5>2 DEF BitOfText, d
        <5>4. Bit(d, t) \in 0..1
          <6>1. t \in 0..7 /\ d \in Nat
            BY <3>4, <4>5
          <6> QED BY <6>1, BitType DEF IsBit
        <5>5. DigitAt(d, t) = Bit(d, t)
          BY <4>5 DEF DigitAt
        <5> QED BY <4>1, <4>2, <5>1, <5>3, <5>4, <5>5, EitherNone
      <4>6. CASE t \notin 0..4
        <5>1. k < 5 * n <=> k < 5 * i
          BY <1>1, <4>4, <4>6
        <5>2. DigitAt(d, t) = 0
          BY <4>6 DEF DigitAt
        <5>3. BitOfBytes(w, k) = BitOfBytes(v, k)
          BY <4>1, <4>3, <5>2, EitherNone
        <5> QED BY <4>2, <5>1, <5>3
      <4> QED BY <4>5, <4>6
    <3> HIDE DEF s, w
    <3> QED BY <3>1, <3>3, <3>5, <3>8, <3>9 DEF DecodedSoFar, s, n
  <2> QED BY <2>2, <2>3, <2>4
<1> QED BY <1>5, <1>6

(* What the loop returns is one of its results. *)
LEMMA DecodedType ==
  ASSUME NEW len, len \in Nat, NEW text, text \in [1..len -> Nat],
         NEW outLen, outLen = (len * 5) \div 8
  PROVE  FromNixBase32(text) \in Results(outLen)
<1>1. PICK g : IsRun(text, len, outLen, g) /\ FromNixBase32(text) = g[len]
  BY ONLY len \in Nat, text \in [1..len -> Nat], outLen = (len * 5) \div 8, DecodeLoop
<1>2. outLen \in Nat
  OBVIOUS
<1> DEFINE Good == {n \in 0..len : g[n] \in Results(outLen)}
<1>3. 0 \in Good
  <2>1. 0 \in Byte
    BY DEF Byte
  <2> DEFINE z == [k \in 1..outLen |-> 0]
  <2>2. z \in [1..outLen -> Byte]
    BY <2>1
  <2>3. g[0] = Ok(z)
    BY <1>1 DEF IsRun
  <2> HIDE DEF z
  <2>4. Ok(z) \in Results(outLen)
    BY <2>2 DEF Results
  <2>5. 0 \in 0..len
    OBVIOUS
  <2> QED BY <2>3, <2>4, <2>5
<1>4. ASSUME NEW n \in 1..len, n - 1 \in Good PROVE n \in Good
  <2>1. n - 1 \in 0..len - 1 /\ g[n - 1] \in Results(outLen)
    BY <1>4
  <2>2. g[n] = DecodeTurn(text, len, outLen, g[n - 1], n - 1)
    BY <1>1 DEF IsRun
  <2>3. DecodeTurn(text, len, outLen, g[n - 1], n - 1) \in Results(outLen)
    BY <1>2, <2>1, DecodeTurnType
  <2>4. n \in 0..len
    OBVIOUS
  <2> QED BY <2>2, <2>3, <2>4
<1>5. \A n \in 0..len : n \in Good
  <2> HIDE DEF Good
  <2> QED BY ONLY <1>3, <1>4, len \in Nat, ByInduction
<1>6. len \in 0..len
  OBVIOUS
<1> QED BY <1>1, <1>5, <1>6

(* And so after the last turn it is right for the whole text. *)
LEMMA DecodedLemma ==
  ASSUME NEW len, len \in Nat, NEW text, text \in [1..len -> Nat],
         NEW outLen, outLen = (len * 5) \div 8
  PROVE  DecodedSoFar(text, len, outLen, FromNixBase32(text), len)
<1>1. PICK g : IsRun(text, len, outLen, g) /\ FromNixBase32(text) = g[len]
  BY ONLY len \in Nat, text \in [1..len -> Nat], outLen = (len * 5) \div 8, DecodeLoop
<1> DEFINE Good == {n \in 0..len : DecodedSoFar(text, len, outLen, g[n], n)}
<1>2. 0 \in Good
  <2> DEFINE z == [k \in 1..outLen |-> 0]
  <2>1. g[0].tag = "ok" /\ g[0].value = z
    BY <1>1, Tagged DEF IsRun
  <2>2. 0 \in Byte /\ outLen \in Nat
    BY DEF Byte
  <2>3. z \in [1..outLen -> Byte]
    BY <2>2
  <2>4. ASSUME NEW k \in 0..8 * outLen - 1 PROVE BitOfBytes(z, k) = 0
    <3> DEFINE b == k \div 8
               c == k % 8
    <3>1. k \in Nat
      OBVIOUS
    <3>2. b \in Nat /\ c \in 0..7 /\ k = 8 * b + c
      BY <3>1, BytePlace
    <3>3. BitOfBytes(z, k) = Bit(z[b + 1], c)
      BY DEF BitOfBytes
    <3> HIDE DEF b, c
    <3>4. b + 1 \in 1..outLen
      BY <2>2, <3>2
    <3>5. z[b + 1] = 0
      BY <3>4
    <3>6. Bit(0, c) = 0
      BY <3>2, NoBits
    <3> QED BY <3>3, <3>5, <3>6
  <2>5. ~Wrong(text, len, 0)
    BY DEF Wrong
  <2>6. ~(0 = len /\ len % 8 \in {1, 3, 6})
    OBVIOUS
  <2>7. \A k \in 0..8 * outLen - 1 : ~(k < 5 * 0)
    BY <2>2
  <2> HIDE DEF z
  <2> QED BY <2>1, <2>3, <2>4, <2>5, <2>6, <2>7 DEF DecodedSoFar
<1>3. ASSUME NEW n \in 1..len, n - 1 \in Good PROVE n \in Good
  <2>1. DecodedSoFar(text, len, outLen, g[n - 1], n - 1)
    BY <1>3
  <2>2. g[n] = DecodeTurn(text, len, outLen, g[n - 1], n - 1)
    BY <1>1 DEF IsRun
  <2>3. DecodedSoFar(text, len, outLen, g[n], n)
    <3>1. n - 1 \in 0..len - 1 /\ (n - 1) + 1 = n
      OBVIOUS
    <3> DEFINE i == n - 1
    <3> HIDE DEF i
    <3>2. DecodedSoFar(text, len, outLen, DecodeTurn(text, len, outLen, g[i], i), i + 1)
      BY <2>1, <3>1, DecodeStep DEF i
    <3> QED BY <2>2, <3>1, <3>2 DEF i
  <2> QED BY <2>3
<1>4. \A n \in 0..len : n \in Good
  <2> HIDE DEF Good
  <2> QED BY ONLY <1>2, <1>3, len \in Nat, ByInduction
<1>5. len \in 0..len
  OBVIOUS
<1> QED BY <1>1, <1>4, <1>5

(* from_nix_base32, for any text: its low bits, or the refusal, or the *)
(* index out of bounds at the three lengths.                           *)
LEMMA DecodedHolds == ReadersTypeOK => DecodedIsTheBits
<1> SUFFICES ASSUME ReadersTypeOK, subject = "text" PROVE DecodedIsTheBits
  BY DEF DecodedIsTheBits
<1> DEFINE len == Len(input)
           outLen == (len * 5) \div 8
           r == FromNixBase32(input)
           bad == \E i \in DOMAIN input : ~IsDigit(input[i])
<1>1. input \in Seq(Nat)
  BY DEF ReadersTypeOK, Inputs
<1>2. len \in Nat /\ input \in [1..len -> Nat] /\ DOMAIN input = 1..len
  BY <1>1
<1> HIDE DEF len
<1>3. DecodedSoFar(input, len, outLen, r, len)
  <2> HIDE DEF r
  <2>1. DecodedSoFar(input, len, outLen, FromNixBase32(input), len)
    <3> DEFINE o == outLen
    <3>1. o = (len * 5) \div 8
      OBVIOUS
    <3> HIDE DEF o
    <3>2. DecodedSoFar(input, len, o, FromNixBase32(input), len)
      BY ONLY <1>2, <3>1, DecodedLemma
    <3> QED BY <3>2 DEF o
  <2> QED BY <2>1 DEF r
<1>4. Wrong(input, len, len) <=> bad
  <2>1. ASSUME NEW i \in 1..len PROVE len + 1 - i \in 1..len /\ len + 1 - (len + 1 - i) = i
    BY <1>2
  <2>2. Wrong(input, len, len) => bad
    BY <1>2, <2>1 DEF Wrong
  <2>3. bad => Wrong(input, len, len)
    <3> SUFFICES ASSUME NEW i \in 1..len, ~IsDigit(input[i]) PROVE Wrong(input, len, len)
      BY <1>2
    <3>1. PICK j \in 1..len : len + 1 - j = i
      BY <2>1
    <3> QED BY <3>1 DEF Wrong
  <2> QED BY <2>2, <2>3
<1>5. outLen = (5 * len) \div 8 /\ outLen \in Nat /\ 8 * outLen <= 5 * len
  BY <1>2
<1> HIDE DEF outLen, r
<1>6. CASE bad
  <2>1. r = Err
    BY <1>3, <1>4, <1>6 DEF DecodedSoFar
  <2>2. r.tag # "ok"
    BY <2>1, Tagged
  <2> QED BY <1>6, <2>1, <2>2 DEF DecodedIsTheBits, r
<1>7. CASE ~bad /\ len % 8 \in {1, 3, 6}
  <2>1. r = Panic
    BY <1>3, <1>4, <1>7 DEF DecodedSoFar
  <2>2. r.tag # "ok"
    BY <2>1, Tagged
  <2>3. len % 8 \notin {0, 2, 4, 5, 7}
    BY <1>7
  <2> QED BY <1>7, <2>2, <2>3 DEF DecodedIsTheBits, r, len
<1>8. CASE ~bad /\ ~(len % 8 \in {1, 3, 6})
  <2>1. /\ r.tag = "ok" /\ r.value \in [1..outLen -> Byte]
        /\ \A k \in 0..8 * outLen - 1 :
             BitOfBytes(r.value, k) = IF k < 5 * len THEN BitOfText(input, k) ELSE 0
    BY <1>3, <1>4, <1>8 DEF DecodedSoFar
  <2> DEFINE v == r.value
  <2> HIDE DEF v
  <2>2. v \in [1..outLen -> Byte]
    BY <2>1 DEF v
  <2>3. Len(v) = outLen
    BY <1>5, <2>2
  <2>4. \A k \in 0..8 * outLen - 1 : k < 5 * len
    BY <1>2, <1>5
  <2>5. \A k \in 0..8 * Len(v) - 1 : BitOfBytes(v, k) = BitOfText(input, k)
    BY <2>1, <2>3, <2>4 DEF v
  <2>6. Len(v) = (5 * Len(input)) \div 8
    BY <1>5, <2>3 DEF len
  <2> QED BY <1>8, <2>1, <2>5, <2>6 DEF DecodedIsTheBits, r, len, v
<1> QED BY <1>6, <1>7, <1>8

(* Bytes with the same bits are the same. *)
LEMMA SameBytes ==
  ASSUME NEW m \in Nat, NEW v, v \in [1..m -> Byte], NEW w, w \in [1..m -> Byte],
         \A n \in 0..8 * m - 1 : BitOfBytes(v, n) = BitOfBytes(w, n)
  PROVE  v = w
<1>1. ASSUME NEW p \in 1..m PROVE v[p] = w[p]
  <2>1. v[p] \in Byte /\ w[p] \in Byte
    OBVIOUS
  <2>2. ASSUME NEW k \in 0..7 PROVE Bit(v[p], k) = Bit(w[p], k)
    <3> DEFINE n == 8 * (p - 1) + k
    <3>1. n \in 0..8 * m - 1 /\ (n \div 8) + 1 = p /\ n % 8 = k
      OBVIOUS
    <3> HIDE DEF n
    <3>2. BitOfBytes(v, n) = BitOfBytes(w, n)
      BY <3>1
    <3> QED BY <3>1, <3>2 DEF BitOfBytes
  <2> DEFINE x == v[p]
             y == w[p]
  <2> HIDE DEF x, y
  <2>3. x \in Byte /\ y \in Byte /\ \A k \in 0..7 : Bit(x, k) = Bit(y, k)
    BY <2>1, <2>2 DEF x, y
  <2>4. x = y
    BY ONLY <2>3, SameBits
  <2> QED BY <2>4 DEF x, y
<1> QED BY <1>1

(* And texts of the alphabet. *)
LEMMA SameText ==
  ASSUME NEW len \in Nat, NEW s, s \in [1..len -> 0..31], NEW t, t \in [1..len -> 0..31],
         \A n \in 0..5 * len - 1 : BitOfText(s, n) = BitOfText(t, n)
  PROVE  s = t
<1>1. Len(s) = len /\ Len(t) = len
  OBVIOUS
<1>2. ASSUME NEW p \in 1..len PROVE s[p] = t[p]
  <2> DEFINE x == s[p]
             y == t[p]
             q == len - p
  <2>1. x \in 0..31 /\ y \in 0..31 /\ q \in Nat /\ len - q = p
    OBVIOUS
  <2>2. ASSUME NEW k \in 0..4 PROVE Bit(x, k) = Bit(y, k)
    <3> DEFINE n == 5 * q + k
    <3>1. n \in 0..5 * len - 1
      OBVIOUS
    <3>2. n \div 5 = q /\ n % 5 = k
      <4>1. q \in Nat
        BY <2>1
      <4> HIDE DEF q
      <4> QED BY ONLY <4>1, k \in 0..4
    <3>3. BitOfText(s, n) = BitOfText(t, n)
      BY <3>1
    <3> HIDE DEF n, q
    <3> QED BY <1>1, <2>1, <3>2, <3>3 DEF BitOfText
  <2> HIDE DEF x, y
  <2>3. ASSUME NEW k \in 0..7 PROVE Bit(x, k) = Bit(y, k)
    <3>1. k \in 0..4 \/ k \in 5..7
      OBVIOUS
    <3> QED BY <2>1, <2>2, <3>1, DigitBits
  <2>4. x \in Byte /\ y \in Byte
    BY <2>1 DEF Byte
  <2>5. x = y
    BY ONLY <2>3, <2>4, SameBits
  <2> QED BY <2>5 DEF x, y
<1> QED BY <1>2

(* The number of characters to_nix_base32 writes is one that decodes, to as many bytes. *)
LEMMA EncodedLength ==
  ASSUME NEW m \in Nat, NEW len, len = (m * 8 + 4) \div 5
  PROVE  len \in Nat /\ (len * 5) \div 8 = m /\ len % 8 \notin {1, 3, 6} /\ 8 * m <= 5 * len
<1>1. len \in Nat /\ 5 * len <= 8 * m + 4 /\ 8 * m <= 5 * len
  OBVIOUS
<1>2. (len * 5) \div 8 = m
  BY <1>1
<1> DEFINE a == len \div 8
           c == len % 8
<1>3. a \in Nat /\ c \in 0..7 /\ len = 8 * a + c
  BY <1>1
<1> HIDE DEF a, c
<1>4. c \notin {1, 3, 6}
  BY <1>1, <1>3
<1> QED BY <1>1, <1>2, <1>4 DEF c

(* to_nix_base32, for any bytes: their bits, and what from_nix_base32 reads *)
(* back.                                                                    *)
LEMMA EncodedHolds == ReadersTypeOK => EncodedIsTheBits
<1> SUFFICES ASSUME ReadersTypeOK, subject = "bytes" PROVE EncodedIsTheBits
  BY DEF EncodedIsTheBits
<1> DEFINE m == Len(input)
           len == (m * 8 + 4) \div 5
           text == ToNixBase32(input)
           r == FromNixBase32(text)
<1>1. input \in Seq(Byte)
  BY DEF ReadersTypeOK, Inputs, Byte
<1>2. m \in Nat /\ input \in [1..m -> Byte]
  BY <1>1
<1>3. /\ text \in [1..len -> 0..31] /\ len \in Nat
      /\ \A n \in 0..5 * len - 1 :
           BitOfText(text, n) = IF n < 8 * m THEN BitOfBytes(input, n) ELSE 0
  BY <1>1, EncodedLemma
<1> HIDE DEF m
<1>4. (len * 5) \div 8 = m /\ len % 8 \notin {1, 3, 6} /\ 8 * m <= 5 * len
  BY <1>2, EncodedLength
<1> HIDE DEF text, len
<1>5. Len(text) = len
  BY <1>3
<1>6. text \in [1..len -> Nat]
  <2>1. text \in [1..len -> 0..31] /\ \A d \in 0..31 : d \in Nat
    BY <1>3
  <2> QED BY ONLY <2>1
<1>7. DecodedSoFar(text, len, m, r, len)
  <2>1. len \in Nat /\ m = (len * 5) \div 8
    BY <1>3, <1>4
  <2> QED BY ONLY <1>6, <2>1, DecodedLemma
<1> HIDE DEF r
<1>8. ~Wrong(text, len, len)
  <2>1. ASSUME NEW i \in 1..len PROVE IsDigit(text[len + 1 - i])
    <3>1. len + 1 - i \in 1..len
      BY <1>3
    <3>2. text[len + 1 - i] \in 0..31
      BY <1>3, <3>1
    <3> DEFINE d == text[len + 1 - i]
    <3> HIDE DEF d
    <3>3. d \in 0..31
      BY <3>2 DEF d
    <3>4. IsDigit(d)
      BY ONLY <3>3 DEF IsDigit
    <3> QED BY <3>4 DEF d
  <2> QED BY <2>1 DEF Wrong
<1> DEFINE v == r.value
<1>9. /\ r.tag = "ok" /\ v \in [1..m -> Byte]
      /\ \A k \in 0..8 * m - 1 : BitOfBytes(v, k) = IF k < 5 * len THEN BitOfText(text, k) ELSE 0
  BY <1>4, <1>7, <1>8 DEF DecodedSoFar
<1>10. r = Ok(v)
  <2>1. r \in Results(m)
    <3>1. len \in Nat /\ m = (len * 5) \div 8
      BY <1>3, <1>4
    <3> QED BY ONLY <1>6, <3>1, DecodedType DEF r
  <2> QED BY <1>9, <2>1, OkIs
<1> HIDE DEF v
<1>11. ASSUME NEW k \in 0..8 * m - 1 PROVE BitOfBytes(v, k) = BitOfBytes(input, k)
  <2>1. k < 8 * m /\ k < 5 * len /\ k \in 0..5 * len - 1
    BY <1>2, <1>3, <1>4
  <2> QED BY <1>3, <1>9, <2>1
<1>12. v = input
  BY ONLY <1>2, <1>9, <1>11, SameBytes
<1> QED BY <1>3, <1>5, <1>10, <1>12 DEF EncodedIsTheBits, m, text, r

(* A text read as a hash: whole bytes, which to_nix_base32 writes back. *)
LEMMA HashPrintsBack ==
  ASSUME NEW len, len \in Nat, len % 8 = 0, NEW t, t \in [1..len -> 0..31]
  PROVE  \E v : FromNixBase32(t) = Ok(v) /\ ToNixBase32(v) = t
<1> DEFINE m == (len * 5) \div 8
           r == FromNixBase32(t)
           v == r.value
<1>1. m \in Nat /\ 8 * m = 5 * len /\ (m * 8 + 4) \div 5 = len
  OBVIOUS
<1>2. t \in [1..len -> Nat]
  <2>1. t \in [1..len -> 0..31] /\ \A d \in 0..31 : d \in Nat
    OBVIOUS
  <2> QED BY ONLY <2>1
<1>3. DecodedSoFar(t, len, m, r, len) /\ r \in Results(m)
  <2>1. m = (len * 5) \div 8
    OBVIOUS
  <2> HIDE DEF m
  <2> QED BY ONLY <1>2, <2>1, len \in Nat, DecodedLemma, DecodedType
<1> HIDE DEF m, r
<1>4. ~Wrong(t, len, len)
  <2>1. ASSUME NEW i \in 1..len PROVE IsDigit(t[len + 1 - i])
    <3> DEFINE d == t[len + 1 - i]
    <3>1. len + 1 - i \in 1..len
      OBVIOUS
    <3>2. d \in 0..31
      BY <3>1
    <3> HIDE DEF d
    <3>3. IsDigit(d)
      BY ONLY <3>2 DEF IsDigit
    <3> QED BY <3>3 DEF d
  <2> QED BY <2>1 DEF Wrong
<1>5. /\ r.tag = "ok" /\ v \in [1..m -> Byte]
      /\ \A k \in 0..8 * m - 1 : BitOfBytes(v, k) = IF k < 5 * len THEN BitOfText(t, k) ELSE 0
  <2>1. len % 8 \notin {1, 3, 6}
    OBVIOUS
  <2> QED BY <1>3, <1>4, <2>1 DEF DecodedSoFar
<1>6. r = Ok(v)
  BY <1>3, <1>5, OkIs
<1> HIDE DEF v
<1> DEFINE s == ToNixBase32(v)
<1>7. v \in Seq(Byte) /\ Len(v) = m
  BY <1>1, <1>5
<1>8. /\ s \in [1..len -> 0..31]
      /\ \A n \in 0..5 * len - 1 : BitOfText(s, n) = IF n < 8 * m THEN BitOfBytes(v, n) ELSE 0
  <2>1. m = Len(v) /\ len = (m * 8 + 4) \div 5
    BY <1>1, <1>7
  <2> QED BY ONLY <1>7, <2>1, EncodedLemma
<1> HIDE DEF s
<1>9. ASSUME NEW n \in 0..5 * len - 1 PROVE BitOfText(s, n) = BitOfText(t, n)
  <2>1. n \in 0..8 * m - 1 /\ n < 8 * m /\ n < 5 * len
    BY <1>1
  <2> QED BY <1>5, <1>8, <2>1
<1>10. s = t
  BY ONLY <1>8, <1>9, len \in Nat, t \in [1..len -> 0..31], SameText
<1> QED BY <1>6, <1>10 DEF r, s

(* Two sequences put together, by their positions. *)
LEMMA ConcatAt ==
  ASSUME NEW s, s \in Seq(Nat), NEW t, t \in Seq(Nat)
  PROVE  /\ s \o t \in Seq(Nat) /\ Len(s \o t) = Len(s) + Len(t)
         /\ \A i \in 1..Len(s) : (s \o t)[i] = s[i]
         /\ \A i \in Len(s) + 1..Len(s) + Len(t) : (s \o t)[i] = t[i - Len(s)]
  OBVIOUS

(* Taken apart at a place and put together again. *)
LEMMA Rejoined ==
  ASSUME NEW s, s \in Seq(Nat), NEW h, h \in Nat, h + 2 <= Len(s)
  PROVE  s = SubSeq(s, 1, h) \o <<s[h + 1]>> \o SubSeq(s, h + 2, Len(s))
<1> DEFINE n == Len(s)
           a == SubSeq(s, 1, h)
           b == <<s[h + 1]>>
           c == SubSeq(s, h + 2, n)
<1>1. n \in Nat /\ s \in [1..n -> Nat]
  OBVIOUS
<1>2. a \in Seq(Nat) /\ Len(a) = h /\ \A i \in 1..h : a[i] = s[i]
  <2>1. 1 \in Nat \ {0} /\ h \in 0..Len(s) /\ 1 <= h + 1
    OBVIOUS
  <2>2. a \in Seq(Nat) /\ Len(a) = h - 1 + 1 /\ \A i \in 1..h - 1 + 1 : a[i] = s[1 + i - 1]
    BY ONLY s \in Seq(Nat), <2>1, SubSeqAt
  <2> QED BY <2>2
<1>3. c \in Seq(Nat) /\ Len(c) = n - h - 1 /\ \A i \in 1..n - h - 1 : c[i] = s[h + 1 + i]
  <2> DEFINE k == h + 2
  <2>1. k \in Nat \ {0} /\ n \in 0..Len(s) /\ k <= n + 1
    OBVIOUS
  <2> HIDE DEF k, n
  <2>2. SubSeq(s, k, n) \in Seq(Nat) /\ Len(SubSeq(s, k, n)) = n - k + 1
        /\ \A i \in 1..n - k + 1 : SubSeq(s, k, n)[i] = s[k + i - 1]
    BY ONLY s \in Seq(Nat), <2>1, SubSeqAt
  <2>3. n - k + 1 = n - h - 1 /\ \A i \in Nat : k + i - 1 = h + 1 + i
    BY <1>1 DEF k
  <2> QED BY <2>2, <2>3 DEF k
<1>4. b \in Seq(Nat) /\ Len(b) = 1 /\ b[1] = s[h + 1]
  BY <1>1
<1> HIDE DEF n, a, b, c
<1> DEFINE ab == a \o b
           t == ab \o c
<1>5. ab \in Seq(Nat) /\ Len(ab) = h + 1 /\ \A i \in 1..h + 1 : ab[i] = s[i]
  <2>1. /\ ab \in Seq(Nat) /\ Len(ab) = h + 1
        /\ \A i \in 1..h : ab[i] = a[i]
        /\ \A i \in h + 1..h + 1 : ab[i] = b[i - h]
    <3>1. /\ ab \in Seq(Nat) /\ Len(ab) = Len(a) + Len(b)
          /\ \A i \in 1..Len(a) : ab[i] = a[i]
          /\ \A i \in Len(a) + 1..Len(a) + Len(b) : ab[i] = b[i - Len(a)]
      <4>1. a \in Seq(Nat) /\ b \in Seq(Nat)
        BY <1>2, <1>4
      <4> QED BY ONLY <4>1, ConcatAt
    <3> HIDE DEF ab
    <3> QED BY <1>2, <1>4, <3>1
  <2>2. ab[h + 1] = s[h + 1]
    <3>1. h + 1 \in h + 1..h + 1 /\ (h + 1) - h = 1
      OBVIOUS
    <3> QED BY <1>4, <2>1, <3>1
  <2>3. \A i \in 1..h + 1 : i \in 1..h \/ i = h + 1
    OBVIOUS
  <2> HIDE DEF ab
  <2> QED BY <1>2, <2>1, <2>2, <2>3
<1> HIDE DEF ab
<1>6. t \in Seq(Nat) /\ Len(t) = n /\ \A i \in 1..n : t[i] = s[i]
  <2>1. (h + 1) + (n - h - 1) = n
    BY <1>1
  <2>2. /\ t \in Seq(Nat) /\ Len(t) = n
        /\ \A i \in 1..h + 1 : t[i] = ab[i]
        /\ \A i \in (h + 1) + 1..n : t[i] = c[i - (h + 1)]
    <3>1. /\ t \in Seq(Nat) /\ Len(t) = Len(ab) + Len(c)
          /\ \A i \in 1..Len(ab) : t[i] = ab[i]
          /\ \A i \in Len(ab) + 1..Len(ab) + Len(c) : t[i] = c[i - Len(ab)]
      <4>1. ab \in Seq(Nat) /\ c \in Seq(Nat)
        BY <1>3, <1>5
      <4> QED BY ONLY <4>1, ConcatAt
    <3>2. Len(ab) = h + 1 /\ Len(ab) + Len(c) = n
      BY <1>3, <1>5, <2>1
    <3> HIDE DEF t
    <3> QED BY <3>1, <3>2
  <2> HIDE DEF t
  <2>3. ASSUME NEW i \in 1..n PROVE t[i] = s[i]
    <3>1. CASE i \in 1..h + 1
      BY <1>5, <2>2, <3>1
    <3>2. CASE i \in (h + 1) + 1..n
      <4>1. i - (h + 1) \in 1..n - h - 1 /\ h + 1 + (i - (h + 1)) = i
        BY <1>1, <3>2
      <4>2. c[i - (h + 1)] = s[i]
        BY <1>3, <4>1
      <4> QED BY <2>2, <3>2, <4>2
    <3> QED BY <1>1, <3>1, <3>2
  <2> QED BY <2>2, <2>3
<1> HIDE DEF t
<1>7. t = s
  BY <1>1, <1>6
<1> QED BY <1>7 DEF t, ab, a, b, c, n

(* StorePath::parse_basename, for any text: the proper names are accepted  *)
(* and print back; the hash fills whole bytes, so the slice alone panics.  *)
LEMMA BasenameHolds == ReadersTypeOK => BasenamePrintsBack
<1> SUFFICES ASSUME ReadersTypeOK, subject = "basename" PROVE BasenamePrintsBack
  BY DEF BasenamePrintsBack
<1> DEFINE n == Len(input)
           t == SubSeq(input, 1, HashLen)
           hash == FromNixBase32(t)
           rest == SubSeq(input, HashLen + 2, n)
           r == ParseBasename(input)
           framed == n > HashLen + 1 /\ input[HashLen + 1] = Dash
           clean == \A i \in 1..HashLen : IsDigit(input[i])
<1>1. input \in Seq(Nat)
  BY DEF ReadersTypeOK, Inputs
<1>2. n \in Nat /\ HashLen \in Nat /\ HashLen % 8 = 0
  BY <1>1, HashLenAssumption
<1>3. /\ framed => r = IF hash.tag # "ok" THEN hash
                       ELSE Ok([hash |-> hash.value, name |-> rest])
      /\ ~framed => r = Err \/ (/\ r = Panic /\ n > HashLen + 1
                                 /\ InCharacter(input[HashLen + 1]))
  <2>1. n < HashLen + 2 <=> ~(n > HashLen + 1)
    BY <1>2
  <2>2. ~InCharacter(Dash)
    BY DEF InCharacter, Dash
  <2> QED BY <2>1, <2>2 DEF ParseBasename
<1>4. framed => t \in [1..HashLen -> Nat] /\ \A i \in 1..HashLen : t[i] = input[i]
  <2> SUFFICES ASSUME framed PROVE t \in [1..HashLen -> Nat] /\ \A i \in 1..HashLen : t[i] = input[i]
    OBVIOUS
  <2> DEFINE h == HashLen
  <2>1. 1 \in Nat \ {0} /\ h \in 0..Len(input) /\ 1 <= h + 1 /\ h \in Nat
    BY <1>2
  <2> HIDE DEF h
  <2>2. /\ SubSeq(input, 1, h) \in Seq(Nat) /\ Len(SubSeq(input, 1, h)) = h - 1 + 1
        /\ \A i \in 1..h - 1 + 1 : SubSeq(input, 1, h)[i] = input[1 + i - 1]
    BY ONLY <1>1, <2>1, SubSeqAt
  <2>3. h - 1 + 1 = h /\ \A i \in Nat : 1 + i - 1 = i
    BY <2>1
  <2>4. t \in Seq(Nat) /\ Len(t) = h /\ \A i \in 1..h : t[i] = input[i]
    BY <2>1, <2>2, <2>3 DEF h
  <2> HIDE DEF t
  <2>5. t \in [1..h -> Nat]
    BY ONLY <2>4
  <2> QED BY <2>4, <2>5 DEF h
<1> HIDE DEF t, n, r, hash, rest
<1>5. CASE ~framed
  <2>1. r = Err \/ r = Panic
    BY <1>3, <1>5
  <2>2. r.tag # "ok"
    BY <2>1, Tagged
  <2>3. r.tag = "panic" => n > HashLen + 1 /\ InCharacter(input[HashLen + 1])
    BY <1>3, <1>5, Tagged
  <2> QED BY <1>5, <2>2, <2>3 DEF BasenamePrintsBack, r, n
<1>6. CASE framed /\ ~clean
  <2>1. DecodedSoFar(t, HashLen, (HashLen * 5) \div 8, hash, HashLen)
    <3> DEFINE o == (HashLen * 5) \div 8
    <3>1. o = (HashLen * 5) \div 8
      OBVIOUS
    <3> HIDE DEF o
    <3>2. t \in [1..HashLen -> Nat] /\ HashLen \in Nat
      BY <1>2, <1>4, <1>6
    <3>3. DecodedSoFar(t, HashLen, o, FromNixBase32(t), HashLen)
      BY ONLY <3>1, <3>2, DecodedLemma
    <3> QED BY <3>3 DEF o, hash
  <2>2. PICK i \in 1..HashLen : ~IsDigit(t[i])
    BY <1>4, <1>6
  <2>3. HashLen + 1 - i \in 1..HashLen /\ HashLen + 1 - (HashLen + 1 - i) = i
    BY <1>2
  <2>4. Wrong(t, HashLen, HashLen)
    <3> DEFINE j == HashLen + 1 - i
    <3>1. j \in 1..HashLen /\ HashLen + 1 - j = i
      BY <2>3
    <3> HIDE DEF j
    <3> QED BY <2>2, <3>1 DEF Wrong
  <2>5. hash = Err
    BY <2>1, <2>4 DEF DecodedSoFar
  <2>6. r = Err
    BY <1>3, <1>6, <2>5, Tagged
  <2>7. r.tag # "ok" /\ r.tag # "panic"
    BY <2>6, Tagged
  <2> QED BY <1>6, <2>7 DEF BasenamePrintsBack, r, n
<1>7. CASE framed /\ clean
  <2>1. t \in [1..HashLen -> 0..31]
    <3>1. ASSUME NEW i \in 1..HashLen PROVE t[i] \in 0..31
      <4> DEFINE d == t[i]
      <4>1. d \in Nat /\ IsDigit(d)
        BY <1>4, <1>7
      <4> HIDE DEF d
      <4>2. d \in 0..31
        BY <4>1, DigitIs
      <4> QED BY <4>2 DEF d
    <3>2. t \in [1..HashLen -> Nat]
      BY <1>4, <1>7
    <3> QED BY ONLY <3>1, <3>2
  <2>2. PICK v : FromNixBase32(t) = Ok(v) /\ ToNixBase32(v) = t
    BY ONLY <1>2, <2>1, HashPrintsBack
  <2>3. hash.tag = "ok" /\ hash.value = v
    BY <2>2, Tagged DEF hash
  <2>4. r = Ok([hash |-> v, name |-> rest])
    BY <1>3, <1>7, <2>3
  <2>5. r.tag = "ok" /\ r.value = [hash |-> v, name |-> rest]
    BY <2>4, Tagged
  <2>6. Basename(r.value) = t \o <<Dash>> \o rest
    BY <2>2, <2>5 DEF Basename
  <2>7. input = t \o <<input[HashLen + 1]>> \o rest
    <3>1. HashLen + 2 <= Len(input)
      BY <1>2, <1>7 DEF n
    <3> QED BY <1>1, <1>2, <3>1, Rejoined DEF t, rest, n
  <2>8. Basename(r.value) = input
    BY <1>7, <2>6, <2>7
  <2> QED BY <1>7, <2>5, <2>8 DEF BasenamePrintsBack, r, n
<1> QED BY <1>5, <1>6, <1>7

-----------------------------------------------------------------------------
(* What the readers promise, for every input *)

(* Every input is of its reader's type. *)
LEMMA Typed == ReadersSpec => []ReadersTypeOK
<1>1. ReadersTypeOK /\ [ReadersTypeOK']_formatVars => ReadersTypeOK'
  BY DEF ReadersTypeOK, formatVars
<1> QED BY <1>1, PTL DEF ReadersSpec

(* to_nix_base32 writes the bits of any bytes, and from_nix_base32 reads *)
(* them back: no length loses one.                                       *)
THEOREM EncodedTheorem == ReadersSpec => []EncodedIsTheBits
  BY Typed, EncodedHolds, PTL

(* from_nix_base32 decodes any text of the alphabet to its bits wherever it *)
(* decodes it, which it does at every length an encoding has; it refuses    *)
(* any other text.                                                          *)
THEOREM DecodedTheorem == ReadersSpec => []DecodedIsTheBits
  BY Typed, DecodedHolds, PTL

(* StorePath::parse_basename accepts the proper names and no other text, and *)
(* basename writes back what it accepts.  Its hash fills whole bytes, so the *)
(* decoder's index is in bounds; the slice before it is what may panic.      *)
THEOREM BasenameTheorem == ReadersSpec => []BasenamePrintsBack
  BY Typed, BasenameHolds, PTL

(* matches_glob, for every text and every pattern: it accepts all of the    *)
(* documented language, nothing outside the one in which a '*' also covers  *)
(* '/', and exactly the documented one on texts without a '/'.              *)
THEOREM GlobTheorem == ReadersSpec => []GlobIsItsLanguage
  BY Typed, GlobHolds, PTL

(* The validators of eval.rs accept their grammars and nothing else, at *)
(* every length.                                                        *)
THEOREM ValidatorsTheorem == ReadersSpec => []ValidatorsKeepTheirGrammar
  BY Typed, ValidatorsHold, PTL

(* CacheClient, for every list of caches, priorities and answers. *)
THEOREM FirstSuccessTheorem == ReadersSpec => []FirstSuccessDecides
  BY Typed, FirstSuccessHolds, PTL

(* NarInfo::parse, for every sequence of lines. *)
THEOREM NarInfoTheorem == ReadersSpec => []NarInfoIsItsLines
  BY Typed, NarInfoHolds, PTL

(* load_or_default, for every three layers. *)
THEOREM ConfigTheorem == ReadersSpec => []ConfigAllOrNothing
  BY Typed, ConfigHolds, PTL

=============================================================================
