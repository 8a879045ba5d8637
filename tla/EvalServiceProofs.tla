------------------------- MODULE EvalServiceProofs --------------------------
(***************************************************************************)
(* Evaluation against time, for every set of workloads and flakes, every   *)
(* timeout, every lag of the network and every number of failures.         *)
(***************************************************************************)
EXTENDS EvalService, Integers, TLAPS

-----------------------------------------------------------------------------
(* The inductive invariant *)

Calls    == Errors \cup {"due", "waiting", "done"}
Handlers == {"none", "queued", "nix", "closure"}

TypeInv ==
  /\ profile \in [Workloads -> ProfileType]
  /\ call \in [Workloads -> Calls]
  /\ elapsed \in [Workloads -> Nat]
  /\ handler \in [Workloads -> Handlers]
  /\ age \in [Workloads -> Nat]
  /\ orphans \in [Workloads -> Seq(Nat)]
  /\ operatorRestarts \in Nat

(* The request's clock covers everything its handler did so far. *)
ClockOK(w) ==
  /\ handler[w] # "none" => call[w] = "waiting"
  /\ call[w] # "waiting" => elapsed[w] = 0
  /\ elapsed[w] <= EvalTimeout
  /\ handler[w] = "queued" => elapsed[w] <= MaxLag
  /\ handler[w] = "nix" =>
       /\ profile[w].admission = "admitted" /\ age[w] <= profile[w].nix.most
       /\ age[w] <= elapsed[w] /\ elapsed[w] <= age[w] + MaxLag
  /\ handler[w] = "closure" =>
       /\ profile[w].admission = "admitted"
       /\ profile[w].nix.least + age[w] <= elapsed[w]

(* What a workload that is done says of its flake. *)
DoneOK(w) ==
  call[w] = "done" => /\ profile[w].admission = "admitted"
                      /\ profile[w].nix.least + profile[w].closure.least <= EvalTimeout

(* Processes without a handler, oldest first, none past its life. *)
AgesOK(w) ==
  \A i \in 1..Len(orphans[w]) :
    /\ orphans[w][i] <= profile[w].nix.most
    /\ handler[w] = "nix" => age[w] <= orphans[w][i]
    /\ \A j \in 1..Len(orphans[w]) : i < j => orphans[w][j] <= orphans[w][i]

(* Each one has seen a whole timeout pass for every process after it, save  *)
(* those the operator's restarts cut short, and for the current request     *)
(* the time since it was sent.                                              *)
Since(w, i) == Len(orphans[w]) - i + 1 - operatorRestarts

SpacedOK(w) ==
  \A i \in 1..Len(orphans[w]) :
    EvalTimeout * Since(w, i) + elapsed[w] <= orphans[w][i] + MaxLag

EvalAt(w) == ClockOK(w) /\ DoneOK(w) /\ AgesOK(w) /\ SpacedOK(w)

IInv == TypeInv /\ \A w \in Workloads : EvalAt(w)

-----------------------------------------------------------------------------
(* Arithmetic *)

(* One timeout more is worth one process more. *)
LEMMA OneMore ==
  ASSUME NEW T \in Nat, NEW k \in Int, NEW e \in Nat, NEW a \in Nat, NEW l \in Nat,
         T * k + e <= a + l, T <= e
  PROVE  T * (k + 1) <= a + l
<1>1. T * (k + 1) = T * k + T /\ T * k \in Int
  OBVIOUS
<1> QED BY <1>1

(* Fewer processes take no more time. *)
LEMMA Fewer ==
  ASSUME NEW T \in Nat, NEW k \in Int, NEW j \in Int, j <= k
  PROVE  T * j <= T * k /\ T * j \in Int /\ T * k \in Int
<1> DEFINE n == k - j
<1>1. n \in Nat /\ k = j + n
  OBVIOUS
<1> HIDE DEF n
<1>2. T * k = T * j + T * n
  BY <1>1
<1>3. T * n \in Nat /\ T * j \in Int
  BY <1>1
<1> QED BY <1>2, <1>3

(* Fewer processes and less time are easier to afford. *)
LEMMA Affordable ==
  ASSUME NEW T \in Nat, NEW k \in Int, NEW j \in Int, j <= k, NEW e \in Nat,
         NEW d \in Nat, d <= e, NEW a \in Nat, NEW l \in Nat, T * k + e <= a + l
  PROVE  T * j + d <= a + l
<1> DEFINE A == T * k
           B == T * j
<1>1. B <= A /\ A \in Int /\ B \in Int
  BY Fewer
<1>2. A + e <= a + l
  OBVIOUS
<1> HIDE DEF A, B
<1>3. B + d <= a + l
  BY <1>1, <1>2
<1> QED BY <1>3 DEF B

(* What the process left behind last has to have seen. *)
LEMMA Newest ==
  ASSUME NEW T \in Nat, NEW r \in Nat, NEW b \in Nat, T <= b \/ r >= 1
  PROVE  T * (1 - r) <= b
<1>1. CASE r = 0
  BY <1>1
<1>2. CASE r >= 1
  <2> DEFINE j == 1 - r
  <2>1. j \in Int /\ j <= 0
    BY <1>2
  <2> HIDE DEF j
  <2>2. T * j <= T * 0 /\ T * j \in Int
    BY <2>1, Fewer
  <2>3. T * j <= b
    BY <2>2
  <2> QED BY <2>3 DEF j
<1> QED BY <1>1, <1>2

(* A number of timeouts that fits is at most the quotient. *)
LEMMA AtMostQuotient ==
  ASSUME NEW T \in Nat \ {0}, NEW n \in Nat, NEW k \in Int, T * k <= n
  PROVE  k <= n \div T /\ n \div T \in Nat
<1> DEFINE q == n \div T
<1>1. q \in Nat /\ n < T * q + T
  OBVIOUS
<1> HIDE DEF q
<1>2. ASSUME k > q PROVE FALSE
  <2> DEFINE d == k - (q + 1)
  <2>1. d \in Nat /\ k = q + 1 + d
    BY <1>1, <1>2
  <2> HIDE DEF d
  <2>2. T * k = T * q + T + T * d /\ T * d \in Nat /\ T * q \in Nat
    BY <1>1, <2>1
  <2> QED BY <1>1, <2>2
<1> QED BY <1>1, <1>2 DEF q

-----------------------------------------------------------------------------
(* One workload at a time *)

(* What a step of one workload leaves of another's. *)
Still(v) ==
  /\ profile'[v] = profile[v] /\ call'[v] = call[v] /\ elapsed'[v] = elapsed[v]
  /\ handler'[v] = handler[v] /\ age'[v] = age[v] /\ orphans'[v] = orphans[v]

(* A workload that does not move keeps its part of the invariant. *)
LEMMA StillKept ==
  ASSUME NEW v, EvalAt(v), Still(v), operatorRestarts' = operatorRestarts
  PROVE  EvalAt(v)'
BY DEF EvalAt, Still, ClockOK, DoneOK, AgesOK, SpacedOK, Since

(* One workload moves. *)
LEMMA OneMoves ==
  ASSUME IInv, TypeInv', NEW w \in Workloads, EvalAt(w)',
         operatorRestarts' = operatorRestarts,
         \A v \in Workloads \ {w} : Still(v)
  PROVE  IInv'
<1>1. ASSUME NEW v \in Workloads, v # w PROVE EvalAt(v)'
  BY <1>1, StillKept DEF IInv
<1> QED BY <1>1 DEF IInv

(* The types of one workload's part, and of the bounds. *)
LEMMA Types ==
  ASSUME TypeInv, NEW w \in Workloads
  PROVE  /\ profile[w].nix.least \in Nat /\ profile[w].nix.most \in Nat
         /\ profile[w].closure.least \in Nat /\ profile[w].closure.most \in Nat
         /\ elapsed[w] \in Nat /\ age[w] \in Nat /\ orphans[w] \in Seq(Nat)
         /\ Len(orphans[w]) \in Nat /\ operatorRestarts \in Nat
         /\ EvalTimeout \in Nat /\ MaxLag \in Nat
BY TimesAssumption DEF TypeInv, ProfileType, Span

(* The ages of a list are numbers. *)
LEMMA AgeType ==
  ASSUME NEW s \in Seq(Nat), NEW i \in 1..Len(s)
  PROVE  i \in Nat /\ s[i] \in Nat
OBVIOUS

(* A process more comes last. *)
LEMMA Appended ==
  ASSUME NEW s \in Seq(Nat), NEW x \in Nat
  PROVE  LET t == Append(s, x)
         IN  /\ Len(t) = Len(s) + 1 /\ t[Len(s) + 1] = x
             /\ \A i \in 1..Len(s) : t[i] = s[i] /\ t[i] \in Nat
OBVIOUS

(* No process is added: what can be said of the rest still can. *)
LEMMA SameOrphans ==
  ASSUME TypeInv, TypeInv', NEW w \in Workloads, EvalAt(w),
         orphans'[w] = orphans[w], profile'[w] = profile[w],
         elapsed'[w] <= elapsed[w], operatorRestarts <= operatorRestarts',
         handler'[w] = "nix" => age'[w] = 0 \/ (handler[w] = "nix" /\ age'[w] = age[w])
  PROVE  AgesOK(w)' /\ SpacedOK(w)'
<1>1. /\ orphans[w] \in Seq(Nat) /\ Len(orphans[w]) \in Nat
      /\ elapsed[w] \in Nat /\ elapsed'[w] \in Nat
      /\ operatorRestarts \in Nat /\ operatorRestarts' \in Nat
      /\ EvalTimeout \in Nat /\ MaxLag \in Nat
  BY Types, TimesAssumption DEF TypeInv
<1>2. AgesOK(w)'
  <2>1. AgesOK(w)
    BY DEF EvalAt
  <2>2. \A i \in 1..Len(orphans[w]) : 0 <= orphans[w][i]
    BY <1>1, AgeType
  <2>3. \A i \in 1..Len(orphans[w]) : handler'[w] = "nix" => age'[w] <= orphans[w][i]
    BY <2>1, <2>2 DEF AgesOK
  <2> QED BY <2>1, <2>3 DEF AgesOK
<1>3. ASSUME NEW i \in 1..Len(orphans[w])
      PROVE  EvalTimeout * Since(w, i)' + elapsed'[w] <= orphans[w][i] + MaxLag
  <2> DEFINE k == Since(w, i)
             j == Since(w, i)'
             o == orphans[w][i]
  <2>1. k \in Int /\ j \in Int /\ j <= k /\ i \in Nat
    BY <1>1 DEF Since
  <2>2. o \in Nat
    BY <1>1
  <2>3. EvalTimeout * k + elapsed[w] <= o + MaxLag
    BY DEF EvalAt, SpacedOK
  <2> HIDE DEF k, j, o
  <2>4. EvalTimeout * j + elapsed'[w] <= o + MaxLag
    BY <1>1, <2>1, <2>2, <2>3, Affordable
  <2> QED BY <2>4 DEF k, j, o
<1>4. SpacedOK(w)'
  BY <1>3 DEF SpacedOK
<1> QED BY <1>2, <1>4

(* The nix process of a handler is left behind: its request has had its whole *)
(* timeout, or the operator was restarted.                                    *)
LEMMA MoreOrphans ==
  ASSUME TypeInv, TypeInv', NEW w \in Workloads, EvalAt(w),
         handler[w] = "nix", orphans'[w] = Append(orphans[w], age[w]),
         profile'[w] = profile[w], elapsed'[w] = 0, handler'[w] = "none",
         \/ EvalTimeout <= elapsed[w] /\ operatorRestarts' = operatorRestarts
         \/ operatorRestarts' = operatorRestarts + 1
  PROVE  AgesOK(w)' /\ SpacedOK(w)'
<1> DEFINE n == Len(orphans[w])
           new == Append(orphans[w], age[w])
<1>1. /\ orphans[w] \in Seq(Nat) /\ n \in Nat /\ age[w] \in Nat
      /\ profile[w].nix.most \in Nat /\ elapsed[w] \in Nat
      /\ operatorRestarts \in Nat /\ operatorRestarts' \in Nat
      /\ EvalTimeout \in Nat /\ MaxLag \in Nat
  BY Types, TimesAssumption DEF TypeInv
<1>2. /\ Len(new) = n + 1 /\ new[n + 1] = age[w]
      /\ \A i \in 1..n : new[i] = orphans[w][i] /\ new[i] \in Nat
  BY ONLY <1>1, Appended
<1>3. \A i \in 1..(n + 1) : i \in 1..n \/ i = n + 1
  BY <1>1
<1>4. /\ age[w] <= profile[w].nix.most /\ age[w] <= elapsed[w]
      /\ elapsed[w] <= age[w] + MaxLag
      /\ \A i \in 1..n : /\ orphans[w][i] <= profile[w].nix.most
                         /\ age[w] <= orphans[w][i]
                         /\ \A j \in 1..n : i < j => orphans[w][j] <= orphans[w][i]
  BY DEF EvalAt, ClockOK, AgesOK
<1>5. \A i \in 1..n : EvalTimeout * Since(w, i) + elapsed[w] <= orphans[w][i] + MaxLag
  BY DEF EvalAt, SpacedOK
<1>6. orphans'[w] = new
  OBVIOUS
<1>7. \A i \in 1..n : Since(w, i) = n - i + 1 - operatorRestarts
  BY DEF Since
<1>8. \A i \in 1..(n + 1) : Since(w, i)' = n + 1 - i + 1 - operatorRestarts'
  BY <1>2, <1>6 DEF Since
<1> HIDE DEF n, new
<1>9. AgesOK(w)'
  <2>1. ASSUME NEW i \in 1..(n + 1)
        PROVE  /\ new[i] <= profile[w].nix.most
               /\ \A j \in 1..(n + 1) : i < j => new[j] <= new[i]
    <3>1. CASE i = n + 1
      BY <1>1, <1>2, <1>4, <3>1
    <3>2. CASE i \in 1..n
      <4>1. ASSUME NEW j \in 1..(n + 1), i < j PROVE new[j] <= new[i]
        BY <1>2, <1>3, <1>4, <3>2, <4>1
      <4> QED BY <1>2, <1>4, <3>2, <4>1
    <3> QED BY <1>3, <3>1, <3>2
  <2> QED BY <1>2, <1>6, <2>1 DEF AgesOK
<1>10. ASSUME NEW i \in 1..(n + 1)
       PROVE  EvalTimeout * Since(w, i)' <= new[i] + MaxLag
  <2>1. CASE i \in 1..n
    <3> DEFINE k == Since(w, i)
               j == Since(w, i)'
               o == orphans[w][i]
    <3>1. /\ k = n - i + 1 - operatorRestarts
          /\ j = n + 1 - i + 1 - operatorRestarts'
          /\ o \in Nat /\ i \in Int /\ new[i] = o
      BY <1>2, <1>7, <1>8, <2>1
    <3>2. EvalTimeout * k + elapsed[w] <= o + MaxLag
      BY <1>5, <2>1
    <3> HIDE DEF k, j, o
    <3>3. k \in Int /\ j \in Int
      BY <1>1, <3>1
    <3>4. CASE EvalTimeout <= elapsed[w] /\ operatorRestarts' = operatorRestarts
      <4>1. j = k + 1
        BY <1>1, <3>1, <3>4
      <4>2. EvalTimeout * (k + 1) <= o + MaxLag
        BY <1>1, <3>1, <3>2, <3>3, <3>4, OneMore
      <4> QED BY <3>1, <4>1, <4>2 DEF j
    <3>5. CASE operatorRestarts' = operatorRestarts + 1
      <4>1. j = k
        BY <1>1, <3>1, <3>5
      <4>2. EvalTimeout * k + 0 <= o + MaxLag
        BY <1>1, <3>1, <3>2, <3>3, Affordable
      <4>3. EvalTimeout * k \in Int
        BY <1>1, <3>3
      <4> QED BY <3>1, <4>1, <4>2, <4>3 DEF j
    <3> QED BY <3>4, <3>5
  <2>2. CASE i = n + 1
    <3>1. Since(w, i)' = 1 - operatorRestarts'
      BY <1>1, <1>8, <2>2
    <3>2. new[i] = age[w] /\ age[w] + MaxLag \in Nat
      BY <1>1, <1>2, <2>2
    <3>3. EvalTimeout <= age[w] + MaxLag \/ operatorRestarts' >= 1
      BY <1>1, <1>4
    <3>4. EvalTimeout * (1 - operatorRestarts') <= age[w] + MaxLag
      BY <1>1, <3>2, <3>3, Newest
    <3> QED BY <3>1, <3>2, <3>4
  <2> QED BY <1>3, <2>1, <2>2
<1>11. SpacedOK(w)'
  <2>1. ASSUME NEW i \in 1..(n + 1)
        PROVE  EvalTimeout * Since(w, i)' + 0 <= new[i] + MaxLag
    <3>1. EvalTimeout * Since(w, i)' \in Int
      BY <1>1, <1>8
    <3> QED BY <1>10, <3>1
  <2> QED BY <1>2, <1>6, <2>1 DEF SpacedOK
<1> QED BY <1>9, <1>11

-----------------------------------------------------------------------------
(* Every step preserves the invariant: the request and its handler *)

(* The request ends: with an answer, or in its timeout. *)
LEMMA Ended ==
  ASSUME IInv, NEW w \in Workloads, NEW outcome \in Errors \cup {"done"},
         call' = [call EXCEPT ![w] = outcome],
         elapsed' = [elapsed EXCEPT ![w] = 0],
         handler' = [handler EXCEPT ![w] = "none"],
         age' = [age EXCEPT ![w] = 0],
         UNCHANGED <<profile, operatorRestarts>>,
         \/ orphans' = orphans
         \/ /\ orphans' = [orphans EXCEPT ![w] = Orphaned(w)]
            /\ handler[w] = "nix" => EvalTimeout <= elapsed[w],
         outcome = "done" =>
           /\ profile[w].admission = "admitted"
           /\ profile[w].nix.least + profile[w].closure.least <= EvalTimeout
  PROVE  IInv'
<1>1. TypeInv /\ EvalAt(w)
  BY DEF IInv
<1>2. outcome \in Calls /\ outcome # "waiting" /\ "none" \in Handlers
  BY DEF Calls, Handlers, Errors
<1>3. orphans[w] \in Seq(Nat) /\ age[w] \in Nat
  BY <1>1, Types
<1>4. Orphaned(w) \in Seq(Nat)
  BY <1>3 DEF Orphaned
<1>5. TypeInv'
  BY <1>1, <1>2, <1>4 DEF TypeInv
<1>6. /\ call'[w] = outcome /\ elapsed'[w] = 0 /\ handler'[w] = "none"
      /\ age'[w] = 0 /\ profile'[w] = profile[w]
  BY <1>1 DEF TypeInv
<1>7. AgesOK(w)' /\ SpacedOK(w)'
  <2>1. CASE orphans'[w] = orphans[w]
    <3>1. elapsed[w] \in Nat /\ operatorRestarts \in Nat
      BY <1>1, Types
    <3>2. elapsed'[w] <= elapsed[w] /\ operatorRestarts <= operatorRestarts'
      BY <1>6, <3>1
    <3> QED BY <1>1, <1>5, <1>6, <2>1, <3>2, SameOrphans
  <2>2. CASE /\ orphans'[w] = Append(orphans[w], age[w])
             /\ handler[w] = "nix" /\ EvalTimeout <= elapsed[w]
    BY <1>1, <1>5, <1>6, <2>2, MoreOrphans
  <2> QED BY <1>1, <2>1, <2>2 DEF Orphaned, TypeInv
<1>8. ClockOK(w)' /\ DoneOK(w)'
  BY <1>2, <1>6, TimesAssumption DEF ClockOK, DoneOK
<1>9. EvalAt(w)'
  BY <1>7, <1>8 DEF EvalAt
<1>10. \A v \in Workloads \ {w} : Still(v)
  BY <1>1 DEF Still, TypeInv
<1> QED BY <1>5, <1>9, <1>10, OneMoves

(* A request is posted. *)
LEMMA CallStep ==
  ASSUME IInv, NEW w \in Workloads, Call(w) PROVE IInv'
<1>1. TypeInv /\ EvalAt(w) /\ call[w] # "waiting"
  BY DEF IInv, Call, Errors
<1>2. TypeInv'
  BY <1>1 DEF TypeInv, Call, Calls, Handlers, budgetVars
<1>3. /\ call'[w] = "waiting" /\ elapsed'[w] = 0 /\ handler'[w] = "queued"
      /\ age'[w] = 0 /\ profile'[w] = profile[w] /\ orphans'[w] = orphans[w]
      /\ operatorRestarts' = operatorRestarts
  BY <1>1 DEF TypeInv, Call, budgetVars
<1>4. elapsed[w] = 0 /\ operatorRestarts \in Nat
  BY <1>1, Types DEF EvalAt, ClockOK
<1>5. AgesOK(w)' /\ SpacedOK(w)'
  BY <1>1, <1>2, <1>3, <1>4, SameOrphans
<1>6. ClockOK(w)' /\ DoneOK(w)'
  BY <1>3, TimesAssumption DEF ClockOK, DoneOK
<1>7. EvalAt(w)'
  BY <1>5, <1>6 DEF EvalAt
<1>8. \A v \in Workloads \ {w} : Still(v)
  BY <1>1 DEF Still, TypeInv, Call, budgetVars
<1> QED BY <1>2, <1>3, <1>7, <1>8, OneMoves

(* The request times out. *)
LEMMA CallerTimeoutStep ==
  ASSUME IInv, NEW w \in Workloads, CallerTimeout(w) PROVE IInv'
<1>1. EvalTimeout <= elapsed[w]
  BY Types, TimesAssumption DEF CallerTimeout, TimedOut, IInv
<1>2. "EvalTimeout" \in Errors \cup {"done"} /\ "EvalTimeout" # "done"
  BY DEF Errors
<1> QED BY <1>1, <1>2, Ended DEF CallerTimeout, Abandon, budgetVars

(* The handler moves on. *)
LEMMA MovesOn ==
  ASSUME IInv, NEW w \in Workloads, NEW stage \in {"nix", "closure"}, Goto(w, stage),
         handler[w] # "none",
         UNCHANGED <<profile, orphans, operatorRestarts>>,
         profile[w].admission = "admitted",
         stage = "nix" => elapsed[w] <= MaxLag,
         stage = "closure" => profile[w].nix.least <= elapsed[w]
  PROVE  IInv'
<1>1. TypeInv /\ EvalAt(w)
  BY DEF IInv
<1>2. stage \in Handlers
  BY DEF Handlers
<1>3. TypeInv'
  BY <1>1, <1>2 DEF TypeInv, Goto
<1>4. /\ call'[w] = call[w] /\ elapsed'[w] = elapsed[w] /\ handler'[w] = stage
      /\ age'[w] = 0 /\ profile'[w] = profile[w] /\ orphans'[w] = orphans[w]
  BY <1>1 DEF TypeInv, Goto
<1>5. elapsed[w] \in Nat /\ operatorRestarts \in Nat /\ profile[w].nix.least \in Nat
      /\ profile[w].nix.most \in Nat /\ MaxLag \in Nat
  BY <1>1, Types
<1>6. AgesOK(w)' /\ SpacedOK(w)'
  <2>1. elapsed'[w] <= elapsed[w] /\ operatorRestarts <= operatorRestarts'
    BY <1>4, <1>5
  <2> QED BY <1>1, <1>3, <1>4, <2>1, SameOrphans
<1>7. ClockOK(w)' /\ DoneOK(w)'
  BY <1>1, <1>4, <1>5 DEF EvalAt, ClockOK, DoneOK
<1>8. EvalAt(w)'
  BY <1>6, <1>7 DEF EvalAt
<1>9. \A v \in Workloads \ {w} : Still(v)
  BY <1>1 DEF Still, TypeInv, Goto
<1> QED BY <1>3, <1>8, <1>9, OneMoves

(* validate_eval_request and the allowlist. *)
LEMMA AdmitStep ==
  ASSUME IInv, NEW w \in Workloads, Admit(w) PROVE IInv'
<1>1. /\ handler[w] = "queued" /\ elapsed[w] <= MaxLag
      /\ profile[w].admission \in {"admitted", "InvalidInput", "FlakeNotAllowed"}
      /\ UNCHANGED <<profile, orphans, operatorRestarts>>
  BY DEF Admit, IInv, TypeInv, EvalAt, ClockOK, ProfileType, budgetVars
<1>2. CASE profile[w].admission = "admitted" /\ Goto(w, "nix")
  BY <1>1, <1>2, MovesOn
<1>3. CASE profile[w].admission # "admitted" /\ Answer(w, profile[w].admission)
  <2>1. profile[w].admission \in Errors \cup {"done"} /\ profile[w].admission # "done"
    BY <1>1, <1>3 DEF Errors
  <2> QED BY <1>1, <1>3, <2>1, Ended DEF Answer
<1> QED BY <1>2, <1>3 DEF Admit

(* The nix subprocess ends. *)
LEMMA NixExitsStep ==
  ASSUME IInv, NEW w \in Workloads, NixExits(w) PROVE IInv'
<1>1. /\ handler[w] = "nix" /\ profile[w].nix.least <= age[w]
      /\ profile[w].admission = "admitted" /\ age[w] <= elapsed[w]
      /\ UNCHANGED <<profile, orphans, operatorRestarts>>
  BY DEF NixExits, In, IInv, EvalAt, ClockOK, budgetVars
<1>2. CASE Goto(w, "closure")
  <2>1. profile[w].nix.least <= elapsed[w]
    BY <1>1, Types DEF IInv
  <2> QED BY <1>1, <1>2, <2>1, MovesOn
<1>3. ASSUME NEW outcome \in {"EvalFailed", "InternalError"}, Answer(w, outcome)
      PROVE  IInv'
  <2>1. outcome \in Errors \cup {"done"} /\ outcome # "done"
    BY DEF Errors
  <2> QED BY <1>1, <1>3, <2>1, Ended DEF Answer
<1> QED BY <1>2, <1>3 DEF NixExits

(* The subprocess outlives its timeout. *)
LEMMA NixTimeoutStep ==
  ASSUME IInv, NEW w \in Workloads, NixTimeout(w) PROVE IInv'
<1>1. handler[w] = "nix" /\ EvalTimeout <= age[w] /\ age[w] <= elapsed[w]
  BY Types, TimesAssumption DEF NixTimeout, IInv, EvalAt, ClockOK
<1>2. EvalTimeout <= elapsed[w]
  BY <1>1, Types DEF IInv
<1>3. "EvalTimeout" \in Errors \cup {"done"} /\ "EvalTimeout" # "done"
  BY DEF Errors
<1> QED BY <1>2, <1>3, Ended DEF NixTimeout, Answer, budgetVars

(* The closure is resolved within the request's time, or fails. *)
LEMMA ClosureStep ==
  ASSUME IInv, NEW w \in Workloads, Resolved(w) \/ ResolveFails(w) PROVE IInv'
<1>1. handler[w] = "closure" /\ UNCHANGED <<profile, orphans, operatorRestarts>>
  BY DEF Resolved, ResolveFails, budgetVars
<1>2. CASE Resolved(w)
  <2>1. /\ profile[w].admission = "admitted" /\ profile[w].closure.least <= age[w]
        /\ profile[w].nix.least + age[w] <= elapsed[w] /\ elapsed[w] <= EvalTimeout
    BY <1>1, <1>2 DEF Resolved, In, IInv, EvalAt, ClockOK
  <2>2. profile[w].nix.least + profile[w].closure.least <= EvalTimeout
    BY <2>1, Types DEF IInv
  <2>3. Answer(w, "done")
    BY <1>2 DEF Resolved
  <2> QED BY <1>1, <2>1, <2>2, <2>3, Ended DEF Answer
<1>3. CASE ResolveFails(w)
  <2>1. "ClosureResolutionFailed" \in Errors \cup {"done"}
        /\ "ClosureResolutionFailed" # "done"
    BY DEF Errors
  <2> QED BY <1>1, <1>3, <2>1, Ended DEF ResolveFails, Answer
<1> QED BY <1>2, <1>3

-----------------------------------------------------------------------------
(* Every step preserves the invariant: processes, restarts and time *)

(* Two lists, one after the other. *)
LEMMA Joined ==
  ASSUME NEW p \in Seq(Nat), NEW q \in Seq(Nat)
  PROVE  /\ p \o q \in Seq(Nat) /\ Len(p \o q) = Len(p) + Len(q)
         /\ \A i \in 1..Len(p) : (p \o q)[i] = p[i]
         /\ \A i \in Len(p) + 1..Len(p) + Len(q) : (p \o q)[i] = q[i - Len(p)]
OBVIOUS

(* A list without its k-th element, by its positions. *)
LEMMA Removed ==
  ASSUME NEW s \in Seq(Nat), NEW k \in 1..Len(s)
  PROVE  LET t == RemoveAt(s, k)
         IN  /\ t \in Seq(Nat) /\ Len(t) = Len(s) - 1
             /\ \A i \in 1..Len(s) - 1 : t[i] = IF i < k THEN s[i] ELSE s[i + 1]
<1> DEFINE n == Len(s)
           p == SubSeq(s, 1, k - 1)
           q == SubSeq(s, k + 1, n)
           t == p \o q
<1>1. n \in Nat /\ k \in 1..n
  OBVIOUS
<1>2. /\ p \in Seq(Nat) /\ Len(p) = k - 1
      /\ \A i \in 1..k - 1 : p[i] = s[i]
  BY <1>1
<1>3. /\ q \in Seq(Nat) /\ Len(q) = n - k
      /\ \A i \in 1..n - k : q[i] = s[k + i]
  BY <1>1
<1>4. RemoveAt(s, k) = t
  BY DEF RemoveAt
<1> HIDE DEF p, q
<1>5. /\ t \in Seq(Nat) /\ Len(t) = Len(p) + Len(q)
      /\ \A i \in 1..Len(p) : t[i] = p[i]
      /\ \A i \in Len(p) + 1..Len(p) + Len(q) : t[i] = q[i - Len(p)]
  BY ONLY <1>2, <1>3, Joined
<1> HIDE DEF t, n
<1>6. Len(t) = n - 1
  BY <1>1, <1>2, <1>3, <1>5
<1>7. ASSUME NEW i \in 1..n - 1 PROVE t[i] = IF i < k THEN s[i] ELSE s[i + 1]
  <2>1. CASE i < k
    <3>1. i \in 1..k - 1 /\ i \in 1..Len(p)
      BY <1>1, <1>2, <2>1
    <3> QED BY <1>2, <1>5, <2>1, <3>1
  <2>2. CASE ~(i < k)
    <3>1. /\ i \in Len(p) + 1..Len(p) + Len(q) /\ i - Len(p) \in 1..n - k
          /\ k + (i - Len(p)) = i + 1
      BY <1>1, <1>2, <1>3, <2>2
    <3>2. t[i] = q[i - Len(p)] /\ q[i - Len(p)] = s[k + (i - Len(p))]
      BY <1>3, <1>5, <3>1
    <3> QED BY <2>2, <3>1, <3>2
  <2> QED BY <2>1, <2>2
<1> QED BY <1>4, <1>5, <1>6, <1>7 DEF n

(* A process without a handler ends: those before it have one fewer after  *)
(* them, those after it as many as before.                                 *)
LEMMA OrphanExitsStep ==
  ASSUME IInv, NEW w \in Workloads, OrphanExits(w) PROVE IInv'
<1>0. PICK k \in 1..Len(orphans[w]) : orphans' = [orphans EXCEPT ![w] = RemoveAt(@, k)]
  BY DEF OrphanExits
<1> DEFINE n == Len(orphans[w])
           rest == RemoveAt(orphans[w], k)
           Was(i) == IF i < k THEN i ELSE i + 1
<1>1. TypeInv /\ EvalAt(w)
  BY DEF IInv
<1>2. /\ orphans[w] \in Seq(Nat) /\ n \in Nat /\ k \in 1..n /\ operatorRestarts \in Nat
      /\ EvalTimeout \in Nat /\ MaxLag \in Nat /\ elapsed[w] \in Nat
  BY <1>1, Types
<1>3. /\ rest \in Seq(Nat) /\ Len(rest) = n - 1
      /\ \A i \in 1..(n - 1) : rest[i] = IF i < k THEN orphans[w][i] ELSE orphans[w][i + 1]
  BY <1>2, Removed
<1>4. /\ orphans'[w] = rest /\ profile'[w] = profile[w] /\ call'[w] = call[w]
      /\ elapsed'[w] = elapsed[w] /\ handler'[w] = handler[w] /\ age'[w] = age[w]
      /\ operatorRestarts' = operatorRestarts
  BY <1>0, <1>1 DEF TypeInv, OrphanExits, budgetVars
<1>5. TypeInv'
  BY <1>0, <1>1, <1>3 DEF TypeInv, OrphanExits, budgetVars
<1>6. \A i \in 1..(n - 1) : Was(i) \in 1..n /\ rest[i] = orphans[w][Was(i)]
  <2> HIDE DEF n, rest
  <2>1. ASSUME NEW i \in 1..(n - 1) PROVE Was(i) \in 1..n /\ rest[i] = orphans[w][Was(i)]
    <3>1. CASE i < k
      BY <1>2, <1>3, <3>1
    <3>2. CASE ~(i < k)
      BY <1>2, <1>3, <3>2
    <3> QED BY <3>1, <3>2
  <2> QED BY <2>1
<1>7. ASSUME NEW i \in 1..(n - 1)
      PROVE  Since(w, i)' \in Int /\ Since(w, Was(i)) \in Int /\ Since(w, i)' <= Since(w, Was(i))
  <2>1. /\ Since(w, i)' = (n - 1) - i + 1 - operatorRestarts
        /\ Since(w, Was(i)) = n - Was(i) + 1 - operatorRestarts
    BY <1>3, <1>4 DEF Since
  <2> DEFINE now == Since(w, i)'
             was == Since(w, Was(i))
             a == Was(i)
  <2>2. a \in Int /\ a <= i + 1
    BY <1>2
  <2>3. now = (n - 1) - i + 1 - operatorRestarts /\ was = n - a + 1 - operatorRestarts
    BY <2>1
  <2> HIDE DEF n, a, now, was
  <2>4. now \in Int /\ was \in Int /\ now <= was
    BY <1>2, <2>2, <2>3
  <2> QED BY <2>4 DEF now, was
<1>8. SpacedOK(w)'
  <2>1. \A i \in 1..n : EvalTimeout * Since(w, i) + elapsed[w] <= orphans[w][i] + MaxLag
    BY <1>1 DEF EvalAt, SpacedOK
  <2>2. \A i \in 1..n : orphans[w][i] \in Nat
    BY <1>2, AgeType
  <2> HIDE DEF n, rest
  <2>3. ASSUME NEW i \in 1..(n - 1)
        PROVE  EvalTimeout * Since(w, i)' + elapsed[w] <= rest[i] + MaxLag
    <3> DEFINE b == Since(w, Was(i))
               j == Since(w, i)'
               o == orphans[w][Was(i)]
    <3>1. b \in Int /\ j \in Int /\ j <= b /\ o \in Nat /\ rest[i] = o
      BY <1>6, <1>7, <2>2
    <3>2. EvalTimeout * b + elapsed[w] <= o + MaxLag
      BY <1>6, <2>1
    <3>3. elapsed[w] <= elapsed[w]
      BY <1>2
    <3> HIDE DEF b, j, o
    <3>4. EvalTimeout * j + elapsed[w] <= o + MaxLag
      BY <1>2, <3>1, <3>2, <3>3, Affordable
    <3> QED BY <3>1, <3>4 DEF j
  <2> QED BY <1>3, <1>4, <2>3 DEF SpacedOK
<1>9. AgesOK(w)'
  <2>1. \A i \in 1..n :
          /\ orphans[w][i] <= profile[w].nix.most
          /\ handler[w] = "nix" => age[w] <= orphans[w][i]
          /\ \A j \in 1..n : i < j => orphans[w][j] <= orphans[w][i]
    BY <1>1 DEF EvalAt, AgesOK
  <2> HIDE DEF n, rest
  <2>2. ASSUME NEW i \in 1..(n - 1)
        PROVE  /\ rest[i] <= profile[w].nix.most
               /\ handler[w] = "nix" => age[w] <= rest[i]
               /\ \A j \in 1..(n - 1) : i < j => rest[j] <= rest[i]
    <3>1. \A j \in 1..(n - 1) : i < j => Was(i) < Was(j)
      BY <1>2
    <3> HIDE DEF Was
    <3> QED BY <1>6, <2>1, <3>1
  <2> QED BY <1>3, <1>4, <2>2 DEF AgesOK
<1>10. ClockOK(w)' /\ DoneOK(w)'
  BY <1>1, <1>4 DEF EvalAt, ClockOK, DoneOK
<1>11. EvalAt(w)'
  BY <1>8, <1>9, <1>10 DEF EvalAt
<1>12. \A v \in Workloads \ {w} : Still(v)
  BY <1>0, <1>1 DEF Still, TypeInv, OrphanExits, budgetVars
<1> QED BY <1>4, <1>5, <1>11, <1>12, OneMoves

(* niphas-eval restarts, and no process survives. *)
LEMMA RestartStep ==
  ASSUME IInv, Restart PROVE IInv'
<1>1. TypeInv
  BY DEF IInv
<1>2. TypeInv'
  BY <1>1 DEF TypeInv, Restart, Calls, Errors, Handlers
<1>3. ASSUME NEW w \in Workloads PROVE EvalAt(w)'
  <2>1. /\ elapsed'[w] = 0 /\ handler'[w] = "none" /\ orphans'[w] = <<>>
        /\ call'[w] = IF call[w] = "waiting" THEN "RequestFailed" ELSE call[w]
        /\ profile'[w] = profile[w]
    BY DEF Restart
  <2>2. Len(orphans'[w]) = 0
    BY <2>1
  <2>3. DoneOK(w) /\ EvalAt(w)
    BY DEF IInv, EvalAt
  <2> QED BY <2>1, <2>2, <2>3, TimesAssumption DEF EvalAt, ClockOK, DoneOK, AgesOK, SpacedOK
<1> QED BY <1>2, <1>3 DEF IInv

(* The operator restarts; the handlers' nix processes stay. *)
LEMMA OperatorRestartStep ==
  ASSUME IInv, OperatorRestart PROVE IInv'
<1>1. TypeInv
  BY DEF IInv
<1>2. \A w \in Workloads : Orphaned(w) \in Seq(Nat)
  BY <1>1 DEF TypeInv, Orphaned
<1>3. TypeInv'
  BY <1>1, <1>2 DEF TypeInv, OperatorRestart, Calls, Handlers
<1>4. ASSUME NEW w \in Workloads PROVE EvalAt(w)'
  <2>1. /\ elapsed'[w] = 0 /\ handler'[w] = "none" /\ orphans'[w] = Orphaned(w)
        /\ call'[w] = IF call[w] = "waiting" THEN "due" ELSE call[w]
        /\ profile'[w] = profile[w] /\ operatorRestarts' = operatorRestarts + 1
    BY DEF OperatorRestart
  <2>2. EvalAt(w)
    BY DEF IInv
  <2>3. elapsed[w] \in Nat /\ operatorRestarts \in Nat
    BY <1>1, Types
  <2>4. AgesOK(w)' /\ SpacedOK(w)'
    <3>1. CASE handler[w] = "nix"
      BY <1>1, <1>3, <2>1, <2>2, <3>1, MoreOrphans DEF Orphaned
    <3>2. CASE handler[w] # "nix"
      <4>1. orphans'[w] = orphans[w]
        BY <2>1, <3>2 DEF Orphaned
      <4>2. elapsed'[w] <= elapsed[w] /\ operatorRestarts <= operatorRestarts'
        BY <2>1, <2>3
      <4> QED BY <1>1, <1>3, <2>1, <2>2, <4>1, <4>2, SameOrphans
    <3> QED BY <3>1, <3>2
  <2>5. ClockOK(w)' /\ DoneOK(w)'
    BY <2>1, <2>2, TimesAssumption DEF EvalAt, ClockOK, DoneOK
  <2> QED BY <2>4, <2>5 DEF EvalAt
<1> QED BY <1>3, <1>4 DEF IInv

(* A tick of the clock: nothing that is due is passed over. *)
LEMMA TickStep ==
  ASSUME IInv, Tick PROVE IInv'
<1>1. TypeInv /\ UNCHANGED <<profile, call, handler, operatorRestarts>>
  BY DEF IInv, Tick, budgetVars
<1>2. ASSUME NEW w \in Workloads
      PROVE  /\ orphans'[w] \in Seq(Nat) /\ Len(orphans'[w]) = Len(orphans[w])
             /\ \A i \in 1..Len(orphans[w]) : orphans'[w][i] = orphans[w][i] + 1
  <2>1. orphans[w] \in Seq(Nat)
    BY <1>1, Types
  <2>2. orphans'[w] = [i \in DOMAIN orphans[w] |-> orphans[w][i] + 1]
    BY DEF Tick
  <2>3. DOMAIN orphans[w] = 1..Len(orphans[w]) /\ Len(orphans[w]) \in Nat
        /\ \A i \in 1..Len(orphans[w]) : orphans[w][i] + 1 \in Nat
    BY <2>1
  <2> QED BY <2>2, <2>3
<1>3. TypeInv'
  <2>1. orphans' \in [Workloads -> Seq(Nat)]
    <3>1. DOMAIN orphans' = Workloads
          /\ orphans' = [w \in DOMAIN orphans' |-> orphans'[w]]
      BY DEF Tick
    <3> QED BY <1>2, <3>1
  <2>2. elapsed' \in [Workloads -> Nat] /\ age' \in [Workloads -> Nat]
    BY <1>1 DEF Tick, TypeInv
  <2> QED BY <1>1, <2>1, <2>2 DEF TypeInv
<1>4. ASSUME NEW w \in Workloads PROVE EvalAt(w)'
  <2>1. EvalAt(w) /\ ~Overdue(w)
    BY DEF IInv, Tick
  <2>2. /\ orphans[w] \in Seq(Nat) /\ Len(orphans[w]) \in Nat
        /\ elapsed[w] \in Nat /\ age[w] \in Nat
        /\ profile[w].nix.least \in Nat /\ profile[w].nix.most \in Nat
        /\ EvalTimeout \in Nat /\ MaxLag \in Nat
    BY <1>1, Types
  <2>3. /\ elapsed'[w] = IF call[w] = "waiting" THEN elapsed[w] + 1 ELSE 0
        /\ age'[w] = IF handler[w] \in {"nix", "closure"} THEN age[w] + 1 ELSE 0
        /\ call'[w] = call[w] /\ handler'[w] = handler[w] /\ profile'[w] = profile[w]
    BY <1>1 DEF Tick
  <2>4. ClockOK(w)'
    <3>1. ClockOK(w)
      BY <2>1 DEF EvalAt
    <3>2. /\ call[w] = "waiting" => elapsed[w] < EvalTimeout
          /\ handler[w] = "queued" => elapsed[w] < MaxLag
          /\ handler[w] = "nix" => age[w] < profile[w].nix.most
      BY <2>1, <2>2 DEF Overdue, TimedOut
    <3>3. CASE call[w] # "waiting"
      BY <2>3, <3>1, <3>3, TimesAssumption DEF ClockOK
    <3>4. CASE call[w] = "waiting"
      <4>1. /\ elapsed'[w] = elapsed[w] + 1 /\ elapsed'[w] <= EvalTimeout
            /\ handler[w] = "queued" => elapsed'[w] <= MaxLag
        BY <2>2, <2>3, <3>2, <3>4
      <4>2. handler[w] = "nix" =>
              /\ profile[w].admission = "admitted" /\ age'[w] <= profile[w].nix.most
              /\ age'[w] <= elapsed'[w] /\ elapsed'[w] <= age'[w] + MaxLag
        <5> SUFFICES ASSUME handler[w] = "nix"
                     PROVE  /\ profile[w].admission = "admitted"
                            /\ age'[w] <= profile[w].nix.most
                            /\ age'[w] <= elapsed'[w] /\ elapsed'[w] <= age'[w] + MaxLag
          OBVIOUS
        <5>1. /\ profile[w].admission = "admitted" /\ age[w] < profile[w].nix.most
              /\ age[w] <= elapsed[w] /\ elapsed[w] <= age[w] + MaxLag
          BY <3>1, <3>2 DEF ClockOK
        <5>2. age'[w] = age[w] + 1
          BY <2>3
        <5> DEFINE a == age[w]
                   e == elapsed[w]
                   m == profile[w].nix.most
        <5>3. /\ a \in Nat /\ e \in Nat /\ m \in Nat /\ MaxLag \in Nat
              /\ a < m /\ a <= e /\ e <= a + MaxLag
          BY <2>2, <5>1
        <5>4. a + 1 <= m /\ a + 1 <= e + 1 /\ e + 1 <= (a + 1) + MaxLag
          <6> HIDE DEF a, e, m
          <6> QED BY <5>3
        <5> QED BY <4>1, <5>1, <5>2, <5>4
      <4>3. handler[w] = "closure" =>
              /\ profile[w].admission = "admitted"
              /\ profile[w].nix.least + age'[w] <= elapsed'[w]
        BY <2>2, <2>3, <3>1, <4>1 DEF ClockOK
      <4> QED BY <2>3, <3>4, <4>1, <4>2, <4>3 DEF ClockOK
    <3> QED BY <3>3, <3>4
  <2>5. DoneOK(w)'
    BY <2>1, <2>3 DEF EvalAt, DoneOK
  <2>6. AgesOK(w)'
    <3>1. \A i \in 1..Len(orphans[w]) : orphans[w][i] < profile[w].nix.most
      <4>1. ASSUME NEW i \in 1..Len(orphans[w]) PROVE orphans[w][i] < profile[w].nix.most
        <5> DEFINE o == orphans[w][i]
                   m == profile[w].nix.most
        <5>1. ~(o >= m)
          BY <2>1 DEF Overdue
        <5>2. o \in Nat /\ m \in Nat
          BY <2>2, AgeType
        <5>3. o < m
          <6> HIDE DEF o, m
          <6> QED BY <5>1, <5>2
        <5> QED BY <5>3
      <4> QED BY <4>1
    <3>2. \A i \in 1..Len(orphans[w]) : orphans[w][i] \in Nat
      BY <2>2, AgeType
    <3>3. ASSUME NEW i \in 1..Len(orphans[w])
          PROVE  /\ orphans'[w][i] <= profile'[w].nix.most
                 /\ handler'[w] = "nix" => age'[w] <= orphans'[w][i]
                 /\ \A j \in 1..Len(orphans[w]) : i < j => orphans'[w][j] <= orphans'[w][i]
      <4>1. /\ handler[w] = "nix" => age[w] <= orphans[w][i]
            /\ \A j \in 1..Len(orphans[w]) : i < j => orphans[w][j] <= orphans[w][i]
        BY <2>1 DEF EvalAt, AgesOK
      <4>2. /\ orphans'[w][i] = orphans[w][i] + 1
            /\ \A j \in 1..Len(orphans[w]) : orphans'[w][j] = orphans[w][j] + 1
        BY <1>2
      <4> DEFINE o == orphans[w][i]
      <4>3. o \in Nat /\ o < profile[w].nix.most
        BY <3>1, <3>2
      <4>4. o + 1 <= profile[w].nix.most
        <5> HIDE DEF o
        <5> QED BY <2>2, <4>3
      <4>5. ASSUME handler[w] = "nix" PROVE age'[w] <= o + 1
        <5>1. age[w] <= o /\ age'[w] = age[w] + 1
          BY <2>3, <4>1, <4>5
        <5> HIDE DEF o
        <5> QED BY <2>2, <4>3, <5>1
      <4>6. ASSUME NEW j \in 1..Len(orphans[w]), i < j
            PROVE  orphans[w][j] + 1 <= o + 1
        <5> DEFINE b == orphans[w][j]
        <5>1. b \in Nat /\ b <= o
          BY <3>2, <4>1, <4>6
        <5> HIDE DEF o, b
        <5>2. b + 1 <= o + 1
          BY <4>3, <5>1
        <5> QED BY <5>2 DEF b
      <4> QED BY <2>3, <4>2, <4>4, <4>5, <4>6
    <3> QED BY <1>2, <3>3 DEF AgesOK
  <2>7. SpacedOK(w)'
    <3>1. ASSUME NEW i \in 1..Len(orphans[w])
          PROVE  EvalTimeout * Since(w, i)' + elapsed'[w] <= orphans'[w][i] + MaxLag
      <4> DEFINE A == EvalTimeout * Since(w, i)
                 o == orphans[w][i]
      <4>1. operatorRestarts \in Nat /\ i \in Nat /\ o \in Nat
        BY <1>1, Types, AgeType
      <4>2. Since(w, i)' = Since(w, i) /\ Since(w, i) \in Int
        <5>1. Len(orphans'[w]) = Len(orphans[w]) /\ operatorRestarts' = operatorRestarts
          BY <1>1, <1>2
        <5>2. Since(w, i)' = Since(w, i)
          BY <5>1 DEF Since
        <5>3. Since(w, i) \in Int
          BY <2>2, <4>1 DEF Since
        <5> QED BY <5>2, <5>3
      <4>3. A \in Int
        BY <2>2, <4>2
      <4>4. A + elapsed[w] <= o + MaxLag
        BY <2>1 DEF EvalAt, SpacedOK
      <4>5. orphans'[w][i] = o + 1
        BY <1>2
      <4> HIDE DEF A, o
      <4>6. elapsed'[w] \in Nat /\ elapsed'[w] <= elapsed[w] + 1
        BY <2>2, <2>3
      <4>7. A + elapsed'[w] <= orphans'[w][i] + MaxLag
        BY <2>2, <4>1, <4>3, <4>4, <4>5, <4>6
      <4> QED BY <4>2, <4>7 DEF A
    <3> QED BY <1>2, <3>1 DEF SpacedOK
  <2> QED BY <2>4, <2>5, <2>6, <2>7 DEF EvalAt
<1> QED BY <1>3, <1>4 DEF IInv

-----------------------------------------------------------------------------
(* The theorems *)

(* Nothing was asked for yet. *)
LEMMA InitIInv == Init => IInv
<1> SUFFICES ASSUME Init PROVE IInv
  OBVIOUS
<1>1. TypeInv
  BY ProfilesAssumption DEF Init, TypeInv, Calls, Handlers
<1>2. ASSUME NEW w \in Workloads PROVE EvalAt(w)
  <2>1. /\ call[w] = "due" /\ elapsed[w] = 0 /\ handler[w] = "none" /\ orphans[w] = <<>>
    BY DEF Init
  <2>2. Len(orphans[w]) = 0
    BY <2>1
  <2> QED BY <2>1, <2>2, TimesAssumption DEF EvalAt, ClockOK, DoneOK, AgesOK, SpacedOK
<1> QED BY <1>1, <1>2 DEF IInv

(* Every step of the operator, the service and the clock preserves it. *)
LEMMA NextIInv == IInv /\ [Next]_vars => IInv'
<1> SUFFICES ASSUME IInv, [Next]_vars PROVE IInv'
  OBVIOUS
<1>1. CASE UNCHANGED vars
  <2>1. TypeInv' /\ operatorRestarts' = operatorRestarts
    BY <1>1 DEF vars, IInv, TypeInv
  <2>2. \A w \in Workloads : Still(w)
    BY <1>1 DEF vars, Still
  <2> QED BY <2>1, <2>2, StillKept DEF IInv
<1>2. ASSUME NEW w \in Workloads, Step(w) PROVE IInv'
  BY <1>2, CallStep, CallerTimeoutStep, AdmitStep, NixExitsStep, NixTimeoutStep,
     ClosureStep, OrphanExitsStep DEF Step
<1> QED BY <1>1, <1>2, RestartStep, OperatorRestartStep, TickStep DEF Next

(***************************************************************************)
(* The invariant: the request's clock covers nix and closure together, and *)
(* every process left behind has seen a whole timeout for each process     *)
(* after it that no restart of the operator cut short.                     *)
(***************************************************************************)
THEOREM EvalInvariant == Spec => []IInv
BY InitIInv, NextIInv, PTL DEF Spec

(***************************************************************************)
(* call_eval_webhook: whatever the timeouts and however the times of the   *)
(* attempts differ, a flake whose fastest evaluation and fastest closure   *)
(* do not fit into the one timeout together is never done.                 *)
(***************************************************************************)
THEOREM DoneTheorem == Spec => []DoneOnlyIfBothFit
<1>1. IInv => DoneOnlyIfBothFit
  BY DEF IInv, EvalAt, DoneOK, DoneOnlyIfBothFit
<1> QED BY <1>1, EvalInvariant, PTL

(***************************************************************************)
(* nix_eval: the processes of one workload that nobody waits for are never *)
(* more than the timeouts that fit into its longest life, and one for each *)
(* restart of the operator.                                                *)
(***************************************************************************)
THEOREM ProcessesTheorem == Spec => []ProcessesBounded
<1>1. ASSUME IInv PROVE ProcessesBounded
  <2> SUFFICES ASSUME NEW w \in Workloads
               PROVE  Len(Orphaned(w)) <= 1 + (profile[w].nix.most + MaxLag) \div EvalTimeout
                                            + operatorRestarts
    BY DEF ProcessesBounded
  <2> DEFINE n == Len(orphans[w])
             m == profile[w].nix.most + MaxLag
             q == m \div EvalTimeout
  <2>1. /\ orphans[w] \in Seq(Nat) /\ n \in Nat /\ operatorRestarts \in Nat
        /\ profile[w].nix.most \in Nat /\ MaxLag \in Nat /\ elapsed[w] \in Nat
        /\ age[w] \in Nat
    BY <1>1, Types DEF IInv
  <2>2. m \in Nat /\ EvalTimeout \in Nat \ {0}
    BY <2>1, TimesAssumption
  <2>3. Len(Orphaned(w)) <= n + 1
    BY <2>1 DEF Orphaned
  <2>4. Len(Orphaned(w)) \in Nat
    BY <2>1 DEF Orphaned
  <2>5. q \in Nat
    BY <2>2
  <2>6. n - operatorRestarts <= q
    <3>1. CASE n = 0
      BY <2>1, <2>5, <3>1
    <3>2. CASE n # 0
      <4> DEFINE k == Since(w, 1)
                 o == orphans[w][1]
      <4>1. 1 \in 1..n
        BY <2>1, <3>2
      <4>2. EvalTimeout * k + elapsed[w] <= o + MaxLag /\ o <= profile[w].nix.most
        BY <1>1, <4>1 DEF IInv, EvalAt, SpacedOK, AgesOK
      <4>3. o \in Nat
        BY <2>1, <4>1
      <4>4. k = n - operatorRestarts /\ k \in Int
        BY <2>1 DEF Since
      <4> DEFINE A == EvalTimeout * k
      <4>5. A \in Int /\ A + elapsed[w] <= o + MaxLag
        BY <2>2, <4>2, <4>4
      <4> HIDE DEF k, o, A
      <4>6. A <= m
        BY <2>1, <4>2, <4>3, <4>5
      <4> HIDE DEF m
      <4>7. k <= m \div EvalTimeout
        BY <2>2, <4>4, <4>6, AtMostQuotient DEF A
      <4> QED BY <4>4, <4>7
    <3> QED BY <3>1, <3>2
  <2> HIDE DEF n, q
  <2>7. Len(Orphaned(w)) <= 1 + q + operatorRestarts
    BY <2>1, <2>3, <2>4, <2>5, <2>6
  <2> QED BY <2>7 DEF q
<1>2. IInv => ProcessesBounded
  BY <1>1
<1> QED BY <1>2, EvalInvariant, PTL
=============================================================================
