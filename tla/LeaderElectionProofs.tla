------------------------ MODULE LeaderElectionProofs ------------------------
(***************************************************************************)
(* Theorems about leader election, for every number of processes and every *)
(* TTL, interval, failure limit and call time.                             *)
(***************************************************************************)
EXTENDS LeaderElection, TLAPS

-----------------------------------------------------------------------------
(* The inductive invariant *)

(* How stale a lease may be when the renewer goes to sleep after n errors. *)
Budget(n) == MaxCall + n * (Interval + MaxCall)

(* The clocks of one process, for every place it can be at. *)
Timing(p) ==
  /\ fails[p] <= faults
  /\ pc[p] \in {"acquire", "wait"} => fails[p] = 0
  /\ pc[p] \in {"lead", "renew"} => fails[p] < MaxRenewFailures
  /\ pc[p] \in Calling => timer[p] <= MaxCall
  /\ pc[p] = "lead" => timer[p] <= Interval /\ since[p] <= Budget(fails[p]) + timer[p]
  /\ pc[p] = "renew" => since[p] <= Budget(fails[p]) + Interval + timer[p]
  /\ pc[p] = "stopping" => /\ since[p] <= Patience
                           /\ since[p] <= Budget(fails[p]) + Interval + MaxCall
  /\ reply[p] = "acquired" => pc[p] \in Calling /\ since[p] <= timer[p]

(* Who took the lease less than a TTL ago still holds it. *)
Owns(p) ==
  (Running(p) \/ reply[p] = "acquired") /\ since[p] < TTL
    => holder = p /\ age = since[p]

IInv == TypeOK /\ \A p \in Processes : Timing(p) /\ Owns(p)

-----------------------------------------------------------------------------
(* Arithmetic of the budget *)

(* Multiplication by a fixed time is monotone. *)
LEMMA TimesMonotone ==
  ASSUME NEW m \in Nat, NEW n \in Nat, NEW k \in Nat, m <= n
  PROVE  m * k <= n * k
BY SMT

(* One more error costs one more sleep and one more call. *)
LEMMA BudgetFacts ==
  /\ \A n \in Nat : /\ Budget(n) \in Nat
                    /\ MaxCall <= Budget(n)
                    /\ Budget(n + 1) = Budget(n) + Interval + MaxCall
  /\ \A m, n \in Nat : m <= n => Budget(m) <= Budget(n)
  /\ Budget(0) = MaxCall
  /\ Patience = Budget(MaxRenewFailures)
  /\ Patience \in Nat
<1> DEFINE k == Interval + MaxCall
<1>1. k \in Nat /\ MaxCall \in Nat /\ MaxRenewFailures \in Nat /\ Interval \in Nat
  BY TimesAssumption
<1>2. ASSUME NEW n \in Nat
      PROVE  n * k \in Nat /\ (n + 1) * k = n * k + k /\ 0 * k = 0
  BY <1>1, SMT
<1>3. \A m, n \in Nat : m <= n => m * k <= n * k
  BY <1>1, TimesMonotone
<1>4. \A n \in Nat : Budget(n) = MaxCall + n * k
  BY DEF Budget
<1>5. Patience = MaxCall + MaxRenewFailures * k
  BY DEF Patience
<1> HIDE DEF k
<1>6. \A n \in Nat : Budget(n) \in Nat /\ MaxCall <= Budget(n)
  BY <1>1, <1>2, <1>4
<1>7. ASSUME NEW n \in Nat PROVE Budget(n + 1) = Budget(n) + Interval + MaxCall
  <2>1. Budget(n + 1) = MaxCall + (n * k + k)
    BY <1>2, <1>4
  <2>2. Budget(n) = MaxCall + n * k
    BY <1>4
  <2>3. n * k \in Nat
    BY <1>2
  <2> QED BY <1>1, <2>1, <2>2, <2>3 DEF k
<1>8. ASSUME NEW m \in Nat, NEW n \in Nat, m <= n PROVE Budget(m) <= Budget(n)
  BY <1>1, <1>2, <1>3, <1>4, <1>8
<1>9. Budget(0) = MaxCall
  BY <1>1, <1>2, <1>4
<1> QED BY <1>1, <1>4, <1>5, <1>6, <1>7, <1>8, <1>9

-----------------------------------------------------------------------------
(* Frames *)

(* The process-local variables stand still for q. *)
Still(q) ==
  /\ pc'[q] = pc[q] /\ timer'[q] = timer[q] /\ reply'[q] = reply[q]
  /\ fails'[q] = fails[q] /\ since'[q] = since[q]

(* A process that does not move keeps its clocks' invariant. *)
LEMMA TimingKept ==
  ASSUME IInv, NEW q \in Processes, Still(q), faults' \in Nat, faults <= faults'
  PROVE  Timing(q)'
<1>1. Timing(q) /\ fails[q] \in Nat /\ faults \in Nat
  BY TimesAssumption, LeaseBounds DEF IInv, TypeOK
<1> QED BY <1>1 DEF Timing, Still

(* It keeps the lease while nobody writes it. *)
LEMMA OwnsKept ==
  ASSUME IInv, NEW q \in Processes, Still(q), UNCHANGED <<holder, age>>
  PROVE  Owns(q)'
BY DEF IInv, Owns, Still, Running

(* One process moves, and the lease is not written. *)
LEMMA MoveKeepsInv ==
  ASSUME IInv, NEW p \in Processes, TypeOK', Timing(p)', Owns(p)',
         \A q \in Processes \ {p} : Still(q),
         UNCHANGED <<holder, age>>, faults <= faults'
  PROVE  IInv'
<1>1. faults' \in Nat
  BY LeaseBounds DEF TypeOK
<1>2. ASSUME NEW q \in Processes, q # p PROVE Timing(q)' /\ Owns(q)'
  BY <1>1, <1>2, TimingKept, OwnsKept
<1> QED BY <1>2 DEF IInv

(* What Goto leaves of the process that moves and of the others. *)
LEMMA GotoFacts ==
  ASSUME IInv, NEW p \in Processes, NEW label \in PCs, Goto(p, label)
  PROVE  /\ pc' \in [Processes -> PCs] /\ timer' \in [Processes -> Nat]
         /\ reply' \in [Processes -> {"none", "acquired", "refused"}]
         /\ pc'[p] = label /\ timer'[p] = 0 /\ reply'[p] = "none"
         /\ \A q \in Processes \ {p} :
              pc'[q] = pc[q] /\ timer'[q] = timer[q] /\ reply'[q] = reply[q]
BY DEF IInv, TypeOK, Goto

-----------------------------------------------------------------------------
(* Every step preserves the invariant *)

(* A call that starts, or a process that ends: nothing but pc and timer moves. *)
LEMMA StartStep ==
  ASSUME IInv, NEW p \in Processes, Start(p) PROVE IInv'
<1>1. Goto(p, "acquire") /\ "acquire" \in PCs
  BY DEF Start, PCs
<1>2. fails' = [fails EXCEPT ![p] = 0] /\ UNCHANGED <<holder, age, since, faults, crashes>>
  BY DEF Start
<1>3. TypeOK'
  BY <1>1, <1>2, GotoFacts, TimesAssumption DEF IInv, TypeOK
<1>4. Timing(p)'
  BY <1>1, <1>2, GotoFacts, TimesAssumption, LeaseBounds
     DEF IInv, TypeOK, Timing, Calling
<1>5. Owns(p)'
  BY <1>1, GotoFacts DEF Owns, Running
<1>6. \A q \in Processes \ {p} : Still(q)
  BY <1>1, <1>2, GotoFacts DEF Still, IInv, TypeOK
<1>7. faults <= faults'
  BY <1>2, LeaseBounds DEF IInv, TypeOK
<1> QED BY <1>2, <1>3, <1>4, <1>5, <1>6, <1>7, MoveKeepsInv

(* Shutdown and Kill end the controller and whatever call is in flight. *)
LEMMA EndStep ==
  ASSUME IInv, NEW p \in Processes, Shutdown(p) \/ Kill(p) PROVE IInv'
<1>1. Goto(p, "down") /\ "down" \in PCs
  BY DEF Shutdown, Kill, PCs
<1>2. UNCHANGED <<holder, age, fails, since, faults>>
  BY DEF Shutdown, Kill
<1>3. crashes' \in 0..MaxCrashes
  BY LeaseBounds DEF Shutdown, Kill, IInv, TypeOK
<1>4. TypeOK'
  BY <1>1, <1>2, <1>3, GotoFacts DEF IInv, TypeOK
<1>5. Timing(p)'
  BY <1>1, <1>2, GotoFacts DEF IInv, Timing, Calling
<1>6. Owns(p)'
  BY <1>1, GotoFacts DEF Owns, Running
<1>7. \A q \in Processes \ {p} : Still(q)
  BY <1>1, <1>2, GotoFacts DEF Still
<1>8. faults <= faults'
  BY <1>2, LeaseBounds DEF IInv, TypeOK
<1> QED BY <1>2, <1>4, <1>5, <1>6, <1>7, <1>8, MoveKeepsInv

(* The answer of an acquiring call: with the lease just taken, leading     *)
(* starts within the budget of no error.                                   *)
LEMMA AcquireAnsweredStep ==
  ASSUME IInv, NEW p \in Processes, AcquireAnswered(p) PROVE IInv'
<1>1. PICK label \in {"lead", "wait", "down"} :
        /\ Goto(p, label)
        /\ label = "lead" => reply[p] = "acquired"
  BY DEF AcquireAnswered
<1>2. label \in PCs
  BY DEF PCs
<1>3. UNCHANGED <<holder, age, fails, since, crashes>> /\ pc[p] = "acquire"
  BY DEF AcquireAnswered
<1>4. faults' \in 0..MaxFaults /\ faults <= faults'
  BY LeaseBounds DEF AcquireAnswered, Fault, IInv, TypeOK
<1>5. TypeOK'
  BY <1>1, <1>2, <1>3, <1>4, GotoFacts DEF IInv, TypeOK
<1>6. /\ fails[p] = 0 /\ timer[p] \in Nat /\ timer[p] <= MaxCall /\ since[p] \in Nat
      /\ label = "lead" => since[p] <= timer[p]
  BY <1>1, <1>3, BudgetFacts DEF IInv, TypeOK, Timing, Calling
<1>7. fails'[p] = 0 /\ since'[p] = since[p] /\ faults' \in Nat
  BY <1>3, <1>4, <1>6, LeaseBounds
<1>8. label = "lead" => since[p] <= Budget(0) + 0
  <2>1. Budget(0) = MaxCall /\ MaxCall \in Nat
    BY BudgetFacts, TimesAssumption
  <2> QED BY <1>6, <2>1
<1>9. Timing(p)'
  BY <1>1, <1>2, <1>7, <1>8, GotoFacts, TimesAssumption DEF Timing, Calling
<1>10. Owns(p)'
  BY <1>1, <1>2, <1>3, GotoFacts DEF IInv, Owns, Running
<1>11. \A q \in Processes \ {p} : Still(q)
  BY <1>1, <1>2, <1>3, GotoFacts DEF Still
<1> QED BY <1>3, <1>4, <1>5, <1>9, <1>10, <1>11, MoveKeepsInv

(* The end of a sleep. *)
LEMMA WakeStep ==
  ASSUME IInv, NEW p \in Processes, Retry(p) \/ Renew(p) PROVE IInv'
<1>1. PICK label \in Calling :
        /\ Goto(p, label)
        /\ label = "acquire" => pc[p] = "wait"
        /\ label = "renew" => pc[p] = "lead" /\ timer[p] = Interval
  BY DEF Retry, Renew, Calling
<1>2. label \in PCs
  BY DEF PCs, Calling
<1>3. UNCHANGED <<holder, age, fails, since, faults, crashes>>
  BY DEF Retry, Renew
<1>4. TypeOK'
  BY <1>1, <1>2, <1>3, GotoFacts DEF IInv, TypeOK
<1>5. fails[p] \in Nat /\ Budget(fails[p]) \in Nat /\ since[p] \in Nat /\ Interval \in Nat
  BY BudgetFacts, TimesAssumption DEF IInv, TypeOK
<1>6. label = "renew" => since[p] <= Budget(fails[p]) + Interval + 0
  BY <1>1, <1>5 DEF IInv, Timing
<1>7. Timing(p)'
  BY <1>1, <1>2, <1>3, <1>6, GotoFacts, TimesAssumption DEF IInv, Timing, Calling
<1>8. Owns(p)'
  BY <1>1, <1>2, <1>3, GotoFacts DEF IInv, Owns, Running, Calling
<1>9. \A q \in Processes \ {p} : Still(q)
  BY <1>1, <1>2, <1>3, GotoFacts DEF Still
<1>10. faults <= faults'
  BY <1>3, LeaseBounds DEF IInv, TypeOK
<1> QED BY <1>3, <1>4, <1>7, <1>8, <1>9, <1>10, MoveKeepsInv

(* The answer of a renewing call.  A renewal resets the budget, an error   *)
(* uses up one more sleep and call of it, and the last error or a refusal  *)
(* stops the controller.                                                   *)
LEMMA RenewAnsweredStep ==
  ASSUME IInv, NEW p \in Processes, RenewAnswered(p) PROVE IInv'
<1> DEFINE f == fails[p]
<1>1. /\ f \in Nat /\ f < MaxRenewFailures /\ f <= faults
      /\ since[p] \in Nat /\ timer[p] \in Nat /\ timer[p] <= MaxCall
      /\ since[p] <= Budget(f) + Interval + timer[p]
      /\ reply[p] = "acquired" => since[p] <= timer[p]
  BY BudgetFacts DEF RenewAnswered, IInv, TypeOK, Timing, Calling
<1>2. /\ MaxCall \in Nat /\ Interval \in Nat /\ MaxRenewFailures \in Nat
      /\ MaxFaults \in Nat /\ faults \in Nat
  BY TimesAssumption, LeaseBounds DEF IInv, TypeOK
<1>3. /\ Budget(f) \in Nat /\ Budget(f + 1) = Budget(f) + Interval + MaxCall
      /\ f + 1 <= MaxRenewFailures /\ f + 1 \in Nat
  BY <1>1, <1>2, BudgetFacts
<1>4. Budget(f + 1) <= Patience /\ Budget(0) = MaxCall /\ Patience \in Nat
  BY <1>2, <1>3, BudgetFacts
<1>5. since[p] <= Budget(f + 1) /\ since[p] <= Patience
  BY <1>1, <1>2, <1>3, <1>4
<1>6. UNCHANGED <<holder, age, since, crashes>> /\ pc[p] = "renew"
  BY DEF RenewAnswered
<1>7. ASSUME NEW label \in {"lead", "stopping"}, NEW n \in 0..MaxRenewFailures,
             Goto(p, label), fails' = [fails EXCEPT ![p] = n],
             faults' \in 0..MaxFaults, faults <= faults', n <= faults',
             label = "lead" => n < MaxRenewFailures /\ since[p] <= Budget(n),
             label = "stopping" => since[p] <= Budget(n) + Interval + MaxCall
      PROVE  IInv'
  <2>1. label \in PCs
    BY DEF PCs
  <2>2. fails' \in [Processes -> 0..MaxRenewFailures]
    BY <1>7 DEF IInv, TypeOK
  <2>3. TypeOK'
    BY <1>6, <1>7, <2>1, <2>2, GotoFacts DEF IInv, TypeOK
  <2>4. fails'[p] = n /\ \A q \in Processes \ {p} : fails'[q] = fails[q]
    BY <1>7 DEF IInv, TypeOK
  <2>5. n \in Nat /\ Budget(n) \in Nat
    <3>1. n \in Nat
      BY <1>2
    <3> QED BY <3>1, BudgetFacts
  <2>6. /\ pc'[p] = label /\ timer'[p] = 0 /\ reply'[p] = "none" /\ since'[p] = since[p]
    BY <1>6, <1>7, <2>1, GotoFacts
  <2>7. label = "lead" => since[p] <= Budget(n) + 0
    BY <1>7, <2>5
  <2>8. Timing(p)'
    BY <1>2, <1>5, <1>7, <2>4, <2>6, <2>7 DEF Timing, Calling
  <2>9. Owns(p)'
    BY <1>6, <2>6 DEF IInv, Owns, Running
  <2>10. \A q \in Processes \ {p} : Still(q)
    BY <1>6, <1>7, <2>1, <2>4, GotoFacts DEF Still
  <2> QED BY <1>6, <1>7, <2>3, <2>8, <2>9, <2>10, MoveKeepsInv
<1>8. CASE /\ reply[p] = "acquired" /\ fails' = [fails EXCEPT ![p] = 0]
           /\ Goto(p, "lead") /\ UNCHANGED faults
  <2>1. since[p] <= Budget(0)
    BY <1>1, <1>2, <1>4, <1>8
  <2>2. 0 \in 0..MaxRenewFailures /\ 0 < MaxRenewFailures /\ faults' \in 0..MaxFaults
        /\ faults <= faults' /\ 0 <= faults'
    BY <1>1, <1>2, <1>8 DEF IInv, TypeOK
  <2> QED BY <1>7, <1>8, <2>1, <2>2
<1>9. CASE reply[p] = "refused" /\ Goto(p, "stopping") /\ UNCHANGED <<fails, faults>>
  <2>1. fails' = [fails EXCEPT ![p] = f] /\ f \in 0..MaxRenewFailures
    BY <1>9 DEF IInv, TypeOK
  <2>2. faults' \in 0..MaxFaults /\ faults <= faults' /\ f <= faults'
    BY <1>1, <1>2, <1>9 DEF IInv, TypeOK
  <2>3. since[p] <= Budget(f) + Interval + MaxCall
    BY <1>3, <1>5
  <2> QED BY <1>7, <1>9, <2>1, <2>2, <2>3
<1>10. CASE /\ Fault
            /\ fails' = [fails EXCEPT ![p] = @ + 1]
            /\ Goto(p, IF fails[p] + 1 >= MaxRenewFailures THEN "stopping" ELSE "lead")
  <2>1. fails' = [fails EXCEPT ![p] = f + 1] /\ f + 1 \in 0..MaxRenewFailures
    BY <1>2, <1>3, <1>10 DEF IInv, TypeOK
  <2>2. faults' \in 0..MaxFaults /\ faults <= faults' /\ f + 1 <= faults'
    BY <1>1, <1>2, <1>10 DEF Fault
  <2>3. Budget(f + 1) \in Nat /\ since[p] <= Budget(f + 1) + Interval + MaxCall
    BY <1>1, <1>2, <1>3, <1>5
  <2>4. CASE f + 1 >= MaxRenewFailures
    BY <1>7, <1>10, <2>1, <2>2, <2>3, <2>4
  <2>5. CASE ~(f + 1 >= MaxRenewFailures)
    <3>1. f + 1 < MaxRenewFailures
      BY <1>2, <1>3, <2>5
    <3> QED BY <1>5, <1>7, <1>10, <2>1, <2>2, <2>5, <3>1
  <2> QED BY <2>4, <2>5
<1> QED BY <1>8, <1>9, <1>10 DEF RenewAnswered

(* The API server gives the lease only away when its holder's time is up,  *)
(* so no other process can own it any more.                                *)
LEMMA ServedStep ==
  ASSUME IInv, NEW p \in Processes, Served(p) PROVE IInv'
<1>1. pc[p] \in Calling /\ reply[p] = "none" /\ UNCHANGED <<pc, timer, fails, faults, crashes>>
  BY DEF Served
<1>2. CASE /\ Available(p)
           /\ holder' = p /\ age' = 0
           /\ reply' = [reply EXCEPT ![p] = "acquired"]
           /\ since' = [since EXCEPT ![p] = 0]
  <2>1. 0 \in 0..TTL /\ 0 \in 0..(Patience + 1) /\ Patience \in Nat
    BY TimesAssumption, BudgetFacts
  <2>2. TypeOK'
    BY <1>1, <1>2, <2>1 DEF IInv, TypeOK
  <2>3. since'[p] = 0 /\ reply'[p] = "acquired"
    BY <1>2 DEF IInv, TypeOK
  <2>4. \A q \in Processes \ {p} : Still(q)
    BY <1>1, <1>2 DEF Still, IInv, TypeOK
  <2>5. Timing(p)'
    <3>1. fails[p] \in Nat /\ Budget(fails[p]) \in Nat /\ timer[p] \in Nat /\ Interval \in Nat
      BY BudgetFacts, TimesAssumption DEF IInv, TypeOK
    <3>2. 0 <= Budget(fails[p]) + timer[p] /\ 0 <= Budget(fails[p]) + Interval + timer[p]
          /\ 0 <= timer[p]
      BY <3>1
    <3>3. Timing(p) /\ pc'[p] = pc[p] /\ timer'[p] = timer[p] /\ fails'[p] = fails[p]
      BY <1>1 DEF IInv
    <3> QED BY <1>1, <2>3, <3>2, <3>3 DEF Timing, Calling
  <2>6. Owns(p)'
    BY <1>2, <2>3 DEF Owns
  <2>7. ASSUME NEW q \in Processes, q # p PROVE Timing(q)' /\ Owns(q)'
    <3>1. Still(q) /\ faults' = faults /\ faults \in Nat
      BY <1>1, <2>4, <2>7, LeaseBounds DEF IInv, TypeOK
    <3>2. Timing(q)'
      BY <3>1, TimingKept
    <3>3. Owns(q) /\ since[q] \in Nat
      BY BudgetFacts DEF IInv, TypeOK
    <3>4. SUFFICES ASSUME Running(q) \/ reply[q] = "acquired", since[q] < TTL PROVE FALSE
      BY <3>1, <3>2 DEF Owns, Running, Still
    <3>5. holder = q /\ age = since[q]
      BY <3>3, <3>4 DEF Owns
    <3>6. age >= TTL
      BY <1>2, <2>7, <3>5, NoProcessAssumption DEF Available
    <3> QED BY <3>3, <3>4, <3>5, <3>6, TimesAssumption
  <2> QED BY <2>2, <2>5, <2>6, <2>7 DEF IInv
<1>3. CASE reply' = [reply EXCEPT ![p] = "refused"] /\ UNCHANGED <<holder, age, since>>
  <2>1. TypeOK'
    BY <1>1, <1>3 DEF IInv, TypeOK
  <2>2. reply'[p] = "refused"
    BY <1>3 DEF IInv, TypeOK
  <2>3. \A q \in Processes \ {p} : Still(q)
    BY <1>1, <1>3 DEF Still, IInv, TypeOK
  <2>4. Timing(p)'
    BY <1>1, <1>3, <2>2 DEF IInv, Timing, Calling
  <2>5. Owns(p)'
    BY <1>1, <1>3, <2>2 DEF IInv, Owns, Running
  <2>6. faults <= faults'
    BY <1>1, LeaseBounds DEF IInv, TypeOK
  <2> QED BY <1>3, <2>1, <2>3, <2>4, <2>5, <2>6, MoveKeepsInv
<1> QED BY <1>2, <1>3 DEF Served

(* Time passes equally for everybody: nobody who leads can be at a clock's *)
(* limit, and the lease ages as fast as its holder's own measure of it.    *)
LEMMA TickStep ==
  ASSUME IInv, Tick PROVE IInv'
<1>1. /\ \A p \in Processes : MayWait(p)
      /\ age' = UpTo(TTL, age)
      /\ timer' = [p \in Processes |-> IF pc[p] = "down" THEN 0 ELSE timer[p] + 1]
      /\ since' = [p \in Processes |-> UpTo(Patience + 1, since[p])]
      /\ UNCHANGED <<holder, pc, reply, fails, faults, crashes>>
  BY DEF Tick
<1>2. /\ TTL \in Nat /\ Interval \in Nat /\ MaxCall \in Nat /\ MaxRenewFailures \in Nat
      /\ Patience \in Nat
  BY TimesAssumption, BudgetFacts
<1>3. age' \in 0..TTL
  BY <1>1, <1>2 DEF IInv, TypeOK, UpTo
<1>4. timer' \in [Processes -> Nat]
  BY <1>1 DEF IInv, TypeOK
<1>5. since' \in [Processes -> 0..(Patience + 1)]
  BY <1>1, <1>2 DEF IInv, TypeOK, UpTo
<1>6. TypeOK'
  BY <1>1, <1>3, <1>4, <1>5 DEF IInv, TypeOK
<1>7. ASSUME NEW p \in Processes PROVE Timing(p)' /\ Owns(p)'
  <2>1. /\ Timing(p) /\ Owns(p) /\ MayWait(p)
        /\ pc'[p] = pc[p] /\ reply'[p] = reply[p] /\ fails'[p] = fails[p]
        /\ holder' = holder /\ faults' = faults
    BY <1>1 DEF IInv
  <2>2. /\ since[p] \in Nat /\ since[p] <= Patience + 1 /\ timer[p] \in Nat
        /\ age \in Nat /\ age <= TTL /\ fails[p] \in Nat /\ Budget(fails[p]) \in Nat
    BY <1>2, BudgetFacts DEF IInv, TypeOK
  <2>3. since'[p] = UpTo(Patience + 1, since[p])
    BY <1>1
  <2>4. timer'[p] = IF pc[p] = "down" THEN 0 ELSE timer[p] + 1
    BY <1>1
  <2>5. since'[p] \in Nat /\ since'[p] <= since[p] + 1
    BY <1>2, <2>2, <2>3 DEF UpTo
  <2>6. Timing(p)'
    <3>1. pc[p] # "stopping"
      BY <2>1 DEF MayWait
    <3>2. pc[p] \in Calling => timer'[p] <= MaxCall
      BY <1>2, <2>1, <2>2, <2>4 DEF MayWait, Calling
    <3>3. pc[p] = "lead" => timer'[p] <= Interval /\ since'[p] <= Budget(fails[p]) + timer'[p]
      BY <1>2, <2>1, <2>2, <2>4, <2>5 DEF MayWait, Sleeping, Timing
    <3>4. pc[p] = "renew" => since'[p] <= Budget(fails[p]) + Interval + timer'[p]
      BY <1>2, <2>1, <2>2, <2>4, <2>5 DEF Timing
    <3>5. reply[p] = "acquired" => pc[p] \in Calling /\ since'[p] <= timer'[p]
      BY <2>1, <2>2, <2>4, <2>5 DEF Timing, Calling
    <3> QED BY <2>1, <3>1, <3>2, <3>3, <3>4, <3>5 DEF Timing
  <2>7. Owns(p)'
    <3>1. SUFFICES ASSUME Running(p) \/ reply[p] = "acquired", since'[p] < TTL
                   PROVE  holder = p /\ age' = since'[p]
      BY <2>1 DEF Owns, Running
    <3>2. since[p] <= Patience
      <4>1. CASE pc[p] \in {"lead", "renew"}
        <5>1. fails[p] < MaxRenewFailures /\ since[p] <= Budget(fails[p]) + Interval + MaxCall
          BY <1>2, <2>1, <2>2, <4>1 DEF Timing, Calling, MayWait, Sleeping
        <5>2. Budget(fails[p] + 1) <= Patience
          <6>1. fails[p] + 1 \in Nat /\ fails[p] + 1 <= MaxRenewFailures
            BY <1>2, <2>2, <5>1
          <6> QED BY <1>2, <6>1, BudgetFacts
        <5>3. Budget(fails[p] + 1) = Budget(fails[p]) + Interval + MaxCall
          BY <2>2, BudgetFacts
        <5> QED BY <1>2, <2>2, <5>1, <5>2, <5>3
      <4>2. CASE reply[p] = "acquired"
        <5>1. since[p] <= MaxCall
          BY <1>2, <2>1, <2>2, <4>2 DEF Timing
        <5>2. MaxCall <= Patience
          BY <1>2, BudgetFacts
        <5> QED BY <1>2, <2>2, <5>1, <5>2
      <4> QED BY <2>1, <3>1, <4>1, <4>2 DEF Running, MayWait
    <3>3. since'[p] = since[p] + 1
      BY <1>2, <2>2, <2>3, <3>2 DEF UpTo
    <3>4. holder = p /\ age = since[p] /\ age < TTL
      BY <1>2, <2>1, <2>2, <3>1, <3>3 DEF Owns
    <3>5. age' = age + 1
      BY <1>1, <1>2, <2>2, <3>4 DEF UpTo
    <3> QED BY <3>3, <3>4, <3>5
  <2> QED BY <2>6, <2>7
<1> QED BY <1>6, <1>7 DEF IInv

-----------------------------------------------------------------------------
(* Theorems *)

(* Nobody runs, calls or owns the lease at the start. *)
LEMMA InitIInv == Init => IInv
<1> SUFFICES ASSUME Init PROVE IInv
  OBVIOUS
<1>1. /\ 0 \in 0..TTL /\ 0 \in 0..(Patience + 1) /\ 0 \in 0..MaxRenewFailures
      /\ 0 \in 0..MaxFaults /\ 0 \in 0..MaxCrashes
  BY TimesAssumption, LeaseBounds, BudgetFacts
<1>2. TypeOK
  BY <1>1 DEF Init, TypeOK, PCs
<1>3. ASSUME NEW p \in Processes PROVE Timing(p) /\ Owns(p)
  <2>1. pc[p] = "down" /\ reply[p] = "none" /\ fails[p] = 0 /\ faults = 0
    BY DEF Init
  <2> QED BY <2>1 DEF Timing, Owns, Running, Calling
<1> QED BY <1>2, <1>3 DEF IInv

(* Every step of a process, and of time, preserves the invariant. *)
LEMMA NextIInv == IInv /\ [Next]_vars => IInv'
<1> SUFFICES ASSUME IInv, [Next]_vars PROVE IInv'
  OBVIOUS
<1>1. ASSUME NEW p \in Processes, Step(p) PROVE IInv'
  BY <1>1, ServedStep, AcquireAnsweredStep, WakeStep, RenewAnsweredStep, EndStep DEF Step
<1>2. CASE UNCHANGED vars
  <2>1. TypeOK'
    BY <1>2 DEF vars, IInv, TypeOK
  <2>2. \A p \in Processes : Timing(p)' /\ Owns(p)'
    BY <1>2 DEF vars, IInv, Timing, Owns, Running
  <2> QED BY <2>1, <2>2 DEF IInv
<1> QED BY <1>1, <1>2, StartStep, EndStep, TickStep DEF Next

(* The invariant holds of every state: a process that leads or has just    *)
(* been given the lease owns it for a whole TTL, as main.rs relies on.     *)
THEOREM LeaderInvariant == Spec => []IInv
BY InitIInv, NextIInv, PTL DEF Spec

(* A controller never outlives the renewals it is allowed to miss          *)
(* (MAX_RENEW_FAILURES in main.rs), whatever the calls answer.             *)
THEOREM LeaderRenewedTheorem == Spec => []LeaderRenewed
<1>1. IInv => LeaderRenewed
  <2> SUFFICES ASSUME IInv, NEW p \in Processes, Running(p) PROVE since[p] <= Patience
    BY DEF LeaderRenewed
  <2>1. /\ Interval \in Nat /\ MaxCall \in Nat /\ MaxRenewFailures \in Nat /\ Patience \in Nat
        /\ since[p] \in Nat /\ fails[p] \in Nat /\ timer[p] \in Nat /\ Budget(fails[p]) \in Nat
    BY TimesAssumption, BudgetFacts DEF IInv, TypeOK
  <2>2. CASE pc[p] = "stopping"
    BY <2>2 DEF IInv, Timing
  <2>3. CASE pc[p] \in {"lead", "renew"}
    <3>1. fails[p] < MaxRenewFailures /\ since[p] <= Budget(fails[p]) + Interval + MaxCall
      BY <2>1, <2>3 DEF IInv, Timing, Calling
    <3>2. fails[p] + 1 \in Nat /\ fails[p] + 1 <= MaxRenewFailures
      BY <2>1, <3>1
    <3>3. Budget(fails[p] + 1) <= Patience
      BY <2>1, <3>2, BudgetFacts
    <3>4. Budget(fails[p] + 1) = Budget(fails[p]) + Interval + MaxCall
      BY <2>1, BudgetFacts
    <3> QED BY <2>1, <3>1, <3>3, <3>4
  <2> QED BY <2>2, <2>3 DEF Running
<1> QED BY <1>1, LeaderInvariant, PTL

(* One controller at a time, for every TTL, interval and call time for     *)
(* which the errors so far cannot have used the TTL up: the margin the     *)
(* constants of main.rs leave.                                             *)
THEOREM OneLeaderTheorem == Spec => []OneLeader
<1>1. IInv => OneLeader
  <2> SUFFICES ASSUME IInv, (faults + 1) * Interval + (faults + 2) * MaxCall < TTL,
                      NEW p \in Processes, Running(p)
               PROVE  holder = p
    BY DEF OneLeader
  <2>1. /\ Interval \in Nat /\ MaxCall \in Nat /\ TTL \in Nat /\ faults \in Nat
        /\ since[p] \in Nat /\ fails[p] \in Nat /\ timer[p] \in Nat
    BY TimesAssumption, LeaseBounds, BudgetFacts DEF IInv, TypeOK
  <2>2. Budget(fails[p]) \in Nat /\ Budget(faults) \in Nat /\ fails[p] <= faults
    BY <2>1, BudgetFacts DEF IInv, Timing
  <2>3. Budget(fails[p]) <= Budget(faults)
    BY <2>1, <2>2, BudgetFacts
  <2>4. since[p] <= Budget(fails[p]) + Interval + MaxCall
    BY <2>1, <2>2 DEF IInv, Timing, Calling, Running
  <2>5. Budget(faults) + Interval + MaxCall = (faults + 1) * Interval + (faults + 2) * MaxCall
    BY <2>1, SMT DEF Budget
  <2>6. since[p] < TTL
    BY <2>1, <2>2, <2>3, <2>4, <2>5
  <2> QED BY <2>6 DEF IInv, Owns
<1> QED BY <1>1, LeaderInvariant, PTL
=============================================================================
