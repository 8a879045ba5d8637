-------------------------- MODULE NarParserProofs ---------------------------
(***************************************************************************)
(* NarReader::parse, for every stream of strings, every set of names and   *)
(* payloads, every order of the names and every max_depth: the directories *)
(* it has open are within max_depth and have valid, strictly ascending     *)
(* entries (IInv); an archive accepted is that of the tree returned        *)
(* (ArchiveInv: what has been read is known from the open directories and  *)
(* the place in the code); and the archive of a safe tree is never refused *)
(* and, read whole, accepted (ForetoldInv: where an archive has been begun,*)
(* the strings to come are the ones the code wants).                       *)
(***************************************************************************)
EXTENDS NarGrammar, NaturalsInduction, WellFoundedInduction, TLAPS

-----------------------------------------------------------------------------
(* The inductive invariant *)

(* An open directory whose entries hold nodes of N. *)
Frame(N) == [entries : Seq([name : Names, node : N]), last : SUBSET Names]

(* Trees have no set of their own: the nodes met so far are in some set. *)
TypeInv ==
  /\ \E N : node \in N /\ stack \in Seq(Frame(N))
  /\ Len(stack) <= MaxDepth

Ascending(es) ==
  /\ \A i \in 1..Len(es) : ValidateEntryName(es[i].name)
  /\ \A i, j \in 1..Len(es) : i < j => Rank[es[i].name] < Rank[es[j].name]

(* Between two entries: last_name is the name of the last one, if any. *)
Settled(f) ==
  /\ Ascending(f.entries)
  /\ f.last = {} => f.entries = <<>>
  /\ \A n \in f.last, i \in 1..Len(f.entries) : Rank[f.entries[i].name] <= Rank[n]

(* Within an entry: last_name is its name, above those of all entries yet. *)
Pending(f) ==
  /\ Ascending(f.entries)
  /\ \E n \in Names :
       /\ f.last = {n} /\ ValidateEntryName(n)
       /\ \A i \in 1..Len(f.entries) : Rank[f.entries[i].name] < Rank[n]

Between == {"directory", "entryOpen", "entryName", "name"}

(* Only the innermost directory may be between two entries. *)
StackInv ==
  /\ expect \in Between \cup {"entryNode", "entryClose"} => stack # <<>>
  /\ \A d \in 1..Len(stack) :
       IF expect \in Between /\ d = Len(stack) THEN Settled(stack[d]) ELSE Pending(stack[d])

IInv == TypeInv /\ StackInv

-----------------------------------------------------------------------------
(* Helpers *)

(* A sequence over a set is one over a larger set. *)
LEMMA SeqGrows ==
  ASSUME NEW S, NEW T, S \subseteq T PROVE Seq(S) \subseteq Seq(T)
OBVIOUS

(* What a sequence over a set holds is in it. *)
LEMMA SeqElement ==
  ASSUME NEW S, NEW s \in Seq(S), NEW i \in 1..Len(s) PROVE s[i] \in S
OBVIOUS

(* Front drops the last element and nothing else. *)
LEMMA FrontOf ==
  ASSUME NEW S, NEW s \in Seq(S), Len(s) >= 1
  PROVE  /\ Front(s) \in Seq(S) /\ Len(Front(s)) = Len(s) - 1
         /\ \A d \in 1..Len(Front(s)) : Front(s)[d] = s[d]
<1>1. Len(s) \in Nat /\ Len(s) - 1 \in Nat
  OBVIOUS
<1> DEFINE n == Len(s) - 1
<1>2. n \in Nat /\ n <= Len(s) /\ Front(s) = SubSeq(s, 1, n)
  BY <1>1 DEF Front
<1> HIDE DEF n
<1>3. /\ SubSeq(s, 1, n) \in Seq(S) /\ Len(SubSeq(s, 1, n)) = n
      /\ \A d \in 1..n : SubSeq(s, 1, n)[d] = s[d]
  BY <1>2
<1> QED BY <1>2, <1>3 DEF n

(* A frame over some nodes is one over more nodes. *)
LEMMA FrameGrows ==
  ASSUME NEW N, NEW M, N \subseteq M, NEW s \in Seq(Frame(N))
  PROVE  s \in Seq(Frame(M))
<1>1. [name : Names, node : N] \subseteq [name : Names, node : M]
  OBVIOUS
<1>2. Seq([name : Names, node : N]) \subseteq Seq([name : Names, node : M])
  BY <1>1, SeqGrows
<1>3. Frame(N) \subseteq Frame(M)
  BY <1>2 DEF Frame
<1> QED BY <1>3, SeqGrows

(* The node just parsed joins the nodes met so far. *)
LEMMA SomeNodes ==
  ASSUME TypeInv
  PROVE  \E N : node \in N /\ node' \in N /\ stack \in Seq(Frame(N))
<1>1. PICK N : node \in N /\ stack \in Seq(Frame(N))
  BY DEF TypeInv
<1>2. stack \in Seq(Frame(N \cup {node'}))
  BY <1>1, FrameGrows
<1> QED BY <1>1, <1>2

(* Reading on without opening or closing a directory or an entry. *)
LEMMA StackKept ==
  ASSUME IInv, stack' = stack,
         expect' \in Between <=> expect \in Between,
         expect' \in {"entryNode", "entryClose"} => stack # <<>>
  PROVE  IInv'
<1>1. TypeInv'
  BY SomeNodes DEF IInv, TypeInv
<1>2. StackInv'
  BY DEF IInv, StackInv, Between
<1> QED BY <1>1, <1>2 DEF IInv

(* The string is refused, or the stream ends. *)
LEMMA Stopped ==
  ASSUME IInv, UNCHANGED <<expect, stack, node>> PROVE IInv'
BY StackKept DEF IInv, StackInv

(* The innermost directory, where one is open. *)
LEMMA TopFrame ==
  ASSUME NEW N, stack \in Seq(Frame(N)), stack # <<>>
  PROVE  /\ Len(stack) \in Nat /\ Len(stack) >= 1
         /\ Len(stack) \in 1..Len(stack)
         /\ Top \in Frame(N)
BY DEF Top

-----------------------------------------------------------------------------
(* Every read preserves the invariant *)

(* expect_str: a word, and nothing opened or closed by it. *)
LEMMA ExpectStrStep ==
  ASSUME IInv, NEW s, NEW label \in DOMAIN Keyword, ExpectStr(label, s) PROVE IInv'
<1>1. CASE Refuse
  BY <1>1, Stopped DEF Refuse
<1>2. CASE Go(Keyword[label][2]) /\ UNCHANGED <<stack, node>>
  <2>1. expect = label /\ expect' = Keyword[label][2]
    BY <1>2 DEF ExpectStr, Reads, Go
  <2>2. label \in {"magic", "open", "type", "blank", "contents", "target",
                   "entryOpen", "entryName", "entryNode"}
    BY DEF Keyword
  <2>3. /\ label \in {"entryOpen", "entryName"} => Keyword[label][2] \in {"entryName", "name"}
        /\ label \notin {"entryOpen", "entryName"} =>
             Keyword[label][2] \in {"open", "type", "kind", "contents", "execData", "link"}
    <3>1. Keyword["entryOpen"][2] = "entryName" /\ Keyword["entryName"][2] = "name"
      BY DEF Keyword
    <3>2. Keyword["magic"][2] = "open" /\ Keyword["entryNode"][2] = "open"
      BY DEF Keyword
    <3>3. Keyword["open"][2] = "type" /\ Keyword["type"][2] = "kind"
      BY DEF Keyword
    <3>4. /\ Keyword["blank"][2] = "contents" /\ Keyword["contents"][2] = "execData"
          /\ Keyword["target"][2] = "link"
      BY DEF Keyword
    <3> QED BY <2>2, <3>1, <3>2, <3>3, <3>4
  <2>4. /\ expect' \in Between <=> expect \in Between
        /\ expect' \notin {"entryNode", "entryClose"}
    BY <2>1, <2>2, <2>3 DEF Between
  <2> QED BY <1>2, <2>4, StackKept
<1> QED BY <1>1, <1>2 DEF ExpectStr

(* The kind of a node: a directory opens, within max_depth. *)
LEMMA NodeTypeStep ==
  ASSUME IInv, NEW s, NodeType(s) PROVE IInv'
<1>1. CASE Refuse
  BY <1>1, Stopped DEF Refuse
<1>2. CASE (Go("body") \/ Go("target")) /\ UNCHANGED <<stack, node>>
  BY <1>2, StackKept DEF NodeType, Reads, Go, Between
<1>3. CASE /\ Len(stack) < MaxDepth
           /\ stack' = Append(stack, [entries |-> <<>>, last |-> {}])
           /\ Go("directory") /\ UNCHANGED node
  <2> DEFINE f == [entries |-> <<>>, last |-> {}]
  <2>1. PICK N : node \in N /\ stack \in Seq(Frame(N))
    BY DEF IInv, TypeInv
  <2>2. f \in Frame(N) /\ Settled(f)
    BY DEF Frame, Settled, Ascending
  <2>3. expect = "kind" /\ expect' = "directory"
    BY <1>3 DEF NodeType, Reads, Go
  <2> HIDE DEF f
  <2>4. /\ stack' \in Seq(Frame(N)) /\ Len(stack') = Len(stack) + 1
        /\ stack'[Len(stack')] = f /\ stack' # <<>> /\ Len(stack) \in Nat
        /\ \A d \in 1..Len(stack) : stack'[d] = stack[d]
    BY <1>3, <2>1, <2>2 DEF f
  <2>5. TypeInv'
    BY <1>3, <2>1, <2>4, ParserAssumption DEF TypeInv
  <2>6. ASSUME NEW d \in 1..Len(stack), d # Len(stack') PROVE Pending(stack'[d])
    BY <2>3, <2>4 DEF IInv, StackInv, Between
  <2>7. StackInv'
    BY <2>2, <2>3, <2>4, <2>6 DEF StackInv, Between
  <2> QED BY <2>5, <2>7 DEF IInv
<1> QED BY <1>1, <1>2, <1>3 DEF NodeType

(* parse_regular and parse_symlink. *)
LEMMA LeafStep ==
  ASSUME IInv, NEW s, RegularBody(s) \/ Contents(s) \/ LinkTarget(s) PROVE IInv'
<1>1. CASE Refuse
  BY <1>1, Stopped DEF Refuse
<1>2. CASE /\ expect \in {"body", "execData", "data", "link"}
           /\ expect' \in {"blank", "data", "close"} /\ stack' = stack
  BY <1>2, StackKept DEF Between
<1>3. \/ Refuse
      \/ /\ expect \in {"body", "execData", "data", "link"}
         /\ expect' \in {"blank", "data", "close"} /\ stack' = stack
  BY DEF RegularBody, Contents, LinkTarget, Reads, Go
<1> QED BY <1>1, <1>2, <1>3

(* The head of parse_directory's loop: the directory may close. *)
LEMMA DirectoryNextStep ==
  ASSUME IInv, NEW s, DirectoryNext(s) PROVE IInv'
<1>0. expect = "directory" /\ stack # <<>>
  BY DEF DirectoryNext, Reads, IInv, StackInv, Between
<1>1. CASE Refuse
  BY <1>1, Stopped DEF Refuse
<1>2. CASE Go("entryOpen") /\ UNCHANGED <<stack, node>>
  BY <1>0, <1>2, StackKept DEF Go, Between
<1>3. CASE /\ stack' = Front(stack)
           /\ Go(IF Len(stack) = 1 THEN "close" ELSE "entryClose")
  <2>1. PICK N : node' \in N /\ stack \in Seq(Frame(N))
    BY SomeNodes DEF IInv
  <2>2. Len(stack) \in Nat /\ Len(stack) >= 1
    BY <1>0, <2>1
  <2>3. /\ stack' \in Seq(Frame(N)) /\ Len(stack') = Len(stack) - 1
        /\ \A d \in 1..Len(stack') : stack'[d] = stack[d]
    BY <1>3, <2>1, <2>2, FrontOf
  <2>4. TypeInv'
    BY <2>1, <2>2, <2>3, ParserAssumption DEF IInv, TypeInv
  <2>5. ASSUME NEW d \in 1..Len(stack') PROVE Pending(stack'[d])
    <3>1. d \in 1..Len(stack) /\ d # Len(stack)
      BY <2>2, <2>3
    <3> QED BY <1>0, <2>3, <3>1 DEF IInv, StackInv
  <2>6. /\ expect' \notin Between
        /\ expect' \in {"entryNode", "entryClose"} => stack' # <<>>
    BY <1>3, <2>2, <2>3 DEF Go, Between
  <2> QED BY <2>4, <2>5, <2>6 DEF IInv, StackInv
<1> QED BY <1>1, <1>2, <1>3 DEF DirectoryNext

(* validate_entry_name and the order of names: an entry begins. *)
LEMMA EntryNameStep ==
  ASSUME IInv, NEW s \in Names, EntryName(s) PROVE IInv'
<1>0. expect = "name" /\ stack # <<>>
  BY DEF EntryName, Reads, IInv, StackInv, Between
<1>1. CASE Refuse
  BY <1>1, Stopped DEF Refuse
<1>2. CASE /\ ValidateEntryName(s) /\ InOrder(s)
           /\ stack' = [stack EXCEPT ![Len(stack)].last = {s}]
           /\ Go("entryNode") /\ UNCHANGED node
  <2>1. PICK N : node \in N /\ stack \in Seq(Frame(N))
    BY DEF IInv, TypeInv
  <2>2. Len(stack) \in 1..Len(stack) /\ Top \in Frame(N)
    BY <1>0, <2>1, TopFrame
  <2> DEFINE f == [Top EXCEPT !.last = {s}]
  <2>3. f \in Frame(N) /\ f.entries = Top.entries /\ f.last = {s}
    BY <2>2 DEF Frame
  <2>4. stack' = [stack EXCEPT ![Len(stack)] = f]
    BY <1>2 DEF Top
  <2> HIDE DEF f
  <2>5. /\ stack' \in Seq(Frame(N)) /\ Len(stack') = Len(stack)
        /\ stack'[Len(stack)] = f /\ stack' # <<>>
        /\ \A d \in 1..Len(stack) : d # Len(stack) => stack'[d] = stack[d]
    BY <1>0, <2>1, <2>2, <2>3, <2>4
  <2>6. TypeInv'
    BY <1>2, <2>1, <2>5 DEF IInv, TypeInv
  <2>7. Settled(Top)
    BY <1>0, <2>2 DEF IInv, StackInv, Between, Top
  <2>8. Pending(f)
    <3>1. ASSUME NEW i \in 1..Len(Top.entries) PROVE Rank[Top.entries[i].name] < Rank[s]
      <4>1. Top.entries[i].name \in Names /\ Top.last \subseteq Names /\ Top.entries # <<>>
        <5>1. Top.entries \in Seq([name : Names, node : N]) /\ Top.last \subseteq Names
          BY <2>2 DEF Frame
        <5>2. Top.entries[i] \in [name : Names, node : N]
          BY <5>1, SeqElement
        <5>3. Top.entries # <<>>
          BY <5>1
        <5> QED BY <5>1, <5>2, <5>3
      <4>2. PICK n \in Top.last : TRUE
        BY <2>7, <4>1 DEF Settled
      <4>3. Rank[Top.entries[i].name] <= Rank[n] /\ Rank[s] > Rank[n]
        BY <1>2, <2>7 DEF Settled, InOrder
      <4>4. Rank[Top.entries[i].name] \in Nat /\ Rank[n] \in Nat /\ Rank[s] \in Nat
        BY <4>1, RankAssumption
      <4> QED BY <4>3, <4>4
    <3> QED BY <1>2, <2>3, <2>7, <3>1 DEF Pending, Settled
  <2>9. ASSUME NEW d \in 1..Len(stack), d # Len(stack) PROVE Pending(stack'[d])
    BY <1>0, <2>5, <2>9 DEF IInv, StackInv
  <2>10. expect' = "entryNode"
    BY <1>2 DEF Go
  <2>11. StackInv'
    BY <2>5, <2>8, <2>9, <2>10 DEF StackInv, Between
  <2> QED BY <2>6, <2>11 DEF IInv
<1> QED BY <1>1, <1>2 DEF EntryName

(* The end of a node. *)
LEMMA CloseStep ==
  ASSUME IInv, NEW s, Close(s) PROVE IInv'
<1>1. expect = "close"
  BY DEF Close, Reads
<1>2. CASE UNCHANGED <<expect, stack, node>>
  BY <1>2, Stopped
<1>3. CASE stack # <<>> /\ Go("entryClose") /\ UNCHANGED <<stack, node>>
  BY <1>1, <1>3, StackKept DEF Go, Between
<1> QED BY <1>2, <1>3 DEF Close, Refuse

(* Adding an entry above all the others keeps a directory's entries in order. *)
LEMMA AppendAscending ==
  ASSUME NEW N, NEW es \in Seq([name : Names, node : N]), NEW x \in N, NEW n \in Names,
         Ascending(es), ValidateEntryName(n),
         \A i \in 1..Len(es) : Rank[es[i].name] < Rank[n]
  PROVE  LET new == Append(es, [name |-> n, node |-> x])
         IN  /\ new \in Seq([name : Names, node : N])
             /\ Ascending(new)
             /\ \A i \in 1..Len(new) : Rank[new[i].name] <= Rank[n]
<1> DEFINE e == [name |-> n, node |-> x]
           new == Append(es, e)
<1>1. e \in [name : Names, node : N] /\ e.name = n
  OBVIOUS
<1> HIDE DEF e
<1>2. /\ new \in Seq([name : Names, node : N]) /\ Len(new) = Len(es) + 1
      /\ new[Len(es) + 1] = e /\ Len(es) \in Nat
      /\ \A i \in 1..Len(es) : new[i] = es[i]
  BY <1>1
<1> HIDE DEF new
<1>3. /\ \A i \in 1..Len(new) : new[i].name \in Names
      /\ \A m \in Names : Rank[m] \in Nat
  <2>1. \A i \in 1..Len(new) : new[i] \in [name : Names, node : N]
    BY <1>2, SeqElement
  <2> QED BY <2>1, RankAssumption
<1>4. \A i \in 1..Len(new) : i \in 1..Len(es) \/ i = Len(es) + 1
  BY <1>2
<1>5. \A i \in 1..Len(new) : ValidateEntryName(new[i].name)
  BY <1>1, <1>2, <1>4 DEF Ascending
<1>6. ASSUME NEW i \in 1..Len(new) PROVE Rank[new[i].name] <= Rank[n]
  <2>1. Rank[new[i].name] \in Nat /\ Rank[n] \in Nat
    BY <1>3
  <2>2. Rank[new[i].name] < Rank[n] \/ new[i].name = n
    BY <1>1, <1>2, <1>4
  <2> QED BY <2>1, <2>2
<1>7. ASSUME NEW i \in 1..Len(new), NEW j \in 1..Len(new), i < j
      PROVE  Rank[new[i].name] < Rank[new[j].name]
  <2>1. i \in 1..Len(es)
    BY <1>2, <1>7
  <2>2. CASE j \in 1..Len(es)
    BY <1>2, <1>7, <2>1, <2>2 DEF Ascending
  <2>3. CASE j = Len(es) + 1
    BY <1>1, <1>2, <2>1, <2>3
  <2> QED BY <1>4, <2>2, <2>3
<1>8. Ascending(new)
  BY <1>5, <1>7 DEF Ascending
<1> QED BY <1>2, <1>6, <1>8 DEF new, e

(* The end of an entry: it joins its directory. *)
LEMMA CloseEntryStep ==
  ASSUME IInv, NEW s, CloseEntry(s) PROVE IInv'
<1>0. expect = "entryClose" /\ stack # <<>>
  BY DEF CloseEntry, Reads, IInv, StackInv
<1>1. CASE Refuse
  BY <1>1, Stopped DEF Refuse
<1>2. CASE /\ stack' = [stack EXCEPT ![Len(stack)].entries =
                          Append(@, [name |-> CHOOSE n \in Top.last : TRUE, node |-> node])]
           /\ Go("directory") /\ UNCHANGED node
  <2>1. PICK N : node \in N /\ stack \in Seq(Frame(N))
    BY DEF IInv, TypeInv
  <2>2. Len(stack) \in 1..Len(stack) /\ Top \in Frame(N)
    BY <1>0, <2>1, TopFrame
  <2>3. Pending(Top)
    BY <1>0, <2>2 DEF IInv, StackInv, Between, Top
  <2>4. PICK n \in Names :
          /\ Top.last = {n} /\ ValidateEntryName(n)
          /\ \A i \in 1..Len(Top.entries) : Rank[Top.entries[i].name] < Rank[n]
    BY <2>3 DEF Pending
  <2>5. (CHOOSE m \in Top.last : TRUE) = n
    BY <2>4
  <2> DEFINE new == Append(Top.entries, [name |-> n, node |-> node])
             f == [Top EXCEPT !.entries = new]
  <2>6. Top.entries \in Seq([name : Names, node : N]) /\ Ascending(Top.entries)
    BY <2>2, <2>3 DEF Frame, Pending
  <2>7. /\ new \in Seq([name : Names, node : N]) /\ Ascending(new)
        /\ \A i \in 1..Len(new) : Rank[new[i].name] <= Rank[n]
    BY <2>1, <2>4, <2>6, AppendAscending
  <2>8. stack' = [stack EXCEPT ![Len(stack)] = f]
    BY <1>2, <2>5 DEF Top
  <2> HIDE DEF new
  <2>9. f \in Frame(N) /\ f.entries = new /\ f.last = {n}
    BY <2>2, <2>4, <2>7 DEF Frame
  <2> HIDE DEF f
  <2>10. Settled(f)
    BY <2>7, <2>9 DEF Settled
  <2>11. /\ stack' \in Seq(Frame(N)) /\ Len(stack') = Len(stack)
         /\ stack'[Len(stack)] = f /\ stack' # <<>>
         /\ \A d \in 1..Len(stack) : d # Len(stack) => stack'[d] = stack[d]
    BY <1>0, <2>1, <2>2, <2>8, <2>9
  <2>12. TypeInv'
    BY <1>2, <2>1, <2>11 DEF IInv, TypeInv
  <2>13. ASSUME NEW d \in 1..Len(stack), d # Len(stack) PROVE Pending(stack'[d])
    BY <1>0, <2>11, <2>13 DEF IInv, StackInv
  <2>14. expect' = "directory"
    BY <1>2 DEF Go
  <2>15. StackInv'
    BY <2>10, <2>11, <2>13, <2>14 DEF StackInv, Between
  <2> QED BY <2>12, <2>15 DEF IInv
<1> QED BY <1>1, <1>2 DEF CloseEntry

-----------------------------------------------------------------------------
(* The theorems *)

(* Nothing is open before the magic string. *)
LEMMA InitIInv == Init => IInv
<1> SUFFICES ASSUME Init PROVE IInv
  OBVIOUS
<1>1. node \in {node} /\ stack \in Seq(Frame({node})) /\ Len(stack) = 0
  BY DEF Init
<1>2. TypeInv
  <2>1. \E N : node \in N /\ stack \in Seq(Frame(N))
    BY <1>1, Zenon
  <2>2. Len(stack) <= MaxDepth
    BY <1>1, ParserAssumption
  <2> QED BY <2>1, <2>2 DEF TypeInv
<1> QED BY <1>1, <1>2 DEF Init, IInv, StackInv, Between

(* Whatever string comes next, the invariant is preserved. *)
LEMMA NextIInv == IInv /\ [Next]_vars => IInv'
<1> SUFFICES ASSUME IInv, [Next]_vars PROVE IInv'
  OBVIOUS
<1>1. CASE UNCHANGED vars \/ ReadFails
  BY <1>1, Stopped DEF vars, ReadFails
<1>2. ASSUME NEW s \in Words, NEW label \in DOMAIN Keyword, ExpectStr(label, s) PROVE IInv'
  BY <1>2, ExpectStrStep
<1>3. ASSUME NEW s, \/ NodeType(s) \/ RegularBody(s) \/ DirectoryNext(s) \/ Close(s)
                    \/ CloseEntry(s) \/ Contents(s) \/ LinkTarget(s)
      PROVE  IInv'
  BY <1>3, NodeTypeStep, LeafStep, DirectoryNextStep, CloseStep, CloseEntryStep
<1>4. ASSUME NEW s \in Names, EntryName(s) PROVE IInv'
  BY <1>4, EntryNameStep
<1> QED BY <1>1, <1>2, <1>3, <1>4, Zenon DEF Next

(* The invariant of the parser's explicit call stack, for every stream. *)
THEOREM ParserInvariant == Spec => []IInv
BY InitIInv, NextIInv, PTL DEF Spec

(***************************************************************************)
(* parse_directory: whatever the stream, no more than max_depth directories *)
(* are open and the entries of each have valid, strictly ascending names.   *)
(***************************************************************************)
THEOREM OpenSortedTheorem == Spec => []OpenSorted
<1>1. IInv => OpenSorted
  <2> SUFFICES ASSUME IInv PROVE OpenSorted
    OBVIOUS
  <2>1. \A d \in 1..Len(stack) : Ascending(stack[d].entries)
    BY DEF IInv, StackInv, Settled, Pending
  <2> QED BY <2>1 DEF IInv, TypeInv, OpenSorted, Ascending
<1> QED BY <1>1, ParserInvariant, PTL

(* A set of numbers that has one has a least one. *)
LEMMA LeastOf == ASSUME NEW T \in SUBSET Nat, T # {} PROVE \E m \in T : \A n \in T : m <= n
<1> DEFINE R == OpToRel(<, Nat)
<1>1. IsWellFoundedOn(R, Nat)
  BY NatLessThanWellFounded
<1>2. R = {p \in Nat \X Nat : p[1] < p[2]}
  BY DEF OpToRel
<1> HIDE DEF R
<1>3. PICK m \in T : \A n \in T : ~(<<n, m>> \in R)
  BY <1>1, WFMin
<1>4. ASSUME NEW n \in T PROVE m <= n
  <2>1. <<n, m>> \in Nat \X Nat /\ <<n, m>>[1] = n /\ <<n, m>>[2] = m
    OBVIOUS
  <2>2. ~(n < m)
    BY <1>2, <1>3, <2>1
  <2> QED BY <2>2
<1> QED BY <1>4

(* Induction: what holds first and of every next one holds of all. *)
LEMMA ByInduction ==
  ASSUME NEW n \in Nat, NEW Good, 0 \in Good,
         \A i \in 1..n : i - 1 \in Good => i \in Good
  PROVE  \A i \in 0..n : i \in Good
<1> SUFFICES ASSUME NEW j \in 0..n, j \notin Good PROVE FALSE
  OBVIOUS
<1> DEFINE T == {i \in 0..n : i \notin Good}
<1>1. T \in SUBSET Nat /\ T # {}
  OBVIOUS
<1>2. PICK m \in T : \A i \in T : m <= i
  BY <1>1, LeastOf
<1>3. m \in 0..n /\ m # 0
  BY <1>2
<1>4. m - 1 \in 0..n /\ m \in 1..n
  BY <1>3
<1>5. m - 1 \notin T
  BY <1>2, <1>4
<1> QED BY <1>2, <1>3, <1>4, <1>5

-----------------------------------------------------------------------------
(* The trees with entries in S. *)
DirectoriesOf(S) ==
  {n \in [type : {"directory"}, entries : Seq([name : Names, node : S])] : InNameOrder(n.entries)}

(* SafeTrees is what its definition says. *)
LEMMA SafeTreesAre ==
  /\ SafeTrees[0] = Leaves
  /\ \A d \in 1..MaxDepth : SafeTrees[d] = Leaves \cup DirectoriesOf(SafeTrees[d - 1])
<1> DEFINE M == MaxDepth
           Up(S) == Leaves \cup DirectoriesOf(S)
           Body(g) == [d \in 0..M |-> Leaves \cup (IF d = 0 THEN {} ELSE DirectoriesOf(g[d - 1]))]
           Runs(k, g) == g[0] = Leaves /\ \A d \in 1..k : g[d] = Up(g[d - 1])
           Good == {k \in 0..M : \E g : Runs(k, g)}
<1>1. M \in Nat
  BY ParserAssumption
<1> HIDE DEF M
<1>2. 0 \in Good
  <2> DEFINE g == [i \in 0..0 |-> Leaves]
  <2>1. Runs(0, g)
    OBVIOUS
  <2> HIDE DEF g, Runs
  <2> QED BY <1>1, <2>1
<1>3. ASSUME NEW k \in 1..M, k - 1 \in Good PROVE k \in Good
  <2>1. PICK h : Runs(k - 1, h)
    BY <1>3
  <2> HIDE DEF Up
  <2> DEFINE g == [i \in 0..k |-> IF i = k THEN Up(h[k - 1]) ELSE h[i]]
  <2>2. \A i \in 0..k - 1 : g[i] = h[i]
    BY <1>1
  <2>3. g[k] = Up(h[k - 1])
    BY <1>1
  <2> HIDE DEF g
  <2>4. g[0] = Leaves
    BY <2>1, <2>2, 0 \in 0..k - 1
  <2>5. ASSUME NEW d \in 1..k PROVE g[d] = Up(g[d - 1])
    <3>1. d - 1 \in 0..k - 1
      OBVIOUS
    <3>2. CASE d = k
      BY <2>2, <2>3, <3>1, <3>2
    <3>3. CASE d # k
      <4>1. d \in 1..k - 1 /\ d \in 0..k - 1
        BY <3>3
      <4>2. h[d] = Up(h[d - 1])
        BY <2>1, <4>1
      <4> QED BY <2>2, <3>1, <4>1, <4>2
    <3> QED BY <3>2, <3>3
  <2>6. Runs(k, g)
    BY <2>4, <2>5
  <2> HIDE DEF Runs
  <2> QED BY <2>6, k \in 0..M
<1>4. \A k \in 0..M : k \in Good
  <2> HIDE DEF Good
  <2> QED BY ONLY <1>1, <1>2, <1>3, ByInduction
<1>5. PICK g : Runs(M, g)
  BY <1>1, <1>4, M \in 0..M
<1> HIDE DEF Up
<1> DEFINE f == [d \in 0..M |-> g[d]]
<1>6. f = Body(f)
  <2>1. ASSUME NEW d \in 0..M
        PROVE  g[d] = Leaves \cup (IF d = 0 THEN {} ELSE DirectoriesOf(f[d - 1]))
    <3>1. CASE d = 0
      BY <1>5, <3>1
    <3>2. CASE d # 0
      <4>1. d \in 1..M /\ d - 1 \in 0..M
        BY <1>1, <3>2
      <4>2. g[d] = Up(g[d - 1]) /\ f[d - 1] = g[d - 1]
        BY <1>5, <4>1
      <4> HIDE DEF f
      <4> QED BY <3>2, <4>2 DEF Up
    <3> QED BY <3>1, <3>2
  <2> QED BY <2>1
<1>7. SafeTrees = CHOOSE t : t = Body(t)
  BY DEF SafeTrees, M, DirectoriesOf
<1>8. SafeTrees = Body(SafeTrees)
  <2> HIDE DEF Body, f
  <2> QED BY <1>6, <1>7
<1> DEFINE T == SafeTrees
<1> HIDE DEF T
<1>9. T = Body(T)
  BY <1>8 DEF T
<1>10. T[0] = Leaves /\ \A d \in 1..M : T[d] = Leaves \cup DirectoriesOf(T[d - 1])
  <2>1. \A d \in 0..M : T[d] = Leaves \cup (IF d = 0 THEN {} ELSE DirectoriesOf(T[d - 1]))
    BY <1>9
  <2>2. 0 \in 0..M /\ \A d \in 1..M : d \in 0..M /\ d # 0
    BY <1>1
  <2> QED BY <2>1, <2>2
<1> QED BY <1>10 DEF T, M

(* No leaf is a directory. *)
LEMMA LeafTypes == \A n \in Leaves : n.type # "directory"
  BY DEF Leaves, Regular, Symlink

(* The strings of a tree, by those of the trees in it. *)
DumpOver(trees, inner) ==
  [n \in trees |->
     IF n.type # "directory" THEN LeafDump(n)
     ELSE <<"(", "type", "directory">> \o Listing(n.entries, inner) \o <<")">>]

(* Dump is what its definition says. *)
LEMMA DumpsAre ==
  /\ Dump[0] = [n \in Leaves |-> LeafDump(n)]
  /\ \A d \in 1..MaxDepth : Dump[d] = DumpOver(SafeTrees[d], Dump[d - 1])
<1> DEFINE M == MaxDepth
           Least == [n \in Leaves |-> LeafDump(n)]
           Body(g) == [d \in 0..M |-> DumpOver(SafeTrees[d], g[d - 1])]
           Runs(k, g) == g[0] = Least /\ \A d \in 1..k : g[d] = DumpOver(SafeTrees[d], g[d - 1])
           Good == {k \in 0..M : \E g : Runs(k, g)}
<1>1. M \in Nat
  BY ParserAssumption
<1> HIDE DEF M
<1>2. \A g : DumpOver(SafeTrees[0], g) = Least
  BY SafeTreesAre, LeafTypes DEF DumpOver
<1> HIDE DEF Least
<1>3. 0 \in Good
  <2> DEFINE g == [i \in 0..0 |-> Least]
  <2>1. Runs(0, g)
    OBVIOUS
  <2> HIDE DEF g, Runs
  <2> QED BY <1>1, <2>1
<1>4. ASSUME NEW k \in 1..M, k - 1 \in Good PROVE k \in Good
  <2>1. PICK h : Runs(k - 1, h)
    BY <1>4
  <2> DEFINE g == [i \in 0..k |-> IF i = k THEN DumpOver(SafeTrees[k], h[k - 1]) ELSE h[i]]
  <2>2. \A i \in 0..k - 1 : g[i] = h[i]
    BY <1>1
  <2>3. g[k] = DumpOver(SafeTrees[k], h[k - 1])
    BY <1>1
  <2> HIDE DEF g
  <2>4. g[0] = Least
    BY <2>1, <2>2, 0 \in 0..k - 1
  <2>5. ASSUME NEW d \in 1..k PROVE g[d] = DumpOver(SafeTrees[d], g[d - 1])
    <3>1. d - 1 \in 0..k - 1
      OBVIOUS
    <3>2. CASE d = k
      BY <2>2, <2>3, <3>1, <3>2
    <3>3. CASE d # k
      <4>1. d \in 1..k - 1 /\ d \in 0..k - 1
        BY <3>3
      <4>2. h[d] = DumpOver(SafeTrees[d], h[d - 1])
        BY <2>1, <4>1
      <4> QED BY <2>2, <3>1, <4>1, <4>2
    <3> QED BY <3>2, <3>3
  <2>6. Runs(k, g)
    BY <2>4, <2>5
  <2> HIDE DEF Runs
  <2> QED BY <2>6, k \in 0..M
<1>5. \A k \in 0..M : k \in Good
  <2> HIDE DEF Good
  <2> QED BY ONLY <1>1, <1>3, <1>4, ByInduction
<1>6. PICK g : Runs(M, g)
  BY <1>1, <1>5, M \in 0..M
<1> DEFINE f == [d \in 0..M |-> g[d]]
<1>7. f = Body(f)
  <2>1. ASSUME NEW d \in 0..M PROVE g[d] = DumpOver(SafeTrees[d], f[d - 1])
    <3>1. CASE d = 0
      BY <1>2, <1>6, <3>1
    <3>2. CASE d # 0
      <4>1. d \in 1..M /\ d - 1 \in 0..M
        BY <1>1, <3>2
      <4>2. g[d] = DumpOver(SafeTrees[d], g[d - 1]) /\ f[d - 1] = g[d - 1]
        BY <1>6, <4>1
      <4> HIDE DEF f
      <4> QED BY <4>2
    <3> QED BY <3>1, <3>2
  <2> QED BY <2>1
<1>8. Dump = CHOOSE t : t = Body(t)
  BY DEF Dump, M, DumpOver
<1>9. Dump = Body(Dump)
  <2> HIDE DEF Body, f
  <2> QED BY <1>7, <1>8
<1> DEFINE T == Dump
<1> HIDE DEF T
<1>10. T = Body(T)
  BY <1>9 DEF T
<1>11. T[0] = Least /\ \A d \in 1..M : T[d] = DumpOver(SafeTrees[d], T[d - 1])
  <2>1. \A d \in 0..M : T[d] = DumpOver(SafeTrees[d], T[d - 1])
    BY <1>10
  <2>2. 0 \in 0..M /\ \A d \in 1..M : d \in 0..M
    BY <1>1
  <2> QED BY <1>2, <2>1, <2>2
<1> QED BY <1>11 DEF T, M, Least

(* What the stream may hold. *)
Tokens == Words \cup Names \cup Payloads

-----------------------------------------------------------------------------
(* What a concatenation is, string by string. *)
LEMMA JoinType ==
  ASSUME NEW T, NEW p, p \in Seq(T), NEW q, q \in Seq(T)
  PROVE  /\ p \o q \in Seq(T) /\ Len(p \o q) = Len(p) + Len(q)
         /\ \A i \in 1..Len(p) : (p \o q)[i] = p[i]
         /\ \A i \in Len(p) + 1..Len(p) + Len(q) : (p \o q)[i] = q[i - Len(p)]
  OBVIOUS

(* Two sequences with the same elements are the same. *)
LEMMA SameSeq ==
  ASSUME NEW T, NEW p, p \in Seq(T), NEW q, q \in Seq(T), Len(p) = Len(q),
         \A i \in 1..Len(p) : p[i] = q[i]
  PROVE  p = q
  OBVIOUS

(* One string more, and one part after another, as names the provers do not expand. *)
Then(p, x) == Append(p, x)
Cat(p, q)  == p \o q

(* The parts of a stream may be put together in any order. *)
LEMMA CatAssoc ==
  ASSUME NEW T, NEW p, p \in Seq(T), NEW q, q \in Seq(T), NEW r, r \in Seq(T)
  PROVE  Cat(Cat(p, q), r) = Cat(p, Cat(q, r)) /\ Cat(p, q) \in Seq(T)
<1> DEFINE a == Len(p)
           b == Len(q)
           c == Len(r)
           pq == p \o q
           qr == q \o r
           left == pq \o r
           right == p \o qr
<1>1. a \in Nat /\ b \in Nat /\ c \in Nat
  OBVIOUS
<1>2. /\ pq \in Seq(T) /\ Len(pq) = a + b
      /\ \A i \in 1..a : pq[i] = p[i]
      /\ \A i \in a + 1..a + b : pq[i] = q[i - a]
  BY ONLY p \in Seq(T), q \in Seq(T), JoinType
<1>3. /\ qr \in Seq(T) /\ Len(qr) = b + c
      /\ \A i \in 1..b : qr[i] = q[i]
      /\ \A i \in b + 1..b + c : qr[i] = r[i - b]
  BY ONLY q \in Seq(T), r \in Seq(T), JoinType
<1> HIDE DEF a, b, c, pq, qr
<1>4. /\ left \in Seq(T) /\ Len(left) = Len(pq) + c
      /\ \A i \in 1..Len(pq) : left[i] = pq[i]
      /\ \A i \in Len(pq) + 1..Len(pq) + c : left[i] = r[i - Len(pq)]
  <2>1. pq \in Seq(T)
    BY <1>2
  <2> QED BY ONLY <2>1, r \in Seq(T), JoinType DEF c
<1>5. /\ right \in Seq(T) /\ Len(right) = a + Len(qr)
      /\ \A i \in 1..a : right[i] = p[i]
      /\ \A i \in a + 1..a + Len(qr) : right[i] = qr[i - a]
  <2>1. qr \in Seq(T)
    BY <1>3
  <2> QED BY ONLY <2>1, p \in Seq(T), JoinType DEF a
<1> HIDE DEF left, right
<1>6. Len(left) = a + b + c /\ Len(right) = a + b + c
  BY <1>1, <1>2, <1>3, <1>4, <1>5
<1>7. ASSUME NEW i \in 1..a + b + c PROVE left[i] = right[i]
  <2>1. CASE i \in 1..a
    <3>1. i \in 1..Len(pq)
      BY <1>1, <1>2, <2>1
    <3> QED BY <1>2, <1>4, <1>5, <2>1, <3>1
  <2>2. CASE i \in a + 1..a + b
    <3>1. i \in 1..Len(pq) /\ i \in a + 1..a + Len(qr) /\ i - a \in 1..b
      BY <1>1, <1>2, <1>3, <2>2
    <3>2. left[i] = q[i - a]
      BY <1>2, <1>4, <2>2, <3>1
    <3>3. right[i] = q[i - a]
      BY <1>3, <1>5, <3>1
    <3> QED BY <3>2, <3>3
  <2>3. CASE i \in a + b + 1..a + b + c
    <3>1. /\ i \in Len(pq) + 1..Len(pq) + c /\ i \in a + 1..a + Len(qr)
          /\ i - a \in b + 1..b + c /\ i - Len(pq) = (i - a) - b
      BY <1>1, <1>2, <1>3, <2>3
    <3>2. left[i] = r[(i - a) - b]
      BY <1>4, <3>1
    <3>3. right[i] = r[(i - a) - b]
      BY <1>3, <1>5, <3>1
    <3> QED BY <3>2, <3>3
  <2> QED BY <1>1, <2>1, <2>2, <2>3
<1>8. left = right
  BY ONLY <1>4, <1>5, <1>6, <1>7, SameSeq
<1> QED BY <1>2, <1>8 DEF Cat, left, right, pq, qr

(* Nothing before or after changes nothing. *)
LEMMA JoinNone ==
  ASSUME NEW T, NEW p, p \in Seq(T)
  PROVE  p \o <<>> = p /\ <<>> \o p = p
  OBVIOUS

(* One string more is a part of one string more. *)
LEMMA ThenIsCat ==
  ASSUME NEW T, NEW p, p \in Seq(T), NEW x, x \in T
  PROVE  Then(p, x) = Cat(p, <<x>>) /\ <<x>> \in Seq(T) /\ Then(p, x) \in Seq(T)
<1>1. <<x>> \in Seq(T) /\ Append(p, x) \in Seq(T)
  OBVIOUS
<1>2. Append(p, x) = p \o <<x>>
  OBVIOUS
<1> QED BY <1>1, <1>2 DEF Then, Cat

(* A string more at the end of the second part. *)
LEMMA ThenAfter ==
  ASSUME NEW T, NEW p, p \in Seq(T), NEW q, q \in Seq(T), NEW x, x \in T
  PROVE  Then(Cat(p, q), x) = Cat(p, Then(q, x))
<1> DEFINE y == <<x>>
<1>1. y \in Seq(T) /\ Then(q, x) = Cat(q, y)
  BY ThenIsCat
<1>2. Cat(p, q) \in Seq(T)
  BY CatAssoc
<1>3. Then(Cat(p, q), x) = Cat(Cat(p, q), y)
  BY ONLY <1>2, x \in T, ThenIsCat
<1> HIDE DEF y
<1>4. Cat(Cat(p, q), y) = Cat(p, Cat(q, y))
  BY ONLY <1>1, p \in Seq(T), q \in Seq(T), CatAssoc
<1> QED BY <1>1, <1>3, <1>4

-----------------------------------------------------------------------------
(* The words, the names and the payloads may come in the stream. *)
LEMMA SomeTokens ==
  /\ "(" \in Tokens /\ ")" \in Tokens /\ "type" \in Tokens /\ "regular" \in Tokens
  /\ "symlink" \in Tokens /\ "directory" \in Tokens /\ "executable" \in Tokens
  /\ Empty \in Tokens /\ "contents" \in Tokens /\ "target" \in Tokens /\ "entry" \in Tokens
  /\ "name" \in Tokens /\ "node" \in Tokens /\ Magic \in Tokens
  /\ \A n \in Names : n \in Tokens
  /\ \A p \in Payloads : p \in Tokens
  BY DEF Tokens, Words

(* What is listed: names, and trees that dump knows. *)
Lists(es, S, dump) ==
  es \in Seq([name : Names, node : S]) /\ \A n \in S : dump[n] \in Seq(Tokens)

(* The strings of an entry are strings of the stream. *)
LEMMA EntryType ==
  ASSUME NEW S, NEW dump, \A n \in S : dump[n] \in Seq(Tokens),
         NEW e, e \in [name : Names, node : S]
  PROVE  Entry(e, dump) \in Seq(Tokens)
<1> DEFINE head == <<"entry", "(", "name", e.name, "node">>
           d == dump[e.node]
<1>1. d \in Seq(Tokens)
  OBVIOUS
<1>2. e.name \in Tokens
  BY SomeTokens
<1>3. head \in Seq(Tokens)
  BY <1>2, SomeTokens
<1>4. <<")">> \in Seq(Tokens)
  BY SomeTokens
<1>5. Entry(e, dump) = head \o d \o <<")">>
  BY DEF Entry
<1> HIDE DEF head, d
<1>6. head \o d \in Seq(Tokens)
  BY <1>1, <1>3, JoinType
<1> QED BY <1>4, <1>5, <1>6, JoinType

(* The strings of the first entries, one entry after the other. *)
IsListing(es, dump, f) ==
  /\ f[0] = <<>>
  /\ \A k \in 1..Len(es) : f[k] = f[k - 1] \o Entry(es[k], dump)

(* Listing goes through the entries from the first to the last. *)
LEMMA ListingIs ==
  ASSUME NEW es, NEW dump, Len(es) \in Nat
  PROVE  \E f : IsListing(es, dump, f) /\ Listing(es, dump) = f[Len(es)]
<1> DEFINE M == Len(es)
           E(k) == Entry(es[k], dump)
           Body(g) == [k \in 0..M |-> IF k = 0 THEN <<>> ELSE g[k - 1] \o E(k)]
           Runs(k, g) == g[0] = <<>> /\ \A d \in 1..k : g[d] = g[d - 1] \o E(d)
           Good == {k \in 0..M : \E g : Runs(k, g)}
<1>1. M \in Nat
  OBVIOUS
<1>2. Listing(es, dump) = (CHOOSE t : t = Body(t))[M]
  BY DEF Listing
<1> HIDE DEF M, E
<1>3. 0 \in Good
  <2> DEFINE g == [i \in 0..0 |-> <<>>]
  <2>1. Runs(0, g)
    OBVIOUS
  <2> HIDE DEF g, Runs
  <2> QED BY <1>1, <2>1
<1>4. ASSUME NEW k \in 1..M, k - 1 \in Good PROVE k \in Good
  <2>1. PICK h : Runs(k - 1, h)
    BY <1>4
  <2> DEFINE g == [i \in 0..k |-> IF i = k THEN h[k - 1] \o E(k) ELSE h[i]]
  <2>2. \A i \in 0..k - 1 : g[i] = h[i]
    BY <1>1
  <2>3. g[k] = h[k - 1] \o E(k)
    BY <1>1
  <2> HIDE DEF g
  <2>4. g[0] = <<>>
    BY <2>1, <2>2, 0 \in 0..k - 1
  <2>5. ASSUME NEW d \in 1..k PROVE g[d] = g[d - 1] \o E(d)
    <3>1. d - 1 \in 0..k - 1
      OBVIOUS
    <3>2. CASE d = k
      BY <2>2, <2>3, <3>1, <3>2
    <3>3. CASE d # k
      <4>1. d \in 1..k - 1 /\ d \in 0..k - 1
        BY <3>3
      <4>2. h[d] = h[d - 1] \o E(d)
        BY <2>1, <4>1
      <4> QED BY <2>2, <3>1, <4>1, <4>2
    <3> QED BY <3>2, <3>3
  <2>6. Runs(k, g)
    BY <2>4, <2>5
  <2> HIDE DEF Runs
  <2> QED BY <2>6, k \in 0..M
<1>5. \A k \in 0..M : k \in Good
  <2> HIDE DEF Good
  <2> QED BY ONLY <1>1, <1>3, <1>4, ByInduction
<1>6. PICK g : Runs(M, g)
  BY <1>1, <1>5, M \in 0..M
<1> DEFINE f == [d \in 0..M |-> g[d]]
<1>7. f = Body(f)
  <2>1. ASSUME NEW d \in 0..M PROVE g[d] = IF d = 0 THEN <<>> ELSE f[d - 1] \o E(d)
    <3>1. CASE d = 0
      BY <1>6, <3>1
    <3>2. CASE d # 0
      <4>1. d \in 1..M /\ d - 1 \in 0..M
        BY <1>1, <3>2
      <4>2. g[d] = g[d - 1] \o E(d) /\ f[d - 1] = g[d - 1]
        BY <1>6, <4>1
      <4> HIDE DEF f
      <4> QED BY <3>2, <4>2
    <3> QED BY <3>1, <3>2
  <2> QED BY <2>1
<1> DEFINE t == CHOOSE t : t = Body(t)
<1>8. t = Body(t)
  <2> HIDE DEF Body, f
  <2> QED BY <1>7
<1> HIDE DEF t
<1>9. t[0] = <<>> /\ \A d \in 1..M : t[d] = t[d - 1] \o E(d)
  <2>1. \A d \in 0..M : t[d] = IF d = 0 THEN <<>> ELSE t[d - 1] \o E(d)
    BY <1>8
  <2>2. 0 \in 0..M /\ \A d \in 1..M : d \in 0..M /\ d # 0
    BY <1>1
  <2> QED BY <2>1, <2>2
<1>10. IsListing(es, dump, t)
  BY <1>9 DEF IsListing, M, E
<1>11. Listing(es, dump) = t[M]
  BY <1>2 DEF t
<1> QED BY <1>10, <1>11 DEF M

(* The strings of a list of entries are strings of the stream. *)
LEMMA ListingType ==
  ASSUME NEW S, NEW dump, NEW es, Lists(es, S, dump)
  PROVE  Listing(es, dump) \in Seq(Tokens)
<1>1. Len(es) \in Nat /\ \A k \in 1..Len(es) : es[k] \in [name : Names, node : S]
  <2> DEFINE E == [name : Names, node : S]
  <2>1. es \in Seq(E)
    BY DEF Lists
  <2> HIDE DEF E
  <2>2. Len(es) \in Nat /\ \A k \in 1..Len(es) : es[k] \in E
    BY ONLY <2>1
  <2> QED BY <2>2 DEF E
<1>2. PICK f : IsListing(es, dump, f) /\ Listing(es, dump) = f[Len(es)]
  BY <1>1, ListingIs
<1> DEFINE M == Len(es)
           Good == {k \in 0..M : f[k] \in Seq(Tokens)}
<1>3. 0 \in Good
  <2>1. f[0] = <<>> /\ <<>> \in Seq(Tokens)
    BY <1>2 DEF IsListing
  <2>2. 0 \in 0..M
    BY <1>1
  <2> QED BY <2>1, <2>2
<1>4. ASSUME NEW k \in 1..M, k - 1 \in Good PROVE k \in Good
  <2> DEFINE e == es[k]
  <2>1. e \in [name : Names, node : S] /\ \A n \in S : dump[n] \in Seq(Tokens)
    BY <1>1 DEF Lists
  <2> HIDE DEF e
  <2>2. Entry(e, dump) \in Seq(Tokens)
    BY ONLY <2>1, EntryType
  <2>3. f[k] = f[k - 1] \o Entry(e, dump)
    BY <1>2 DEF IsListing, e
  <2>4. f[k - 1] \in Seq(Tokens)
    BY <1>4
  <2>5. f[k] \in Seq(Tokens)
    BY <2>2, <2>3, <2>4, JoinType
  <2> QED BY <2>5, <1>1
<1>5. \A k \in 0..M : k \in Good
  <2>1. M \in Nat
    BY <1>1
  <2> HIDE DEF Good, M
  <2> QED BY ONLY <1>3, <1>4, <2>1, ByInduction
<1>6. M \in 0..M
  BY <1>1
<1> QED BY <1>2, <1>5, <1>6

(* No entries, no strings. *)
LEMMA ListingNone == ASSUME NEW dump PROVE Listing(<<>>, dump) = <<>>
<1>1. Len(<<>>) = 0 /\ Len(<<>>) \in Nat
  OBVIOUS
<1> DEFINE es == <<>>
<1> HIDE DEF es
<1>2. PICK f : IsListing(es, dump, f) /\ Listing(es, dump) = f[Len(es)]
  BY <1>1, ListingIs DEF es
<1>3. Listing(es, dump) = <<>>
  BY <1>1, <1>2 DEF IsListing, es
<1> QED BY <1>3 DEF es

(* One more entry at the end adds its strings at the end. *)
LEMMA ListingOneMore ==
  ASSUME NEW S, NEW es, es \in Seq(S), NEW e, e \in S, NEW dump
  PROVE  Listing(Append(es, e), dump) = Listing(es, dump) \o Entry(e, dump)
<1> DEFINE M == Len(es)
           fs == Append(es, e)
<1>1. M \in Nat /\ Len(fs) = M + 1 /\ fs[M + 1] = e /\ \A k \in 1..M : fs[k] = es[k]
  OBVIOUS
<1> HIDE DEF fs
<1>2. PICK f : IsListing(es, dump, f) /\ Listing(es, dump) = f[M]
  BY <1>1, ListingIs
<1>3. PICK g : IsListing(fs, dump, g) /\ Listing(fs, dump) = g[M + 1]
  <2>1. Len(fs) \in Nat
    BY <1>1
  <2>2. PICK g : IsListing(fs, dump, g) /\ Listing(fs, dump) = g[Len(fs)]
    BY ONLY <2>1, ListingIs
  <2> QED BY <1>1, <2>2
<1> DEFINE Good == {k \in 0..M : f[k] = g[k]}
<1>4. 0 \in Good
  BY <1>1, <1>2, <1>3 DEF IsListing
<1>5. ASSUME NEW k \in 1..M, k - 1 \in Good PROVE k \in Good
  <2>1. k \in 1..Len(fs) /\ k \in 0..M
    BY <1>1
  <2>2. f[k] = f[k - 1] \o Entry(es[k], dump)
    BY <1>2 DEF IsListing
  <2>3. g[k] = g[k - 1] \o Entry(fs[k], dump)
    BY <1>3, <2>1 DEF IsListing
  <2>4. f[k - 1] = g[k - 1] /\ fs[k] = es[k]
    BY <1>1, <1>5
  <2> QED BY <2>1, <2>2, <2>3, <2>4
<1>6. \A k \in 0..M : k \in Good
  <2>1. M \in Nat
    BY <1>1
  <2> HIDE DEF Good, M
  <2> QED BY ONLY <1>4, <1>5, <2>1, ByInduction
<1>7. f[M] = g[M]
  BY <1>1, <1>6, M \in 0..M
<1>8. g[M + 1] = g[M] \o Entry(fs[M + 1], dump)
  <2>1. M + 1 \in 1..Len(fs) /\ (M + 1) - 1 = M
    BY <1>1
  <2> QED BY <1>3, <2>1 DEF IsListing
<1> QED BY <1>1, <1>2, <1>3, <1>7, <1>8 DEF fs

(* The strings of a leaf are strings of the stream. *)
LEMMA LeafDumpType == \A n \in Leaves : LeafDump(n) \in Seq(Tokens)
<1> SUFFICES ASSUME NEW n \in Leaves PROVE LeafDump(n) \in Seq(Tokens)
  OBVIOUS
<1>1. CASE \E t \in Payloads : n = Symlink(t)
  <2>1. PICK t \in Payloads : n = Symlink(t)
    BY <1>1
  <2>2. LeafDump(n) = <<"(", "type", "symlink", "target", t, ")">>
    BY <2>1 DEF LeafDump, Symlink
  <2>3. t \in Tokens
    BY SomeTokens
  <2> QED BY <2>2, <2>3, SomeTokens
<1>2. CASE \E x \in BOOLEAN, c \in Payloads : n = Regular(x, c)
  <2>1. PICK x \in BOOLEAN, c \in Payloads : n = Regular(x, c)
    BY <1>2
  <2>2. c \in Tokens
    BY SomeTokens
  <2>3. CASE x
    <3>1. LeafDump(n) = <<"(", "type", "regular", "executable", Empty, "contents", c, ")">>
      BY <2>1, <2>3 DEF LeafDump, Regular
    <3> QED BY <2>2, <3>1, SomeTokens
  <2>4. CASE ~x
    <3>1. LeafDump(n) = <<"(", "type", "regular", "contents", c, ")">>
      BY <2>1, <2>4 DEF LeafDump, Regular
    <3> QED BY <2>2, <3>1, SomeTokens
  <2> QED BY <2>3, <2>4
<1> QED BY <1>1, <1>2 DEF Leaves

(* The strings of a tree are strings of the stream, at any depth. *)
LEMMA DumpType ==
  ASSUME NEW d \in 0..MaxDepth, NEW n \in SafeTrees[d]
  PROVE  Dump[d][n] \in Seq(Tokens)
<1> DEFINE M == MaxDepth
           Good == {k \in 0..M : \A t \in SafeTrees[k] : Dump[k][t] \in Seq(Tokens)}
<1>1. M \in Nat
  BY ParserAssumption
<1>2. 0 \in Good
  <2>1. \A t \in SafeTrees[0] : Dump[0][t] \in Seq(Tokens)
    BY SafeTreesAre, DumpsAre, LeafDumpType
  <2> QED BY <1>1, <2>1
<1>3. ASSUME NEW k \in 1..M, k - 1 \in Good PROVE k \in Good
  <2> DEFINE S == SafeTrees[k - 1]
             inner == Dump[k - 1]
  <2>1. \A t \in S : inner[t] \in Seq(Tokens)
    BY <1>3
  <2>2. SafeTrees[k] = Leaves \cup DirectoriesOf(S)
    BY SafeTreesAre
  <2>3. Dump[k] = DumpOver(SafeTrees[k], inner)
    BY DumpsAre
  <2> HIDE DEF S, inner
  <2>4. ASSUME NEW t \in SafeTrees[k] PROVE Dump[k][t] \in Seq(Tokens)
    <3>1. Dump[k][t] = IF t.type # "directory" THEN LeafDump(t)
                       ELSE <<"(", "type", "directory">> \o Listing(t.entries, inner) \o <<")">>
      BY <2>3 DEF DumpOver
    <3>2. CASE t \in Leaves
      BY <3>1, <3>2, LeafTypes, LeafDumpType
    <3>3. CASE t \in DirectoriesOf(S)
      <4> DEFINE es == t.entries
                 o == <<"(", "type", "directory">>
      <4>1. t.type = "directory" /\ es \in Seq([name : Names, node : S])
        BY <3>3 DEF DirectoriesOf
      <4>2. Lists(es, S, inner)
        BY <2>1, <4>1 DEF Lists
      <4> HIDE DEF es
      <4>3. Listing(es, inner) \in Seq(Tokens)
        BY <4>2, ListingType
      <4>4. o \in Seq(Tokens) /\ <<")">> \in Seq(Tokens)
        BY SomeTokens
      <4>5. Dump[k][t] = o \o Listing(es, inner) \o <<")">>
        BY <3>1, <4>1 DEF es
      <4> HIDE DEF o
      <4>6. o \o Listing(es, inner) \in Seq(Tokens)
        BY <4>3, <4>4, JoinType
      <4> QED BY <4>4, <4>5, <4>6, JoinType
    <3> QED BY <2>2, <3>2, <3>3
  <2> QED BY <1>1, <2>4
<1>4. \A k \in 0..M : k \in Good
  <2> HIDE DEF Good, M
  <2> QED BY ONLY <1>1, <1>2, <1>3, ByInduction
<1> QED BY <1>4

-----------------------------------------------------------------------------
(* What has been read, by the open directories and the place in the innermost one. *)

NameOf(f) == CHOOSE n \in f.last : TRUE
HeadOf(f) == <<"entry", "(", "name", NameOf(f), "node">>
Opening   == <<"(", "type", "directory">>

(* pre[k]: read up to the last whole entry of the k-th open directory.  A node *)
(* begins after it and the head of the entry the node is in, if it is in one.  *)
Before(pre, st, k) == IF k = 0 THEN pre[0] ELSE pre[k] \o HeadOf(st[k])

Directories(pre, st, m) ==
  /\ pre[0] = <<Magic>>
  /\ \A k \in 0..m : pre[k] \in Seq(Tokens)
  /\ \A k \in 1..m :
       /\ st[k].entries \in Seq([name : Names, node : SafeTrees[MaxDepth - k]])
       /\ pre[k] = Before(pre, st, k - 1) \o Opening \o Listing(st[k].entries, Dump[MaxDepth - k])

(* What of a node, and of a directory's next entry, has been read where the   *)
(* code reads the string of a label.                                          *)
InNode ==
  [open     |-> <<>>,
   type     |-> <<"(">>,
   kind     |-> <<"(", "type">>,
   target   |-> <<"(", "type", "symlink">>,
   link     |-> <<"(", "type", "symlink", "target">>,
   body     |-> <<"(", "type", "regular">>,
   data     |-> <<"(", "type", "regular", "contents">>,
   blank    |-> <<"(", "type", "regular", "executable">>,
   contents |-> <<"(", "type", "regular", "executable", Empty>>,
   execData |-> <<"(", "type", "regular", "executable", Empty, "contents">>]

InDirectory ==
  [directory |-> <<>>,
   entryOpen |-> <<"entry">>,
   entryName |-> <<"entry", "(">>,
   name      |-> <<"entry", "(", "name">>]

ReadSoFar(pre, r, e, st, nd) ==
  LET n == Len(st)
      here == Before(pre, st, n)
      dump == Dump[MaxDepth - n][nd]
  IN  /\ Directories(pre, st, n)
      /\ e \in DOMAIN InNode => r = here \o InNode[e]
      /\ e \in DOMAIN InDirectory => r = pre[n] \o InDirectory[e]
      /\ e = "entryNode" => r = pre[n] \o <<"entry", "(", "name", NameOf(st[n])>>
      /\ e \in {"close", "entryClose"} => nd \in SafeTrees[MaxDepth - n]
      /\ e = "entryClose" => r = here \o dump
      /\ e = "close" => IF nd.type = "directory" THEN n = 0 /\ r = here \o dump
                        ELSE Then(r, ")") = here \o dump

ArchiveInv ==
  /\ read \in Seq(Tokens)
  /\ result = "ok" => node \in SafeTrees[MaxDepth] /\ read = Wire(node)
  /\ result = "reading" =>
       IF expect = "magic" THEN stack = <<>> /\ read = <<>>
       ELSE \E pre : ReadSoFar(pre, read, expect, stack, node)

-----------------------------------------------------------------------------
(* Within an entry, last_name is its name. *)
LEMMA NameIs == ASSUME NEW f, Pending(f) PROVE NameOf(f) \in Names /\ f.last = {NameOf(f)}
<1>1. PICK n \in Names : f.last = {n}
  BY DEF Pending
<1>2. NameOf(f) = n
  BY <1>1 DEF NameOf
<1> QED BY <1>1, <1>2

(* The head of an entry is made of strings of the stream. *)
LEMMA HeadType == ASSUME NEW f, Pending(f) PROVE HeadOf(f) \in Seq(Tokens)
<1> DEFINE n == NameOf(f)
<1>1. n \in Tokens
  BY NameIs, SomeTokens
<1> HIDE DEF n
<1>2. <<"entry", "(", "name", n, "node">> \in Seq(Tokens)
  BY <1>1, SomeTokens
<1> QED BY <1>2 DEF HeadOf, n

(* What the invariant of the stack says of it here. *)
LEMMA StackIs ==
  ASSUME IInv, NEW n, n = Len(stack)
  PROVE  /\ n \in Nat /\ n <= MaxDepth /\ MaxDepth - n \in 0..MaxDepth
         /\ \A k \in 1..n : k # n \/ expect \notin Between => Pending(stack[k])
         /\ \A k \in 1..n : Ascending(stack[k].entries)
         /\ expect \in Between \cup {"entryNode", "entryClose"} => n >= 1
         /\ stack = <<>> <=> n = 0
<1>1. PICK N : stack \in Seq(Frame(N))
  BY DEF IInv, TypeInv
<1>2. n \in Nat /\ (stack = <<>> <=> n = 0)
  BY <1>1
<1>3. n <= MaxDepth /\ MaxDepth - n \in 0..MaxDepth
  BY <1>2, ParserAssumption DEF IInv, TypeInv
<1>4. \A k \in 1..n : k # n \/ expect \notin Between => Pending(stack[k])
  BY DEF IInv, StackInv
<1>5. \A k \in 1..n : Ascending(stack[k].entries)
  BY DEF IInv, StackInv, Settled, Pending
<1>6. expect \in Between \cup {"entryNode", "entryClose"} => n >= 1
  BY <1>2 DEF IInv, StackInv
<1> QED BY <1>2, <1>3, <1>4, <1>5, <1>6

(* What comes before a node is made of strings of the stream. *)
LEMMA BeforeType ==
  ASSUME IInv, NEW n, n = Len(stack), NEW pre, Directories(pre, stack, n), NEW k, k \in 0..n,
         k # n \/ expect \notin Between
  PROVE  Before(pre, stack, k) \in Seq(Tokens)
<1>1. n \in Nat /\ \A i \in 1..n : i # n \/ expect \notin Between => Pending(stack[i])
  BY StackIs
<1>2. pre[k] \in Seq(Tokens)
  BY DEF Directories
<1>3. CASE k = 0
  BY <1>2, <1>3 DEF Before
<1>4. CASE k # 0
  <2> DEFINE h == HeadOf(stack[k])
  <2>1. Pending(stack[k])
    BY <1>1, <1>4
  <2>2. h \in Seq(Tokens)
    BY <2>1, HeadType
  <2> HIDE DEF h
  <2>3. pre[k] \o h \in Seq(Tokens)
    BY <1>2, <2>2, JoinType
  <2> QED BY <1>4, <2>3 DEF Before, h
<1> QED BY <1>3, <1>4

(* The directories below the innermost one stay what they are. *)
LEMMA DirectoriesKept ==
  ASSUME NEW m, m \in Nat, NEW pre, NEW st, Directories(pre, st, m), NEW p2, NEW s2,
         \A k \in 0..m : p2[k] = pre[k],
         \A k \in 1..m : s2[k].entries = st[k].entries,
         \A k \in 1..m - 1 : s2[k].last = st[k].last
  PROVE  Directories(p2, s2, m)
<1>1. p2[0] = <<Magic>> /\ \A k \in 0..m : p2[k] \in Seq(Tokens)
  BY DEF Directories
<1>2. ASSUME NEW k \in 1..m
      PROVE  /\ s2[k].entries \in Seq([name : Names, node : SafeTrees[MaxDepth - k]])
             /\ p2[k] = Before(p2, s2, k - 1) \o Opening
                          \o Listing(s2[k].entries, Dump[MaxDepth - k])
  <2>1. /\ st[k].entries \in Seq([name : Names, node : SafeTrees[MaxDepth - k]])
        /\ pre[k] = Before(pre, st, k - 1) \o Opening \o Listing(st[k].entries, Dump[MaxDepth - k])
    BY DEF Directories
  <2>2. k \in 0..m /\ k - 1 \in 0..m /\ (k - 1 # 0 => k - 1 \in 1..m - 1)
    OBVIOUS
  <2>3. k - 1 # 0 => HeadOf(s2[k - 1]) = HeadOf(st[k - 1])
    BY <2>2 DEF HeadOf, NameOf
  <2>4. Before(p2, s2, k - 1) = Before(pre, st, k - 1)
    BY <2>2, <2>3 DEF Before
  <2>5. s2[k].entries = st[k].entries /\ p2[k] = pre[k]
    BY <2>2
  <2> QED BY <2>1, <2>4, <2>5
<1> QED BY <1>1, <1>2 DEF Directories

(* And one more is opened, or the innermost one has one entry more. *)
LEMMA DirectoriesOneMore ==
  ASSUME NEW m, m \in Nat, NEW pre, NEW st, Directories(pre, st, m),
         pre[m + 1] \in Seq(Tokens),
         st[m + 1].entries \in Seq([name : Names, node : SafeTrees[MaxDepth - (m + 1)]]),
         pre[m + 1] = Before(pre, st, m) \o Opening
                        \o Listing(st[m + 1].entries, Dump[MaxDepth - (m + 1)])
  PROVE  Directories(pre, st, m + 1)
<1>1. \A k \in 0..m + 1 : k \in 0..m \/ k = m + 1
  OBVIOUS
<1>2. \A k \in 1..m + 1 : k \in 1..m \/ k = m + 1
  OBVIOUS
<1>3. (m + 1) - 1 = m
  OBVIOUS
<1> QED BY <1>1, <1>2, <1>3 DEF Directories

(* The directories around an open one are open too. *)
LEMMA DirectoriesFewer ==
  ASSUME NEW m, m \in Nat, NEW l, l \in 0..m, NEW pre, NEW st, Directories(pre, st, m)
  PROVE  Directories(pre, st, l)
<1>1. (\A k \in 0..l : k \in 0..m) /\ \A k \in 1..l : k \in 1..m
  OBVIOUS
<1> QED BY <1>1 DEF Directories

-----------------------------------------------------------------------------
(* Steps *)

(* The labels, one by one. *)
LEMMA NodeLabels ==
  /\ DOMAIN InNode = {"open", "type", "kind", "target", "link", "body", "data", "blank",
                      "contents", "execData"}
  /\ InNode["open"] = <<>>
  /\ InNode["type"] = <<"(">>
  /\ InNode["kind"] = <<"(", "type">>
  /\ InNode["target"] = <<"(", "type", "symlink">>
  /\ InNode["link"] = <<"(", "type", "symlink", "target">>
  /\ InNode["body"] = <<"(", "type", "regular">>
  /\ InNode["data"] = <<"(", "type", "regular", "contents">>
  /\ InNode["blank"] = <<"(", "type", "regular", "executable">>
  /\ InNode["contents"] = <<"(", "type", "regular", "executable", Empty>>
  /\ InNode["execData"] = <<"(", "type", "regular", "executable", Empty, "contents">>
  BY DEF InNode

(* The labels between two entries, one by one. *)
LEMMA DirectoryLabels ==
  /\ DOMAIN InDirectory = {"directory", "entryOpen", "entryName", "name"}
  /\ InDirectory["directory"] = <<>>
  /\ InDirectory["entryOpen"] = <<"entry">>
  /\ InDirectory["entryName"] = <<"entry", "(">>
  /\ InDirectory["name"] = <<"entry", "(", "name">>
  BY DEF InDirectory

(* What has been read of a node is made of strings of the stream. *)
LEMMA InNodeType == ASSUME NEW e, e \in DOMAIN InNode PROVE InNode[e] \in Seq(Tokens)
<1>1. InNode["open"] \in Seq(Tokens)
  BY NodeLabels, SomeTokens
<1>2. InNode["type"] \in Seq(Tokens)
  BY NodeLabels, SomeTokens
<1>3. InNode["kind"] \in Seq(Tokens)
  BY NodeLabels, SomeTokens
<1>4. InNode["target"] \in Seq(Tokens)
  BY NodeLabels, SomeTokens
<1>5. InNode["link"] \in Seq(Tokens)
  BY NodeLabels, SomeTokens
<1>6. InNode["body"] \in Seq(Tokens)
  BY NodeLabels, SomeTokens
<1>7. InNode["data"] \in Seq(Tokens)
  BY NodeLabels, SomeTokens
<1>8. InNode["blank"] \in Seq(Tokens)
  BY NodeLabels, SomeTokens
<1>9. InNode["contents"] \in Seq(Tokens)
  BY NodeLabels, SomeTokens
<1>10. InNode["execData"] \in Seq(Tokens)
  BY NodeLabels, SomeTokens
<1> QED BY ONLY e \in DOMAIN InNode, NodeLabels, <1>1, <1>2, <1>3, <1>4, <1>5,
           <1>6, <1>7, <1>8, <1>9, <1>10

(* And what has been read between two entries. *)
LEMMA InDirectoryType ==
  ASSUME NEW e, e \in DOMAIN InDirectory PROVE InDirectory[e] \in Seq(Tokens)
<1>1. InDirectory["directory"] \in Seq(Tokens)
  BY DirectoryLabels, SomeTokens
<1>2. InDirectory["entryOpen"] \in Seq(Tokens)
  BY DirectoryLabels, SomeTokens
<1>3. InDirectory["entryName"] \in Seq(Tokens)
  BY DirectoryLabels, SomeTokens
<1>4. InDirectory["name"] \in Seq(Tokens)
  BY DirectoryLabels, SomeTokens
<1> QED BY ONLY e \in DOMAIN InDirectory, DirectoryLabels, <1>1, <1>2, <1>3, <1>4

(* A string more at the end of the second part. *)
LEMMA OneTokenMore ==
  ASSUME NEW p, p \in Seq(Tokens), NEW q, q \in Seq(Tokens), NEW x, x \in Tokens
  PROVE  Then(Cat(p, q), x) = Cat(p, Then(q, x)) /\ Then(p, x) \in Seq(Tokens)
<1>1. Then(Cat(p, q), x) = Cat(p, Then(q, x))
  BY ThenAfter
<1>2. Then(p, x) \in Seq(Tokens)
  BY ThenIsCat
<1> QED BY <1>1, <1>2

(* A string is read within a node. *)
LEMMA NodeReads ==
  ASSUME IInv, NEW pre, ReadSoFar(pre, read, expect, stack, node), expect \in DOMAIN InNode,
         NEW s, s \in Tokens, NEW e, e \in DOMAIN InNode, InNode[e] = Then(InNode[expect], s)
  PROVE  ReadSoFar(pre, Then(read, s), e, stack, node)
<1> DEFINE n == Len(stack)
           here == Before(pre, stack, n)
           q == InNode[expect]
<1>1. Directories(pre, stack, n) /\ read = here \o q
  BY DEF ReadSoFar
<1>2. expect \notin Between
  BY DEF Between, InNode
<1>3. here \in Seq(Tokens)
  <2>1. n \in 0..n
    BY StackIs
  <2> HIDE DEF n
  <2>2. n = Len(stack)
    BY DEF n
  <2> QED BY ONLY IInv, <1>1, <1>2, <2>1, <2>2, BeforeType
<1>4. q \in Seq(Tokens)
  BY ONLY expect \in DOMAIN InNode, InNodeType
<1> HIDE DEF here, q, n
<1>5. Then(here \o q, s) = here \o Then(q, s)
  <2>1. Then(Cat(here, q), s) = Cat(here, Then(q, s))
    BY ONLY <1>3, <1>4, s \in Tokens, OneTokenMore
  <2> QED BY <2>1 DEF Cat
<1>6. Then(read, s) = here \o InNode[e]
  BY <1>1, <1>5 DEF q
<1>7. e \notin DOMAIN InDirectory /\ e # "entryNode" /\ e \notin {"close", "entryClose"}
  BY DEF InNode, InDirectory
<1> QED BY <1>1, <1>6, <1>7 DEF ReadSoFar, here, n

(* And between the names of two entries. *)
LEMMA DirectoryReads ==
  ASSUME IInv, NEW pre, ReadSoFar(pre, read, expect, stack, node), expect \in DOMAIN InDirectory,
         NEW s, s \in Tokens, NEW e, e \in DOMAIN InDirectory,
         InDirectory[e] = Then(InDirectory[expect], s)
  PROVE  ReadSoFar(pre, Then(read, s), e, stack, node)
<1> DEFINE n == Len(stack)
           p == pre[n]
           q == InDirectory[expect]
<1>1. Directories(pre, stack, n) /\ read = p \o q
  BY DEF ReadSoFar
<1>2. p \in Seq(Tokens)
  <2>1. n \in 0..n
    BY StackIs
  <2> QED BY <1>1, <2>1 DEF Directories
<1>3. q \in Seq(Tokens)
  BY ONLY expect \in DOMAIN InDirectory, InDirectoryType
<1> HIDE DEF p, q, n
<1>4. Then(p \o q, s) = p \o Then(q, s)
  <2>1. Then(Cat(p, q), s) = Cat(p, Then(q, s))
    BY ONLY <1>2, <1>3, s \in Tokens, OneTokenMore
  <2> QED BY <2>1 DEF Cat
<1>5. Then(read, s) = p \o InDirectory[e]
  BY <1>1, <1>4 DEF q
<1>6. e \notin DOMAIN InNode /\ e # "entryNode" /\ e \notin {"close", "entryClose"}
  BY DEF InNode, InDirectory
<1> QED BY <1>1, <1>5, <1>6 DEF ReadSoFar, p, n

(* Where a string is read, the invariant has told what was read before it. *)
LEMMA Known ==
  ASSUME ArchiveInv, NEW label, NEW s, s \in Tokens, Reads(label, s)
  PROVE  /\ read' = Then(read, s) /\ read' \in Seq(Tokens)
         /\ expect = label /\ result = "reading" /\ read \in Seq(Tokens)
         /\ label # "magic" => \E pre : ReadSoFar(pre, read, expect, stack, node)
<1>1. read' = Then(read, s) /\ expect = label /\ result = "reading"
  BY DEF Reads, Then
<1>2. read \in Seq(Tokens)
  BY DEF ArchiveInv
<1>3. Then(read, s) \in Seq(Tokens)
  BY ONLY <1>2, s \in Tokens, OneTokenMore
<1> QED BY <1>1, <1>2, <1>3 DEF ArchiveInv

(* The invariant, where the parser reads on. *)
LEMMA ReadsOn ==
  ASSUME read' \in Seq(Tokens), result' = "reading", expect' # "magic",
         NEW pre, ReadSoFar(pre, read', expect', stack', node')
  PROVE  ArchiveInv'
<1>1. result' # "ok"
  OBVIOUS
<1> QED BY <1>1 DEF ArchiveInv

(* Where it stops without an answer, nothing is claimed. *)
LEMMA Ends ==
  ASSUME read' \in Seq(Tokens), result' \in {"err", "eof"}
  PROVE  ArchiveInv'
  BY DEF ArchiveInv

-----------------------------------------------------------------------------
(* The magic string: a node comes. *)
LEMMA MagicRead ==
  ASSUME ArchiveInv, expect = "magic", result = "reading", read' = Then(read, Magic),
         read' \in Seq(Tokens), expect' = "open", UNCHANGED <<stack, node, result>>
  PROVE  ArchiveInv'
<1> DEFINE pre == [k \in 0..0 |-> <<Magic>>]
<1>1. stack = <<>> /\ read = <<>>
  BY DEF ArchiveInv
<1>2. read' = <<Magic>>
  BY <1>1 DEF Then
<1>3. Len(stack') = 0
  BY <1>1
<1>4. pre[0] = <<Magic>> /\ \A k \in 0..0 : pre[k] \in Seq(Tokens)
  BY SomeTokens
<1> HIDE DEF pre
<1>5. Directories(pre, stack', 0)
  BY <1>4 DEF Directories
<1>6. Before(pre, stack', 0) = <<Magic>>
  BY <1>4 DEF Before
<1>7. read' = <<Magic>> \o InNode["open"]
  BY <1>2, NodeLabels
<1>8. /\ expect' \notin DOMAIN InDirectory /\ expect' # "entryNode"
      /\ expect' \notin {"close", "entryClose"} /\ expect' # "magic"
  BY DirectoryLabels
<1>9. ReadSoFar(pre, read', expect', stack', node')
  BY <1>3, <1>5, <1>6, <1>7, <1>8 DEF ReadSoFar
<1> QED BY <1>8, <1>9, ReadsOn

(* The fifth string of the head of an entry. *)
LEMMA FifthToken ==
  ASSUME NEW a, NEW b, NEW c, NEW d, NEW e
  PROVE  Then(<<a, b, c, d>>, e) = <<a, b, c, d, e>>
<1> DEFINE T == {a, b, c, d, e}
           p == <<a, b, c, d>>
           q == <<a, b, c, d, e>>
           r == Append(p, e)
<1>1. /\ p \in Seq(T) /\ Len(p) = 4 /\ p[1] = a /\ p[2] = b /\ p[3] = c /\ p[4] = d
      /\ e \in T
  OBVIOUS
<1>2. /\ q \in Seq(T) /\ Len(q) = 5
      /\ q[1] = a /\ q[2] = b /\ q[3] = c /\ q[4] = d /\ q[5] = e
  OBVIOUS
<1> HIDE DEF p, q, T
<1>3. /\ r \in Seq(T) /\ Len(r) = 5 /\ r[5] = e
      /\ \A i \in 1..4 : r[i] = p[i]
  <2>1. p \in Seq(T) /\ e \in T
    BY <1>1
  <2>2. /\ r \in Seq(T) /\ Len(r) = Len(p) + 1 /\ r[Len(p) + 1] = e
        /\ \A i \in 1..Len(p) : r[i] = p[i]
    BY ONLY <2>1
  <2> HIDE DEF r
  <2> QED BY <1>1, <2>2
<1> HIDE DEF r
<1>4. ASSUME NEW i \in 1..5 PROVE r[i] = q[i]
  <2>1. i = 1 \/ i = 2 \/ i = 3 \/ i = 4 \/ i = 5
    OBVIOUS
  <2> QED BY <1>1, <1>2, <1>3, <2>1
<1>5. r = q
  BY ONLY <1>2, <1>3, <1>4, SameSeq
<1> QED BY <1>5 DEF Then, p, q, r

(* The node of an entry comes. *)
LEMMA NodeComes ==
  ASSUME IInv, NEW pre, ReadSoFar(pre, read, expect, stack, node), expect = "entryNode"
  PROVE  ReadSoFar(pre, Then(read, "node"), "open", stack, node)
<1> DEFINE n == Len(stack)
           p == pre[n]
           m == NameOf(stack[n])
           q == <<"entry", "(", "name", m>>
<1>1. Directories(pre, stack, n) /\ read = p \o q
  BY DEF ReadSoFar
<1>2. n \in 1..n /\ n \in 0..n /\ n # 0
  BY StackIs
<1>3. Pending(stack[n])
  <2>1. expect \notin Between
    BY DEF Between
  <2> QED BY <1>2, <2>1, StackIs
<1>4. p \in Seq(Tokens)
  BY <1>1, <1>2 DEF Directories
<1>5. m \in Tokens
  BY <1>3, NameIs, SomeTokens
<1> HIDE DEF m
<1>6. q \in Seq(Tokens) /\ Then(q, "node") = <<"entry", "(", "name", m, "node">>
  <2>1. q \in Seq(Tokens)
    BY ONLY <1>5, SomeTokens
  <2>2. Then(q, "node") = <<"entry", "(", "name", m, "node">>
    BY FifthToken
  <2> QED BY <2>1, <2>2
<1>7. Then(q, "node") = HeadOf(stack[n])
  BY <1>6 DEF HeadOf, m
<1> HIDE DEF p, q, n
<1>8. Then(p \o q, "node") = p \o Then(q, "node")
  <2>1. "node" \in Tokens
    BY SomeTokens
  <2>2. Then(Cat(p, q), "node") = Cat(p, Then(q, "node"))
    BY ONLY <1>4, <1>6, <2>1, OneTokenMore
  <2> QED BY <2>2 DEF Cat
<1>9. Then(read, "node") = Before(pre, stack, n)
  BY <1>1, <1>2, <1>7, <1>8 DEF Before, p
<1>10. Then(read, "node") \in Seq(Tokens)
  <2>1. expect \notin Between
    BY DEF Between
  <2>2. n = Len(stack)
    BY DEF n
  <2>3. Before(pre, stack, n) \in Seq(Tokens)
    BY ONLY IInv, <1>1, <1>2, <2>1, <2>2, BeforeType
  <2> QED BY <1>9, <2>3
<1>11. Then(read, "node") = Before(pre, stack, n) \o InNode["open"]
  BY <1>9, <1>10, NodeLabels, JoinNone
<1>12. /\ "open" \notin DOMAIN InDirectory
       /\ "open" \notin {"close", "entryClose"}
  BY DirectoryLabels
<1> QED BY <1>1, <1>11, <1>12 DEF ReadSoFar, n

(* What a string read in a node adds. *)
LEMMA NodeWords ==
  /\ InNode["type"] = Then(InNode["open"], "(")
  /\ InNode["kind"] = Then(InNode["type"], "type")
  /\ InNode["target"] = Then(InNode["kind"], "symlink")
  /\ InNode["link"] = Then(InNode["target"], "target")
  /\ InNode["body"] = Then(InNode["kind"], "regular")
  /\ InNode["data"] = Then(InNode["body"], "contents")
  /\ InNode["blank"] = Then(InNode["body"], "executable")
  /\ InNode["contents"] = Then(InNode["blank"], Empty)
  /\ InNode["execData"] = Then(InNode["contents"], "contents")
<1>1. InNode["type"] = Then(InNode["open"], "(")
  BY NodeLabels DEF Then
<1>2. InNode["kind"] = Then(InNode["type"], "type")
  BY NodeLabels DEF Then
<1>3. InNode["target"] = Then(InNode["kind"], "symlink")
  BY NodeLabels DEF Then
<1>4. InNode["link"] = Then(InNode["target"], "target")
  BY NodeLabels DEF Then
<1>5. InNode["body"] = Then(InNode["kind"], "regular")
  BY NodeLabels DEF Then
<1>6. InNode["data"] = Then(InNode["body"], "contents")
  BY NodeLabels DEF Then
<1>7. InNode["blank"] = Then(InNode["body"], "executable")
  BY NodeLabels DEF Then
<1>8. InNode["contents"] = Then(InNode["blank"], Empty)
  BY NodeLabels DEF Then
<1>9. InNode["execData"] = Then(InNode["contents"], "contents")
  BY NodeLabels DEF Then
<1> QED BY <1>1, <1>2, <1>3, <1>4, <1>5, <1>6, <1>7, <1>8, <1>9

(* What a string read between two entries adds. *)
LEMMA DirectoryWords ==
  /\ InDirectory["entryOpen"] = Then(InDirectory["directory"], "entry")
  /\ InDirectory["entryName"] = Then(InDirectory["entryOpen"], "(")
  /\ InDirectory["name"] = Then(InDirectory["entryName"], "name")
<1>1. InDirectory["entryOpen"] = Then(InDirectory["directory"], "entry")
  BY DirectoryLabels DEF Then
<1>2. InDirectory["entryName"] = Then(InDirectory["entryOpen"], "(")
  BY DirectoryLabels DEF Then
<1>3. InDirectory["name"] = Then(InDirectory["entryName"], "name")
  BY DirectoryLabels DEF Then
<1> QED BY <1>1, <1>2, <1>3

(* A string of a fixed place is read on, in a node or between the names. *)
LEMMA NodeOn ==
  ASSUME IInv, ArchiveInv, NEW label, label \in DOMAIN InNode, NEW s, s \in Tokens,
         Reads(label, s), NEW e, e \in DOMAIN InNode, InNode[e] = Then(InNode[label], s),
         Go(e), UNCHANGED <<stack, node>>
  PROVE  ArchiveInv'
<1>1. label # "magic" /\ e # "magic"
  BY NodeLabels
<1>2. /\ read' = Then(read, s) /\ read' \in Seq(Tokens) /\ expect = label /\ result = "reading"
      /\ \E pre : ReadSoFar(pre, read, expect, stack, node)
  BY <1>1, Known
<1>3. PICK pre : ReadSoFar(pre, read, expect, stack, node)
  BY <1>2
<1>4. ReadSoFar(pre, Then(read, s), e, stack, node)
  BY <1>2, <1>3, NodeReads
<1>5. expect' = e /\ result' = "reading"
  BY <1>2 DEF Go
<1>6. ReadSoFar(pre, read', expect', stack', node')
  BY <1>2, <1>4, <1>5
<1> QED BY <1>1, <1>2, <1>5, <1>6, ReadsOn

(* A string of a fixed place is read on between two entries. *)
LEMMA DirectoryOn ==
  ASSUME IInv, ArchiveInv, NEW label, label \in DOMAIN InDirectory, NEW s, s \in Tokens,
         Reads(label, s), NEW e, e \in DOMAIN InDirectory,
         InDirectory[e] = Then(InDirectory[label], s), Go(e), UNCHANGED <<stack, node>>
  PROVE  ArchiveInv'
<1>1. label # "magic" /\ e # "magic"
  BY DirectoryLabels
<1>2. /\ read' = Then(read, s) /\ read' \in Seq(Tokens) /\ expect = label /\ result = "reading"
      /\ \E pre : ReadSoFar(pre, read, expect, stack, node)
  BY <1>1, Known
<1>3. PICK pre : ReadSoFar(pre, read, expect, stack, node)
  BY <1>2
<1>4. ReadSoFar(pre, Then(read, s), e, stack, node)
  BY <1>2, <1>3, DirectoryReads
<1>5. expect' = e /\ result' = "reading"
  BY <1>2 DEF Go
<1>6. ReadSoFar(pre, read', expect', stack', node')
  BY <1>2, <1>4, <1>5
<1> QED BY <1>1, <1>2, <1>5, <1>6, ReadsOn

(* A string is refused. *)
LEMMA Refused ==
  ASSUME ArchiveInv, NEW label, NEW s, s \in Tokens, Reads(label, s), Refuse
  PROVE  ArchiveInv'
<1>1. read' \in Seq(Tokens)
  BY Known
<1> QED BY <1>1, Ends DEF Refuse

(* The table of keywords, label by label. *)
LEMMA Keywords ==
  /\ DOMAIN Keyword = {"magic", "open", "type", "blank", "contents", "target",
                       "entryOpen", "entryName", "entryNode"}
  /\ Keyword["magic"] = <<Magic, "open">> /\ Keyword["open"] = <<"(", "type">>
  /\ Keyword["type"] = <<"type", "kind">> /\ Keyword["blank"] = <<Empty, "contents">>
  /\ Keyword["contents"] = <<"contents", "execData">> /\ Keyword["target"] = <<"target", "link">>
  /\ Keyword["entryOpen"] = <<"(", "entryName">> /\ Keyword["entryName"] = <<"name", "name">>
  /\ Keyword["entryNode"] = <<"node", "open">>
  BY DEF Keyword

(* expect_str *)
LEMMA ExpectStrArchive ==
  ASSUME IInv, ArchiveInv, NEW s \in Words, NEW label \in DOMAIN Keyword, ExpectStr(label, s)
  PROVE  ArchiveInv'
<1>0. s \in Tokens
  BY DEF Tokens
<1>1. Reads(label, s)
  BY DEF ExpectStr
<1>2. CASE Refuse
  BY <1>0, <1>1, <1>2, Refused
<1> DEFINE w == Keyword[label][1]
           e == Keyword[label][2]
<1>3. CASE s = w /\ Go(e) /\ UNCHANGED <<stack, node>>
  <2>1. CASE label = "magic"
    <3>1. w = Magic /\ e = "open"
      BY <2>1, Keywords
    <3>2. read' = Then(read, s) /\ read' \in Seq(Tokens) /\ expect = label /\ result = "reading"
      BY <1>0, <1>1, Known
    <3> HIDE DEF w, e
    <3>3. expect' = "open" /\ result' = result
      BY <1>3, <3>1 DEF Go
    <3> QED BY <1>3, <2>1, <3>1, <3>2, <3>3, MagicRead
  <2>2. CASE label = "entryNode"
    <3>1. w = "node" /\ e = "open"
      BY <2>2, Keywords
    <3>2. /\ read' = Then(read, s) /\ read' \in Seq(Tokens) /\ expect = label
          /\ result = "reading" /\ \E pre : ReadSoFar(pre, read, expect, stack, node)
      BY <1>0, <1>1, <2>2, Known
    <3> HIDE DEF w, e
    <3>3. PICK pre : ReadSoFar(pre, read, expect, stack, node)
      BY <3>2
    <3>4. ReadSoFar(pre, Then(read, "node"), "open", stack, node)
      BY <2>2, <3>2, <3>3, NodeComes
    <3>5. expect' = "open" /\ result' = "reading" /\ s = "node"
      BY <1>3, <3>1, <3>2 DEF Go
    <3>6. ReadSoFar(pre, read', expect', stack', node')
      BY <1>3, <3>2, <3>4, <3>5
    <3> QED BY <3>2, <3>5, <3>6, ReadsOn
  <2>3. CASE label \in {"open", "type", "blank", "contents", "target"}
    <3>1. /\ label \in DOMAIN InNode /\ e \in DOMAIN InNode
          /\ InNode[e] = Then(InNode[label], w)
      <4>1. CASE label = "open"
        <5>1. w = "(" /\ e = "type"
          BY <4>1, Keywords
        <5> HIDE DEF w, e
        <5> QED BY <4>1, <5>1, NodeLabels, NodeWords
      <4>2. CASE label = "type"
        <5>1. w = "type" /\ e = "kind"
          BY <4>2, Keywords
        <5> HIDE DEF w, e
        <5> QED BY <4>2, <5>1, NodeLabels, NodeWords
      <4>3. CASE label = "blank"
        <5>1. w = Empty /\ e = "contents"
          BY <4>3, Keywords
        <5> HIDE DEF w, e
        <5> QED BY <4>3, <5>1, NodeLabels, NodeWords
      <4>4. CASE label = "contents"
        <5>1. w = "contents" /\ e = "execData"
          BY <4>4, Keywords
        <5> HIDE DEF w, e
        <5> QED BY <4>4, <5>1, NodeLabels, NodeWords
      <4>5. CASE label = "target"
        <5>1. w = "target" /\ e = "link"
          BY <4>5, Keywords
        <5> HIDE DEF w, e
        <5> QED BY <4>5, <5>1, NodeLabels, NodeWords
      <4> QED BY <2>3, <4>1, <4>2, <4>3, <4>4, <4>5
    <3> HIDE DEF w, e
    <3>2. InNode[e] = Then(InNode[label], s) /\ Go(e) /\ UNCHANGED <<stack, node>>
      BY <1>3, <3>1
    <3> QED BY ONLY IInv, ArchiveInv, <1>0, <1>1, <3>1, <3>2, NodeOn
  <2>4. CASE label \in {"entryOpen", "entryName"}
    <3>1. /\ label \in DOMAIN InDirectory /\ e \in DOMAIN InDirectory
          /\ InDirectory[e] = Then(InDirectory[label], w)
      <4>1. CASE label = "entryOpen"
        <5>1. w = "(" /\ e = "entryName"
          BY <4>1, Keywords
        <5> HIDE DEF w, e
        <5> QED BY <4>1, <5>1, DirectoryLabels, DirectoryWords
      <4>2. CASE label = "entryName"
        <5>1. w = "name" /\ e = "name"
          BY <4>2, Keywords
        <5> HIDE DEF w, e
        <5> QED BY <4>2, <5>1, DirectoryLabels, DirectoryWords
      <4> QED BY <2>4, <4>1, <4>2
    <3> HIDE DEF w, e
    <3>2. InDirectory[e] = Then(InDirectory[label], s) /\ Go(e) /\ UNCHANGED <<stack, node>>
      BY <1>3, <3>1
    <3> QED BY ONLY IInv, ArchiveInv, <1>0, <1>1, <3>1, <3>2, DirectoryOn
  <2> QED BY <2>1, <2>2, <2>3, <2>4, Keywords
<1> QED BY <1>2, <1>3 DEF ExpectStr

(* The strings that open a directory. *)
LEMMA OpensAs == Opening = Then(InNode["kind"], "directory")
<1>1. Opening = <<"(", "type", "directory">>
  BY DEF Opening
<1> QED BY ONLY <1>1, NodeLabels DEF Then

(* A directory opens: nothing of its entries has been read. *)
LEMMA DirectoryOpens ==
  ASSUME IInv, NEW pre, ReadSoFar(pre, read, expect, stack, node), expect = "kind",
         Len(stack) < MaxDepth, stack' = Append(stack, [entries |-> <<>>, last |-> {}])
  PROVE  \E p2 : ReadSoFar(p2, Then(read, "directory"), "directory", stack', node)
<1> DEFINE n == Len(stack)
           here == Before(pre, stack, n)
           q == InNode["kind"]
           f == [entries |-> <<>>, last |-> {}]
           E == [name : Names, node : SafeTrees[MaxDepth - (n + 1)]]
           D == Dump[MaxDepth - (n + 1)]
<1>1. Directories(pre, stack, n) /\ read = here \o q
  BY NodeLabels DEF ReadSoFar
<1>2. n \in Nat /\ n \in 0..n
  BY StackIs
<1>3. expect \notin Between
  BY DEF Between
<1>4. here \in Seq(Tokens)
  <2>1. n = Len(stack)
    OBVIOUS
  <2> HIDE DEF n
  <2> QED BY ONLY IInv, <1>1, <1>2, <1>3, <2>1, BeforeType
<1>5. /\ Len(stack') = n + 1 /\ stack'[n + 1] = f /\ \A k \in 1..n : stack'[k] = stack[k]
  <2>1. PICK N : stack \in Seq(Frame(N))
    BY DEF IInv, TypeInv
  <2>2. f \in Frame(N)
    BY DEF Frame
  <2>3. stack' = Append(stack, f)
    OBVIOUS
  <2> HIDE DEF f
  <2> QED BY <2>1, <2>2, <2>3
<1>6. f.entries = <<>> /\ <<>> \in Seq(E)
  OBVIOUS
<1>7. Opening \in Seq(Tokens) /\ q \in Seq(Tokens) /\ Then(q, "directory") = Opening
  <2>1. Opening \in Seq(Tokens)
    BY SomeTokens DEF Opening
  <2>2. q \in Seq(Tokens)
    BY NodeLabels, SomeTokens
  <2>3. Then(q, "directory") = Opening
    BY OpensAs
  <2> QED BY <2>1, <2>2, <2>3
<1> HIDE DEF here, q, f, E, D
<1>8. Then(read, "directory") = here \o Opening
  <2>1. "directory" \in Tokens
    BY SomeTokens
  <2>2. Then(Cat(here, q), "directory") = Cat(here, Then(q, "directory"))
    BY ONLY <1>4, <1>7, <2>1, OneTokenMore
  <2> QED BY <1>1, <1>7, <2>2 DEF Cat
<1> DEFINE new == here \o Opening
           p2 == [k \in 0..n + 1 |-> IF k = n + 1 THEN new ELSE pre[k]]
<1>9. new \in Seq(Tokens)
  BY ONLY <1>4, <1>7, JoinType
<1>10. p2[n + 1] = new /\ \A k \in 0..n : p2[k] = pre[k]
  <2> HIDE DEF n, new
  <2> QED BY <1>2
<1> HIDE DEF p2, new, n
<1>11. Directories(p2, stack', n)
  <2>1. \A k \in 1..n : stack'[k].entries = stack[k].entries
    BY <1>5
  <2>2. \A k \in 1..n - 1 : stack'[k].last = stack[k].last
    BY <1>2, <1>5
  <2> QED BY ONLY <1>1, <1>2, <1>10, <2>1, <2>2, DirectoriesKept
<1>12. Before(p2, stack', n) = here
  <2>1. n # 0 => n \in 1..n
    BY <1>2
  <2>2. 0 \in 0..n
    BY <1>2
  <2> QED BY <1>2, <1>5, <1>10, <2>1, <2>2 DEF Before, here
<1>13. Directories(p2, stack', n + 1)
  <2>1. stack'[n + 1].entries = <<>>
    BY <1>5, <1>6
  <2>2. Listing(stack'[n + 1].entries, D) = <<>>
    BY <2>1, ListingNone
  <2>3. new \o <<>> = new
    BY ONLY <1>9, JoinNone
  <2>4. p2[n + 1] = Before(p2, stack', n) \o Opening \o Listing(stack'[n + 1].entries, D)
    BY <1>10, <1>12, <2>2, <2>3 DEF new
  <2>5. p2[n + 1] \in Seq(Tokens)
    BY <1>9, <1>10
  <2>6. stack'[n + 1].entries \in Seq(E)
    BY <1>6, <2>1
  <2> QED BY ONLY <1>2, <1>11, <2>4, <2>5, <2>6, DirectoriesOneMore DEF D, E
<1>14. Then(read, "directory") = p2[n + 1] \o InDirectory["directory"]
  <2>1. InDirectory["directory"] = <<>>
    BY DirectoryLabels
  <2>2. new \o <<>> = new
    BY ONLY <1>9, JoinNone
  <2> QED BY <1>8, <1>10, <2>1, <2>2 DEF new
<1>15. "directory" \notin DOMAIN InNode
  BY NodeLabels
<1>16. ReadSoFar(p2, Then(read, "directory"), "directory", stack', node)
  <2>1. n + 1 = Len(stack')
    BY <1>5
  <2> QED BY <1>13, <1>14, <1>15, <2>1 DEF ReadSoFar
<1> QED BY <1>16

(* The kind of a node. *)
LEMMA NodeTypeArchive ==
  ASSUME IInv, ArchiveInv, NEW s \in Words, NodeType(s)
  PROVE  ArchiveInv'
<1>0. s \in Tokens /\ Reads("kind", s)
  BY DEF Tokens, NodeType
<1>1. CASE Refuse
  BY <1>0, <1>1, Refused
<1>2. CASE s = "regular" /\ Go("body") /\ UNCHANGED <<stack, node>>
  <2>1. /\ "kind" \in DOMAIN InNode /\ "body" \in DOMAIN InNode
        /\ InNode["body"] = Then(InNode["kind"], s)
    BY <1>2, NodeLabels, NodeWords
  <2> QED BY ONLY IInv, ArchiveInv, <1>0, <1>2, <2>1, NodeOn
<1>3. CASE s = "symlink" /\ Go("target") /\ UNCHANGED <<stack, node>>
  <2>1. /\ "kind" \in DOMAIN InNode /\ "target" \in DOMAIN InNode
        /\ InNode["target"] = Then(InNode["kind"], s)
    BY <1>3, NodeLabels, NodeWords
  <2> QED BY ONLY IInv, ArchiveInv, <1>0, <1>3, <2>1, NodeOn
<1>4. CASE /\ s = "directory" /\ Len(stack) < MaxDepth
           /\ stack' = Append(stack, [entries |-> <<>>, last |-> {}])
           /\ Go("directory") /\ UNCHANGED node
  <2>1. /\ read' = Then(read, s) /\ read' \in Seq(Tokens) /\ expect = "kind"
        /\ result = "reading" /\ \E pre : ReadSoFar(pre, read, expect, stack, node)
    BY <1>0, Known
  <2>2. PICK pre : ReadSoFar(pre, read, expect, stack, node)
    BY <2>1
  <2>3. PICK p2 : ReadSoFar(p2, Then(read, "directory"), "directory", stack', node)
    BY <1>4, <2>1, <2>2, DirectoryOpens
  <2>4. expect' = "directory" /\ result' = "reading" /\ node' = node
    BY <1>4, <2>1 DEF Go
  <2>5. ReadSoFar(p2, read', expect', stack', node')
    BY <1>4, <2>1, <2>3, <2>4
  <2> QED BY <2>1, <2>4, <2>5, ReadsOn
<1> QED BY <1>1, <1>2, <1>3, <1>4 DEF NodeType

(* parse_regular: executable or not. *)
LEMMA RegularBodyArchive ==
  ASSUME IInv, ArchiveInv, NEW s \in Words, RegularBody(s)
  PROVE  ArchiveInv'
<1>0. s \in Tokens /\ Reads("body", s)
  BY DEF Tokens, RegularBody
<1>1. CASE Refuse
  BY <1>0, <1>1, Refused
<1>2. CASE s = "executable" /\ Go("blank") /\ UNCHANGED <<stack, node>>
  <2>1. /\ "body" \in DOMAIN InNode /\ "blank" \in DOMAIN InNode
        /\ InNode["blank"] = Then(InNode["body"], s)
    BY <1>2, NodeLabels, NodeWords
  <2> QED BY ONLY IInv, ArchiveInv, <1>0, <1>2, <2>1, NodeOn
<1>3. CASE s = "contents" /\ Go("data") /\ UNCHANGED <<stack, node>>
  <2>1. /\ "body" \in DOMAIN InNode /\ "data" \in DOMAIN InNode
        /\ InNode["data"] = Then(InNode["body"], s)
    BY <1>3, NodeLabels, NodeWords
  <2> QED BY ONLY IInv, ArchiveInv, <1>0, <1>3, <2>1, NodeOn
<1> QED BY <1>1, <1>2, <1>3 DEF RegularBody

-----------------------------------------------------------------------------
(* A leaf may stand at any depth, and its strings do not depend on it. *)
LEMMA LeafAnywhere ==
  ASSUME NEW d, d \in 0..MaxDepth, NEW t, t \in Leaves
  PROVE  t \in SafeTrees[d] /\ Dump[d][t] = LeafDump(t) /\ t.type # "directory"
<1>1. t.type # "directory"
  BY LeafTypes
<1>2. CASE d = 0
  <2>1. SafeTrees[0] = Leaves /\ Dump[0] = [m \in Leaves |-> LeafDump(m)]
    BY SafeTreesAre, DumpsAre
  <2> QED BY <1>1, <1>2, <2>1
<1>3. CASE d # 0
  <2>1. d \in 1..MaxDepth
    BY <1>3, ParserAssumption
  <2>2. SafeTrees[d] = Leaves \cup DirectoriesOf(SafeTrees[d - 1])
    BY <2>1, SafeTreesAre
  <2>3. t \in SafeTrees[d]
    BY <2>2
  <2>4. Dump[d] = DumpOver(SafeTrees[d], Dump[d - 1])
    BY <2>1, DumpsAre
  <2>5. DumpOver(SafeTrees[d], Dump[d - 1])[t] = LeafDump(t)
    BY <1>1, <2>3 DEF DumpOver
  <2> QED BY <1>1, <2>3, <2>4, <2>5
<1> QED BY <1>2, <1>3

(* The last string of a leaf but its ")". *)
LEMMA LeafReads ==
  ASSUME IInv, NEW pre, ReadSoFar(pre, read, expect, stack, node), expect \in DOMAIN InNode,
         NEW s, s \in Tokens, NEW t, t \in Leaves,
         LeafDump(t) = Then(Then(InNode[expect], s), ")")
  PROVE  ReadSoFar(pre, Then(read, s), "close", stack, t)
<1> DEFINE n == Len(stack)
           here == Before(pre, stack, n)
           q == InNode[expect]
<1>1. Directories(pre, stack, n) /\ read = here \o q
  BY DEF ReadSoFar
<1>2. expect \notin Between
  BY DEF Between, InNode
<1>3. here \in Seq(Tokens)
  <2>1. n \in 0..n
    BY StackIs
  <2>2. n = Len(stack)
    OBVIOUS
  <2> HIDE DEF n
  <2> QED BY ONLY IInv, <1>1, <1>2, <2>1, <2>2, BeforeType
<1>4. q \in Seq(Tokens)
  BY ONLY expect \in DOMAIN InNode, InNodeType
<1>5. MaxDepth - n \in 0..MaxDepth
  BY StackIs
<1>6. /\ t \in SafeTrees[MaxDepth - n] /\ Dump[MaxDepth - n][t] = LeafDump(t)
      /\ t.type # "directory"
  BY ONLY <1>5, t \in Leaves, LeafAnywhere
<1>7. ")" \in Tokens
  BY SomeTokens
<1> HIDE DEF here, q, n
<1>8. Then(Cat(here, q), s) = Cat(here, Then(q, s)) /\ Then(q, s) \in Seq(Tokens)
  BY ONLY <1>3, <1>4, s \in Tokens, OneTokenMore
<1>9. Then(Cat(here, Then(q, s)), ")") = Cat(here, Then(Then(q, s), ")"))
  BY ONLY <1>3, <1>7, <1>8, OneTokenMore
<1>10. Then(Then(read, s), ")") = here \o Dump[MaxDepth - n][t]
  <2>1. read = Cat(here, q)
    BY <1>1 DEF Cat
  <2>2. LeafDump(t) = Then(Then(q, s), ")")
    BY DEF q
  <2>3. Then(Then(read, s), ")") = Cat(here, LeafDump(t))
    BY <1>8, <1>9, <2>1, <2>2
  <2> QED BY <1>6, <2>3 DEF Cat
<1>11. "close" \notin DOMAIN InNode /\ "close" \notin DOMAIN InDirectory
  BY NodeLabels, DirectoryLabels
<1> QED BY <1>1, <1>6, <1>10, <1>11 DEF ReadSoFar, here, n

(* The last string of a leaf but its ")" leads to the end of the node. *)
LEMMA LeafArchive ==
  ASSUME IInv, ArchiveInv, NEW label, label \in DOMAIN InNode, NEW s, s \in Tokens,
         Reads(label, s), node' \in Leaves,
         LeafDump(node') = Then(Then(InNode[label], s), ")"), Go("close"), UNCHANGED stack
  PROVE  ArchiveInv'
<1>1. label # "magic"
  BY NodeLabels
<1>2. /\ read' = Then(read, s) /\ read' \in Seq(Tokens) /\ expect = label
      /\ result = "reading" /\ \E pre : ReadSoFar(pre, read, expect, stack, node)
  BY <1>1, Known
<1>3. PICK pre : ReadSoFar(pre, read, expect, stack, node)
  BY <1>2
<1>4. ReadSoFar(pre, Then(read, s), "close", stack, node')
  BY <1>2, <1>3, LeafReads
<1>5. expect' = "close" /\ result' = "reading"
  BY <1>2 DEF Go
<1>6. ReadSoFar(pre, read', expect', stack', node')
  BY <1>2, <1>4, <1>5
<1> QED BY <1>2, <1>5, <1>6, ReadsOn

(* The contents of a file. *)
LEMMA ContentsArchive ==
  ASSUME IInv, ArchiveInv, NEW s \in Payloads, Contents(s)
  PROVE  ArchiveInv'
<1>0. s \in Tokens
  BY SomeTokens
<1>1. PICK exec \in BOOLEAN :
        /\ Reads(IF exec THEN "execData" ELSE "data", s)
        /\ node' = Regular(exec, s) /\ Go("close") /\ UNCHANGED stack
  BY DEF Contents
<1> DEFINE label == IF exec THEN "execData" ELSE "data"
<1>2. label \in DOMAIN InNode
  BY NodeLabels
<1>3. node' \in Leaves
  BY <1>1 DEF Leaves
<1>4. LeafDump(node') = Then(Then(InNode[label], s), ")")
  <2>1. CASE exec
    <3>1. node'.type = "regular" /\ node'.executable /\ node'.contents = s
      BY <1>1, <2>1 DEF Regular
    <3>2. LeafDump(node') = <<"(", "type", "regular", "executable", Empty, "contents", s, ")">>
      BY <3>1 DEF LeafDump
    <3>3. LeafDump(node') = Then(Then(InNode["execData"], s), ")")
      BY ONLY <3>2, NodeLabels DEF Then
    <3> QED BY ONLY <2>1, <3>3
  <2>2. CASE ~exec
    <3>1. node'.type = "regular" /\ ~node'.executable /\ node'.contents = s
      BY <1>1, <2>2 DEF Regular
    <3>2. LeafDump(node') = <<"(", "type", "regular", "contents", s, ")">>
      BY <3>1 DEF LeafDump
    <3>3. LeafDump(node') = Then(Then(InNode["data"], s), ")")
      BY ONLY <3>2, NodeLabels DEF Then
    <3> QED BY ONLY <2>2, <3>3
  <2> QED BY <2>1, <2>2
<1>5. Reads(label, s) /\ Go("close") /\ UNCHANGED stack
  BY <1>1
<1> HIDE DEF label
<1> QED BY ONLY IInv, ArchiveInv, <1>0, <1>2, <1>3, <1>4, <1>5, LeafArchive

(* The target of a symbolic link. *)
LEMMA LinkTargetArchive ==
  ASSUME IInv, ArchiveInv, NEW s \in Payloads, LinkTarget(s)
  PROVE  ArchiveInv'
<1>0. s \in Tokens /\ Reads("link", s)
  BY SomeTokens DEF LinkTarget
<1>1. CASE Refuse
  BY <1>0, <1>1, Refused
<1>2. CASE s # NotText /\ node' = Symlink(s) /\ Go("close") /\ UNCHANGED stack
  <2>1. "link" \in DOMAIN InNode
    BY NodeLabels
  <2>2. node' \in Leaves
    BY <1>2 DEF Leaves
  <2>3. LeafDump(node') = Then(Then(InNode["link"], s), ")")
    <3>1. node'.type = "symlink" /\ node'.target = s
      BY <1>2 DEF Symlink
    <3>2. LeafDump(node') = <<"(", "type", "symlink", "target", s, ")">>
      BY <3>1 DEF LeafDump
    <3> QED BY <3>2, NodeLabels DEF Then
  <2> QED BY ONLY IInv, ArchiveInv, <1>0, <1>2, <2>1, <2>2, <2>3, LeafArchive
<1> QED BY <1>1, <1>2 DEF LinkTarget

(* A directory with entries in order is a safe tree one level up. *)
LEMMA DirectoryIsSafe ==
  ASSUME NEW d, d \in 1..MaxDepth, NEW es,
         es \in Seq([name : Names, node : SafeTrees[d - 1]]), Ascending(es)
  PROVE  /\ Directory(es) \in SafeTrees[d] /\ Directory(es).type = "directory"
         /\ Dump[d][Directory(es)] = Opening \o Listing(es, Dump[d - 1]) \o <<")">>
<1> DEFINE S == SafeTrees[d - 1]
           t == Directory(es)
<1>1. SafeTrees[d] = Leaves \cup DirectoriesOf(S)
  BY SafeTreesAre
<1>2. Dump[d] = DumpOver(SafeTrees[d], Dump[d - 1])
  BY DumpsAre
<1>3. InNameOrder(es)
  <2> DEFINE E == [name : Names, node : S]
  <2>1. es \in Seq(E)
    OBVIOUS
  <2> HIDE DEF E
  <2>2. Len(es) \in Nat /\ DOMAIN es = 1..Len(es)
    BY ONLY <2>1
  <2>3. ASSUME NEW i \in DOMAIN es, i > 1 PROVE Rank[es[i - 1].name] < Rank[es[i].name]
    <3>1. i \in 1..Len(es) /\ i - 1 \in 1..Len(es) /\ i - 1 < i
      BY <2>2, <2>3
    <3> QED BY <3>1 DEF Ascending
  <2>4. \A i \in DOMAIN es : ValidateEntryName(es[i].name)
    BY <2>2 DEF Ascending
  <2> QED BY <2>3, <2>4 DEF InNameOrder
<1>4. t.type = "directory" /\ t.entries = es
  BY DEF Directory
<1>5. t \in [type : {"directory"}, entries : Seq([name : Names, node : S])]
  BY DEF Directory
<1> HIDE DEF t
<1>6. t \in SafeTrees[d]
  BY <1>1, <1>3, <1>4, <1>5 DEF DirectoriesOf
<1>7. Dump[d][t] = Opening \o Listing(es, Dump[d - 1]) \o <<")">>
  <2>1. DumpOver(SafeTrees[d], Dump[d - 1])[t]
          = <<"(", "type", "directory">> \o Listing(t.entries, Dump[d - 1]) \o <<")">>
    BY <1>4, <1>6 DEF DumpOver
  <2> QED BY <1>2, <1>4, <2>1 DEF Opening
<1> QED BY <1>4, <1>6, <1>7 DEF t

(* A directory closes: it is the node parsed last. *)
LEMMA DirectoryCloses ==
  ASSUME IInv, NEW pre, ReadSoFar(pre, read, expect, stack, node), expect = "directory",
         stack' = Front(stack), node' = Directory(Top.entries),
         NEW e, e = IF Len(stack) = 1 THEN "close" ELSE "entryClose"
  PROVE  ReadSoFar(pre, Then(read, ")"), e, stack', node')
<1> DEFINE n == Len(stack)
           m == n - 1
           es == stack[n].entries
           L == Listing(es, Dump[MaxDepth - n])
           here == Before(pre, stack, m)
           y == <<")">>
<1>1. Directories(pre, stack, n) /\ read = pre[n] \o InDirectory["directory"]
  BY DirectoryLabels DEF ReadSoFar
<1>2. n \in Nat /\ n >= 1 /\ n <= MaxDepth
  BY StackIs DEF Between
<1>3. Ascending(es)
  <2>1. n \in 1..n
    BY <1>2
  <2> QED BY <2>1, StackIs
<1>4. /\ pre[n] \in Seq(Tokens)
      /\ es \in Seq([name : Names, node : SafeTrees[MaxDepth - n]])
      /\ pre[n] = here \o Opening \o L
  <2>1. n \in 1..n /\ n \in 0..n
    BY <1>2
  <2> QED BY <1>1, <2>1 DEF Directories
<1>5. /\ Len(stack') = m /\ \A k \in 1..m : stack'[k] = stack[k]
  <2>1. PICK N : stack \in Seq(Frame(N))
    BY DEF IInv, TypeInv
  <2> QED BY <1>2, <2>1, FrontOf
<1>6. node' = Directory(es)
  BY DEF Top
<1>7. here \in Seq(Tokens)
  <2>1. m \in 0..n /\ m # n /\ n = Len(stack)
    BY <1>2
  <2> HIDE DEF n, m
  <2> QED BY ONLY IInv, <1>1, <2>1, BeforeType
<1>8. /\ MaxDepth - m \in 1..MaxDepth /\ (MaxDepth - m) - 1 = MaxDepth - n
      /\ MaxDepth - n \in 0..MaxDepth
  BY <1>2, ParserAssumption
<1>9. m \in Nat /\ m \in 0..n
  BY <1>2
<1>10. L \in Seq(Tokens)
  <2>1. \A t \in SafeTrees[MaxDepth - n] : Dump[MaxDepth - n][t] \in Seq(Tokens)
    BY <1>8, DumpType
  <2>2. Lists(es, SafeTrees[MaxDepth - n], Dump[MaxDepth - n])
    BY <1>4, <2>1 DEF Lists
  <2> QED BY <2>2, ListingType
<1>11. Opening \in Seq(Tokens) /\ y \in Seq(Tokens) /\ ")" \in Tokens
  BY SomeTokens DEF Opening
<1> HIDE DEF n, m, es, L, here, y
<1>12. /\ node' \in SafeTrees[MaxDepth - m] /\ node'.type = "directory"
       /\ Dump[MaxDepth - m][node'] = Opening \o L \o y
  <2> DEFINE d == MaxDepth - m
  <2>1. d \in 1..MaxDepth /\ d - 1 = MaxDepth - n
    BY <1>8
  <2> HIDE DEF d
  <2>2. es \in Seq([name : Names, node : SafeTrees[d - 1]])
    BY <1>4, <2>1
  <2>3. d \in 1..MaxDepth
    BY <2>1
  <2>4. /\ Directory(es) \in SafeTrees[d] /\ Directory(es).type = "directory"
        /\ Dump[d][Directory(es)] = Opening \o Listing(es, Dump[d - 1]) \o <<")">>
    BY ONLY <1>3, <2>2, <2>3, DirectoryIsSafe
  <2>5. Listing(es, Dump[d - 1]) = L
    BY <2>1 DEF L
  <2>6. /\ node' \in SafeTrees[d] /\ node'.type = "directory"
        /\ Dump[d][node'] = Opening \o L \o y
    BY ONLY <1>6, <2>4, <2>5 DEF y
  <2> QED BY <2>6 DEF d
<1>13. Then(read, ")") = here \o Dump[MaxDepth - m][node']
  <2>1. read = pre[n]
    <3>1. InDirectory["directory"] = <<>>
      BY DirectoryLabels
    <3> QED BY <1>1, <1>4, <3>1, JoinNone
  <2>2. Then(pre[n], ")") = Cat(pre[n], y)
    BY <1>4, <1>11, ThenIsCat DEF y
  <2>3. pre[n] = Cat(Cat(here, Opening), L)
    BY <1>4 DEF Cat
  <2>4. Cat(here, Opening) \in Seq(Tokens) /\ Cat(Opening, L) \in Seq(Tokens)
    BY ONLY <1>7, <1>10, <1>11, CatAssoc
  <2>5. Cat(Cat(here, Opening), L) = Cat(here, Cat(Opening, L))
    BY ONLY <1>7, <1>10, <1>11, CatAssoc
  <2>6. Cat(Cat(here, Cat(Opening, L)), y) = Cat(here, Cat(Cat(Opening, L), y))
    BY ONLY <1>7, <1>11, <2>4, CatAssoc
  <2>7. Then(read, ")") = Cat(here, Cat(Cat(Opening, L), y))
    BY <2>1, <2>2, <2>3, <2>5, <2>6
  <2> QED BY <1>12, <2>7 DEF Cat
<1>14. Directories(pre, stack', m)
  <2>1. Directories(pre, stack, m)
    BY ONLY <1>1, <1>2, <1>9, DirectoriesFewer
  <2>2. \A k \in 1..m : stack'[k].entries = stack[k].entries
    BY <1>5
  <2>3. \A k \in 1..m - 1 : stack'[k].last = stack[k].last
    BY <1>5, <1>9
  <2>4. \A k \in 0..m : pre[k] = pre[k]
    OBVIOUS
  <2> QED BY ONLY <1>9, <2>1, <2>2, <2>3, <2>4, DirectoriesKept
<1>15. Before(pre, stack', m) = here
  <2>1. m # 0 => m \in 1..m
    BY <1>9
  <2> QED BY <1>5, <2>1 DEF Before, here
<1>16. /\ e \in {"close", "entryClose"} /\ (e = "close" => m = 0)
       /\ e \notin DOMAIN InNode /\ e \notin DOMAIN InDirectory /\ e # "entryNode"
  <2>1. e = IF n = 1 THEN "close" ELSE "entryClose"
    BY DEF n
  <2>2. n = 1 => m = 0
    BY DEF m
  <2> QED BY <2>1, <2>2, NodeLabels, DirectoryLabels
<1>17. Len(stack') = m
  BY <1>5
<1> QED BY ONLY <1>12, <1>13, <1>14, <1>15, <1>16, <1>17 DEF ReadSoFar

(* The head of the loop of parse_directory: an entry or the end. *)
LEMMA DirectoryNextArchive ==
  ASSUME IInv, ArchiveInv, NEW s \in Words, DirectoryNext(s)
  PROVE  ArchiveInv'
<1>0. s \in Tokens /\ Reads("directory", s)
  BY DEF Tokens, DirectoryNext
<1>1. CASE Refuse
  BY <1>0, <1>1, Refused
<1>2. CASE s = "entry" /\ Go("entryOpen") /\ UNCHANGED <<stack, node>>
  <2>1. /\ "directory" \in DOMAIN InDirectory /\ "entryOpen" \in DOMAIN InDirectory
        /\ InDirectory["entryOpen"] = Then(InDirectory["directory"], s)
    BY <1>2, DirectoryLabels, DirectoryWords
  <2> QED BY ONLY IInv, ArchiveInv, <1>0, <1>2, <2>1, DirectoryOn
<1>3. CASE /\ s = ")" /\ node' = Directory(Top.entries) /\ stack' = Front(stack)
           /\ Go(IF Len(stack) = 1 THEN "close" ELSE "entryClose")
  <2>1. /\ read' = Then(read, s) /\ read' \in Seq(Tokens) /\ expect = "directory"
        /\ result = "reading" /\ \E pre : ReadSoFar(pre, read, expect, stack, node)
    BY <1>0, Known
  <2>2. PICK pre : ReadSoFar(pre, read, expect, stack, node)
    BY <2>1
  <2>3. /\ expect' = IF Len(stack) = 1 THEN "close" ELSE "entryClose"
        /\ result' = "reading"
    BY <1>3, <2>1 DEF Go
  <2>4. ReadSoFar(pre, Then(read, ")"), expect', stack', node')
    BY <1>3, <2>1, <2>2, <2>3, DirectoryCloses
  <2>5. ReadSoFar(pre, read', expect', stack', node') /\ expect' # "magic"
    BY <1>3, <2>1, <2>3, <2>4
  <2> QED BY <2>1, <2>3, <2>5, ReadsOn
<1> QED BY <1>1, <1>2, <1>3 DEF DirectoryNext

(* An entry's name is read: it is last_name. *)
LEMMA NameReads ==
  ASSUME IInv, NEW pre, ReadSoFar(pre, read, expect, stack, node), expect = "name",
         NEW s, s \in Names, stack' = [stack EXCEPT ![Len(stack)].last = {s}]
  PROVE  ReadSoFar(pre, Then(read, s), "entryNode", stack', node)
<1> DEFINE n == Len(stack)
           p == pre[n]
           q == InDirectory["name"]
<1>1. Directories(pre, stack, n) /\ read = p \o q
  BY DirectoryLabels DEF ReadSoFar
<1>2. n \in Nat /\ n >= 1
  BY StackIs DEF Between
<1>3. /\ Len(stack') = n /\ stack'[n].last = {s} /\ stack'[n].entries = stack[n].entries
      /\ \A k \in 1..n - 1 : stack'[k] = stack[k]
  <2>1. PICK N : stack \in Seq(Frame(N))
    BY DEF IInv, TypeInv
  <2>2. stack # <<>> /\ n \in 1..n /\ Top \in Frame(N)
    <3>1. stack # <<>>
      BY <1>2
    <3> QED BY <1>2, <2>1, <3>1, TopFrame
  <2> DEFINE f == [Top EXCEPT !.last = {s}]
  <2>3. f.entries = Top.entries /\ f.last = {s} /\ f \in Frame(N)
    BY <2>2 DEF Frame
  <2>4. stack' = [stack EXCEPT ![n] = f]
    BY DEF Top
  <2> HIDE DEF f
  <2>5. Len(stack') = n /\ stack'[n] = f /\ \A k \in 1..n : k # n => stack'[k] = stack[k]
    BY <2>1, <2>2, <2>3, <2>4
  <2>6. \A k \in 1..n - 1 : k \in 1..n /\ k # n
    BY <1>2
  <2> QED BY <2>3, <2>5, <2>6 DEF Top
<1>4. p \in Seq(Tokens)
  <2>1. n \in 0..n
    BY <1>2
  <2> QED BY <1>1, <2>1 DEF Directories
<1>5. "name" \in DOMAIN InDirectory
  BY DirectoryLabels
<1>6. q \in Seq(Tokens)
  BY ONLY <1>5, InDirectoryType
<1>7. s \in Tokens
  BY SomeTokens
<1>8. NameOf(stack'[n]) = s
  BY <1>3 DEF NameOf
<1>9. Then(q, s) = <<"entry", "(", "name", s>>
  <2> DEFINE w == <<"entry", "(", "name", s>>
  <2>1. q = <<"entry", "(", "name">>
    BY DirectoryLabels
  <2> HIDE DEF q
  <2>2. ASSUME NEW v, v = w PROVE v = Then(q, s)
    BY ONLY <2>1, <2>2 DEF Then
  <2> QED BY <2>2
<1> HIDE DEF p, q, n
<1>10. Then(read, s) = p \o <<"entry", "(", "name", NameOf(stack'[n])>>
  <2>1. Then(Cat(p, q), s) = Cat(p, Then(q, s))
    BY ONLY <1>4, <1>6, <1>7, OneTokenMore
  <2> QED BY <1>1, <1>8, <1>9, <2>1 DEF Cat
<1>11. Directories(pre, stack', n)
  <2>1. \A k \in 1..n : stack'[k].entries = stack[k].entries
    <3>1. \A k \in 1..n : k = n \/ k \in 1..n - 1
      BY <1>2
    <3> QED BY <1>3, <3>1
  <2>2. \A k \in 1..n - 1 : stack'[k].last = stack[k].last
    BY <1>3
  <2>3. \A k \in 0..n : pre[k] = pre[k]
    OBVIOUS
  <2> QED BY ONLY <1>1, <1>2, <2>1, <2>2, <2>3, DirectoriesKept
<1>12. "entryNode" \notin DOMAIN InNode /\ "entryNode" \notin DOMAIN InDirectory
  BY NodeLabels, DirectoryLabels
<1>13. Len(stack') = n
  BY <1>3
<1> QED BY ONLY <1>10, <1>11, <1>12, <1>13 DEF ReadSoFar, p

(* The name of an entry. *)
LEMMA EntryNameArchive ==
  ASSUME IInv, ArchiveInv, NEW s \in Names, EntryName(s)
  PROVE  ArchiveInv'
<1>0. s \in Tokens /\ Reads("name", s)
  BY SomeTokens DEF EntryName
<1>1. CASE Refuse
  BY <1>0, <1>1, Refused
<1>2. CASE /\ stack' = [stack EXCEPT ![Len(stack)].last = {s}]
           /\ Go("entryNode") /\ UNCHANGED node
  <2>1. /\ read' = Then(read, s) /\ read' \in Seq(Tokens) /\ expect = "name"
        /\ result = "reading" /\ \E pre : ReadSoFar(pre, read, expect, stack, node)
    BY <1>0, Known
  <2>2. PICK pre : ReadSoFar(pre, read, expect, stack, node)
    BY <2>1
  <2>3. ReadSoFar(pre, Then(read, s), "entryNode", stack', node)
    BY <1>2, <2>1, <2>2, NameReads
  <2>4. expect' = "entryNode" /\ result' = "reading" /\ node' = node
    BY <1>2, <2>1 DEF Go
  <2>5. ReadSoFar(pre, read', expect', stack', node')
    BY <2>1, <2>3, <2>4
  <2> QED BY <2>1, <2>4, <2>5, ReadsOn
<1> QED BY <1>1, <1>2 DEF EntryName

-----------------------------------------------------------------------------
(* The last string of the archive. *)
LEMMA ArchiveEnds ==
  ASSUME IInv, NEW pre, ReadSoFar(pre, read, expect, stack, node), expect = "close",
         read \in Seq(Tokens), stack = <<>>
  PROVE  node \in SafeTrees[MaxDepth] /\ Then(read, ")") = Wire(node)
<1> DEFINE D == Dump[MaxDepth][node]
           y == <<")">>
<1>1. Len(stack) = 0
  OBVIOUS
<1>2. MaxDepth - 0 = MaxDepth /\ MaxDepth \in 0..MaxDepth
  BY ParserAssumption
<1>3. /\ node \in SafeTrees[MaxDepth]
      /\ pre[0] = <<Magic>>
      /\ IF node.type = "directory" THEN read = pre[0] \o D
         ELSE Then(read, ")") = pre[0] \o D
  BY <1>1, <1>2 DEF ReadSoFar, Directories, Before
<1>4. D \in Seq(Tokens)
  BY <1>2, <1>3, DumpType
<1>5. <<Magic>> \in Seq(Tokens) /\ y \in Seq(Tokens) /\ ")" \in Tokens
  BY SomeTokens
<1>6. Wire(node) = <<Magic>> \o D \o (IF node.type = "directory" THEN y ELSE <<>>)
  BY DEF Wire, Archive
<1> HIDE DEF D, y
<1>7. <<Magic>> \o D \in Seq(Tokens)
  BY ONLY <1>4, <1>5, JoinType
<1>8. CASE node.type = "directory"
  <2>1. Then(read, ")") = Cat(read, y)
    BY <1>5, ThenIsCat DEF y
  <2> QED BY <1>3, <1>6, <1>8, <2>1 DEF Cat
<1>9. CASE node.type # "directory"
  <2>1. (<<Magic>> \o D) \o <<>> = <<Magic>> \o D
    BY ONLY <1>7, JoinNone
  <2> QED BY <1>3, <1>6, <1>9, <2>1
<1> QED BY <1>3, <1>8, <1>9

(* The ")" of a node: the archive may end here. *)
LEMMA CloseArchive ==
  ASSUME IInv, ArchiveInv, NEW s \in Words, Close(s)
  PROVE  ArchiveInv'
<1>0. s \in Tokens /\ Reads("close", s)
  BY DEF Tokens, Close
<1>1. CASE Refuse
  BY <1>0, <1>1, Refused
<1>2. /\ read' = Then(read, s) /\ read' \in Seq(Tokens) /\ expect = "close"
      /\ result = "reading" /\ read \in Seq(Tokens)
      /\ \E pre : ReadSoFar(pre, read, expect, stack, node)
  BY <1>0, Known
<1>3. PICK pre : ReadSoFar(pre, read, expect, stack, node)
  BY <1>2
<1>4. CASE s = ")" /\ stack = <<>> /\ result' = "ok" /\ UNCHANGED <<expect, stack, node>>
  <2>1. node \in SafeTrees[MaxDepth] /\ Then(read, ")") = Wire(node)
    BY <1>2, <1>3, <1>4, ArchiveEnds
  <2>2. node' \in SafeTrees[MaxDepth] /\ read' = Wire(node')
    BY <1>2, <1>4, <2>1
  <2>3. result' # "reading"
    BY <1>4
  <2> QED BY <1>2, <2>2, <2>3 DEF ArchiveInv
<1>5. CASE s = ")" /\ stack # <<>> /\ Go("entryClose") /\ UNCHANGED <<stack, node>>
  <2> DEFINE n == Len(stack)
             here == Before(pre, stack, n)
             D == Dump[MaxDepth - n][node]
  <2>1. n # 0
    BY <1>5, StackIs
  <2>2. /\ Directories(pre, stack, n) /\ node \in SafeTrees[MaxDepth - n]
        /\ Then(read, ")") = here \o D
    BY <1>2, <1>3, <2>1 DEF ReadSoFar
  <2>3. "entryClose" \notin DOMAIN InNode /\ "entryClose" \notin DOMAIN InDirectory
    BY NodeLabels, DirectoryLabels
  <2>4. ReadSoFar(pre, Then(read, ")"), "entryClose", stack, node)
    BY <2>2, <2>3 DEF ReadSoFar
  <2>5. /\ expect' = "entryClose" /\ result' = "reading" /\ stack' = stack /\ node' = node
        /\ read' = Then(read, ")")
    BY <1>2, <1>5 DEF Go
  <2>6. ReadSoFar(pre, read', expect', stack', node')
    BY <2>4, <2>5
  <2> QED BY <1>2, <2>5, <2>6, ReadsOn
<1> QED BY <1>1, <1>4, <1>5 DEF Close

(* Five parts in a row, however they were put together. *)
LEMMA FiveParts ==
  ASSUME NEW a, a \in Seq(Tokens), NEW l, l \in Seq(Tokens), NEW h, h \in Seq(Tokens),
         NEW d, d \in Seq(Tokens), NEW y, y \in Seq(Tokens)
  PROVE  /\ Cat(Cat(Cat(Cat(a, l), h), d), y) = Cat(a, Cat(l, Cat(Cat(h, d), y)))
         /\ Cat(Cat(h, d), y) \in Seq(Tokens)
<1>1. Cat(a, l) \in Seq(Tokens) /\ Cat(h, d) \in Seq(Tokens)
  BY CatAssoc
<1>2. Cat(Cat(Cat(a, l), h), d) = Cat(Cat(a, l), Cat(h, d))
  BY ONLY <1>1, h \in Seq(Tokens), d \in Seq(Tokens), CatAssoc
<1>3. Cat(Cat(Cat(a, l), Cat(h, d)), y) = Cat(Cat(a, l), Cat(Cat(h, d), y))
  BY ONLY <1>1, y \in Seq(Tokens), CatAssoc
<1>4. Cat(Cat(h, d), y) \in Seq(Tokens)
  BY ONLY <1>1, y \in Seq(Tokens), CatAssoc
<1>5. Cat(Cat(a, l), Cat(Cat(h, d), y)) = Cat(a, Cat(l, Cat(Cat(h, d), y)))
  BY ONLY <1>4, a \in Seq(Tokens), l \in Seq(Tokens), CatAssoc
<1> QED BY <1>2, <1>3, <1>4, <1>5

(* An entry ends: its directory has one more, and all of it has been read. *)
LEMMA EntryEnds ==
  ASSUME IInv, NEW pre, ReadSoFar(pre, read, expect, stack, node), expect = "entryClose",
         read \in Seq(Tokens),
         stack' = [stack EXCEPT ![Len(stack)].entries =
                     Append(@, [name |-> CHOOSE n \in Top.last : TRUE, node |-> node])]
  PROVE  \E p2 : ReadSoFar(p2, Then(read, ")"), "directory", stack', node)
<1> DEFINE n == Len(stack)
           f == stack[n]
           e == [name |-> NameOf(f), node |-> node]
           es == f.entries
           new == Append(es, e)
           S == SafeTrees[MaxDepth - n]
           E == [name : Names, node : S]
           D == Dump[MaxDepth - n]
           d == D[node]
           L == Listing(es, D)
           h == HeadOf(f)
           y == <<")">>
           back == Before(pre, stack, n - 1)
           a == back \o Opening
           r2 == Then(read, ")")
<1>1. Directories(pre, stack, n) /\ read = Before(pre, stack, n) \o d /\ node \in S
  BY DEF ReadSoFar
<1>2. /\ n \in Nat /\ n >= 1 /\ n <= MaxDepth /\ MaxDepth - n \in 0..MaxDepth
      /\ n \in 1..n /\ n \in 0..n /\ n - 1 \in 0..n /\ n - 1 # n /\ n - 1 \in Nat
  BY StackIs
<1>3. Pending(f)
  <2>1. expect \notin Between
    BY DEF Between
  <2> QED BY <1>2, <2>1, StackIs
<1>4. NameOf(f) \in Names /\ h \in Seq(Tokens)
  BY <1>3, NameIs, HeadType
<1>5. pre[n] \in Seq(Tokens) /\ es \in Seq(E) /\ pre[n] = a \o L
  BY <1>1, <1>2 DEF Directories
<1>6. \A t \in S : D[t] \in Seq(Tokens)
  BY <1>2, DumpType
<1>7. d \in Seq(Tokens)
  BY <1>1, <1>6
<1>8. L \in Seq(Tokens)
  <2>1. Lists(es, S, D)
    BY <1>5, <1>6 DEF Lists
  <2> QED BY <2>1, ListingType
<1>9. back \in Seq(Tokens)
  <2>1. n = Len(stack)
    OBVIOUS
  <2> HIDE DEF n
  <2> QED BY ONLY IInv, <1>1, <1>2, <2>1, BeforeType
<1>10. Opening \in Seq(Tokens) /\ y \in Seq(Tokens) /\ ")" \in Tokens
  BY SomeTokens DEF Opening
<1>11. e \in E /\ e.name = NameOf(f) /\ e.node = node
  BY <1>1, <1>4
<1>12. /\ Len(stack') = n /\ stack'[n].entries = new /\ stack'[n].last = f.last
       /\ \A k \in 1..n - 1 : stack'[k] = stack[k]
  <2>1. PICK N : node \in N /\ stack \in Seq(Frame(N))
    BY DEF IInv, TypeInv
  <2>2. stack # <<>> /\ Top \in Frame(N) /\ Top = f
    <3>1. stack # <<>>
      BY <1>2
    <3> QED BY <2>1, <3>1, TopFrame DEF Top
  <2>3. (CHOOSE m \in Top.last : TRUE) = NameOf(f)
    BY <2>2 DEF NameOf
  <2> DEFINE g == [f EXCEPT !.entries = new]
  <2>4. stack' = [stack EXCEPT ![n] = g]
    BY <2>3 DEF Top
  <2>5. new \in Seq([name : Names, node : N])
    <3>1. es \in Seq([name : Names, node : N])
      BY <2>2 DEF Frame
    <3>2. e \in [name : Names, node : N]
      BY <1>4, <2>1
    <3> HIDE DEF e, es
    <3> QED BY ONLY <3>1, <3>2
  <2> HIDE DEF new
  <2>6. g.entries = new /\ g.last = f.last
    BY <2>2 DEF Frame
  <2> HIDE DEF g
  <2>7. Len(stack') = n /\ stack'[n] = g /\ \A k \in 1..n : k # n => stack'[k] = stack[k]
    BY <1>2, <2>1, <2>4
  <2>8. \A k \in 1..n - 1 : k \in 1..n /\ k # n
    BY <1>2
  <2> QED BY <2>6, <2>7, <2>8
<1>13. Entry(e, D) = Cat(Cat(h, d), y)
  <2>1. h = <<"entry", "(", "name", NameOf(f), "node">>
    BY DEF HeadOf
  <2> HIDE DEF e, f, h, D
  <2>2. Entry(e, D) = <<"entry", "(", "name", e.name, "node">> \o D[e.node] \o <<")">>
    BY DEF Entry
  <2> DEFINE x == <<"entry", "(", "name", e.name, "node">>
             g == D[e.node]
  <2>3. x = h
    BY ONLY <1>11, <2>1
  <2>4. g = d
    BY ONLY <1>11 DEF d
  <2>5. Entry(e, D) = Cat(Cat(x, g), y)
    BY ONLY <2>2 DEF Cat, y
  <2> HIDE DEF x, g, d, y
  <2> QED BY ONLY <2>3, <2>4, <2>5
<1>14. Before(pre, stack, n) = Cat(pre[n], h)
  <2>1. n # 0
    BY <1>2
  <2> HIDE DEF n
  <2> QED BY ONLY <2>1 DEF Before, Cat, h, f
<1> HIDE DEF n, f, e, es, S, E, D, d, L, h, y, back
<1>15. a \in Seq(Tokens)
  BY ONLY <1>9, <1>10, JoinType
<1> HIDE DEF a
<1>16. Listing(new, D) = L \o Entry(e, D)
  BY ONLY <1>5, <1>11, ListingOneMore DEF L
<1>17. new \in Seq(E)
  BY ONLY <1>5, <1>11
<1> HIDE DEF new
<1>18. r2 = a \o Listing(new, D) /\ r2 \in Seq(Tokens)
  <2>1. Then(read, ")") = Cat(read, y) /\ Then(read, ")") \in Seq(Tokens)
    BY <1>10, ThenIsCat DEF y
  <2>2. read = Cat(Cat(Cat(a, L), h), d)
    BY <1>1, <1>5, <1>14 DEF Cat
  <2>3. Cat(Cat(Cat(Cat(a, L), h), d), y) = Cat(a, Cat(L, Cat(Cat(h, d), y)))
    BY ONLY <1>4, <1>7, <1>8, <1>10, <1>15, FiveParts
  <2>4. Listing(new, D) = Cat(L, Cat(Cat(h, d), y))
    <3>1. Listing(new, D) = Cat(L, Entry(e, D))
      BY <1>16 DEF Cat
    <3> QED BY <1>13, <3>1
  <2>5. r2 = Cat(a, Listing(new, D))
    BY <2>1, <2>2, <2>3, <2>4
  <2> QED BY <2>1, <2>5 DEF Cat
<1> HIDE DEF r2
<1> DEFINE p2 == [k \in 0..n |-> IF k = n THEN r2 ELSE pre[k]]
<1>19. p2[n] = r2 /\ \A k \in 0..n - 1 : p2[k] = pre[k]
  BY <1>2
<1> HIDE DEF p2
<1>20. Directories(p2, stack', n - 1)
  <2>1. Directories(pre, stack, n - 1)
    BY ONLY <1>1, <1>2, DirectoriesFewer
  <2>2. \A k \in 1..n - 1 : stack'[k].entries = stack[k].entries
    BY <1>12
  <2>3. \A k \in 1..(n - 1) - 1 : stack'[k].last = stack[k].last
    BY <1>2, <1>12
  <2> QED BY ONLY <1>2, <1>19, <2>1, <2>2, <2>3, DirectoriesKept
<1>21. Before(p2, stack', n - 1) = back
  <2>1. n - 1 \in 0..n - 1 /\ 0 \in 0..n - 1 /\ (n - 1 # 0 => n - 1 \in 1..n - 1)
    BY <1>2
  <2> QED BY <1>12, <1>19, <2>1 DEF Before, back
<1>22. Directories(p2, stack', n)
  <2> DEFINE m == n - 1
  <2>1. m \in Nat /\ m + 1 = n
    BY <1>2
  <2>2. Directories(p2, stack', m)
    BY <1>20
  <2>3. Before(p2, stack', m) = back
    BY <1>21
  <2> HIDE DEF m
  <2>4. /\ p2[m + 1] \in Seq(Tokens)
        /\ stack'[m + 1].entries \in Seq([name : Names, node : SafeTrees[MaxDepth - (m + 1)]])
        /\ p2[m + 1] = Before(p2, stack', m) \o Opening
                         \o Listing(stack'[m + 1].entries, Dump[MaxDepth - (m + 1)])
    <3>1. p2[n] = back \o Opening \o Listing(new, D)
      BY <1>18, <1>19 DEF a
    <3> QED BY <1>12, <1>17, <1>18, <1>19, <2>1, <2>3, <3>1 DEF D, E, S
  <2>5. Directories(p2, stack', m + 1)
    BY ONLY <2>1, <2>2, <2>4, DirectoriesOneMore
  <2> QED BY <2>1, <2>5
<1>23. r2 = p2[n] \o InDirectory["directory"]
  <2>1. InDirectory["directory"] = <<>>
    BY DirectoryLabels
  <2>2. r2 \o <<>> = r2
    BY ONLY <1>18, JoinNone
  <2> QED BY <1>19, <2>1, <2>2
<1>24. "directory" \notin DOMAIN InNode
  BY NodeLabels
<1>25. n = Len(stack')
  BY <1>12
<1>26. ReadSoFar(p2, r2, "directory", stack', node)
  BY ONLY <1>22, <1>23, <1>24, <1>25 DEF ReadSoFar
<1> QED BY <1>26 DEF r2

(* The ")" of an entry. *)
LEMMA CloseEntryArchive ==
  ASSUME IInv, ArchiveInv, NEW s \in Words, CloseEntry(s)
  PROVE  ArchiveInv'
<1>0. s \in Tokens /\ Reads("entryClose", s)
  BY DEF Tokens, CloseEntry
<1>1. CASE Refuse
  BY <1>0, <1>1, Refused
<1>2. CASE /\ s = ")"
           /\ stack' = [stack EXCEPT ![Len(stack)].entries =
                          Append(@, [name |-> CHOOSE n \in Top.last : TRUE, node |-> node])]
           /\ Go("directory") /\ UNCHANGED node
  <2>1. /\ read' = Then(read, s) /\ read' \in Seq(Tokens) /\ expect = "entryClose"
        /\ result = "reading" /\ read \in Seq(Tokens)
        /\ \E pre : ReadSoFar(pre, read, expect, stack, node)
    BY <1>0, Known
  <2>2. PICK pre : ReadSoFar(pre, read, expect, stack, node)
    BY <2>1
  <2>3. PICK p2 : ReadSoFar(p2, Then(read, ")"), "directory", stack', node)
    BY <1>2, <2>1, <2>2, EntryEnds
  <2>4. expect' = "directory" /\ result' = "reading" /\ node' = node /\ s = ")"
    BY <1>2, <2>1 DEF Go
  <2>5. ReadSoFar(p2, read', expect', stack', node')
    BY <2>1, <2>3, <2>4
  <2> QED BY <2>1, <2>4, <2>5, ReadsOn
<1> QED BY <1>1, <1>2 DEF CloseEntry

-----------------------------------------------------------------------------
(* Nothing has been read at first. *)
LEMMA InitArchive == Init => ArchiveInv
<1> SUFFICES ASSUME Init PROVE ArchiveInv
  OBVIOUS
<1>1. read \in Seq(Tokens)
  BY DEF Init
<1> QED BY <1>1 DEF Init, ArchiveInv

(* Every read preserves what has been read so far. *)
LEMMA NextArchive == IInv /\ ArchiveInv /\ [Next]_vars => ArchiveInv'
<1> SUFFICES ASSUME IInv, ArchiveInv, [Next]_vars PROVE ArchiveInv'
  OBVIOUS
<1>1. CASE UNCHANGED vars
  BY <1>1 DEF vars, ArchiveInv
<1>2. CASE ReadFails
  <2>1. read' \in Seq(Tokens) /\ result' = "eof"
    BY <1>2 DEF ReadFails, ArchiveInv
  <2> QED BY <2>1, Ends
<1>3. ASSUME NEW s \in Words, NEW label \in DOMAIN Keyword, ExpectStr(label, s)
      PROVE  ArchiveInv'
  BY <1>3, ExpectStrArchive
<1>4. ASSUME NEW s \in Words, \/ NodeType(s) \/ RegularBody(s) \/ DirectoryNext(s)
                              \/ Close(s) \/ CloseEntry(s)
      PROVE  ArchiveInv'
  BY <1>4, NodeTypeArchive, RegularBodyArchive, DirectoryNextArchive, CloseArchive,
     CloseEntryArchive
<1>5. ASSUME NEW s \in Payloads, Contents(s) \/ LinkTarget(s) PROVE ArchiveInv'
  BY <1>5, ContentsArchive, LinkTargetArchive
<1>6. ASSUME NEW s \in Names, EntryName(s) PROVE ArchiveInv'
  BY <1>6, EntryNameArchive
<1> QED BY <1>1, <1>2, <1>3, <1>4, <1>5, <1>6, Zenon DEF Next

(***************************************************************************)
(* parse: a stream that is accepted is, string for string, Wire of the     *)
(* tree returned (its archive, and one more ")" for a directory), and that *)
(* tree is safe to extract: for every set of names and payloads, their     *)
(* order and max_depth.                                                    *)
(***************************************************************************)
THEOREM AcceptedTheorem == Spec => []AcceptedIsArchive
<1>1. ArchiveInv => AcceptedIsArchive
  BY DEF ArchiveInv, AcceptedIsArchive
<1>2. Init => ArchiveInv
  BY InitArchive
<1>3. IInv /\ ArchiveInv /\ [Next]_vars => ArchiveInv'
  BY NextArchive
<1> QED BY <1>1, <1>2, <1>3, ParserInvariant, PTL DEF Spec

-----------------------------------------------------------------------------
(* What is to come, measured by a tree whose archive begins with what was read *)

(* A string, and then a part. *)
Lead(x, q) == <<x>> \o q

(* A string before a part: what that is, string by string. *)
LEMMA LeadType ==
  ASSUME NEW x, x \in Tokens, NEW q, q \in Seq(Tokens)
  PROVE  /\ Lead(x, q) \in Seq(Tokens) /\ Lead(x, q) # <<>>
         /\ Len(Lead(x, q)) = Len(q) + 1 /\ Lead(x, q)[1] = x
         /\ \A i \in 1..Len(q) : Lead(x, q)[i + 1] = q[i]
<1>1. <<x>> \in Seq(Tokens) /\ Len(<<x>>) = 1 /\ <<x>>[1] = x
  OBVIOUS
<1> DEFINE p == <<x>>
           r == p \o q
<1>2. p \in Seq(Tokens) /\ Len(p) = 1 /\ p[1] = x /\ Len(q) \in Nat
  BY <1>1
<1> HIDE DEF p
<1>3. /\ r \in Seq(Tokens) /\ Len(r) = Len(p) + Len(q)
      /\ \A i \in 1..Len(p) : r[i] = p[i]
      /\ \A i \in Len(p) + 1..Len(p) + Len(q) : r[i] = q[i - Len(p)]
  <2>1. p \in Seq(Tokens)
    BY <1>2
  <2> QED BY ONLY <2>1, q \in Seq(Tokens), JoinType
<1> HIDE DEF r
<1>4. Len(r) = Len(q) + 1 /\ r[1] = x
  BY <1>2, <1>3
<1>5. ASSUME NEW i \in 1..Len(q) PROVE r[i + 1] = q[i]
  <2>1. i + 1 \in Len(p) + 1..Len(p) + Len(q) /\ (i + 1) - Len(p) = i
    BY <1>2
  <2> QED BY <1>3, <2>1
<1>6. r # <<>>
  BY <1>2, <1>3, <1>4
<1> QED BY <1>3, <1>4, <1>5, <1>6 DEF Lead, r, p

(* The first string and what follows it are known from the whole. *)
LEMMA LeadIs ==
  ASSUME NEW x, x \in Tokens, NEW q, q \in Seq(Tokens), NEW y, y \in Tokens,
         NEW r, r \in Seq(Tokens), Lead(x, q) = Lead(y, r)
  PROVE  x = y /\ q = r
<1>1. /\ Len(Lead(x, q)) = Len(q) + 1 /\ Lead(x, q)[1] = x
      /\ \A i \in 1..Len(q) : Lead(x, q)[i + 1] = q[i]
  BY ONLY x \in Tokens, q \in Seq(Tokens), LeadType
<1>2. /\ Len(Lead(y, r)) = Len(r) + 1 /\ Lead(y, r)[1] = y
      /\ \A i \in 1..Len(r) : Lead(y, r)[i + 1] = r[i]
  BY ONLY y \in Tokens, r \in Seq(Tokens), LeadType
<1>3. Len(q) = Len(r)
  <2>1. Len(q) \in Nat /\ Len(r) \in Nat
    OBVIOUS
  <2> QED BY <1>1, <1>2, <2>1
<1>4. \A i \in 1..Len(q) : q[i] = r[i]
  BY <1>1, <1>2, <1>3
<1>5. q = r
  BY ONLY <1>3, <1>4, q \in Seq(Tokens), r \in Seq(Tokens), SameSeq
<1> QED BY <1>1, <1>2, <1>5

(* How strings and parts are put together. *)
LEMMA LeadCat ==
  ASSUME NEW x, x \in Tokens, NEW p, p \in Seq(Tokens), NEW q, q \in Seq(Tokens)
  PROVE  /\ Cat(Lead(x, p), q) = Lead(x, Cat(p, q))
         /\ Cat(Then(p, x), q) = Cat(p, Lead(x, q))
<1> DEFINE y == <<x>>
<1>1. y \in Seq(Tokens) /\ Then(p, x) = Cat(p, y)
  BY ThenIsCat
<1>2. \A r : Lead(x, r) = Cat(y, r)
  BY DEF Lead, Cat
<1> HIDE DEF y
<1>3. Cat(Cat(y, p), q) = Cat(y, Cat(p, q))
  BY ONLY <1>1, p \in Seq(Tokens), q \in Seq(Tokens), CatAssoc
<1>4. Cat(Cat(p, y), q) = Cat(p, Cat(y, q))
  BY ONLY <1>1, p \in Seq(Tokens), q \in Seq(Tokens), CatAssoc
<1> QED BY <1>1, <1>2, <1>3, <1>4

(* Two parts are one; the empty part adds nothing. *)
LEMMA CatType ==
  ASSUME NEW p, p \in Seq(Tokens), NEW q, q \in Seq(Tokens)
  PROVE  Cat(p, q) \in Seq(Tokens) /\ Cat(p, <<>>) = p /\ Cat(<<>>, p) = p
<1>1. p \o q \in Seq(Tokens)
  BY JoinType
<1>2. p \o <<>> = p /\ <<>> \o p = p
  BY JoinNone
<1> QED BY <1>1, <1>2 DEF Cat

(* Tail drops the first element and nothing else. *)
LEMMA TailOf ==
  ASSUME NEW S, NEW s, s \in Seq(S), s # <<>>
  PROVE  /\ Tail(s) \in Seq(S) /\ Len(Tail(s)) = Len(s) - 1 /\ Len(s) \in Nat /\ Len(s) >= 1
         /\ \A i \in 1..Len(s) - 1 : Tail(s)[i] = s[i + 1]
         /\ s[1] \in S
  OBVIOUS

(* The strings of the first entry come first. *)
LEMMA ListingOneFirst ==
  ASSUME NEW S, NEW dump, NEW es, Lists(es, S, dump), es # <<>>
  PROVE  /\ Listing(es, dump) = Cat(Entry(es[1], dump), Listing(Tail(es), dump))
         /\ es[1] \in [name : Names, node : S]
         /\ Tail(es) \in Seq([name : Names, node : S])
<1> DEFINE E == [name : Names, node : S]
           r == Tail(es)
           M == Len(es) - 1
           one == Entry(es[1], dump)
<1>1. es \in Seq(E) /\ \A n \in S : dump[n] \in Seq(Tokens)
  BY DEF Lists
<1>2. /\ r \in Seq(E) /\ Len(r) = Len(es) - 1 /\ Len(es) \in Nat /\ Len(es) >= 1
      /\ (\A i \in 1..Len(es) - 1 : r[i] = es[i + 1]) /\ es[1] \in E
  <2> HIDE DEF E
  <2> QED BY ONLY <1>1, es # <<>>, TailOf
<1>3. M \in Nat /\ Len(r) = M /\ Len(es) = M + 1
  BY <1>2
<1>4. one \in Seq(Tokens)
  BY <1>1, <1>2, EntryType
<1>5. \A k \in 1..M : Entry(r[k], dump) \in Seq(Tokens)
  <2> TAKE k \in 1..M
  <2>1. r[k] \in E
    <3> HIDE DEF E
    <3> QED BY <1>2, <1>3
  <2> QED BY <1>1, <2>1, EntryType
<1>6. PICK f : IsListing(es, dump, f) /\ Listing(es, dump) = f[Len(es)]
  BY <1>2, ListingIs
<1>7. PICK g : IsListing(r, dump, g) /\ Listing(r, dump) = g[Len(r)]
  BY <1>3, ListingIs
<1> DEFINE Ent(k) == Entry(r[k], dump)
           Good == {k \in 0..M : g[k] \in Seq(Tokens) /\ f[k + 1] = Cat(one, g[k])}
<1>8. f[1] = one
  <2>1. f[0] = <<>> /\ 1 \in 1..Len(es)
    BY <1>2, <1>6 DEF IsListing
  <2>2. f[1] = f[1 - 1] \o one
    BY <1>6, <2>1 DEF IsListing
  <2>3. 1 - 1 = 0
    OBVIOUS
  <2> HIDE DEF one
  <2>4. <<>> \o one = one
    BY ONLY <1>4, JoinNone
  <2> QED BY <2>1, <2>2, <2>3, <2>4
<1>9. g[0] = <<>>
  BY <1>7 DEF IsListing
<1>10. \A k \in 1..M : g[k] = Cat(g[k - 1], Ent(k))
  BY <1>3, <1>7 DEF IsListing, Cat
<1>11. \A k \in 1..M : f[k + 1] = Cat(f[k], Ent(k))
  <2> TAKE k \in 1..M
  <2>1. k + 1 \in 1..Len(es) /\ (k + 1) - 1 = k /\ r[k] = es[k + 1]
    BY <1>2, <1>3
  <2>2. f[k + 1] = f[(k + 1) - 1] \o Entry(es[k + 1], dump)
    BY <1>6, <2>1 DEF IsListing
  <2> QED BY <2>1, <2>2 DEF Cat
<1>12. \A k \in 1..M : Ent(k) \in Seq(Tokens)
  BY <1>5
<1> HIDE DEF one, Ent, M, r
<1>13. 0 \in Good
  <2>1. <<>> \in Seq(Tokens) /\ Cat(one, <<>>) = one
    BY <1>4, CatType
  <2>2. 0 + 1 = 1 /\ 0 \in 0..M
    BY <1>3
  <2>3. f[0 + 1] = Cat(one, g[0]) /\ g[0] \in Seq(Tokens)
    BY ONLY <1>8, <1>9, <2>1, <2>2
  <2> QED BY <2>2, <2>3
<1>14. ASSUME NEW k \in 1..M, k - 1 \in Good PROVE k \in Good
  <2>1. g[k - 1] \in Seq(Tokens) /\ f[k] = Cat(one, g[k - 1])
    <3>1. (k - 1) + 1 = k
      OBVIOUS
    <3> QED BY <1>14, <3>1
  <2> DEFINE h == g[k - 1]
             e == Ent(k)
  <2>2. h \in Seq(Tokens) /\ e \in Seq(Tokens) /\ f[k] = Cat(one, h) /\ g[k] = Cat(h, e)
        /\ f[k + 1] = Cat(f[k], e)
    BY <1>10, <1>11, <1>12, <2>1
  <2> HIDE DEF h, e
  <2>3. Cat(Cat(one, h), e) = Cat(one, Cat(h, e)) /\ Cat(h, e) \in Seq(Tokens)
    BY ONLY <1>4, <2>2, CatAssoc
  <2> QED BY <1>3, <2>2, <2>3
<1>15. \A k \in 0..M : k \in Good
  <2> HIDE DEF Good
  <2> QED BY ONLY <1>3, <1>13, <1>14, ByInduction
<1>16. f[M + 1] = Cat(one, g[M])
  BY <1>3, <1>15, M \in 0..M
<1>17. Listing(es, dump) = Cat(one, Listing(r, dump))
  BY <1>3, <1>6, <1>7, <1>16
<1> QED BY <1>2, <1>17 DEF one, r

-----------------------------------------------------------------------------
(* The four kinds of nodes, and their strings. *)
IsLink(t, D) ==
  /\ t.type = "symlink" /\ t.target \in Payloads /\ t.target # NotText
  /\ D = <<"(", "type", "symlink", "target", t.target, ")">>

IsExecutable(t, D) ==
  /\ t.type = "regular" /\ t.contents \in Payloads
  /\ D = <<"(", "type", "regular", "executable", Empty, "contents", t.contents, ")">>

IsFile(t, D) ==
  /\ t.type = "regular" /\ t.contents \in Payloads
  /\ D = <<"(", "type", "regular", "contents", t.contents, ")">>

IsDirectory(t, D, d) ==
  /\ t.type = "directory" /\ d \in 1..MaxDepth
  /\ t.entries \in Seq([name : Names, node : SafeTrees[d - 1]]) /\ InNameOrder(t.entries)
  /\ D = Cat(Opening, Cat(Listing(t.entries, Dump[d - 1]), <<")">>))

(* A leaf is a link, an executable or a plain file. *)
LEMMA LeafForms ==
  ASSUME NEW t, t \in Leaves
  PROVE  IsLink(t, LeafDump(t)) \/ IsExecutable(t, LeafDump(t)) \/ IsFile(t, LeafDump(t))
<1>1. CASE \E c \in Payloads : t = Regular(TRUE, c)
  <2>1. PICK c \in Payloads : t = Regular(TRUE, c)
    BY <1>1
  <2>2. t.type = "regular" /\ t.executable /\ t.contents = c
    BY <2>1 DEF Regular
  <2>3. LeafDump(t) = <<"(", "type", "regular", "executable", Empty, "contents", t.contents, ")">>
    BY ONLY <2>2 DEF LeafDump
  <2> QED BY <2>2, <2>3 DEF IsExecutable
<1>2. CASE \E c \in Payloads : t = Regular(FALSE, c)
  <2>1. PICK c \in Payloads : t = Regular(FALSE, c)
    BY <1>2
  <2>2. t.type = "regular" /\ ~t.executable /\ t.contents = c
    BY <2>1 DEF Regular
  <2>3. LeafDump(t) = <<"(", "type", "regular", "contents", t.contents, ")">>
    BY ONLY <2>2 DEF LeafDump
  <2> QED BY <2>2, <2>3 DEF IsFile
<1>3. CASE \E c \in Payloads \ {NotText} : t = Symlink(c)
  <2>1. PICK c \in Payloads \ {NotText} : t = Symlink(c)
    BY <1>3
  <2>2. t.type = "symlink" /\ t.target = c
    BY <2>1 DEF Symlink
  <2>3. LeafDump(t) = <<"(", "type", "symlink", "target", t.target, ")">>
    BY ONLY <2>2 DEF LeafDump
  <2> QED BY <2>2, <2>3 DEF IsLink
<1>4. \/ \E x \in BOOLEAN, c \in Payloads : t = Regular(x, c)
      \/ \E c \in Payloads \ {NotText} : t = Symlink(c)
  BY DEF Leaves
<1>5. ASSUME NEW x \in BOOLEAN, NEW c \in Payloads, t = Regular(x, c)
      PROVE  \E b \in Payloads : t = Regular(TRUE, b) \/ t = Regular(FALSE, b)
  <2>1. x = TRUE \/ x = FALSE
    OBVIOUS
  <2> QED BY <1>5, <2>1
<1> QED BY <1>1, <1>2, <1>3, <1>4, <1>5

(* A safe tree is a leaf or a directory of safe trees. *)
LEMMA NodeForms ==
  ASSUME NEW d, d \in 0..MaxDepth, NEW t, t \in SafeTrees[d]
  PROVE  \/ IsLink(t, Dump[d][t]) \/ IsExecutable(t, Dump[d][t]) \/ IsFile(t, Dump[d][t])
         \/ IsDirectory(t, Dump[d][t], d)
<1>1. CASE t \in Leaves
  <2>1. Dump[d][t] = LeafDump(t)
    BY <1>1, LeafAnywhere
  <2> QED BY <1>1, <2>1, LeafForms
<1>2. CASE t \notin Leaves
  <2>1. d # 0
    BY <1>2, SafeTreesAre
  <2>2. d \in 1..MaxDepth
    BY <2>1, ParserAssumption
  <2>3. t \in DirectoriesOf(SafeTrees[d - 1])
    BY <1>2, <2>2, SafeTreesAre
  <2>4. /\ t.type = "directory" /\ InNameOrder(t.entries)
        /\ t.entries \in Seq([name : Names, node : SafeTrees[d - 1]])
    BY <2>3 DEF DirectoriesOf
  <2> DEFINE L == Listing(t.entries, Dump[d - 1])
             D == Dump[d - 1]
             y == <<")">>
  <2>5. Dump[d] = DumpOver(SafeTrees[d], Dump[d - 1])
    BY <2>2, DumpsAre
  <2>6. DumpOver(SafeTrees[d], Dump[d - 1])[t] = <<"(", "type", "directory">> \o L \o y
    BY <2>4 DEF DumpOver
  <2>7. L \in Seq(Tokens)
    <3>1. d - 1 \in 0..MaxDepth
      BY <2>2, ParserAssumption
    <3>2. \A n \in SafeTrees[d - 1] : Dump[d - 1][n] \in Seq(Tokens)
      BY <3>1, DumpType
    <3>3. Lists(t.entries, SafeTrees[d - 1], Dump[d - 1])
      BY <2>4, <3>2 DEF Lists
    <3> QED BY <3>3, ListingType
  <2>8. Opening \in Seq(Tokens) /\ y \in Seq(Tokens)
    BY SomeTokens DEF Opening
  <2>9. Dump[d][t] = Cat(Cat(Opening, L), y)
    <3>1. DumpOver(SafeTrees[d], Dump[d - 1])[t] = Cat(Cat(Opening, L), y)
      BY <2>6 DEF Cat, Opening
    <3> QED BY <2>5, <3>1
  <2> HIDE DEF L, y
  <2>10. Cat(Cat(Opening, L), y) = Cat(Opening, Cat(L, y))
    BY ONLY <2>7, <2>8, CatAssoc
  <2>11. Dump[d][t] = Cat(Opening, Cat(L, y))
    BY <2>9, <2>10
  <2> QED BY <2>2, <2>4, <2>11 DEF IsDirectory, L, y
<1> QED BY <1>1, <1>2

(* What is to come of a node where the code reads the string of a label, when *)
(* the node is in n directories and tl comes after it.                        *)
Content(c, tl) == Lead(c, Lead(")", tl))

EntriesIn(n) == Seq([name : Names, node : SafeTrees[MaxDepth - (n + 1)]])

KindToCome(n, tl, rest) ==
  \/ \E c \in Payloads \ {NotText} : rest = Lead("symlink", Lead("target", Content(c, tl)))
  \/ \E c \in Payloads : rest = Lead("regular", Lead("contents", Content(c, tl)))
  \/ \E c \in Payloads :
       rest = Lead("regular", Lead("executable", Lead(Empty, Lead("contents", Content(c, tl)))))
  \/ /\ n < MaxDepth
     /\ n = 0 => \E q \in Seq(Tokens) : tl = Lead(")", q)
     /\ \E es \in EntriesIn(n) :
          /\ InNameOrder(es)
          /\ rest = Lead("directory", Cat(Listing(es, Dump[MaxDepth - (n + 1)]), Lead(")", tl)))

NodeToCome(n, tl, e, rest) ==
  /\ e = "open"   => \E q \in Seq(Tokens) :
                       KindToCome(n, tl, q) /\ rest = Lead("(", Lead("type", q))
  /\ e = "type"   => \E q \in Seq(Tokens) : KindToCome(n, tl, q) /\ rest = Lead("type", q)
  /\ e = "kind"   => KindToCome(n, tl, rest)
  /\ e = "target" => \E c \in Payloads \ {NotText} : rest = Lead("target", Content(c, tl))
  /\ e = "link"   => \E c \in Payloads \ {NotText} : rest = Content(c, tl)
  /\ e = "body"   => \E c \in Payloads :
                       \/ rest = Lead("contents", Content(c, tl))
                       \/ rest = Lead("executable", Lead(Empty, Lead("contents", Content(c, tl))))
  /\ e = "blank"    => \E c \in Payloads : rest = Lead(Empty, Lead("contents", Content(c, tl)))
  /\ e = "contents" => \E c \in Payloads : rest = Lead("contents", Content(c, tl))
  /\ e \in {"data", "execData"} => \E c \in Payloads : rest = Content(c, tl)

-----------------------------------------------------------------------------
(* What comes at the contents of a file, and before them, is made of strings of the stream. *)
LEMMA ContentType ==
  ASSUME NEW c, c \in Payloads, NEW tl, tl \in Seq(Tokens)
  PROVE  /\ c \in Tokens /\ Lead(")", tl) \in Seq(Tokens) /\ Content(c, tl) \in Seq(Tokens)
         /\ Lead("target", Content(c, tl)) \in Seq(Tokens)
         /\ Lead("contents", Content(c, tl)) \in Seq(Tokens)
         /\ Lead(Empty, Lead("contents", Content(c, tl))) \in Seq(Tokens)
         /\ Lead("executable", Lead(Empty, Lead("contents", Content(c, tl)))) \in Seq(Tokens)
<1>1. c \in Tokens
  BY SomeTokens
<1>2. \A x \in Tokens, q \in Seq(Tokens) : Lead(x, q) \in Seq(Tokens)
  BY LeadType
<1> QED BY <1>1, <1>2, SomeTokens DEF Content

(* A part that leads one that is put before tl. *)
LEMMA LeadsOn ==
  ASSUME NEW x, x \in Tokens, NEW p, p \in Seq(Tokens), NEW tl, tl \in Seq(Tokens),
         NEW q, q = Cat(p, tl)
  PROVE  /\ Cat(Lead(x, p), tl) = Lead(x, q) /\ Lead(x, p) \in Seq(Tokens)
         /\ q \in Seq(Tokens) /\ Lead(x, q) \in Seq(Tokens)
<1>1. q \in Seq(Tokens)
  BY CatType
<1> QED BY <1>1, LeadCat, LeadType

(* The ")" of a node, and then what comes after the node. *)
LEMMA ClosesWith ==
  ASSUME NEW tl, tl \in Seq(Tokens)
  PROVE  /\ <<")">> \in Seq(Tokens) /\ Cat(<<")">>, tl) = Lead(")", tl)
         /\ Lead(")", tl) \in Seq(Tokens)
<1>1. <<")">> \in Seq(Tokens)
  BY SomeTokens
<1>2. Lead(")", tl) \in Seq(Tokens)
  BY LeadType, SomeTokens
<1> QED BY <1>1, <1>2 DEF Cat, Lead

(* The contents or the target, the ")", and then what comes after the node. *)
LEMMA ContentEnds ==
  ASSUME NEW c, c \in Payloads, NEW tl, tl \in Seq(Tokens)
  PROVE  <<c, ")">> \in Seq(Tokens) /\ Cat(<<c, ")">>, tl) = Content(c, tl)
<1> DEFINE p == <<")">>
<1>1. c \in Tokens /\ p \in Seq(Tokens) /\ Cat(p, tl) = Lead(")", tl)
  BY SomeTokens, ClosesWith
<1>2. <<c, ")">> = Lead(c, p)
  BY DEF Lead
<1> HIDE DEF p
<1>3. Cat(Lead(c, p), tl) = Lead(c, Lead(")", tl)) /\ Lead(c, p) \in Seq(Tokens)
  BY ONLY <1>1, tl \in Seq(Tokens), LeadsOn
<1> QED BY <1>2, <1>3 DEF Content

(* The strings of the leaves. *)
LEMMA LinkComes ==
  ASSUME NEW c, c \in Payloads, NEW tl, tl \in Seq(Tokens)
  PROVE  Cat(<<"(", "type", "symlink", "target", c, ")">>, tl)
           = Lead("(", Lead("type", Lead("symlink", Lead("target", Content(c, tl)))))
<1> DEFINE p1 == <<c, ")">>
           p2 == <<"target", c, ")">>
           p3 == <<"symlink", "target", c, ")">>
           p4 == <<"type", "symlink", "target", c, ")">>
           p5 == <<"(", "type", "symlink", "target", c, ")">>
<1>1. p2 = Lead("target", p1) /\ p3 = Lead("symlink", p2) /\ p4 = Lead("type", p3)
      /\ p5 = Lead("(", p4)
  BY DEF Lead
<1>2. p1 \in Seq(Tokens) /\ Cat(p1, tl) = Content(c, tl)
  BY ContentEnds
<1> DEFINE q1 == Content(c, tl)
           q2 == Lead("target", q1)
           q3 == Lead("symlink", q2)
           q4 == Lead("type", q3)
<1>3. p1 \in Seq(Tokens) /\ q1 = Cat(p1, tl)
  BY <1>2
<1> HIDE DEF p1, p2, p3, p4, p5, q1
<1>4. p2 \in Seq(Tokens) /\ q2 = Cat(p2, tl)
  BY ONLY <1>1, <1>3, tl \in Seq(Tokens), SomeTokens, LeadsOn
<1> HIDE DEF q2
<1>5. p3 \in Seq(Tokens) /\ q3 = Cat(p3, tl)
  BY ONLY <1>1, <1>4, tl \in Seq(Tokens), SomeTokens, LeadsOn
<1> HIDE DEF q3
<1>6. p4 \in Seq(Tokens) /\ q4 = Cat(p4, tl)
  BY ONLY <1>1, <1>5, tl \in Seq(Tokens), SomeTokens, LeadsOn
<1> HIDE DEF q4
<1>7. Cat(p5, tl) = Lead("(", q4)
  BY ONLY <1>1, <1>6, tl \in Seq(Tokens), SomeTokens, LeadsOn
<1> QED BY <1>7 DEF p5, q4, q3, q2, q1

(* The strings of a plain file, and then what comes after it. *)
LEMMA FileComes ==
  ASSUME NEW c, c \in Payloads, NEW tl, tl \in Seq(Tokens)
  PROVE  Cat(<<"(", "type", "regular", "contents", c, ")">>, tl)
           = Lead("(", Lead("type", Lead("regular", Lead("contents", Content(c, tl)))))
<1> DEFINE p1 == <<c, ")">>
           p2 == <<"contents", c, ")">>
           p3 == <<"regular", "contents", c, ")">>
           p4 == <<"type", "regular", "contents", c, ")">>
           p5 == <<"(", "type", "regular", "contents", c, ")">>
<1>1. p2 = Lead("contents", p1) /\ p3 = Lead("regular", p2) /\ p4 = Lead("type", p3)
      /\ p5 = Lead("(", p4)
  BY DEF Lead
<1>2. p1 \in Seq(Tokens) /\ Cat(p1, tl) = Content(c, tl)
  BY ContentEnds
<1> DEFINE q1 == Content(c, tl)
           q2 == Lead("contents", q1)
           q3 == Lead("regular", q2)
           q4 == Lead("type", q3)
<1>3. p1 \in Seq(Tokens) /\ q1 = Cat(p1, tl)
  BY <1>2
<1> HIDE DEF p1, p2, p3, p4, p5, q1
<1>4. p2 \in Seq(Tokens) /\ q2 = Cat(p2, tl)
  BY ONLY <1>1, <1>3, tl \in Seq(Tokens), SomeTokens, LeadsOn
<1> HIDE DEF q2
<1>5. p3 \in Seq(Tokens) /\ q3 = Cat(p3, tl)
  BY ONLY <1>1, <1>4, tl \in Seq(Tokens), SomeTokens, LeadsOn
<1> HIDE DEF q3
<1>6. p4 \in Seq(Tokens) /\ q4 = Cat(p4, tl)
  BY ONLY <1>1, <1>5, tl \in Seq(Tokens), SomeTokens, LeadsOn
<1> HIDE DEF q4
<1>7. Cat(p5, tl) = Lead("(", q4)
  BY ONLY <1>1, <1>6, tl \in Seq(Tokens), SomeTokens, LeadsOn
<1> QED BY <1>7 DEF p5, q4, q3, q2, q1

(* The strings of an executable, and then what comes after it. *)
LEMMA ExecutableComes ==
  ASSUME NEW c, c \in Payloads, NEW tl, tl \in Seq(Tokens)
  PROVE  Cat(<<"(", "type", "regular", "executable", Empty, "contents", c, ")">>, tl)
           = Lead("(", Lead("type", Lead("regular", Lead("executable", Lead(Empty,
               Lead("contents", Content(c, tl)))))))
<1> DEFINE p1 == <<c, ")">>
           p2 == <<"contents", c, ")">>
           p3 == <<Empty, "contents", c, ")">>
           p4 == <<"executable", Empty, "contents", c, ")">>
           p5 == <<"regular", "executable", Empty, "contents", c, ")">>
           p6 == <<"type", "regular", "executable", Empty, "contents", c, ")">>
           p7 == <<"(", "type", "regular", "executable", Empty, "contents", c, ")">>
<1>1. p2 = Lead("contents", p1) /\ p3 = Lead(Empty, p2) /\ p4 = Lead("executable", p3)
  BY DEF Lead
<1>2. p5 = Lead("regular", p4) /\ p6 = Lead("type", p5) /\ p7 = Lead("(", p6)
  BY DEF Lead
<1>3. p1 \in Seq(Tokens) /\ Cat(p1, tl) = Content(c, tl)
  BY ContentEnds
<1> DEFINE q1 == Content(c, tl)
           q2 == Lead("contents", q1)
           q3 == Lead(Empty, q2)
           q4 == Lead("executable", q3)
           q5 == Lead("regular", q4)
           q6 == Lead("type", q5)
<1>4. p1 \in Seq(Tokens) /\ q1 = Cat(p1, tl)
  BY <1>3
<1> HIDE DEF p1, p2, p3, p4, p5, p6, p7, q1
<1>5. p2 \in Seq(Tokens) /\ q2 = Cat(p2, tl)
  BY ONLY <1>1, <1>4, tl \in Seq(Tokens), SomeTokens, LeadsOn
<1> HIDE DEF q2
<1>6. p3 \in Seq(Tokens) /\ q3 = Cat(p3, tl)
  BY ONLY <1>1, <1>5, tl \in Seq(Tokens), SomeTokens, LeadsOn
<1> HIDE DEF q3
<1>7. p4 \in Seq(Tokens) /\ q4 = Cat(p4, tl)
  BY ONLY <1>1, <1>6, tl \in Seq(Tokens), SomeTokens, LeadsOn
<1> HIDE DEF q4
<1>8. p5 \in Seq(Tokens) /\ q5 = Cat(p5, tl)
  BY ONLY <1>2, <1>7, tl \in Seq(Tokens), SomeTokens, LeadsOn
<1> HIDE DEF q5
<1>9. p6 \in Seq(Tokens) /\ q6 = Cat(p6, tl)
  BY ONLY <1>2, <1>8, tl \in Seq(Tokens), SomeTokens, LeadsOn
<1> HIDE DEF q6
<1>10. Cat(p7, tl) = Lead("(", q6)
  BY ONLY <1>2, <1>9, tl \in Seq(Tokens), SomeTokens, LeadsOn
<1> QED BY <1>10 DEF p7, q6, q5, q4, q3, q2, q1

(* The strings of a directory. *)
LEMMA DirectoryComes ==
  ASSUME NEW L, L \in Seq(Tokens), NEW tl, tl \in Seq(Tokens)
  PROVE  Cat(Cat(Opening, Cat(L, <<")">>)), tl)
           = Lead("(", Lead("type", Lead("directory", Cat(L, Lead(")", tl)))))
<1> DEFINE y == <<")">>
           p1 == Cat(L, y)
           p2 == Lead("directory", p1)
           p3 == Lead("type", p2)
           p4 == Lead("(", p3)
           q1 == Cat(L, Lead(")", tl))
           q2 == Lead("directory", q1)
           q3 == Lead("type", q2)
<1>1. y \in Seq(Tokens) /\ Cat(y, tl) = Lead(")", tl)
  BY ClosesWith
<1>2. p1 \in Seq(Tokens)
  BY <1>1, CatType
<1>3. q1 = Cat(p1, tl)
  <2> HIDE DEF y
  <2>1. Cat(Cat(L, y), tl) = Cat(L, Cat(y, tl))
    BY ONLY <1>1, L \in Seq(Tokens), tl \in Seq(Tokens), CatAssoc
  <2> QED BY <1>1, <2>1
<1> HIDE DEF y
<1>4. Cat(Opening, p1) = p4
  <2> DEFINE a == <<"directory">>
             b == <<"type", "directory">>
  <2>1. b = Lead("type", a) /\ Opening = Lead("(", b) /\ a \in Seq(Tokens)
    BY SomeTokens DEF Lead, Opening
  <2>2. Cat(a, p1) = p2
    BY DEF Cat, Lead
  <2> HIDE DEF a, b, p1, p2
  <2>3. Cat(b, p1) = Lead("type", p2) /\ b \in Seq(Tokens)
    BY ONLY <1>2, <2>1, <2>2, SomeTokens, LeadsOn
  <2>4. Cat(Lead("(", b), p1) = Lead("(", Lead("type", p2))
    BY ONLY <1>2, <2>3, SomeTokens, LeadsOn
  <2> QED BY <2>1, <2>4
<1> HIDE DEF p1, q1
<1>5. p2 \in Seq(Tokens) /\ q2 = Cat(p2, tl)
  BY ONLY <1>2, <1>3, tl \in Seq(Tokens), SomeTokens, LeadsOn
<1> HIDE DEF p2, q2
<1>6. p3 \in Seq(Tokens) /\ q3 = Cat(p3, tl)
  BY ONLY <1>5, tl \in Seq(Tokens), SomeTokens, LeadsOn
<1> HIDE DEF p3, q3
<1>7. Cat(p4, tl) = Lead("(", q3)
  BY ONLY <1>6, tl \in Seq(Tokens), SomeTokens, LeadsOn
<1> HIDE DEF p4
<1> QED BY <1>4, <1>7 DEF p1, q1, q2, q3, y

(* What comes from the kind of a node on is not empty. *)
LEMMA KindType ==
  ASSUME NEW n, n \in 0..MaxDepth, NEW tl, tl \in Seq(Tokens), NEW rest, KindToCome(n, tl, rest)
  PROVE  rest \in Seq(Tokens) /\ rest # <<>>
<1>0. \A x \in Tokens, q \in Seq(Tokens) : Lead(x, q) \in Seq(Tokens) /\ Lead(x, q) # <<>>
  BY LeadType
<1>1. CASE \E c \in Payloads \ {NotText} : rest = Lead("symlink", Lead("target", Content(c, tl)))
  BY <1>0, <1>1, SomeTokens, ContentType
<1>2. CASE \E c \in Payloads : rest = Lead("regular", Lead("contents", Content(c, tl)))
  BY <1>0, <1>2, SomeTokens, ContentType
<1>3. CASE \E c \in Payloads :
         rest = Lead("regular", Lead("executable", Lead(Empty, Lead("contents", Content(c, tl)))))
  BY <1>0, <1>3, SomeTokens, ContentType
<1>4. CASE /\ n < MaxDepth
           /\ \E es \in EntriesIn(n) :
                rest = Lead("directory", Cat(Listing(es, Dump[MaxDepth - (n + 1)]), Lead(")", tl)))
  <2>1. PICK es \in EntriesIn(n) :
          rest = Lead("directory", Cat(Listing(es, Dump[MaxDepth - (n + 1)]), Lead(")", tl)))
    BY <1>4
  <2> DEFINE d == MaxDepth - (n + 1)
             L == Listing(es, Dump[d])
             r == Lead(")", tl)
  <2>2. d \in 0..MaxDepth
    BY <1>4, ParserAssumption
  <2>3. Lists(es, SafeTrees[d], Dump[d])
    BY <2>2, DumpType DEF Lists, EntriesIn
  <2>4. L \in Seq(Tokens) /\ r \in Seq(Tokens)
    BY <2>3, ListingType, ClosesWith
  <2>5. rest = Lead("directory", Cat(L, r))
    BY <2>1
  <2> HIDE DEF L, r
  <2>6. Cat(L, r) \in Seq(Tokens)
    BY ONLY <2>4, CatType
  <2> QED BY ONLY <1>0, <2>5, <2>6, SomeTokens
<1> QED BY <1>1, <1>2, <1>3, <1>4 DEF KindToCome

(* Where a node begins, its strings come, and then what comes after it. *)
LEMMA NodeBegins ==
  ASSUME NEW n, n \in 0..MaxDepth, NEW cur, cur \in SafeTrees[MaxDepth - n],
         NEW tl, tl \in Seq(Tokens),
         n = 0 /\ cur.type = "directory" => \E q \in Seq(Tokens) : tl = Lead(")", q)
  PROVE  NodeToCome(n, tl, "open", Cat(Dump[MaxDepth - n][cur], tl))
<1> DEFINE d == MaxDepth - n
           D == Dump[d][cur]
           rest == Cat(D, tl)
<1>1. d \in 0..MaxDepth
  BY ParserAssumption
<1> SUFFICES \E q : KindToCome(n, tl, q) /\ rest = Lead("(", Lead("type", q))
  BY KindType DEF NodeToCome
<1>2. IsLink(cur, D) \/ IsExecutable(cur, D) \/ IsFile(cur, D) \/ IsDirectory(cur, D, d)
  <2> HIDE DEF d
  <2>1. cur \in SafeTrees[d]
    BY DEF d
  <2> QED BY <1>1, <2>1, NodeForms
<1>3. CASE IsLink(cur, D)
  <2> DEFINE c == cur.target
             q == Lead("symlink", Lead("target", Content(c, tl)))
  <2>1. c \in Payloads /\ c # NotText /\ D = <<"(", "type", "symlink", "target", c, ")">>
    BY <1>3 DEF IsLink
  <2> HIDE DEF c, D
  <2>2. rest = Lead("(", Lead("type", q))
    BY ONLY <2>1, tl \in Seq(Tokens), LinkComes
  <2>3. KindToCome(n, tl, q)
    BY <2>1 DEF KindToCome
  <2> QED BY <2>2, <2>3
<1>4. CASE IsExecutable(cur, D)
  <2> DEFINE c == cur.contents
             q == Lead("regular", Lead("executable", Lead(Empty, Lead("contents", Content(c, tl)))))
  <2>1. c \in Payloads /\ D = <<"(", "type", "regular", "executable", Empty, "contents", c, ")">>
    BY <1>4 DEF IsExecutable
  <2> HIDE DEF c, D
  <2>2. rest = Lead("(", Lead("type", q))
    BY ONLY <2>1, tl \in Seq(Tokens), ExecutableComes
  <2>3. KindToCome(n, tl, q)
    BY <2>1 DEF KindToCome
  <2> QED BY <2>2, <2>3
<1>5. CASE IsFile(cur, D)
  <2> DEFINE c == cur.contents
             q == Lead("regular", Lead("contents", Content(c, tl)))
  <2>1. c \in Payloads /\ D = <<"(", "type", "regular", "contents", c, ")">>
    BY <1>5 DEF IsFile
  <2> HIDE DEF c, D
  <2>2. rest = Lead("(", Lead("type", q))
    BY ONLY <2>1, tl \in Seq(Tokens), FileComes
  <2>3. KindToCome(n, tl, q)
    BY <2>1 DEF KindToCome
  <2> QED BY <2>2, <2>3
<1>6. CASE IsDirectory(cur, D, d)
  <2> DEFINE es == cur.entries
             i == MaxDepth - (n + 1)
             L == Listing(es, Dump[i])
             q == Lead("directory", Cat(L, Lead(")", tl)))
  <2>1. d \in 1..MaxDepth /\ d - 1 = i /\ n < MaxDepth /\ i \in 0..MaxDepth
    BY <1>6, ParserAssumption DEF IsDirectory
  <2>2. es \in EntriesIn(n) /\ InNameOrder(es) /\ cur.type = "directory"
        /\ D = Cat(Opening, Cat(L, <<")">>))
    BY <1>6, <2>1 DEF IsDirectory, EntriesIn
  <2>3. Lists(es, SafeTrees[i], Dump[i])
    BY <2>1, <2>2, DumpType DEF Lists, EntriesIn
  <2>4. L \in Seq(Tokens)
    BY <2>3, ListingType
  <2>5. KindToCome(n, tl, q)
    BY <2>1, <2>2 DEF KindToCome
  <2> HIDE DEF L, D
  <2>6. rest = Lead("(", Lead("type", q))
    BY ONLY <2>2, <2>4, tl \in Seq(Tokens), DirectoryComes
  <2> QED BY <2>5, <2>6
<1> QED BY <1>2, <1>3, <1>4, <1>5, <1>6

-----------------------------------------------------------------------------
(* rem[k]: the entries to come in the k-th open directory, after the one being *)
(* read.  tail[k]: what comes after a node that is in k directories.           *)
After(rem, tail, k) == Cat(Listing(rem[k], Dump[MaxDepth - k]), Lead(")", tail[k - 1]))

FollowsAt(rem, tail, st, k) ==
  /\ rem[k] \in Seq([name : Names, node : SafeTrees[MaxDepth - k]])
  /\ InNameOrder(rem[k])
  /\ rem[k] # <<>> => \A m \in st[k].last : Rank[m] < Rank[rem[k][1].name]
  /\ tail[k] = Lead(")", After(rem, tail, k))

Follows(rem, tail, st, n) ==
  /\ n # 0 => \E q \in Seq(Tokens) : tail[0] = Lead(")", q)
  /\ \A k \in 0..n : tail[k] \in Seq(Tokens)
  /\ \A k \in 1..n : FollowsAt(rem, tail, st, k)

(* The strings from the next entry's name on. *)
Named(rem, tail, k) ==
  LET dump == Dump[MaxDepth - k]
      rs   == rem[k]
  IN  Lead(rs[1].name, Lead("node", Cat(dump[rs[1].node],
        Lead(")", Cat(Listing(Tail(rs), dump), Lead(")", tail[k - 1]))))))

ToCome(rem, tail, rest, e, st) ==
  LET n == Len(st)
  IN  /\ Follows(rem, tail, st, n)
      /\ NodeToCome(n, tail[n], e, rest)
      /\ e \in Between => IF e = "directory" THEN rest = After(rem, tail, n) ELSE rem[n] # <<>>
      /\ e = "entryOpen" => rest = Lead("(", Lead("name", Named(rem, tail, n)))
      /\ e = "entryName" => rest = Lead("name", Named(rem, tail, n))
      /\ e = "name"      => rest = Named(rem, tail, n)
      /\ e = "entryNode" => \E cur \in SafeTrees[MaxDepth - n] :
                              rest = Lead("node", Cat(Dump[MaxDepth - n][cur], tail[n]))
      /\ e = "close"      => \E q \in Seq(Tokens) : rest = Lead(")", q) /\ (n # 0 => q = tail[n])
      /\ e = "entryClose" => rest = tail[n]

(* No step after an archive's beginning is a refusal. *)
Ahead(rest, e, st, res) ==
  /\ res # "err"
  /\ res = "reading" => e # "magic" /\ \E rem, tail : ToCome(rem, tail, rest, e, st)

ForetoldInv ==
  \A t \in SafeTrees[MaxDepth], rest \in Seq(Tokens) :
    Wire(t) = Cat(read, rest) =>
      /\ result # "err"
      /\ result = "reading" /\ expect # "magic" => Ahead(rest, expect, stack, result)

-----------------------------------------------------------------------------
(* The strings of a node, one by one. *)


(* parse_node: the kind is one the code knows, and a directory is within max_depth. *)
LEMMA KindNext ==
  ASSUME NEW n, n \in 0..MaxDepth, NEW tl, tl \in Seq(Tokens), NEW s, s \in Tokens,
         NEW rest, rest \in Seq(Tokens), KindToCome(n, tl, Lead(s, rest))
  PROVE  \/ s = "symlink" /\ NodeToCome(n, tl, "target", rest)
         \/ s = "regular" /\ NodeToCome(n, tl, "body", rest)
         \/ /\ s = "directory" /\ n < MaxDepth
            /\ n = 0 => \E q \in Seq(Tokens) : tl = Lead(")", q)
            /\ \E es \in EntriesIn(n) :
                 /\ InNameOrder(es)
                 /\ rest = Cat(Listing(es, Dump[MaxDepth - (n + 1)]), Lead(")", tl))
<1>1. CASE \E c \in Payloads \ {NotText} :
             Lead(s, rest) = Lead("symlink", Lead("target", Content(c, tl)))
  <2>1. PICK c \in Payloads \ {NotText} :
             Lead(s, rest) = Lead("symlink", Lead("target", Content(c, tl)))
    BY <1>1
  <2> DEFINE q == Lead("target", Content(c, tl))
  <2>2. q \in Seq(Tokens) /\ Lead(s, rest) = Lead("symlink", q)
    BY <2>1, ContentType
  <2> HIDE DEF q
  <2>3. s = "symlink" /\ rest = q
    BY ONLY <2>2, s \in Tokens, rest \in Seq(Tokens), SomeTokens, LeadIs
  <2>4. NodeToCome(n, tl, "target", rest)
    BY <2>3 DEF NodeToCome, q
  <2> QED BY <2>3, <2>4
<1>2. CASE \E c \in Payloads : Lead(s, rest) = Lead("regular", Lead("contents", Content(c, tl)))
  <2>1. PICK c \in Payloads : Lead(s, rest) = Lead("regular", Lead("contents", Content(c, tl)))
    BY <1>2
  <2> DEFINE q == Lead("contents", Content(c, tl))
  <2>2. q \in Seq(Tokens) /\ Lead(s, rest) = Lead("regular", q)
    BY <2>1, ContentType
  <2> HIDE DEF q
  <2>3. s = "regular" /\ rest = q
    BY ONLY <2>2, s \in Tokens, rest \in Seq(Tokens), SomeTokens, LeadIs
  <2>4. NodeToCome(n, tl, "body", rest)
    BY <2>3 DEF NodeToCome, q
  <2> QED BY <2>3, <2>4
<1>3. CASE \E c \in Payloads : Lead(s, rest)
             = Lead("regular", Lead("executable", Lead(Empty, Lead("contents", Content(c, tl)))))
  <2>1. PICK c \in Payloads : Lead(s, rest)
             = Lead("regular", Lead("executable", Lead(Empty, Lead("contents", Content(c, tl)))))
    BY <1>3
  <2> DEFINE q == Lead("executable", Lead(Empty, Lead("contents", Content(c, tl))))
  <2>2. q \in Seq(Tokens) /\ Lead(s, rest) = Lead("regular", q)
    BY <2>1, ContentType
  <2> HIDE DEF q
  <2>3. s = "regular" /\ rest = q
    BY ONLY <2>2, s \in Tokens, rest \in Seq(Tokens), SomeTokens, LeadIs
  <2>4. NodeToCome(n, tl, "body", rest)
    BY <2>3 DEF NodeToCome, q
  <2> QED BY <2>3, <2>4
<1>4. CASE /\ n < MaxDepth
           /\ n = 0 => \E q \in Seq(Tokens) : tl = Lead(")", q)
           /\ \E es \in EntriesIn(n) :
                /\ InNameOrder(es)
                /\ Lead(s, rest) =
                     Lead("directory", Cat(Listing(es, Dump[MaxDepth - (n + 1)]), Lead(")", tl)))
  <2>1. PICK es \in EntriesIn(n) :
                /\ InNameOrder(es)
                /\ Lead(s, rest) =
                     Lead("directory", Cat(Listing(es, Dump[MaxDepth - (n + 1)]), Lead(")", tl)))
    BY <1>4
  <2> DEFINE d == MaxDepth - (n + 1)
             L == Listing(es, Dump[d])
             r == Lead(")", tl)
  <2>2. d \in 0..MaxDepth
    BY <1>4, ParserAssumption
  <2>3. Lists(es, SafeTrees[d], Dump[d])
    BY <2>2, DumpType DEF Lists, EntriesIn
  <2>4. L \in Seq(Tokens) /\ r \in Seq(Tokens)
    BY <2>3, ListingType, ClosesWith
  <2>5. Lead(s, rest) = Lead("directory", Cat(L, r))
    BY <2>1
  <2> HIDE DEF L, r
  <2>6. Cat(L, r) \in Seq(Tokens)
    BY ONLY <2>4, CatType
  <2>7. s = "directory" /\ rest = Cat(L, r)
    BY ONLY <2>5, <2>6, s \in Tokens, rest \in Seq(Tokens), SomeTokens, LeadIs
  <2>8. rest = Cat(Listing(es, Dump[MaxDepth - (n + 1)]), Lead(")", tl))
    BY <2>7 DEF L, r
  <2> QED BY <1>4, <2>1, <2>7, <2>8
<1> QED BY <1>1, <1>2, <1>3, <1>4 DEF KindToCome

(* The next string of a node is the one the code wants there. *)
LEMMA NodeNext ==
  ASSUME NEW n, n \in 0..MaxDepth, NEW tl, tl \in Seq(Tokens), NEW s, s \in Tokens,
         NEW rest, rest \in Seq(Tokens), NEW e, NodeToCome(n, tl, e, Lead(s, rest))
  PROVE  /\ e = "open"   => s = "(" /\ NodeToCome(n, tl, "type", rest)
         /\ e = "type"   => s = "type" /\ NodeToCome(n, tl, "kind", rest)
         /\ e = "target" => s = "target" /\ NodeToCome(n, tl, "link", rest)
         /\ e = "link"   => s # NotText /\ rest = Lead(")", tl)
         /\ e = "body"   => \/ s = "contents" /\ NodeToCome(n, tl, "data", rest)
                            \/ s = "executable" /\ NodeToCome(n, tl, "blank", rest)
         /\ e = "blank"  => s = Empty /\ NodeToCome(n, tl, "contents", rest)
         /\ e = "contents" => s = "contents" /\ NodeToCome(n, tl, "execData", rest)
         /\ e \in {"data", "execData"} => rest = Lead(")", tl)
<1>1. \A x \in Tokens, q \in Seq(Tokens) : Lead(x, q) \in Seq(Tokens)
  BY LeadType
<1>2. \A x \in Tokens, q \in Seq(Tokens) : Lead(s, rest) = Lead(x, q) => s = x /\ rest = q
  BY LeadIs
<1>3. ASSUME e = "open" PROVE s = "(" /\ NodeToCome(n, tl, "type", rest)
  <2>1. PICK q \in Seq(Tokens) : KindToCome(n, tl, q) /\ Lead(s, rest) = Lead("(", Lead("type", q))
    BY <1>3 DEF NodeToCome
  <2>2. s = "(" /\ rest = Lead("type", q)
    BY <1>1, <1>2, <2>1, SomeTokens
  <2> QED BY <2>1, <2>2 DEF NodeToCome
<1>4. ASSUME e = "type" PROVE s = "type" /\ NodeToCome(n, tl, "kind", rest)
  <2>1. PICK q \in Seq(Tokens) : KindToCome(n, tl, q) /\ Lead(s, rest) = Lead("type", q)
    BY <1>4 DEF NodeToCome
  <2>2. s = "type" /\ rest = q
    BY <1>2, <2>1, SomeTokens
  <2> QED BY <2>1, <2>2 DEF NodeToCome
<1>5. ASSUME e = "target" PROVE s = "target" /\ NodeToCome(n, tl, "link", rest)
  <2>1. PICK c \in Payloads \ {NotText} : Lead(s, rest) = Lead("target", Content(c, tl))
    BY <1>5 DEF NodeToCome
  <2>2. s = "target" /\ rest = Content(c, tl)
    BY <1>2, <2>1, SomeTokens, ContentType
  <2> QED BY <2>2 DEF NodeToCome
<1>6. ASSUME e = "link" PROVE s # NotText /\ rest = Lead(")", tl)
  <2>1. PICK c \in Payloads \ {NotText} : Lead(s, rest) = Content(c, tl)
    BY <1>6 DEF NodeToCome
  <2>2. s = c /\ rest = Lead(")", tl)
    BY <1>2, <2>1, ContentType DEF Content
  <2> QED BY <2>2
<1>7. ASSUME e = "body" PROVE \/ s = "contents" /\ NodeToCome(n, tl, "data", rest)
                              \/ s = "executable" /\ NodeToCome(n, tl, "blank", rest)
  <2>1. PICK c \in Payloads :
               \/ Lead(s, rest) = Lead("contents", Content(c, tl))
               \/ Lead(s, rest) = Lead("executable", Lead(Empty, Lead("contents", Content(c, tl))))
    BY <1>7 DEF NodeToCome
  <2>2. CASE Lead(s, rest) = Lead("contents", Content(c, tl))
    <3>1. s = "contents" /\ rest = Content(c, tl)
      BY <1>2, <2>2, SomeTokens, ContentType
    <3> QED BY <3>1 DEF NodeToCome
  <2>3. CASE Lead(s, rest) = Lead("executable", Lead(Empty, Lead("contents", Content(c, tl))))
    <3>1. s = "executable" /\ rest = Lead(Empty, Lead("contents", Content(c, tl)))
      BY <1>2, <2>3, SomeTokens, ContentType
    <3> QED BY <3>1 DEF NodeToCome
  <2> QED BY <2>1, <2>2, <2>3
<1>8. ASSUME e = "blank" PROVE s = Empty /\ NodeToCome(n, tl, "contents", rest)
  <2>1. PICK c \in Payloads : Lead(s, rest) = Lead(Empty, Lead("contents", Content(c, tl)))
    BY <1>8 DEF NodeToCome
  <2>2. s = Empty /\ rest = Lead("contents", Content(c, tl))
    BY <1>2, <2>1, SomeTokens, ContentType
  <2> QED BY <2>2 DEF NodeToCome
<1>9. ASSUME e = "contents" PROVE s = "contents" /\ NodeToCome(n, tl, "execData", rest)
  <2>1. PICK c \in Payloads : Lead(s, rest) = Lead("contents", Content(c, tl))
    BY <1>9 DEF NodeToCome
  <2>2. s = "contents" /\ rest = Content(c, tl)
    BY <1>2, <2>1, SomeTokens, ContentType
  <2> QED BY <2>2 DEF NodeToCome
<1>10. ASSUME e \in {"data", "execData"} PROVE rest = Lead(")", tl)
  <2>1. PICK c \in Payloads : Lead(s, rest) = Content(c, tl)
    BY <1>10 DEF NodeToCome
  <2>2. s = c /\ rest = Lead(")", tl)
    BY <1>2, <2>1, ContentType DEF Content
  <2> QED BY <2>2
<1> QED BY <1>3, <1>4, <1>5, <1>6, <1>7, <1>8, <1>9, <1>10

(* The strings of an entry, and then z. *)
LEMMA EntryComes ==
  ASSUME NEW m, m \in Tokens, NEW D, D \in Seq(Tokens), NEW z, z \in Seq(Tokens)
  PROVE  Cat(<<"entry", "(", "name", m, "node">> \o D \o <<")">>, z)
           = Lead("entry", Lead("(", Lead("name", Lead(m, Lead("node", Cat(D, Lead(")", z)))))))
<1> DEFINE y == <<")">>
           a1 == <<"node">>
           a2 == <<m, "node">>
           a3 == <<"name", m, "node">>
           a4 == <<"(", "name", m, "node">>
           a5 == <<"entry", "(", "name", m, "node">>
           q0 == Cat(D, Lead(")", z))
           q1 == Lead("node", q0)
           q2 == Lead(m, q1)
           q3 == Lead("name", q2)
           q4 == Lead("(", q3)
<1>1. a2 = Lead(m, a1) /\ a3 = Lead("name", a2) /\ a4 = Lead("(", a3) /\ a5 = Lead("entry", a4)
  BY DEF Lead
<1>2. a1 \in Seq(Tokens)
  BY SomeTokens
<1>3. y \in Seq(Tokens) /\ Cat(y, z) = Lead(")", z) /\ Lead(")", z) \in Seq(Tokens)
  BY ClosesWith
<1>4. q0 \in Seq(Tokens)
  BY <1>3, CatType
<1>5. q1 = Cat(a1, q0)
  BY DEF Lead, Cat
<1>6. a5 \o D \o y = Cat(Cat(a5, D), y)
  BY DEF Cat
<1> HIDE DEF a1, a2, a3, a4, a5, q1, y
<1>7. a2 \in Seq(Tokens) /\ q2 = Cat(a2, q0)
  <2> HIDE DEF q0
  <2> QED BY ONLY <1>1, <1>2, <1>4, <1>5, m \in Tokens, LeadsOn
<1> HIDE DEF q2
<1>8. a3 \in Seq(Tokens) /\ q3 = Cat(a3, q0)
  <2> HIDE DEF q0
  <2> QED BY ONLY <1>1, <1>4, <1>7, SomeTokens, LeadsOn
<1> HIDE DEF q3
<1>9. a4 \in Seq(Tokens) /\ q4 = Cat(a4, q0)
  <2> HIDE DEF q0
  <2> QED BY ONLY <1>1, <1>4, <1>8, SomeTokens, LeadsOn
<1> HIDE DEF q4
<1>10. a5 \in Seq(Tokens) /\ Cat(a5, q0) = Lead("entry", q4)
  <2> HIDE DEF q0
  <2> QED BY ONLY <1>1, <1>4, <1>9, SomeTokens, LeadsOn
<1>11. Cat(a5, D) \in Seq(Tokens) /\ Cat(Cat(a5, D), Cat(y, z)) = Cat(a5, Cat(D, Cat(y, z)))
  <2>1. Cat(y, z) \in Seq(Tokens)
    BY <1>3
  <2> QED BY ONLY <1>10, <2>1, D \in Seq(Tokens), CatAssoc
<1>12. Cat(Cat(Cat(a5, D), y), z) = Cat(Cat(a5, D), Cat(y, z))
  BY ONLY <1>3, <1>11, z \in Seq(Tokens), CatAssoc
<1>13. Cat(Cat(Cat(a5, D), y), z) = Lead("entry", q4)
  BY <1>3, <1>10, <1>11, <1>12
<1> QED BY <1>6, <1>13 DEF a5, y, q4, q3, q2, q1

(* What comes in a directory: its end, or an entry. *)
LEMMA AfterForms ==
  ASSUME NEW n, n \in 1..MaxDepth, NEW rem, NEW tail, NEW st, FollowsAt(rem, tail, st, n),
         tail[n - 1] \in Seq(Tokens)
  PROVE  /\ After(rem, tail, n) \in Seq(Tokens) /\ Lead(")", tail[n - 1]) \in Seq(Tokens)
         /\ rem[n] = <<>> => After(rem, tail, n) = Lead(")", tail[n - 1])
         /\ rem[n] # <<>> =>
              /\ After(rem, tail, n) = Lead("entry", Lead("(", Lead("name", Named(rem, tail, n))))
              /\ rem[n][1] \in [name : Names, node : SafeTrees[MaxDepth - n]]
              /\ Tail(rem[n]) \in Seq([name : Names, node : SafeTrees[MaxDepth - n]])
              /\ Dump[MaxDepth - n][rem[n][1].node] \in Seq(Tokens)
              /\ Cat(Listing(Tail(rem[n]), Dump[MaxDepth - n]), Lead(")", tail[n - 1])) \in Seq(Tokens)
<1> DEFINE d == MaxDepth - n
           rs == rem[n]
           dump == Dump[d]
           L == Listing(rs, dump)
           z == Lead(")", tail[n - 1])
<1>1. d \in 0..MaxDepth
  BY ParserAssumption
<1>2. Lists(rs, SafeTrees[d], dump)
  BY <1>1, DumpType DEF FollowsAt, Lists
<1>3. L \in Seq(Tokens) /\ z \in Seq(Tokens)
  BY <1>2, ListingType, ClosesWith
<1>4. After(rem, tail, n) = Cat(L, z)
  BY DEF After
<1>5. Cat(L, z) \in Seq(Tokens)
  <2> HIDE DEF L, z
  <2> QED BY ONLY <1>3, CatType
<1>6. ASSUME rs = <<>> PROVE After(rem, tail, n) = z
  <2>1. L = <<>>
    BY <1>6, ListingNone
  <2> HIDE DEF L, z
  <2>2. Cat(<<>>, z) = z
    BY ONLY <1>3, CatType
  <2> QED BY <1>4, <2>1, <2>2
<1>7. ASSUME rs # <<>>
      PROVE  /\ After(rem, tail, n) = Lead("entry", Lead("(", Lead("name", Named(rem, tail, n))))
             /\ rs[1] \in [name : Names, node : SafeTrees[d]]
             /\ Tail(rs) \in Seq([name : Names, node : SafeTrees[d]])
             /\ dump[rs[1].node] \in Seq(Tokens)
             /\ Cat(Listing(Tail(rs), dump), z) \in Seq(Tokens)
  <2> DEFINE m == rs[1].name
             D == dump[rs[1].node]
             T == Listing(Tail(rs), dump)
             E == Entry(rs[1], dump)
             w == Cat(T, z)
  <2>1. /\ L = Cat(E, T) /\ rs[1] \in [name : Names, node : SafeTrees[d]]
        /\ Tail(rs) \in Seq([name : Names, node : SafeTrees[d]])
    <3> HIDE DEF rs, d, dump
    <3> QED BY <1>2, <1>7, ListingOneFirst
  <2>2. m \in Names /\ rs[1].node \in SafeTrees[d]
    BY <2>1
  <2>3. m \in Tokens /\ D \in Seq(Tokens)
    BY <1>2, <2>2, SomeTokens DEF Lists
  <2>4. Lists(Tail(rs), SafeTrees[d], dump)
    BY <1>2, <2>1 DEF Lists
  <2>5. T \in Seq(Tokens)
    BY <2>4, ListingType
  <2>6. E \in Seq(Tokens)
    BY <1>2, <2>1, EntryType DEF Lists
  <2>7. E = <<"entry", "(", "name", m, "node">> \o D \o <<")">>
    BY DEF Entry
  <2>8. Named(rem, tail, n) = Lead(m, Lead("node", Cat(D, Lead(")", w))))
    BY DEF Named
  <2> HIDE DEF m, D, T, E, L, z
  <2>9. w \in Seq(Tokens)
    BY ONLY <1>3, <2>5, CatType
  <2>10. Cat(Cat(E, T), z) = Cat(E, w)
    BY ONLY <1>3, <2>5, <2>6, CatAssoc
  <2> HIDE DEF w
  <2>11. Cat(E, w) = Lead("entry", Lead("(", Lead("name", Lead(m, Lead("node", Cat(D, Lead(")", w)))))))
    BY ONLY <2>3, <2>7, <2>9, EntryComes
  <2>12. After(rem, tail, n) = Lead("entry", Lead("(", Lead("name", Named(rem, tail, n))))
    BY ONLY <1>4, <2>1, <2>8, <2>10, <2>11
  <2> QED BY <2>1, <2>3, <2>9, <2>12 DEF w, T, D
<1> QED BY <1>3, <1>4, <1>5, <1>6, <1>7

(* What is to come is a sequence of strings, and so is Named. *)
LEMMA NamedType ==
  ASSUME NEW n, n \in 1..MaxDepth, NEW rem, NEW tail, NEW st, FollowsAt(rem, tail, st, n),
         tail[n - 1] \in Seq(Tokens), rem[n] # <<>>
  PROVE  \E D, w \in Seq(Tokens) :
           /\ D = Dump[MaxDepth - n][rem[n][1].node]
           /\ w = Cat(Listing(Tail(rem[n]), Dump[MaxDepth - n]), Lead(")", tail[n - 1]))
           /\ rem[n][1].name \in Tokens
           /\ Lead(")", w) \in Seq(Tokens)
           /\ Lead("node", Cat(D, Lead(")", w))) \in Seq(Tokens)
           /\ Named(rem, tail, n) = Lead(rem[n][1].name, Lead("node", Cat(D, Lead(")", w))))
           /\ Named(rem, tail, n) \in Seq(Tokens)
           /\ Lead("name", Named(rem, tail, n)) \in Seq(Tokens)
           /\ Lead("(", Lead("name", Named(rem, tail, n))) \in Seq(Tokens)
<1> DEFINE D == Dump[MaxDepth - n][rem[n][1].node]
           w == Cat(Listing(Tail(rem[n]), Dump[MaxDepth - n]), Lead(")", tail[n - 1]))
           m == rem[n][1].name
           q == Lead("node", Cat(D, Lead(")", w)))
<1>1. D \in Seq(Tokens) /\ w \in Seq(Tokens) /\ m \in Names
  BY AfterForms
<1>2. Named(rem, tail, n) = Lead(m, q)
  BY DEF Named
<1> HIDE DEF D, w, m
<1>3. m \in Tokens
  BY <1>1, SomeTokens
<1>4. Lead(")", w) \in Seq(Tokens)
  BY ONLY <1>1, SomeTokens, LeadType
<1>5. Cat(D, Lead(")", w)) \in Seq(Tokens)
  BY ONLY <1>1, <1>4, CatType
<1>6. q \in Seq(Tokens)
  BY ONLY <1>5, SomeTokens, LeadType
<1>7. Lead(m, q) \in Seq(Tokens)
  BY ONLY <1>3, <1>6, LeadType
<1>8. Lead("name", Lead(m, q)) \in Seq(Tokens)
  BY ONLY <1>7, SomeTokens, LeadType
<1>9. Lead("(", Lead("name", Lead(m, q))) \in Seq(Tokens)
  BY ONLY <1>8, SomeTokens, LeadType
<1> QED BY <1>1, <1>2, <1>3, <1>4, <1>6, <1>7, <1>8, <1>9 DEF D, w, m

(* What comes after a node depends on the directories it is in. *)
Agree(l, rem, tail, st, r2, t2, s2) ==
  /\ \A k \in 0..l : t2[k] = tail[k]
  /\ \A k \in 1..l : r2[k] = rem[k] /\ s2[k].last = st[k].last

(* And nothing else. *)
LEMMA FollowsKept ==
  ASSUME NEW m, m \in Nat, NEW l, l \in 0..m, NEW rem, NEW tail, NEW st, Follows(rem, tail, st, m),
         NEW r2, NEW t2, NEW s2, Agree(l, rem, tail, st, r2, t2, s2)
  PROVE  Follows(r2, t2, s2, l)
<1>0. /\ \A k \in 0..l : t2[k] = tail[k]
      /\ \A k \in 1..l : r2[k] = rem[k] /\ s2[k].last = st[k].last
  BY DEF Agree
<1>1. \A k \in 0..l : t2[k] \in Seq(Tokens)
  BY <1>0 DEF Follows
<1>2. l # 0 => \E q \in Seq(Tokens) : t2[0] = Lead(")", q)
  <2>1. 0 \in 0..l /\ (l # 0 => m # 0)
    OBVIOUS
  <2> QED BY <1>0, <2>1 DEF Follows
<1>3. ASSUME NEW k \in 1..l PROVE FollowsAt(r2, t2, s2, k)
  <2>1. k \in 0..l /\ k - 1 \in 0..l /\ k \in 1..m
    OBVIOUS
  <2>2. FollowsAt(rem, tail, st, k)
    BY <2>1 DEF Follows
  <2>3. t2[k] = tail[k] /\ t2[k - 1] = tail[k - 1] /\ r2[k] = rem[k] /\ s2[k].last = st[k].last
    BY <1>0, <2>1
  <2>4. After(r2, t2, k) = After(rem, tail, k)
    BY <2>3 DEF After
  <2> QED BY <2>2, <2>3, <2>4 DEF FollowsAt
<1> QED BY <1>1, <1>2, <1>3 DEF Follows

(* Where a node is read. *)
LEMMA HereIs ==
  ASSUME IInv, NEW n, n = Len(stack), NEW rem, NEW tail, NEW rest, NEW e,
         ToCome(rem, tail, rest, e, stack)
  PROVE  /\ n \in 0..MaxDepth /\ n \in Nat /\ tail[n] \in Seq(Tokens) /\ Follows(rem, tail, stack, n)
         /\ n # 0 => n \in 1..MaxDepth /\ FollowsAt(rem, tail, stack, n) /\ tail[n - 1] \in Seq(Tokens)
<1>1. n \in Nat /\ n <= MaxDepth
  BY StackIs
<1>2. Follows(rem, tail, stack, n)
  BY DEF ToCome
<1>3. n \in 0..n /\ n \in 0..MaxDepth /\ (n # 0 => n \in 1..n /\ n - 1 \in 0..n /\ n \in 1..MaxDepth)
  BY <1>1, ParserAssumption
<1> QED BY <1>1, <1>2, <1>3 DEF Follows

Plain == {"directory", "entryOpen", "entryName", "name", "entryNode", "close", "entryClose"}

(* Between nodes, nothing is said of the strings of one. *)
LEMMA NotInNode ==
  ASSUME NEW n, NEW tl, NEW e, e \in Plain, NEW rest PROVE NodeToCome(n, tl, e, rest)
  BY DEF NodeToCome, Plain

(* Within a node the directories stay. *)
LEMMA NodeGoes ==
  ASSUME IInv, NEW n, n = Len(stack), NEW rem, NEW tail, NEW rest, NEW r, NEW label,
         ToCome(rem, tail, r, label, stack),
         NEW e, e \in DOMAIN InNode, NodeToCome(n, tail[n], e, rest)
  PROVE  ToCome(rem, tail, rest, e, stack)
<1>1. Follows(rem, tail, stack, n)
  BY HereIs
<1>2. e \notin Between \cup {"entryNode", "close", "entryClose"}
  BY NodeLabels DEF Between
<1> QED BY <1>1, <1>2 DEF ToCome, Between

(* A leaf has been read: its ")" comes, and then what comes after it. *)
LEMMA LeafCloses ==
  ASSUME IInv, NEW n, n = Len(stack), NEW rem, NEW tail, NEW rest, NEW r, NEW label,
         ToCome(rem, tail, r, label, stack), rest = Lead(")", tail[n])
  PROVE  ToCome(rem, tail, rest, "close", stack)
<1>1. Follows(rem, tail, stack, n) /\ tail[n] \in Seq(Tokens)
  BY HereIs
<1>2. NodeToCome(n, tail[n], "close", rest)
  BY NotInNode DEF Plain
<1> QED BY <1>1, <1>2 DEF ToCome, Between

(* A directory begins: its entries come, its ")", and what came after it. *)
LEMMA DirectoryStarts ==
  ASSUME IInv, NEW n, n = Len(stack), NEW rem, NEW tail, NEW rest, NEW r, NEW label,
         ToCome(rem, tail, r, label, stack), n < MaxDepth,
         n = 0 => \E q \in Seq(Tokens) : tail[n] = Lead(")", q),
         NEW es, es \in EntriesIn(n), InNameOrder(es),
         rest = Cat(Listing(es, Dump[MaxDepth - (n + 1)]), Lead(")", tail[n])),
         rest \in Seq(Tokens),
         NEW st, st = Append(stack, [entries |-> <<>>, last |-> {}])
  PROVE  \E r2, t2 : ToCome(r2, t2, rest, "directory", st)
<1> DEFINE N == n + 1
           r2 == [k \in 0..N |-> IF k = N THEN es ELSE rem[k]]
           t2 == [k \in 0..N |-> IF k = N THEN Lead(")", rest) ELSE tail[k]]
<1>1. n \in Nat /\ Follows(rem, tail, stack, n) /\ tail[n] \in Seq(Tokens)
  BY HereIs
<1>2. N \in Nat /\ N # 0 /\ n # N /\ N - 1 = n /\ n \in 0..N /\ N \in 0..N
  BY <1>1
<1>3. Len(st) = N /\ st[N].last = {} /\ \A k \in 1..n : st[k] = stack[k]
  <2>1. PICK M : stack \in Seq(M)
    BY DEF IInv, TypeInv
  <2> DEFINE x == [entries |-> <<>>, last |-> {}]
  <2>2. x.last = {}
    OBVIOUS
  <2>3. stack \in Seq(M \cup {x})
    BY <2>1, SeqGrows
  <2> HIDE DEF x
  <2>4. /\ Len(Append(stack, x)) = n + 1 /\ Append(stack, x)[n + 1] = x
        /\ \A k \in 1..n : Append(stack, x)[k] = stack[k]
    BY ONLY <2>3, n = Len(stack)
  <2>5. st = Append(stack, x)
    BY DEF x
  <2>6. Len(st) = n + 1 /\ st[n + 1] = x /\ \A k \in 1..n : st[k] = stack[k]
    BY ONLY <2>4, <2>5
  <2> QED BY ONLY <2>2, <2>6
<1>4. r2[N] = es /\ t2[N] = Lead(")", rest) /\ t2[n] = tail[n]
  BY <1>2
<1>5. \A k \in 0..n : t2[k] = tail[k] /\ r2[k] = rem[k]
  BY <1>1
<1> HIDE DEF r2, t2
<1>6. Follows(r2, t2, st, n)
  <2>1. n \in 0..n /\ \A k \in 1..n : k \in 0..n
    BY <1>1
  <2>2. \A k \in 0..n : t2[k] = tail[k]
    BY <1>5
  <2>3. \A k \in 1..n : r2[k] = rem[k] /\ st[k].last = stack[k].last
    BY <1>3, <1>5, <2>1
  <2>4. Agree(n, rem, tail, stack, r2, t2, st)
    BY <2>2, <2>3 DEF Agree
  <2> QED BY ONLY <1>1, <2>1, <2>4, FollowsKept
<1>7. After(r2, t2, N) = rest
  BY <1>2, <1>4 DEF After
<1>8. FollowsAt(r2, t2, st, N)
  BY <1>3, <1>4, <1>7 DEF FollowsAt, EntriesIn
<1>9. Lead(")", rest) \in Seq(Tokens)
  BY ClosesWith
<1>10. Follows(r2, t2, st, N)
  <2>1. \A k \in 0..N : k \in 0..n \/ k = N
    BY <1>1
  <2>2. \A k \in 1..N : k \in 1..n \/ k = N
    BY <1>1
  <2>3. \A k \in 0..N : t2[k] \in Seq(Tokens)
    BY <1>4, <1>6, <1>9, <2>1 DEF Follows
  <2>4. \A k \in 1..N : FollowsAt(r2, t2, st, k)
    BY <1>6, <1>8, <2>2 DEF Follows
  <2>5. \E q \in Seq(Tokens) : t2[0] = Lead(")", q)
    <3>1. t2[0] = tail[0]
      BY <1>1, <1>5, 0 \in 0..n
    <3> QED BY <1>1, <3>1 DEF Follows
  <2> QED BY <2>3, <2>4, <2>5 DEF Follows
<1>11. NodeToCome(N, t2[N], "directory", rest)
  BY NotInNode DEF Plain
<1>12. ToCome(r2, t2, rest, "directory", st)
  BY <1>3, <1>7, <1>10, <1>11 DEF ToCome
<1> QED BY <1>12

(* An entry, or the end of a directory. *)
LEMMA DirectoryGoes ==
  ASSUME IInv, NEW n, n = Len(stack), n # 0, NEW rem, NEW tail, NEW s, s \in Tokens,
         NEW rest, rest \in Seq(Tokens), ToCome(rem, tail, Lead(s, rest), "directory", stack)
  PROVE  \/ s = "entry" /\ ToCome(rem, tail, rest, "entryOpen", stack)
         \/ s = ")" /\ rest = tail[n - 1]
<1>1. /\ n \in 1..MaxDepth /\ Follows(rem, tail, stack, n) /\ FollowsAt(rem, tail, stack, n)
      /\ tail[n - 1] \in Seq(Tokens) /\ n \in Nat
  BY HereIs
<1>2. Lead(s, rest) = After(rem, tail, n)
  BY DEF ToCome, Between
<1>3. CASE rem[n] = <<>>
  <2> DEFINE q == tail[n - 1]
  <2>1. After(rem, tail, n) = Lead(")", q)
    BY <1>1, <1>3, AfterForms
  <2>2. Lead(s, rest) = Lead(")", q) /\ q \in Seq(Tokens)
    BY <1>1, <1>2, <2>1
  <2> HIDE DEF q
  <2>3. s = ")" /\ rest = q
    BY ONLY <2>2, s \in Tokens, rest \in Seq(Tokens), SomeTokens, LeadIs
  <2> QED BY <2>3 DEF q
<1>4. CASE rem[n] # <<>>
  <2> DEFINE q == Lead("(", Lead("name", Named(rem, tail, n)))
  <2>1. After(rem, tail, n) = Lead("entry", q)
    BY <1>1, <1>4, AfterForms
  <2>2. q \in Seq(Tokens)
    BY <1>1, <1>4, NamedType
  <2>3. Lead(s, rest) = Lead("entry", q)
    BY <1>2, <2>1
  <2> HIDE DEF q
  <2>4. s = "entry" /\ rest = q
    BY ONLY <2>2, <2>3, s \in Tokens, rest \in Seq(Tokens), SomeTokens, LeadIs
  <2>5. NodeToCome(n, tail[n], "entryOpen", rest)
    BY NotInNode DEF Plain
  <2>6. ToCome(rem, tail, rest, "entryOpen", stack)
    BY <1>1, <1>4, <2>4, <2>5 DEF ToCome, q
  <2> QED BY <2>4, <2>6
<1> QED BY <1>3, <1>4

(* The head of an entry, up to its name. *)
LEMMA HeadGoes ==
  ASSUME IInv, NEW n, n = Len(stack), n # 0, NEW rem, NEW tail, NEW s, s \in Tokens,
         NEW rest, rest \in Seq(Tokens), NEW e, ToCome(rem, tail, Lead(s, rest), e, stack)
  PROVE  /\ e = "entryOpen" => s = "(" /\ ToCome(rem, tail, rest, "entryName", stack)
         /\ e = "entryName" => s = "name" /\ ToCome(rem, tail, rest, "name", stack)
<1>1. /\ n \in 1..MaxDepth /\ Follows(rem, tail, stack, n) /\ FollowsAt(rem, tail, stack, n)
      /\ tail[n - 1] \in Seq(Tokens) /\ n \in Nat
  BY HereIs
<1> DEFINE q == Named(rem, tail, n)
<1>2. ASSUME e \in {"entryOpen", "entryName"}
      PROVE  rem[n] # <<>> /\ q \in Seq(Tokens) /\ Lead("name", q) \in Seq(Tokens)
  <2>1. rem[n] # <<>>
    BY <1>2 DEF ToCome, Between
  <2> QED BY <1>1, <2>1, NamedType
<1>3. ASSUME e = "entryOpen" PROVE s = "(" /\ ToCome(rem, tail, rest, "entryName", stack)
  <2>1. Lead(s, rest) = Lead("(", Lead("name", q))
    BY <1>3 DEF ToCome
  <2> HIDE DEF q
  <2>2. s = "(" /\ rest = Lead("name", q)
    BY ONLY <1>2, <1>3, <2>1, s \in Tokens, rest \in Seq(Tokens), SomeTokens, LeadIs
  <2>3. NodeToCome(n, tail[n], "entryName", rest)
    BY NotInNode DEF Plain
  <2>4. rem[n] # <<>>
    BY <1>2, <1>3
  <2> QED BY <1>1, <2>2, <2>3, <2>4 DEF ToCome, q
<1>4. ASSUME e = "entryName" PROVE s = "name" /\ ToCome(rem, tail, rest, "name", stack)
  <2>1. Lead(s, rest) = Lead("name", q)
    BY <1>4 DEF ToCome
  <2> HIDE DEF q
  <2>2. s = "name" /\ rest = q
    BY ONLY <1>2, <1>4, <2>1, s \in Tokens, rest \in Seq(Tokens), SomeTokens, LeadIs
  <2>3. NodeToCome(n, tail[n], "name", rest)
    BY NotInNode DEF Plain
  <2>4. rem[n] # <<>>
    BY <1>2, <1>4
  <2> QED BY <1>1, <2>2, <2>3, <2>4 DEF ToCome, q
<1> QED BY <1>3, <1>4

(* The directory ends: what came after it comes. *)
LEMMA DirectoryEnds ==
  ASSUME IInv, NEW n, n = Len(stack), n # 0, NEW rem, NEW tail, NEW rest, NEW r, NEW label,
         ToCome(rem, tail, r, label, stack), rest = tail[n - 1],
         NEW st, st = Front(stack), NEW e, e = IF n = 1 THEN "close" ELSE "entryClose"
  PROVE  ToCome(rem, tail, rest, e, st)
<1> DEFINE l == n - 1
<1>1. n \in Nat /\ n \in 1..MaxDepth /\ Follows(rem, tail, stack, n) /\ tail[l] \in Seq(Tokens)
  BY HereIs
<1>2. Len(st) = l /\ l \in 0..n /\ l \in Nat /\ \A k \in 1..l : st[k] = stack[k]
  <2>1. PICK M : stack \in Seq(M)
    BY DEF IInv, TypeInv
  <2>2. Len(stack) >= 1 /\ l \in 0..n /\ l \in Nat
    BY <1>1
  <2>3. Len(Front(stack)) = Len(stack) - 1 /\ \A k \in 1..Len(Front(stack)) : Front(stack)[k] = stack[k]
    BY <2>1, <2>2, FrontOf
  <2> QED BY <2>2, <2>3
<1>3. Agree(l, rem, tail, stack, rem, tail, st)
  BY <1>2 DEF Agree
<1> HIDE DEF l
<1>4. Follows(rem, tail, st, l)
  BY ONLY <1>1, <1>2, <1>3, FollowsKept
<1>5. NodeToCome(l, tail[l], e, rest)
  BY NotInNode DEF Plain
<1>6. e = "close" => l = 0 /\ \E q \in Seq(Tokens) : rest = Lead(")", q)
  <2>1. e = "close" => l = 0
    BY <1>1 DEF l
  <2>2. \E q \in Seq(Tokens) : tail[0] = Lead(")", q)
    BY <1>1 DEF Follows
  <2> QED BY <2>1, <2>2 DEF l
<1>7. rest = tail[l] /\ e \in {"close", "entryClose"}
  BY DEF l
<1> QED BY <1>2, <1>4, <1>5, <1>6, <1>7 DEF ToCome, Between

(* The first name of a list in order is valid, and the others come after it. *)
LEMMA OrderOfTail ==
  ASSUME NEW S, NEW rs, rs \in Seq([name : Names, node : S]), InNameOrder(rs), rs # <<>>
  PROVE  /\ ValidateEntryName(rs[1].name) /\ InNameOrder(Tail(rs))
         /\ Tail(rs) # <<>> => Rank[rs[1].name] < Rank[Tail(rs)[1].name]
<1> DEFINE E == [name : Names, node : S]
           tl == Tail(rs)
<1>1. /\ tl \in Seq(E) /\ Len(tl) = Len(rs) - 1 /\ Len(rs) \in Nat /\ Len(rs) >= 1
      /\ \A i \in 1..Len(rs) - 1 : tl[i] = rs[i + 1]
  <2> HIDE DEF E
  <2>1. rs \in Seq(E)
    BY DEF E
  <2> QED BY ONLY <2>1, rs # <<>>, TailOf
<1>2. DOMAIN rs = 1..Len(rs) /\ DOMAIN tl = 1..Len(rs) - 1 /\ (tl # <<>> => Len(rs) - 1 >= 1)
  <2> HIDE DEF E, tl
  <2>1. rs \in Seq(E)
    BY DEF E
  <2> QED BY <1>1, <2>1
<1> HIDE DEF tl
<1>3. \A i \in 1..Len(rs) : /\ ValidateEntryName(rs[i].name)
                            /\ i > 1 => Rank[rs[i - 1].name] < Rank[rs[i].name]
  BY <1>2 DEF InNameOrder
<1>4. ValidateEntryName(rs[1].name)
  BY <1>1, <1>3, 1 \in 1..Len(rs)
<1>5. ASSUME NEW i \in 1..Len(rs) - 1
      PROVE  ValidateEntryName(tl[i].name) /\ (i > 1 => Rank[tl[i - 1].name] < Rank[tl[i].name])
  <2>1. i + 1 \in 1..Len(rs) /\ i + 1 > 1 /\ (i + 1) - 1 = i
    BY <1>1
  <2>2. ValidateEntryName(rs[i + 1].name) /\ Rank[rs[i].name] < Rank[rs[i + 1].name]
    BY <1>3, <2>1
  <2>3. i > 1 => i - 1 \in 1..Len(rs) - 1 /\ (i - 1) + 1 = i
    BY <1>1
  <2>4. tl[i] = rs[i + 1] /\ (i > 1 => tl[i - 1] = rs[i])
    BY <1>1, <2>3
  <2> QED BY <2>2, <2>4
<1>6. InNameOrder(tl)
  BY <1>2, <1>5 DEF InNameOrder
<1>7. ASSUME tl # <<>> PROVE Rank[rs[1].name] < Rank[tl[1].name]
  <2>1. 1 \in 1..Len(rs) - 1 /\ 2 \in 1..Len(rs) /\ 1 + 1 = 2 /\ 2 - 1 = 1 /\ 2 > 1
    BY <1>1, <1>2, <1>7
  <2>2. tl[1] = rs[2] /\ Rank[rs[2 - 1].name] < Rank[rs[2].name]
    BY <1>1, <1>3, <2>1
  <2> QED BY <2>1, <2>2
<1> QED BY <1>4, <1>6, <1>7 DEF tl

(* The name of an entry that comes is accepted, and the entry's node comes. *)
LEMMA NameGoes ==
  ASSUME IInv, NEW n, n = Len(stack), n # 0, NEW rem, NEW tail, NEW s, s \in Tokens,
         NEW rest, rest \in Seq(Tokens), ToCome(rem, tail, Lead(s, rest), "name", stack)
  PROVE  /\ s \in Names /\ ValidateEntryName(s) /\ \A m \in stack[n].last : Rank[m] < Rank[s]
         /\ \A st : Len(st) = n /\ (\A k \in 1..n - 1 : st[k] = stack[k]) /\ st[n].last = {s}
                      => \E r2, t2 : ToCome(r2, t2, rest, "entryNode", st)
<1>1. /\ n \in 1..MaxDepth /\ Follows(rem, tail, stack, n) /\ FollowsAt(rem, tail, stack, n)
      /\ tail[n - 1] \in Seq(Tokens) /\ n \in Nat
  BY HereIs
<1>2. rem[n] # <<>> /\ Lead(s, rest) = Named(rem, tail, n)
  BY DEF ToCome, Between
<1> DEFINE d == MaxDepth - n
           rs == rem[n]
           c == rs[1].node
<1>3. PICK D \in Seq(Tokens), w \in Seq(Tokens) :
         /\ D = Dump[d][c]
         /\ w = Cat(Listing(Tail(rs), Dump[d]), Lead(")", tail[n - 1]))
         /\ rs[1].name \in Tokens
         /\ Lead(")", w) \in Seq(Tokens)
         /\ Lead("node", Cat(D, Lead(")", w))) \in Seq(Tokens)
         /\ Named(rem, tail, n) = Lead(rs[1].name, Lead("node", Cat(D, Lead(")", w))))
  BY <1>1, <1>2, NamedType
<1> DEFINE q == Lead("node", Cat(D, Lead(")", w)))
           m1 == rs[1].name
<1>4. m1 \in Tokens /\ q \in Seq(Tokens) /\ Lead(s, rest) = Lead(m1, q)
  BY <1>2, <1>3
<1>5. s = m1 /\ rest = q
  <2> HIDE DEF m1, q
  <2> QED BY ONLY <1>4, s \in Tokens, rest \in Seq(Tokens), LeadIs
<1>6. /\ rs[1] \in [name : Names, node : SafeTrees[d]]
      /\ Tail(rs) \in Seq([name : Names, node : SafeTrees[d]])
  BY <1>1, <1>2, AfterForms
<1>7. s \in Names /\ c \in SafeTrees[d]
  BY <1>5, <1>6
<1>8. /\ ValidateEntryName(s) /\ InNameOrder(Tail(rs))
      /\ Tail(rs) # <<>> => Rank[s] < Rank[Tail(rs)[1].name]
  <2>1. rs \in Seq([name : Names, node : SafeTrees[d]]) /\ InNameOrder(rs) /\ rs # <<>>
    BY <1>1, <1>2 DEF FollowsAt
  <2>2. /\ ValidateEntryName(m1) /\ InNameOrder(Tail(rs))
        /\ Tail(rs) # <<>> => Rank[m1] < Rank[Tail(rs)[1].name]
    <3> HIDE DEF rs
    <3> QED BY ONLY <2>1, OrderOfTail DEF m1
  <2> HIDE DEF m1
  <2> QED BY ONLY <1>5, <2>2
<1>9. \A m \in stack[n].last : Rank[m] < Rank[s]
  BY <1>1, <1>2, <1>5 DEF FollowsAt
<1>10. ASSUME NEW st, Len(st) = n, \A k \in 1..n - 1 : st[k] = stack[k], st[n].last = {s}
       PROVE  \E r2, t2 : ToCome(r2, t2, rest, "entryNode", st)
  <2> DEFINE tr == Tail(rs)
             r2 == [k \in 0..n |-> IF k = n THEN tr ELSE rem[k]]
             t2 == [k \in 0..n |-> IF k = n THEN Lead(")", w) ELSE tail[k]]
             l == n - 1
  <2>1. n \in 0..n /\ l \in 0..n /\ l # n /\ l \in Nat /\ (\A k \in 0..l : k \in 0..n /\ k # n)
        /\ (\A k \in 1..l : k \in 0..l)
    BY <1>1
  <2>2. r2[n] = tr /\ t2[n] = Lead(")", w)
    BY <2>1
  <2>3. \A k \in 0..l : r2[k] = rem[k] /\ t2[k] = tail[k]
    BY <2>1
  <2> HIDE DEF r2, t2, tr
  <2>4. Agree(l, rem, tail, stack, r2, t2, st)
    <3>1. \A k \in 1..l : st[k] = stack[k]
      BY <1>10
    <3> QED BY <2>1, <2>3, <3>1 DEF Agree
  <2>5. t2[l] = tail[l]
    BY <2>1, <2>3
  <2> HIDE DEF l
  <2>6. Follows(r2, t2, st, l)
    BY ONLY <1>1, <2>1, <2>4, FollowsKept
  <2>7. After(r2, t2, n) = w
    BY <1>3, <2>2, <2>5 DEF After, l, tr
  <2>8. FollowsAt(r2, t2, st, n)
    <3>1. \A m \in st[n].last : m = s
      BY <1>10
    <3> QED BY <1>6, <1>8, <2>2, <2>7, <3>1 DEF FollowsAt, tr
  <2>9. Follows(r2, t2, st, n)
    <3>1. \A k \in 0..n : k \in 0..l \/ k = n
      BY <1>1 DEF l
    <3>2. \A k \in 1..n : k \in 1..l \/ k = n
      BY <1>1 DEF l
    <3>3. \A k \in 0..n : t2[k] \in Seq(Tokens)
      BY <1>3, <2>2, <2>6, <3>1 DEF Follows
    <3>4. \A k \in 1..n : FollowsAt(r2, t2, st, k)
      BY <2>6, <2>8, <3>2 DEF Follows
    <3>5. \E x \in Seq(Tokens) : t2[0] = Lead(")", x)
      <4>1. 0 \in 0..l
        BY <1>1 DEF l
      <4>2. t2[0] = tail[0]
        BY <2>3, <4>1
      <4> QED BY <1>1, <4>2 DEF Follows
    <3> QED BY <3>3, <3>4, <3>5 DEF Follows
  <2>10. NodeToCome(n, t2[n], "entryNode", rest)
    BY NotInNode DEF Plain
  <2>11. \E x \in SafeTrees[d] : rest = Lead("node", Cat(Dump[d][x], t2[n]))
    BY <1>3, <1>5, <1>7, <2>2
  <2>12. ToCome(r2, t2, rest, "entryNode", st)
    BY <1>10, <2>9, <2>10, <2>11 DEF ToCome, Between
  <2> QED BY <2>12
<1> QED BY <1>7, <1>8, <1>9, <1>10

(* The node of an entry begins. *)
LEMMA NodeStarts ==
  ASSUME IInv, NEW n, n = Len(stack), n # 0, NEW rem, NEW tail, NEW s, s \in Tokens,
         NEW rest, rest \in Seq(Tokens), ToCome(rem, tail, Lead(s, rest), "entryNode", stack)
  PROVE  s = "node" /\ ToCome(rem, tail, rest, "open", stack)
<1>1. n \in 0..MaxDepth /\ tail[n] \in Seq(Tokens)
  BY HereIs
<1>2. PICK cur \in SafeTrees[MaxDepth - n] :
        Lead(s, rest) = Lead("node", Cat(Dump[MaxDepth - n][cur], tail[n]))
  BY DEF ToCome
<1> DEFINE D == Dump[MaxDepth - n][cur]
           q == Cat(D, tail[n])
<1>3. D \in Seq(Tokens)
  <2>1. MaxDepth - n \in 0..MaxDepth
    BY <1>1, ParserAssumption
  <2> QED BY <2>1, DumpType
<1>4. Lead(s, rest) = Lead("node", q) /\ NodeToCome(n, tail[n], "open", q)
  BY <1>1, <1>2, NodeBegins
<1>5. q \in Seq(Tokens)
  <2> HIDE DEF D
  <2> QED BY ONLY <1>1, <1>3, CatType
<1> HIDE DEF q
<1>6. s = "node" /\ rest = q
  BY ONLY <1>4, <1>5, s \in Tokens, rest \in Seq(Tokens), SomeTokens, LeadIs
<1>7. NodeToCome(n, tail[n], "open", rest) /\ "open" \in DOMAIN InNode
  BY <1>4, <1>6, NodeLabels
<1>8. ToCome(rem, tail, rest, "open", stack)
  BY <1>7, NodeGoes
<1> QED BY <1>6, <1>8

(* The ")" of a leaf or of the root, and that of an entry. *)
LEMMA CloseGoes ==
  ASSUME IInv, NEW n, n = Len(stack), NEW rem, NEW tail, NEW s, s \in Tokens,
         NEW rest, rest \in Seq(Tokens), NEW e, ToCome(rem, tail, Lead(s, rest), e, stack)
  PROVE  /\ e = "close" => s = ")" /\ (n # 0 => ToCome(rem, tail, rest, "entryClose", stack))
         /\ e = "entryClose" /\ n # 0 =>
              /\ s = ")"
              /\ \A st : Len(st) = n /\ (\A k \in 1..n : st[k].last = stack[k].last)
                           => ToCome(rem, tail, rest, "directory", st)
<1>1. n \in Nat /\ Follows(rem, tail, stack, n) /\ tail[n] \in Seq(Tokens)
  BY HereIs
<1>2. ASSUME e = "close" PROVE s = ")" /\ (n # 0 => ToCome(rem, tail, rest, "entryClose", stack))
  <2>1. PICK q \in Seq(Tokens) : Lead(s, rest) = Lead(")", q) /\ (n # 0 => q = tail[n])
    BY <1>2 DEF ToCome
  <2>2. s = ")" /\ rest = q
    BY ONLY <2>1, s \in Tokens, rest \in Seq(Tokens), SomeTokens, LeadIs
  <2>3. NodeToCome(n, tail[n], "entryClose", rest)
    BY NotInNode DEF Plain
  <2> QED BY <1>1, <2>1, <2>2, <2>3 DEF ToCome, Between
<1>3. ASSUME e = "entryClose", n # 0
      PROVE  /\ s = ")"
             /\ \A st : Len(st) = n /\ (\A k \in 1..n : st[k].last = stack[k].last)
                          => ToCome(rem, tail, rest, "directory", st)
  <2> DEFINE q == After(rem, tail, n)
  <2>1. n \in 1..MaxDepth /\ FollowsAt(rem, tail, stack, n) /\ tail[n - 1] \in Seq(Tokens)
    BY <1>3, HereIs
  <2>2. q \in Seq(Tokens)
    BY <2>1, AfterForms
  <2>3. Lead(s, rest) = Lead(")", q)
    BY <1>3, <2>1 DEF ToCome, FollowsAt
  <2> HIDE DEF q
  <2>4. s = ")" /\ rest = q
    BY ONLY <2>2, <2>3, s \in Tokens, rest \in Seq(Tokens), SomeTokens, LeadIs
  <2>5. ASSUME NEW st, Len(st) = n, \A k \in 1..n : st[k].last = stack[k].last
        PROVE  ToCome(rem, tail, rest, "directory", st)
    <3>1. Agree(n, rem, tail, stack, rem, tail, st) /\ n \in 0..n
      BY <1>1, <2>5 DEF Agree
    <3>2. Follows(rem, tail, st, n)
      BY ONLY <1>1, <3>1, FollowsKept
    <3>3. NodeToCome(n, tail[n], "directory", rest)
      BY NotInNode DEF Plain
    <3> QED BY <2>4, <2>5, <3>2, <3>3 DEF ToCome, q
  <2> QED BY <2>4, <2>5
<1> QED BY <1>2, <1>3

-----------------------------------------------------------------------------
(* One string is read: what was to come began with it. *)
LEMMA ReadWasToCome ==
  ASSUME ArchiveInv, ForetoldInv, NEW label, label # "magic", NEW s, s \in Tokens, Reads(label, s),
         NEW t, t \in SafeTrees[MaxDepth], NEW rest, rest \in Seq(Tokens),
         Wire(t) = Cat(read', rest)
  PROVE  \E rem, tail : ToCome(rem, tail, Lead(s, rest), label, stack)
<1>1. read' = Then(read, s) /\ expect = label /\ result = "reading" /\ read \in Seq(Tokens)
  BY Known
<1>2. Cat(Then(read, s), rest) = Cat(read, Lead(s, rest))
  BY ONLY <1>1, s \in Tokens, rest \in Seq(Tokens), LeadCat
<1>3. Lead(s, rest) \in Seq(Tokens)
  BY LeadType
<1>4. Wire(t) = Cat(read, Lead(s, rest))
  BY <1>1, <1>2
<1>5. Ahead(Lead(s, rest), expect, stack, result)
  BY <1>1, <1>3, <1>4 DEF ForetoldInv
<1> QED BY <1>1, <1>5 DEF Ahead

(* To show the invariant kept, look at what was to come. *)
LEMMA Onward ==
  ASSUME ArchiveInv, ForetoldInv, NEW label, label # "magic", NEW s, s \in Tokens, Reads(label, s),
         \A rem, tail, rest : rest \in Seq(Tokens) /\ ToCome(rem, tail, Lead(s, rest), label, stack)
                                => Ahead(rest, expect', stack', result')
  PROVE  ForetoldInv'
<1> SUFFICES ASSUME NEW t \in SafeTrees[MaxDepth], NEW rest \in Seq(Tokens), Wire(t) = Cat(read', rest)
             PROVE  Ahead(rest, expect', stack', result')
  BY DEF ForetoldInv, Ahead
<1>1. PICK rem, tail : ToCome(rem, tail, Lead(s, rest), label, stack)
  BY ReadWasToCome
<1> QED BY <1>1

(* The strings of a node. *)
LEMMA NodeWordAhead ==
  ASSUME IInv, NEW s, s \in Tokens, NEW rest, rest \in Seq(Tokens), NEW rem, NEW tail,
         NEW label, ToCome(rem, tail, Lead(s, rest), label, stack)
  PROVE  /\ label = "open"   => s = "(" /\ ToCome(rem, tail, rest, "type", stack)
         /\ label = "type"   => s = "type" /\ ToCome(rem, tail, rest, "kind", stack)
         /\ label = "target" => s = "target" /\ ToCome(rem, tail, rest, "link", stack)
         /\ label = "link"   => s # NotText /\ ToCome(rem, tail, rest, "close", stack)
         /\ label = "body"   => \/ s = "contents" /\ ToCome(rem, tail, rest, "data", stack)
                                \/ s = "executable" /\ ToCome(rem, tail, rest, "blank", stack)
         /\ label = "blank"  => s = Empty /\ ToCome(rem, tail, rest, "contents", stack)
         /\ label = "contents" => s = "contents" /\ ToCome(rem, tail, rest, "execData", stack)
         /\ label \in {"data", "execData"} => ToCome(rem, tail, rest, "close", stack)
         /\ label = "kind" =>
              \/ s = "symlink" /\ ToCome(rem, tail, rest, "target", stack)
              \/ s = "regular" /\ ToCome(rem, tail, rest, "body", stack)
              \/ /\ s = "directory" /\ Len(stack) < MaxDepth
                 /\ \A st : st = Append(stack, [entries |-> <<>>, last |-> {}])
                              => \E r2, t2 : ToCome(r2, t2, rest, "directory", st)
<1> DEFINE n == Len(stack)
           tl == tail[n]
<1>1. n \in 0..MaxDepth /\ tl \in Seq(Tokens)
  BY HereIs
<1>2. NodeToCome(n, tl, label, Lead(s, rest))
  BY DEF ToCome
<1>3. \A e \in DOMAIN InNode : NodeToCome(n, tl, e, rest) => ToCome(rem, tail, rest, e, stack)
  BY NodeGoes
<1>4. rest = Lead(")", tl) => ToCome(rem, tail, rest, "close", stack)
  BY LeafCloses
<1>5. /\ label = "open"   => s = "(" /\ NodeToCome(n, tl, "type", rest)
      /\ label = "type"   => s = "type" /\ NodeToCome(n, tl, "kind", rest)
      /\ label = "target" => s = "target" /\ NodeToCome(n, tl, "link", rest)
      /\ label = "link"   => s # NotText /\ rest = Lead(")", tl)
      /\ label = "body"   => \/ s = "contents" /\ NodeToCome(n, tl, "data", rest)
                             \/ s = "executable" /\ NodeToCome(n, tl, "blank", rest)
      /\ label = "blank"  => s = Empty /\ NodeToCome(n, tl, "contents", rest)
      /\ label = "contents" => s = "contents" /\ NodeToCome(n, tl, "execData", rest)
      /\ label \in {"data", "execData"} => rest = Lead(")", tl)
  <2> HIDE DEF n, tl
  <2> QED BY ONLY <1>1, <1>2, s \in Tokens, rest \in Seq(Tokens), NodeNext
<1>6. ASSUME label = "kind"
      PROVE  \/ s = "symlink" /\ ToCome(rem, tail, rest, "target", stack)
             \/ s = "regular" /\ ToCome(rem, tail, rest, "body", stack)
             \/ /\ s = "directory" /\ Len(stack) < MaxDepth
                /\ \A st : st = Append(stack, [entries |-> <<>>, last |-> {}])
                             => \E r2, t2 : ToCome(r2, t2, rest, "directory", st)
  <2>1. KindToCome(n, tl, Lead(s, rest))
    BY <1>2, <1>6 DEF NodeToCome
  <2>2. \/ s = "symlink" /\ NodeToCome(n, tl, "target", rest)
        \/ s = "regular" /\ NodeToCome(n, tl, "body", rest)
        \/ /\ s = "directory" /\ n < MaxDepth
           /\ n = 0 => \E q \in Seq(Tokens) : tl = Lead(")", q)
           /\ \E es \in EntriesIn(n) :
                /\ InNameOrder(es)
                /\ rest = Cat(Listing(es, Dump[MaxDepth - (n + 1)]), Lead(")", tl))
    <3> HIDE DEF n, tl
    <3> QED BY ONLY <1>1, <2>1, s \in Tokens, rest \in Seq(Tokens), KindNext
  <2>3. ASSUME n < MaxDepth, n = 0 => \E q \in Seq(Tokens) : tl = Lead(")", q),
               NEW es \in EntriesIn(n), InNameOrder(es),
               rest = Cat(Listing(es, Dump[MaxDepth - (n + 1)]), Lead(")", tl)),
               NEW st, st = Append(stack, [entries |-> <<>>, last |-> {}])
        PROVE  \E r2, t2 : ToCome(r2, t2, rest, "directory", st)
    BY <2>3, DirectoryStarts
  <2>4. "target" \in DOMAIN InNode /\ "body" \in DOMAIN InNode
    BY NodeLabels
  <2> HIDE DEF n, tl
  <2>5. n = Len(stack)
    BY DEF n
  <2> QED BY <1>3, <2>2, <2>3, <2>4, <2>5
<1> HIDE DEF n, tl
<1> QED BY <1>3, <1>4, <1>5, <1>6, NodeLabels

(* The archive of a tree: the magic string, the root, what comes after it. *)
LEMMA WireComes ==
  ASSUME NEW t, t \in SafeTrees[MaxDepth]
  PROVE  \E tl \in Seq(Tokens) :
           /\ Wire(t) = Lead(Magic, Cat(Dump[MaxDepth][t], tl))
           /\ Cat(Dump[MaxDepth][t], tl) \in Seq(Tokens) /\ Wire(t) \in Seq(Tokens)
           /\ NodeToCome(0, tl, "open", Cat(Dump[MaxDepth][t], tl))
<1> DEFINE m == <<Magic>>
           D == Dump[MaxDepth][t]
           y == <<")">>
           tl == IF t.type = "directory" THEN y ELSE <<>>
           q == Cat(D, tl)
<1>1. MaxDepth \in 0..MaxDepth /\ 0 \in 0..MaxDepth /\ MaxDepth - 0 = MaxDepth
  BY ParserAssumption
<1>2. D \in Seq(Tokens)
  BY <1>1, DumpType
<1>3. m \in Seq(Tokens) /\ y \in Seq(Tokens)
  BY SomeTokens
<1>4. tl \in Seq(Tokens)
  BY <1>3
<1>5. t.type = "directory" => \E x \in Seq(Tokens) : tl = Lead(")", x)
  <2>1. y = Lead(")", <<>>) /\ <<>> \in Seq(Tokens)
    BY DEF Lead
  <2> HIDE DEF y
  <2> QED BY <2>1
<1>6. Wire(t) = Cat(Cat(m, D), tl)
  BY DEF Wire, Archive, Cat
<1>7. Lead(Magic, q) = Cat(m, q)
  BY DEF Lead, Cat
<1> HIDE DEF m, y, tl
<1>8. q \in Seq(Tokens)
  <2> HIDE DEF D
  <2> QED BY ONLY <1>2, <1>4, CatType
<1>9. Cat(Cat(m, D), tl) = Cat(m, Cat(D, tl))
  <2> HIDE DEF D
  <2> QED BY ONLY <1>2, <1>3, <1>4, CatAssoc
<1>10. NodeToCome(0, tl, "open", q)
  <2>1. t \in SafeTrees[MaxDepth - 0] /\ Dump[MaxDepth - 0][t] = D
    BY <1>1
  <2>2. NodeToCome(0, tl, "open", Cat(Dump[MaxDepth - 0][t], tl))
    BY <1>1, <1>4, <1>5, <2>1, NodeBegins
  <2> QED BY <2>1, <2>2
<1>11. Lead(Magic, q) \in Seq(Tokens)
  <2> HIDE DEF q
  <2> QED BY ONLY <1>8, SomeTokens, LeadType
<1>12. Wire(t) = Lead(Magic, q)
  BY <1>6, <1>7, <1>9
<1> QED BY <1>4, <1>8, <1>10, <1>11, <1>12

(* The magic string: then the root comes. *)
LEMMA MagicForetold ==
  ASSUME IInv, ArchiveInv, NEW s, s \in Tokens, ExpectStr("magic", s)
  PROVE  ForetoldInv'
<1>1. expect = "magic" /\ result = "reading" /\ read' = Append(read, s) /\ read = <<>> /\ stack = <<>>
  BY DEF ExpectStr, Reads, ArchiveInv
<1> SUFFICES ASSUME NEW t \in SafeTrees[MaxDepth], NEW rest \in Seq(Tokens), Wire(t) = Cat(read', rest)
             PROVE  Ahead(rest, expect', stack', result')
  BY DEF ForetoldInv, Ahead
<1>2. PICK tl \in Seq(Tokens) :
           /\ Wire(t) = Lead(Magic, Cat(Dump[MaxDepth][t], tl))
           /\ Cat(Dump[MaxDepth][t], tl) \in Seq(Tokens)
           /\ NodeToCome(0, tl, "open", Cat(Dump[MaxDepth][t], tl))
  BY WireComes
<1>3. Cat(read', rest) = Lead(s, rest)
  <2>1. read' = <<s>>
    BY <1>1
  <2> QED BY <2>1 DEF Cat, Lead
<1> DEFINE q == Cat(Dump[MaxDepth][t], tl)
<1>4. Lead(s, rest) = Lead(Magic, q) /\ q \in Seq(Tokens)
  BY <1>2, <1>3
<1>5. s = Magic /\ rest = q
  <2> HIDE DEF q
  <2> QED BY ONLY <1>4, s \in Tokens, rest \in Seq(Tokens), SomeTokens, LeadIs
<1>6. expect' = "open" /\ stack' = <<>> /\ result' = "reading"
  <2>1. Keyword["magic"][1] = Magic /\ Keyword["magic"][2] = "open"
    BY Keywords
  <2> QED BY <1>1, <1>5, <2>1 DEF ExpectStr, Go
<1> DEFINE tail == [k \in 0..0 |-> tl]
<1>7. Follows(tail, tail, <<>>, 0)
  BY DEF Follows
<1>8. NodeToCome(0, tail[0], "open", rest)
  BY <1>2, <1>5
<1>9. ToCome(tail, tail, rest, "open", <<>>)
  <2>1. Len(<<>>) = 0
    OBVIOUS
  <2> HIDE DEF tail
  <2> QED BY <1>7, <1>8, <2>1 DEF ToCome, Between
<1> QED BY <1>6, <1>9 DEF Ahead

(* expect_str meets the string it wants. *)
LEMMA ExpectStrForetold ==
  ASSUME IInv, ArchiveInv, ForetoldInv, NEW s \in Words, NEW label \in DOMAIN Keyword,
         ExpectStr(label, s)
  PROVE  ForetoldInv'
<1>0. s \in Tokens
  BY DEF Tokens
<1>1. CASE label = "magic"
  BY <1>0, <1>1, MagicForetold
<1>2. CASE label # "magic"
  <2>1. Reads(label, s) /\ expect = label /\ result = "reading"
    BY DEF ExpectStr, Reads
  <2> SUFFICES ASSUME NEW rem, NEW tail, NEW rest, rest \in Seq(Tokens),
                      ToCome(rem, tail, Lead(s, rest), label, stack)
               PROVE  Ahead(rest, expect', stack', result')
    BY <1>0, <1>2, <2>1, Onward
  <2>2. s = Keyword[label][1] /\ ToCome(rem, tail, rest, Keyword[label][2], stack)
    <3>1. label \in {"entryOpen", "entryName", "entryNode"} => Len(stack) # 0
      BY <2>1, StackIs DEF Between
    <3>2. CASE label \in {"open", "type", "blank", "contents", "target"}
      BY <1>0, <3>2, NodeWordAhead, Keywords
    <3> DEFINE n == Len(stack)
    <3>3. CASE label \in {"entryOpen", "entryName"}
      <4>1. n = Len(stack) /\ n # 0
        BY <3>1, <3>3
      <4> HIDE DEF n
      <4>2. /\ label = "entryOpen" => s = "(" /\ ToCome(rem, tail, rest, "entryName", stack)
            /\ label = "entryName" => s = "name" /\ ToCome(rem, tail, rest, "name", stack)
        BY <1>0, <4>1, HeadGoes
      <4> QED BY <3>3, <4>2, Keywords
    <3>4. CASE label = "entryNode"
      <4>1. n = Len(stack) /\ n # 0
        BY <3>1, <3>4
      <4> HIDE DEF n
      <4>2. s = "node" /\ ToCome(rem, tail, rest, "open", stack)
        BY <1>0, <3>4, <4>1, NodeStarts
      <4> QED BY <3>4, <4>2, Keywords
    <3> QED BY <1>2, <3>2, <3>3, <3>4, Keywords
  <2>3. expect' = Keyword[label][2] /\ stack' = stack /\ result' = "reading"
    BY <2>1, <2>2 DEF ExpectStr, Go
  <2>4. Keyword[label][2] # "magic"
    BY Keywords
  <2> QED BY <2>2, <2>3, <2>4 DEF Ahead
<1> QED BY <1>1, <1>2

(* The kind of a node. *)
LEMMA NodeTypeForetold ==
  ASSUME IInv, ArchiveInv, ForetoldInv, NEW s \in Words, NodeType(s) PROVE ForetoldInv'
<1>0. s \in Tokens /\ Reads("kind", s) /\ result = "reading"
  BY DEF Tokens, NodeType, Reads
<1> SUFFICES ASSUME NEW rem, NEW tail, NEW rest, rest \in Seq(Tokens),
                    ToCome(rem, tail, Lead(s, rest), "kind", stack)
             PROVE  Ahead(rest, expect', stack', result')
  BY <1>0, Onward
<1>1. \/ s = "symlink" /\ ToCome(rem, tail, rest, "target", stack)
      \/ s = "regular" /\ ToCome(rem, tail, rest, "body", stack)
      \/ /\ s = "directory" /\ Len(stack) < MaxDepth
         /\ \A st : st = Append(stack, [entries |-> <<>>, last |-> {}])
                      => \E r2, t2 : ToCome(r2, t2, rest, "directory", st)
  BY <1>0, NodeWordAhead
<1>2. CASE s = "symlink" /\ ToCome(rem, tail, rest, "target", stack)
  <2>1. expect' = "target" /\ stack' = stack /\ result' = "reading"
    BY <1>0, <1>2 DEF NodeType, Go
  <2> QED BY <1>2, <2>1 DEF Ahead
<1>3. CASE s = "regular" /\ ToCome(rem, tail, rest, "body", stack)
  <2>1. expect' = "body" /\ stack' = stack /\ result' = "reading"
    BY <1>0, <1>3 DEF NodeType, Go
  <2> QED BY <1>3, <2>1 DEF Ahead
<1>4. CASE /\ s = "directory" /\ Len(stack) < MaxDepth
           /\ \A st : st = Append(stack, [entries |-> <<>>, last |-> {}])
                        => \E r2, t2 : ToCome(r2, t2, rest, "directory", st)
  <2>1. PICK M : stack \in Seq(M)
    BY DEF IInv, TypeInv
  <2>2. Len(stack) \in Nat /\ MaxDepth \in Nat
    BY <2>1, ParserAssumption
  <2>3. ~(Len(stack) >= MaxDepth)
    BY <1>4, <2>2
  <2>4. expect' = "directory" /\ stack' = Append(stack, [entries |-> <<>>, last |-> {}])
        /\ result' = "reading"
    BY <1>0, <1>4, <2>3 DEF NodeType, Go
  <2>5. \E r2, t2 : ToCome(r2, t2, rest, "directory", stack')
    BY ONLY <1>4, <2>4
  <2> QED BY <2>4, <2>5 DEF Ahead
<1> QED BY <1>1, <1>2, <1>3, <1>4

(* parse_regular: executable or not. *)
LEMMA RegularBodyForetold ==
  ASSUME IInv, ArchiveInv, ForetoldInv, NEW s \in Words, RegularBody(s) PROVE ForetoldInv'
<1>0. s \in Tokens /\ Reads("body", s) /\ result = "reading"
  BY DEF Tokens, RegularBody, Reads
<1> SUFFICES ASSUME NEW rem, NEW tail, NEW rest, rest \in Seq(Tokens),
                    ToCome(rem, tail, Lead(s, rest), "body", stack)
             PROVE  Ahead(rest, expect', stack', result')
  BY <1>0, Onward
<1>1. \/ s = "contents" /\ ToCome(rem, tail, rest, "data", stack)
      \/ s = "executable" /\ ToCome(rem, tail, rest, "blank", stack)
  BY <1>0, NodeWordAhead
<1>2. CASE s = "contents" /\ ToCome(rem, tail, rest, "data", stack)
  <2>1. expect' = "data" /\ stack' = stack /\ result' = "reading"
    BY <1>0, <1>2 DEF RegularBody, Go
  <2> QED BY <1>2, <2>1 DEF Ahead
<1>3. CASE s = "executable" /\ ToCome(rem, tail, rest, "blank", stack)
  <2>1. expect' = "blank" /\ stack' = stack /\ result' = "reading"
    BY <1>0, <1>3 DEF RegularBody, Go
  <2> QED BY <1>3, <2>1 DEF Ahead
<1> QED BY <1>1, <1>2, <1>3

(* The contents of a file. *)
LEMMA ContentsForetold ==
  ASSUME IInv, ArchiveInv, ForetoldInv, NEW s \in Payloads, Contents(s) PROVE ForetoldInv'
<1>1. PICK label \in {"data", "execData"} : Reads(label, s)
  BY DEF Contents
<1>2. s \in Tokens /\ result = "reading" /\ label # "magic"
  BY <1>1, SomeTokens DEF Reads
<1>3. expect' = "close" /\ stack' = stack /\ result' = "reading"
  BY <1>2 DEF Contents, Go
<1> SUFFICES ASSUME NEW rem, NEW tail, NEW rest, rest \in Seq(Tokens),
                    ToCome(rem, tail, Lead(s, rest), label, stack)
             PROVE  Ahead(rest, expect', stack', result')
  BY <1>1, <1>2, Onward
<1>4. ToCome(rem, tail, rest, "close", stack)
  BY <1>1, <1>2, NodeWordAhead
<1> QED BY <1>3, <1>4 DEF Ahead

(* The target of a symbolic link is text. *)
LEMMA LinkTargetForetold ==
  ASSUME IInv, ArchiveInv, ForetoldInv, NEW s \in Payloads, LinkTarget(s) PROVE ForetoldInv'
<1>0. s \in Tokens /\ Reads("link", s) /\ result = "reading"
  BY SomeTokens DEF LinkTarget, Reads
<1> SUFFICES ASSUME NEW rem, NEW tail, NEW rest, rest \in Seq(Tokens),
                    ToCome(rem, tail, Lead(s, rest), "link", stack)
             PROVE  Ahead(rest, expect', stack', result')
  BY <1>0, Onward
<1>1. s # NotText /\ ToCome(rem, tail, rest, "close", stack)
  BY <1>0, NodeWordAhead
<1>2. expect' = "close" /\ stack' = stack /\ result' = "reading"
  BY <1>0, <1>1 DEF LinkTarget, Go
<1> QED BY <1>1, <1>2 DEF Ahead

(* The head of the loop of parse_directory: an entry or the end. *)
LEMMA DirectoryNextForetold ==
  ASSUME IInv, ArchiveInv, ForetoldInv, NEW s \in Words, DirectoryNext(s) PROVE ForetoldInv'
<1>0. s \in Tokens /\ Reads("directory", s) /\ result = "reading" /\ expect = "directory"
  BY DEF Tokens, DirectoryNext, Reads
<1> SUFFICES ASSUME NEW rem, NEW tail, NEW rest, rest \in Seq(Tokens),
                    ToCome(rem, tail, Lead(s, rest), "directory", stack)
             PROVE  Ahead(rest, expect', stack', result')
  BY <1>0, Onward
<1> DEFINE n == Len(stack)
<1>1. n = Len(stack) /\ n # 0
  BY <1>0, StackIs DEF Between
<1> HIDE DEF n
<1>2. \/ s = "entry" /\ ToCome(rem, tail, rest, "entryOpen", stack)
      \/ s = ")" /\ rest = tail[n - 1]
  BY <1>0, <1>1, DirectoryGoes
<1>3. CASE s = "entry" /\ ToCome(rem, tail, rest, "entryOpen", stack)
  <2>1. expect' = "entryOpen" /\ stack' = stack /\ result' = "reading"
    BY <1>0, <1>3 DEF DirectoryNext, Go
  <2> QED BY <1>3, <2>1 DEF Ahead
<1>4. CASE s = ")" /\ rest = tail[n - 1]
  <2>1. expect' = (IF n = 1 THEN "close" ELSE "entryClose") /\ stack' = Front(stack)
        /\ result' = "reading"
    BY <1>0, <1>1, <1>4 DEF DirectoryNext, Go
  <2>2. ToCome(rem, tail, rest, expect', stack')
    BY <1>1, <1>4, <2>1, DirectoryEnds
  <2> QED BY <2>1, <2>2 DEF Ahead
<1> QED BY <1>2, <1>3, <1>4

(* The name of an entry is valid and above the last one. *)
LEMMA EntryNameForetold ==
  ASSUME IInv, ArchiveInv, ForetoldInv, NEW s \in Names, EntryName(s) PROVE ForetoldInv'
<1>0. s \in Tokens /\ Reads("name", s) /\ result = "reading" /\ expect = "name"
  BY SomeTokens DEF EntryName, Reads
<1> SUFFICES ASSUME NEW rem, NEW tail, NEW rest, rest \in Seq(Tokens),
                    ToCome(rem, tail, Lead(s, rest), "name", stack)
             PROVE  Ahead(rest, expect', stack', result')
  BY <1>0, Onward
<1> DEFINE n == Len(stack)
<1>1. n = Len(stack) /\ n # 0 /\ n \in Nat
  BY <1>0, StackIs DEF Between
<1>2. PICK N : stack \in Seq(Frame(N))
  BY DEF IInv, TypeInv
<1>3. n \in 1..n /\ stack[n].last \subseteq Names /\ stack[n] \in Frame(N)
  <2>1. n \in 1..n /\ n \in 1..Len(stack)
    BY <1>1
  <2>2. stack[n] \in Frame(N)
    BY <1>2, <2>1, SeqElement
  <2> QED BY <2>1, <2>2 DEF Frame
<1> HIDE DEF n
<1>4. /\ ValidateEntryName(s) /\ \A m \in stack[n].last : Rank[m] < Rank[s]
      /\ \A st : Len(st) = n /\ (\A k \in 1..n - 1 : st[k] = stack[k]) /\ st[n].last = {s}
                   => \E r2, t2 : ToCome(r2, t2, rest, "entryNode", st)
  BY <1>0, <1>1, NameGoes
<1>5. InOrder(s)
  <2>1. \A m \in stack[n].last : Rank[s] > Rank[m]
    BY <1>3, <1>4, RankAssumption
  <2> QED BY <1>1, <2>1 DEF InOrder, Top
<1>6. expect' = "entryNode" /\ stack' = [stack EXCEPT ![n].last = {s}] /\ result' = "reading"
  BY <1>0, <1>1, <1>4, <1>5 DEF EntryName, Go
<1>7. Len(stack') = n /\ (\A k \in 1..n - 1 : stack'[k] = stack[k]) /\ stack'[n].last = {s}
  <2>1. [stack[n] EXCEPT !.last = {s}].last = {s}
    BY ONLY <1>3 DEF Frame
  <2> DEFINE x == [stack[n] EXCEPT !.last = {s}]
  <2>2. stack' = [stack EXCEPT ![n] = x]
    BY <1>6
  <2> HIDE DEF x
  <2>3. Len(stack') = n /\ (\A k \in 1..n - 1 : stack'[k] = stack[k]) /\ stack'[n] = x
    BY ONLY <1>1, <1>2, <1>3, <2>2
  <2> QED BY <2>1, <2>3 DEF x
<1>8. \E r2, t2 : ToCome(r2, t2, rest, "entryNode", stack')
  BY ONLY <1>4, <1>7
<1> QED BY <1>6, <1>8 DEF Ahead

(* The ")" of a node: the archive may end here. *)
LEMMA CloseForetold ==
  ASSUME IInv, ArchiveInv, ForetoldInv, NEW s \in Words, Close(s) PROVE ForetoldInv'
<1>0. s \in Tokens /\ Reads("close", s) /\ result = "reading"
  BY DEF Tokens, Close, Reads
<1> SUFFICES ASSUME NEW rem, NEW tail, NEW rest, rest \in Seq(Tokens),
                    ToCome(rem, tail, Lead(s, rest), "close", stack)
             PROVE  Ahead(rest, expect', stack', result')
  BY <1>0, Onward
<1>1. s = ")" /\ (Len(stack) # 0 => ToCome(rem, tail, rest, "entryClose", stack))
  BY <1>0, CloseGoes
<1>2. stack # <<>> => Len(stack) # 0
  BY StackIs
<1>3. CASE stack = <<>>
  <2>1. result' = "ok"
    BY <1>1, <1>3 DEF Close, Refuse
  <2> QED BY <2>1 DEF Ahead
<1>4. CASE stack # <<>>
  <2>1. expect' = "entryClose" /\ stack' = stack /\ result' = "reading"
    BY <1>0, <1>1, <1>4 DEF Close, Go
  <2> QED BY <1>1, <1>2, <1>4, <2>1 DEF Ahead
<1> QED BY <1>3, <1>4

(* The ")" of an entry. *)
LEMMA CloseEntryForetold ==
  ASSUME IInv, ArchiveInv, ForetoldInv, NEW s \in Words, CloseEntry(s) PROVE ForetoldInv'
<1>0. s \in Tokens /\ Reads("entryClose", s) /\ result = "reading" /\ expect = "entryClose"
  BY DEF Tokens, CloseEntry, Reads
<1> SUFFICES ASSUME NEW rem, NEW tail, NEW rest, rest \in Seq(Tokens),
                    ToCome(rem, tail, Lead(s, rest), "entryClose", stack)
             PROVE  Ahead(rest, expect', stack', result')
  BY <1>0, Onward
<1> DEFINE n == Len(stack)
<1>1. n = Len(stack) /\ n # 0 /\ n \in Nat
  BY <1>0, StackIs DEF Between
<1>2. PICK N : stack \in Seq(Frame(N))
  BY DEF IInv, TypeInv
<1>3. n \in 1..n /\ stack[n] \in Frame(N)
  <2>1. n \in 1..n /\ n \in 1..Len(stack)
    BY <1>1
  <2> QED BY <1>2, <2>1, SeqElement
<1> HIDE DEF n
<1>4. /\ s = ")"
      /\ \A st : Len(st) = n /\ (\A k \in 1..n : st[k].last = stack[k].last)
                   => ToCome(rem, tail, rest, "directory", st)
  <2>1. s \in Tokens
    BY <1>0
  <2> QED BY ONLY IInv, <1>1, <2>1, rest \in Seq(Tokens),
                  ToCome(rem, tail, Lead(s, rest), "entryClose", stack), CloseGoes
<1> DEFINE es == Append(stack[n].entries, [name |-> CHOOSE m \in Top.last : TRUE, node |-> node])
           x == [stack[n] EXCEPT !.entries = es]
<1>5. expect' = "directory" /\ result' = "reading" /\ stack' = [stack EXCEPT ![n] = x]
  BY <1>0, <1>1, <1>4 DEF CloseEntry, Go
<1>6. x.last = stack[n].last
  <2> HIDE DEF es
  <2> QED BY <1>3 DEF Frame
<1> HIDE DEF x
<1>7. Len(stack') = n /\ \A k \in 1..n : stack'[k].last = stack[k].last
  <2>1. Len(stack') = n /\ (\A k \in 1..n : k # n => stack'[k] = stack[k]) /\ stack'[n] = x
    BY ONLY <1>1, <1>2, <1>3, <1>5
  <2> QED BY <1>6, <2>1
<1>8. ToCome(rem, tail, rest, "directory", stack')
  BY ONLY <1>4, <1>7
<1> QED BY <1>5, <1>8 DEF Ahead

(* Every read keeps what is foretold. *)
LEMMA NextForetold == IInv /\ ArchiveInv /\ ForetoldInv /\ [Next]_vars => ForetoldInv'
<1> SUFFICES ASSUME IInv, ArchiveInv, ForetoldInv, [Next]_vars PROVE ForetoldInv'
  OBVIOUS
<1>1. CASE UNCHANGED vars
  BY <1>1 DEF vars, ForetoldInv
<1>2. CASE ReadFails
  <2>1. result' = "eof"
    BY <1>2 DEF ReadFails
  <2> QED BY <2>1 DEF ForetoldInv
<1>3. ASSUME NEW s \in Words, NEW label \in DOMAIN Keyword, ExpectStr(label, s) PROVE ForetoldInv'
  BY <1>3, ExpectStrForetold
<1>4. ASSUME NEW s \in Words,
             NodeType(s) \/ RegularBody(s) \/ DirectoryNext(s) \/ Close(s) \/ CloseEntry(s)
      PROVE  ForetoldInv'
  BY <1>4, NodeTypeForetold, RegularBodyForetold, DirectoryNextForetold, CloseForetold,
     CloseEntryForetold
<1>5. ASSUME NEW s \in Payloads, Contents(s) \/ LinkTarget(s) PROVE ForetoldInv'
  BY <1>5, ContentsForetold, LinkTargetForetold
<1>6. ASSUME NEW s \in Names, EntryName(s) PROVE ForetoldInv'
  BY <1>6, EntryNameForetold
<1> QED BY <1>1, <1>2, <1>3, <1>4, <1>5, <1>6 DEF Next

(* A beginning of a sequence, and the rest of it. *)
LEMMA PrefixAndRest ==
  ASSUME NEW w, w \in Seq(Tokens), NEW p, p \in Prefixes(w)
  PROVE  p \in Seq(Tokens) /\ \E rest \in Seq(Tokens) : w = Cat(p, rest)
<1> DEFINE n == Len(w)
<1>1. PICK l \in 0..n : p = SubSeq(w, 1, l)
  BY DEF Prefixes
<1>2. n \in Nat /\ l \in Nat /\ l <= n /\ \A i \in 1..n : w[i] \in Tokens
  <2>1. n \in Nat
    OBVIOUS
  <2> QED BY <2>1, SeqElement
<1> DEFINE q == [i \in 1..n - l |-> w[l + i]]
<1>3. p \in Seq(Tokens) /\ Len(p) = l /\ \A i \in 1..l : p[i] = w[i]
  <2>1. SubSeq(w, 1, l) = [i \in 1..l |-> w[i]]
    BY <1>2
  <2> DEFINE f == [i \in 1..l |-> w[i]]
  <2>2. f \in [1..l -> Tokens]
    BY <1>2
  <2>3. p = f /\ \A i \in 1..l : f[i] = w[i]
    BY <1>1, <2>1
  <2> HIDE DEF f
  <2> QED BY <1>2, <2>2, <2>3
<1>4. q \in Seq(Tokens) /\ Len(q) = n - l /\ \A i \in 1..n - l : q[i] = w[l + i]
  <2>1. \A i \in 1..n - l : l + i \in 1..n
    BY <1>2
  <2>2. q \in [1..n - l -> Tokens] /\ n - l \in Nat /\ \A i \in 1..n - l : q[i] = w[l + i]
    BY <1>2, <2>1
  <2> HIDE DEF q
  <2> QED BY <2>2
<1> DEFINE a == p \o q
<1> HIDE DEF q
<1>5. /\ a \in Seq(Tokens) /\ Len(a) = Len(p) + Len(q)
      /\ \A i \in 1..Len(p) : a[i] = p[i]
      /\ \A i \in Len(p) + 1..Len(p) + Len(q) : a[i] = q[i - Len(p)]
  <2>1. p \in Seq(Tokens) /\ q \in Seq(Tokens)
    BY <1>3, <1>4
  <2> QED BY ONLY <2>1, JoinType
<1> HIDE DEF a
<1>6. Len(a) = n
  BY <1>2, <1>3, <1>4, <1>5
<1>7. ASSUME NEW i \in 1..n PROVE a[i] = w[i]
  <2>1. CASE i <= l
    BY <1>2, <1>3, <1>5, <2>1
  <2>2. CASE i > l
    <3>1. i \in Len(p) + 1..Len(p) + Len(q) /\ i - Len(p) = i - l /\ i - l \in 1..n - l
          /\ l + (i - l) = i
      BY <1>2, <1>3, <1>4, <2>2
    <3>2. a[i] = q[i - l]
      BY <1>5, <3>1
    <3>3. q[i - l] = w[l + (i - l)]
      BY <1>4, <3>1
    <3> QED BY <3>1, <3>2, <3>3
  <2> QED BY <1>2, <2>1, <2>2
<1>8. a = w
  BY ONLY <1>5, <1>6, <1>7, w \in Seq(Tokens), SameSeq DEF n
<1> QED BY <1>3, <1>4, <1>8 DEF a, Cat

Labels == {"open", "type", "kind", "target", "link", "body", "data", "blank", "contents",
           "execData"} \cup Plain

LabelInv == expect \in Labels \cup {"magic"} /\ result \in {"reading", "ok", "eof", "err"}

(* parse begins with the magic string. *)
LEMMA InitLabel == Init => LabelInv
  BY DEF Init, LabelInv

(* The code goes from label to label. *)
LEMMA NextLabel == LabelInv /\ [Next]_vars => LabelInv'
<1> SUFFICES ASSUME LabelInv, [Next]_vars PROVE LabelInv'
  OBVIOUS
<1> USE DEF LabelInv, Labels, Plain
<1>1. CASE UNCHANGED vars \/ ReadFails
  BY <1>1 DEF vars, ReadFails
<1>2. ASSUME NEW s \in Words, NEW label \in DOMAIN Keyword, ExpectStr(label, s) PROVE LabelInv'
  <2>1. CASE Refuse
    BY <2>1 DEF Refuse
  <2>2. CASE Go(Keyword[label][2])
    <3>1. Keyword[label][2] \in Labels
      BY Keywords
    <3> QED BY <2>2, <3>1 DEF Go
  <2> QED BY <1>2, <2>1, <2>2 DEF ExpectStr
<1>3. ASSUME NEW s \in Words, NodeType(s) PROVE LabelInv'
  BY <1>3 DEF NodeType, Go, Refuse
<1>4. ASSUME NEW s \in Words, RegularBody(s) PROVE LabelInv'
  BY <1>4 DEF RegularBody, Go, Refuse
<1>5. ASSUME NEW s \in Words, DirectoryNext(s) PROVE LabelInv'
  BY <1>5 DEF DirectoryNext, Go, Refuse
<1>6. ASSUME NEW s \in Words, Close(s) \/ CloseEntry(s) PROVE LabelInv'
  BY <1>6 DEF Close, CloseEntry, Go, Refuse
<1>7. ASSUME NEW s \in Payloads, Contents(s) \/ LinkTarget(s) PROVE LabelInv'
  BY <1>7 DEF Contents, LinkTarget, Go, Refuse
<1>8. ASSUME NEW s \in Names, EntryName(s) PROVE LabelInv'
  BY <1>8 DEF EntryName, Go, Refuse
<1> QED BY <1>1, <1>2, <1>3, <1>4, <1>5, <1>6, <1>7, <1>8 DEF Next

(* As long as something is read, something is to come. *)
LEMMA SomethingComes ==
  ASSUME IInv, result = "reading", expect \in Labels, NEW rem, NEW tail, NEW rest,
         ToCome(rem, tail, rest, expect, stack)
  PROVE  rest # <<>>
<1> DEFINE n == Len(stack)
           tl == tail[n]
<1>0. \A x \in Tokens, q \in Seq(Tokens) : Lead(x, q) # <<>>
  BY LeadType
<1>1. n \in 0..MaxDepth /\ tl \in Seq(Tokens)
      /\ (n # 0 => /\ n \in 1..MaxDepth /\ FollowsAt(rem, tail, stack, n)
                   /\ tail[n - 1] \in Seq(Tokens))
  BY HereIs
<1>2. NodeToCome(n, tl, expect, rest)
  BY DEF ToCome
<1>3. expect \in Between \cup {"entryNode", "entryClose"} => n # 0
  BY StackIs
<1>4. ASSUME NEW c \in Payloads
      PROVE  /\ Content(c, tl) # <<>> /\ Lead("target", Content(c, tl)) # <<>>
             /\ Lead("contents", Content(c, tl)) # <<>>
             /\ Lead(Empty, Lead("contents", Content(c, tl))) # <<>>
             /\ Lead("executable", Lead(Empty, Lead("contents", Content(c, tl)))) # <<>>
  <2> HIDE DEF tl
  <2>1. /\ c \in Tokens /\ Lead(")", tl) \in Seq(Tokens) /\ Content(c, tl) \in Seq(Tokens)
        /\ Lead("target", Content(c, tl)) \in Seq(Tokens)
        /\ Lead("contents", Content(c, tl)) \in Seq(Tokens)
        /\ Lead(Empty, Lead("contents", Content(c, tl))) \in Seq(Tokens)
        /\ Lead("executable", Lead(Empty, Lead("contents", Content(c, tl)))) \in Seq(Tokens)
    BY ONLY <1>1, c \in Payloads, ContentType
  <2> QED BY ONLY <1>0, <2>1, SomeTokens DEF Content
<1>5. CASE expect \in {"target", "link", "body", "data", "blank", "contents", "execData"}
  BY <1>2, <1>4, <1>5 DEF NodeToCome
<1>6. CASE expect \in {"open", "type"}
  <2>1. PICK q \in Seq(Tokens) : rest = Lead("(", Lead("type", q)) \/ rest = Lead("type", q)
    BY <1>2, <1>6 DEF NodeToCome
  <2>2. Lead("type", q) \in Seq(Tokens)
    BY LeadType, SomeTokens
  <2> QED BY <1>0, <2>1, <2>2, SomeTokens
<1>7. CASE expect = "kind"
  <2>1. KindToCome(n, tl, rest)
    BY <1>2, <1>7 DEF NodeToCome
  <2> QED BY <1>1, <2>1, KindType
<1>8. CASE expect \in Plain
  <2>1. CASE expect \in {"entryOpen", "entryName", "name"}
    <3>1. n # 0 /\ rem[n] # <<>>
      BY <1>3, <2>1 DEF ToCome, Between
    <3>2. PICK D \in Seq(Tokens), w \in Seq(Tokens) :
             /\ rem[n][1].name \in Tokens
             /\ Lead("node", Cat(D, Lead(")", w))) \in Seq(Tokens)
             /\ Named(rem, tail, n) = Lead(rem[n][1].name, Lead("node", Cat(D, Lead(")", w))))
             /\ Named(rem, tail, n) \in Seq(Tokens)
             /\ Lead("name", Named(rem, tail, n)) \in Seq(Tokens)
      BY <1>1, <3>1, NamedType
    <3>3. Named(rem, tail, n) # <<>> /\ Lead("name", Named(rem, tail, n)) # <<>>
          /\ Lead("(", Lead("name", Named(rem, tail, n))) # <<>>
      <4> HIDE DEF n
      <4> QED BY ONLY <1>0, <3>2, SomeTokens
    <3>4. \/ rest = Lead("(", Lead("name", Named(rem, tail, n)))
          \/ rest = Lead("name", Named(rem, tail, n)) \/ rest = Named(rem, tail, n)
      BY <2>1 DEF ToCome
    <3> QED BY <3>3, <3>4
  <2>2. CASE expect = "directory"
    <3>1. n # 0 /\ rest = After(rem, tail, n)
      BY <1>3, <2>2 DEF ToCome, Between
    <3>2. CASE rem[n] = <<>>
      <4>1. rest = Lead(")", tail[n - 1])
        BY <1>1, <3>1, <3>2, AfterForms
      <4> QED BY <1>0, <1>1, <3>1, <4>1, SomeTokens
    <3>3. CASE rem[n] # <<>>
      <4>1. rest = Lead("entry", Lead("(", Lead("name", Named(rem, tail, n))))
        BY <1>1, <3>1, <3>3, AfterForms
      <4>2. Lead("(", Lead("name", Named(rem, tail, n))) \in Seq(Tokens)
        BY <1>1, <3>1, <3>3, NamedType
      <4> QED BY <1>0, <4>1, <4>2, SomeTokens
    <3> QED BY <3>2, <3>3
  <2>3. CASE expect = "entryNode"
    <3>1. PICK cur \in SafeTrees[MaxDepth - n] : rest = Lead("node", Cat(Dump[MaxDepth - n][cur], tl))
      BY <2>3 DEF ToCome
    <3> DEFINE D == Dump[MaxDepth - n][cur]
    <3>2. D \in Seq(Tokens)
      <4>1. MaxDepth - n \in 0..MaxDepth
        BY <1>1, ParserAssumption
      <4> QED BY <4>1, DumpType
    <3>3. rest = Lead("node", Cat(D, tl))
      BY <3>1
    <3> HIDE DEF D, tl
    <3>4. Cat(D, tl) \in Seq(Tokens)
      BY ONLY <1>1, <3>2, CatType
    <3> QED BY ONLY <1>0, <3>3, <3>4, SomeTokens
  <2>4. CASE expect = "close"
    <3>1. PICK q \in Seq(Tokens) : rest = Lead(")", q)
      BY <2>4 DEF ToCome
    <3> QED BY <1>0, <3>1, SomeTokens
  <2>5. CASE expect = "entryClose"
    <3>1. n # 0 /\ rest = tl
      BY <1>3, <2>5 DEF ToCome
    <3>2. tl = Lead(")", After(rem, tail, n)) /\ After(rem, tail, n) \in Seq(Tokens)
      BY <1>1, <3>1, AfterForms DEF FollowsAt
    <3> QED BY <1>0, <3>1, <3>2, SomeTokens
  <2> QED BY <1>8, <2>1, <2>2, <2>3, <2>4, <2>5 DEF Plain
<1> QED BY <1>5, <1>6, <1>7, <1>8 DEF Labels

(* Where an archive has been read whole, the code reads no more. *)
LEMMA WholeIsEnd ==
  ASSUME IInv, ArchiveInv, LabelInv, ForetoldInv, NEW t, t \in SafeTrees[MaxDepth],
         read = Wire(t), result = "reading"
  PROVE  FALSE
<1>1. CASE expect = "magic"
  <2>1. Wire(t) = <<>>
    BY <1>1 DEF ArchiveInv
  <2>2. PICK q \in Seq(Tokens) : Wire(t) = Lead(Magic, q)
    BY WireComes
  <2>3. Lead(Magic, q) # <<>>
    BY LeadType, SomeTokens
  <2> QED BY <2>1, <2>2, <2>3
<1>2. CASE expect # "magic"
  <2>1. read \in Seq(Tokens) /\ <<>> \in Seq(Tokens)
    BY DEF ArchiveInv
  <2>2. Cat(read, <<>>) = read
    BY ONLY <2>1, CatType
  <2>3. Ahead(<<>>, expect, stack, result)
    BY <1>2, <2>1, <2>2 DEF ForetoldInv
  <2>4. PICK rem, tail : ToCome(rem, tail, <<>>, expect, stack)
    BY <2>3 DEF Ahead
  <2>5. expect \in Labels
    BY <1>2 DEF LabelInv
  <2> QED BY <2>4, <2>5, SomethingComes
<1> QED BY <1>1, <1>2

(* The end of the stream is met within an archive only. *)
WholeInv == result = "eof" => \A t \in SafeTrees[MaxDepth] : read # Wire(t)

(* The stream that ends does not end after a whole archive. *)
LEMMA NextWhole ==
  IInv /\ ArchiveInv /\ LabelInv /\ ForetoldInv /\ WholeInv /\ [Next]_vars => WholeInv'
<1> SUFFICES ASSUME IInv, ArchiveInv, LabelInv, ForetoldInv, WholeInv, [Next]_vars PROVE WholeInv'
  OBVIOUS
<1>1. CASE UNCHANGED vars
  BY <1>1 DEF vars, WholeInv
<1>2. CASE ReadFails
  <2>1. result = "reading" /\ read' = read
    BY <1>2 DEF ReadFails
  <2>2. \A t \in SafeTrees[MaxDepth] : read # Wire(t)
    BY <2>1, WholeIsEnd
  <2> QED BY <2>1, <2>2 DEF WholeInv
<1>3. CASE result = "reading" /\ result' # "eof"
  BY <1>3 DEF WholeInv
<1>4. ASSUME NEW s, NEW label \in DOMAIN Keyword, ExpectStr(label, s)
      PROVE  result = "reading" /\ result' # "eof"
  BY <1>4 DEF ExpectStr, Reads, Go, Refuse
<1>5. ASSUME NEW s, NodeType(s) \/ RegularBody(s) \/ DirectoryNext(s)
      PROVE  result = "reading" /\ result' # "eof"
  BY <1>5 DEF NodeType, RegularBody, DirectoryNext, Reads, Go, Refuse
<1>6. ASSUME NEW s, Close(s) \/ CloseEntry(s) \/ EntryName(s)
      PROVE  result = "reading" /\ result' # "eof"
  BY <1>6 DEF Close, CloseEntry, EntryName, Reads, Go, Refuse
<1>7. ASSUME NEW s, Contents(s) \/ LinkTarget(s)
      PROVE  result = "reading" /\ result' # "eof"
  BY <1>7 DEF Contents, LinkTarget, Reads, Go, Refuse
<1> QED BY <1>1, <1>2, <1>3, <1>4, <1>5, <1>6, <1>7 DEF Next

(* What the run checks of the archives of a sample of trees, of every safe *)
(* tree; and that the stream parse wants for a tree is accepted.           *)
RefusesNone == result = "err" => \A t \in SafeTrees[MaxDepth] : read \notin Prefixes(Archive(t))
AcceptsAll  == \A t \in SafeTrees[MaxDepth] : read = Wire(t) => result = "ok"

ReadInv == IInv /\ ArchiveInv /\ LabelInv /\ ForetoldInv /\ WholeInv

(* What has been read and what is to come, together. *)
LEMMA ReadInvariant == Spec => []ReadInv
<1>1. Init => ReadInv
  <2>1. Init => ForetoldInv /\ WholeInv
    BY DEF Init, ForetoldInv, WholeInv
  <2> QED BY <2>1, InitIInv, InitArchive, InitLabel DEF ReadInv
<1>2. ReadInv /\ [Next]_vars => ReadInv'
  BY NextIInv, NextArchive, NextLabel, NextForetold, NextWhole DEF ReadInv
<1> QED BY <1>1, <1>2, PTL DEF Spec

(* What begins an archive begins the stream that parse takes for its tree. *)
LEMMA ArchiveBegins ==
  ASSUME NEW t, t \in SafeTrees[MaxDepth], NEW p, p \in Prefixes(Archive(t))
  PROVE  \E rest \in Seq(Tokens) : Wire(t) = Cat(p, rest)
<1> DEFINE m == <<Magic>>
           D == Dump[MaxDepth][t]
           a == Archive(t)
           more == IF t.type = "directory" THEN <<")">> ELSE <<>>
<1>1. D \in Seq(Tokens)
  BY ParserAssumption, DumpType
<1>2. m \in Seq(Tokens) /\ more \in Seq(Tokens)
  BY SomeTokens
<1>3. a = Cat(m, D) /\ Wire(t) = Cat(a, more)
  BY DEF Wire, Archive, Cat
<1> HIDE DEF D, m, more
<1>4. a \in Seq(Tokens) /\ p \in Prefixes(a)
  BY <1>1, <1>2, <1>3, CatType
<1> HIDE DEF a
<1>5. p \in Seq(Tokens) /\ \E q \in Seq(Tokens) : a = Cat(p, q)
  BY ONLY <1>4, PrefixAndRest
<1>6. PICK q \in Seq(Tokens) : a = Cat(p, q)
  BY <1>5
<1>7. Cat(Cat(p, q), more) = Cat(p, Cat(q, more)) /\ Cat(q, more) \in Seq(Tokens)
  BY ONLY <1>2, <1>5, <1>6, CatAssoc, CatType
<1> QED BY <1>3, <1>6, <1>7

(***************************************************************************)
(* parse: what has been refused begins no archive of a safe tree, whichever *)
(* tree that is: for every set of names and payloads, and every max_depth. *)
(***************************************************************************)
THEOREM RefusesNoneTheorem == Spec => []RefusesNone
<1>1. ReadInv => RefusesNone
  <2> SUFFICES ASSUME ForetoldInv, result = "err", NEW t \in SafeTrees[MaxDepth],
                      read \in Prefixes(Archive(t))
               PROVE  FALSE
    BY DEF ReadInv, RefusesNone
  <2>1. PICK rest \in Seq(Tokens) : Wire(t) = Cat(read, rest)
    BY ArchiveBegins
  <2> QED BY <2>1 DEF ForetoldInv
<1> QED BY <1>1, ReadInvariant, PTL

(***************************************************************************)
(* parse: every safe tree has a stream that is accepted as soon as it has  *)
(* been read: its archive if it is a file or a link, its archive and one   *)
(* more ")" if it is a directory.  With AcceptedTheorem, these streams are *)
(* the ones accepted.                                                      *)
(***************************************************************************)
THEOREM AcceptsAllTheorem == Spec => []AcceptsAll
<1>1. ReadInv => AcceptsAll
  <2> SUFFICES ASSUME ReadInv, NEW t \in SafeTrees[MaxDepth], read = Wire(t) PROVE result = "ok"
    BY DEF AcceptsAll
  <2>1. result # "reading"
    BY WholeIsEnd DEF ReadInv
  <2>2. result # "eof"
    BY DEF ReadInv, WholeInv
  <2>3. result # "err"
    <3>1. read \in Seq(Tokens) /\ <<>> \in Seq(Tokens)
      BY DEF ReadInv, ArchiveInv
    <3>2. Cat(read, <<>>) = read
      BY ONLY <3>1, CatType
    <3> QED BY <3>1, <3>2 DEF ReadInv, ForetoldInv
  <2> QED BY <2>1, <2>2, <2>3 DEF ReadInv, LabelInv
<1> QED BY <1>1, ReadInvariant, PTL

(***************************************************************************)
(* parse: the same of the trees the run samples: at whatever string a      *)
(* stream is refused, it was not the beginning of one of their archives.   *)
(***************************************************************************)
THEOREM RefusedTheorem == Spec => []RefusedIsNoArchive
<1>1. RefusesNone => RefusedIsNoArchive
  BY DEF RefusesNone, RefusedIsNoArchive, GoodStarts, Archives, Trees
<1> QED BY <1>1, RefusesNoneTheorem, PTL

=============================================================================
