------------------------ MODULE OutboxPublisherProofs ------------------------
(***************************************************************************)
(* What holds of the outbox publisher for every set of rows, publishers    *)
(* and groups, every batch size, every limit and any number of failures.   *)
(***************************************************************************)
EXTENDS OutboxPublisher, FiniteSetTheorems, NaturalsInduction, WellFoundedInduction, TLAPS

(* A publisher with rows to append has a first one.                        *)
LEMMA LeastOfTodo ==
  ASSUME TypeOK, NEW p \in Publisher, todo[p] # {}
  PROVE  Least(todo[p]) \in todo[p] /\ Least(todo[p]) \in Row
<1> DEFINE Below == {m \in Nat \X Nat : m[1] < m[2]}
<1>1. todo[p] \subseteq Row /\ todo[p] \subseteq Nat
  BY PublisherAssumption DEF TypeOK
<1>2. IsWellFoundedOn(Below, Nat)
  BY NatLessThanWellFounded DEF OpToRel
<1>3. PICK r \in todo[p] : \A s \in todo[p] : <<s, r>> \notin Below
  BY <1>1, <1>2, WFMin
<1>4. \A s \in todo[p] : ~ (s < r)
  BY <1>1, <1>3
<1>. QED
  BY <1>1, <1>4 DEF Least

(* Every set of rows is finite, and taking a row out does not enlarge it.  *)
LEMMA RowSets ==
  ASSUME NEW S \in SUBSET Row
  PROVE  /\ IsFiniteSet(S)
         /\ Cardinality(S) \in Nat
         /\ \A r : IsFiniteSet(S \ {r}) /\ Cardinality(S \ {r}) \in Nat
         /\ \A r \in S : Cardinality(S \ {r}) = Cardinality(S) - 1
<1>1. IsFiniteSet(S)
  BY PublisherAssumption, FS_Subset
<1>2. Cardinality(S) \in Nat
  BY <1>1, FS_CardinalityType
<1>3. \A r : IsFiniteSet(S \ {r}) /\ Cardinality(S \ {r}) = IF r \in S THEN Cardinality(S) - 1 ELSE Cardinality(S)
  BY <1>1, FS_RemoveElement
<1>4. \A r : Cardinality(S \ {r}) \in Nat
  BY <1>3, FS_CardinalityType
<1>. QED
  BY <1>1, <1>2, <1>3, <1>4

(* Appending an entry leaves what the groups have seen inside the stream.  *)
LEMMA AppendKeepsGroups ==
  ASSUME TypeOK, NEW r \in Row, Append1(r)
  PROVE  /\ stream' \in Seq(Row) /\ Len(stream') = Len(stream) + 1
         /\ UNCHANGED <<created, founding, lastId, pel>>
         /\ \A g \in Group : lastId[g] <= Len(stream')
BY DEF TypeOK, Append1

(* The initial state is of the type.                                       *)
LEMMA TypeInit == Init => TypeOK
BY PublisherAssumption, FS_EmptySet DEF Init, TypeOK

(* The transaction variables of one publisher keep their type, whichever   *)
(* way its transaction ends.                                               *)
LEMMA TypeStep == TypeOK /\ [Next]_vars => TypeOK'
<1> SUFFICES ASSUME TypeOK, [Next]_vars
             PROVE  TypeOK'
  OBVIOUS
<1> USE PublisherAssumption DEF TypeOK
<1>1. ASSUME NEW r \in Row, CommitRow(r)
      PROVE  TypeOK'
  BY <1>1 DEF CommitRow, streamVars, pubVars
<1>2. ASSUME NEW p \in Publisher, CheckInflight(p)
      PROVE  TypeOK'
  BY <1>2 DEF CheckInflight, streamVars
<1>3. ASSUME NEW p \in Publisher, CheckFails(p)
      PROVE  TypeOK'
  BY <1>3 DEF CheckFails, streamVars, pubVars
<1>4. ASSUME NEW p \in Publisher, LockBatch(p)
      PROVE  TypeOK'
  BY <1>4 DEF LockBatch, IsFirstOf, Available, Unpublished, streamVars
<1>5. ASSUME NEW p \in Publisher, Xadd(p)
      PROVE  TypeOK'
  <2> DEFINE r == Least(todo[p])
  <2>1. r \in todo[p] /\ r \in Row
    BY <1>5, LeastOfTodo DEF Xadd
  <2>2. Cardinality(todo[p] \ {r}) <= BatchSize
    <3>1. Cardinality(todo[p] \ {r}) = Cardinality(todo[p]) - 1 /\ Cardinality(todo[p]) \in Nat
      BY <2>1, RowSets
    <3>. QED
      BY <3>1
  <2>3. Append1(r)
    BY <1>5 DEF Xadd
  <2> HIDE DEF r
  <2>4. /\ todo' = [todo EXCEPT ![p] = @ \ {r}]
        /\ sent' = [sent EXCEPT ![p] = @ \cup {r}]
        /\ UNCHANGED <<row, pc, erred, faults>> /\ pc[p] = "publishing"
    BY <1>5 DEF Xadd, r
  <2>. QED
    BY <2>1, <2>2, <2>3, <2>4, AppendKeepsGroups
<1>6. ASSUME NEW p \in Publisher, XaddFails(p)
      PROVE  TypeOK'
  <2> DEFINE r == Least(todo[p])
  <2>1. r \in Row
    BY <1>6, LeastOfTodo DEF XaddFails
  <2>2. Cardinality({}) = 0
    BY FS_EmptySet
  <2>3. Append1(r) \/ UNCHANGED streamVars
    BY <1>6 DEF XaddFails
  <2>4. /\ todo' = [todo EXCEPT ![p] = {}]
        /\ erred' = [erred EXCEPT ![p] = {r}]
        /\ UNCHANGED <<row, pc, sent>> /\ pc[p] = "publishing"
        /\ faults < MaxFaults /\ faults' = faults + 1
    BY <1>6 DEF XaddFails
  <2> HIDE DEF r
  <2>5. CASE Append1(r)
    BY <2>1, <2>2, <2>4, <2>5, AppendKeepsGroups
  <2>6. CASE UNCHANGED streamVars
    BY <2>1, <2>2, <2>4, <2>6 DEF streamVars
  <2>. QED
    BY <2>3, <2>5, <2>6
<1>7. ASSUME NEW p \in Publisher, CommitBatch(p)
      PROVE  TypeOK'
  <2>1. Cardinality({}) = 0
    BY FS_EmptySet
  <2>. QED
    BY <1>7, <2>1 DEF CommitBatch, RowAfterCommit, EndTransaction, streamVars
<1>8. ASSUME NEW p \in Publisher, Crash(p)
      PROVE  TypeOK'
  <2>1. Cardinality({}) = 0
    BY FS_EmptySet
  <2>. QED
    BY <1>8, <2>1 DEF Crash, EndTransaction, streamVars
<1>9. ASSUME NEW g \in Group, EnsureGroup(g)
      PROVE  TypeOK'
  BY <1>9 DEF EnsureGroup, pubVars
<1>10. ASSUME NEW g \in Group, NEW n \in Entry, Deliver(g, n)
       PROVE  TypeOK'
  BY <1>10 DEF Deliver, Entry, pubVars
<1>11. ASSUME NEW g \in Group, NEW e \in pel[g], Acknowledge(g, e)
       PROVE  TypeOK'
  BY <1>11 DEF Acknowledge, pubVars
<1>12. CASE UNCHANGED vars
  BY <1>12 DEF vars, streamVars, pubVars
<1>. QED
  BY <1>1, <1>2, <1>3, <1>4, <1>5, <1>6, <1>7, <1>8, <1>9, <1>10, <1>11, <1>12
     DEF Next, PublisherStep, Environment

(* Type correctness.                                                       *)
THEOREM TypeCorrect == Spec => []TypeOK
BY TypeInit, TypeStep, PTL DEF Spec

-----------------------------------------------------------------------------
(* An append adds one entry, to the copies of its own row.                 *)
LEMMA AppendKeepsCopies ==
  ASSUME TypeOK, NEW r \in Row, Append1(r)
  PROVE  /\ Copies(r)' = Copies(r) \cup {Len(stream) + 1}
         /\ \A s \in Row \ {r} : Copies(s)' = Copies(s)
         /\ \A s \in Row : Len(stream) + 1 \notin Copies(s)
BY DEF TypeOK, Append1, Copies, Entry

(* What is in the stream stays there, and a row is newly claimed only by   *)
(* the step that appends it.                                               *)
LEMMA NoLossStep == TypeOK /\ PublishedIsInStream /\ [Next]_vars => PublishedIsInStream'
<1> SUFFICES ASSUME TypeOK, PublishedIsInStream, [Next]_vars
             PROVE  PublishedIsInStream'
  OBVIOUS
<1>0. ASSUME UNCHANGED stream, \A r \in Row : Claimed(r)' => Claimed(r)
      PROVE  PublishedIsInStream'
  BY <1>0 DEF PublishedIsInStream, Claimed, Copies, Entry
<1>1. ASSUME NEW p \in Publisher, Xadd(p)
      PROVE  PublishedIsInStream'
  <2>1. PICK r \in Row : r = Least(todo[p])
    BY <1>1, LeastOfTodo DEF Xadd
  <2>2. /\ Append1(r)
        /\ sent' = [sent EXCEPT ![p] = @ \cup {r}] /\ row' = row
    BY <1>1, <2>1 DEF Xadd
  <2>3. Copies(r)' # {}
    BY <2>2, AppendKeepsCopies
  <2>4. \A s \in Row : Copies(s) # {} => Copies(s)' # {}
    BY <2>2, AppendKeepsCopies
  <2>5. \A s \in Row : Claimed(s)' => s = r \/ Claimed(s)
    BY <2>2 DEF TypeOK, Claimed
  <2>. QED
    BY <2>3, <2>4, <2>5 DEF PublishedIsInStream, Claimed
<1>2. ASSUME NEW p \in Publisher, XaddFails(p)
      PROVE  PublishedIsInStream'
  <2>1. PICK r \in Row : r = Least(todo[p])
    BY <1>2, LeastOfTodo DEF XaddFails
  <2>2. UNCHANGED <<row, sent>> /\ (Append1(r) \/ UNCHANGED streamVars)
    BY <1>2, <2>1 DEF XaddFails
  <2>3. CASE Append1(r)
    <3>1. \A s \in Row : Copies(s) # {} => Copies(s)' # {}
      BY <2>3, AppendKeepsCopies
    <3>. QED
      BY <2>2, <3>1 DEF PublishedIsInStream, Claimed
  <2>4. CASE UNCHANGED streamVars
    BY <2>2, <2>4, <1>0 DEF streamVars, Claimed
  <2>. QED
    BY <2>2, <2>3, <2>4
<1>3. ASSUME NEW p \in Publisher, CommitBatch(p)
      PROVE  PublishedIsInStream'
  <2>1. \A r \in Row : Claimed(r)' => Claimed(r)
    BY <1>3 DEF CommitBatch, RowAfterCommit, EndTransaction, TypeOK, Claimed
  <2>. QED
    BY <1>3, <2>1, <1>0 DEF CommitBatch, streamVars
<1>4. ASSUME NEW p \in Publisher, Crash(p)
      PROVE  PublishedIsInStream'
  <2>1. \A r \in Row : Claimed(r)' => Claimed(r)
    BY <1>4 DEF Crash, EndTransaction, TypeOK, Claimed
  <2>. QED
    BY <1>4, <2>1, <1>0 DEF Crash, streamVars
<1>5. ASSUME NEW r \in Row, CommitRow(r)
      PROVE  PublishedIsInStream'
  <2>1. \A s \in Row : Claimed(s)' => Claimed(s)
    BY <1>5 DEF CommitRow, pubVars, TypeOK, Claimed
  <2>. QED
    BY <1>5, <2>1, <1>0 DEF CommitRow, streamVars
<1>6. CASE UNCHANGED <<row, sent, stream>>
  BY <1>6, <1>0 DEF Claimed
<1>. QED
  BY <1>1, <1>2, <1>3, <1>4, <1>5, <1>6
     DEF Next, PublisherStep, Environment, CheckInflight, CheckFails, LockBatch,
         EnsureGroup, Deliver, Acknowledge, vars, streamVars, pubVars

(* Outbox rows are not lost: whatever publishers crash and whatever XADDs  *)
(* fail, a row marked published is in the stream.                          *)
THEOREM NoLoss == Spec => []PublishedIsInStream
<1>1. Init => PublishedIsInStream
  BY DEF Init, PublishedIsInStream, Claimed
<1>. QED
  BY <1>1, NoLossStep, TypeCorrect, PTL DEF Spec

-----------------------------------------------------------------------------
(* There are never more than N * batch_size permits, and fewer permits are *)
(* a smaller number.                                                       *)
LEMMA PermitSets ==
  ASSUME NEW S, S \subseteq Publisher \X (1 .. BatchSize)
  PROVE  /\ IsFiniteSet(S) /\ Cardinality(S) \in Nat
         /\ Cardinality(S) <= Cardinality(Publisher) * BatchSize
         /\ Cardinality(Publisher) * BatchSize \in Nat
<1>1. IsFiniteSet(1 .. BatchSize) /\ Cardinality(1 .. BatchSize) = BatchSize
  BY PublisherAssumption, FS_Interval
<1>2. /\ IsFiniteSet(Publisher \X (1 .. BatchSize))
      /\ Cardinality(Publisher \X (1 .. BatchSize)) = Cardinality(Publisher) * BatchSize
  BY <1>1, PublisherAssumption, FS_Product
<1>3. IsFiniteSet(S) /\ Cardinality(S) <= Cardinality(Publisher \X (1 .. BatchSize))
  BY <1>2, FS_Subset
<1>. QED
  BY <1>2, <1>3, FS_CardinalityType

(* There are at most as many permits as a batch has rows for each          *)
(* publisher.                                                              *)
LEMMA PermitCount ==
  /\ IsFiniteSet(Permits) /\ Cardinality(Permits) \in Nat
  /\ Cardinality(Permits') \in Nat
  /\ Cardinality(Permits') <= Cardinality(Publisher) * BatchSize
  /\ Cardinality(Publisher) * BatchSize \in Nat
<1>1. /\ Permits \subseteq Publisher \X (1 .. BatchSize)
      /\ Permits' \subseteq Publisher \X (1 .. BatchSize)
  BY DEF Permits
<1>. QED
  BY <1>1, PermitSets

(* No permits that are new, no more of them.                               *)
LEMMA FewerPermits ==
  ASSUME Permits' \subseteq Permits
  PROVE  Cardinality(Permits') <= Cardinality(Permits)
BY PermitCount, FS_Subset

(* An XADD spends one permit.                                              *)
LEMMA PermitSpent ==
  ASSUME NEW t \in Permits, Permits' \subseteq Permits \ {t}
  PROVE  Cardinality(Permits') <= Cardinality(Permits) - 1
<1>1. IsFiniteSet(Permits \ {t}) /\ Cardinality(Permits \ {t}) = Cardinality(Permits) - 1
  BY PermitCount, FS_RemoveElement
<1>. QED
  BY <1>1, FS_Subset

(* The pending list of a group is finite.                                  *)
LEMMA PendingSets ==
  ASSUME NEW n \in Nat, NEW S, S \subseteq 1 .. n
  PROVE  IsFiniteSet(S) /\ Cardinality(S) \in Nat
<1>1. IsFiniteSet(1 .. n)
  BY FS_Interval
<1>. QED
  BY <1>1, FS_Subset, FS_CardinalityType

(* What is pending for a group can be counted.                             *)
LEMMA PendingFinite ==
  ASSUME TypeOK, NEW g \in Group
  PROVE  IsFiniteSet(pel[g]) /\ Cardinality(pel[g]) \in Nat /\ Inflight(g) \in Int
<1>1. lastId[g] \in Nat /\ Len(stream) \in Nat /\ pel[g] \subseteq 1 .. lastId[g]
  BY DEF TypeOK
<1>. QED
  BY <1>1, PendingSets DEF Inflight

(* Delivering and acknowledging never raise pending + lag.                 *)
LEMMA ConsumersLowerInflight ==
  ASSUME TypeOK, NEW h \in Group,
         \E g \in Group : (\E n \in Entry : Deliver(g, n)) \/ (\E e \in pel[g] : Acknowledge(g, e))
  PROVE  Inflight(h)' <= Inflight(h)
<1>1. ASSUME NEW n \in Entry, Deliver(h, n)
      PROVE  Inflight(h)' <= Inflight(h)
  <2> DEFINE new == lastId[h] + 1 .. n
  <2>1. /\ lastId[h] \in Nat /\ n \in Nat /\ n > lastId[h] /\ Len(stream) \in Nat
        /\ pel'[h] = pel[h] \cup new /\ lastId'[h] = n /\ stream' = stream
    BY <1>1 DEF Deliver, Entry, TypeOK
  <2>2. IsFiniteSet(new) /\ Cardinality(new) = n - lastId[h]
    <3>1. lastId[h] + 1 \in Int /\ n \in Int
      BY <2>1
    <3>2. /\ IsFiniteSet(new)
          /\ Cardinality(new) = IF lastId[h] + 1 > n THEN 0 ELSE n - (lastId[h] + 1) + 1
      BY <3>1, FS_Interval
    <3>. QED
      BY <2>1, <3>2
  <2>3. pel[h] \cap new = {}
    BY <2>1 DEF TypeOK
  <2>4. Cardinality(pel[h] \cup new) = Cardinality(pel[h]) + Cardinality(new) - Cardinality(pel[h] \cap new)
    BY <2>2, PendingFinite, FS_Union
  <2>5. Cardinality(pel'[h]) = Cardinality(pel[h]) + (n - lastId[h])
    <3> HIDE DEF new
    <3>1. Cardinality(pel[h] \cap new) = 0
      BY <2>3, FS_EmptySet
    <3>. QED
      BY <2>1, <2>2, <2>4, <3>1, PendingFinite
  <2>. QED
    BY <2>1, <2>5, PendingFinite DEF Inflight
<1>2. ASSUME NEW e \in pel[h], Acknowledge(h, e)
      PROVE  Inflight(h)' <= Inflight(h)
  <2>1. /\ pel'[h] = pel[h] \ {e} /\ lastId' = lastId /\ stream' = stream
        /\ lastId[h] \in Nat /\ Len(stream) \in Nat
    BY <1>2 DEF Acknowledge, TypeOK
  <2>2. IsFiniteSet(pel[h]) /\ Cardinality(pel[h]) \in Nat
    BY PendingFinite
  <2>3. Cardinality(pel[h] \ {e}) = Cardinality(pel[h]) - 1
    BY <2>2, FS_RemoveElement
  <2>. QED
    BY <2>1, <2>2, <2>3 DEF Inflight
<1>3. ASSUME NEW g \in Group, g # h,
             (\E n \in Entry : Deliver(g, n)) \/ (\E e \in pel[g] : Acknowledge(g, e))
      PROVE  Inflight(h)' <= Inflight(h)
  <2>1. pel'[h] = pel[h] /\ lastId'[h] = lastId[h] /\ stream' = stream
    BY <1>3 DEF Deliver, Acknowledge, TypeOK
  <2>. QED
    BY <2>1, PendingFinite DEF Inflight
<1>. QED
  BY <1>1, <1>2, <1>3

(* No step takes inflight work plus outstanding permits of a founding      *)
(* group above the bound: the check admits a full batch per publisher and  *)
(* starts below the limit, an XADD turns a permit into inflight work, and  *)
(* everything else lowers the one or the other.                            *)
LEMMA PermitStep == TypeOK /\ PermitInv /\ [Next]_vars => PermitInv'
<1> SUFFICES ASSUME TypeOK, PermitInv, [Next]_vars, NEW g \in founding'
             PROVE  Inflight(g)' + Cardinality(Permits') <= OvershootBound
  BY DEF PermitInv, OvershootBound
<1>0. /\ g \in Group /\ Inflight(g) \in Int /\ Inflight(g)' \in Int
      /\ MaxInflight \in Nat \ {0} /\ OvershootBound \in Int
      /\ OvershootBound = (MaxInflight - 1) + Cardinality(Publisher) * BatchSize
  <2>1. TypeOK'
    BY TypeStep
  <2>2. g \in Group
    BY <2>1 DEF TypeOK
  <2>3. lastId'[g] \in Nat /\ Len(stream') \in Nat /\ pel'[g] \subseteq 1 .. lastId'[g]
    BY <2>1, <2>2 DEF TypeOK
  <2>4. Inflight(g)' \in Int
    BY <2>3, PendingSets DEF Inflight
  <2>. QED
    BY <2>2, <2>4, PendingFinite, PermitCount, PublisherAssumption DEF OvershootBound
<1> HIDE DEF OvershootBound
<1>1. ASSUME Inflight(g)' <= Inflight(g), g \in founding,
             Cardinality(Permits') <= Cardinality(Permits)
      PROVE  Inflight(g)' + Cardinality(Permits') <= OvershootBound
  BY <1>0, <1>1, PermitCount DEF PermitInv
<1>2. ASSUME NEW p \in Publisher, CheckInflight(p)
      PROVE  Inflight(g)' + Cardinality(Permits') <= OvershootBound
  <2>1. Inflight(g)' = Inflight(g) /\ Inflight(g) < MaxInflight
    BY <1>2 DEF CheckInflight, CheckPasses, BelowLimit, Inflight, streamVars, TypeOK
  <2>. QED
    BY <2>1, <1>0, PermitCount
<1>3. ASSUME NEW p \in Publisher, LockBatch(p)
      PROVE  Inflight(g)' + Cardinality(Permits') <= OvershootBound
  <2>1. Permits' \subseteq Permits
    BY <1>3 DEF LockBatch, Permits, TypeOK
  <2>2. Inflight(g)' = Inflight(g) /\ g \in founding
    BY <1>3 DEF LockBatch, Inflight, streamVars
  <2>. QED
    BY <2>1, <2>2, <1>0, <1>1, FewerPermits
<1>4. ASSUME NEW p \in Publisher, Xadd(p) \/ XaddFails(p)
      PROVE  Inflight(g)' + Cardinality(Permits') <= OvershootBound
  <2>1. PICK r \in Row : r = Least(todo[p]) /\ r \in todo[p]
    BY <1>4, LeastOfTodo DEF Xadd, XaddFails
  <2>2. /\ Cardinality(todo[p]) \in 1 .. BatchSize
        /\ Cardinality(todo[p] \ {r}) = Cardinality(todo[p]) - 1
        /\ Cardinality({}) = 0
    <3>1. todo[p] \in SUBSET Row /\ Cardinality(todo[p]) <= BatchSize
      BY DEF TypeOK
    <3>2. /\ Cardinality(todo[p]) \in Nat /\ Cardinality(todo[p] \ {r}) \in Nat
          /\ Cardinality(todo[p] \ {r}) = Cardinality(todo[p]) - 1
      BY <3>1, <2>1, RowSets
    <3>. QED
      BY <3>1, <3>2, FS_EmptySet, PublisherAssumption
  <2>3. PICK k \in 1 .. BatchSize : k = Cardinality(todo[p])
    BY <2>2
  <2>4. <<p, k>> \in Permits
    BY <1>4, <2>3 DEF Permits, Xadd, XaddFails
  <2>5. Permits' \subseteq Permits \ {<<p, k>>}
    <3>1. \/ todo' = [todo EXCEPT ![p] = @ \ {r}]
          \/ todo' = [todo EXCEPT ![p] = {}]
      BY <1>4, <2>1 DEF Xadd, XaddFails
    <3>2. pc' = pc /\ pc[p] = "publishing"
      BY <1>4 DEF Xadd, XaddFails
    <3>3. Cardinality(todo'[p]) < k /\ Cardinality(todo'[p]) \in Nat
      <4>1. todo'[p] = todo[p] \ {r} \/ todo'[p] = {}
        BY <3>1 DEF TypeOK
      <4>2. Cardinality(todo'[p]) = k - 1 \/ Cardinality(todo'[p]) = 0
        BY <4>1, <2>2, <2>3
      <4>. QED
        BY <4>2
    <3>4. \A q \in Publisher \ {p} : todo'[q] = todo[q]
      BY <3>1 DEF TypeOK
    <3>5. ASSUME NEW t \in Permits'
          PROVE  t \in Permits /\ t # <<p, k>>
      <4>1. PICK q \in Publisher, j \in 1 .. BatchSize : t = <<q, j>>
        BY <3>5 DEF Permits
      <4>2. CASE q = p
        BY <4>1, <4>2, <3>2, <3>3, <3>5, <2>3 DEF Permits
      <4>3. CASE q # p
        BY <4>1, <4>3, <3>2, <3>4, <3>5 DEF Permits
      <4>. QED
        BY <4>2, <4>3
    <3>. QED
      BY <3>5
  <2>6. Cardinality(Permits') <= Cardinality(Permits) - 1
    BY <2>4, <2>5, PermitSpent
  <2>7. g \in founding /\ Inflight(g)' <= Inflight(g) + 1
    <3>1. Append1(r) \/ UNCHANGED streamVars
      BY <1>4, <2>1 DEF Xadd, XaddFails
    <3>2. CASE Append1(r)
      <4>1. /\ Len(stream') = Len(stream) + 1
            /\ UNCHANGED <<founding, lastId, pel>>
        BY <3>2, AppendKeepsGroups, <1>4 DEF Xadd, XaddFails, Append1, streamVars
      <4>2. Len(stream) \in Nat /\ lastId[g] \in Nat /\ Cardinality(pel[g]) \in Nat
        BY <1>0, PendingFinite DEF TypeOK
      <4>. QED
        BY <4>1, <4>2 DEF Inflight
    <3>3. CASE UNCHANGED streamVars
      BY <3>3, <1>0 DEF Inflight, streamVars
    <3>. QED
      BY <3>1, <3>2, <3>3
  <2>. QED
    BY <2>6, <2>7, <1>0, PermitCount DEF PermitInv
<1>5. ASSUME NEW p \in Publisher, CommitBatch(p) \/ Crash(p)
      PROVE  Inflight(g)' + Cardinality(Permits') <= OvershootBound
  <2>1. Permits' \subseteq Permits
    BY <1>5 DEF CommitBatch, Crash, EndTransaction, Permits, TypeOK
  <2>2. Inflight(g)' = Inflight(g) /\ g \in founding
    BY <1>5 DEF CommitBatch, Crash, Inflight, streamVars
  <2>. QED
    BY <2>1, <2>2, <1>0, <1>1, FewerPermits
<1>6. ASSUME NEW h \in Group, EnsureGroup(h)
      PROVE  Inflight(g)' + Cardinality(Permits') <= OvershootBound
  <2>1. Permits' = Permits /\ Inflight(g)' = Inflight(g)
    BY <1>6 DEF EnsureGroup, Permits, Inflight, pubVars
  <2>2. CASE g \in founding
    BY <2>1, <2>2, <1>0, <1>1, PermitCount
  <2>3. CASE g \notin founding
    <3>1. stream = <<>>
      BY <1>6, <2>3 DEF EnsureGroup
    <3>2. Len(stream) = 0 /\ lastId[g] = 0 /\ pel[g] = {}
      BY <3>1, <1>0 DEF TypeOK
    <3>3. Inflight(g) = 0
      BY <3>2, FS_EmptySet DEF Inflight
    <3>. QED
      BY <3>3, <2>1, <1>0, PermitCount, PublisherAssumption
  <2>. QED
    BY <2>2, <2>3
<1>7. ASSUME NEW h \in Group,
             (\E n \in Entry : Deliver(h, n)) \/ (\E e \in pel[h] : Acknowledge(h, e))
      PROVE  Inflight(g)' + Cardinality(Permits') <= OvershootBound
  <2>1. Permits' = Permits /\ g \in founding
    BY <1>7 DEF Deliver, Acknowledge, Permits, pubVars
  <2>2. Inflight(g)' <= Inflight(g)
    BY <1>7, <1>0, ConsumersLowerInflight
  <2>. QED
    BY <2>1, <2>2, <1>0, <1>1, PermitCount
<1>8. CASE UNCHANGED <<streamVars, pc, todo>>
  <2>1. Permits' = Permits /\ g \in founding /\ Inflight(g)' = Inflight(g)
    BY <1>8 DEF Permits, streamVars, Inflight
  <2>. QED
    BY <2>1, <1>0, <1>1, PermitCount
<1>. QED
  BY <1>2, <1>3, <1>4, <1>5, <1>6, <1>7, <1>8
     DEF Next, PublisherStep, Environment, CommitRow, CheckFails, vars, pubVars

(* max_inflight_messages is exceeded by at most one batch per publisher,   *)
(* for every group that has followed the stream from its first entry.      *)
THEOREM Overshoot == Spec => []BoundedOvershoot
<1>1. Init => PermitInv
  BY DEF Init, PermitInv
<1>2. TypeOK /\ PermitInv => BoundedOvershoot
  <2> SUFFICES ASSUME TypeOK, PermitInv, NEW g \in founding
               PROVE  Inflight(g) <= OvershootBound
    BY DEF BoundedOvershoot
  <2>1. Inflight(g) \in Int /\ OvershootBound \in Int
    BY PendingFinite, PermitCount, PublisherAssumption DEF TypeOK, OvershootBound
  <2>. QED
    BY <2>1, PermitCount DEF PermitInv
<1>. QED
  BY <1>1, <1>2, PermitStep, TypeCorrect, PTL DEF Spec

-----------------------------------------------------------------------------
(* Row locks: a step of one publisher never makes it hold a row of another *)
(* one, and the rows it holds stay unpublished until it commits.           *)
LEMMA HeldStep == TypeOK /\ HeldOnce /\ [Next]_vars => HeldOnce'
<1> SUFFICES ASSUME TypeOK, HeldOnce, [Next]_vars
             PROVE  HeldOnce'
  OBVIOUS
<1>1. ASSUME UNCHANGED row, NEW p \in Publisher,
             \A q \in Publisher \ {p} : Held(q)' = Held(q) /\ todo'[q] = todo[q]
                                       /\ sent'[q] = sent[q] /\ erred'[q] = erred[q],
             Held(p)' \subseteq Held(p),
             todo'[p] \cap sent'[p] = {}, todo'[p] \cap erred'[p] = {}, sent'[p] \cap erred'[p] = {}
      PROVE  HeldOnce'
  <2>1. Unpublished' = Unpublished
    BY <1>1 DEF Unpublished
  <2>2. \A q \in Publisher : Held(q)' \subseteq Held(q) /\ Held(q)' \subseteq Unpublished'
    BY <1>1, <2>1 DEF HeldOnce
  <2>3. \A q, t \in Publisher : q # t => Held(q)' \cap Held(t)' = {}
    BY <2>2 DEF HeldOnce
  <2>4. \A q \in Publisher : /\ todo'[q] \cap sent'[q] = {} /\ todo'[q] \cap erred'[q] = {}
                             /\ sent'[q] \cap erred'[q] = {}
    BY <1>1 DEF HeldOnce
  <2>. QED
    BY <2>2, <2>3, <2>4 DEF HeldOnce
<1>2. ASSUME NEW p \in Publisher, LockBatch(p)
      PROVE  HeldOnce'
  <2>1. PICK S \in SUBSET Available : todo' = [todo EXCEPT ![p] = S]
    BY <1>2 DEF LockBatch
  <2>2. UNCHANGED <<row, sent, erred>> /\ sent[p] = {} /\ erred[p] = {}
    BY <1>2 DEF LockBatch, TypeOK
  <2>3. Held(p)' = S /\ todo'[p] = S /\ \A q \in Publisher \ {p} : todo'[q] = todo[q] /\ Held(q)' = Held(q)
    BY <2>1, <2>2 DEF Held, TypeOK
  <2>4. S \subseteq Unpublished /\ \A q \in Publisher : S \cap Held(q) = {}
    BY DEF Available, Locked
  <2>. QED
    BY <2>2, <2>3, <2>4 DEF HeldOnce, Unpublished
<1>3. ASSUME NEW p \in Publisher, Xadd(p)
      PROVE  HeldOnce'
  <2>1. PICK r \in todo[p] : r = Least(todo[p])
    BY <1>3, LeastOfTodo DEF Xadd
  <2>2. /\ todo' = [todo EXCEPT ![p] = @ \ {r}] /\ sent' = [sent EXCEPT ![p] = @ \cup {r}]
        /\ UNCHANGED <<row, erred>>
    BY <1>3, <2>1 DEF Xadd
  <2>3. /\ todo'[p] = todo[p] \ {r} /\ sent'[p] = sent[p] \cup {r} /\ erred'[p] = erred[p]
        /\ \A q \in Publisher \ {p} : /\ Held(q)' = Held(q) /\ todo'[q] = todo[q]
                                     /\ sent'[q] = sent[q] /\ erred'[q] = erred[q]
    BY <2>2 DEF Held, TypeOK
  <2>4. Held(p)' \subseteq Held(p)
    BY <2>1, <2>3 DEF Held
  <2>5. todo[p] \cap sent[p] = {} /\ todo[p] \cap erred[p] = {} /\ sent[p] \cap erred[p] = {}
    BY DEF HeldOnce
  <2>. QED
    BY <2>1, <2>2, <2>3, <2>4, <2>5, <1>1
<1>4. ASSUME NEW p \in Publisher, XaddFails(p)
      PROVE  HeldOnce'
  <2>1. PICK r \in todo[p] : r = Least(todo[p])
    BY <1>4, LeastOfTodo DEF XaddFails
  <2>2. /\ todo' = [todo EXCEPT ![p] = {}] /\ erred' = [erred EXCEPT ![p] = {r}]
        /\ UNCHANGED <<row, sent>>
    BY <1>4, <2>1 DEF XaddFails
  <2>3. /\ todo'[p] = {} /\ sent'[p] = sent[p] /\ erred'[p] = {r}
        /\ \A q \in Publisher \ {p} : /\ Held(q)' = Held(q) /\ todo'[q] = todo[q]
                                     /\ sent'[q] = sent[q] /\ erred'[q] = erred[q]
    BY <2>2 DEF Held, TypeOK
  <2>4. Held(p)' \subseteq Held(p)
    BY <2>1, <2>3 DEF Held
  <2>5. r \notin sent[p]
    BY <2>1 DEF HeldOnce
  <2>. QED
    BY <2>2, <2>3, <2>4, <2>5, <1>1
<1>5. ASSUME NEW p \in Publisher, CommitBatch(p)
      PROVE  HeldOnce'
  <2>1. /\ \A q \in Publisher \ {p} : /\ todo'[q] = todo[q] /\ sent'[q] = sent[q]
                                     /\ erred'[q] = erred[q] /\ Held(q)' = Held(q)
        /\ todo'[p] = {} /\ sent'[p] = {} /\ erred'[p] = {} /\ Held(p)' = {}
    BY <1>5 DEF CommitBatch, EndTransaction, Held, TypeOK
  <2>2. \A r \in Row : r \notin Held(p) => row'[r] = row[r]
    BY <1>5 DEF CommitBatch, RowAfterCommit, Held
  <2>3. \A q \in Publisher \ {p} : Held(q)' \subseteq Unpublished'
    BY <2>1, <2>2 DEF HeldOnce, Unpublished
  <2>. QED
    BY <2>1, <2>3 DEF HeldOnce
<1>6. ASSUME NEW p \in Publisher, Crash(p)
      PROVE  HeldOnce'
  BY <1>6, <1>1 DEF Crash, EndTransaction, Held, TypeOK
<1>7. ASSUME NEW r \in Row, CommitRow(r)
      PROVE  HeldOnce'
  BY <1>7 DEF CommitRow, pubVars, HeldOnce, Held, Unpublished, TypeOK
<1>8. CASE UNCHANGED <<row, todo, sent, erred>>
  BY <1>8 DEF HeldOnce, Held, Unpublished
<1>. QED
  BY <1>2, <1>3, <1>4, <1>5, <1>6, <1>7, <1>8
     DEF Next, PublisherStep, Environment, CheckInflight, CheckFails,
         EnsureGroup, Deliver, Acknowledge, vars, pubVars

(* The positions at which a row stands are finitely many.                  *)
LEMMA CopySets ==
  ASSUME TypeOK, NEW r \in Row
  PROVE  /\ IsFiniteSet(Copies(r)) /\ Cardinality(Copies(r)) \in Nat
         /\ faults \in Nat
<1>1. Len(stream) \in Nat /\ Copies(r) \subseteq 1 .. Len(stream)
  BY DEF TypeOK, Copies, Entry
<1>. QED
  BY <1>1, PendingSets, PublisherAssumption DEF TypeOK

(* So an append adds one to the number of copies of its row.               *)
LEMMA AppendAddsOneCopy ==
  ASSUME TypeOK, NEW r \in Row, Append1(r)
  PROVE  /\ Cardinality(Copies(r)') = Cardinality(Copies(r)) + 1
         /\ \A s \in Row \ {r} : Copies(s)' = Copies(s)
<1>1. /\ Copies(r)' = Copies(r) \cup {Len(stream) + 1}
      /\ Len(stream) + 1 \notin Copies(r)
      /\ \A s \in Row \ {r} : Copies(s)' = Copies(s)
  BY AppendKeepsCopies
<1>2. IsFiniteSet(Copies(r))
  BY CopySets
<1>3. Cardinality(Copies(r) \cup {Len(stream) + 1}) = Cardinality(Copies(r)) + 1
  BY <1>1, <1>2, FS_AddElement
<1>. QED
  BY <1>1, <1>3

(* A copy is appended either by the one publisher that then claims the     *)
(* row, which nobody did before, or together with a failure.               *)
LEMMA CopiesStep == TypeOK /\ HeldOnce /\ CopiesOwed /\ [Next]_vars => CopiesOwed'
<1> SUFFICES ASSUME TypeOK, HeldOnce, CopiesOwed, [Next]_vars, NEW s \in Row
             PROVE  Cardinality(Copies(s)') <= faults' + (IF Claimed(s)' THEN 1 ELSE 0)
  BY DEF CopiesOwed
<1>0. /\ Cardinality(Copies(s)) \in Nat /\ faults \in Nat
      /\ Cardinality(Copies(s)) <= faults + (IF Claimed(s) THEN 1 ELSE 0)
  BY CopySets DEF CopiesOwed
<1> DEFINE Goal == Cardinality(Copies(s)') <= faults' + (IF Claimed(s)' THEN 1 ELSE 0)
<1>1. ASSUME UNCHANGED stream, UNCHANGED faults \/ faults' = faults + 1,
             Claimed(s) => Claimed(s)' \/ faults' = faults + 1
      PROVE  Goal
  <2>1. Copies(s)' = Copies(s)
    BY <1>1 DEF Copies, Entry
  <2>. QED
    BY <2>1, <1>0, <1>1
<1>2. ASSUME NEW p \in Publisher, todo[p] # {}
      PROVE  ~ Claimed(Least(todo[p]))
  <2>1. PICK r \in todo[p] : r = Least(todo[p])
    BY <1>2, LeastOfTodo
  <2>2. row[r] # "published" /\ \A q \in Publisher : r \notin sent[q]
    BY <2>1 DEF HeldOnce, Held, Unpublished
  <2>. QED
    BY <2>1, <2>2 DEF Claimed
<1>3. ASSUME NEW p \in Publisher, Xadd(p)
      PROVE  Goal
  <2>1. PICK r \in Row : r = Least(todo[p])
    BY <1>3, LeastOfTodo DEF Xadd
  <2>2. /\ Append1(r) /\ sent' = [sent EXCEPT ![p] = @ \cup {r}]
        /\ UNCHANGED <<row, faults>> /\ ~ Claimed(r)
    BY <1>2, <1>3, <2>1 DEF Xadd
  <2>3. Claimed(r)' /\ (Claimed(s) => Claimed(s)')
    BY <2>2 DEF Claimed, TypeOK
  <2>4. CASE s = r
    BY <2>2, <2>3, <2>4, <1>0, AppendAddsOneCopy
  <2>5. CASE s # r
    <3>1. Copies(s)' = Copies(s)
      BY <2>2, <2>5, AppendAddsOneCopy
    <3>. QED
      BY <3>1, <2>2, <2>3, <1>0
  <2>. QED
    BY <2>4, <2>5
<1>4. ASSUME NEW p \in Publisher, XaddFails(p)
      PROVE  Goal
  <2>1. PICK r \in Row : r = Least(todo[p])
    BY <1>4, LeastOfTodo DEF XaddFails
  <2>2. /\ Append1(r) \/ UNCHANGED streamVars
        /\ faults' = faults + 1 /\ ~ Claimed(r)
    BY <1>2, <1>4, <2>1 DEF XaddFails
  <2>3. CASE Append1(r) /\ s = r
    BY <2>2, <2>3, <1>0, AppendAddsOneCopy
  <2>4. CASE Append1(r) /\ s # r
    <3>1. Copies(s)' = Copies(s)
      BY <2>4, AppendAddsOneCopy
    <3>. QED
      BY <3>1, <2>2, <1>0
  <2>5. CASE UNCHANGED streamVars
    BY <2>2, <2>5, <1>1 DEF streamVars
  <2>. QED
    BY <2>2, <2>3, <2>4, <2>5
<1>5. ASSUME NEW p \in Publisher, CommitBatch(p)
      PROVE  Goal
  <2>1. /\ \A q \in Publisher \ {p} : sent'[q] = sent[q]
        /\ s \in sent[p] => row'[s] = "published"
        /\ row[s] = "published" => row'[s] = "published"
    BY <1>5 DEF CommitBatch, RowAfterCommit, EndTransaction, TypeOK, HeldOnce, Held, Unpublished
  <2>2. Claimed(s) => Claimed(s)'
    BY <2>1 DEF Claimed
  <2>. QED
    BY <1>5, <2>2, <1>1 DEF CommitBatch, streamVars
<1>6. ASSUME NEW p \in Publisher, Crash(p)
      PROVE  Goal
  BY <1>6, <1>1 DEF Crash, streamVars
<1>7. ASSUME NEW r \in Row, CommitRow(r)
      PROVE  Goal
  <2>1. Claimed(s) => Claimed(s)'
    BY <1>7 DEF CommitRow, Claimed, pubVars, TypeOK
  <2>. QED
    BY <1>7, <2>1, <1>1 DEF CommitRow, streamVars
<1>8. ASSUME UNCHANGED <<row, stream, sent>>, UNCHANGED faults \/ faults' = faults + 1
      PROVE  Goal
  BY <1>8, <1>1 DEF Claimed
<1>. QED
  BY <1>3, <1>4, <1>5, <1>6, <1>7, <1>8
     DEF Next, PublisherStep, Environment, CheckInflight, CheckFails, LockBatch,
         EnsureGroup, Deliver, Acknowledge, vars, streamVars, pubVars

(* Any number of cooperating publishers append a row again only after a    *)
(* failure: there is at most one copy more than failures.                  *)
THEOREM Duplicates == Spec => []DuplicatesAreFaults
<1>1. Init => HeldOnce /\ CopiesOwed
  <2>1. ASSUME Init, NEW r \in Row
        PROVE  Copies(r) = {} /\ faults = 0 /\ ~ Claimed(r)
    BY <2>1 DEF Init, Copies, Entry, Claimed
  <2>2. Init => HeldOnce
    BY DEF Init, HeldOnce, Held
  <2>3. Init => CopiesOwed
    BY <2>1, FS_EmptySet DEF CopiesOwed
  <2>. QED
    BY <2>2, <2>3
<1>2. TypeOK /\ CopiesOwed => DuplicatesAreFaults
  <2> SUFFICES ASSUME TypeOK, CopiesOwed, NEW r \in Row
               PROVE  Cardinality(Copies(r)) <= 1 + faults
    BY DEF DuplicatesAreFaults
  <2>. QED
    BY CopySets DEF CopiesOwed
<1>. QED
  BY <1>1, <1>2, HeldStep, CopiesStep, TypeCorrect, PTL DEF Spec
=============================================================================
