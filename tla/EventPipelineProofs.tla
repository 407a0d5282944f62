------------------------- MODULE EventPipelineProofs -------------------------
(***************************************************************************)
(* What holds of the pipeline processes for every number of processes and  *)
(* every list of consumer groups: the publisher and the workers, put       *)
(* together, are the publisher and the workers of the theorems about them, *)
(* and so no event is lost from its outbox row to the last handler.        *)
(***************************************************************************)
EXTENDS EventPipeline, FiniteSetTheorems, TLAPS

PubProofs == INSTANCE OutboxPublisherProofs WITH Publisher <- Process

WrkProofs == INSTANCE StreamWorkersProofs WITH
  groupOf <- [w \in Worker |-> w[2]],
  MaxEntries <- Cardinality(Row) * (1 + MaxFaults), MaxFaults <- MaxWFaults

(* The constants meet what the theorems about the parts assume.            *)
LEMMA FinitelyManyWorkers ==
  /\ IsFiniteSet(Group) /\ IsFiniteSet(Worker)
  /\ Cardinality(Row) * (1 + MaxFaults) \in Nat
<1>1. Len(Groups) \in Nat /\ DOMAIN Groups = 1 .. Len(Groups) /\ Groups \in [1 .. Len(Groups) -> Group]
  BY PipelineAssumption
<1>2. IsFiniteSet(1 .. Len(Groups))
  BY <1>1, FS_Interval
<1>3. Groups \in Surjection(1 .. Len(Groups), Group)
  BY <1>1 DEF Surjection, Group
<1>4. IsFiniteSet(Group)
  BY <1>2, <1>3, FS_Surjection
<1>5. IsFiniteSet(Worker)
  BY <1>4, PipelineAssumption, FS_Product DEF Worker
<1>6. Cardinality(Row) \in Nat /\ MaxFaults \in Nat
  BY PipelineAssumption, FS_CardinalityType
<1>. QED
  BY <1>4, <1>5, <1>6

(* The instances mean the same by the size of a set.                       *)
LEMMA SameSizes ==
  \A S : /\ Pub!Cardinality(S) = Cardinality(S) /\ PubProofs!Cardinality(S) = Cardinality(S)
         /\ Wrk!Cardinality(S) = Cardinality(S) /\ WrkProofs!Cardinality(S) = Cardinality(S)
BY DEF Cardinality, Pub!Cardinality, PubProofs!Cardinality, Wrk!Cardinality, WrkProofs!Cardinality

(* The constants of the publisher's instance meet its assumption.          *)
LEMMA PublisherConstants == PubProofs!PublisherAssumption
<1>1. \A S : PubProofs!IsFiniteSet(S) <=> IsFiniteSet(S)
  BY DEF IsFiniteSet, PubProofs!IsFiniteSet
<1>. QED
  BY <1>1, PipelineAssumption DEF PubProofs!PublisherAssumption

(* And those of the workers' instance.                                     *)
LEMMA WorkersConstants == WrkProofs!WorkersAssumption
<1>1. \A S : WrkProofs!IsFiniteSet(S) <=> IsFiniteSet(S)
  BY DEF IsFiniteSet, WrkProofs!IsFiniteSet
<1>2. [w \in Worker |-> w[2]] \in [Worker -> Group]
  BY DEF Worker
<1>. QED
  BY <1>1, <1>2, SameSizes, FinitelyManyWorkers, PipelineAssumption DEF WrkProofs!WorkersAssumption

-----------------------------------------------------------------------------
(* The parts of EventPipeline are the ones the theorems are about: the two *)
(* instances of a module say the same, action by action.                   *)
LEMMA PubCommitRow == \A r : Pub!CommitRow(r) <=> PubProofs!CommitRow(r)
BY SameSizes DEF Pub!CommitRow, PubProofs!CommitRow, Pub!streamVars, PubProofs!streamVars, Pub!pubVars,
  PubProofs!pubVars

LEMMA PubCheckInflight == \A p : Pub!CheckInflight(p) <=> PubProofs!CheckInflight(p)
BY SameSizes DEF Pub!CheckInflight, PubProofs!CheckInflight, Pub!CheckPasses, PubProofs!CheckPasses,
  Pub!BelowLimit, PubProofs!BelowLimit, Pub!Inflight, PubProofs!Inflight, Pub!streamVars,
  PubProofs!streamVars, Pub!pubVars, PubProofs!pubVars

LEMMA PubCheckFails == \A p : Pub!CheckFails(p) <=> PubProofs!CheckFails(p)
BY SameSizes DEF Pub!CheckFails, PubProofs!CheckFails, Pub!streamVars, PubProofs!streamVars, Pub!pubVars,
  PubProofs!pubVars

LEMMA PubLockBatch == \A p : Pub!LockBatch(p) <=> PubProofs!LockBatch(p)
BY SameSizes DEF Pub!LockBatch, PubProofs!LockBatch, Pub!Available, PubProofs!Available, Pub!Unpublished,
  PubProofs!Unpublished, Pub!Locked, PubProofs!Locked, Pub!Held, PubProofs!Held, Pub!IsFirstOf,
  PubProofs!IsFirstOf, Pub!streamVars, PubProofs!streamVars, Pub!pubVars, PubProofs!pubVars

LEMMA PubXadd == \A p : Pub!Xadd(p) <=> PubProofs!Xadd(p)
BY SameSizes DEF Pub!Xadd, PubProofs!Xadd, Pub!Append1, PubProofs!Append1, Pub!Least, PubProofs!Least,
  Pub!streamVars, PubProofs!streamVars, Pub!pubVars, PubProofs!pubVars

LEMMA PubXaddFails == \A p : Pub!XaddFails(p) <=> PubProofs!XaddFails(p)
BY SameSizes DEF Pub!XaddFails, PubProofs!XaddFails, Pub!Append1, PubProofs!Append1, Pub!Least, PubProofs!Least,
  Pub!streamVars, PubProofs!streamVars, Pub!pubVars, PubProofs!pubVars

LEMMA PubCommitBatch == \A p : Pub!CommitBatch(p) <=> PubProofs!CommitBatch(p)
BY SameSizes DEF Pub!CommitBatch, PubProofs!CommitBatch, Pub!EndTransaction, PubProofs!EndTransaction,
  Pub!RowAfterCommit, PubProofs!RowAfterCommit, Pub!streamVars, PubProofs!streamVars,
  Pub!pubVars, PubProofs!pubVars

LEMMA PubCrash == \A p : Pub!Crash(p) <=> PubProofs!Crash(p)
BY SameSizes DEF Pub!Crash, PubProofs!Crash, Pub!EndTransaction, PubProofs!EndTransaction, Pub!streamVars,
  PubProofs!streamVars, Pub!pubVars, PubProofs!pubVars

LEMMA PubEnsureGroup == \A g : Pub!EnsureGroup(g) <=> PubProofs!EnsureGroup(g)
BY SameSizes DEF Pub!EnsureGroup, PubProofs!EnsureGroup, Pub!streamVars, PubProofs!streamVars, Pub!pubVars,
  PubProofs!pubVars

LEMMA PubDeliver == \A g, n : Pub!Deliver(g, n) <=> PubProofs!Deliver(g, n)
BY SameSizes DEF Pub!Deliver, PubProofs!Deliver, Pub!streamVars, PubProofs!streamVars, Pub!pubVars,
  PubProofs!pubVars

LEMMA PubAcknowledge == \A g, e : Pub!Acknowledge(g, e) <=> PubProofs!Acknowledge(g, e)
BY SameSizes DEF Pub!Acknowledge, PubProofs!Acknowledge, Pub!streamVars, PubProofs!streamVars, Pub!pubVars,
  PubProofs!pubVars

LEMMA PubNext == [Pub!Next]_(Pub!vars) <=> [PubProofs!Next]_(PubProofs!vars)
BY PubCommitRow, PubCheckInflight, PubCheckFails, PubLockBatch, PubXadd, PubXaddFails,
   PubCommitBatch, PubCrash, PubEnsureGroup, PubDeliver, PubAcknowledge
   DEF Pub!Next, PubProofs!Next, Pub!Environment, PubProofs!Environment,
       Pub!PublisherStep, PubProofs!PublisherStep, Pub!Entry, PubProofs!Entry,
       Pub!vars, PubProofs!vars, Pub!streamVars, PubProofs!streamVars,
       Pub!pubVars, PubProofs!pubVars

LEMMA PubInit == Pub!Init <=> PubProofs!Init
BY DEF Pub!Init, PubProofs!Init

LEMMA PubSpec == Pub!Spec <=> PubProofs!Spec
BY PubNext, PubInit, PTL DEF Pub!Spec, PubProofs!Spec

LEMMA PubTypeOK == Pub!TypeOK <=> PubProofs!TypeOK
BY SameSizes DEF Pub!TypeOK, PubProofs!TypeOK

LEMMA WrkAppendEntry == \A r : Wrk!AppendEntry(r) <=> WrkProofs!AppendEntry(r)
BY SameSizes DEF Wrk!AppendEntry, WrkProofs!AppendEntry, Wrk!groupVars, WrkProofs!groupVars

LEMMA WrkEnsureGroup == \A w : Wrk!EnsureGroup(w) <=> WrkProofs!EnsureGroup(w)
BY SameSizes DEF Wrk!EnsureGroup, WrkProofs!EnsureGroup, Wrk!groupVars, WrkProofs!groupVars

LEMMA WrkClaim == \A w : Wrk!Claim(w) <=> WrkProofs!Claim(w)
BY SameSizes DEF Wrk!Claim, WrkProofs!Claim, Wrk!Deliver, WrkProofs!Deliver, Wrk!Smaller, WrkProofs!Smaller,
  Wrk!EntryId, WrkProofs!EntryId, Wrk!groupVars, WrkProofs!groupVars

LEMMA WrkReadNew == \A w : Wrk!ReadNew(w) <=> WrkProofs!ReadNew(w)
BY SameSizes DEF Wrk!ReadNew, WrkProofs!ReadNew, Wrk!Deliver, WrkProofs!Deliver, Wrk!Smaller, WrkProofs!Smaller,
  Wrk!EntryId, WrkProofs!EntryId, Wrk!groupVars, WrkProofs!groupVars

LEMMA WrkHandlerReturns == \A w : Wrk!HandlerReturns(w) <=> WrkProofs!HandlerReturns(w)
BY SameSizes DEF Wrk!HandlerReturns, WrkProofs!HandlerReturns, Wrk!Current, WrkProofs!Current, Wrk!Least,
  WrkProofs!Least, Wrk!groupVars, WrkProofs!groupVars

LEMMA WrkHandlerRaises == \A w : Wrk!HandlerRaises(w) <=> WrkProofs!HandlerRaises(w)
BY SameSizes DEF Wrk!HandlerRaises, WrkProofs!HandlerRaises, Wrk!groupVars, WrkProofs!groupVars

LEMMA WrkAck == \A w : Wrk!Ack(w) <=> WrkProofs!Ack(w)
BY SameSizes DEF Wrk!Ack, WrkProofs!Ack, Wrk!Xack, WrkProofs!Xack, Wrk!NextMessage, WrkProofs!NextMessage,
  Wrk!Current, WrkProofs!Current, Wrk!Least, WrkProofs!Least, Wrk!groupVars, WrkProofs!groupVars

LEMMA WrkReadCount == \A w : Wrk!ReadCount(w) <=> WrkProofs!ReadCount(w)
BY SameSizes DEF Wrk!ReadCount, WrkProofs!ReadCount, Wrk!DeliveryCount, WrkProofs!DeliveryCount,
  Wrk!NextMessage, WrkProofs!NextMessage, Wrk!Current, WrkProofs!Current, Wrk!Least,
  WrkProofs!Least, Wrk!groupVars, WrkProofs!groupVars

LEMMA WrkDeadLetter == \A w : Wrk!DeadLetter(w) <=> WrkProofs!DeadLetter(w)
BY SameSizes DEF Wrk!DeadLetter, WrkProofs!DeadLetter, Wrk!Xack, WrkProofs!Xack, Wrk!NextMessage,
  WrkProofs!NextMessage, Wrk!Current, WrkProofs!Current, Wrk!Least, WrkProofs!Least,
  Wrk!groupVars, WrkProofs!groupVars

LEMMA WrkAbandon == \A w : Wrk!Abandon(w) <=> WrkProofs!Abandon(w)
BY SameSizes DEF Wrk!Abandon, WrkProofs!Abandon, Wrk!groupVars, WrkProofs!groupVars

LEMMA WrkNext == [Wrk!Next]_(Wrk!vars) <=> [WrkProofs!Next]_(WrkProofs!vars)
BY WrkAppendEntry, WrkEnsureGroup, WrkClaim, WrkReadNew, WrkHandlerReturns, WrkHandlerRaises,
   WrkAck, WrkReadCount, WrkDeadLetter, WrkAbandon
   DEF Wrk!Next, WrkProofs!Next, Wrk!WorkerStep, WrkProofs!WorkerStep,
       Wrk!vars, WrkProofs!vars, Wrk!groupVars, WrkProofs!groupVars

LEMMA WrkInit == Wrk!Init <=> WrkProofs!Init
BY SameSizes DEF Wrk!Init, WrkProofs!Init, Wrk!EntryId, WrkProofs!EntryId

LEMMA WrkSpec == Wrk!Spec <=> WrkProofs!Spec
BY WrkNext, WrkInit, PTL DEF Wrk!Spec, WrkProofs!Spec

LEMMA WrkTypeOK == Wrk!TypeOK <=> WrkProofs!TypeOK
BY SameSizes DEF Wrk!TypeOK, WrkProofs!TypeOK, Wrk!EntryId, WrkProofs!EntryId

-----------------------------------------------------------------------------
(* The publisher's side.  To the publisher, the workers of EventPipeline   *)
(* are the consumers of its environment: they read the next entries and    *)
(* acknowledge pending ones, or do nothing it could notice.                *)
LEMMA ConsumeIsEnvironment ==
  ASSUME Pub!TypeOK, NEW p \in Process, NEW i \in DOMAIN Groups, ConsumeStep(p, i)
  PROVE  [Pub!Next]_(Pub!vars)
<1> DEFINE w == <<p, Groups[i]>>
           g == Groups[i]
<1> USE DEF Pub!vars, Pub!streamVars, Pub!pubVars
<1>1. g \in Group /\ w \in Worker /\ [v \in Worker |-> v[2]][w] = g
  BY DEF Group, Worker
<1>2. UNCHANGED <<row, founding, pc, todo, sent, erred, faults>>
  BY DEF ConsumeStep, pubOwn
<1>3. /\ pel \in [Group -> SUBSET Nat] /\ lastId[g] \in Nat /\ Len(stream) \in Nat
      /\ BatchSize \in Nat \ {0}
  BY <1>1, PipelineAssumption DEF Pub!TypeOK
<1>4. ASSUME Wrk!ReadNew(w)
      PROVE  \E n \in Pub!Entry : Pub!Deliver(g, n)
  <2> DEFINE n == Wrk!Smaller(lastId[g] + BatchSize, Len(stream))
  <2>1. /\ g \in created /\ lastId[g] < Len(stream)
        /\ lastId' = [lastId EXCEPT ![g] = n]
        /\ pel' = [pel EXCEPT ![g] = @ \cup (lastId[g] + 1 .. n)]
        /\ UNCHANGED <<stream, created>>
    BY <1>1, <1>4 DEF Wrk!ReadNew
  <2>2. n \in lastId[g] + 1 .. Len(stream) /\ n \in 1 .. Len(stream)
    BY <1>3, <2>1 DEF Wrk!Smaller
  <2>. QED
    BY <1>2, <2>1, <2>2 DEF Pub!Deliver, Pub!Entry
<1>5. ASSUME Wrk!Xack(w), UNCHANGED <<stream, created, lastId>>
      PROVE  (\E e \in pel[g] : Pub!Acknowledge(g, e)) \/ UNCHANGED Pub!vars
  <2> DEFINE e == Wrk!Current(w)
  <2>1. pel' = [pel EXCEPT ![g] = @ \ {e}]
    BY <1>1, <1>5 DEF Wrk!Xack
  <2>2. CASE e \in pel[g]
    BY <1>2, <1>5, <2>1, <2>2 DEF Pub!Acknowledge
  <2>3. CASE e \notin pel[g]
    <3>1. pel' = pel
      BY <1>3, <2>1, <2>3
    <3>. QED
      BY <1>2, <1>5, <3>1
  <2>. QED
    BY <2>2, <2>3
<1>6. CASE Wrk!ReadNew(w)
  BY <1>1, <1>4, <1>6 DEF Pub!Next, Pub!Environment
<1>7. CASE Wrk!Ack(w) \/ Wrk!DeadLetter(w)
  <2>1. Wrk!Xack(w) /\ UNCHANGED <<stream, created, lastId>>
    BY <1>7 DEF Wrk!Ack, Wrk!DeadLetter
  <2>. QED
    BY <1>1, <1>5, <2>1 DEF Pub!Next, Pub!Environment
<1>8. CASE Wrk!Claim(w) \/ Wrk!HandlerReturns(w) \/ Wrk!HandlerRaises(w) \/ Wrk!ReadCount(w)
  <2>1. UNCHANGED <<stream, created, lastId, pel>>
    BY <1>8 DEF Wrk!Claim, Wrk!HandlerReturns, Wrk!HandlerRaises, Wrk!ReadCount, Wrk!groupVars
  <2>. QED
    BY <1>2, <2>1
<1>. QED
  BY <1>6, <1>7, <1>8 DEF ConsumeStep

(* Each step of the composition is one the publisher, or its environment,  *)
(* may take.                                                               *)
LEMMA PublisherStepFits == Pub!TypeOK /\ [Next]_vars => [Pub!Next]_(Pub!vars)
<1> SUFFICES ASSUME Pub!TypeOK, [Next]_vars
             PROVE  [Pub!Next]_(Pub!vars)
  OBVIOUS
<1> USE DEF Pub!vars, Pub!streamVars, Pub!pubVars
<1>1. ASSUME NEW r \in Row, CommitRow(r)
      PROVE  Pub!Next
  BY <1>1 DEF CommitRow, Pub!Next, Pub!Environment
<1>2. ASSUME NEW p \in Process, NEW i \in DOMAIN Groups, EnsureGroup(p, i)
      PROVE  [Pub!Next]_(Pub!vars)
  <2>1. Groups[i] \in Group
    BY DEF Group
  <2>2. Pub!EnsureGroup(Groups[i]) \/ UNCHANGED <<pubOwn, stream, created, lastId, pel>>
    BY <1>2 DEF EnsureGroup
  <2>. QED
    BY <2>1, <2>2 DEF Pub!Next, Pub!Environment, pubOwn
<1>3. ASSUME NEW p \in Process, PublishStep(p) \/ PublishReturns(p) \/ PublishSkipped(p)
      PROVE  [Pub!Next]_(Pub!vars)
  <2>1. \/ Pub!PublisherStep(p) \/ Pub!XaddFails(p) \/ Pub!CheckFails(p)
        \/ UNCHANGED <<pubOwn, stream, created, lastId, pel>>
    BY <1>3 DEF PublishStep, PublishReturns, PublishSkipped, Pub!PublisherStep
  <2>. QED
    BY <2>1 DEF Pub!Next, pubOwn
<1>4. ASSUME NEW p \in Process, PublishBreaks(p)
      PROVE  Pub!Next
  BY <1>4 DEF PublishBreaks, Pub!Next
<1>5. ASSUME NEW p \in Process, NEW i \in DOMAIN Groups, NothingToConsume(p, i)
      PROVE  UNCHANGED Pub!vars
  BY <1>5 DEF NothingToConsume, pubOwn
<1>6. ASSUME NEW p \in Process, NEW i \in DOMAIN Groups, ConsumeBreaks(p, i)
      PROVE  UNCHANGED Pub!vars
  BY <1>6 DEF ConsumeBreaks, Wrk!Abandon, Wrk!groupVars, pubOwn
<1>7. ASSUME UNCHANGED vars
      PROVE  UNCHANGED Pub!vars
  BY <1>7 DEF vars, pubOwn
<1>. QED
  BY <1>1, <1>2, <1>3, <1>4, <1>5, <1>6, <1>7, ConsumeIsEnvironment DEF Next, LoopStep

(* So the publisher behaves in the composition as it does alone.           *)
LEMMA PublisherFits == Spec => Pub!Spec /\ []Pub!TypeOK
<1>1. Init => Pub!Init
  BY DEF Init
<1>2. Pub!Init => Pub!TypeOK
  BY PublisherConstants, PubInit, PubTypeOK, PubProofs!TypeInit
<1>3. Pub!TypeOK /\ [Pub!Next]_(Pub!vars) => Pub!TypeOK'
  <2>1. Pub!TypeOK' <=> PubProofs!TypeOK'
    BY SameSizes DEF Pub!TypeOK, PubProofs!TypeOK
  <2>. QED
    BY <2>1, PublisherConstants, PubNext, PubTypeOK, PubProofs!TypeStep
<1>. QED
  BY <1>1, <1>2, <1>3, PublisherStepFits, PTL DEF Spec, Pub!Spec

-----------------------------------------------------------------------------
(* The workers' side.  They are given a stream of at most MaxEntries       *)
(* entries.  The publishers keep to that: a row has at most one copy more  *)
(* than there were faults, so that an entry is known by its row and by     *)
(* which copy of it it is.                                                 *)
StreamFits == Len(stream) <= Cardinality(Row) * (1 + MaxFaults)

(* The numbers from 1 to n are n.                                          *)
LEMMA SizeOfInterval == \A n \in Nat : IsFiniteSet(1 .. n) /\ Cardinality(1 .. n) = n
<1> TAKE n \in Nat
<1>1. /\ IsFiniteSet(1 .. n)
      /\ Cardinality(1 .. n) = IF 1 > n THEN 0 ELSE n - 1 + 1
  BY FS_Interval
<1>. QED
  BY <1>1

(* With as few copies of each row as there are faults the stream is        *)
(* bounded.                                                                *)
LEMMA StreamIsBounded ==
  ASSUME Pub!TypeOK, Pub!DuplicatesAreFaults
  PROVE  StreamFits
<1> DEFINE Upto(e) == {d \in 1 .. e : stream[d] = stream[e]}
           Place == [e \in 1 .. Len(stream) |-> <<stream[e], Cardinality(Upto(e))>>]
           Places == Row \X (1 .. (1 + MaxFaults))
<1>1. /\ Len(stream) \in Nat /\ \A e \in 1 .. Len(stream) : stream[e] \in Row
      /\ faults \in 0 .. MaxFaults /\ MaxFaults \in Nat
  BY PipelineAssumption DEF Pub!TypeOK
<1>2. \A e \in 1 .. Len(stream) : IsFiniteSet(Upto(e)) /\ Cardinality(Upto(e)) \in Nat
  <2> SUFFICES ASSUME NEW e \in 1 .. Len(stream)
               PROVE  IsFiniteSet(Upto(e)) /\ Cardinality(Upto(e)) \in Nat
    OBVIOUS
  <2>1. IsFiniteSet(1 .. e)
    BY <1>1, FS_Interval
  <2>. QED
    BY <2>1, FS_Subset, FS_CardinalityType
<1>3. ASSUME NEW e \in 1 .. Len(stream)
      PROVE  Cardinality(Upto(e)) \in 1 .. (1 + MaxFaults)
  <2>1. Upto(e) \subseteq Pub!Copies(stream[e])
    BY <1>1 DEF Pub!Copies, Pub!Entry
  <2>2. IsFiniteSet(Pub!Copies(stream[e]))
    <3>1. IsFiniteSet(1 .. Len(stream)) /\ Pub!Copies(stream[e]) \subseteq 1 .. Len(stream)
      BY <1>1, FS_Interval DEF Pub!Copies, Pub!Entry
    <3>. QED
      BY <3>1, FS_Subset
  <2>3. /\ Cardinality(Pub!Copies(stream[e])) <= 1 + faults
        /\ Cardinality(Pub!Copies(stream[e])) \in Nat
    BY <1>1, <2>2, SameSizes, FS_CardinalityType DEF Pub!DuplicatesAreFaults
  <2>4. Cardinality(Upto(e)) <= Cardinality(Pub!Copies(stream[e]))
    BY <2>1, <2>2, FS_Subset
  <2>5. e \in Upto(e)
    BY <1>1
  <2>6. Cardinality(Upto(e)) # 0
    BY <1>2, <2>5, FS_EmptySet
  <2>. HIDE DEF Upto
  <2>. QED
    BY <1>1, <1>2, <2>3, <2>4, <2>6
<1>4. ASSUME NEW d \in 1 .. Len(stream), NEW e \in 1 .. Len(stream), d < e, Place[d] = Place[e]
      PROVE  FALSE
  <2>1. stream[d] = stream[e] /\ Cardinality(Upto(d)) = Cardinality(Upto(e))
    BY <1>4
  <2>2. Upto(d) \subseteq Upto(e) /\ e \in Upto(e) /\ e \notin Upto(d)
    BY <1>1, <1>4, <2>1
  <2>3. Upto(d) = Upto(e)
    BY <1>2, <2>1, <2>2, FS_Subset
  <2>. QED
    BY <2>2, <2>3
<1>5. Place \in Injection(1 .. Len(stream), Places)
  <2>1. Place \in [1 .. Len(stream) -> Places]
    BY <1>1, <1>3
  <2>2. \A d, e \in 1 .. Len(stream) : Place[d] = Place[e] => d = e
    <3> HIDE DEF Place
    <3>. QED
      BY <1>1, <1>4
  <2>. QED
    BY <2>1, <2>2 DEF Injection, IsInjective
<1>6. /\ IsFiniteSet(Places)
      /\ Cardinality(Places) = Cardinality(Row) * (1 + MaxFaults)
  <2>1. /\ IsFiniteSet(1 .. (1 + MaxFaults)) /\ Cardinality(1 .. (1 + MaxFaults)) = 1 + MaxFaults
    BY <1>1, SizeOfInterval
  <2>. QED
    BY <2>1, PipelineAssumption, FS_Product
<1>7. Cardinality(1 .. Len(stream)) <= Cardinality(Places)
  BY <1>5, <1>6, FS_Injection
<1>8. Cardinality(1 .. Len(stream)) = Len(stream)
  BY <1>1, SizeOfInterval
<1>. QED
  BY <1>6, <1>7, <1>8 DEF StreamFits

(* Each step of the composition is one the workers, or their environment,  *)
(* may take.                                                               *)
LEMMA WorkerStepFits ==
  Pub!TypeOK /\ Pub!TypeOK' /\ StreamFits' /\ [Next]_vars => [Wrk!Next]_(Wrk!vars)
<1> SUFFICES ASSUME Pub!TypeOK, Pub!TypeOK', StreamFits', [Next]_vars
             PROVE  [Wrk!Next]_(Wrk!vars)
  OBVIOUS
<1> USE DEF Wrk!vars, Wrk!groupVars, wrkOwn
<1>1. \A p \in Process, i \in DOMAIN Groups :
        /\ <<p, Groups[i]>> \in Worker
        /\ [w \in Worker |-> w[2]][<<p, Groups[i]>>] = Groups[i]
  BY DEF Worker, Group
<1>2. ASSUME NEW r \in Row, CommitRow(r)
      PROVE  UNCHANGED Wrk!vars
  BY <1>2 DEF CommitRow, Pub!CommitRow, Pub!streamVars
<1>3. ASSUME NEW p \in Process, NEW i \in DOMAIN Groups, EnsureGroup(p, i)
      PROVE  [Wrk!Next]_(Wrk!vars)
  <2> DEFINE w == <<p, Groups[i]>>
  <2>1. CASE Groups[i] \in created
    BY <1>3, <2>1 DEF EnsureGroup
  <2>2. CASE Groups[i] \notin created
    <3>1. Wrk!EnsureGroup(w)
      BY <1>1, <1>3, <2>2 DEF EnsureGroup, Pub!EnsureGroup, Wrk!EnsureGroup
    <3>. QED
      BY <1>1, <3>1 DEF Wrk!Next, Wrk!WorkerStep
  <2>. QED
    BY <2>1, <2>2
<1>4. ASSUME NEW r, Pub!Append1(r), UNCHANGED wrkOwn
      PROVE  Wrk!Next
  <2>1. stream' = Append(stream, r) /\ UNCHANGED <<created, lastId, pel>>
    BY <1>4 DEF Pub!Append1
  <2>2. stream \in Seq(Row) /\ stream' \in Seq(Row)
    BY DEF Pub!TypeOK
  <2>3. Len(stream') = Len(stream) + 1 /\ stream'[Len(stream) + 1] = r /\ Len(stream) \in Nat
    BY <2>1, <2>2
  <2>4. r \in Row
    BY <2>2, <2>3
  <2>5. Len(stream) < Cardinality(Row) * (1 + MaxFaults)
    BY <2>3, FinitelyManyWorkers DEF StreamFits
  <2>. QED
    BY <1>4, <2>1, <2>4, <2>5, SameSizes DEF Wrk!AppendEntry, Wrk!Next
<1>5. ASSUME NEW p \in Process, PublishStep(p) \/ PublishReturns(p) \/ PublishSkipped(p)
      PROVE  [Wrk!Next]_(Wrk!vars)
  <2>1. UNCHANGED wrkOwn
    BY <1>5 DEF PublishStep, PublishReturns, PublishSkipped
  <2>2. (\E r : Pub!Append1(r)) \/ UNCHANGED <<stream, created, lastId, pel>>
    BY <1>5 DEF PublishStep, PublishReturns, PublishSkipped, Pub!CheckInflight, Pub!LockBatch,
                Pub!Xadd, Pub!XaddFails, Pub!CommitBatch, Pub!CheckFails, Pub!streamVars
  <2>. QED
    BY <1>4, <2>1, <2>2
<1>6. ASSUME NEW p \in Process, PublishBreaks(p)
      PROVE  UNCHANGED Wrk!vars
  BY <1>6 DEF PublishBreaks, Pub!Crash, Pub!streamVars
<1>7. ASSUME NEW p \in Process, NEW i \in DOMAIN Groups, ConsumeStep(p, i)
      PROVE  Wrk!Next
  <2> DEFINE w == <<p, Groups[i]>>
  <2>1. Wrk!WorkerStep(w)
    BY <1>7 DEF ConsumeStep, Wrk!WorkerStep
  <2>. QED
    BY <1>1, <2>1 DEF Wrk!Next
<1>8. ASSUME NEW p \in Process, NEW i \in DOMAIN Groups, NothingToConsume(p, i)
      PROVE  UNCHANGED Wrk!vars
  BY <1>8 DEF NothingToConsume
<1>9. ASSUME NEW p \in Process, NEW i \in DOMAIN Groups, ConsumeBreaks(p, i)
      PROVE  Wrk!Next
  BY <1>1, <1>9 DEF ConsumeBreaks, Wrk!Next
<1>10. ASSUME UNCHANGED vars
       PROVE  UNCHANGED Wrk!vars
  BY <1>10 DEF vars
<1>. QED
  BY <1>2, <1>3, <1>5, <1>6, <1>7, <1>8, <1>9, <1>10 DEF Next, LoopStep

(* Composed, the publisher and the workers are still what OutboxPublisher  *)
(* and StreamWorkers describe: neither is given a step of the other that   *)
(* its own specification does not allow (pipeline/runtime.py).             *)
THEOREM PartsFit == Spec => PartsAgree
<1>1. Pub!DuplicatesAreFaults <=> PubProofs!DuplicatesAreFaults
  BY SameSizes DEF Pub!DuplicatesAreFaults, PubProofs!DuplicatesAreFaults,
                   Pub!Copies, PubProofs!Copies, Pub!Entry, PubProofs!Entry
<1>2. Spec => []Pub!DuplicatesAreFaults
  BY <1>1, PublisherFits, PublisherConstants, PubSpec, PubProofs!Duplicates, PTL
<1>3. Pub!TypeOK /\ Pub!DuplicatesAreFaults => StreamFits
  BY StreamIsBounded
<1>4. Init => Wrk!Init
  BY SameSizes DEF Init, Pub!Init, Wrk!Init, Wrk!EntryId
<1>. QED
  BY <1>2, <1>3, <1>4, PublisherFits, WorkerStepFits, PTL DEF Spec, Wrk!Spec, PartsAgree

(* End to end, whatever fails: a row marked published has, in each group   *)
(* separately, an entry that is still to be delivered, is pending, was     *)
(* handled or is in the dead-letter stream.                                *)
THEOREM NoEventIsLost == Spec => []NoEventLost
<1>1. Spec => []Pub!PublishedIsInStream
  <2>1. Pub!PublishedIsInStream <=> PubProofs!PublishedIsInStream
    BY DEF Pub!PublishedIsInStream, PubProofs!PublishedIsInStream, Pub!Claimed,
           PubProofs!Claimed, Pub!Copies, PubProofs!Copies, Pub!Entry, PubProofs!Entry
  <2>. QED
    BY <2>1, PublisherFits, PublisherConstants, PubSpec, PubProofs!NoLoss, PTL
<1>2. Spec => []Wrk!TypeOK
  BY PartsFit, WorkersConstants, WrkSpec, WrkTypeOK, WrkProofs!TypeCorrect, PTL DEF PartsAgree
<1>3. Spec => []Wrk!NothingLost
  <2>1. Wrk!NothingLost <=> WrkProofs!NothingLost
    BY SameSizes DEF Wrk!NothingLost, WrkProofs!NothingLost, Wrk!Acked, WrkProofs!Acked,
           Wrk!Dead, WrkProofs!Dead, Wrk!EntryId, WrkProofs!EntryId
  <2>. QED
    BY <2>1, PartsFit, WorkersConstants, WrkSpec, WrkProofs!NoEntryLost, PTL DEF PartsAgree
<1>4. Pub!PublishedIsInStream /\ Wrk!TypeOK /\ Wrk!NothingLost => NoEventLost
  <2> SUFFICES ASSUME Pub!PublishedIsInStream, Wrk!TypeOK, Wrk!NothingLost,
                      NEW r \in Row, row[r] = "published", NEW g \in Group
               PROVE  \E e \in Pub!Copies(r) : Fate(g, e)
    BY DEF NoEventLost
  <2>1. PICK e \in Pub!Copies(r) : TRUE
    BY DEF Pub!PublishedIsInStream, Pub!Claimed
  <2>2. e \in Nat \ {0} /\ lastId[g] \in Nat
    BY <2>1 DEF Pub!Copies, Pub!Entry, Wrk!TypeOK
  <2>3. CASE e \in Wrk!Acked(g)
    BY <2>1, <2>3 DEF Wrk!NothingLost, Wrk!Dead, Fate
  <2>4. CASE e \notin Wrk!Acked(g)
    BY <2>1, <2>2, <2>4 DEF Wrk!Acked, Fate
  <2>. QED
    BY <2>3, <2>4
<1>. QED
  BY <1>1, <1>2, <1>3, <1>4, PTL

-----------------------------------------------------------------------------
(* A worker's step changes where that worker stands, and no other.         *)
LEMMA WorkersAreApart ==
  ASSUME Wrk!TypeOK, NEW p \in Process, NEW i \in DOMAIN Groups,
         ConsumeStep(p, i) \/ ConsumeBreaks(p, i),
         NEW v \in Worker, v # <<p, Groups[i]>>
  PROVE  wpc'[v] = wpc[v]
<1> DEFINE w == <<p, Groups[i]>>
<1>1. w \in Worker /\ wpc \in [Worker -> {"poll", "run", "ack", "count", "dead"}]
  BY DEF Worker, Group, Wrk!TypeOK
<1>2. wpc' = wpc \/ \E c : wpc' = [wpc EXCEPT ![w] = c]
  <2>1. CASE Wrk!Claim(w) \/ Wrk!ReadNew(w)
    BY <2>1 DEF Wrk!Claim, Wrk!ReadNew, Wrk!Deliver
  <2>2. CASE Wrk!HandlerReturns(w) \/ Wrk!HandlerRaises(w)
    BY <2>2 DEF Wrk!HandlerReturns, Wrk!HandlerRaises
  <2>3. CASE Wrk!Ack(w) \/ Wrk!ReadCount(w) \/ Wrk!DeadLetter(w)
    BY <2>3 DEF Wrk!Ack, Wrk!ReadCount, Wrk!DeadLetter, Wrk!NextMessage
  <2>4. CASE Wrk!Abandon(w)
    BY <2>4 DEF Wrk!Abandon
  <2>. QED
    BY <2>1, <2>2, <2>3, <2>4 DEF ConsumeStep, ConsumeBreaks
<1>. QED
  BY <1>1, <1>2

StageOK ==
  stage \in [Process -> {Publish} \cup {Ensure(i) : i \in DOMAIN Groups}
                                  \cup {Consume(i) : i \in DOMAIN Groups}]

(* A process begins with the groups, outside of any call.                  *)
LEMMA LoopInit == Init => StageOK /\ OneCallAtATime
<1>1. 1 \in DOMAIN Groups
  BY PipelineAssumption
<1>2. \A p \in Process, i \in DOMAIN Groups : <<p, Groups[i]>> \in Worker
  BY DEF Worker, Group
<1>. QED
  BY <1>1, <1>2 DEF Init, Pub!Init, StageOK, OneCallAtATime, Ensure

(* A process stays in its loop, and in the one call it has come to.        *)
LEMMA LoopStepKeeps ==
  /\ Pub!TypeOK /\ Wrk!TypeOK /\ StageOK /\ OneCallAtATime
  /\ Wrk!TypeOK' /\ [Next]_vars
  => StageOK' /\ OneCallAtATime'
<1> SUFFICES ASSUME Pub!TypeOK, Wrk!TypeOK, StageOK, OneCallAtATime, Wrk!TypeOK', [Next]_vars
             PROVE  StageOK' /\ OneCallAtATime'
  OBVIOUS
<1> USE DEF At, Goto, Publish, Ensure, Consume
<1>1. \A i \in DOMAIN Groups : i \in 1 .. Len(Groups) /\ Len(Groups) \in Nat
                               /\ (i < Len(Groups) => i + 1 \in DOMAIN Groups)
  BY PipelineAssumption
<1>2. 1 \in DOMAIN Groups
  BY PipelineAssumption
<1>3. /\ pc \in [Process -> {"idle", "permitted", "publishing"}]
      /\ wpc \in [Worker -> {"poll", "run", "ack", "count", "dead"}]
      /\ \A p \in Process, i \in DOMAIN Groups : <<p, Groups[i]>> \in Worker
  BY DEF Pub!TypeOK, Wrk!TypeOK, Worker, Group
<1>4. ASSUME UNCHANGED <<pc, wpc, stage>>
      PROVE  StageOK' /\ OneCallAtATime'
  BY <1>4 DEF StageOK, OneCallAtATime
<1>5. ASSUME NEW p \in Process, NEW i \in DOMAIN Groups, EnsureGroup(p, i)
      PROVE  StageOK' /\ OneCallAtATime'
  <2>1. UNCHANGED <<pc, wpc>> /\ stage[p] = Ensure(i)
    BY <1>5 DEF EnsureGroup, pubOwn, wrkOwn, Pub!EnsureGroup, Pub!pubVars
  <2>2. \E s \in {Publish} \cup {Ensure(j) : j \in DOMAIN Groups} : stage' = [stage EXCEPT ![p] = s]
    BY <1>1, <1>5 DEF EnsureGroup
  <2>. QED
    BY <1>3, <2>1, <2>2 DEF StageOK, OneCallAtATime
<1>6. ASSUME NEW p \in Process, PublishStep(p)
      PROVE  StageOK' /\ OneCallAtATime'
  <2>1. UNCHANGED <<wpc, stage>> /\ stage[p] = Publish
    BY <1>6 DEF PublishStep, wrkOwn
  <2>2. \A q \in Process \ {p} : pc'[q] = pc[q]
    BY <1>3, <1>6 DEF PublishStep, Pub!CheckInflight, Pub!LockBatch, Pub!Xadd, Pub!XaddFails
  <2>. QED
    BY <2>1, <2>2 DEF StageOK, OneCallAtATime
<1>7. ASSUME NEW p \in Process, PublishReturns(p) \/ PublishSkipped(p)
      PROVE  StageOK' /\ OneCallAtATime'
  <2>1. UNCHANGED wpc /\ stage[p] = Publish /\ stage' = [stage EXCEPT ![p] = Consume(1)]
    BY <1>7 DEF PublishReturns, PublishSkipped, wrkOwn
  <2>2. pc'[p] = "idle" /\ \A q \in Process \ {p} : pc'[q] = pc[q]
    BY <1>3, <1>7 DEF PublishReturns, PublishSkipped, Pub!CommitBatch, Pub!EndTransaction,
                      Pub!CheckFails, Pub!pubVars, pubOwn
  <2>. QED
    BY <1>2, <1>3, <2>1, <2>2 DEF StageOK, OneCallAtATime
<1>8. ASSUME NEW p \in Process, PublishBreaks(p)
      PROVE  StageOK' /\ OneCallAtATime'
  <2>1. UNCHANGED wpc /\ stage[p] = Publish
        /\ \E s \in {Publish, Ensure(1)} : stage' = [stage EXCEPT ![p] = s]
    BY <1>8 DEF PublishBreaks, wrkOwn
  <2>2. pc'[p] = "idle" /\ \A q \in Process \ {p} : pc'[q] = pc[q]
    BY <1>3, <1>8 DEF PublishBreaks, Pub!Crash, Pub!EndTransaction
  <2>. QED
    BY <1>2, <1>3, <2>1, <2>2 DEF StageOK, OneCallAtATime
<1>9. ASSUME NEW p \in Process, NEW i \in DOMAIN Groups, NothingToConsume(p, i)
      PROVE  StageOK' /\ OneCallAtATime'
  <2>1. UNCHANGED <<pc, wpc>> /\ stage[p] = Consume(i) /\ wpc[<<p, Groups[i]>>] = "poll"
    BY <1>9 DEF NothingToConsume, pubOwn, wrkOwn
  <2>2. \E s \in {Publish} \cup {Consume(j) : j \in DOMAIN Groups} : stage' = [stage EXCEPT ![p] = s]
    BY <1>1, <1>9 DEF NothingToConsume, AfterConsume
  <2>. QED
    BY <1>3, <2>1, <2>2 DEF StageOK, OneCallAtATime
<1>10. ASSUME NEW p \in Process, NEW i \in DOMAIN Groups, ConsumeStep(p, i) \/ ConsumeBreaks(p, i)
       PROVE  StageOK' /\ OneCallAtATime'
  <2>1. UNCHANGED pc /\ stage[p] = Consume(i)
    BY <1>10 DEF ConsumeStep, ConsumeBreaks, pubOwn
  <2>2. \/ stage' = stage
        \/ /\ wpc'[<<p, Groups[i]>>] = "poll"
           /\ \E s \in {Publish} \cup {Ensure(j) : j \in DOMAIN Groups}
                                 \cup {Consume(j) : j \in DOMAIN Groups} :
                stage' = [stage EXCEPT ![p] = s]
    <3>1. CASE ConsumeStep(p, i)
      BY <1>1, <3>1 DEF ConsumeStep, AfterConsume
    <3>2. CASE ConsumeBreaks(p, i)
      BY <1>2, <1>3, <3>2 DEF ConsumeBreaks, Wrk!Abandon
    <3>. QED
      BY <1>10, <3>1, <3>2
  <2>3. \A q \in Process, j \in DOMAIN Groups :
          <<q, Groups[j]>> # <<p, Groups[i]>> => wpc'[<<q, Groups[j]>>] = wpc[<<q, Groups[j]>>]
    BY <1>3, <1>10, WorkersAreApart
  <2>4. \A j \in DOMAIN Groups : j # i => wpc[<<p, Groups[j]>>] = "poll"
    BY <2>1 DEF OneCallAtATime
  <2>5. \A j \in DOMAIN Groups : j # i => wpc'[<<p, Groups[j]>>] = "poll"
    BY <2>3, <2>4, PipelineAssumption
  <2>6. StageOK'
    BY <2>2 DEF StageOK
  <2>7. ASSUME NEW q \in Process
        PROVE  /\ pc'[q] # "idle" => stage'[q] = Publish
               /\ \A j \in DOMAIN Groups : wpc'[<<q, Groups[j]>>] # "poll" => stage'[q] = Consume(j)
    <3>1. CASE q = p
      BY <2>1, <2>2, <2>5, <3>1 DEF OneCallAtATime
    <3>2. CASE q # p
      <4>1. stage'[q] = stage[q]
        BY <2>2, <3>2 DEF StageOK
      <4>. QED
        BY <2>1, <2>3, <3>2, <4>1 DEF OneCallAtATime
    <3>. QED
      BY <3>1, <3>2
  <2>. QED
    BY <2>6, <2>7 DEF OneCallAtATime
<1>11. CASE UNCHANGED vars
  BY <1>4, <1>11 DEF vars, pubOwn, wrkOwn
<1>12. ASSUME NEW r \in Row, CommitRow(r)
       PROVE  StageOK' /\ OneCallAtATime'
  BY <1>4, <1>12 DEF CommitRow, Pub!CommitRow, Pub!pubVars, wrkOwn
<1>. QED
  BY <1>5, <1>6, <1>7, <1>8, <1>9, <1>10, <1>11, <1>12 DEF Next, LoopStep

(* A process is in one call at a time, and in the one its loop has come to *)
(* (PipelineRuntime.run): publish_batch only while it publishes, run_once  *)
(* of a group only while it serves that group.                             *)
THEOREM TypeCorrect == Spec => []TypeOK
<1>1. Spec => []Wrk!TypeOK
  BY PartsFit, WorkersConstants, WrkSpec, WrkTypeOK, WrkProofs!TypeCorrect, PTL DEF PartsAgree
<1>2. TypeOK <=> Pub!TypeOK /\ Wrk!TypeOK /\ StageOK /\ OneCallAtATime
  BY DEF TypeOK, StageOK
<1>. QED
  BY <1>1, <1>2, PublisherFits, LoopInit, LoopStepKeeps, PTL DEF Spec

-----------------------------------------------------------------------------
(* The whole pipeline, publishers included, keeps the abstract promise: a  *)
(* message is settled for a group only after the group's handler completed *)
(* or a copy of it is in the dead-letter stream (pipeline/runtime.py).     *)
THEOREM PipelineDelivers == Spec => Wrk!ImplementsDelivery
<1> USE DEF Wrk!Dead, WrkProofs!Dead, Wrk!Acked, WrkProofs!Acked, Wrk!EntryId, WrkProofs!EntryId,
            Wrk!Delivery!vars, WrkProofs!Delivery!vars
<1>1. Wrk!Delivery!Init <=> WrkProofs!Delivery!Init
  BY DEF Wrk!Delivery!Init, WrkProofs!Delivery!Init
<1>2. \A r : Wrk!Delivery!Accept(r) <=> WrkProofs!Delivery!Accept(r)
  BY DEF Wrk!Delivery!Accept, WrkProofs!Delivery!Accept
<1>3. \A g, e : /\ (Wrk!Delivery!Complete(g, e) <=> WrkProofs!Delivery!Complete(g, e))
               /\ (Wrk!Delivery!DeadLetter(g, e) <=> WrkProofs!Delivery!DeadLetter(g, e))
               /\ (Wrk!Delivery!Settle(g, e) <=> WrkProofs!Delivery!Settle(g, e))
  BY DEF Wrk!Delivery!Complete, WrkProofs!Delivery!Complete,
         Wrk!Delivery!DeadLetter, WrkProofs!Delivery!DeadLetter,
         Wrk!Delivery!Settle, WrkProofs!Delivery!Settle
<1>4. [Wrk!Delivery!Next]_(Wrk!Delivery!vars) <=> [WrkProofs!Delivery!Next]_(WrkProofs!Delivery!vars)
  BY <1>2, <1>3 DEF Wrk!Delivery!Next, WrkProofs!Delivery!Next
<1>5. Wrk!ImplementsDelivery <=> WrkProofs!ImplementsDelivery
  BY <1>1, <1>4, PTL DEF Wrk!ImplementsDelivery, WrkProofs!ImplementsDelivery,
     Wrk!Delivery!Spec, WrkProofs!Delivery!Spec
<1>. QED
  BY <1>5, PartsFit, WorkersConstants, WrkSpec, WrkProofs!Refinement, PTL DEF PartsAgree

(* However many processes run and however slow their handlers are, an      *)
(* entry has at most one copy per process in the dead-letter stream, and   *)
(* none before it has been delivered MaxDeliver times (run_once).          *)
DeadLettersPerProcess ==
  \A g \in Group, e \in Wrk!EntryId :
    /\ dlq[g][e] <= Cardinality(Process)
    /\ dlq[g][e] > 0 => count[g][e] = MaxDeliver

(* A group has one worker in each process at most.                         *)
LEMMA WorkersOfAGroup ==
  ASSUME NEW g \in Group
  PROVE  /\ Cardinality(WrkProofs!WorkersOf(g)) \in Nat /\ Cardinality(Process) \in Nat
         /\ Cardinality(WrkProofs!WorkersOf(g)) <= Cardinality(Process)
<1> DEFINE S == WrkProofs!WorkersOf(g)
           who == [w \in S |-> w[1]]
<1>1. S = {w \in Worker : w[2] = g}
  BY DEF WrkProofs!WorkersOf
<1>2. IsFiniteSet(S)
  BY <1>1, FinitelyManyWorkers, FS_Subset
<1>3. \A w \in S : w[1] \in Process /\ w = <<w[1], g>>
  BY <1>1 DEF Worker
<1>. HIDE DEF S
<1>4. who \in Injection(S, Process)
  BY <1>3 DEF Injection, IsInjective
<1>5. Cardinality(S) <= Cardinality(Process)
  BY <1>2, <1>4, PipelineAssumption, FS_Injection
<1>. QED
  BY <1>2, <1>5, PipelineAssumption, FS_CardinalityType DEF S

(* The dead-letter stream is bounded by the processes, not by the workers  *)
(* that a configuration happens to have (RedisStreamWorker._dead_letter).  *)
THEOREM FewDeadLetters == Spec => []DeadLettersPerProcess
<1>1. WrkProofs!TypeOK /\ WrkProofs!DeadLettersAreEarned => DeadLettersPerProcess
  <2> SUFFICES ASSUME WrkProofs!TypeOK, WrkProofs!DeadLettersAreEarned,
                      NEW g \in Group, NEW e \in Wrk!EntryId
               PROVE  /\ dlq[g][e] <= Cardinality(Process)
                      /\ dlq[g][e] > 0 => count[g][e] = MaxDeliver
    BY DEF DeadLettersPerProcess
  <2>1. e \in WrkProofs!EntryId
    BY SameSizes DEF Wrk!EntryId, WrkProofs!EntryId
  <2>2. /\ dlq[g][e] <= Cardinality(WrkProofs!WorkersOf(g))
        /\ dlq[g][e] > 0 => count[g][e] = MaxDeliver
    BY <2>1, SameSizes DEF WrkProofs!DeadLettersAreEarned, WrkProofs!DlqCopiesBounded,
                           WrkProofs!DeadOnlyAfterMaxDeliver
  <2>3. dlq[g][e] \in Nat
    BY <2>1 DEF WrkProofs!TypeOK
  <2>. QED
    BY <2>2, <2>3, WorkersOfAGroup
<1>. QED
  BY <1>1, PartsFit, WorkersConstants, WrkSpec, WrkProofs!TypeCorrect,
     WrkProofs!EarnedDeadLetters, PTL DEF PartsAgree
=============================================================================
