---------------------------- MODULE EventPipeline ----------------------------
(***************************************************************************)
(* The pipeline process (pipeline/runtime.py) and its copies: each runs    *)
(* one loop that calls publish_batch and then run_once of the worker of    *)
(* each consumer group in turn.  OutboxPublisher and StreamWorkers say     *)
(* what those calls do; this module says when they happen, shares the      *)
(* stream between them, and follows an event from its outbox row to the    *)
(* handler of every group.                                                 *)
(*                                                                         *)
(* Within a process nothing runs concurrently; several processes share the *)
(* database, the stream and the groups.  A RedisError or SQLAlchemyError   *)
(* that leaves a call sends the loop back to publish_batch, skipping the   *)
(* workers it had not reached.                                             *)
(***************************************************************************)
EXTENDS Naturals, Sequences, FiniteSets

CONSTANTS
  Row, Poison, Process,
  Groups,     \* the consumer groups, in the order the loop serves them
  BatchSize, MaxInflight, MaxDeliver,
  MaxFaults,  \* bound: failures while publishing
  MaxWFaults  \* bound: failures while consuming

VARIABLES row, stream, created, founding, lastId, pel, pc, todo, sent, erred, faults,
          count, dlq, handled, wpc, batch, wfaults,
          stage  \* stage[p]: where the loop of process p stands

Group  == {Groups[i] : i \in DOMAIN Groups}
Worker == Process \X Group

ASSUME PipelineAssumption ==
  /\ Row \subseteq Nat /\ IsFiniteSet(Row) /\ Poison \subseteq Row
  /\ IsFiniteSet(Process)
  /\ Groups \in Seq(Group) /\ Groups # <<>>
  /\ \A i, j \in DOMAIN Groups : i # j => Groups[i] # Groups[j]
  /\ {BatchSize, MaxInflight, MaxDeliver} \subseteq Nat \ {0}
  /\ {MaxFaults, MaxWFaults} \subseteq Nat

Pub == INSTANCE OutboxPublisher WITH Publisher <- Process

Wrk == INSTANCE StreamWorkers WITH
  groupOf <- [w \in Worker |-> w[2]],
  MaxEntries <- Cardinality(Row) * (1 + MaxFaults), MaxFaults <- MaxWFaults

pubOwn == <<row, founding, pc, todo, sent, erred, faults>>
wrkOwn == <<count, dlq, handled, wpc, batch, wfaults>>
vars   == <<pubOwn, wrkOwn, stream, created, lastId, pel, stage>>

(* The loop: ensure_group of every group, then for ever publish_batch and  *)
(* run_once of every group.                                                *)
Ensure(i)  == <<"ensure", i>>
Publish    == <<"publish", 0>>
Consume(i) == <<"consume", i>>

At(p, s) == stage[p] = s
Goto(p, s) == stage' = [stage EXCEPT ![p] = s]
AfterConsume(i) == IF i < Len(Groups) THEN Consume(i + 1) ELSE Publish

Init ==
  /\ Pub!Init
  /\ count = [g \in Group |-> [e \in Wrk!EntryId |-> 0]]
  /\ dlq = [g \in Group |-> [e \in Wrk!EntryId |-> 0]]
  /\ handled = [g \in Group |-> {}]
  /\ wpc = [w \in Worker |-> "poll"]
  /\ batch = [w \in Worker |-> {}]
  /\ wfaults = 0
  /\ stage = [p \in Process |-> Ensure(1)]

CommitRow(r) == Pub!CommitRow(r) /\ UNCHANGED <<wrkOwn, stage>>

EnsureGroup(p, i) ==
  /\ At(p, Ensure(i))
  /\ IF Groups[i] \in created
     THEN UNCHANGED <<pubOwn, stream, created, lastId, pel>>
     ELSE Pub!EnsureGroup(Groups[i])
  /\ Goto(p, IF i < Len(Groups) THEN Ensure(i + 1) ELSE Publish)
  /\ UNCHANGED wrkOwn

PublishStep(p) ==
  /\ At(p, Publish)
  /\ \/ Pub!CheckInflight(p) \/ Pub!LockBatch(p) \/ Pub!Xadd(p) \/ Pub!XaddFails(p)
  /\ UNCHANGED <<wrkOwn, stage>>

PublishReturns(p) ==
  /\ At(p, Publish)
  /\ Pub!CommitBatch(p)
  /\ Goto(p, Consume(1))
  /\ UNCHANGED wrkOwn

(* publish_batch returns at once: backpressure, or XINFO failed.           *)
PublishSkipped(p) ==
  /\ At(p, Publish) /\ pc[p] = "idle"
  /\ \/ ~ Pub!BelowLimit /\ UNCHANGED <<pubOwn, stream, created, lastId, pel>>
     \/ Pub!CheckFails(p)
  /\ Goto(p, Consume(1))
  /\ UNCHANGED wrkOwn

ConsumeStep(p, i) ==
  LET w == <<p, Groups[i]>>
  IN  /\ At(p, Consume(i))
      /\ \/ Wrk!Claim(w) \/ Wrk!ReadNew(w) \/ Wrk!HandlerReturns(w) \/ Wrk!HandlerRaises(w)
         \/ Wrk!Ack(w) \/ Wrk!ReadCount(w) \/ Wrk!DeadLetter(w)
      /\ IF wpc'[w] = "poll" THEN Goto(p, AfterConsume(i)) ELSE UNCHANGED stage
      /\ UNCHANGED pubOwn

(* run_once finds no idle pending entry and no new one.                    *)
NothingToConsume(p, i) ==
  LET w == <<p, Groups[i]>>
  IN  /\ At(p, Consume(i)) /\ wpc[w] = "poll"
      /\ lastId[Groups[i]] = Len(stream)
      /\ Goto(p, AfterConsume(i))
      /\ UNCHANGED <<pubOwn, wrkOwn, stream, created, lastId, pel>>

(* A database error, or the death of the process, in publish_batch.        *)
PublishBreaks(p) ==
  /\ At(p, Publish)
  /\ Pub!Crash(p)
  /\ Goto(p, Publish) \/ Goto(p, Ensure(1))
  /\ UNCHANGED wrkOwn

(* A Redis error, or the death of the process, in run_once.                *)
ConsumeBreaks(p, i) ==
  /\ At(p, Consume(i))
  /\ Wrk!Abandon(<<p, Groups[i]>>)
  /\ Goto(p, Publish) \/ Goto(p, Ensure(1))
  /\ UNCHANGED pubOwn

LoopStep(p) ==
  \/ PublishStep(p) \/ PublishReturns(p) \/ PublishSkipped(p)
  \/ \E i \in DOMAIN Groups :
       EnsureGroup(p, i) \/ ConsumeStep(p, i) \/ NothingToConsume(p, i)

Next ==
  \/ \E r \in Row : CommitRow(r)
  \/ \E p \in Process :
       \/ LoopStep(p) \/ PublishBreaks(p)
       \/ \E i \in DOMAIN Groups : ConsumeBreaks(p, i)

Spec == Init /\ [][Next]_vars

(* The loops keep running; and because a pending entry is idle for long    *)
(* enough sooner or later, a loop that polls a group again and again       *)
(* claims what is pending there.                                           *)
ClaimStep(p, i) == ConsumeStep(p, i) /\ Wrk!Claim(<<p, Groups[i]>>)

Fairness ==
  \A p \in Process :
    /\ WF_vars(LoopStep(p))
    /\ \A i \in DOMAIN Groups : SF_vars(ClaimStep(p, i))

FairSpec == Spec /\ Fairness

-----------------------------------------------------------------------------
(* The composition gives the publisher and the workers only what each of   *)
(* them assumes of the other.                                              *)
PartsAgree == Pub!Spec /\ Wrk!Spec

(* A process does one thing at a time.                                     *)
OneCallAtATime ==
  \A p \in Process :
    /\ pc[p] # "idle" => At(p, Publish)
    /\ \A i \in DOMAIN Groups : wpc[<<p, Groups[i]>>] # "poll" => At(p, Consume(i))

TypeOK ==
  /\ Pub!TypeOK /\ Wrk!TypeOK
  /\ stage \in [Process -> {Publish} \cup {Ensure(i) : i \in DOMAIN Groups}
                                     \cup {Consume(i) : i \in DOMAIN Groups}]
  /\ OneCallAtATime

(* End to end, at every moment: a row marked published has, in each group  *)
(* separately, an entry that is still to be delivered, is pending, was     *)
(* handled, or is in the DLQ.                                              *)
Fate(g, e) == e > lastId[g] \/ e \in pel[g] \/ e \in handled[g] \/ dlq[g][e] > 0

NoEventLost ==
  \A r \in Row : row[r] = "published" =>
    \A g \in Group : \E e \in Pub!Copies(r) : Fate(g, e)

(* Every committed event is eventually settled in every group: handled, or *)
(* dead-lettered, and never again pending under that entry.                *)
SettledIn(g, r) ==
  \E e \in Pub!Copies(r) : e \in Wrk!Acked(g) /\ (e \in handled[g] \/ dlq[g][e] > 0)

EventuallySettled ==
  \A r \in Row, g \in Group : row[r] = "new" ~> SettledIn(g, r)
=============================================================================
