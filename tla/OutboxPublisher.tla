--------------------------- MODULE OutboxPublisher ---------------------------
(***************************************************************************)
(* The transactional outbox publisher (pipeline/outbox.py): any number of  *)
(* publishers move committed rows of the table outbox_events to one Redis  *)
(* stream.  A call of publish_batch reads how much work the consumer       *)
(* groups still have (XINFO GROUPS), and if that is below the limit opens  *)
(* a database transaction, locks a batch of unpublished rows FOR UPDATE    *)
(* SKIP LOCKED, appends them to the stream one XADD at a time and commits. *)
(*                                                                         *)
(* The stream and its consumer groups are shared with the workers.  Here   *)
(* their side of it is an environment that creates groups, delivers new    *)
(* entries and acknowledges pending ones in every order Redis permits;     *)
(* EventPipeline puts the real workers in its place.                       *)
(*                                                                         *)
(* Abstractions: a row is its place in ORDER BY created_at, id; a stream   *)
(* entry is its position, and carries the row it was made from; the write- *)
(* only counter "attempts" and the text of last_error are left out.        *)
(***************************************************************************)
EXTENDS Naturals, Sequences, FiniteSets, BatchOrder

CONSTANTS
  Row,          \* outbox rows: numbers ordered as (created_at, id)
  Publisher,    \* processes that call publish_batch
  Group,        \* consumer groups of the stream
  BatchSize,    \* config.batch_size
  MaxInflight,  \* config.max_inflight_messages
  MaxFaults     \* bound: crashes and Redis errors in one behaviour

ASSUME PublisherAssumption ==
  /\ Row \subseteq Nat /\ IsFiniteSet(Row)
  /\ IsFiniteSet(Publisher)
  /\ BatchSize \in Nat \ {0}
  /\ MaxInflight \in Nat \ {0}
  /\ MaxFaults \in Nat

VARIABLES
  row,       \* row[r]: "none" before its transaction commits, then
             \* "new", "error" (last_error is set) or "published"
  stream,    \* sequence of rows: entry e of the stream carries stream[e]
  created,   \* consumer groups that exist
  founding,  \* history: groups that were created on an empty stream
  lastId,    \* lastId[g]: last entry group g has delivered
  pel,       \* pel[g]: pending entries list of group g
  pc,        \* pc[p]: "idle", "permitted" (check passed) or "publishing"
  todo,      \* todo[p]: locked rows still to be appended
  sent,      \* sent[p]: rows appended in the open transaction
  erred,     \* erred[p]: the row whose XADD failed, a set of at most one
  faults     \* number of failures so far

pubVars    == <<pc, todo, sent, erred>>
streamVars == <<stream, created, founding, lastId, pel>>
vars       == <<row, streamVars, pubVars, faults>>

Entry == 1 .. Len(stream)

-----------------------------------------------------------------------------
(* What XINFO GROUPS reports of a group: pending + lag.                    *)
Inflight(g) == Cardinality(pel[g]) + (Len(stream) - lastId[g])

\* max over the groups < limit; no group or no stream counts as 0.
BelowLimit == \A g \in created : Inflight(g) < MaxInflight

Held(p) == todo[p] \cup sent[p] \cup erred[p]
Locked  == UNION {Held(p) : p \in Publisher}

\* Variant: a row with last_error is not selected again.
UnpublishedWithoutRetry == {r \in Row : row[r] = "new"}

Unpublished == {r \in Row : row[r] \in {"new", "error"}}

TypeOK ==
  /\ row \in [Row -> {"none", "new", "error", "published"}]
  /\ stream \in Seq(Row)
  /\ created \subseteq Group
  /\ founding \subseteq created
  /\ lastId \in [Group -> Nat]
  /\ pel \in [Group -> SUBSET Nat]
  /\ \A g \in Group : lastId[g] <= Len(stream) /\ pel[g] \subseteq 1 .. lastId[g]
  /\ pc \in [Publisher -> {"idle", "permitted", "publishing"}]
  /\ todo \in [Publisher -> SUBSET Row]
  /\ sent \in [Publisher -> SUBSET Row]
  /\ erred \in [Publisher -> SUBSET Row]
  /\ faults \in 0 .. MaxFaults
  /\ \A p \in Publisher :
       /\ pc[p] # "publishing" => todo[p] = {} /\ sent[p] = {} /\ erred[p] = {}
       /\ Cardinality(todo[p]) <= BatchSize

Init ==
  /\ row = [r \in Row |-> "none"]
  /\ stream = <<>>
  /\ created = {} /\ founding = {}
  /\ lastId = [g \in Group |-> 0]
  /\ pel = [g \in Group |-> {}]
  /\ pc = [p \in Publisher |-> "idle"]
  /\ todo = [p \in Publisher |-> {}]
  /\ sent = [p \in Publisher |-> {}]
  /\ erred = [p \in Publisher |-> {}]
  /\ faults = 0

-----------------------------------------------------------------------------
(* A business transaction commits with its outbox row in it: rows become   *)
(* visible in any order, not only in the order of created_at.              *)
CommitRow(r) ==
  /\ row[r] = "none"
  /\ row' = [row EXCEPT ![r] = "new"]
  /\ UNCHANGED <<streamVars, pubVars, faults>>

\* Variant: an off-by-one in the comparison with the limit.
CheckAllowsLimit == \A g \in created : Inflight(g) <= MaxInflight

(* publish_batch, first part: the backpressure check, outside of any       *)
(* transaction.  At or above the limit the call returns.                   *)
CheckPasses == BelowLimit

CheckInflight(p) ==
  /\ pc[p] = "idle"
  /\ CheckPasses
  /\ pc' = [pc EXCEPT ![p] = "permitted"]
  /\ UNCHANGED <<row, streamVars, todo, sent, erred, faults>>

(* XINFO raises RedisError: publish_batch returns failed=1.                *)
CheckFails(p) ==
  /\ pc[p] = "idle"
  /\ faults < MaxFaults /\ faults' = faults + 1
  /\ UNCHANGED <<row, streamVars, pubVars>>

\* Variant: the rows are not locked against other publishers.
AvailableUnlocked == Unpublished

(* SELECT ... WHERE published_at IS NULL ORDER BY ... LIMIT batch_size     *)
(* FOR UPDATE SKIP LOCKED.                                                 *)
Available == Unpublished \ Locked

LockBatch(p) ==
  /\ pc[p] = "permitted"
  /\ \E S \in SUBSET Available :
       /\ IsFirstOf(S, Available, BatchSize)
       /\ todo' = [todo EXCEPT ![p] = S]
  /\ pc' = [pc EXCEPT ![p] = "publishing"]
  /\ UNCHANGED <<row, streamVars, sent, erred, faults>>

\* Variant: XADD with MAXLEN 1.
AppendTrimmed(r) ==
  /\ stream' = <<r>>
  /\ UNCHANGED <<created, founding, lastId, pel>>

Append1(r) ==
  /\ stream' = Append(stream, r)
  /\ UNCHANGED <<created, founding, lastId, pel>>

Xadd(p) ==
  /\ pc[p] = "publishing" /\ todo[p] # {}
  /\ LET r == Least(todo[p])
     IN  /\ Append1(r)
         /\ todo' = [todo EXCEPT ![p] = @ \ {r}]
         /\ sent' = [sent EXCEPT ![p] = @ \cup {r}]
  /\ UNCHANGED <<row, pc, erred, faults>>

(* XADD raises RedisError: the loop stops at this row.  When only the      *)
(* reply was lost, the entry is in the stream nevertheless.                *)
XaddFails(p) ==
  /\ pc[p] = "publishing" /\ todo[p] # {}
  /\ faults < MaxFaults /\ faults' = faults + 1
  /\ LET r == Least(todo[p])
     IN  /\ Append1(r) \/ UNCHANGED streamVars
         /\ erred' = [erred EXCEPT ![p] = {r}]
  /\ todo' = [todo EXCEPT ![p] = {}]
  /\ UNCHANGED <<row, pc, sent>>

EndTransaction(p) ==
  /\ pc' = [pc EXCEPT ![p] = "idle"]
  /\ todo' = [todo EXCEPT ![p] = {}]
  /\ sent' = [sent EXCEPT ![p] = {}]
  /\ erred' = [erred EXCEPT ![p] = {}]

\* Variant: published_at is set on the row whose XADD failed, too.
FailedRowIsPublished(p, r) ==
  IF r \in sent[p] \cup erred[p] THEN "published" ELSE row[r]

RowAfterCommit(p, r) ==
  IF r \in sent[p] THEN "published" ELSE IF r \in erred[p] THEN "error" ELSE row[r]

CommitBatch(p) ==
  /\ pc[p] = "publishing" /\ todo[p] = {}
  /\ row' = [r \in Row |-> RowAfterCommit(p, r)]
  /\ EndTransaction(p)
  /\ UNCHANGED <<streamVars, faults>>

(* The process dies, or the database connection is lost: the transaction   *)
(* is rolled back, what XADD has done stays done.                          *)
Crash(p) ==
  /\ pc[p] # "idle"
  /\ faults < MaxFaults /\ faults' = faults + 1
  /\ EndTransaction(p)
  /\ UNCHANGED <<row, streamVars>>

-----------------------------------------------------------------------------
(* Environment: the consumer groups.                                       *)
EnsureGroup(g) ==
  /\ g \notin created
  /\ created' = created \cup {g}
  /\ founding' = IF stream = <<>> THEN founding \cup {g} ELSE founding
  /\ UNCHANGED <<row, stream, lastId, pel, pubVars, faults>>

Deliver(g, n) ==
  /\ g \in created
  /\ n \in lastId[g] + 1 .. Len(stream)
  /\ pel' = [pel EXCEPT ![g] = @ \cup (lastId[g] + 1 .. n)]
  /\ lastId' = [lastId EXCEPT ![g] = n]
  /\ UNCHANGED <<row, stream, created, founding, pubVars, faults>>

Acknowledge(g, e) ==
  /\ e \in pel[g]
  /\ pel' = [pel EXCEPT ![g] = @ \ {e}]
  /\ UNCHANGED <<row, stream, created, founding, lastId, pubVars, faults>>

PublisherStep(p) ==
  CheckInflight(p) \/ LockBatch(p) \/ Xadd(p) \/ CommitBatch(p)

Environment ==
  \/ \E r \in Row : CommitRow(r)
  \/ \E g \in Group : \/ EnsureGroup(g)
                      \/ \E n \in Entry : Deliver(g, n)
                      \/ \E e \in pel[g] : Acknowledge(g, e)

Next ==
  \/ \E p \in Publisher : PublisherStep(p) \/ CheckFails(p) \/ XaddFails(p) \/ Crash(p)
  \/ Environment

Spec == Init /\ [][Next]_vars

(* The publishers keep running, and the groups keep being consumed.        *)
ConsumerStep(g) ==
  (\E n \in Entry : Deliver(g, n)) \/ (\E e \in pel[g] : Acknowledge(g, e))

Fairness ==
  /\ \A p \in Publisher : WF_vars(PublisherStep(p))
  /\ \A g \in Group : WF_vars(ConsumerStep(g))

FairSpec == Spec /\ Fairness

-----------------------------------------------------------------------------
Copies(r) == {e \in Entry : stream[e] = r}

\* Somebody believes that r is in the stream.
Claimed(r) == row[r] = "published" \/ \E p \in Publisher : r \in sent[p]

(* No committed row is lost: a row marked published, and a row whose       *)
(* publisher believes it appended, is in the stream.                       *)
PublishedIsInStream == \A r \in Row : Claimed(r) => Copies(r) # {}

(* Cooperating publishers do not append a row twice by themselves: every   *)
(* copy beyond the first is owed to a failure (lost XADD reply, crash or   *)
(* rollback after XADD), as the class comment of OutboxPublisher says.     *)
DuplicatesAreFaults == \A r \in Row : Cardinality(Copies(r)) <= 1 + faults

(* Why: a row is held by one publisher at most and in one role, only       *)
(* unpublished rows are held, and every copy is owed to a failure or to    *)
(* the one publisher that has it as appended.                              *)
HeldOnce ==
  /\ \A p, q \in Publisher : p # q => Held(p) \cap Held(q) = {}
  /\ \A p \in Publisher :
       /\ todo[p] \cap sent[p] = {} /\ todo[p] \cap erred[p] = {} /\ sent[p] \cap erred[p] = {}
       /\ Held(p) \subseteq Unpublished

CopiesOwed ==
  \A r \in Row : Cardinality(Copies(r)) <= faults + (IF Claimed(r) THEN 1 ELSE 0)

(* XADDs that publishers may still perform without another check: each     *)
(* permitted publisher holds a full batch of them, each publishing one     *)
(* holds its remaining rows.                                               *)
Permits ==
  {t \in Publisher \X (1 .. BatchSize) :
     \/ pc[t[1]] = "permitted"
     \/ pc[t[1]] = "publishing" /\ t[2] <= Cardinality(todo[t[1]])}

(* The limit of max_inflight_messages is checked before the transaction,   *)
(* so concurrent publishers overshoot it - by at most one batch each, for  *)
(* every group that has followed the stream from its first entry.          *)
OvershootBound == (MaxInflight - 1) + Cardinality(Publisher) * BatchSize

BoundedOvershoot == \A g \in founding : Inflight(g) <= OvershootBound

PermitInv ==
  \A g \in founding : Inflight(g) + Cardinality(Permits) <= OvershootBound

(* Every committed row is eventually marked published, as long as the      *)
(* consumers work and failures stop.                                       *)
EventuallyPublished == \A r \in Row : row[r] = "new" ~> row[r] = "published"
=============================================================================
