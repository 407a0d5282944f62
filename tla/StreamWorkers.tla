---------------------------- MODULE StreamWorkers ----------------------------
(***************************************************************************)
(* Redis consumer groups and the workers that serve them                   *)
(* (pipeline/worker.py).  run_once claims idle pending entries or, when    *)
(* there are none, reads new ones; then, entry by entry, it decodes and    *)
(* calls the handler, acknowledges on success, and on an exception asks    *)
(* Redis how often the entry was delivered and either leaves it pending or *)
(* adds it to the dead-letter stream and acknowledges it in one MULTI.     *)
(*                                                                         *)
(* Abstractions: a stream entry is its position; any pending entry may     *)
(* have been idle for pending_idle_ms (the setting may be 0, and a handler *)
(* may run longer than it), so a claim may take an entry whose owner still *)
(* works on it; delivery counts stop at MaxDeliver, the only value they    *)
(* are compared with.                                                      *)
(***************************************************************************)
EXTENDS Naturals, Sequences, FiniteSets, BatchOrder

CONSTANTS
  Row,         \* what an entry carries
  Poison,      \* the rows that no handler accepts (or that do not decode)
  Group,
  Worker,
  groupOf,     \* groupOf[w]: the group worker w reads for
  BatchSize,   \* config.batch_size
  MaxDeliver,  \* config.max_delivery_attempts
  MaxEntries,  \* bound: entries in the stream
  MaxFaults    \* bound: crashes and Redis errors of workers

ASSUME WorkersAssumption ==
  /\ Poison \subseteq Row /\ IsFiniteSet(Worker)
  /\ groupOf \in [Worker -> Group]
  /\ BatchSize \in Nat \ {0}
  /\ MaxDeliver \in Nat \ {0}
  /\ MaxEntries \in Nat /\ MaxFaults \in Nat

VARIABLES
  stream,    \* sequence of rows
  created,   \* groups that exist
  lastId,    \* lastId[g]: last entry group g has delivered
  pel,       \* pel[g]: delivered and not acknowledged
  count,     \* count[g][e]: times_delivered, at most MaxDeliver
  dlq,       \* dlq[g][e]: copies of e that g's workers put in the DLQ
  handled,   \* history: handled[g] is the entries whose handler returned
  wpc,       \* wpc[w]: "poll", or for the first entry of its batch
             \* "run", "ack", "count" or "dead"
  batch,     \* batch[w]: entries of the current batch not yet finished
  wfaults    \* number of worker failures

groupVars == <<created, lastId, pel, count, dlq, handled>>
vars      == <<stream, groupVars, wpc, batch, wfaults>>

EntryId == 1 .. MaxEntries
Entry   == 1 .. Len(stream)
WorkersOf(g) == {w \in Worker : groupOf[w] = g}

TypeOK ==
  /\ stream \in Seq(Row) /\ Len(stream) <= MaxEntries
  /\ created \subseteq Group
  /\ lastId \in [Group -> Nat]
  /\ pel \in [Group -> SUBSET EntryId]
  /\ count \in [Group -> [EntryId -> 0 .. MaxDeliver]]
  /\ dlq \in [Group -> [EntryId -> Nat]]
  /\ handled \in [Group -> SUBSET EntryId]
  /\ wpc \in [Worker -> {"poll", "run", "ack", "count", "dead"}]
  /\ batch \in [Worker -> SUBSET EntryId]
  /\ wfaults \in 0 .. MaxFaults
  /\ \A g \in Group : lastId[g] <= Len(stream) /\ pel[g] \subseteq 1 .. lastId[g]
  /\ \A w \in Worker :
       /\ wpc[w] = "poll" <=> batch[w] = {}
       /\ batch[w] \subseteq 1 .. lastId[groupOf[w]]

Init ==
  /\ stream = <<>>
  /\ created = {}
  /\ lastId = [g \in Group |-> 0]
  /\ pel = [g \in Group |-> {}]
  /\ count = [g \in Group |-> [e \in EntryId |-> 0]]
  /\ dlq = [g \in Group |-> [e \in EntryId |-> 0]]
  /\ handled = [g \in Group |-> {}]
  /\ wpc = [w \in Worker |-> "poll"]
  /\ batch = [w \in Worker |-> {}]
  /\ wfaults = 0

-----------------------------------------------------------------------------
(* Environment: a publisher appends an entry.                              *)
AppendEntry(r) ==
  /\ Len(stream) < MaxEntries
  /\ stream' = Append(stream, r)
  /\ UNCHANGED <<groupVars, wpc, batch, wfaults>>

(* ensure_group: XGROUP CREATE from 0-0; BUSYGROUP is ignored.             *)
EnsureGroup(w) ==
  /\ groupOf[w] \notin created
  /\ created' = created \cup {groupOf[w]}
  /\ UNCHANGED <<stream, lastId, pel, count, dlq, handled, wpc, batch, wfaults>>

(* Worker w holds the entries S, delivered once more to it.                *)
Deliver(w, S) ==
  LET g == groupOf[w]
  IN  /\ batch' = [batch EXCEPT ![w] = S]
      /\ wpc' = [wpc EXCEPT ![w] = "run"]
      /\ count' = [count EXCEPT ![g] = [e \in EntryId |->
                     IF e \in S THEN Smaller(count[g][e] + 1, MaxDeliver) ELSE count[g][e]]]

\* Variant: entries at the delivery limit are not claimed.
ClaimBelowLimit(w) ==
  LET g == groupOf[w]
  IN  /\ wpc[w] = "poll" /\ g \in created
      /\ \E S \in (SUBSET {e \in pel[g] : count[g][e] < MaxDeliver}) \ {{}} :
           Cardinality(S) <= BatchSize /\ Deliver(w, S)
      /\ UNCHANGED <<stream, created, lastId, pel, dlq, handled, wfaults>>

(* _recover_pending: XAUTOCLAIM takes up to batch_size idle entries.       *)
Claim(w) ==
  LET g == groupOf[w]
  IN  /\ wpc[w] = "poll" /\ g \in created
      /\ \E S \in (SUBSET pel[g]) \ {{}} : Cardinality(S) <= BatchSize /\ Deliver(w, S)
      /\ UNCHANGED <<stream, created, lastId, pel, dlq, handled, wfaults>>

\* Variant: XREADGROUP with NOACK.
ReadNewNoAck(w) ==
  LET g == groupOf[w]
      n == Smaller(lastId[g] + BatchSize, Len(stream))
  IN  /\ wpc[w] = "poll" /\ g \in created
      /\ lastId[g] < Len(stream)
      /\ Deliver(w, lastId[g] + 1 .. n)
      /\ lastId' = [lastId EXCEPT ![g] = n]
      /\ UNCHANGED <<stream, created, pel, dlq, handled, wfaults>>

(* XREADGROUP ">" takes the next entries, up to batch_size.                *)
ReadNew(w) ==
  LET g == groupOf[w]
      n == Smaller(lastId[g] + BatchSize, Len(stream))
  IN  /\ wpc[w] = "poll" /\ g \in created
      /\ lastId[g] < Len(stream)
      /\ Deliver(w, lastId[g] + 1 .. n)
      /\ lastId' = [lastId EXCEPT ![g] = n]
      /\ pel' = [pel EXCEPT ![g] = @ \cup (lastId[g] + 1 .. n)]
      /\ UNCHANGED <<stream, created, dlq, handled, wfaults>>

Current(w) == Least(batch[w])

HandlerReturns(w) ==
  /\ wpc[w] = "run"
  /\ stream[Current(w)] \notin Poison
  /\ handled' = [handled EXCEPT ![groupOf[w]] = @ \cup {Current(w)}]
  /\ wpc' = [wpc EXCEPT ![w] = "ack"]
  /\ UNCHANGED <<stream, created, lastId, pel, count, dlq, batch, wfaults>>

\* Variant: the exception is swallowed and the entry acknowledged.
SwallowException(w) ==
  /\ wpc[w] = "run"
  /\ wpc' = [wpc EXCEPT ![w] = "ack"]
  /\ UNCHANGED <<stream, groupVars, batch, wfaults>>

HandlerRaises(w) ==
  /\ wpc[w] = "run"
  /\ wpc' = [wpc EXCEPT ![w] = "count"]
  /\ UNCHANGED <<stream, groupVars, batch, wfaults>>

NextMessage(w) ==
  LET rest == batch[w] \ {Current(w)}
  IN  /\ batch' = [batch EXCEPT ![w] = rest]
      /\ wpc' = [wpc EXCEPT ![w] = IF rest = {} THEN "poll" ELSE "run"]

Xack(w) == pel' = [pel EXCEPT ![groupOf[w]] = @ \ {Current(w)}]

Ack(w) ==
  /\ wpc[w] = "ack"
  /\ Xack(w)
  /\ NextMessage(w)
  /\ UNCHANGED <<stream, created, lastId, count, dlq, handled, wfaults>>

\* Variant: the count read is one too high.
DeliveryCountPlusOne(g, e) == IF e \in pel[g] THEN count[g][e] + 1 ELSE 1

(* _delivery_count: an entry that is no longer pending counts as 1.        *)
DeliveryCount(g, e) == IF e \in pel[g] THEN count[g][e] ELSE 1

ReadCount(w) ==
  /\ wpc[w] = "count"
  /\ IF DeliveryCount(groupOf[w], Current(w)) >= MaxDeliver
     THEN wpc' = [wpc EXCEPT ![w] = "dead"] /\ UNCHANGED batch
     ELSE NextMessage(w)
  /\ UNCHANGED <<stream, groupVars, wfaults>>

(* _dead_letter: MULTI XADD dlq, XACK; the count of XACK is not looked at. *)
DeadLetter(w) ==
  /\ wpc[w] = "dead"
  /\ dlq' = [dlq EXCEPT ![groupOf[w]][Current(w)] = @ + 1]
  /\ Xack(w)
  /\ NextMessage(w)
  /\ UNCHANGED <<stream, created, lastId, count, handled, wfaults>>

(* The process dies, or a RedisError leaves run_once: the rest of the      *)
(* batch stays pending, delivered and not handled.  A call whose reply is  *)
(* lost is that call followed by Abandon.                                  *)
Abandon(w) ==
  /\ wpc[w] # "poll"
  /\ wfaults < MaxFaults /\ wfaults' = wfaults + 1
  /\ batch' = [batch EXCEPT ![w] = {}]
  /\ wpc' = [wpc EXCEPT ![w] = "poll"]
  /\ UNCHANGED <<stream, groupVars>>

WorkerStep(w) ==
  \/ EnsureGroup(w) \/ Claim(w) \/ ReadNew(w)
  \/ HandlerReturns(w) \/ HandlerRaises(w)
  \/ Ack(w) \/ ReadCount(w) \/ DeadLetter(w)

Next ==
  \/ \E r \in Row : AppendEntry(r)
  \/ \E w \in Worker : WorkerStep(w) \/ Abandon(w)

Spec == Init /\ [][Next]_vars

(* Every worker process keeps running, and no handler hangs.               *)
FairSpec == Spec /\ \A w \in Worker : WF_vars(WorkerStep(w))

-----------------------------------------------------------------------------
Acked(g) == (1 .. lastId[g]) \ pel[g]
Dead(g)  == {e \in EntryId : dlq[g][e] > 0}

(* At-least-once: an entry leaves the pending list only after its handler  *)
(* has returned or a copy is in the DLQ, whatever crashes and however      *)
(* claims overlap.                                                         *)
NothingLost == \A g \in Group : Acked(g) \subseteq handled[g] \cup Dead(g)

(* Only an entry that was delivered max_delivery_attempts times is ever    *)
(* dead-lettered, even when other workers claim, acknowledge or fail it    *)
(* between the read of its delivery count and the MULTI.                   *)
DeadOnlyAfterMaxDeliver ==
  \A g \in Group, e \in EntryId : dlq[g][e] > 0 => count[g][e] = MaxDeliver

(* The DLQ holds at most one copy of an entry per worker of its group.     *)
DlqCopiesBounded ==
  \A g \in Group, e \in EntryId : dlq[g][e] <= Cardinality(WorkersOf(g))

(* What may be found in the DLQ.                                           *)
DeadLettersAreEarned == DeadOnlyAfterMaxDeliver /\ DlqCopiesBounded

(* The detailed workers implement the abstract delivery promise.           *)
Delivery == INSTANCE AtLeastOnceDelivery WITH
  Message <- Row, log <- stream, done <- handled,
  dead <- [g \in Group |-> Dead(g)], settled <- [g \in Group |-> Acked(g)]

ImplementsDelivery == Delivery!Spec

(* Every entry of the stream is eventually acknowledged in every group     *)
(* that has a worker; no entry waits behind failing ones for ever.         *)
Served == {g \in Group : WorkersOf(g) # {}}

EventuallyAcked ==
  \A g \in Served, e \in EntryId : e \in Entry ~> e \in Acked(g)
=============================================================================
