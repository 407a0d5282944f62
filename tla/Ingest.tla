-------------------------------- MODULE Ingest --------------------------------
(***************************************************************************)
(* Ingest of MQTT messages (adapters/frigate/live_worker.py and            *)
(* pipeline.py over persistence/repositories.py).  A message is persisted  *)
(* in one database transaction and acknowledged to the broker only after   *)
(* the commit; a failure or a timeout disconnects, and the broker delivers *)
(* every message that is not acknowledged again.  A timeout cancels the    *)
(* transaction but does not wait for it, and several workers may run, so   *)
(* transactions overlap, also for the same message.                        *)
(*                                                                         *)
(* The module follows the messages of a few review items and objects, the  *)
(* entities of a camera server.  A transaction makes its reads one by one  *)
(* (READ COMMITTED) and its writes at commit:                              *)
(* an INSERT that meets an uncommitted row with the same unique key waits   *)
(* for it, so what it meets is decided when the other one commits.         *)
(*                                                                         *)
(* Abstractions: a message is a model value, its raw dedupe key is itself; *)
(* "available" messages and payloads that do not validate are the messages *)
(* without an observation key.  Evidence and object rows follow their      *)
(* observation and are left out, and so is the checkpoint, whose cursor    *)
(* nothing in the live path reads (a collision of two first inserts of it  *)
(* is one of the failures).                                                *)
(***************************************************************************)
EXTENDS Naturals, FiniteSets

CONSTANTS
  Message,
  Published,  \* sets of messages that a camera server may publish
  Key,        \* observation keys: entity, lifecycle, time and payload
  NoKey,
  NoMessage,
  Entity,     \* review items and objects
  Reviews,    \* the review items among them
  keyOf,      \* keyOf[m]: its observation key, or NoKey
  entityOf,   \* entityOf[k]: the entity it is about
  lifecycle,  \* lifecycle[k]: "started", "updated" or "ended"
  occurred,   \* occurred[k]: the time occurred_at
  Task,       \* transactions that may be open at a time
  MaxFaults   \* bound: timeouts, crashes and database errors

ASSUME IngestAssumption ==
  /\ NoKey \notin Key /\ NoMessage \notin Message
  /\ Published \subseteq SUBSET Message
  /\ keyOf \in [Message -> Key \cup {NoKey}]
  /\ Reviews \subseteq Entity /\ entityOf \in [Key -> Entity]
  /\ lifecycle \in [Key -> {"started", "updated", "ended"}]
  /\ occurred \in [Key -> Nat]
  /\ MaxFaults \in Nat

VARIABLES
  published, \* the messages of this camera server; never changes
  unacked,   \* messages the broker will deliver again
  raw,       \* raw_source_messages
  obs,       \* observations, each by the message it was made from
  flags,     \* flags[m]: partial_history, out_of_order, after_terminal
  mapped,    \* entities that have a row in source_entity_maps
  review,    \* review[i]: status and source_revision in review_items
  jobs,      \* observations that created a processor job
  outbox,    \* dedupe keys of the outbox rows
  pc,        \* pc[t]: "idle", "lookup", "history", "entity", "commit", "ack"
  held,      \* held[t]: the message of task t
  plan,      \* plan[t]: what its transaction is going to write
  history,   \* history[t]: the observations it has read
  loaded,    \* loaded[t]: the mapping and the review status it has read
  base,      \* history: observations committed when t received its message
  known,     \* history: base of the task that persisted m
  faults

tables == <<raw, obs, flags, mapped, review, jobs, outbox, known>>
tasks  == <<pc, held, plan, history, loaded, base>>
vars   == <<published, unacked, tables, tasks, faults>>

NoFlags  == [partial |-> FALSE, late |-> FALSE, closed |-> FALSE]
NoEntity == [mapped |-> FALSE, status |-> "none"]

Init ==
  /\ published \in Published /\ unacked = published
  /\ raw = {} /\ obs = {} /\ jobs = {} /\ outbox = {}
  /\ flags = [m \in Message |-> NoFlags]
  /\ known = [m \in Message |-> {}]
  /\ mapped = {}
  /\ review = [i \in Entity |-> [status |-> "none", revision |-> NoKey]]
  /\ pc = [t \in Task |-> "idle"]
  /\ held = [t \in Task |-> NoMessage]
  /\ plan = [t \in Task |-> "nothing"]
  /\ history = [t \in Task |-> {}]
  /\ loaded = [t \in Task |-> NoEntity]
  /\ base = [t \in Task |-> {}]
  /\ faults = 0

-----------------------------------------------------------------------------
Goto(t, s) == pc' = [pc EXCEPT ![t] = s]

\* The end of a task, however it ends.
Idle(t) ==
  /\ Goto(t, "idle")
  /\ held' = [held EXCEPT ![t] = NoMessage]
  /\ plan' = [plan EXCEPT ![t] = "nothing"]
  /\ history' = [history EXCEPT ![t] = {}]
  /\ loaded' = [loaded EXCEPT ![t] = NoEntity]
  /\ base' = [base EXCEPT ![t] = {}]

(* _on_message: the broker delivers, first or again, in any order.         *)
Receive(t, m) ==
  /\ pc[t] = "idle" /\ m \in unacked
  /\ held' = [held EXCEPT ![t] = m]
  /\ base' = [base EXCEPT ![t] = obs]
  /\ Goto(t, "lookup")
  /\ UNCHANGED <<unacked, tables, plan, history, loaded, faults>>

SameKey(m) == {n \in obs : keyOf[n] = keyOf[m]}

\* Variant: an observation already persisted is not looked for.
LookUpRawOnly(t) ==
  LET m == held[t]
  IN  /\ pc[t] = "lookup"
      /\ \/ m \in raw /\ Goto(t, "commit") /\ UNCHANGED plan
         \/ /\ m \notin raw /\ keyOf[m] = NoKey
            /\ plan' = [plan EXCEPT ![t] = "raw"] /\ Goto(t, "commit")
         \/ /\ m \notin raw /\ keyOf[m] # NoKey
            /\ plan' = [plan EXCEPT ![t] = "all"] /\ Goto(t, "history")
      /\ UNCHANGED <<unacked, tables, held, history, loaded, base, faults>>

(* ingest, first part: a raw message or an observation that is already     *)
(* there makes it a duplicate; "available" and invalid payloads are only   *)
(* kept as raw messages.                                                   *)
LookUp(t) ==
  LET m == held[t]
  IN  /\ pc[t] = "lookup"
      /\ \/ /\ m \in raw \/ (keyOf[m] # NoKey /\ SameKey(m) # {})
            /\ Goto(t, "commit") /\ UNCHANGED plan
         \/ /\ m \notin raw /\ keyOf[m] = NoKey
            /\ plan' = [plan EXCEPT ![t] = "raw"] /\ Goto(t, "commit")
         \/ /\ m \notin raw /\ keyOf[m] # NoKey /\ SameKey(m) = {}
            /\ plan' = [plan EXCEPT ![t] = "all"] /\ Goto(t, "history")
      /\ UNCHANGED <<unacked, tables, held, history, loaded, base, faults>>

Subject(m) == entityOf[keyOf[m]]

\* The observations in S of the entity that m is about.
About(m, S) == {n \in S : Subject(n) = Subject(m)}

\* Variant: the observations of every entity.
ReadAllHistory(t) ==
  /\ pc[t] = "history"
  /\ history' = [history EXCEPT ![t] = obs]
  /\ Goto(t, "entity")
  /\ UNCHANGED <<unacked, tables, held, plan, loaded, base, faults>>

(* list_for_entity: the observations of the same source entity.            *)
ReadHistory(t) ==
  /\ pc[t] = "history"
  /\ history' = [history EXCEPT ![t] = About(held[t], obs)]
  /\ Goto(t, "entity")
  /\ UNCHANGED <<unacked, tables, held, plan, loaded, base, faults>>

(* resolve_or_create_entity_mapping, and the review item it leads to; an   *)
(* object has none.                                                        *)
ReadEntity(t) ==
  /\ pc[t] = "entity"
  /\ LET i == Subject(held[t])
     IN  loaded' = [loaded EXCEPT ![t] = [mapped |-> i \in mapped, status |-> review[i].status]]
  /\ Goto(t, "commit")
  /\ UNCHANGED <<unacked, tables, held, plan, history, base, faults>>

-----------------------------------------------------------------------------
Life(m) == lifecycle[keyOf[m]]
Time(m) == occurred[keyOf[m]]

(* The audit flags of message m against the observations H.                *)
Audit(m, H) ==
  [partial |-> Life(m) # "started" /\ \A n \in H : Life(n) # "started",
   late    |-> \E n \in H : Time(m) < Time(n),
   closed  |-> \E n \in H : Life(n) = "ended"]

StatusOf(m) == IF Life(m) = "ended" THEN "ended" ELSE "active"

\* Variant: no unique constraint on the observation's dedupe key.
NoConflictButRaw(t) == plan[t] = "nothing" \/ held[t] \notin raw

(* The unique keys: raw message, observation, mapping and review item.     *)
NoConflict(t) ==
  /\ plan[t] = "nothing" \/ held[t] \notin raw
  /\ plan[t] = "all" =>
       /\ SameKey(held[t]) = {} /\ keyOf[held[t]] \notin outbox
       /\ loaded[t].mapped \/ Subject(held[t]) \notin mapped
       /\ loaded[t].status # "none" \/ review[Subject(held[t])].status = "none"

(* All of an observation becomes visible at once, and of a review also its *)
(* item and, when it has ended, a job.  An UPDATE sets only the columns    *)
(* whose new value is not the one that was loaded.                         *)
WriteAll(t) ==
  LET m == held[t]
      i == Subject(m)
  IN  /\ obs' = obs \cup {m}
      /\ flags' = [flags EXCEPT ![m] = Audit(m, history[t])]
      /\ known' = [known EXCEPT ![m] = base[t]]
      /\ mapped' = mapped \cup {i}
      /\ review' = IF i \notin Reviews THEN review
                   ELSE [review EXCEPT ![i] =
                           [status   |-> IF loaded[t].status = StatusOf(m) THEN @.status
                                                                           ELSE StatusOf(m),
                            revision |-> keyOf[m]]]
      /\ jobs' = IF i \in Reviews /\ Life(m) = "ended" THEN jobs \cup {m} ELSE jobs
      /\ outbox' = outbox \cup {keyOf[m]}

Commit(t) ==
  /\ pc[t] = "commit" /\ NoConflict(t)
  /\ raw' = IF plan[t] = "nothing" THEN raw ELSE raw \cup {held[t]}
  /\ IF plan[t] = "all" THEN WriteAll(t)
     ELSE UNCHANGED <<obs, flags, known, mapped, review, jobs, outbox>>
  /\ Goto(t, "ack")
  /\ UNCHANGED <<unacked, held, plan, history, loaded, base, faults>>

\* Variant: the review item was updated outside of the transaction.
ConflictKeepsReview(t) ==
  /\ pc[t] = "commit" /\ ~ NoConflict(t)
  /\ plan[t] = "all"
  /\ review' = [review EXCEPT ![Subject(held[t])] =
                   [status |-> StatusOf(held[t]), revision |-> keyOf[held[t]]]]
  /\ Idle(t)
  /\ UNCHANGED <<unacked, raw, obs, flags, mapped, jobs, outbox, known, faults>>

(* IntegrityError: rollback and disconnect.                                *)
Conflict(t) ==
  /\ pc[t] = "commit" /\ ~ NoConflict(t)
  /\ Idle(t)
  /\ UNCHANGED <<unacked, tables, faults>>

Ack(t) ==
  /\ pc[t] = "ack"
  /\ unacked' = unacked \ {held[t]}
  /\ Idle(t)
  /\ UNCHANGED <<tables, faults>>

\* Variant: the message is acknowledged whatever became of it.
GiveUpAcks(t) ==
  /\ pc[t] # "idle"
  /\ faults < MaxFaults /\ faults' = faults + 1
  /\ unacked' = unacked \ {held[t]}
  /\ Idle(t)
  /\ UNCHANGED tables

(* A timeout, a database error or the death of the process, before or      *)
(* after the commit: no acknowledgement.                                   *)
GiveUp(t) ==
  /\ pc[t] # "idle"
  /\ faults < MaxFaults /\ faults' = faults + 1
  /\ Idle(t)
  /\ UNCHANGED <<unacked, tables>>

TaskStep(t) ==
  /\ \/ \E m \in Message : Receive(t, m)
     \/ LookUp(t) \/ ReadHistory(t) \/ ReadEntity(t)
     \/ Commit(t) \/ Conflict(t) \/ Ack(t)
  /\ UNCHANGED published

Next == \E t \in Task : TaskStep(t) \/ (GiveUp(t) /\ UNCHANGED published)

Spec == Init /\ [][Next]_vars

(* The client reconnects, and transactions end.                            *)
FairSpec == Spec /\ \A t \in Task : WF_vars(TaskStep(t))

-----------------------------------------------------------------------------
TypeOK ==
  /\ published \subseteq Message /\ unacked \subseteq published /\ raw \subseteq Message
  /\ obs \subseteq raw /\ jobs \subseteq obs
  /\ outbox \subseteq Key
  /\ flags \in [Message -> [partial : BOOLEAN, late : BOOLEAN, closed : BOOLEAN]]
  /\ known \in [Message -> SUBSET obs]
  /\ mapped \subseteq Entity
  /\ review \in [Entity -> [status : {"none", "active", "ended"}, revision : Key \cup {NoKey}]]
  /\ pc \in [Task -> {"idle", "lookup", "history", "entity", "commit", "ack"}]
  /\ held \in [Task -> Message \cup {NoMessage}]
  /\ plan \in [Task -> {"nothing", "raw", "all"}]
  /\ history \in [Task -> SUBSET obs] /\ base \in [Task -> SUBSET obs]
  /\ loaded \in [Task -> [mapped : BOOLEAN, status : {"none", "active", "ended"}]]
  /\ faults \in 0 .. MaxFaults
  /\ \A t \in Task : pc[t] = "idle" <=> held[t] = NoMessage

(* Persist before acknowledge: what the broker may forget is in the        *)
(* database, as an observation with its outbox row or as a raw message.    *)
AckedIsStored ==
  \A m \in published \ unacked :
    IF keyOf[m] = NoKey THEN m \in raw
    ELSE SameKey(m) # {} /\ keyOf[m] \in outbox

(* Redelivered, duplicated and concurrent messages make one observation of *)
(* a key, one mapping for each entity and one item for each review, and    *)
(* one job for each end of a review.                                       *)
PersistedOnce ==
  /\ \A m, n \in obs : keyOf[m] = keyOf[n] => m = n
  /\ outbox = {keyOf[m] : m \in obs}
  /\ mapped = {Subject(m) : m \in obs}
  /\ jobs = {m \in obs : Subject(m) \in Reviews /\ Life(m) = "ended"}
  /\ \A i \in Entity : review[i].status # "none" <=> i \in Reviews \cap mapped

KnowsMore(f, g) ==
  (f.late => g.late) /\ (f.closed => g.closed) /\ (g.partial => f.partial)

(* The audit flags are right about all that was committed of the entity    *)
(* when the message arrived, and never claim what is not there.            *)
AuditIsHonest ==
  \A m \in obs :
    /\ KnowsMore(Audit(m, About(m, known[m])), flags[m])
    /\ KnowsMore(flags[m], Audit(m, About(m, obs)))

(* A review item shows a status and a revision that observations of it     *)
(* gave it.                                                                *)
ReviewIsEarned ==
  \A i \in Entity : review[i].status # "none" =>
    /\ \E m \in obs : Subject(m) = i /\ StatusOf(m) = review[i].status
    /\ \E m \in obs : Subject(m) = i /\ keyOf[m] = review[i].revision

(* Every message is persisted and acknowledged in the end.                 *)
EventuallyIngested == \A m \in Message : <>(m \notin unacked)
=============================================================================
