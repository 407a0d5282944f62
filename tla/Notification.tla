----------------------------- MODULE Notification -----------------------------
(***************************************************************************)
(* Webhook notifications (notifications/handler.py, webhook.py).  For a    *)
(* decision to send or escalate the handler opens one transaction that     *)
(* creates or locks the action and sets it running, posts to the webhook   *)
(* outside of any transaction, and opens another one to record the result. *)
(*                                                                         *)
(* The module follows one idempotency key: the row of actions and the row  *)
(* of notifications that carry it, and the stream entries that ask for it  *)
(* (several, because the outbox may publish duplicates).  Workers of the   *)
(* notification group claim entries as in StreamWorkers, so the same entry *)
(* may be in the hands of several of them, and may be handled by one after *)
(* another one has settled it.                                             *)
(*                                                                         *)
(* Abstractions: decision and observation exist (the transaction that      *)
(* creates the decision also creates the outbox row), so the LookupErrors  *)
(* for them are left out; delivery counts stop at MaxDeliver; the counter  *)
(* "attempts" and the texts are left out.                                  *)
(***************************************************************************)
EXTENDS Naturals, FiniteSets

CONSTANTS
  Message,     \* stream entries for the key
  Worker,      \* workers of the notification group
  NoMessage,
  MaxDeliver,  \* config.max_delivery_attempts
  MaxFaults    \* bound: crashes and posts without an answer

ASSUME NotificationAssumption ==
  /\ IsFiniteSet(Worker)
  /\ NoMessage \notin Message
  /\ MaxDeliver \in Nat \ {0}
  /\ MaxFaults \in Nat

VARIABLES
  action,    \* actions.status, or "none" while there is no row
  delivery,  \* notifications.delivery_status, or "none"
  msg,       \* msg[m]: "pending", "settled" or "dead"
  count,     \* count[m]: times delivered, at most MaxDeliver
  pc,        \* pc[w]: "idle", "begin", "insert", "post", "load" or "flush"
  held,      \* held[w]: the entry w works on
  result,    \* result[w]: what deliver returned or raised
  seen,      \* seen[w]: the statuses that the last transaction has loaded
  accepted,  \* how often the receiver has accepted the notification
  rejected,  \* the receiver has rejected it
  faults

worker == <<pc, held, result, seen>>
rows   == <<action, delivery>>
vars   == <<rows, msg, count, worker, accepted, rejected, faults>>

Outcome == {"succeeded", "retryable_failure", "permanent_failure"}
Status  == {"none", "planned", "running"} \cup Outcome

Init ==
  /\ action = "none" /\ delivery = "none"
  /\ msg = [m \in Message |-> "pending"]
  /\ count = [m \in Message |-> 0]
  /\ pc = [w \in Worker |-> "idle"]
  /\ held = [w \in Worker |-> NoMessage]
  /\ result = [w \in Worker |-> "succeeded"]
  /\ seen = [w \in Worker |-> <<"none", "none">>]
  /\ accepted = 0 /\ rejected = FALSE
  /\ faults = 0

-----------------------------------------------------------------------------
(* The worker of StreamWorkers around the handler: a pending entry is      *)
(* claimed; it is acknowledged when the handler returns, and dead-lettered *)
(* when it raises at the delivery limit.                                   *)
Claim(w, m) ==
  /\ pc[w] = "idle" /\ msg[m] = "pending"
  /\ pc' = [pc EXCEPT ![w] = "begin"]
  /\ held' = [held EXCEPT ![w] = m]
  /\ count' = [count EXCEPT ![m] = IF @ < MaxDeliver THEN @ + 1 ELSE @]
  /\ UNCHANGED <<rows, msg, result, seen, accepted, rejected, faults>>

Idle(w) ==
  /\ pc' = [pc EXCEPT ![w] = "idle"]
  /\ held' = [held EXCEPT ![w] = NoMessage]

Return(w) ==
  /\ msg' = [msg EXCEPT ![held[w]] = IF @ = "pending" THEN "settled" ELSE @]
  /\ Idle(w)

Raise(w) ==
  /\ msg' = [msg EXCEPT ![held[w]] =
               IF @ = "pending" /\ count[held[w]] = MaxDeliver THEN "dead" ELSE @]
  /\ Idle(w)

-----------------------------------------------------------------------------
\* Variants: what ends a notification.
RunningIsTerminal == {"running", "succeeded", "permanent_failure"}
FailureIsTerminal == {"permanent_failure"}

Terminal == {"succeeded", "permanent_failure"}

(* First transaction: SELECT ... FOR UPDATE finds the action in a terminal *)
(* state, finds it otherwise and sets it running under the lock, or finds  *)
(* none, and then there is nothing to lock.                                *)
FindTerminal(w) ==
  /\ pc[w] = "begin" /\ action \in Terminal
  /\ Return(w)
  /\ UNCHANGED <<rows, count, result, seen, accepted, rejected, faults>>

FindAction(w) ==
  /\ pc[w] = "begin" /\ action \notin Terminal \cup {"none"}
  /\ action' = "running"
  /\ pc' = [pc EXCEPT ![w] = "post"]
  /\ UNCHANGED <<delivery, msg, count, held, result, seen, accepted, rejected, faults>>

FindNothing(w) ==
  /\ pc[w] = "begin" /\ action = "none"
  /\ pc' = [pc EXCEPT ![w] = "insert"]
  /\ UNCHANGED <<rows, msg, count, held, result, seen, accepted, rejected, faults>>

(* INSERT of both rows; the unique idempotency key lets one worker win and *)
(* raises IntegrityError in the others.                                    *)
Insert(w) ==
  /\ pc[w] = "insert" /\ action = "none"
  /\ action' = "running" /\ delivery' = "planned"
  /\ pc' = [pc EXCEPT ![w] = "post"]
  /\ UNCHANGED <<msg, count, held, result, seen, accepted, rejected, faults>>

\* Variant: INSERT ... ON CONFLICT DO UPDATE.
InsertOverwrites(w) ==
  /\ pc[w] = "insert" /\ action # "none"
  /\ action' = "running"
  /\ pc' = [pc EXCEPT ![w] = "post"]
  /\ UNCHANGED <<delivery, msg, count, held, result, seen, accepted, rejected, faults>>

InsertConflicts(w) ==
  /\ pc[w] = "insert" /\ action # "none"
  /\ Raise(w)
  /\ UNCHANGED <<rows, count, result, seen, accepted, rejected, faults>>

(* deliver: a 2xx answer, a retryable failure (a timeout, after which the  *)
(* receiver may have accepted, or a 5xx answer), or a permanent failure.   *)
Got(w, r) ==
  /\ pc' = [pc EXCEPT ![w] = "load"]
  /\ result' = [result EXCEPT ![w] = r]
  /\ UNCHANGED <<rows, msg, count, held, seen>>

PostAccepted(w) ==
  /\ pc[w] = "post"
  /\ accepted' = accepted + 1
  /\ Got(w, "succeeded")
  /\ UNCHANGED <<rejected, faults>>

PostUnanswered(w) ==
  /\ pc[w] = "post"
  /\ faults < MaxFaults /\ faults' = faults + 1
  /\ accepted' \in {accepted, accepted + 1}
  /\ Got(w, "retryable_failure")
  /\ UNCHANGED rejected

\* The client raises an error that deliver does not catch (a server that
\* hangs up before it answers), so no result is recorded.
PostBreaks(w) ==
  /\ pc[w] = "post"
  /\ faults < MaxFaults /\ faults' = faults + 1
  /\ accepted' \in {accepted, accepted + 1}
  /\ Raise(w)
  /\ UNCHANGED <<rows, count, result, seen, rejected>>

PostRejected(w) ==
  /\ pc[w] = "post"
  /\ rejected' = TRUE
  /\ Got(w, "permanent_failure")
  /\ UNCHANGED <<accepted, faults>>

(* Second transaction, or the one of _mark_failure: both rows are loaded   *)
(* without a lock, and the flush updates the columns whose new value is    *)
(* not the loaded one.                                                     *)
Load(w) ==
  /\ pc[w] = "load"
  /\ seen' = [seen EXCEPT ![w] = <<action, delivery>>]
  /\ pc' = [pc EXCEPT ![w] = "flush"]
  /\ UNCHANGED <<rows, msg, count, held, result, accepted, rejected, faults>>

\* Variant: a retryable failure is recorded, and not raised.
FinishWithoutRaise(w) == Return(w)

Finish(w) == IF result[w] = "retryable_failure" THEN Raise(w) ELSE Return(w)

Flush(w) ==
  /\ pc[w] = "flush"
  /\ action' = IF seen[w][1] = result[w] THEN action ELSE result[w]
  /\ delivery' = IF seen[w][2] = result[w] THEN delivery ELSE result[w]
  /\ Finish(w)
  /\ UNCHANGED <<count, result, seen, accepted, rejected, faults>>

(* The process dies, or the database fails so often that it makes no       *)
(* difference: the open transaction is lost, the entry stays pending.      *)
Crash(w) ==
  /\ pc[w] # "idle"
  /\ faults < MaxFaults /\ faults' = faults + 1
  /\ Idle(w)
  /\ UNCHANGED <<rows, msg, count, result, seen, accepted, rejected>>

Handle(w) ==
  \/ FindTerminal(w) \/ FindAction(w) \/ FindNothing(w)
  \/ Insert(w) \/ InsertConflicts(w)
  \/ PostAccepted(w) \/ PostRejected(w)
  \/ Load(w) \/ Flush(w)

WorkerStep(w) == Handle(w) \/ \E m \in Message : Claim(w, m)

Next == \E w \in Worker : WorkerStep(w) \/ PostUnanswered(w) \/ PostBreaks(w) \/ Crash(w)

Spec == Init /\ [][Next]_vars

(* Workers keep polling, and every post is answered or times out.          *)
FairSpec == Spec /\ \A w \in Worker : WF_vars(WorkerStep(w))

-----------------------------------------------------------------------------
TypeOK ==
  /\ action \in Status \ {"planned"} /\ delivery \in Status \ {"running"}
  /\ (action = "none") = (delivery = "none")
  /\ msg \in [Message -> {"pending", "settled", "dead"}]
  /\ count \in [Message -> 0 .. MaxDeliver]
  /\ pc \in [Worker -> {"idle", "begin", "insert", "post", "load", "flush"}]
  /\ held \in [Worker -> Message \cup {NoMessage}]
  /\ \A w \in Worker : pc[w] = "idle" <=> held[w] = NoMessage
  /\ result \in [Worker -> Outcome]
  /\ seen \in [Worker -> Status \X Status]
  /\ accepted \in Nat /\ rejected \in BOOLEAN
  /\ faults \in 0 .. MaxFaults

(* An entry is acknowledged only when the receiver has accepted or         *)
(* rejected the notification: not because somebody else is at work on it.  *)
SettledWasDecided ==
  (\E m \in Message : msg[m] = "settled") => accepted > 0 \/ rejected

(* The stored statuses do not invent an outcome.                           *)
StatusIsEarned ==
  /\ "succeeded" \in {action, delivery} => accepted > 0
  /\ "permanent_failure" \in {action, delivery} => rejected
  /\ "retryable_failure" \in {action, delivery} => faults > 0

(* The two records of a notification, its stream entries and its rows,     *)
(* claim no more than what the receiver or a failure has done.             *)
RecordsAreEarned == SettledWasDecided /\ StatusIsEarned

(* How often a receiver may see one notification: the row is no lock, so   *)
(* every worker may be at it once, and once more for each failure.         *)
AcceptancesBounded == accepted <= Cardinality(Worker) * (1 + faults)

(* When a success is recorded and nobody is at work on the key any more,   *)
(* it is recorded for good: no redelivered or duplicate entry posts again. *)
Delivered ==
  action = "succeeded" /\ \A w \in Worker : pc[w] \in {"idle", "begin", "insert"}

DeliveredForGood == [][Delivered => Delivered']_vars

(* Every entry leads to a decision of the receiver, or to the DLQ.         *)
EventuallyNotified ==
  \A m \in Message : <>(accepted > 0 \/ rejected \/ msg[m] = "dead")
=============================================================================
