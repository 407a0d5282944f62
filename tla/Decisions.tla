------------------------------ MODULE Decisions ------------------------------
(***************************************************************************)
(* The decisions and the feedback of one observation                       *)
(* (alerts/handler.py, create_feedback in api/routes/events.py).  Workers  *)
(* of the shadow group evaluate an observation under a policy (during a    *)
(* rollout under several), once per delivery of its event; users post      *)
(* feedback, which refers to the latest decision and, if there is none,    *)
(* inserts one to refer to.  Handler and request are one transaction each. *)
(*                                                                         *)
(* A transaction reads what is committed at that statement.  An INSERT     *)
(* waits while another open transaction has inserted the same revision,    *)
(* and fails when that revision is committed.  Deliveries repeat without   *)
(* bound.  Outcome, verdict and audit record are left out; two feedback    *)
(* rows never have the same created_at.                                    *)
(***************************************************************************)
EXTENDS Naturals, FiniteSets

CONSTANTS
  Policy,    \* policy id and version of the shadow rules
  Anchor,    \* "ui-feedback-anchor", the policy of the inserted decision
  Worker,
  policyOf,  \* policyOf[w]: the policy worker w is configured with
  Request,   \* feedback requests
  Nobody,
  MaxFaults  \* bound: crashes and lost connections

ASSUME DecisionsAssumption ==
  /\ Anchor \notin Policy
  /\ policyOf \in [Worker -> Policy]
  /\ Worker \cap Request = {} /\ Nobody \notin Worker \cup Request
  /\ MaxFaults \in Nat

VARIABLES
  decisions,   \* rows of decisions: revision and policy
  outbox,      \* policies whose shadow.decision.created event is stored
  holder,      \* who holds the row lock of the observation
  pc,          \* pc[t]: where worker or request t is
  latest,      \* latest[t]: the latest revision that t has read
  inserted,    \* inserted[t]: the revision in the open transaction of t, or 0
  feedback,    \* requests whose feedback row is committed
  supersedes,  \* supersedes[f]: the feedback that f replaces
  created,     \* created[f]: the time created_at of the row of f
  clock,
  base,        \* history: the feedback committed when f began
  conflicts,   \* history: how often a worker met a revision already taken
  faults

shadow == <<outbox, holder, conflicts>>
ui     == <<feedback, supersedes, created, clock, base>>
vars   == <<decisions, shadow, pc, latest, inserted, ui, faults>>

Session == Worker \cup Request

Init ==
  /\ decisions = {} /\ outbox = {} /\ holder = Nobody
  /\ pc = [t \in Session |-> IF t \in Worker THEN "idle" ELSE "new"]
  /\ latest = [t \in Session |-> 0]
  /\ inserted = [t \in Session |-> 0]
  /\ feedback = {} /\ clock = 0
  /\ supersedes = [f \in Request |-> Nobody]
  /\ created = [f \in Request |-> 0]
  /\ base = [f \in Request |-> {}]
  /\ conflicts = 0 /\ faults = 0

-----------------------------------------------------------------------------
Goto(t, s) == pc' = [pc EXCEPT ![t] = s]

Revisions == {d.revision : d \in decisions}

\* coalesce(max(revision), 0)
LatestRevision ==
  IF decisions = {} THEN 0
  ELSE CHOOSE r \in Revisions : \A q \in Revisions : q <= r

\* Variant: any decision will do for "existing".
AnyDecision(p) == decisions

DecisionsUnder(p) == {d \in decisions : d.policy = p}

Taken(r) == r \in Revisions

Awaited(t, r) == \E u \in Session \ {t} : inserted[u] = r

-----------------------------------------------------------------------------
\* Variant: no FOR UPDATE.
UnlockedAnyway == TRUE

Unlocked == holder = Nobody

(* An event of the observation is delivered, first or again; the handler   *)
(* selects the observation FOR UPDATE.                                     *)
LockObservation(w) ==
  /\ pc[w] = "idle" /\ Unlocked
  /\ holder' = w
  /\ Goto(w, "check")
  /\ UNCHANGED <<decisions, outbox, conflicts, latest, inserted, ui, faults>>

\* The end of the transaction of t, which releases its lock.
End(t, s) ==
  /\ Goto(t, s)
  /\ inserted' = [inserted EXCEPT ![t] = 0]
  /\ holder' = IF holder = t THEN Nobody ELSE holder

FindDecision(w) ==
  /\ pc[w] = "check" /\ DecisionsUnder(policyOf[w]) # {}
  /\ End(w, "idle")
  /\ UNCHANGED <<decisions, outbox, conflicts, latest, ui, faults>>

FindNoDecision(w) ==
  /\ pc[w] = "check" /\ DecisionsUnder(policyOf[w]) = {}
  /\ Goto(w, "revision")
  /\ UNCHANGED <<decisions, shadow, latest, inserted, ui, faults>>

ReadRevision(w) ==
  /\ pc[w] = "revision"
  /\ latest' = [latest EXCEPT ![w] = LatestRevision]
  /\ Goto(w, "insert")
  /\ UNCHANGED <<decisions, shadow, inserted, ui, faults>>

InsertDecision(w) ==
  LET r == latest[w] + 1
  IN  /\ pc[w] = "insert" /\ ~ Awaited(w, r) /\ ~ Taken(r)
      /\ inserted' = [inserted EXCEPT ![w] = r]
      /\ Goto(w, "commit")
      /\ UNCHANGED <<decisions, shadow, latest, ui, faults>>

(* IntegrityError: rollback, and the event will be delivered again.        *)
RevisionConflict(w) ==
  LET r == latest[w] + 1
  IN  /\ pc[w] = "insert" /\ ~ Awaited(w, r) /\ Taken(r)
      /\ conflicts' = conflicts + 1
      /\ End(w, "idle")
      /\ UNCHANGED <<decisions, outbox, latest, ui, faults>>

\* Variant: the event is stored in a transaction of its own, or never.
StoreEventLater(p) == outbox' \in {outbox, outbox \cup {p}}

StoreEvent(p) == outbox' = outbox \cup {p}

(* The decision and its outbox row, whose dedupe key is unique as well.    *)
CommitDecision(w) ==
  /\ pc[w] = "commit"
  /\ IF policyOf[w] \in outbox
     THEN UNCHANGED <<decisions, outbox>>
     ELSE /\ decisions' = decisions \cup {[revision |-> inserted[w], policy |-> policyOf[w]]}
          /\ StoreEvent(policyOf[w])
  /\ End(w, "idle")
  /\ UNCHANGED <<conflicts, latest, ui, faults>>

-----------------------------------------------------------------------------
\* Variant: the newest row is skipped.
SecondLatest(S) ==
  LET older == {f \in S : \E g \in S : created[f] < created[g]}
  IN  IF older = {} THEN Nobody ELSE CHOOSE f \in older : \A g \in older : created[g] <= created[f]

\* ORDER BY created_at DESC LIMIT 1
Latest(S) ==
  IF S = {} THEN Nobody ELSE CHOOSE f \in S : \A g \in S : created[g] <= created[f]

(* create_feedback reads the latest decision.                              *)
BeginFeedback(f) ==
  /\ pc[f] = "new"
  /\ latest' = [latest EXCEPT ![f] = LatestRevision]
  /\ base' = [base EXCEPT ![f] = feedback]
  /\ Goto(f, IF decisions = {} THEN "anchor" ELSE "previous")
  /\ UNCHANGED <<decisions, shadow, inserted, feedback, supersedes, created, clock, faults>>

InsertAnchor(f) ==
  /\ pc[f] = "anchor" /\ ~ Awaited(f, 1) /\ ~ Taken(1)
  /\ inserted' = [inserted EXCEPT ![f] = 1]
  /\ latest' = [latest EXCEPT ![f] = 1]
  /\ Goto(f, "previous")
  /\ UNCHANGED <<decisions, shadow, ui, faults>>

(* IntegrityError, answered with status 500.                               *)
AnchorConflict(f) ==
  /\ pc[f] = "anchor" /\ ~ Awaited(f, 1) /\ Taken(1)
  /\ End(f, "failed")
  /\ UNCHANGED <<decisions, outbox, conflicts, latest, ui, faults>>

ReadPrevious(f) ==
  /\ pc[f] = "previous"
  /\ supersedes' = [supersedes EXCEPT ![f] = Latest(feedback)]
  /\ Goto(f, "insert")
  /\ UNCHANGED <<decisions, shadow, latest, inserted, feedback, created, clock, base, faults>>

InsertFeedback(f) ==
  /\ pc[f] = "insert"
  /\ clock' = clock + 1
  /\ created' = [created EXCEPT ![f] = clock + 1]
  /\ Goto(f, "commit")
  /\ UNCHANGED <<decisions, shadow, latest, inserted, feedback, supersedes, base, faults>>

CommitFeedback(f) ==
  /\ pc[f] = "commit"
  /\ feedback' = feedback \cup {f}
  /\ decisions' = IF inserted[f] = 0 THEN decisions
                  ELSE decisions \cup {[revision |-> 1, policy |-> Anchor]}
  /\ End(f, "done")
  /\ UNCHANGED <<outbox, conflicts, latest, supersedes, created, clock, base, faults>>

-----------------------------------------------------------------------------
(* The process dies or loses the database: rollback.                       *)
Crash(t) ==
  /\ pc[t] \notin {"idle", "new", "done", "failed"}
  /\ faults < MaxFaults /\ faults' = faults + 1
  /\ End(t, IF t \in Worker THEN "idle" ELSE "failed")
  /\ UNCHANGED <<decisions, outbox, conflicts, latest, ui>>

Handle(w) ==
  \/ FindDecision(w) \/ FindNoDecision(w) \/ ReadRevision(w)
  \/ InsertDecision(w) \/ RevisionConflict(w) \/ CommitDecision(w)

Respond(f) ==
  \/ InsertAnchor(f) \/ AnchorConflict(f) \/ ReadPrevious(f)
  \/ InsertFeedback(f) \/ CommitFeedback(f)

Next ==
  \/ \E w \in Worker : LockObservation(w) \/ Handle(w)
  \/ \E f \in Request : BeginFeedback(f) \/ Respond(f)
  \/ \E t \in Session : Crash(t)

Spec == Init /\ [][Next]_vars

(* Events are delivered until they are handled, a lock is granted in the   *)
(* order of arrival, and statements return.  Nobody has to post feedback.  *)
FairSpec ==
  /\ Spec
  /\ \A w \in Worker : SF_vars(LockObservation(w))
  /\ \A w \in Worker : WF_vars(Handle(w))
  /\ \A f \in Request : WF_vars(Respond(f))

-----------------------------------------------------------------------------
TypeOK ==
  /\ decisions \subseteq [revision : Nat \ {0}, policy : Policy \cup {Anchor}]
  /\ outbox \subseteq Policy
  /\ holder \in Worker \cup {Nobody}
  /\ pc \in [Session -> {"idle", "check", "revision", "insert", "commit",
                         "new", "anchor", "previous", "done", "failed"}]
  /\ \A w \in Worker : pc[w] # "idle" <=> holder = w
  /\ latest \in [Session -> Nat] /\ inserted \in [Session -> Nat]
  /\ feedback \subseteq Request
  /\ supersedes \in [Request -> Request \cup {Nobody}]
  /\ created \in [Request -> Nat] /\ clock \in Nat
  /\ base \in [Request -> SUBSET feedback]
  /\ conflicts \in Nat /\ faults \in 0 .. MaxFaults

(* The decisions of an observation are numbered 1, 2, ... without gap or   *)
(* repetition, whoever inserts them.                                       *)
RevisionsAreGapless == Revisions = 1 .. Cardinality(decisions)

(* Each policy decides an observation at most once, and exactly the        *)
(* decided ones have an outbox event; the anchor is never announced and    *)
(* comes only before every decision of a policy.                           *)
DecidedOnceWithEvent ==
  /\ outbox = {d.policy : d \in decisions} \ {Anchor}
  /\ \A d, e \in decisions : d.policy = e.policy => d = e
  /\ \A d \in DecisionsUnder(Anchor) : d.revision = 1

(* The decision history of an observation is complete and announced,       *)
(* whoever writes to it.                                                   *)
HistoryIsSound == RevisionsAreGapless /\ DecidedOnceWithEvent

(* The lock leaves only the anchor to collide with, and that only once:    *)
(* collisions cannot use up the delivery limit and dead-letter an event.   *)
FewConflicts == conflicts <= 1

(* "Feedback is revisioned": two rows supersede the same one only when     *)
(* their transactions overlapped.                                          *)
ForksOverlap ==
  \A f, g \in feedback :
    f # g /\ supersedes[f] = supersedes[g] => f \notin base[g] /\ g \notin base[f]

(* An observation is decided under every policy, feedback or not.          *)
EventuallyDecided ==
  \A w \in Worker : <>(\E d \in decisions : d.policy = policyOf[w])
=============================================================================
