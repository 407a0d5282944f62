---------------------------- MODULE IngestProofs ----------------------------
(***************************************************************************)
(* What holds of ingest for any messages, any number of transactions at a  *)
(* time and any number of failures.                                        *)
(***************************************************************************)
EXTENDS Ingest, TLAPS

(* The message is in the database: what AckedIsStored asks for.            *)
Stored(m) ==
  IF keyOf[m] = NoKey THEN m \in raw
  ELSE SameKey(m) # {} /\ keyOf[m] \in outbox

(* What a transaction has read and is going to write fits its message.     *)
PlanOK ==
  \A t \in Task :
    /\ pc[t] \in {"idle", "lookup"} => plan[t] = "nothing"
    /\ pc[t] \in {"history", "entity"} => plan[t] = "all"
    /\ plan[t] = "all" => keyOf[held[t]] # NoKey
    /\ plan[t] = "raw" => keyOf[held[t]] = NoKey
    /\ pc[t] \in {"entity", "commit"} /\ plan[t] = "all" =>
         /\ About(held[t], base[t]) \subseteq history[t]
         /\ history[t] \subseteq About(held[t], obs)
    /\ loaded[t].status # "none" =>
         /\ pc[t] \in {"commit", "ack"}
         /\ review[Subject(held[t])].status # "none"

(* A raw message never stands without the observation it is made into, and *)
(* a duplicate, or a transaction that has committed, has its message in    *)
(* the database.                                                           *)
StoredOK ==
  /\ \A m \in raw : Stored(m)
  /\ \A m \in obs : keyOf[m] # NoKey
  /\ \A t \in Task : pc[t] = "commit" /\ plan[t] = "nothing" => Stored(held[t])
  /\ \A t \in Task : pc[t] = "ack" => Stored(held[t])

IInv ==
  /\ TypeOK /\ PlanOK /\ StoredOK
  /\ AckedIsStored /\ PersistedOnce /\ AuditIsHonest /\ ReviewIsEarned

-----------------------------------------------------------------------------
(* More observations make a message late or closed, and fewer partial.     *)
LEMMA AuditGrows ==
  ASSUME NEW G, NEW H, G \subseteq H, NEW m
  PROVE  KnowsMore(Audit(m, G), Audit(m, H))
BY DEF KnowsMore, Audit

(* Flags grow from one reading to the next.                                *)
LEMMA KnowsMoreTransitive ==
  ASSUME NEW f, NEW g, NEW h, KnowsMore(f, g), KnowsMore(g, h)
  PROVE  KnowsMore(f, h)
BY DEF KnowsMore

(* Nothing has been received yet.                                          *)
LEMMA IInvInit == Init => IInv
<1> SUFFICES ASSUME Init
             PROVE  IInv
  OBVIOUS
<1> USE IngestAssumption
<1>1. TypeOK
  <2>1. /\ flags \in [Message -> [partial : BOOLEAN, late : BOOLEAN, closed : BOOLEAN]]
        /\ known \in [Message -> SUBSET obs]
        /\ loaded \in [Task -> [mapped : BOOLEAN, status : {"none", "active", "ended"}]]
        /\ history \in [Task -> SUBSET obs] /\ base \in [Task -> SUBSET obs]
        /\ review \in [Entity -> [status : {"none", "active", "ended"}, revision : Key \cup {NoKey}]]
        /\ \A t \in Task : pc[t] = "idle" /\ held[t] = NoMessage
    BY DEF Init, NoFlags, NoEntity
  <2>2. /\ pc \in [Task -> {"idle", "lookup", "history", "entity", "commit", "ack"}]
        /\ held \in [Task -> Message \cup {NoMessage}]
        /\ plan \in [Task -> {"nothing", "raw", "all"}]
    BY DEF Init
  <2>3. /\ published \subseteq Message /\ unacked \subseteq published
        /\ raw \subseteq Message /\ obs \subseteq raw /\ jobs \subseteq obs
        /\ mapped \subseteq Entity /\ outbox \subseteq Key /\ faults \in 0 .. MaxFaults
    BY DEF Init
  <2>. QED
    BY <2>1, <2>2, <2>3 DEF TypeOK
<1>2. PlanOK /\ StoredOK
  BY DEF Init, PlanOK, StoredOK, NoEntity
<1>3. AckedIsStored /\ PersistedOnce /\ AuditIsHonest /\ ReviewIsEarned
  BY DEF Init, AckedIsStored, PersistedOnce, AuditIsHonest, ReviewIsEarned
<1>. QED
  BY <1>1, <1>2, <1>3 DEF IInv

(* Steps that leave the tables alone and forget no message keep what is    *)
(* said of the tables.                                                     *)
LEMMA TablesKept ==
  ASSUME IInv, UNCHANGED <<tables, published>>, \A m \in unacked \ unacked' : Stored(m)
  PROVE  /\ AckedIsStored' /\ PersistedOnce' /\ AuditIsHonest' /\ ReviewIsEarned'
         /\ \A m : Stored(m)' <=> Stored(m)
<1>1. UNCHANGED <<published, raw, obs, flags, mapped, review, jobs, outbox, known>>
  BY DEF tables
<1>2. \A m : Stored(m)' <=> Stored(m)
  BY <1>1 DEF Stored, SameKey
<1>3. AckedIsStored'
  BY <1>1 DEF IInv, AckedIsStored, SameKey, Stored
<1>4. PersistedOnce' /\ ReviewIsEarned'
  BY <1>1 DEF IInv, PersistedOnce, ReviewIsEarned
<1>5. AuditIsHonest'
  BY <1>1 DEF IInv, AuditIsHonest, About
<1>. QED
  BY <1>2, <1>3, <1>4, <1>5

(* The end of a task that leaves the tables alone.                         *)
LEMMA IdleKeeps ==
  ASSUME IInv, NEW t \in Task, Idle(t), UNCHANGED <<tables, published>>, faults' \in 0 .. MaxFaults,
         unacked' \subseteq unacked, \A m \in unacked \ unacked' : Stored(m)
  PROVE  IInv'
<1> USE IngestAssumption
<1>1. /\ pc' = [pc EXCEPT ![t] = "idle"] /\ held' = [held EXCEPT ![t] = NoMessage]
      /\ plan' = [plan EXCEPT ![t] = "nothing"] /\ history' = [history EXCEPT ![t] = {}]
      /\ loaded' = [loaded EXCEPT ![t] = [mapped |-> FALSE, status |-> "none"]]
      /\ base' = [base EXCEPT ![t] = {}]
      /\ UNCHANGED <<published, raw, obs, flags, mapped, review, jobs, outbox, known>>
  BY DEF Idle, Goto, NoEntity, tables
<1>2. TypeOK'
  BY <1>1 DEF IInv, TypeOK
<1>3. PlanOK'
  BY <1>1 DEF IInv, TypeOK, PlanOK
<1>4. StoredOK'
  BY <1>1, TablesKept DEF IInv, TypeOK, StoredOK
<1>. QED
  BY <1>2, <1>3, <1>4, TablesKept DEF IInv

(* The reads of a transaction take from the tables and leave them alone.   *)
LEMMA ReadStep ==
  ASSUME IInv, NEW t \in Task,
         \/ \E m \in Message : Receive(t, m)
         \/ LookUp(t) \/ ReadHistory(t) \/ ReadEntity(t),
         UNCHANGED published
  PROVE  IInv'
<1> USE IngestAssumption
<1>1. UNCHANGED tables /\ UNCHANGED <<published, unacked, raw, obs, flags, mapped, review, jobs, outbox, known, faults>>
  BY DEF Receive, LookUp, ReadHistory, ReadEntity, tables
<1>2. /\ AckedIsStored' /\ PersistedOnce' /\ AuditIsHonest' /\ ReviewIsEarned'
      /\ \A m : Stored(m)' <=> Stored(m)
  BY <1>1, TablesKept
<1>3. ASSUME NEW m \in Message, Receive(t, m)
      PROVE  IInv'
  <2>1. /\ pc[t] = "idle" /\ pc' = [pc EXCEPT ![t] = "lookup"]
        /\ held' = [held EXCEPT ![t] = m] /\ base' = [base EXCEPT ![t] = obs]
        /\ UNCHANGED <<plan, history, loaded>>
    BY <1>3 DEF Receive, Goto
  <2>2. TypeOK'
    BY <1>1, <2>1 DEF IInv, TypeOK
  <2>3. PlanOK'
    BY <1>1, <2>1 DEF IInv, TypeOK, PlanOK
  <2>4. StoredOK'
    BY <1>1, <1>2, <2>1 DEF IInv, TypeOK, StoredOK
  <2>. QED
    BY <1>2, <2>2, <2>3, <2>4 DEF IInv
<1>4. CASE LookUp(t)
  <2>1. /\ pc[t] = "lookup" /\ held[t] \in Message /\ plan[t] = "nothing"
        /\ UNCHANGED <<held, history, loaded, base>>
    BY <1>4 DEF LookUp, IInv, TypeOK, PlanOK
  <2>2. CASE /\ held[t] \in raw \/ (keyOf[held[t]] # NoKey /\ SameKey(held[t]) # {})
             /\ Goto(t, "commit") /\ UNCHANGED plan
    <3>1. pc' = [pc EXCEPT ![t] = "commit"]
      BY <2>2 DEF Goto
    <3>2. Stored(held[t])
      <4>1. CASE held[t] \in raw
        BY <4>1 DEF IInv, StoredOK
      <4>2. CASE keyOf[held[t]] # NoKey /\ SameKey(held[t]) # {}
        BY <4>2 DEF IInv, PersistedOnce, Stored, SameKey
      <4>. QED
        BY <2>2, <4>1, <4>2
    <3>3. TypeOK'
      BY <1>1, <2>1, <2>2, <3>1 DEF IInv, TypeOK
    <3>4. PlanOK'
      BY <1>1, <2>1, <2>2, <3>1 DEF IInv, TypeOK, PlanOK
    <3>5. StoredOK'
      BY <1>1, <1>2, <2>1, <2>2, <3>1, <3>2 DEF IInv, TypeOK, StoredOK
    <3>. QED
      BY <1>2, <3>3, <3>4, <3>5 DEF IInv
  <2>3. ASSUME NEW p, NEW s,
               \/ p = "raw" /\ s = "commit" /\ keyOf[held[t]] = NoKey
               \/ p = "all" /\ s = "history" /\ keyOf[held[t]] # NoKey,
               pc' = [pc EXCEPT ![t] = s], plan' = [plan EXCEPT ![t] = p]
        PROVE  IInv'
    <3>1. TypeOK'
      BY <1>1, <2>1, <2>3 DEF IInv, TypeOK
    <3>2. PlanOK'
      BY <1>1, <2>1, <2>3 DEF IInv, TypeOK, PlanOK
    <3>3. StoredOK'
      BY <1>1, <1>2, <2>1, <2>3 DEF IInv, TypeOK, StoredOK
    <3>. QED
      BY <1>2, <3>1, <3>2, <3>3 DEF IInv
  <2>. QED
    BY <1>4, <2>2, <2>3 DEF LookUp, Goto
<1>5. CASE ReadHistory(t)
  <2>1. /\ pc[t] = "history" /\ pc' = [pc EXCEPT ![t] = "entity"]
        /\ history' = [history EXCEPT ![t] = About(held[t], obs)]
        /\ UNCHANGED <<held, plan, loaded, base>>
    BY <1>5 DEF ReadHistory, Goto
  <2>2. TypeOK'
    <3>1. history' \in [Task -> SUBSET obs]
      BY <2>1 DEF IInv, TypeOK, About
    <3>. QED
      BY <1>1, <2>1, <3>1 DEF IInv, TypeOK
  <2>3. PlanOK'
    <3>1. /\ history'[t] = About(held[t], obs)
          /\ \A u \in Task \ {t} : history'[u] = history[u] /\ pc'[u] = pc[u]
          /\ pc'[t] = "entity" /\ plan[t] = "all"
      BY <2>1 DEF IInv, TypeOK, PlanOK
    <3>2. About(held[t], base[t]) \subseteq history'[t]
      BY <3>1 DEF IInv, TypeOK, About
    <3>3. loaded[t].status = "none"
      BY <2>1 DEF IInv, PlanOK
    <3>. QED
      BY <1>1, <2>1, <3>1, <3>2, <3>3 DEF IInv, PlanOK, About
  <2>4. StoredOK'
    BY <1>1, <1>2, <2>1 DEF IInv, TypeOK, StoredOK
  <2>. QED
    BY <1>2, <2>2, <2>3, <2>4 DEF IInv
<1>6. CASE ReadEntity(t)
  <2>1. /\ pc[t] = "entity" /\ pc' = [pc EXCEPT ![t] = "commit"]
        /\ loaded' = [loaded EXCEPT ![t] =
             [mapped |-> Subject(held[t]) \in mapped, status |-> review[Subject(held[t])].status]]
        /\ UNCHANGED <<held, plan, history, base>>
    BY <1>6 DEF ReadEntity, Goto
  <2>2. loaded' \in [Task -> [mapped : BOOLEAN, status : {"none", "active", "ended"}]]
    <3>1. [mapped |-> Subject(held[t]) \in mapped, status |-> review[Subject(held[t])].status] \in
            [mapped : BOOLEAN, status : {"none", "active", "ended"}]
      <4>1. Subject(held[t]) \in Entity
        BY <2>1 DEF IInv, TypeOK, PlanOK, Subject
      <4>2. review[Subject(held[t])].status \in {"none", "active", "ended"}
        BY <4>1 DEF IInv, TypeOK
      <4>. QED
        BY <4>2
    <3>2. loaded \in [Task -> [mapped : BOOLEAN, status : {"none", "active", "ended"}]]
      BY DEF IInv, TypeOK
    <3>. QED
      BY <2>1, <3>1, <3>2
  <2>3. TypeOK'
    BY <1>1, <2>1, <2>2 DEF IInv, TypeOK
  <2>4. PlanOK'
    <3>1. loaded'[t].status = review[Subject(held[t])].status /\ \A u \in Task \ {t} : loaded'[u] = loaded[u]
      BY <2>1 DEF IInv, TypeOK
    <3>2. plan[t] = "all"
      BY <2>1 DEF IInv, PlanOK
    <3>. QED
      BY <1>1, <2>1, <3>1, <3>2 DEF IInv, TypeOK, PlanOK
  <2>5. StoredOK'
    <3>1. plan[t] = "all"
      BY <2>1 DEF IInv, PlanOK
    <3>. QED
      BY <1>1, <1>2, <2>1, <3>1 DEF IInv, TypeOK, StoredOK
  <2>. QED
    BY <1>2, <2>3, <2>4, <2>5 DEF IInv
<1>. QED
  BY <1>3, <1>4, <1>5, <1>6

(* A message that is stored stays stored while tables only grow.           *)
LEMMA StaysStored ==
  ASSUME raw \subseteq raw', obs \subseteq obs', outbox \subseteq outbox',
         NEW m, Stored(m)
  PROVE  Stored(m)'
BY DEF Stored, SameKey

(* A duplicate, or a message without a key, is committed.                  *)
LEMMA CommitRawStep ==
  ASSUME IInv, NEW t \in Task, Commit(t), UNCHANGED published, plan[t] # "all"
  PROVE  IInv'
<1> USE IngestAssumption
<1>1. /\ pc[t] = "commit" /\ pc' = [pc EXCEPT ![t] = "ack"]
      /\ raw' = IF plan[t] = "nothing" THEN raw ELSE raw \cup {held[t]}
      /\ UNCHANGED <<unacked, obs, flags, known, mapped, review, jobs, outbox,
                     held, plan, history, loaded, base, faults>>
  BY DEF Commit, Goto
<1>2. plan[t] \in {"nothing", "raw"} /\ held[t] \in Message
  BY <1>1 DEF IInv, TypeOK
<1>3. TypeOK'
  BY <1>1, <1>2 DEF IInv, TypeOK
<1>4. PlanOK'
  BY <1>1 DEF IInv, TypeOK, PlanOK
<1>5. \A m : Stored(m) => Stored(m)'
  BY <1>1, StaysStored
<1>6. Stored(held[t])'
  <2>1. CASE plan[t] = "nothing"
    BY <1>1, <1>5, <2>1 DEF IInv, StoredOK
  <2>2. CASE plan[t] = "raw"
    BY <1>1, <2>2 DEF IInv, PlanOK, Stored
  <2>. QED
    BY <1>2, <2>1, <2>2
<1>7. StoredOK'
  <2>1. \A m \in raw' : Stored(m)'
    BY <1>1, <1>5, <1>6 DEF IInv, StoredOK
  <2>2. ASSUME NEW u \in Task, pc'[u] = "commit" /\ plan'[u] = "nothing"
        PROVE  Stored(held[u])'
    <3>1. Stored(held[u]) /\ held'[u] = held[u]
      BY <1>1, <2>2 DEF IInv, TypeOK, StoredOK
    <3>. QED
      BY <1>1, <3>1, StaysStored
  <2>3. ASSUME NEW u \in Task, pc'[u] = "ack"
        PROVE  Stored(held[u])'
    <3>1. CASE u = t
      BY <1>6, <3>1
    <3>2. CASE u # t
      <4>1. Stored(held[u])
        BY <1>1, <2>3, <3>2 DEF IInv, TypeOK, StoredOK
      <4>. QED
        BY <1>1, <4>1 DEF Stored, SameKey
    <3>. QED
      BY <3>1, <3>2
  <2>. QED
    BY <1>1, <2>1, <2>2, <2>3 DEF IInv, StoredOK
<1>8. AckedIsStored'
  <2>1. \A m \in published \ unacked : Stored(m)'
    BY <1>5 DEF IInv, AckedIsStored, Stored
  <2>. QED
    BY <1>1, <2>1 DEF AckedIsStored, Stored
<1>9. PersistedOnce' /\ ReviewIsEarned'
  BY <1>1 DEF IInv, PersistedOnce, ReviewIsEarned
<1>10. AuditIsHonest'
  BY <1>1 DEF IInv, AuditIsHonest, About
<1>. QED
  BY <1>3, <1>4, <1>7, <1>8, <1>9, <1>10 DEF IInv
(* An observation is committed, with all that belongs to it.               *)
LEMMA CommitAllStep ==
  ASSUME IInv, NEW t \in Task, Commit(t), UNCHANGED published, plan[t] = "all"
  PROVE  IInv'
<1> USE IngestAssumption
<1>0. PICK new \in Message : new = held[t]
  BY DEF Commit, IInv, TypeOK
<1>0i. PICK i : i = Subject(new)
  OBVIOUS
<1>1. /\ pc[t] = "commit" /\ pc' = [pc EXCEPT ![t] = "ack"]
      /\ raw' = raw \cup {new} /\ obs' = obs \cup {new}
      /\ flags' = [flags EXCEPT ![new] = Audit(new, history[t])]
      /\ known' = [known EXCEPT ![new] = base[t]]
      /\ mapped' = mapped \cup {i}
      /\ review' = IF i \notin Reviews THEN review
                   ELSE [review EXCEPT ![i] =
                           [status   |-> IF loaded[t].status = StatusOf(new) THEN @.status
                                                                             ELSE StatusOf(new),
                            revision |-> keyOf[new]]]
      /\ jobs' = IF i \in Reviews /\ Life(new) = "ended" THEN jobs \cup {new} ELSE jobs
      /\ outbox' = outbox \cup {keyOf[new]}
      /\ UNCHANGED <<published, unacked, held, plan, history, loaded, base, faults>>
  BY <1>0, <1>0i DEF Commit, WriteAll, Goto
<1>2. new \in Message /\ keyOf[new] \in Key /\ keyOf[new] # NoKey /\ i \in Entity
  BY <1>0, <1>0i DEF IInv, TypeOK, PlanOK, Subject
<1>3. SameKey(new) = {} /\ new \notin obs
  BY <1>0 DEF Commit, NoConflict, SameKey
<1>4. Audit(new, history[t]) \in [partial : BOOLEAN, late : BOOLEAN, closed : BOOLEAN]
  BY DEF Audit
<1>5. /\ review' \in [Entity -> [status : {"none", "active", "ended"}, revision : Key \cup {NoKey}]]
      /\ \A j \in Entity : j # i \/ j \notin Reviews => review'[j] = review[j]
      /\ i \in Reviews =>
           /\ review'[i].status # "none" /\ review'[i].revision = keyOf[new]
           /\ review'[i].status = StatusOf(new) \/ review'[i].status = review[i].status
  <2>1. review \in [Entity -> [status : {"none", "active", "ended"}, revision : Key \cup {NoKey}]]
    BY DEF IInv, TypeOK
  <2>2. CASE i \notin Reviews
    BY <1>1, <2>1, <2>2
  <2>3. CASE i \in Reviews
    <3>1. StatusOf(new) \in {"active", "ended"}
      BY DEF StatusOf
    <3>2. loaded[t].status # "none" => review[i].status # "none"
      BY <1>0, <1>0i DEF IInv, PlanOK
    <3>3. PICK st \in {"none", "active", "ended"} :
            /\ st = IF loaded[t].status = StatusOf(new) THEN review[i].status ELSE StatusOf(new)
            /\ st # "none"
      BY <1>2, <2>1, <3>1, <3>2
    <3>4. review' = [review EXCEPT ![i] = [status |-> st, revision |-> keyOf[new]]]
      BY <1>1, <2>3, <3>3
    <3>5. review'[i] = [status |-> st, revision |-> keyOf[new]]
      BY <1>2, <2>1, <3>4
    <3>6. /\ review' \in [Entity -> [status : {"none", "active", "ended"}, revision : Key \cup {NoKey}]]
          /\ \A j \in Entity : j # i => review'[j] = review[j]
      BY <1>2, <2>1, <3>4
    <3>. QED
      BY <2>3, <3>3, <3>5, <3>6
  <2>. QED
    BY <2>2, <2>3
<1>6. /\ obs \subseteq Message
      /\ About(new, base[t]) \subseteq history[t] /\ history[t] \subseteq About(new, obs)
      /\ base[t] \subseteq obs
      /\ flags \in [Message -> [partial : BOOLEAN, late : BOOLEAN, closed : BOOLEAN]]
      /\ known \in [Message -> SUBSET obs]
  BY <1>0, <1>1 DEF IInv, TypeOK, PlanOK
<1>7. /\ flags' \in [Message -> [partial : BOOLEAN, late : BOOLEAN, closed : BOOLEAN]]
      /\ flags'[new] = Audit(new, history[t])
      /\ \A m \in obs : flags'[m] = flags[m]
  BY <1>1, <1>2, <1>3, <1>4, <1>6
<1>8. /\ known' \in [Message -> SUBSET obs'] /\ known'[new] = base[t]
      /\ \A m \in obs : known'[m] = known[m]
  BY <1>1, <1>2, <1>3, <1>6
<1>9. TypeOK'
  <2>1. history' \in [Task -> SUBSET obs'] /\ base' \in [Task -> SUBSET obs']
    BY <1>1 DEF IInv, TypeOK
  <2>2. /\ published' \subseteq Message /\ unacked' \subseteq published'
        /\ raw' \subseteq Message /\ obs' \subseteq raw' /\ jobs' \subseteq obs'
        /\ outbox' \subseteq Key /\ mapped' \subseteq Entity
    BY <1>1, <1>2 DEF IInv, TypeOK
  <2>4. /\ pc' \in [Task -> {"idle", "lookup", "history", "entity", "commit", "ack"}]
        /\ held' \in [Task -> Message \cup {NoMessage}]
        /\ plan' \in [Task -> {"nothing", "raw", "all"}]
        /\ loaded' \in [Task -> [mapped : BOOLEAN, status : {"none", "active", "ended"}]]
        /\ faults' \in 0 .. MaxFaults
        /\ \A u \in Task : pc'[u] = "idle" <=> held'[u] = NoMessage
    BY <1>1 DEF IInv, TypeOK
  <2>. QED
    BY <1>5, <1>7, <1>8, <2>1, <2>2, <2>4 DEF TypeOK
<1>10. PlanOK'
  <2>1. ASSUME NEW u \in Task, loaded'[u].status # "none"
        PROVE  /\ pc'[u] \in {"commit", "ack"}
               /\ review'[Subject(held[u])].status # "none"
    <3>1. /\ pc[u] \in {"commit", "ack"} /\ review[Subject(held[u])].status # "none"
      BY <1>1, <2>1 DEF IInv, PlanOK
    <3>2. review'[Subject(held[u])].status # "none"
      <4>1. CASE Subject(held[u]) = i /\ i \in Reviews
        BY <1>5, <4>1
      <4>2. CASE Subject(held[u]) # i \/ i \notin Reviews
        BY <1>1, <3>1, <4>2
      <4>. QED
        BY <4>1, <4>2
    <3>. QED
      BY <1>1, <3>1, <3>2 DEF IInv, TypeOK
  <2>2. ASSUME NEW u \in Task
        PROVE  /\ pc'[u] \in {"idle", "lookup"} => plan'[u] = "nothing"
               /\ pc'[u] \in {"history", "entity"} => plan'[u] = "all"
               /\ plan'[u] = "all" => keyOf[held'[u]] # NoKey
               /\ plan'[u] = "raw" => keyOf[held'[u]] = NoKey
    BY <1>1 DEF IInv, TypeOK, PlanOK
  <2>3. ASSUME NEW u \in Task, pc'[u] \in {"entity", "commit"}, plan'[u] = "all"
        PROVE  /\ About(held[u], base[u]) \subseteq history[u]
               /\ history[u] \subseteq About(held[u], obs')
    <3>1. pc[u] = pc'[u] /\ plan[u] = "all"
      BY <1>1, <2>3 DEF IInv, TypeOK
    <3>2. /\ About(held[u], base[u]) \subseteq history[u]
          /\ history[u] \subseteq About(held[u], obs)
      BY <2>3, <3>1 DEF IInv, PlanOK
    <3>. QED
      BY <1>1, <3>2 DEF About
  <2>. QED
    BY <1>1, <2>1, <2>2, <2>3 DEF PlanOK, About, Subject
<1>11. \A m : Stored(m) => Stored(m)'
  BY <1>1, StaysStored
<1>12. Stored(new)'
  <2>1. new \in obs' /\ keyOf[new] \in outbox'
    BY <1>1
  <2>. QED
    BY <1>2, <2>1 DEF Stored, SameKey
<1>13. StoredOK'
  <2>1. ASSUME NEW m \in raw'
        PROVE  Stored(m)'
    <3>1. m = new \/ Stored(m)
      BY <1>1 DEF IInv, StoredOK
    <3>2. CASE m = new
      BY <1>12, <3>2
    <3>. QED
      BY <1>11, <3>1, <3>2
  <2>2. \A m \in obs' : keyOf[m] # NoKey
    BY <1>1, <1>2 DEF IInv, StoredOK
  <2>3. ASSUME NEW u \in Task, pc'[u] = "commit" /\ plan'[u] = "nothing"
        PROVE  Stored(held[u])'
    <3>1. Stored(held[u])
      BY <1>1, <2>3 DEF IInv, TypeOK, StoredOK
    <3>. QED
      BY <1>1, <3>1 DEF Stored, SameKey
  <2>4. ASSUME NEW u \in Task, pc'[u] = "ack"
        PROVE  Stored(held[u])'
    <3>1. CASE u = t
      BY <1>0, <1>1, <1>12, <3>1 DEF Stored, SameKey
    <3>2. CASE u # t
      <4>1. Stored(held[u])
        BY <1>1, <2>4, <3>2 DEF IInv, TypeOK, StoredOK
      <4>. QED
        BY <1>1, <4>1 DEF Stored, SameKey
    <3>. QED
      BY <3>1, <3>2
  <2>. QED
    BY <1>1, <2>1, <2>2, <2>3, <2>4 DEF StoredOK
<1>14. AckedIsStored'
  <2>1. \A m \in published \ unacked : Stored(m)'
    BY <1>11 DEF IInv, AckedIsStored, Stored
  <2>. QED
    BY <1>1, <2>1 DEF AckedIsStored, Stored
<1>15. PersistedOnce'
  <2>1. \A m \in obs : keyOf[m] # keyOf[new]
    BY <1>3 DEF SameKey
  <2>2. \A m, n \in obs' : keyOf[m] = keyOf[n] => m = n
    BY <1>1, <2>1 DEF IInv, PersistedOnce
  <2>3. outbox' = {keyOf[m] : m \in obs'}
    BY <1>1 DEF IInv, PersistedOnce
  <2>4. jobs' = {m \in obs' : Subject(m) \in Reviews /\ Life(m) = "ended"}
    BY <1>0i, <1>1 DEF IInv, PersistedOnce
  <2>5. mapped' = {Subject(m) : m \in obs'}
    BY <1>0i, <1>1 DEF IInv, PersistedOnce
  <2>6. \A j \in Entity : review'[j].status # "none" <=> j \in Reviews \cap mapped'
    BY <1>1, <1>2, <1>5 DEF IInv, PersistedOnce
  <2>. QED
    BY <2>2, <2>3, <2>4, <2>5, <2>6 DEF PersistedOnce, Life, Subject
(* What the transaction has read lies between what was committed when its  *)
(* message arrived and what is committed now.                              *)
<1>16. AuditIsHonest'
  <2>1. ASSUME NEW m \in obs', m # new
        PROVE  /\ KnowsMore(Audit(m, About(m, known'[m])), flags'[m])
               /\ KnowsMore(flags'[m], Audit(m, About(m, obs')))
    <3>1. /\ m \in obs /\ flags'[m] = flags[m] /\ known'[m] = known[m]
          /\ About(m, obs) \subseteq About(m, obs')
      BY <1>1, <1>7, <1>8, <2>1 DEF About
    <3>2. /\ KnowsMore(Audit(m, About(m, known[m])), flags[m])
          /\ KnowsMore(flags[m], Audit(m, About(m, obs)))
      BY <3>1 DEF IInv, AuditIsHonest
    <3>3. KnowsMore(Audit(m, About(m, obs)), Audit(m, About(m, obs')))
      BY <3>1, AuditGrows
    <3>. QED
      BY <3>1, <3>2, <3>3, KnowsMoreTransitive
  <2>2. /\ KnowsMore(Audit(new, About(new, known'[new])), flags'[new])
        /\ KnowsMore(flags'[new], Audit(new, About(new, obs')))
    <3>1. history[t] \subseteq About(new, obs')
      BY <1>1, <1>6 DEF About
    <3>2. KnowsMore(Audit(new, About(new, base[t])), Audit(new, history[t]))
      BY <1>6, AuditGrows
    <3>3. KnowsMore(Audit(new, history[t]), Audit(new, About(new, obs')))
      BY <3>1, AuditGrows
    <3>4. known'[new] = base[t] /\ flags'[new] = Audit(new, history[t])
      BY <1>7, <1>8
    <3>. QED
      BY <3>2, <3>3, <3>4, Zenon
  <2>. QED
    BY <2>1, <2>2 DEF AuditIsHonest
<1>17. ReviewIsEarned'
  <2>1. new \in obs' /\ obs \subseteq obs'
    BY <1>1
  <2>2. ASSUME NEW j \in Entity, review'[j].status # "none"
        PROVE  /\ \E m \in obs' : Subject(m) = j /\ StatusOf(m) = review'[j].status
               /\ \E m \in obs' : Subject(m) = j /\ keyOf[m] = review'[j].revision
    <3>1. CASE j = i /\ i \in Reviews
      BY <1>0i, <1>5, <2>1, <2>2, <3>1 DEF IInv, ReviewIsEarned
    <3>2. CASE j # i \/ j \notin Reviews
      BY <1>5, <2>1, <2>2, <3>2 DEF IInv, ReviewIsEarned
    <3>. QED
      BY <3>1, <3>2
  <2>. QED
    BY <2>2 DEF ReviewIsEarned, StatusOf, Life, Subject
<1>. QED
  BY <1>9, <1>10, <1>13, <1>14, <1>15, <1>16, <1>17 DEF IInv

(* So every step keeps the invariant.                                      *)
LEMMA IInvStep == IInv /\ [Next]_vars => IInv'
<1> SUFFICES ASSUME IInv, [Next]_vars
             PROVE  IInv'
  OBVIOUS
<1>1. ASSUME NEW t \in Task, Commit(t), UNCHANGED published
      PROVE  IInv'
  BY <1>1, CommitRawStep, CommitAllStep
<1>2. ASSUME NEW t \in Task, Conflict(t), UNCHANGED published
      PROVE  IInv'
  BY <1>2, IdleKeeps DEF Conflict, IInv, TypeOK
<1>3. ASSUME NEW t \in Task, Ack(t), UNCHANGED published
      PROVE  IInv'
  <2>1. Stored(held[t])
    BY <1>3 DEF Ack, IInv, StoredOK
  <2>2. /\ unacked' = unacked \ {held[t]} /\ Idle(t) /\ UNCHANGED <<tables, published>>
        /\ faults' \in 0 .. MaxFaults
    BY <1>3 DEF Ack, IInv, TypeOK
  <2>. QED
    BY <2>1, <2>2, IdleKeeps
<1>4. ASSUME NEW t \in Task, GiveUp(t), UNCHANGED published
      PROVE  IInv'
  <2>1. faults' \in 0 .. MaxFaults
    BY <1>4, IngestAssumption DEF GiveUp, IInv, TypeOK
  <2>. QED
    BY <1>4, <2>1, IdleKeeps DEF GiveUp
<1>5. CASE UNCHANGED vars
  <2>1. UNCHANGED <<published, unacked, raw, obs, flags, mapped, review, jobs, outbox, known,
                    pc, held, plan, history, loaded, base, faults>>
    BY <1>5 DEF vars, tables, tasks
  <2>2. TypeOK' /\ PlanOK'
    BY <2>1 DEF IInv, TypeOK, PlanOK
  <2>3. StoredOK'
    BY <2>1 DEF IInv, StoredOK, Stored, SameKey
  <2>. QED
    BY <1>5, <2>1, <2>2, <2>3, TablesKept DEF IInv, vars
<1>. QED
  BY <1>1, <1>2, <1>3, <1>4, <1>5, ReadStep DEF Next, TaskStep

-----------------------------------------------------------------------------
(* Type correctness.                                                       *)
THEOREM TypeCorrect == Spec => []TypeOK
<1>1. Spec => []IInv
  BY IInvInit, IInvStep, PTL DEF Spec
<1>2. IInv => TypeOK
  BY DEF IInv
<1>. QED
  BY <1>1, <1>2, PTL

(* Persist before acknowledge: no message is lost, wherever a timeout or a *)
(* crash strikes and however transactions overlap.                         *)
THEOREM NoMessageLost == Spec => []AckedIsStored
<1>1. Spec => []IInv
  BY IInvInit, IInvStep, PTL DEF Spec
<1>2. IInv => AckedIsStored
  BY DEF IInv
<1>. QED
  BY <1>1, <1>2, PTL

(* Deliveries may repeat and overlap: an observation is persisted once,    *)
(* with its outbox row and, when it ends the review item, its job.         *)
THEOREM OneObservation == Spec => []PersistedOnce
<1>1. Spec => []IInv
  BY IInvInit, IInvStep, PTL DEF Spec
<1>2. IInv => PersistedOnce
  BY DEF IInv
<1>. QED
  BY <1>1, <1>2, PTL

(* The audit flags know all that was committed when the message arrived,   *)
(* and nothing that is not there.                                          *)
THEOREM HonestAudit == Spec => []AuditIsHonest
<1>1. Spec => []IInv
  BY IInvInit, IInvStep, PTL DEF Spec
<1>2. IInv => AuditIsHonest
  BY DEF IInv
<1>. QED
  BY <1>1, <1>2, PTL

(* Whatever transactions read and write in between, the review item shows  *)
(* a status and a revision that some observation gave it.                  *)
THEOREM EarnedReview == Spec => []ReviewIsEarned
<1>1. Spec => []IInv
  BY IInvInit, IInvStep, PTL DEF Spec
<1>2. IInv => ReviewIsEarned
  BY DEF IInv
<1>. QED
  BY <1>1, <1>2, PTL
=============================================================================
