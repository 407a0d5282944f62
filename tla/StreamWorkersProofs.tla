------------------------- MODULE StreamWorkersProofs -------------------------
(***************************************************************************)
(* What holds of the stream workers for every set of groups and workers,   *)
(* every batch size and every delivery limit: no entry is lost, the        *)
(* workers implement AtLeastOnceDelivery, and dead letters are earned.     *)
(***************************************************************************)
EXTENDS StreamWorkers, FiniteSetTheorems, NaturalsInduction, WellFoundedInduction, TLAPS

(* The entry a busy worker is at lies in its batch and in the stream.      *)
LEMMA CurrentInBatch ==
  ASSUME TypeOK, NEW w \in Worker, wpc[w] # "poll"
  PROVE  /\ Current(w) \in batch[w]
         /\ Current(w) \in 1 .. lastId[groupOf[w]]
         /\ Current(w) \in EntryId /\ Current(w) \in 1 .. Len(stream)
         /\ groupOf[w] \in Group
<1>1. /\ batch[w] # {} /\ batch[w] \subseteq 1 .. lastId[groupOf[w]]
      /\ groupOf[w] \in Group /\ lastId[groupOf[w]] \in Nat
      /\ lastId[groupOf[w]] <= Len(stream) /\ Len(stream) <= MaxEntries
      /\ Len(stream) \in Nat /\ MaxEntries \in Nat
  BY WorkersAssumption DEF TypeOK
<1>2. batch[w] \subseteq Nat
  BY <1>1
<1>3. Current(w) \in batch[w]
  <2> DEFINE Below == {m \in Nat \X Nat : m[1] < m[2]}
  <2>1. IsWellFoundedOn(Below, Nat)
    BY NatLessThanWellFounded DEF OpToRel
  <2>2. PICK e \in batch[w] : \A f \in batch[w] : <<f, e>> \notin Below
    BY <1>1, <1>2, <2>1, WFMin
  <2>3. \A f \in batch[w] : ~ (f < e)
    BY <1>2, <2>2
  <2>. QED
    BY <1>2, <2>3 DEF Current, Least
<1>. QED
  BY <1>1, <1>3 DEF EntryId

(* The initial state is of the type.                                       *)
LEMMA TypeInit == Init => TypeOK
BY WorkersAssumption DEF Init, TypeOK

(* Redis hands out entries of the stream, up to a count.                   *)
LEMMA DeliverTyped ==
  ASSUME TypeOK, NEW w \in Worker, NEW S \in SUBSET EntryId, S # {}, Deliver(w, S)
  PROVE  /\ batch' = [batch EXCEPT ![w] = S]
         /\ wpc' = [wpc EXCEPT ![w] = "run"]
         /\ count' \in [Group -> [EntryId -> 0 .. MaxDeliver]]
<1>1. groupOf[w] \in Group /\ MaxDeliver \in Nat \ {0}
  BY WorkersAssumption
<1>2. \A e \in EntryId : count[groupOf[w]][e] \in 0 .. MaxDeliver
  BY <1>1 DEF TypeOK
<1>3. \A e \in EntryId : Smaller(count[groupOf[w]][e] + 1, MaxDeliver) \in 0 .. MaxDeliver
  BY <1>1, <1>2 DEF Smaller
<1>4. [e \in EntryId |-> IF e \in S THEN Smaller(count[groupOf[w]][e] + 1, MaxDeliver)
                                    ELSE count[groupOf[w]][e]] \in [EntryId -> 0 .. MaxDeliver]
  BY <1>2, <1>3
<1>5. count' = [count EXCEPT ![groupOf[w]] =
                  [e \in EntryId |-> IF e \in S THEN Smaller(count[groupOf[w]][e] + 1, MaxDeliver)
                                                ELSE count[groupOf[w]][e]]]
  BY DEF Deliver
<1>6. count' \in [Group -> [EntryId -> 0 .. MaxDeliver]]
  BY <1>4, <1>5 DEF TypeOK
<1>. QED
  BY <1>6 DEF Deliver

(* A worker that is done with a message goes on to the next, or polls      *)
(* again.                                                                  *)
LEMMA NextMessageTyped ==
  ASSUME TypeOK, NEW w \in Worker, NextMessage(w)
  PROVE  /\ wpc' \in [Worker -> {"poll", "run", "ack", "count", "dead"}]
         /\ batch' \in [Worker -> SUBSET EntryId]
         /\ \A v \in Worker : /\ wpc'[v] = "poll" <=> batch'[v] = {}
                              /\ batch'[v] \subseteq batch[v]
         /\ wpc'[w] # "ack" /\ \A v \in Worker \ {w} : wpc'[v] = wpc[v] /\ batch'[v] = batch[v]
BY DEF TypeOK, NextMessage

(* Every step keeps the type.                                              *)
LEMMA TypeStep == TypeOK /\ [Next]_vars => TypeOK'
<1> SUFFICES ASSUME TypeOK, [Next]_vars
             PROVE  TypeOK'
  OBVIOUS
<1> USE WorkersAssumption
<1>1. ASSUME NEW r \in Row, AppendEntry(r)
      PROVE  TypeOK'
  BY <1>1 DEF TypeOK, AppendEntry, groupVars
<1>2. ASSUME NEW w \in Worker, EnsureGroup(w)
      PROVE  TypeOK'
  BY <1>2 DEF TypeOK, EnsureGroup
<1>3. ASSUME NEW w \in Worker, Claim(w)
      PROVE  TypeOK'
  <2>1. PICK S \in (SUBSET pel[groupOf[w]]) \ {{}} : Deliver(w, S)
    BY <1>3 DEF Claim
  <2>2. S \in SUBSET EntryId /\ S # {} /\ S \subseteq 1 .. lastId[groupOf[w]]
    BY <2>1 DEF TypeOK
  <2>3. UNCHANGED <<stream, created, lastId, pel, dlq, handled, wfaults>>
    BY <1>3 DEF Claim
  <2>4. /\ batch' = [batch EXCEPT ![w] = S] /\ wpc' = [wpc EXCEPT ![w] = "run"]
        /\ count' \in [Group -> [EntryId -> 0 .. MaxDeliver]]
    BY <2>1, <2>2, DeliverTyped
  <2>5. \A v \in Worker : /\ wpc'[v] = "poll" <=> batch'[v] = {}
                          /\ batch'[v] \subseteq 1 .. lastId'[groupOf[v]]
    BY <2>2, <2>3, <2>4 DEF TypeOK
  <2>. QED
    BY <2>2, <2>3, <2>4, <2>5 DEF TypeOK
<1>4. ASSUME NEW w \in Worker, ReadNew(w)
      PROVE  TypeOK'
  <2>1. PICK g \in Group : g = groupOf[w]
    OBVIOUS
  <2>2. PICK n \in Nat : /\ n = Smaller(lastId[g] + BatchSize, Len(stream))
                         /\ n > lastId[g] /\ n <= Len(stream)
    <3>1. lastId[g] \in Nat /\ Len(stream) \in Nat /\ lastId[g] < Len(stream)
      BY <1>4, <2>1 DEF ReadNew, TypeOK
    <3>. QED
      BY <3>1 DEF Smaller
  <2>3. PICK S : S = lastId[g] + 1 .. n
    OBVIOUS
  <2>4. /\ S \in SUBSET EntryId /\ S # {} /\ S \subseteq 1 .. n
        /\ pel[g] \subseteq 1 .. n /\ lastId[g] <= n
    <3>1. /\ lastId[g] \in Nat /\ Len(stream) \in Nat /\ Len(stream) <= MaxEntries
          /\ pel[g] \subseteq 1 .. lastId[g] /\ MaxEntries \in Nat
      BY DEF TypeOK
    <3>2. n <= MaxEntries /\ n \in S
      BY <2>2, <2>3, <3>1
    <3>. QED
      BY <2>2, <2>3, <3>1, <3>2 DEF EntryId
  <2>5. /\ Deliver(w, S) /\ lastId' = [lastId EXCEPT ![g] = n]
        /\ pel' = [pel EXCEPT ![g] = @ \cup S]
        /\ UNCHANGED <<stream, created, dlq, handled, wfaults>>
    BY <1>4, <2>1, <2>2, <2>3 DEF ReadNew
  <2>6. /\ batch' = [batch EXCEPT ![w] = S] /\ wpc' = [wpc EXCEPT ![w] = "run"]
        /\ count' \in [Group -> [EntryId -> 0 .. MaxDeliver]]
    BY <2>4, <2>5, DeliverTyped
  <2>7. /\ lastId' \in [Group -> Nat] /\ pel' \in [Group -> SUBSET EntryId]
        /\ \A h \in Group : lastId'[h] <= Len(stream') /\ pel'[h] \subseteq 1 .. lastId'[h]
    BY <2>2, <2>4, <2>5 DEF TypeOK
  <2>8. \A v \in Worker : /\ wpc'[v] = "poll" <=> batch'[v] = {}
                          /\ batch'[v] \subseteq 1 .. lastId'[groupOf[v]]
    <3>1. \A h \in Group : lastId[h] \in Nat /\ lastId'[h] \in Nat /\ lastId[h] <= lastId'[h]
      BY <2>2, <2>4, <2>5 DEF TypeOK
    <3>2. batch'[w] = S /\ wpc'[w] = "run" /\ lastId'[groupOf[w]] = n
      BY <2>1, <2>5, <2>6 DEF TypeOK
    <3>3. \A v \in Worker \ {w} : batch'[v] = batch[v] /\ wpc'[v] = wpc[v]
      BY <2>6 DEF TypeOK
    <3>4. \A v \in Worker : batch[v] \subseteq 1 .. lastId'[groupOf[v]]
      BY <3>1 DEF TypeOK
    <3>. QED
      BY <2>4, <3>2, <3>3, <3>4 DEF TypeOK
  <2>. QED
    BY <2>4, <2>5, <2>6, <2>7, <2>8 DEF TypeOK
<1>5. ASSUME NEW w \in Worker, HandlerReturns(w)
      PROVE  TypeOK'
  <2>1. PICK e \in EntryId : e = Current(w)
    BY <1>5, CurrentInBatch DEF HandlerReturns
  <2>. QED
    BY <1>5, <2>1 DEF TypeOK, HandlerReturns
<1>6. ASSUME NEW w \in Worker, HandlerRaises(w)
      PROVE  TypeOK'
  BY <1>6 DEF TypeOK, HandlerRaises, groupVars
<1>7. ASSUME NEW w \in Worker, Ack(w)
      PROVE  TypeOK'
  <2>1. /\ pel' = [pel EXCEPT ![groupOf[w]] = @ \ {Current(w)}] /\ NextMessage(w)
        /\ UNCHANGED <<stream, created, lastId, count, dlq, handled, wfaults>>
    BY <1>7 DEF Ack, Xack
  <2>. QED
    BY <2>1, NextMessageTyped DEF TypeOK
<1>8. ASSUME NEW w \in Worker, ReadCount(w)
      PROVE  TypeOK'
  <2>1. UNCHANGED <<stream, groupVars, wfaults>>
    BY <1>8 DEF ReadCount
  <2>2. CASE wpc' = [wpc EXCEPT ![w] = "dead"] /\ UNCHANGED batch
    BY <1>8, <2>1, <2>2 DEF TypeOK, groupVars, ReadCount
  <2>3. CASE NextMessage(w)
    BY <2>1, <2>3, NextMessageTyped DEF TypeOK, groupVars
  <2>. QED
    BY <1>8, <2>2, <2>3 DEF ReadCount
<1>9. ASSUME NEW w \in Worker, DeadLetter(w)
      PROVE  TypeOK'
  <2>1. PICK e \in EntryId : e = Current(w)
    BY <1>9, CurrentInBatch DEF DeadLetter
  <2>2. /\ dlq' = [dlq EXCEPT ![groupOf[w]][e] = @ + 1]
        /\ pel' = [pel EXCEPT ![groupOf[w]] = @ \ {e}] /\ NextMessage(w)
        /\ UNCHANGED <<stream, created, lastId, count, handled, wfaults>>
    BY <1>9, <2>1 DEF DeadLetter, Xack
  <2>3. dlq' \in [Group -> [EntryId -> Nat]]
    BY <2>2 DEF TypeOK
  <2>. QED
    BY <2>2, <2>3, NextMessageTyped DEF TypeOK
<1>10. ASSUME NEW w \in Worker, Abandon(w)
       PROVE  TypeOK'
  BY <1>10 DEF TypeOK, Abandon, groupVars
<1>11. CASE UNCHANGED vars
  BY <1>11 DEF TypeOK, vars, groupVars
<1>. QED
  BY <1>1, <1>2, <1>3, <1>4, <1>5, <1>6, <1>7, <1>8, <1>9, <1>10, <1>11
     DEF Next, WorkerStep

(* Type correctness.                                                       *)
THEOREM TypeCorrect == Spec => []TypeOK
BY TypeInit, TypeStep, PTL DEF Spec

-----------------------------------------------------------------------------
(* A worker acknowledges an entry only after a handler has returned for    *)
(* it: the strengthening that makes NothingLost inductive.                 *)
AckAfterHandler ==
  \A w \in Worker : wpc[w] = "ack" => Current(w) \in handled[groupOf[w]]

SafetyInv == NothingLost /\ AckAfterHandler

(* Reading new entries settles nothing: what is delivered becomes pending. *)
LEMMA ReadNewSettlesNothing ==
  ASSUME TypeOK, NEW w \in Worker, ReadNew(w)
  PROVE  \A g \in Group : Acked(g)' = Acked(g)
<1>1. PICK g \in Group : g = groupOf[w]
  BY WorkersAssumption
<1>2. PICK n \in Nat : n = Smaller(lastId[g] + BatchSize, Len(stream)) /\ n > lastId[g]
  <2>1. lastId[g] \in Nat /\ Len(stream) \in Nat /\ lastId[g] < Len(stream)
    BY <1>1 DEF ReadNew, TypeOK
  <2>. QED
    BY <2>1, WorkersAssumption DEF Smaller
<1>3. /\ lastId' = [lastId EXCEPT ![g] = n]
      /\ pel' = [pel EXCEPT ![g] = @ \cup (lastId[g] + 1 .. n)]
  BY <1>1, <1>2 DEF ReadNew
<1>4. lastId[g] \in Nat /\ pel[g] \subseteq 1 .. lastId[g]
  BY DEF TypeOK
<1>5. (1 .. n) \ (pel[g] \cup (lastId[g] + 1 .. n)) = (1 .. lastId[g]) \ pel[g]
  BY <1>2, <1>4
<1>. QED
  BY <1>3, <1>5 DEF Acked, TypeOK

(* XACK settles the entry in hand, for the group of the worker and no      *)
(* other.                                                                  *)
LEMMA SettleSettlesOne ==
  ASSUME TypeOK, NEW w \in Worker, wpc[w] # "poll", Xack(w), UNCHANGED lastId
  PROVE  /\ Acked(groupOf[w])' = Acked(groupOf[w]) \cup {Current(w)}
         /\ \A g \in Group \ {groupOf[w]} : Acked(g)' = Acked(g)
<1>1. PICK g \in Group : g = groupOf[w] /\ Current(w) \in 1 .. lastId[g]
  BY CurrentInBatch
<1>2. PICK e \in 1 .. lastId[g] : e = Current(w)
  BY <1>1
<1>3. pel' = [pel EXCEPT ![g] = @ \ {e}]
  BY <1>1, <1>2 DEF Xack
<1>. QED
  BY <1>1, <1>2, <1>3 DEF Acked, TypeOK

(* Dead letters are only ever added.                                       *)
LEMMA DeadLetterAddsOne ==
  ASSUME TypeOK, NEW w \in Worker, DeadLetter(w)
  PROVE  /\ Dead(groupOf[w])' = Dead(groupOf[w]) \cup {Current(w)}
         /\ \A g \in Group \ {groupOf[w]} : Dead(g)' = Dead(g)
<1>1. PICK g \in Group, e \in EntryId : g = groupOf[w] /\ e = Current(w)
  BY CurrentInBatch DEF DeadLetter
<1>2. dlq' = [dlq EXCEPT ![g][e] = @ + 1]
  BY <1>1 DEF DeadLetter
<1>3. dlq'[g] = [dlq[g] EXCEPT ![e] = @ + 1] /\ \A h \in Group \ {g} : dlq'[h] = dlq[h]
  BY <1>2 DEF TypeOK
<1>4. dlq'[g][e] > 0 /\ \A f \in EntryId \ {e} : dlq'[g][f] = dlq[g][f]
  BY <1>3 DEF TypeOK
<1>. QED
  BY <1>1, <1>3, <1>4 DEF Dead

(* What the steps of a worker do to the abstract state.                    *)
LEMMA SafetyStep == TypeOK /\ SafetyInv /\ [Next]_vars => SafetyInv'
<1> SUFFICES ASSUME TypeOK, SafetyInv, [Next]_vars
             PROVE  SafetyInv'
  OBVIOUS
<1> USE WorkersAssumption
<1>0. ASSUME \A g \in Group : Acked(g)' = Acked(g) /\ Dead(g)' = Dead(g) /\ handled'[g] = handled[g],
             NEW w \in Worker,
             \A v \in Worker \ {w} : wpc'[v] = wpc[v] /\ batch'[v] = batch[v],
             wpc'[w] # "ack"
      PROVE  SafetyInv'
  <2>1. NothingLost'
    BY <1>0 DEF SafetyInv, NothingLost
  <2>2. AckAfterHandler'
    BY <1>0 DEF SafetyInv, AckAfterHandler, Current
  <2>. QED
    BY <2>1, <2>2 DEF SafetyInv
<1>1. ASSUME NEW w \in Worker, EnsureGroup(w)
      PROVE  SafetyInv'
  BY <1>1 DEF EnsureGroup, SafetyInv, NothingLost, AckAfterHandler, Current, Acked, Dead
<1>2. ASSUME NEW w \in Worker, Claim(w)
      PROVE  SafetyInv'
  <2>1. PICK S : Deliver(w, S)
    BY <1>2 DEF Claim
  <2>2. UNCHANGED <<lastId, pel, dlq, handled>>
    BY <1>2 DEF Claim
  <2>3. /\ wpc'[w] = "run"
        /\ \A v \in Worker \ {w} : wpc'[v] = wpc[v] /\ batch'[v] = batch[v]
    BY <2>1 DEF Deliver, TypeOK
  <2>. QED
    BY <2>2, <2>3, <1>0 DEF Acked, Dead
<1>3. ASSUME NEW w \in Worker, ReadNew(w)
      PROVE  SafetyInv'
  <2>1. PICK S : Deliver(w, S)
    BY <1>3 DEF ReadNew
  <2>2. UNCHANGED <<dlq, handled>>
    BY <1>3 DEF ReadNew
  <2>3. /\ wpc'[w] = "run"
        /\ \A v \in Worker \ {w} : wpc'[v] = wpc[v] /\ batch'[v] = batch[v]
    BY <2>1 DEF Deliver, TypeOK
  <2>. QED
    BY <1>3, <2>2, <2>3, <1>0, ReadNewSettlesNothing DEF Dead
<1>4. ASSUME NEW w \in Worker, HandlerReturns(w)
      PROVE  SafetyInv'
  <2>1. PICK e \in EntryId, g \in Group : e = Current(w) /\ g = groupOf[w]
    BY <1>4, CurrentInBatch DEF HandlerReturns
  <2>2. /\ handled' = [handled EXCEPT ![g] = @ \cup {e}]
        /\ wpc' = [wpc EXCEPT ![w] = "ack"] /\ UNCHANGED <<lastId, pel, dlq, batch>>
    BY <1>4, <2>1 DEF HandlerReturns
  <2>3. \A h \in Group : handled[h] \subseteq handled'[h] /\ e \in handled'[g]
    BY <2>2 DEF TypeOK
  <2>4. NothingLost'
    BY <2>2, <2>3 DEF SafetyInv, NothingLost, Acked, Dead
  <2>5. AckAfterHandler'
    BY <2>1, <2>2, <2>3 DEF SafetyInv, AckAfterHandler, Current, TypeOK
  <2>. QED
    BY <2>4, <2>5 DEF SafetyInv
<1>5. ASSUME NEW w \in Worker, HandlerRaises(w)
      PROVE  SafetyInv'
  <2>1. /\ wpc'[w] = "count" /\ \A v \in Worker \ {w} : wpc'[v] = wpc[v]
        /\ UNCHANGED <<lastId, pel, dlq, handled, batch>>
    BY <1>5 DEF HandlerRaises, groupVars, TypeOK
  <2>. QED
    BY <2>1, <1>0 DEF Acked, Dead
<1>6. ASSUME NEW w \in Worker, Ack(w)
      PROVE  SafetyInv'
  <2>1. /\ wpc[w] = "ack" /\ Xack(w) /\ NextMessage(w) /\ UNCHANGED <<lastId, dlq, handled>>
    BY <1>6 DEF Ack
  <2>2. /\ Acked(groupOf[w])' = Acked(groupOf[w]) \cup {Current(w)}
        /\ \A g \in Group \ {groupOf[w]} : Acked(g)' = Acked(g)
    BY <2>1, SettleSettlesOne
  <2>3. Current(w) \in handled[groupOf[w]]
    BY <2>1 DEF SafetyInv, AckAfterHandler
  <2>4. NothingLost'
    BY <2>1, <2>2, <2>3 DEF SafetyInv, NothingLost, Dead
  <2>5. AckAfterHandler'
    BY <2>1, NextMessageTyped DEF SafetyInv, AckAfterHandler, Current
  <2>. QED
    BY <2>4, <2>5 DEF SafetyInv
<1>7. ASSUME NEW w \in Worker, ReadCount(w)
      PROVE  SafetyInv'
  <2>1. /\ wpc'[w] # "ack"
        /\ \A v \in Worker \ {w} : wpc'[v] = wpc[v] /\ batch'[v] = batch[v]
    BY <1>7, NextMessageTyped DEF ReadCount, TypeOK
  <2>2. UNCHANGED <<lastId, pel, dlq, handled>>
    BY <1>7 DEF ReadCount, groupVars
  <2>. QED
    BY <2>1, <2>2, <1>0 DEF Acked, Dead
<1>8. ASSUME NEW w \in Worker, DeadLetter(w)
      PROVE  SafetyInv'
  <2>1. /\ wpc[w] # "poll" /\ Xack(w) /\ NextMessage(w) /\ UNCHANGED <<lastId, handled>>
    BY <1>8 DEF DeadLetter
  <2>2. /\ Acked(groupOf[w])' = Acked(groupOf[w]) \cup {Current(w)}
        /\ \A g \in Group \ {groupOf[w]} : Acked(g)' = Acked(g)
    BY <2>1, SettleSettlesOne
  <2>3. /\ Dead(groupOf[w])' = Dead(groupOf[w]) \cup {Current(w)}
        /\ \A g \in Group \ {groupOf[w]} : Dead(g)' = Dead(g)
    BY <1>8, DeadLetterAddsOne
  <2>4. NothingLost'
    BY <2>1, <2>2, <2>3 DEF SafetyInv, NothingLost
  <2>5. AckAfterHandler'
    BY <2>1, NextMessageTyped DEF SafetyInv, AckAfterHandler, Current
  <2>. QED
    BY <2>4, <2>5 DEF SafetyInv
<1>9. ASSUME NEW w \in Worker, Abandon(w)
      PROVE  SafetyInv'
  <2>1. /\ wpc'[w] # "ack"
        /\ \A v \in Worker \ {w} : wpc'[v] = wpc[v] /\ batch'[v] = batch[v]
        /\ UNCHANGED <<lastId, pel, dlq, handled>>
    BY <1>9 DEF Abandon, groupVars, TypeOK
  <2>. QED
    BY <2>1, <1>0 DEF Acked, Dead
<1>10. CASE UNCHANGED <<groupVars, wpc, batch>>
  BY <1>10 DEF SafetyInv, NothingLost, AckAfterHandler, Current, Acked, Dead, groupVars
<1>. QED
  BY <1>1, <1>2, <1>3, <1>4, <1>5, <1>6, <1>7, <1>8, <1>9, <1>10
     DEF Next, WorkerStep, AppendEntry, vars

(* Nothing has been delivered yet.                                         *)
LEMMA SafetyInit == Init => SafetyInv
BY DEF Init, SafetyInv, NothingLost, AckAfterHandler, Acked

(* No entry leaves the pending list of a group unless it was handled or is *)
(* in the dead-letter stream, however claims overlap and workers fail.     *)
THEOREM NoEntryLost == Spec => []NothingLost
<1>1. SafetyInv => NothingLost
  BY DEF SafetyInv
<1>. QED
  BY <1>1, SafetyInit, SafetyStep, TypeCorrect, PTL DEF Spec

-----------------------------------------------------------------------------
(* Refinement: every step of the workers is a step of AtLeastOnceDelivery, *)
(* or changes nothing that it speaks of.                                   *)
LEMMA DeliveryStep ==
  TypeOK /\ SafetyInv /\ [Next]_vars => [Delivery!Next]_(Delivery!vars)
<1> SUFFICES ASSUME TypeOK, SafetyInv, [Next]_vars
             PROVE  [Delivery!Next]_(Delivery!vars)
  OBVIOUS
<1> USE WorkersAssumption
<1> DEFINE DeadOf == [g \in Group |-> Dead(g)]
           AckedOf == [g \in Group |-> Acked(g)]
<1>0. ASSUME UNCHANGED <<stream, handled>>,
             \A g \in Group : Acked(g)' = Acked(g) /\ Dead(g)' = Dead(g)
      PROVE  UNCHANGED Delivery!vars
  <2>1. DeadOf' = DeadOf /\ AckedOf' = AckedOf
    BY <1>0
  <2>. QED
    BY <1>0, <2>1 DEF Delivery!vars
<1>1. ASSUME NEW r \in Row, AppendEntry(r)
      PROVE  Delivery!Accept(r)
  <2>1. stream' = Append(stream, r) /\ UNCHANGED <<handled, lastId, pel, dlq>>
    BY <1>1 DEF AppendEntry, groupVars
  <2>2. DeadOf' = DeadOf /\ AckedOf' = AckedOf
    BY <2>1 DEF Dead, Acked
  <2>. QED
    BY <2>1, <2>2 DEF Delivery!Accept
<1>2. ASSUME NEW w \in Worker, ReadNew(w)
      PROVE  UNCHANGED Delivery!vars
  BY <1>2, <1>0, ReadNewSettlesNothing DEF ReadNew, Dead
<1>3. ASSUME NEW w \in Worker, HandlerReturns(w)
      PROVE  Delivery!Complete(groupOf[w], Current(w))
  <2>1. /\ handled' = [handled EXCEPT ![groupOf[w]] = @ \cup {Current(w)}]
        /\ UNCHANGED <<stream, lastId, pel, dlq>>
    BY <1>3 DEF HandlerReturns
  <2>2. DeadOf' = DeadOf /\ AckedOf' = AckedOf
    BY <2>1 DEF Dead, Acked
  <2>. QED
    BY <2>1, <2>2 DEF Delivery!Complete
<1>4. ASSUME NEW w \in Worker, Ack(w)
      PROVE  Delivery!Settle(groupOf[w], Current(w))
  <2>1. /\ wpc[w] = "ack" /\ Xack(w) /\ UNCHANGED <<stream, lastId, dlq, handled>>
    BY <1>4 DEF Ack
  <2>2. AckedOf' = [AckedOf EXCEPT ![groupOf[w]] = @ \cup {Current(w)}]
    BY <2>1, SettleSettlesOne
  <2>3. DeadOf' = DeadOf
    BY <2>1 DEF Dead
  <2>4. Current(w) \in handled[groupOf[w]]
    BY <2>1 DEF SafetyInv, AckAfterHandler
  <2>. QED
    BY <2>1, <2>2, <2>3, <2>4 DEF Delivery!Settle
<1>5. ASSUME NEW w \in Worker, DeadLetter(w)
      PROVE  Delivery!DeadLetter(groupOf[w], Current(w))
  <2>1. /\ wpc[w] # "poll" /\ Xack(w) /\ UNCHANGED <<stream, lastId, handled>>
    BY <1>5 DEF DeadLetter
  <2>2. AckedOf' = [AckedOf EXCEPT ![groupOf[w]] = @ \cup {Current(w)}]
    BY <2>1, SettleSettlesOne
  <2>3. DeadOf' = [DeadOf EXCEPT ![groupOf[w]] = @ \cup {Current(w)}]
    BY <1>5, DeadLetterAddsOne
  <2>. QED
    BY <2>1, <2>2, <2>3 DEF Delivery!DeadLetter
<1>6. ASSUME NEW w \in Worker, wpc[w] # "poll"
      PROVE  groupOf[w] \in Group /\ Current(w) \in 1 .. Len(stream)
  BY <1>6, CurrentInBatch
<1>7. CASE UNCHANGED <<stream, lastId, pel, dlq, handled>>
  BY <1>0, <1>7 DEF Dead, Acked
<1>8. CASE \E w \in Worker : EnsureGroup(w) \/ Claim(w) \/ HandlerRaises(w) \/ ReadCount(w) \/ Abandon(w)
  BY <1>7, <1>8 DEF EnsureGroup, Claim, HandlerRaises, ReadCount, Abandon, groupVars
<1>9. CASE \E w \in Worker : HandlerReturns(w) \/ Ack(w) \/ DeadLetter(w)
  <2>1. PICK w \in Worker : HandlerReturns(w) \/ Ack(w) \/ DeadLetter(w)
    BY <1>9
  <2>2. groupOf[w] \in Group /\ Current(w) \in 1 .. Len(stream)
    BY <2>1, <1>6 DEF HandlerReturns, Ack, DeadLetter
  <2>3. \/ Delivery!Complete(groupOf[w], Current(w)) \/ Delivery!Settle(groupOf[w], Current(w))
        \/ Delivery!DeadLetter(groupOf[w], Current(w))
    BY <2>1, <1>3, <1>4, <1>5
  <2>. QED
    BY <2>2, <2>3 DEF Delivery!Next
<1>10. CASE \E r \in Row : AppendEntry(r)
  BY <1>1, <1>10 DEF Delivery!Next
<1>11. CASE UNCHANGED vars
  BY <1>7, <1>11 DEF vars, groupVars
<1>. QED
  BY <1>2, <1>8, <1>9, <1>10, <1>11 DEF Next, WorkerStep

(* The workers keep the promise of the abstract specification.             *)
THEOREM Refinement == Spec => ImplementsDelivery
<1>1. Init => Delivery!Init
  BY DEF Init, Delivery!Init, Dead, Acked
<1>. QED
  BY <1>1, SafetyInit, SafetyStep, DeliveryStep, TypeCorrect, PTL
     DEF Spec, ImplementsDelivery, Delivery!Spec

-----------------------------------------------------------------------------
(* The dead-letter stream.  An entry that is in it is no longer pending    *)
(* and cannot be claimed again; each worker that still holds it may add    *)
(* one more copy and gives it up with that.                                *)
Holders(g, e) == {w \in WorkersOf(g) : e \in batch[w]}

DeadSettled ==
  \A g \in Group, e \in EntryId :
    dlq[g][e] > 0 => e \in Acked(g) /\ count[g][e] = MaxDeliver

Counted ==
  \A w \in Worker :
    /\ \A e \in batch[w] : count[groupOf[w]][e] >= 1
    /\ wpc[w] = "dead" => count[groupOf[w]][Current(w)] = MaxDeliver

Room ==
  \A g \in Group, e \in EntryId :
    dlq[g][e] + Cardinality(Holders(g, e)) <= Cardinality(WorkersOf(g))

DeadInv == DeadSettled /\ Counted /\ Room

(* The workers that hold an entry can be counted.                          *)
LEMMA HoldersFinite ==
  ASSUME NEW g \in Group, NEW S \in SUBSET WorkersOf(g)
  PROVE  /\ IsFiniteSet(S) /\ Cardinality(S) \in Nat
         /\ Cardinality(WorkersOf(g)) \in Nat
         /\ Cardinality(S) <= Cardinality(WorkersOf(g))
<1>1. IsFiniteSet(WorkersOf(g))
  BY WorkersAssumption, FS_Subset DEF WorkersOf
<1>. QED
  BY <1>1, FS_Subset, FS_CardinalityType

(* While holders only let go, room for their copies remains.               *)
LEMMA FewerHolders ==
  ASSUME TypeOK, NEW g \in Group, NEW e \in EntryId, Holders(g, e)' \subseteq Holders(g, e),
         dlq'[g][e] = dlq[g][e],
         dlq[g][e] + Cardinality(Holders(g, e)) <= Cardinality(WorkersOf(g))
  PROVE  (dlq[g][e] + Cardinality(Holders(g, e)) <= Cardinality(WorkersOf(g)))'
<1>1. PICK H : H = Holders(g, e)
  OBVIOUS
<1>2. PICK J : J = Holders(g, e)'
  OBVIOUS
<1>3. J \subseteq H /\ H \subseteq WorkersOf(g)
  BY <1>1, <1>2 DEF Holders
<1>4. IsFiniteSet(H) /\ Cardinality(H) \in Nat /\ Cardinality(J) \in Nat
      /\ Cardinality(WorkersOf(g)) \in Nat
  BY <1>3, HoldersFinite
<1>5. Cardinality(J) <= Cardinality(H)
  BY <1>3, <1>4, FS_Subset
<1>6. dlq[g][e] \in Nat /\ WorkersOf(g)' = WorkersOf(g)
  BY DEF TypeOK, WorkersOf
<1>. QED
  BY <1>1, <1>2, <1>4, <1>5, <1>6

(* A delivery counts, and counts stop at the limit.                        *)
LEMMA DeliverCounts ==
  ASSUME TypeOK, NEW w \in Worker, NEW S \in SUBSET EntryId, Deliver(w, S)
  PROVE  /\ \A g \in Group, e \in EntryId :
              /\ count[g][e] >= 1 => count'[g][e] >= 1
              /\ count[g][e] = MaxDeliver => count'[g][e] = MaxDeliver
         /\ \A e \in S : count'[groupOf[w]][e] >= 1
<1>1. PICK h \in Group : h = groupOf[w]
  BY WorkersAssumption
<1>2. count' = [count EXCEPT ![h] = [e \in EntryId |->
                  IF e \in S THEN Smaller(count[h][e] + 1, MaxDeliver) ELSE count[h][e]]]
  BY <1>1 DEF Deliver
<1>3. MaxDeliver \in Nat \ {0} /\ \A g \in Group, e \in EntryId : count[g][e] \in 0 .. MaxDeliver
  BY WorkersAssumption DEF TypeOK
<1>4. \A e \in EntryId : count'[h][e] =
        IF e \in S THEN Smaller(count[h][e] + 1, MaxDeliver) ELSE count[h][e]
  BY <1>2 DEF TypeOK
<1>5. \A g \in Group \ {h}, e \in EntryId : count'[g][e] = count[g][e]
  BY <1>2 DEF TypeOK
<1>6. \A n \in 0 .. MaxDeliver :
        /\ Smaller(n + 1, MaxDeliver) >= 1
        /\ n = MaxDeliver => Smaller(n + 1, MaxDeliver) = MaxDeliver
  BY <1>3 DEF Smaller
<1>. QED
  BY <1>1, <1>3, <1>4, <1>5, <1>6

(* Only what is not settled, and so not dead, is delivered.                *)
LEMMA DeliverKeepsDead ==
  ASSUME TypeOK, DeadInv, NEW w \in Worker, NEW S \in SUBSET EntryId, S # {}, Deliver(w, S),
         UNCHANGED dlq, \A g \in Group : Acked(g)' = Acked(g),
         \A e \in S : e \notin Acked(groupOf[w])
  PROVE  DeadInv'
<1>1. /\ batch' = [batch EXCEPT ![w] = S] /\ wpc' = [wpc EXCEPT ![w] = "run"]
      /\ batch \in [Worker -> SUBSET EntryId] /\ wpc \in [Worker -> {"poll", "run", "ack", "count", "dead"}]
      /\ groupOf \in [Worker -> Group]
  BY WorkersAssumption DEF Deliver, TypeOK
<1>2. /\ batch'[w] = S /\ wpc'[w] = "run"
      /\ \A v \in Worker \ {w} : batch'[v] = batch[v] /\ wpc'[v] = wpc[v]
  BY <1>1
<1>3. DeadSettled'
  BY DeliverCounts DEF DeadInv, DeadSettled
<1>4. Counted'
  <2>1. ASSUME NEW v \in Worker \ {w}
        PROVE  /\ \A e \in batch'[v] : count'[groupOf[v]][e] >= 1
               /\ wpc'[v] = "dead" => count'[groupOf[v]][Current(v)'] = MaxDeliver
    <3>1. Current(v)' = Current(v) /\ groupOf[v] \in Group
      BY <1>1, <1>2 DEF Current
    <3>2. wpc[v] = "dead" => Current(v) \in EntryId
      BY CurrentInBatch
    <3>. QED
      BY <1>1, <1>2, <3>1, <3>2, DeliverCounts DEF DeadInv, Counted
  <2>. QED
    BY <1>2, <2>1, DeliverCounts DEF Counted
<1>5. Room'
  <2> SUFFICES ASSUME NEW g \in Group, NEW e \in EntryId
               PROVE  (dlq[g][e] + Cardinality(Holders(g, e)) <= Cardinality(WorkersOf(g)))'
    BY DEF Room
  <2>1. CASE g = groupOf[w] /\ e \in S
    <3>1. dlq'[g][e] = 0
      BY <2>1 DEF DeadInv, DeadSettled, TypeOK
    <3>2. Holders(g, e)' \subseteq WorkersOf(g) /\ WorkersOf(g)' = WorkersOf(g)
      BY DEF Holders, WorkersOf
    <3>3. PICK H : H = Holders(g, e)'
      OBVIOUS
    <3>4. Cardinality(H) \in Nat /\ Cardinality(H) <= Cardinality(WorkersOf(g))
      BY <3>2, <3>3, HoldersFinite
    <3>. QED
      BY <3>1, <3>2, <3>3, <3>4
  <2>2. CASE ~ (g = groupOf[w] /\ e \in S)
    <3>1. Holders(g, e)' \subseteq Holders(g, e)
      BY <1>2, <2>2 DEF Holders, WorkersOf
    <3>. QED
      BY <3>1, FewerHolders DEF DeadInv, Room
  <2>. QED
    BY <2>1, <2>2
<1>. QED
  BY <1>3, <1>4, <1>5 DEF DeadInv

(* Nothing delivered and nothing dead-lettered, and every worker holds at  *)
(* most what it held.                                                      *)
LEMMA ReleaseKeepsDead ==
  ASSUME TypeOK, DeadInv, UNCHANGED <<count, dlq>>,
         \A g \in Group : Acked(g) \subseteq Acked(g)',
         \A v \in Worker : batch'[v] \subseteq batch[v],
         \A v \in Worker : wpc'[v] = "dead" => \/ wpc[v] = "dead" /\ batch'[v] = batch[v]
                                               \/ count[groupOf[v]][Current(v)'] = MaxDeliver
  PROVE  DeadInv'
<1>1. DeadSettled'
  BY DEF DeadInv, DeadSettled
<1>2. Counted'
  <2>1. ASSUME NEW v \in Worker, wpc'[v] = "dead"
        PROVE  count[groupOf[v]][Current(v)'] = MaxDeliver
    <3>1. CASE wpc[v] = "dead" /\ batch'[v] = batch[v]
      <4>1. Current(v)' = Current(v)
        BY <3>1 DEF Current
      <4>. QED
        BY <3>1, <4>1 DEF DeadInv, Counted
    <3>. QED
      BY <2>1, <3>1
  <2>. QED
    BY <2>1 DEF DeadInv, Counted
<1>3. Room'
  <2> SUFFICES ASSUME NEW g \in Group, NEW e \in EntryId
               PROVE  (dlq[g][e] + Cardinality(Holders(g, e)) <= Cardinality(WorkersOf(g)))'
    BY DEF Room
  <2>1. Holders(g, e)' \subseteq Holders(g, e)
    BY DEF Holders, WorkersOf
  <2>. QED
    BY <2>1, FewerHolders DEF DeadInv, Room
<1>. QED
  BY <1>1, <1>2, <1>3 DEF DeadInv

(* The copy that a worker adds to the dead-letter stream, it pays for with *)
(* the entry it gives up.                                                  *)
LEMMA DeadLetterKeepsDead ==
  ASSUME TypeOK, DeadInv, NEW w \in Worker, DeadLetter(w)
  PROVE  DeadInv'
<1>1. PICK g \in Group, e \in EntryId : g = groupOf[w] /\ e = Current(w) /\ e \in batch[w]
  BY CurrentInBatch DEF DeadLetter
<1>2. /\ wpc[w] = "dead" /\ Xack(w) /\ NextMessage(w) /\ UNCHANGED <<lastId, count>>
      /\ dlq' = [dlq EXCEPT ![g][e] = @ + 1]
  BY <1>1 DEF DeadLetter
<1>3. /\ dlq[g][e] \in Nat /\ dlq'[g][e] = dlq[g][e] + 1
      /\ \A h \in Group, f \in EntryId : (h = g /\ f = e) \/ dlq'[h][f] = dlq[h][f]
  BY <1>2 DEF TypeOK
<1>4. /\ Acked(g)' = Acked(g) \cup {e}
      /\ \A h \in Group \ {g} : Acked(h)' = Acked(h)
  BY <1>1, <1>2, SettleSettlesOne
<1>5. count[g][e] = MaxDeliver
  BY <1>1, <1>2 DEF DeadInv, Counted
<1>6. /\ batch'[w] = batch[w] \ {e} /\ wpc'[w] # "dead"
      /\ \A v \in Worker \ {w} : wpc'[v] = wpc[v] /\ batch'[v] = batch[v]
  BY <1>1, <1>2 DEF NextMessage, TypeOK
<1>7. DeadSettled'
  BY <1>2, <1>3, <1>4, <1>5 DEF DeadInv, DeadSettled
<1>8. Counted'
  BY <1>2, <1>6 DEF DeadInv, Counted, Current
<1>9. Room'
  <2> SUFFICES ASSUME NEW h \in Group, NEW f \in EntryId
               PROVE  (dlq[h][f] + Cardinality(Holders(h, f)) <= Cardinality(WorkersOf(h)))'
    BY DEF Room
  <2>1. CASE h = g /\ f = e
    <3>1. w \in Holders(g, e)
      BY <1>1 DEF Holders, WorkersOf
    <3>2. PICK H : H = Holders(g, e)
      OBVIOUS
    <3>3. PICK J : J = Holders(g, e)'
      OBVIOUS
    <3>4. J = H \ {w}
      BY <1>6, <3>2, <3>3 DEF Holders, WorkersOf
    <3>5. IsFiniteSet(H) /\ Cardinality(H) \in Nat /\ Cardinality(WorkersOf(g)) \in Nat
      BY <3>2, HoldersFinite DEF Holders
    <3>6. Cardinality(J) = Cardinality(H) - 1
      BY <3>1, <3>2, <3>4, <3>5, FS_RemoveElement
    <3>7. dlq[g][e] + Cardinality(H) <= Cardinality(WorkersOf(g))
      BY <3>2 DEF DeadInv, Room
    <3>8. WorkersOf(g)' = WorkersOf(g)
      BY DEF WorkersOf
    <3>9. dlq'[g][e] + Cardinality(J) <= Cardinality(WorkersOf(g))
      BY <1>3, <3>5, <3>6, <3>7
    <3>. QED
      BY <2>1, <3>3, <3>8, <3>9
  <2>2. CASE ~ (h = g /\ f = e)
    <3>1. Holders(h, f)' \subseteq Holders(h, f)
      BY <1>6 DEF Holders, WorkersOf
    <3>2. dlq'[h][f] = dlq[h][f]
      BY <1>3, <2>2
    <3>. QED
      BY <3>1, <3>2, FewerHolders DEF DeadInv, Room
  <2>. QED
    BY <2>1, <2>2
<1>. QED
  BY <1>7, <1>8, <1>9 DEF DeadInv

(* Redis counts the delivery before it hands an entry out, so a worker     *)
(* that reads the count of an entry it holds reads at least 1.             *)
LEMMA ReadCountKeepsDead ==
  ASSUME TypeOK, DeadInv, NEW w \in Worker, ReadCount(w)
  PROVE  DeadInv'
<1>1. UNCHANGED <<count, dlq>> /\ \A g \in Group : Acked(g)' = Acked(g)
  BY DEF ReadCount, groupVars, Acked
<1>2. PICK g \in Group, e \in EntryId : g = groupOf[w] /\ e = Current(w) /\ e \in batch[w]
  BY CurrentInBatch DEF ReadCount
<1>3. CASE /\ DeliveryCount(g, e) >= MaxDeliver
           /\ wpc' = [wpc EXCEPT ![w] = "dead"] /\ UNCHANGED batch
  <2>1. count[g][e] \in 0 .. MaxDeliver /\ MaxDeliver \in Nat \ {0} /\ count[g][e] >= 1
    BY <1>2, WorkersAssumption DEF TypeOK, DeadInv, Counted
  <2>2. count[g][e] = MaxDeliver
    BY <1>3, <2>1 DEF DeliveryCount
  <2>3. Current(w)' = e
    BY <1>2, <1>3 DEF Current
  <2>4. \A v \in Worker \ {w} : wpc'[v] = wpc[v]
    BY <1>3 DEF TypeOK
  <2>. QED
    BY <1>1, <1>2, <1>3, <2>2, <2>3, <2>4, ReleaseKeepsDead
<1>4. CASE NextMessage(w)
  BY <1>1, <1>4, NextMessageTyped, ReleaseKeepsDead DEF NextMessage, TypeOK
<1>. QED
  BY <1>2, <1>3, <1>4 DEF ReadCount

(* Every step keeps what is known of dead letters.                         *)
LEMMA DeadStep == TypeOK /\ DeadInv /\ [Next]_vars => DeadInv'
<1> SUFFICES ASSUME TypeOK, DeadInv, [Next]_vars
             PROVE  DeadInv'
  OBVIOUS
<1>0. \A g \in Group : pel[g] \subseteq EntryId
  BY DEF TypeOK
<1>1. ASSUME NEW w \in Worker, Claim(w)
      PROVE  DeadInv'
  <2>1. PICK S \in (SUBSET pel[groupOf[w]]) \ {{}} : Deliver(w, S)
    BY <1>1 DEF Claim
  <2>2. S \in SUBSET EntryId /\ S # {} /\ \A e \in S : e \notin Acked(groupOf[w])
    BY <1>0, <2>1, WorkersAssumption DEF Acked
  <2>3. UNCHANGED dlq /\ \A g \in Group : Acked(g)' = Acked(g)
    BY <1>1 DEF Claim, Acked
  <2>. QED
    BY <2>1, <2>2, <2>3, DeliverKeepsDead
<1>2. ASSUME NEW w \in Worker, ReadNew(w)
      PROVE  DeadInv'
  <2>1. PICK g \in Group : g = groupOf[w]
    BY WorkersAssumption
  <2>2. PICK n \in Nat : /\ n = Smaller(lastId[g] + BatchSize, Len(stream))
                         /\ n > lastId[g] /\ n <= MaxEntries
    <3>1. /\ lastId[g] \in Nat /\ Len(stream) \in Nat /\ lastId[g] < Len(stream)
          /\ Len(stream) <= MaxEntries /\ BatchSize \in Nat \ {0} /\ MaxEntries \in Nat
      BY <1>2, <2>1, WorkersAssumption DEF ReadNew, TypeOK
    <3>. QED
      BY <3>1 DEF Smaller
  <2>3. PICK S : S = lastId[g] + 1 .. n
    OBVIOUS
  <2>4. lastId[g] \in Nat /\ MaxEntries \in Nat
    BY WorkersAssumption DEF TypeOK
  <2>5. n \in S /\ S \in SUBSET EntryId /\ \A e \in S : e \notin 1 .. lastId[g]
    BY <2>2, <2>3, <2>4 DEF EntryId
  <2>6. Deliver(w, S) /\ UNCHANGED dlq
    BY <1>2, <2>1, <2>2, <2>3 DEF ReadNew
  <2>7. \A h \in Group : Acked(h)' = Acked(h)
    BY <1>2, ReadNewSettlesNothing
  <2>8. \A e \in S : e \notin Acked(groupOf[w])
    BY <2>1, <2>5 DEF Acked
  <2>. QED
    BY <2>5, <2>6, <2>7, <2>8, DeliverKeepsDead
<1>3. ASSUME NEW w \in Worker, HandlerReturns(w) \/ HandlerRaises(w) \/ Abandon(w)
      PROVE  DeadInv'
  <2>1. UNCHANGED <<count, dlq>> /\ \A g \in Group : Acked(g)' = Acked(g)
    BY <1>3 DEF HandlerReturns, HandlerRaises, Abandon, groupVars, Acked
  <2>2. wpc'[w] # "dead" /\ \A v \in Worker \ {w} : wpc'[v] = wpc[v]
    BY <1>3 DEF HandlerReturns, HandlerRaises, Abandon, TypeOK
  <2>3. \A v \in Worker : batch'[v] \subseteq batch[v] /\ (v # w => batch'[v] = batch[v])
    BY <1>3 DEF HandlerReturns, HandlerRaises, Abandon, TypeOK
  <2>. QED
    BY <2>1, <2>2, <2>3, ReleaseKeepsDead
<1>4. ASSUME NEW w \in Worker, Ack(w)
      PROVE  DeadInv'
  <2>1. /\ wpc[w] # "poll" /\ Xack(w) /\ NextMessage(w) /\ UNCHANGED <<lastId, count, dlq>>
    BY <1>4 DEF Ack
  <2>2. \A g \in Group : Acked(g) \subseteq Acked(g)'
    BY <2>1, SettleSettlesOne
  <2>3. wpc'[w] # "dead"
    BY <2>1 DEF NextMessage, TypeOK
  <2>. QED
    BY <2>1, <2>2, <2>3, NextMessageTyped, ReleaseKeepsDead
<1>5. CASE UNCHANGED <<lastId, pel, count, dlq, wpc, batch>>
  <2>1. \A g \in Group : Acked(g)' = Acked(g)
    BY <1>5 DEF Acked
  <2>. QED
    BY <1>5, <2>1, ReleaseKeepsDead
<1>6. ASSUME NEW w \in Worker, EnsureGroup(w)
      PROVE  DeadInv'
  BY <1>5, <1>6 DEF EnsureGroup
<1>7. ASSUME NEW r \in Row, AppendEntry(r)
      PROVE  DeadInv'
  BY <1>5, <1>7 DEF AppendEntry, groupVars
<1>8. CASE UNCHANGED vars
  BY <1>5, <1>8 DEF vars, groupVars
<1>. QED
  BY <1>1, <1>2, <1>3, <1>4, <1>6, <1>7, <1>8, ReadCountKeepsDead, DeadLetterKeepsDead
     DEF Next, WorkerStep

(* There are no dead letters yet.                                          *)
LEMMA DeadInit == Init => DeadInv
<1> SUFFICES ASSUME Init PROVE DeadInv
  OBVIOUS
<1>1. DeadSettled /\ Counted
  BY DEF Init, DeadSettled, Counted
<1>2. Room
  <2> SUFFICES ASSUME NEW g \in Group, NEW e \in EntryId
               PROVE  dlq[g][e] + Cardinality(Holders(g, e)) <= Cardinality(WorkersOf(g))
    BY DEF Room
  <2>1. /\ dlq[g][e] = 0 /\ Cardinality(Holders(g, e)) \in Nat
        /\ Cardinality(Holders(g, e)) <= Cardinality(WorkersOf(g))
    BY HoldersFinite DEF Init, Holders
  <2>. QED
    BY <2>1
<1>. QED
  BY <1>1, <1>2 DEF DeadInv

(* A dead letter was delivered max_delivery_attempts times, and the        *)
(* dead-letter stream holds at most one copy of it per worker of the group.*)
THEOREM EarnedDeadLetters == Spec => []DeadLettersAreEarned
<1>1. TypeOK /\ DeadInv => DeadLettersAreEarned
  <2> SUFFICES ASSUME TypeOK, DeadInv PROVE DeadLettersAreEarned
    OBVIOUS
  <2>1. DeadOnlyAfterMaxDeliver
    BY DEF DeadInv, DeadSettled, DeadOnlyAfterMaxDeliver
  <2>2. ASSUME NEW g \in Group, NEW e \in EntryId
        PROVE  dlq[g][e] <= Cardinality(WorkersOf(g))
    <3>1. /\ dlq[g][e] \in Nat /\ Cardinality(Holders(g, e)) \in Nat
          /\ Cardinality(WorkersOf(g)) \in Nat
          /\ dlq[g][e] + Cardinality(Holders(g, e)) <= Cardinality(WorkersOf(g))
      BY HoldersFinite DEF Holders, TypeOK, DeadInv, Room
    <3>. QED
      BY <3>1
  <2>. QED
    BY <2>1, <2>2 DEF DlqCopiesBounded, DeadLettersAreEarned
<1>. QED
  BY <1>1, DeadInit, DeadStep, TypeCorrect, PTL DEF Spec
=============================================================================
