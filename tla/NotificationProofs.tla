------------------------- MODULE NotificationProofs -------------------------
(***************************************************************************)
(* What holds of a notification for any number of entries that ask for it, *)
(* workers, deliveries and failures.                                       *)
(***************************************************************************)
EXTENDS Notification, FiniteSetTheorems, TLAPS

(* What a worker is going to record has happened.                          *)
Earned(r) ==
  /\ r = "succeeded" => accepted > 0
  /\ r = "permanent_failure" => rejected
  /\ r = "retryable_failure" => faults > 0

ResultIsEarned == \A w \in Worker : pc[w] \in {"load", "flush"} => Earned(result[w])

\* A worker that posts has created the rows, or found them.
RowsExist == \A w \in Worker : pc[w] \in {"post", "load", "flush"} => action # "none"

IInv == TypeOK /\ RowsExist /\ ResultIsEarned /\ StatusIsEarned /\ SettledWasDecided

-----------------------------------------------------------------------------
(* Nothing that has happened is undone.                                    *)
LEMMA StaysEarned ==
  ASSUME accepted \in Nat, accepted' \in Nat, faults \in Nat, faults' \in Nat,
         rejected \in BOOLEAN, accepted' >= accepted, faults' >= faults, rejected => rejected',
         NEW r, Earned(r)
  PROVE  Earned(r)'
BY DEF Earned

(* What the receiver has answered and how often something failed is never  *)
(* taken back.                                                             *)
LEMMA Monotone ==
  ASSUME TypeOK, [Next]_vars
  PROVE  /\ accepted \in Nat /\ accepted' \in Nat /\ accepted' >= accepted
         /\ faults \in Nat /\ faults' \in 0 .. MaxFaults /\ faults' \in Nat /\ faults' >= faults
         /\ rejected \in BOOLEAN /\ rejected' \in BOOLEAN /\ (rejected => rejected')
<1>1. accepted \in Nat /\ faults \in 0 .. MaxFaults /\ rejected \in BOOLEAN /\ MaxFaults \in Nat
  BY NotificationAssumption DEF TypeOK
<1>2. /\ accepted' \in {accepted, accepted + 1}
      /\ faults' = faults \/ (faults < MaxFaults /\ faults' = faults + 1)
  BY DEF Next, WorkerStep, Handle, Claim, FindTerminal, FindAction, FindNothing, Insert,
         InsertConflicts, PostAccepted, PostUnanswered, PostBreaks, PostRejected, Load, Flush,
         Crash, vars
<1>3. rejected' = rejected \/ rejected' = TRUE
  BY DEF Next, WorkerStep, Handle, Claim, FindTerminal, FindAction, FindNothing, Insert,
         InsertConflicts, PostAccepted, PostUnanswered, PostBreaks, PostRejected, Load, Flush,
         Crash, vars
<1>4. rejected' \in BOOLEAN /\ (rejected => rejected')
  BY <1>1, <1>3, Zenon
<1>. QED
  BY <1>1, <1>2, <1>4

(* No entry has been handled yet.                                          *)
LEMMA IInvInit == Init => IInv
<1> SUFFICES ASSUME Init
             PROVE  IInv
  OBVIOUS
<1> USE NotificationAssumption
<1>1. /\ msg \in [Message -> {"pending", "settled", "dead"}]
      /\ count \in [Message -> 0 .. MaxDeliver]
      /\ pc \in [Worker -> {"idle", "begin", "insert", "post", "load", "flush"}]
      /\ held \in [Worker -> Message \cup {NoMessage}]
      /\ \A w \in Worker : pc[w] = "idle" /\ held[w] = NoMessage
  BY DEF Init
<1>2. /\ result \in [Worker -> Outcome] /\ seen \in [Worker -> Status \X Status]
      /\ action \in Status \ {"planned"} /\ delivery \in Status \ {"running"}
      /\ action = "none" /\ delivery = "none"
  BY DEF Init, Outcome, Status
<1>3. rejected \in BOOLEAN
  BY Zenon DEF Init
<1>4. accepted \in Nat /\ faults \in 0 .. MaxFaults
  BY DEF Init
<1>5. TypeOK
  BY <1>1, <1>2, <1>3, <1>4 DEF TypeOK
<1>6. RowsExist /\ ResultIsEarned /\ StatusIsEarned /\ SettledWasDecided
  BY <1>1, <1>2 DEF Init, RowsExist, ResultIsEarned, StatusIsEarned, SettledWasDecided
<1>. QED
  BY <1>5, <1>6 DEF IInv

(* The statuses stay as they are, or become what has happened.             *)
LEMMA StatusKept ==
  ASSUME TypeOK, StatusIsEarned, [Next]_vars,
         action' \in {action, "running"} \/ Earned(action'),
         delivery' \in {delivery, "planned"} \/ Earned(delivery')
  PROVE  StatusIsEarned'
<1>1. ASSUME NEW r, Earned(r)
      PROVE  Earned(r)'
  BY <1>1, Monotone, StaysEarned
<1>2. \A r \in {action, delivery} : Earned(r)
  BY DEF StatusIsEarned, Earned
<1>. QED
  BY <1>1, <1>2 DEF StatusIsEarned, Earned
(* The end of a handler's call: idle again, and the entry pending or not.  *)
LEMMA MessageEnds ==
  ASSUME TypeOK, NEW w \in Worker, pc[w] # "idle", Return(w) \/ Raise(w)
  PROVE  /\ msg' \in [Message -> {"pending", "settled", "dead"}]
         /\ pc' = [pc EXCEPT ![w] = "idle"] /\ held' = [held EXCEPT ![w] = NoMessage]
         /\ Raise(w) => \A m \in Message : msg'[m] = "settled" => msg[m] = "settled"
<1>1. held[w] \in Message /\ msg \in [Message -> {"pending", "settled", "dead"}]
  BY DEF TypeOK
<1>. QED
  BY <1>1 DEF Return, Raise, Idle

(* A step that settles nothing keeps what was settled decided.             *)
LEMMA SettledKept ==
  ASSUME TypeOK, SettledWasDecided, [Next]_vars,
         \/ \A m \in Message : msg'[m] = "settled" => msg[m] = "settled"
         \/ accepted > 0 \/ rejected
  PROVE  SettledWasDecided'
<1>1. accepted > 0 => accepted' > 0
  BY Monotone
<1>2. rejected => rejected'
  BY Monotone
<1>3. CASE accepted > 0 \/ rejected
  BY <1>1, <1>2, <1>3 DEF SettledWasDecided
<1>4. CASE \A m \in Message : msg'[m] = "settled" => msg[m] = "settled"
  BY <1>1, <1>2, <1>4 DEF SettledWasDecided
<1>. QED
  BY <1>3, <1>4

(* A worker that has no new result.                                        *)
LEMMA ResultKept ==
  ASSUME TypeOK, ResultIsEarned, [Next]_vars, UNCHANGED result,
         \A w \in Worker : pc'[w] \in {"load", "flush"} => pc[w] \in {"load", "flush"}
  PROVE  ResultIsEarned'
<1>1. ASSUME NEW r, Earned(r)
      PROVE  Earned(r)'
  BY <1>1, Monotone, StaysEarned
<1>. QED
  BY <1>1 DEF ResultIsEarned, Earned

(* Workers that are past the insert keep their rows.                       *)
LEMMA RowsKept ==
  ASSUME RowsExist, action' # "none" \/ action' = action,
         \A w \in Worker : pc'[w] \in {"post", "load", "flush"} =>
           pc[w] \in {"post", "load", "flush"} \/ action' # "none"
  PROVE  RowsExist'
BY DEF RowsExist

(* So every step keeps the invariant.                                      *)
LEMMA IInvStep == IInv /\ [Next]_vars => IInv'
<1> SUFFICES ASSUME IInv, [Next]_vars
             PROVE  IInv'
  OBVIOUS
<1> USE NotificationAssumption
<1>a. /\ pc \in [Worker -> {"idle", "begin", "insert", "post", "load", "flush"}]
      /\ held \in [Worker -> Message \cup {NoMessage}]
      /\ result \in [Worker -> Outcome]
      /\ TypeOK /\ RowsExist /\ ResultIsEarned /\ StatusIsEarned /\ SettledWasDecided
  BY DEF IInv, TypeOK
<1>b. accepted' \in Nat /\ faults' \in 0 .. MaxFaults /\ rejected' \in BOOLEAN
  BY <1>a, Monotone
<1>1. ASSUME NEW w \in Worker, NEW m \in Message, Claim(w, m)
      PROVE  IInv'
  <2>1. /\ pc[w] = "idle" /\ pc' = [pc EXCEPT ![w] = "begin"] /\ held' = [held EXCEPT ![w] = m]
        /\ count' = [count EXCEPT ![m] = IF @ < MaxDeliver THEN @ + 1 ELSE @]
        /\ UNCHANGED <<action, delivery, msg, result, seen, accepted, rejected, faults>>
    BY <1>1 DEF Claim, rows
  <2>2. count' \in [Message -> 0 .. MaxDeliver]
    <3>1. count \in [Message -> 0 .. MaxDeliver]
      BY DEF IInv, TypeOK
    <3>. QED
      BY <2>1, <3>1
  <2>3. TypeOK'
    BY <1>b, <2>1, <2>2 DEF IInv, TypeOK
  <2>. QED
    BY <1>a, <2>1, <2>3, StatusKept, SettledKept, ResultKept, RowsKept DEF IInv
(* Steps within a call that change no status and record no result.         *)
<1>2. ASSUME NEW w \in Worker, FindAction(w) \/ FindNothing(w) \/ Insert(w)
      PROVE  IInv'
  <2>1. /\ pc[w] \in {"begin", "insert"}
        /\ UNCHANGED <<msg, count, held, result, seen, accepted, rejected, faults>>
        /\ \/ pc' = [pc EXCEPT ![w] = "insert"]
           \/ pc' = [pc EXCEPT ![w] = "post"]
    BY <1>2 DEF FindAction, FindNothing, Insert
  <2>2. /\ action' \in {action, "running"} /\ delivery' \in {delivery, "planned"}
        /\ (action' = "none") = (delivery' = "none")
        /\ action' \in Status \ {"planned"} /\ delivery' \in Status \ {"running"}
        /\ action' = "none" => action = "none" /\ pc' = [pc EXCEPT ![w] = "insert"]
    BY <1>2 DEF FindAction, FindNothing, Insert, rows, Status, IInv, TypeOK
  <2>3. TypeOK'
    BY <1>b, <2>1, <2>2 DEF IInv, TypeOK
  <2>. QED
    BY <1>a, <2>1, <2>2, <2>3, StatusKept, SettledKept, ResultKept, RowsKept DEF IInv
(* A call ends.                                                            *)
<1>3. ASSUME NEW w \in Worker, pc[w] # "idle",
             \/ Raise(w)
             \/ Return(w) /\ (accepted > 0 \/ rejected),
             UNCHANGED <<count, result, seen>>,
             action' = action \/ (action' \in Outcome /\ Earned(action')),
             delivery' = delivery \/ (delivery' \in Outcome /\ Earned(delivery')),
             (action' = "none") = (delivery' = "none")
      PROVE  IInv'
  <2>1. /\ pc' = [pc EXCEPT ![w] = "idle"] /\ held' = [held EXCEPT ![w] = NoMessage]
        /\ msg' \in [Message -> {"pending", "settled", "dead"}]
    BY <1>3, <1>a, MessageEnds
  <2>2. action' \in Status \ {"planned"} /\ delivery' \in Status \ {"running"}
    BY <1>3 DEF Status, Outcome, IInv, TypeOK
  <2>3. TypeOK'
    BY <1>3, <1>b, <2>1, <2>2 DEF IInv, TypeOK
  <2>4. SettledWasDecided'
    BY <1>3, <1>a, MessageEnds, SettledKept
  <2>5. StatusIsEarned'
    BY <1>3, <1>a, StatusKept
  <2>6. ResultIsEarned'
    BY <1>3, <1>a, <2>1, ResultKept
  <2>7. RowsExist'
    BY <1>3, <1>a, <2>1, RowsKept DEF Outcome
  <2>. QED
    BY <2>3, <2>4, <2>5, <2>6, <2>7 DEF IInv
<1>4. ASSUME NEW w \in Worker, FindTerminal(w)
      PROVE  IInv'
  <2>1. accepted > 0 \/ rejected
    BY <1>4 DEF FindTerminal, Terminal, IInv, StatusIsEarned
  <2>2. /\ pc[w] # "idle" /\ Return(w)
        /\ UNCHANGED <<action, delivery, count, result, seen>>
    BY <1>4 DEF FindTerminal, rows
  <2>. QED
    BY <1>3, <2>1, <2>2 DEF IInv, TypeOK
<1>5. ASSUME NEW w \in Worker, InsertConflicts(w) \/ PostBreaks(w)
      PROVE  IInv'
  <2>1. pc[w] # "idle" /\ Raise(w) /\ UNCHANGED <<action, delivery, count, result, seen>>
    BY <1>5 DEF InsertConflicts, PostBreaks, rows
  <2>. QED
    BY <1>3, <2>1 DEF IInv, TypeOK
<1>6. ASSUME NEW w \in Worker, PostAccepted(w) \/ PostUnanswered(w) \/ PostRejected(w)
      PROVE  IInv'
  <2>1. PICK r \in Outcome : Got(w, r) /\ Earned(r)' /\ pc[w] = "post"
    <3>1. CASE PostAccepted(w)
      <4>1. accepted' > 0 /\ Got(w, "succeeded") /\ pc[w] = "post"
        BY <3>1 DEF PostAccepted, IInv, TypeOK
      <4>. QED
        BY <4>1 DEF Outcome, Earned
    <3>2. CASE PostUnanswered(w)
      <4>1. faults' > 0 /\ Got(w, "retryable_failure") /\ pc[w] = "post"
        BY <3>2 DEF PostUnanswered, IInv, TypeOK
      <4>. QED
        BY <4>1 DEF Outcome, Earned
    <3>3. CASE PostRejected(w)
      <4>1. rejected' /\ Got(w, "permanent_failure") /\ pc[w] = "post"
        BY <3>3 DEF PostRejected
      <4>. QED
        BY <4>1 DEF Outcome, Earned
    <3>. QED
      BY <1>6, <3>1, <3>2, <3>3
  <2>2. /\ pc' = [pc EXCEPT ![w] = "load"] /\ result' = [result EXCEPT ![w] = r]
        /\ UNCHANGED <<action, delivery, msg, count, held, seen>>
    BY <2>1 DEF Got, rows
  <2>3. TypeOK'
    BY <1>b, <2>1, <2>2 DEF IInv, TypeOK
  <2>4. ASSUME NEW v \in Worker, pc'[v] \in {"load", "flush"}
        PROVE  Earned(result[v])'
    <3>1. CASE v = w
      BY <1>a, <2>1, <2>2, <3>1 DEF Earned
    <3>2. CASE v # w
      <4>1. Earned(result[v]) /\ result'[v] = result[v]
        BY <1>a, <2>2, <2>4, <3>2 DEF ResultIsEarned
      <4>2. PICK o : o = result[v]
        OBVIOUS
      <4>3. Earned(o)'
        BY <1>a, <4>1, <4>2, Monotone, StaysEarned
      <4>. QED
        BY <4>1, <4>2, <4>3 DEF Earned
    <3>. QED
      BY <3>1, <3>2
  <2>5. ResultIsEarned'
    BY <2>4 DEF ResultIsEarned
  <2>. QED
    BY <1>a, <2>1, <2>2, <2>3, <2>5, StatusKept, SettledKept, RowsKept DEF IInv
<1>7. ASSUME NEW w \in Worker, Load(w)
      PROVE  IInv'
  <2>1. /\ pc[w] = "load" /\ pc' = [pc EXCEPT ![w] = "flush"]
        /\ seen' = [seen EXCEPT ![w] = <<action, delivery>>]
        /\ UNCHANGED <<action, delivery, msg, count, held, result, accepted, rejected, faults>>
    BY <1>7 DEF Load, rows
  <2>2. seen' \in [Worker -> Status \X Status]
    <3>1. seen \in [Worker -> Status \X Status] /\ action \in Status /\ delivery \in Status
      BY DEF IInv, TypeOK
    <3>. QED
      BY <2>1, <3>1
  <2>3. TypeOK'
    BY <1>b, <2>1, <2>2 DEF IInv, TypeOK
  <2>. QED
    BY <1>a, <2>1, <2>3, StatusKept, SettledKept, ResultKept, RowsKept DEF IInv
(* The result is recorded: it is an outcome that has happened.             *)
<1>8. ASSUME NEW w \in Worker, Flush(w)
      PROVE  IInv'
  <2>1. /\ pc[w] = "flush" /\ result[w] \in Outcome /\ Earned(result[w])
        /\ action' \in {action, result[w]} /\ delivery' \in {delivery, result[w]}
        /\ UNCHANGED <<count, result, seen, accepted, rejected, faults>>
        /\ Finish(w)
    BY <1>8, <1>a DEF Flush, ResultIsEarned
  <2>2. Raise(w) \/ (Return(w) /\ (accepted > 0 \/ rejected))
    BY <2>1 DEF Finish, Earned, Outcome
  <2>3. action # "none" /\ delivery # "none" /\ result[w] # "none"
    BY <1>a, <2>1 DEF RowsExist, TypeOK, Outcome
  <2>. QED
    BY <1>3, <2>1, <2>2, <2>3
<1>9. ASSUME NEW w \in Worker, Crash(w)
      PROVE  IInv'
  <2>1. /\ pc' = [pc EXCEPT ![w] = "idle"] /\ held' = [held EXCEPT ![w] = NoMessage]
        /\ UNCHANGED <<action, delivery, msg, count, result, seen, accepted, rejected>>
    BY <1>9 DEF Crash, Idle, rows
  <2>2. TypeOK'
    BY <1>b, <2>1 DEF IInv, TypeOK
  <2>. QED
    BY <1>a, <2>1, <2>2, StatusKept, SettledKept, ResultKept, RowsKept DEF IInv
<1>10. CASE UNCHANGED vars
  <2>1. UNCHANGED <<action, delivery, msg, count, pc, held, result, seen, accepted, rejected, faults>>
    BY <1>10 DEF vars, rows, worker
  <2>. QED
    BY <2>1 DEF IInv, TypeOK, RowsExist, ResultIsEarned, Earned, StatusIsEarned, SettledWasDecided
<1>. QED
  BY <1>1, <1>2, <1>4, <1>5, <1>6, <1>7, <1>8, <1>9, <1>10 DEF Next, WorkerStep, Handle
-----------------------------------------------------------------------------
(* Type correctness.                                                       *)
THEOREM TypeCorrect == Spec => []TypeOK
<1>1. Spec => []IInv
  BY IInvInit, IInvStep, PTL DEF Spec
<1>2. IInv => TypeOK
  BY DEF IInv
<1>. QED
  BY <1>1, <1>2, PTL

(* An entry leaves the stream as done only when the receiver has decided.  *)
THEOREM NothingSettledUndecided == Spec => []SettledWasDecided
<1>1. Spec => []IInv
  BY IInvInit, IInvStep, PTL DEF Spec
<1>2. IInv => SettledWasDecided
  BY DEF IInv
<1>. QED
  BY <1>1, <1>2, PTL

(* However late a worker records its result, and whatever it loaded        *)
(* before: a stored status is the result of some post.                     *)
THEOREM EarnedStatus == Spec => []StatusIsEarned
<1>1. Spec => []IInv
  BY IInvInit, IInvStep, PTL DEF Spec
<1>2. IInv => StatusIsEarned
  BY DEF IInv
<1>. QED
  BY <1>1, <1>2, PTL

(* So neither record of a notification says more than what has happened.   *)
THEOREM EarnedRecords == Spec => []RecordsAreEarned
<1>. QED
  BY NothingSettledUndecided, EarnedStatus, PTL DEF RecordsAreEarned

(* A delivered notification that nobody works on stays delivered.          *)
LEMMA DeliveredStep == TypeOK /\ Delivered /\ [Next]_vars => Delivered'
<1> SUFFICES ASSUME TypeOK, Delivered, [Next]_vars
             PROVE  Delivered'
  OBVIOUS
<1>a. /\ pc \in [Worker -> {"idle", "begin", "insert", "post", "load", "flush"}]
      /\ action = "succeeded" /\ \A w \in Worker : pc[w] \in {"idle", "begin", "insert"}
  BY DEF TypeOK, Delivered
<1>1. ASSUME NEW w \in Worker, NEW s \in {"idle", "begin"}, pc' = [pc EXCEPT ![w] = s],
             UNCHANGED action
      PROVE  Delivered'
  BY <1>1, <1>a DEF Delivered
<1>2. ASSUME NEW w \in Worker, NEW m \in Message, Claim(w, m)
      PROVE  Delivered'
  BY <1>1, <1>2 DEF Claim, rows
(* No worker finds a reason to post, and none has a result to record.      *)
<1>3. ASSUME NEW w \in Worker,
             \/ FindAction(w) \/ FindNothing(w) \/ Insert(w) \/ PostAccepted(w)
             \/ PostUnanswered(w) \/ PostBreaks(w) \/ PostRejected(w) \/ Load(w) \/ Flush(w)
      PROVE  FALSE
  BY <1>3, <1>a DEF FindAction, FindNothing, Insert, PostAccepted, PostUnanswered, PostBreaks,
                    PostRejected, Load, Flush, Terminal
<1>4. ASSUME NEW w \in Worker, FindTerminal(w) \/ InsertConflicts(w) \/ Crash(w)
      PROVE  Delivered'
  BY <1>1, <1>4 DEF FindTerminal, InsertConflicts, Crash, Return, Raise, Idle, rows
<1>5. CASE UNCHANGED vars
  BY <1>5, <1>a DEF vars, rows, worker, Delivered
<1>. QED
  BY <1>2, <1>3, <1>4, <1>5 DEF Next, WorkerStep, Handle

(* With nobody at work on it, a success stays recorded, however many       *)
(* entries for the key are still to come.                                  *)
THEOREM SuccessIsFinal == Spec => DeliveredForGood
<1>1. Spec => []TypeOK
  BY TypeCorrect
<1>2. TypeOK /\ [Next]_vars => [Delivered => Delivered']_vars
  BY DeliveredStep
<1>. QED
  BY <1>1, <1>2, PTL DEF Spec, DeliveredForGood
-----------------------------------------------------------------------------
(* How often the receiver may accept.  A worker may still post while no    *)
(* success or permanent failure is recorded, unless it is about to record  *)
(* one.  A worker that is about to record a retryable failure has had its  *)
(* failure counted, and may post again only after it has recorded it.      *)
Excused ==
  {w \in Worker : pc[w] \in {"load", "flush"} /\ result[w] = "retryable_failure"}

Finishing ==
  {w \in Worker : /\ pc[w] \in {"load", "flush"} /\ result[w] \in Terminal
                  /\ pc[w] = "flush" => seen[w][1] # result[w]}

MayPost ==
  {w \in Worker : pc[w] = "post" \/ (action \notin Terminal /\ w \notin Finishing \cup Excused)}

\* Every failure but the excused ones lets each worker post once more.
AcceptancesCounted ==
  accepted + Cardinality(MayPost) <= Cardinality(Worker) * (1 + faults - Cardinality(Excused))

(* What a step may do to the sets that are counted.                        *)
Neutral ==
  /\ MayPost' \subseteq MayPost /\ Excused' = Excused
  /\ accepted' = accepted /\ faults' = faults
Posted ==
  \E w \in MayPost : /\ MayPost' = MayPost \ {w} /\ Excused' = Excused
                     /\ accepted' \in {accepted, accepted + 1} /\ faults' = faults
PostedInVain ==
  \E w \in MayPost : /\ MayPost' = MayPost \ {w}
                     /\ w \notin Excused /\ Excused' = Excused \cup {w}
                     /\ accepted' \in {accepted, accepted + 1} /\ faults' = faults + 1
Failed ==
  /\ Excused' \subseteq Excused /\ faults' = faults + 1
  /\ accepted' = accepted \/ (accepted' = accepted + 1 /\ MayPost # {})
Recorded ==
  \E w \in Excused : /\ Excused' = Excused \ {w}
                     /\ accepted' = accepted /\ faults' = faults

(* A product grows by one of its factors when the other grows by one.      *)
LEMMA Product ==
  ASSUME NEW n \in Nat, NEW k \in Int, NEW l \in Int, l >= k + 1
  PROVE  n * k \in Int /\ n * l \in Int /\ n * l >= n * k + n
<1>1. PICK d \in Nat : l = k + 1 + d
  <2>. l - k - 1 \in Nat
    OBVIOUS
  <2>. QED
    OBVIOUS
<1>2. n * l = n * k + n + n * d
  BY <1>1
<1>3. n * d \in Nat /\ n * k \in Int
  BY <1>1
<1>. QED
  BY <1>2, <1>3

(* Each of the five kinds of step keeps the count.                         *)
LEMMA CountedStep ==
  ASSUME TypeOK, TypeOK', AcceptancesCounted,
         Neutral \/ Posted \/ PostedInVain \/ Failed \/ Recorded
  PROVE  AcceptancesCounted'
<1>0. IsFiniteSet(Worker)
  BY NotificationAssumption
<1>1. /\ accepted \in Nat /\ faults \in Nat
      /\ accepted' \in Nat /\ faults' \in Nat
  BY NotificationAssumption DEF TypeOK
<1>2. /\ MayPost \subseteq Worker /\ MayPost' \subseteq Worker
      /\ Excused \subseteq Worker /\ Excused' \subseteq Worker
  BY DEF MayPost, Excused
<1>3. /\ IsFiniteSet(MayPost) /\ IsFiniteSet(Excused)
      /\ Cardinality(MayPost') <= Cardinality(Worker)
  BY <1>0, <1>2, FS_Subset
<1>4. /\ Cardinality(Worker) \in Nat
      /\ Cardinality(MayPost) \in Nat /\ Cardinality(MayPost') \in Nat
      /\ Cardinality(Excused) \in Nat /\ Cardinality(Excused') \in Nat
  BY <1>0, <1>2, FS_Subset, FS_CardinalityType
<1>5. PICK n \in Nat, m \in Nat, m2 \in Nat, e \in Nat, e2 \in Nat :
        /\ n = Cardinality(Worker)
        /\ m = Cardinality(MayPost) /\ m2 = Cardinality(MayPost')
        /\ e = Cardinality(Excused) /\ e2 = Cardinality(Excused')
  BY <1>4
<1>6. PICK b \in Int : b = n * (1 + faults - e)
  <2>. n * (1 + faults - e) \in Int
    BY <1>1
  <2>. QED
    OBVIOUS
<1>9. accepted + m <= b
  BY <1>5, <1>6 DEF AcceptancesCounted
<1>7. m2 <= n
  BY <1>3, <1>5
<1>8. SUFFICES accepted' + m2 <= n * (1 + faults' - e2)
  BY <1>5 DEF AcceptancesCounted
<1>10. CASE Neutral
  <2>1. m2 <= m /\ e2 = e
    BY <1>10, <1>3, <1>5, FS_Subset DEF Neutral
  <2>2. accepted' = accepted /\ faults' = faults
    BY <1>10 DEF Neutral
  <2>3. accepted + m2 <= b
    BY <2>1, <1>1, <1>9
  <2>. QED
    BY <2>1, <2>2, <2>3, <1>6
<1>11. CASE Posted
  <2>1. PICK w \in MayPost : MayPost' = MayPost \ {w} /\ Excused' = Excused
    BY <1>11 DEF Posted
  <2>2. m2 = m - 1 /\ e2 = e
    BY <2>1, <1>3, <1>5, FS_RemoveElement
  <2>3. accepted' \in {accepted, accepted + 1} /\ faults' = faults
    BY <1>11 DEF Posted
  <2>4. accepted' <= accepted + 1
    BY <2>3, <1>1
  <2>5. accepted' + m2 <= b
    BY <2>2, <2>4, <1>1, <1>5, <1>9
  <2>. QED
    BY <2>2, <2>3, <2>5, <1>6
<1>12. CASE PostedInVain
  <2>1. PICK w \in MayPost : /\ MayPost' = MayPost \ {w}
                             /\ w \notin Excused /\ Excused' = Excused \cup {w}
    BY <1>12 DEF PostedInVain
  <2>2. m2 = m - 1 /\ e2 = e + 1
    BY <2>1, <1>3, <1>5, FS_RemoveElement, FS_AddElement
  <2>3. accepted' \in {accepted, accepted + 1} /\ faults' = faults + 1
    BY <1>12 DEF PostedInVain
  <2>4. accepted' <= accepted + 1
    BY <2>3, <1>1
  <2>5. accepted' + m2 <= b
    BY <2>2, <2>4, <1>1, <1>5, <1>9
  <2>6. 1 + faults' - e2 = 1 + faults - e
    BY <2>2, <2>3, <1>1
  <2>. QED
    BY <2>5, <2>6, <1>6
<1>13. CASE Failed
  <2>1. e2 <= e /\ faults' = faults + 1
    BY <1>13, <1>3, <1>5, FS_Subset DEF Failed
  <2>2. accepted' <= accepted + m
    <3>1. MayPost # {} => m # 0
      BY <1>3, <1>5, FS_EmptySet
    <3>. QED
      BY <3>1, <1>13, <1>1 DEF Failed
  <2>3. PICK c \in Int : c = n * (1 + faults' - e2) /\ c >= b + n
    BY <2>1, <1>1, <1>6, Product
  <2>4. c >= b + n
    BY <2>3
  <2>5. accepted' + m2 <= c
    BY <2>2, <2>4, <1>1, <1>9, <1>5, <1>7
  <2>. QED
    BY <2>3, <2>5
<1>14. CASE Recorded
  <2>1. PICK w \in Excused : Excused' = Excused \ {w}
    BY <1>14 DEF Recorded
  <2>2. e2 = e - 1
    BY <2>1, <1>3, <1>5, FS_RemoveElement
  <2>3. accepted' = accepted /\ faults' = faults
    BY <1>14 DEF Recorded
  <2>4. PICK c \in Int : c = n * (1 + faults' - e2) /\ c >= b + n
    BY <2>2, <2>3, <1>1, <1>6, Product
  <2>5. c >= b + n
    BY <2>4
  <2>6. accepted' + m2 <= c
    BY <2>3, <2>5, <1>1, <1>9, <1>7
  <2>. QED
    BY <2>4, <2>6
<1>. QED
  BY <1>10, <1>11, <1>12, <1>13, <1>14

(* And every step of the handler is one of these kinds.                    *)
LEMMA StepCounts ==
  ASSUME TypeOK, [Next]_vars
  PROVE  Neutral \/ Posted \/ PostedInVain \/ Failed \/ Recorded
<1>0. /\ pc \in [Worker -> {"idle", "begin", "insert", "post", "load", "flush"}]
      /\ result \in [Worker -> Outcome]
      /\ seen \in [Worker -> Status \X Status]
  BY DEF TypeOK
(* A worker that neither posts nor records changes nothing that counts.    *)
<1>1. ASSUME NEW w \in Worker, pc[w] \in {"idle", "begin", "insert"},
             NEW s \in {"idle", "begin", "insert"}, pc' = [pc EXCEPT ![w] = s],
             UNCHANGED <<action, result, seen, accepted, faults>>
      PROVE  Neutral
  BY <1>1, <1>0 DEF Neutral, MayPost, Excused, Finishing
<1>2. ASSUME NEW w \in Worker,
             \/ \E m \in Message : Claim(w, m)
             \/ FindTerminal(w) \/ FindNothing(w) \/ InsertConflicts(w)
      PROVE  Neutral
  <2>1. UNCHANGED <<action, result, seen, accepted, faults>>
    BY <1>2 DEF Claim, FindTerminal, FindNothing, InsertConflicts, rows
  <2>2. /\ pc[w] \in {"idle", "begin", "insert"}
        /\ \E s \in {"idle", "begin", "insert"} : pc' = [pc EXCEPT ![w] = s]
    BY <1>2 DEF Claim, FindTerminal, FindNothing, InsertConflicts, Return, Raise, Idle
  <2>. QED
    BY <1>1, <2>1, <2>2
(* A worker begins to post only while it may.                              *)
<1>3. ASSUME NEW w \in Worker, FindAction(w) \/ Insert(w)
      PROVE  Neutral
  <2>1. /\ pc[w] \in {"begin", "insert"} /\ pc' = [pc EXCEPT ![w] = "post"]
        /\ action \notin Terminal /\ action' \notin Terminal
        /\ UNCHANGED <<result, seen, accepted, faults>>
    BY <1>3 DEF FindAction, Insert, Terminal
  <2>. QED
    BY <2>1, <1>0 DEF Neutral, MayPost, Excused, Finishing
<1>4. ASSUME NEW w \in Worker, PostAccepted(w) \/ PostRejected(w)
      PROVE  Posted
  <2>1. PICK r \in Terminal :
          /\ pc[w] = "post" /\ pc' = [pc EXCEPT ![w] = "load"]
          /\ result' = [result EXCEPT ![w] = r]
          /\ UNCHANGED <<action, seen, faults>>
          /\ accepted' \in {accepted, accepted + 1}
    BY <1>4 DEF PostAccepted, PostRejected, Got, Terminal, rows
  <2>2. w \in MayPost /\ MayPost' = MayPost \ {w} /\ Excused' = Excused
    BY <2>1, <1>0 DEF MayPost, Excused, Finishing, Terminal
  <2>. QED
    BY <2>1, <2>2 DEF Posted
<1>5. ASSUME NEW w \in Worker, PostUnanswered(w)
      PROVE  PostedInVain
  <2>1. /\ pc[w] = "post" /\ pc' = [pc EXCEPT ![w] = "load"]
        /\ result' = [result EXCEPT ![w] = "retryable_failure"]
        /\ UNCHANGED <<action, seen>>
        /\ faults' = faults + 1 /\ accepted' \in {accepted, accepted + 1}
    BY <1>5 DEF PostUnanswered, Got, rows
  <2>2. /\ w \in MayPost /\ MayPost' = MayPost \ {w}
        /\ w \notin Excused /\ Excused' = Excused \cup {w}
    BY <2>1, <1>0 DEF MayPost, Excused, Finishing, Terminal
  <2>. QED
    BY <2>1, <2>2 DEF PostedInVain
<1>6. ASSUME NEW w \in Worker, PostBreaks(w) \/ Crash(w)
      PROVE  Failed
  <2>1. /\ pc' = [pc EXCEPT ![w] = "idle"] /\ UNCHANGED result
        /\ faults' = faults + 1
        /\ accepted' = accepted \/ (accepted' = accepted + 1 /\ pc[w] = "post")
    BY <1>6 DEF PostBreaks, Crash, Raise, Idle
  <2>2. Excused' \subseteq Excused /\ (pc[w] = "post" => w \in MayPost)
    BY <2>1, <1>0 DEF Excused, MayPost
  <2>. QED
    BY <2>1, <2>2 DEF Failed
(* What is loaded is not terminal, or nobody may begin to post any more.   *)
<1>7. ASSUME NEW w \in Worker, Load(w)
      PROVE  Neutral
  <2>1. /\ pc[w] = "load" /\ pc' = [pc EXCEPT ![w] = "flush"]
        /\ seen' = [seen EXCEPT ![w] = <<action, delivery>>]
        /\ UNCHANGED <<action, result, accepted, faults>>
    BY <1>7 DEF Load, rows
  <2>2. seen'[w][1] = action
    BY <2>1, <1>0
  <2>3. \A v \in Worker : v # w => pc'[v] = pc[v] /\ seen'[v] = seen[v]
    BY <2>1, <1>0
  <2>4. pc'[w] = "flush"
    BY <2>1, <1>0
  <2>5. Excused' = Excused
    BY <2>1, <2>3, <2>4 DEF Excused
  <2>6. action \notin Terminal => Finishing' = Finishing
    BY <2>1, <2>2, <2>3, <2>4 DEF Finishing
  <2>7. MayPost' = MayPost
    BY <2>1, <2>3, <2>4, <2>5, <2>6 DEF MayPost
  <2>. QED
    BY <2>1, <2>5, <2>7 DEF Neutral
<1>8. ASSUME NEW w \in Worker, Flush(w)
      PROVE  Neutral \/ Recorded
  <2>1. /\ pc[w] = "flush" /\ pc' = [pc EXCEPT ![w] = "idle"]
        /\ action' = IF seen[w][1] = result[w] THEN action ELSE result[w]
        /\ UNCHANGED <<result, seen, accepted, faults>>
    BY <1>8 DEF Flush, Finish, Return, Raise, Idle
  <2>2. result[w] \in Terminal \cup {"retryable_failure"}
    BY <1>0 DEF Outcome, Terminal
  <2>3. CASE result[w] = "retryable_failure"
    <3>1. w \in Excused /\ Excused' = Excused \ {w}
      BY <2>1, <2>3, <1>0 DEF Excused
    <3>. QED
      BY <2>1, <3>1 DEF Recorded
  <2>4. CASE result[w] \in Terminal
    <3>1. Excused' = Excused
      BY <2>1, <2>4, <1>0 DEF Excused, Terminal
    <3>2. \A v \in Worker : pc'[v] = "post" => pc[v] = "post"
      BY <2>1, <1>0
    <3>3. CASE seen[w][1] = result[w]
      <4>1. Finishing' = Finishing /\ action' = action
        BY <2>1, <3>3, <1>0 DEF Finishing
      <4>2. MayPost' \subseteq MayPost
        BY <3>1, <3>2, <4>1 DEF MayPost
      <4>. QED
        BY <2>1, <3>1, <4>2 DEF Neutral
    <3>4. CASE seen[w][1] # result[w]
      <4>1. action' \in Terminal
        BY <2>1, <2>4, <3>4
      <4>2. MayPost' \subseteq MayPost
        BY <3>2, <4>1 DEF MayPost
      <4>. QED
        BY <2>1, <3>1, <4>2 DEF Neutral
    <3>. QED
      BY <3>3, <3>4
  <2>. QED
    BY <2>2, <2>3, <2>4
<1>9. CASE UNCHANGED vars
  BY <1>9 DEF vars, rows, worker, Neutral, MayPost, Excused, Finishing
<1>. QED
  BY <1>2, <1>3, <1>4, <1>5, <1>6, <1>7, <1>8, <1>9 DEF Next, WorkerStep, Handle

(* At first every worker may post, and nothing has been accepted.          *)
LEMMA CountedInit == Init => AcceptancesCounted
<1> SUFFICES ASSUME Init
             PROVE  AcceptancesCounted
  OBVIOUS
<1>1. MayPost = Worker /\ Excused = {}
  BY DEF Init, MayPost, Excused, Finishing, Terminal
<1>2. Cardinality(Worker) \in Nat /\ Cardinality({}) = 0
  BY NotificationAssumption, FS_CardinalityType, FS_EmptySet
<1>3. PICK n \in Nat : n = Cardinality(Worker)
  BY <1>2
<1>4. 0 + n <= n * (1 + 0 - 0)
  BY <1>3
<1>. QED
  BY <1>1, <1>2, <1>3, <1>4 DEF Init, AcceptancesCounted

(* However the workers overlap, no failure lets the receiver accept one    *)
(* notification more often than once for each worker.                      *)
THEOREM FewCopies == Spec => []AcceptancesBounded
<1>1. TypeOK /\ TypeOK' /\ AcceptancesCounted /\ [Next]_vars => AcceptancesCounted'
  BY StepCounts, CountedStep
<1>2. Spec => []AcceptancesCounted
  BY <1>1, CountedInit, TypeCorrect, PTL DEF Spec
<1>3. TypeOK /\ AcceptancesCounted => AcceptancesBounded
  <2> SUFFICES ASSUME TypeOK, AcceptancesCounted
               PROVE  AcceptancesBounded
    OBVIOUS
  <2>1. accepted \in Nat /\ faults \in Nat /\ IsFiniteSet(Worker)
    BY NotificationAssumption DEF TypeOK
  <2>2. MayPost \subseteq Worker /\ Excused \subseteq Worker
    BY DEF MayPost, Excused
  <2>3. PICK n \in Nat, m \in Nat, e \in Nat :
          n = Cardinality(Worker) /\ m = Cardinality(MayPost) /\ e = Cardinality(Excused)
    BY <2>1, <2>2, FS_Subset, FS_CardinalityType
  <2>4. n * (1 + faults - e) <= n * (1 + faults)
    BY <2>1, <2>3
  <2>5. accepted + m <= n * (1 + faults - e)
    BY <2>3 DEF AcceptancesCounted
  <2>6. n * (1 + faults - e) \in Int /\ n * (1 + faults) \in Int
    BY <2>1, <2>3
  <2>7. accepted <= n * (1 + faults)
    BY <2>1, <2>3, <2>4, <2>5, <2>6
  <2>. QED
    BY <2>3, <2>7 DEF AcceptancesBounded
<1>. QED
  BY <1>2, <1>3, TypeCorrect, PTL
=============================================================================
