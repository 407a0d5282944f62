----------------------------- MODULE ApiProofs -----------------------------
(***************************************************************************)
(* What holds of the two REST APIs: of the processor API (ProcessorJobs),  *)
(* for any number of jobs, results and requests in progress, and of the    *)
(* event queries (EventQuery), for any observations, links and filters and *)
(* whatever is committed between the statements of a request.  The two     *)
(* share no variable, and each theorem names the specification it is of.   *)
(***************************************************************************)
EXTENDS ProcessorJobs, EventQuery, FiniteSetTheorems, TLAPS

-----------------------------------------------------------------------------
(* The processor API.                                                      *)
Unclaimed == {"none", "pending"}

PlacesOK ==
  \A s \in Session :
    pc[s] \in {"loaded", "insert", "written", "result_answered", "result_stored"} =>
      sent[s] \in Result

(* A job is claimed by one request at a time, while it is pending, and the *)
(* claim that is stored is the only one.                                   *)
OneClaim ==
  /\ \A s, t \in Session :
       /\ s # t
       /\ pc[s] \in {"claimed", "claim_answered", "claim_stored"}
       /\ pc[t] \in {"claimed", "claim_answered", "claim_stored"}
       => job[s] # job[t]
  /\ \A s \in Session : pc[s] \in {"claimed", "claim_answered"} => status[job[s]] = "pending"
  /\ \A s \in Session : pc[s] = "claim_stored" => status[job[s]] \notin Unclaimed
  /\ \A j \in Job : attempts[j] = IF status[j] \in Unclaimed THEN 0 ELSE 1

(* A result is written for a job that has been claimed and has none, by    *)
(* one request at a time.                                                  *)
OneResult ==
  /\ \A s \in Session :
       /\ pc[s] \in {"loaded", "insert", "written", "result_answered"} /\ saw[s] = "running"
       => status[job[s]] \notin Unclaimed
  /\ \A s \in Session : pc[s] \in {"insert", "written", "result_answered"} =>
       saw[s] = "running" /\ sent[s] \in Acceptable
  /\ \A s \in Session : pc[s] \in {"written", "result_answered"} => invocation[job[s]] = NoResult
  /\ \A s, t \in Session :
       /\ s # t
       /\ pc[s] \in {"written", "result_answered"} /\ pc[t] \in {"written", "result_answered"}
       => job[s] # job[t]
  /\ \A s \in Session : pc[s] = "result_stored" => invocation[job[s]] = sent[s]
  /\ ResultMatchesJob

IInv == TypeOK /\ PlacesOK /\ OneClaim /\ OneResult

(* A job is handed out once more than there are failures only if its claim *)
(* is stored or about to be, and has not got a request that will hand it   *)
(* out yet.                                                                *)
Handing ==
  /\ HandedOutOnce
  /\ \A j \in Job :
       \/ handed[j] <= faults
       \/ status[j] \notin Unclaimed
       \/ \E s \in Session : pc[s] = "claim_answered" /\ job[s] = j
  /\ \A s \in Session : pc[s] = "claim_stored" => handed[job[s]] <= faults

Receipts == IsFiniteSet(Unstored) /\ ReceiptsAreHonest
-----------------------------------------------------------------------------
(* The end of a request that stores nothing leaves the invariant.          *)
LEMMA EndKeeps ==
  ASSUME IInv, NEW s \in Session, End(s), UNCHANGED rows,
         \/ UNCHANGED receipts
         \/ \E a \in BOOLEAN : pc[s] # "idle" /\ sent[s] \in Result /\ Receipt(s, a),
         handed' \in [Job -> Nat], faults' \in 0 .. MaxFaults
  PROVE  IInv'
<1> USE ProcessorAssumption
<1>1. /\ pc' = [pc EXCEPT ![s] = "idle"] /\ job' = [job EXCEPT ![s] = NoJob]
      /\ sent' = [sent EXCEPT ![s] = NoResult] /\ saw' = [saw EXCEPT ![s] = "none"]
      /\ UNCHANGED <<status, attempts, invocation, audits>>
  BY DEF End, Goto, rows
<1>2. receipts' \subseteq [job : Job, result : Result, accepted : BOOLEAN]
  BY DEF Receipt, IInv, TypeOK
<1>3. TypeOK'
  BY <1>1, <1>2 DEF IInv, TypeOK
<1>4. PlacesOK'
  BY <1>1 DEF IInv, TypeOK, PlacesOK
<1>5. OneClaim'
  BY <1>1 DEF IInv, TypeOK, OneClaim, Unclaimed
<1>6. OneResult'
  BY <1>1 DEF IInv, TypeOK, OneResult, ResultMatchesJob, Unclaimed
<1>. QED
  BY <1>3, <1>4, <1>5, <1>6 DEF IInv

(* A request in progress is about a job.                                   *)
LEMMA RequestHasJob ==
  ASSUME IInv, NEW s \in Session, pc[s] # "idle"
  PROVE  job[s] \in Job
BY DEF IInv, TypeOK

(* Hand-outs are counted.                                                  *)
LEMMA HandOutCounts ==
  ASSUME handed \in [Job -> Nat], NEW s \in Session, job[s] \in Job, HandOut(s)
  PROVE  handed' \in [Job -> Nat]
BY DEF HandOut

(* A receipt names a job and a result.                                     *)
LEMMA ReceiptType ==
  ASSUME receipts \subseteq [job : Job, result : Result, accepted : BOOLEAN],
         NEW s \in Session, job[s] \in Job, sent[s] \in Result, NEW a \in BOOLEAN,
         Receipt(s, a)
  PROVE  receipts' \subseteq [job : Job, result : Result, accepted : BOOLEAN]
BY DEF Receipt

(* Nothing has been claimed or submitted yet.                              *)
LEMMA IInvInit == Init => IInv
  BY ProcessorAssumption
     DEF Init, IInv, TypeOK, PlacesOK, OneClaim, OneResult, ResultMatchesJob, Unclaimed

(* The steps of next_job: a claim that is taken, answered and committed    *)
(* stays the only one.                                                     *)
LEMMA ClaimStep ==
  ASSUME IInv, NEW s \in Session,
         \/ Poll(s) \/ AnswerClaim(s) \/ CommitAnsweredClaim(s)
         \/ CommitClaim(s) \/ AnswerStoredClaim(s)
  PROVE  IInv'
<1> USE ProcessorAssumption
<1>1. CASE Poll(s)
  <2>2. PICK j \in Job :
          /\ status[j] = "pending" /\ j \notin Locked
          /\ job' = [job EXCEPT ![s] = j] /\ pc[s] = "idle"
          /\ pc' = [pc EXCEPT ![s] = "claimed"]
          /\ UNCHANGED <<status, attempts, invocation, audits, handed, receipts, sent, saw, faults>>
    BY <1>1 DEF Poll, Queued, Goto, rows
  <2>3. \A t \in Session : pc[t] \in {"claimed", "claim_answered"} => job[t] # j
    BY <2>2 DEF Locked
  <2>4. TypeOK' /\ PlacesOK'
    BY <2>2 DEF IInv, TypeOK, PlacesOK
  <2>5. OneClaim'
    BY <2>2, <2>3 DEF IInv, TypeOK, OneClaim, Unclaimed
  <2>6. OneResult'
    BY <2>2 DEF IInv, TypeOK, OneResult, ResultMatchesJob, Unclaimed
  <2>. QED
    BY <2>4, <2>5, <2>6 DEF IInv
<1>2. CASE AnswerClaim(s)
  <2>1. /\ pc[s] = "claimed" /\ pc' = [pc EXCEPT ![s] = "claim_answered"]
        /\ handed' = [handed EXCEPT ![job[s]] = @ + 1]
        /\ UNCHANGED <<status, attempts, invocation, audits, receipts, job, sent, saw, faults>>
    BY <1>2 DEF AnswerClaim, HandOut, Goto, rows
  <2>2. handed' \in [Job -> Nat]
    <3>1. job[s] \in Job /\ handed \in [Job -> Nat] /\ HandOut(s)
      BY <1>2, <2>1, RequestHasJob DEF AnswerClaim, IInv, TypeOK
    <3>. QED
      BY <3>1, HandOutCounts
  <2>3. TypeOK' /\ PlacesOK'
    BY <2>1, <2>2 DEF IInv, TypeOK, PlacesOK
  <2>4. OneClaim'
    BY <2>1 DEF IInv, TypeOK, OneClaim, Unclaimed
  <2>5. OneResult'
    BY <2>1 DEF IInv, TypeOK, OneResult, ResultMatchesJob, Unclaimed
  <2>. QED
    BY <2>3, <2>4, <2>5 DEF IInv
(* The claim is stored: the job is pending and has no result.              *)
<1>3. ASSUME pc[s] \in {"claimed", "claim_answered"}, StoreClaim(s),
             \/ End(s)
             \/ Goto(s, "claim_stored") /\ UNCHANGED <<job, sent, saw>>,
             UNCHANGED <<handed, receipts, faults>>
      PROVE  IInv'
  <2>1. PICK j \in Job : j = job[s] /\ status[j] = "pending" /\ attempts[j] = 0
    <3>1. job[s] \in Job
      BY <1>3, RequestHasJob
    <3>2. status[job[s]] = "pending" /\ attempts[job[s]] = 0
      BY <1>3, <3>1 DEF IInv, OneClaim, Unclaimed
    <3>. QED
      BY <3>1, <3>2
  <2>2. /\ status' = [status EXCEPT ![j] = "running"]
        /\ attempts' = [attempts EXCEPT ![j] = 1]
        /\ UNCHANGED <<invocation, audits>>
    BY <1>3, <2>1 DEF StoreClaim
  <2>3. invocation[j] = NoResult
    BY <2>1 DEF IInv, TypeOK, OneResult, ResultMatchesJob
  <2>4. \A t \in Session \ {s} :
          pc[t] \in {"claimed", "claim_answered", "claim_stored"} => job[t] # j
    BY <1>3, <2>1 DEF IInv, OneClaim
  <2>5. /\ pc'[s] \in {"idle", "claim_stored"} /\ (pc'[s] = "idle" <=> job'[s] = NoJob)
        /\ pc'[s] = "claim_stored" => job'[s] = j
        /\ pc' \in [Session -> {"idle", "claimed", "claim_answered", "claim_stored", "loaded",
                                "insert", "written", "result_answered", "result_stored"}]
        /\ job' \in [Session -> Job \cup {NoJob}]
        /\ sent' \in [Session -> Result \cup {NoResult}]
        /\ saw' \in [Session -> {"none", "pending", "running", "succeeded", "abstained", "failed"}]
        /\ \A t \in Session \ {s} : /\ pc'[t] = pc[t] /\ job'[t] = job[t]
                                    /\ sent'[t] = sent[t] /\ saw'[t] = saw[t]
    BY <1>3, <2>1 DEF End, Goto, IInv, TypeOK
  <2>6. TypeOK'
    BY <1>3, <2>2, <2>5 DEF IInv, TypeOK
  <2>7. PlacesOK'
    BY <2>5 DEF IInv, PlacesOK
  <2>8. OneClaim'
    BY <2>1, <2>2, <2>4, <2>5 DEF IInv, TypeOK, OneClaim, Unclaimed
  <2>9. OneResult'
    BY <2>1, <2>2, <2>3, <2>5 DEF IInv, TypeOK, OneResult, ResultMatchesJob, Unclaimed
  <2>. QED
    BY <2>6, <2>7, <2>8, <2>9 DEF IInv
<1>4. CASE CommitAnsweredClaim(s)
  BY <1>3, <1>4 DEF CommitAnsweredClaim
<1>5. CASE CommitClaim(s)
  BY <1>3, <1>5 DEF CommitClaim
<1>6. CASE AnswerStoredClaim(s)
  <2>1. handed' \in [Job -> Nat]
    <3>1. job[s] \in Job /\ handed \in [Job -> Nat] /\ HandOut(s)
      BY <1>6, RequestHasJob DEF AnswerStoredClaim, IInv, TypeOK
    <3>. QED
      BY <3>1, HandOutCounts
  <2>2. /\ End(s) /\ UNCHANGED <<rows, receipts, faults>> /\ faults \in 0 .. MaxFaults
    BY <1>6 DEF AnswerStoredClaim, IInv, TypeOK
  <2>. QED
    BY <2>1, <2>2, EndKeeps
<1>. QED
  BY <1>1, <1>2, <1>4, <1>5, <1>6
(* The steps of submit_result up to the insert of the invocation, of which *)
(* there is one for a job.                                                 *)
LEMMA SubmitStep ==
  ASSUME IInv, NEW s \in Session,
         \/ \E j \in Job, r \in Result : Submit(s, j, r)
         \/ FindInvocation(s) \/ Refuse(s) \/ Accept(s)
         \/ InsertInvocation(s) \/ InvocationConflict(s)
  PROVE  IInv'
<1> USE ProcessorAssumption
<1>1. ASSUME NEW j \in Job, NEW r \in Result, Submit(s, j, r)
      PROVE  IInv'
  <2>1. /\ pc[s] = "idle" /\ pc' = [pc EXCEPT ![s] = "loaded"]
        /\ job' = [job EXCEPT ![s] = j] /\ sent' = [sent EXCEPT ![s] = r]
        /\ saw' = [saw EXCEPT ![s] = status[j]]
        /\ UNCHANGED <<status, attempts, invocation, audits, handed, receipts, faults>>
    BY <1>1 DEF Submit, Goto, rows
  <2>2. TypeOK' /\ PlacesOK'
    BY <2>1 DEF IInv, TypeOK, PlacesOK
  <2>3. OneClaim'
    BY <2>1 DEF IInv, TypeOK, OneClaim, Unclaimed
  <2>4. OneResult'
    BY <2>1 DEF IInv, TypeOK, OneResult, ResultMatchesJob, Unclaimed
  <2>. QED
    BY <2>2, <2>3, <2>4 DEF IInv
<1>2. CASE FindInvocation(s)
  <2>1. /\ pc[s] # "idle" /\ sent[s] \in Result /\ Receipt(s, FALSE)
        /\ End(s) /\ UNCHANGED <<rows, handed, faults>>
        /\ handed \in [Job -> Nat] /\ faults \in 0 .. MaxFaults
    BY <1>2 DEF FindInvocation, IInv, PlacesOK, TypeOK
  <2>. QED
    BY <2>1, EndKeeps
<1>3. CASE Refuse(s) \/ InvocationConflict(s)
  <2>1. /\ End(s) /\ UNCHANGED <<rows, handed, receipts, faults>>
        /\ handed \in [Job -> Nat] /\ faults \in 0 .. MaxFaults
    BY <1>3 DEF Refuse, InvocationConflict, IInv, TypeOK
  <2>. QED
    BY <2>1, EndKeeps
<1>4. CASE Accept(s)
  <2>1. /\ pc[s] = "loaded" /\ pc' = [pc EXCEPT ![s] = "insert"]
        /\ saw[s] = "running" /\ sent[s] \in Acceptable
        /\ UNCHANGED <<status, attempts, invocation, audits, handed, receipts, job, sent, saw, faults>>
    BY <1>4 DEF Accept, Goto, rows
  <2>2. TypeOK' /\ PlacesOK'
    BY <2>1 DEF IInv, TypeOK, PlacesOK
  <2>3. OneClaim'
    BY <2>1 DEF IInv, TypeOK, OneClaim, Unclaimed
  <2>4. OneResult'
    BY <2>1 DEF IInv, TypeOK, OneResult, ResultMatchesJob, Unclaimed
  <2>. QED
    BY <2>2, <2>3, <2>4 DEF IInv
(* The unique constraint: no other request has an insert under way.        *)
<1>5. CASE InsertInvocation(s)
  <2>1. /\ pc[s] = "insert" /\ pc' = [pc EXCEPT ![s] = "written"]
        /\ invocation[job[s]] = NoResult
        /\ \A t \in Session \ {s} : pc[t] \in {"written", "result_answered"} => job[t] # job[s]
        /\ UNCHANGED <<status, attempts, invocation, audits, handed, receipts, job, sent, saw, faults>>
    BY <1>5 DEF InsertInvocation, Awaited, Taken, Goto, rows
  <2>2. TypeOK' /\ PlacesOK'
    BY <2>1 DEF IInv, TypeOK, PlacesOK
  <2>3. OneClaim'
    BY <2>1 DEF IInv, TypeOK, OneClaim, Unclaimed
  <2>4. OneResult'
    BY <2>1 DEF IInv, TypeOK, OneResult, ResultMatchesJob, Unclaimed
  <2>. QED
    BY <2>2, <2>3, <2>4 DEF IInv
<1>. QED
  BY <1>1, <1>2, <1>3, <1>4, <1>5

(* From the insert to the commit of a result and its receipt.              *)
LEMMA ResultStep ==
  ASSUME IInv, NEW s \in Session,
         \/ AnswerResult(s) \/ CommitAnsweredResult(s)
         \/ CommitResult(s) \/ AnswerStoredResult(s)
  PROVE  IInv'
<1> USE ProcessorAssumption
<1>1. CASE AnswerResult(s)
  <2>1. /\ pc[s] = "written" /\ pc' = [pc EXCEPT ![s] = "result_answered"]
        /\ UNCHANGED <<status, attempts, invocation, audits, handed, job, sent, saw, faults>>
    BY <1>1 DEF AnswerResult, Goto, rows
  <2>2. receipts' \subseteq [job : Job, result : Result, accepted : BOOLEAN]
    <3>1. /\ job[s] \in Job /\ sent[s] \in Result /\ Receipt(s, TRUE)
          /\ receipts \subseteq [job : Job, result : Result, accepted : BOOLEAN]
      BY <1>1, <2>1, RequestHasJob DEF AnswerResult, IInv, PlacesOK, TypeOK
    <3>. QED
      BY <3>1, ReceiptType
  <2>3. TypeOK' /\ PlacesOK'
    BY <2>1, <2>2 DEF IInv, TypeOK, PlacesOK
  <2>4. OneClaim'
    BY <2>1 DEF IInv, TypeOK, OneClaim, Unclaimed
  <2>5. OneResult'
    BY <2>1 DEF IInv, TypeOK, OneResult, ResultMatchesJob, Unclaimed
  <2>. QED
    BY <2>3, <2>4, <2>5 DEF IInv
(* The result is stored: the job has been claimed and has none yet.        *)
<1>2. ASSUME pc[s] \in {"written", "result_answered"}, StoreResult(s),
             \/ End(s)
             \/ Goto(s, "result_stored") /\ UNCHANGED <<job, sent, saw>>,
             UNCHANGED <<handed, receipts, faults>>
      PROVE  IInv'
  <2>1. PICK j \in Job, r \in Acceptable :
          /\ j = job[s] /\ r = sent[s] /\ status[j] \notin Unclaimed
          /\ invocation[j] = NoResult /\ audits[j] = 0 /\ attempts[j] = 1
    <3>1. job[s] \in Job
      BY <1>2, RequestHasJob
    <3>2. /\ sent[s] \in Acceptable /\ status[job[s]] \notin Unclaimed
          /\ invocation[job[s]] = NoResult
      BY <1>2 DEF IInv, OneResult
    <3>3. audits[job[s]] = 0 /\ attempts[job[s]] = 1
      BY <3>1, <3>2 DEF IInv, OneResult, ResultMatchesJob, OneClaim
    <3>. QED
      BY <3>1, <3>2, <3>3
  <2>2. /\ invocation' = [invocation EXCEPT ![j] = r]
        /\ status' = [status EXCEPT ![j] = outcome[r]]
        /\ audits' = [audits EXCEPT ![j] = 1]
        /\ UNCHANGED attempts
    BY <1>2, <2>1 DEF StoreResult
  <2>3. r \in Result /\ r # NoResult /\ outcome[r] \in {"succeeded", "abstained", "failed"}
    OBVIOUS
  <2>4. \A t \in Session \ {s} : pc[t] \in {"written", "result_answered"} => job[t] # j
    BY <1>2, <2>1 DEF IInv, OneResult
  <2>5. /\ pc'[s] \in {"idle", "result_stored"} /\ (pc'[s] = "idle" <=> job'[s] = NoJob)
        /\ pc'[s] = "result_stored" => job'[s] = j /\ sent'[s] = r
        /\ pc' \in [Session -> {"idle", "claimed", "claim_answered", "claim_stored", "loaded",
                                "insert", "written", "result_answered", "result_stored"}]
        /\ job' \in [Session -> Job \cup {NoJob}]
        /\ sent' \in [Session -> Result \cup {NoResult}]
        /\ saw' \in [Session -> {"none", "pending", "running", "succeeded", "abstained", "failed"}]
        /\ \A t \in Session \ {s} : /\ pc'[t] = pc[t] /\ job'[t] = job[t]
                                    /\ sent'[t] = sent[t] /\ saw'[t] = saw[t]
    BY <1>2, <2>1 DEF End, Goto, IInv, TypeOK
  <2>6. TypeOK'
    BY <1>2, <2>2, <2>3, <2>5 DEF IInv, TypeOK
  <2>7. PlacesOK'
    BY <2>3, <2>5 DEF IInv, PlacesOK
  <2>8. OneClaim'
    BY <2>1, <2>2, <2>3, <2>5 DEF IInv, TypeOK, OneClaim, Unclaimed
  <2>9. ResultMatchesJob'
    BY <2>1, <2>2, <2>3 DEF IInv, TypeOK, OneResult, ResultMatchesJob
  <2>10. \A t \in Session : pc'[t] = "result_stored" => invocation'[job'[t]] = sent'[t]
    <3>1. \A t \in Session \ {s} : pc[t] = "result_stored" => job[t] # j
      BY <2>1, <2>3 DEF IInv, OneResult, PlacesOK
    <3>. QED
      BY <2>1, <2>2, <2>5, <3>1, RequestHasJob DEF IInv, TypeOK, OneResult
  <2>11. OneResult'
    BY <2>1, <2>2, <2>3, <2>4, <2>5, <2>9, <2>10, RequestHasJob DEF IInv, TypeOK, OneResult, Unclaimed
  <2>. QED
    BY <2>6, <2>7, <2>8, <2>11 DEF IInv
<1>3. CASE CommitAnsweredResult(s)
  BY <1>2, <1>3 DEF CommitAnsweredResult
<1>4. CASE CommitResult(s)
  BY <1>2, <1>4 DEF CommitResult
<1>5. CASE AnswerStoredResult(s)
  <2>1. /\ pc[s] # "idle" /\ sent[s] \in Result /\ Receipt(s, TRUE)
        /\ End(s) /\ UNCHANGED <<rows, handed, faults>>
        /\ handed \in [Job -> Nat] /\ faults \in 0 .. MaxFaults
    BY <1>5 DEF AnswerStoredResult, IInv, PlacesOK, TypeOK
  <2>. QED
    BY <2>1, EndKeeps
<1>. QED
  BY <1>1, <1>3, <1>4, <1>5

(* So every step keeps the invariant.                                      *)
LEMMA IInvStep == IInv /\ [Next]_vars => IInv'
<1> SUFFICES ASSUME IInv, [Next]_vars
             PROVE  IInv'
  OBVIOUS
<1> USE ProcessorAssumption
<1>1. ASSUME NEW j \in Job, CreateJob(j)
      PROVE  IInv'
  <2>1. /\ status[j] = "none" /\ status' = [status EXCEPT ![j] = "pending"]
        /\ UNCHANGED <<attempts, invocation, audits, handed, receipts, pc, job, sent, saw, faults>>
    BY <1>1 DEF CreateJob, session
  <2>2. TypeOK' /\ PlacesOK'
    BY <2>1 DEF IInv, TypeOK, PlacesOK
  <2>3. OneClaim'
    BY <2>1, RequestHasJob DEF IInv, TypeOK, OneClaim, Unclaimed
  <2>4. OneResult'
    BY <2>1, RequestHasJob DEF IInv, TypeOK, OneResult, ResultMatchesJob, Unclaimed
  <2>. QED
    BY <2>2, <2>3, <2>4 DEF IInv
<1>2. ASSUME NEW s \in Session, Abort(s)
      PROVE  IInv'
  <2>1. /\ End(s) /\ UNCHANGED <<rows, handed, receipts>>
        /\ handed \in [Job -> Nat] /\ faults' \in 0 .. MaxFaults
    BY <1>2 DEF Abort, IInv, TypeOK
  <2>. QED
    BY <2>1, EndKeeps
<1>3. CASE UNCHANGED vars
  BY <1>3 DEF vars, rows, session, IInv, TypeOK, PlacesOK, OneClaim, OneResult, ResultMatchesJob
<1>. QED
  BY <1>1, <1>2, <1>3, ClaimStep, SubmitStep, ResultStep DEF Next, Serve
-----------------------------------------------------------------------------
(* Type correctness.                                                       *)
THEOREM TypeCorrect == Spec => []TypeOK
<1>1. Spec => []IInv
  BY IInvInit, IInvStep, PTL DEF Spec
<1>2. IInv => TypeOK
  BY DEF IInv
<1>. QED
  BY <1>1, <1>2, PTL

(* Of any number of submissions for a job, one is stored at most, an       *)
(* acceptable one, and status and audit trail agree with it.               *)
THEOREM ResultMatches == Spec => []ResultMatchesJob
<1>1. Spec => []IInv
  BY IInvInit, IInvStep, PTL DEF Spec
<1>2. IInv => ResultMatchesJob
  BY DEF IInv, OneResult
<1>. QED
  BY <1>1, <1>2, PTL

-----------------------------------------------------------------------------
(* A job is handed out again only when a claim has been lost.              *)
LEMMA HandingStep == IInv /\ Handing /\ [Next]_vars => Handing'
<1> SUFFICES ASSUME IInv, Handing, [Next]_vars
             PROVE  Handing'
  OBVIOUS
<1> USE ProcessorAssumption
<1>a. /\ handed \in [Job -> Nat] /\ faults \in Nat
      /\ pc \in [Session -> {"idle", "claimed", "claim_answered", "claim_stored", "loaded",
                             "insert", "written", "result_answered", "result_stored"}]
      /\ status \in [Job -> {"none", "pending", "running", "succeeded", "abstained", "failed"}]
      /\ job \in [Session -> Job \cup {NoJob}]
      /\ \A t \in Session : pc[t] # "idle" => job[t] \in Job
  BY RequestHasJob DEF IInv, TypeOK
<1>b. \A j \in Job : attempts'[j] <= 1
  <2>1. IInv'
    BY IInvStep
  <2>2. \A j \in Job : attempts'[j] = IF status'[j] \in Unclaimed THEN 0 ELSE 1
    BY <2>1 DEF IInv, OneClaim
  <2>. QED
    BY <2>2
(* Steps that hand nothing out, and lose no claim that has been answered.  *)
<1>1. ASSUME UNCHANGED <<handed, faults>>,
             \A j \in Job : status[j] \notin Unclaimed => status'[j] \notin Unclaimed,
             \A s \in Session : pc[s] = "claim_answered" =>
               \/ pc'[s] = "claim_answered" /\ job'[s] = job[s]
               \/ status'[job[s]] \notin Unclaimed,
             \A s \in Session : pc'[s] = "claim_stored" => handed[job'[s]] <= faults
      PROVE  Handing'
  <2>1. HandedOutOnce'
    BY <1>1, <1>b DEF Handing, HandedOutOnce
  <2>2. ASSUME NEW j \in Job, handed[j] > faults, status'[j] \in Unclaimed
        PROVE  \E s \in Session : pc'[s] = "claim_answered" /\ job'[s] = j
    <3>1. status[j] \in Unclaimed
      BY <1>1, <2>2
    <3>2. PICK s \in Session : pc[s] = "claim_answered" /\ job[s] = j
      BY <1>a, <2>2, <3>1 DEF Handing
    <3>. QED
      BY <1>1, <2>2, <3>2
  <2>. QED
    BY <1>1, <1>a, <2>1, <2>2 DEF Handing
(* Before the claim of a pending job is answered, it has been handed out   *)
(* for claims that were lost only.                                         *)
<1>2. ASSUME NEW s \in Session, pc[s] = "claimed"
      PROVE  /\ handed[job[s]] <= faults /\ status[job[s]] = "pending" /\ job[s] \in Job
             /\ \A t \in Session \ {s} :
                  pc[t] \in {"claim_answered", "claim_stored"} => job[t] # job[s]
  <2>1. /\ job[s] \in Job /\ status[job[s]] = "pending"
        /\ \A t \in Session \ {s} :
             pc[t] \in {"claim_answered", "claim_stored"} => job[t] # job[s]
    BY <1>2, <1>a DEF IInv, OneClaim
  <2>. QED
    BY <1>2, <2>1 DEF Handing, Unclaimed
<1>3. ASSUME NEW s \in Session, AnswerClaim(s)
      PROVE  Handing'
  <2>1. /\ pc[s] = "claimed" /\ pc' = [pc EXCEPT ![s] = "claim_answered"]
        /\ handed' = [handed EXCEPT ![job[s]] = @ + 1]
        /\ UNCHANGED <<status, job, faults>>
    BY <1>3 DEF AnswerClaim, HandOut, Goto, rows
  <2>2. HandedOutOnce'
    BY <1>2, <1>a, <1>b, <2>1 DEF Handing, HandedOutOnce
  <2>3. \A j \in Job \ {job[s]} : handed'[j] = handed[j]
    BY <1>a, <2>1
  <2>4. pc'[s] = "claim_answered" /\ \A t \in Session \ {s} : pc'[t] = pc[t]
    BY <1>a, <2>1
  <2>. QED
    BY <1>2, <1>a, <2>1, <2>2, <2>3, <2>4 DEF Handing
<1>4. ASSUME NEW s \in Session, CommitClaim(s) \/ CommitAnsweredClaim(s)
      PROVE  Handing'
  <2>1. /\ pc[s] \in {"claimed", "claim_answered"} /\ job[s] \in Job
        /\ status' = [status EXCEPT ![job[s]] = "running"] /\ UNCHANGED <<handed, faults>>
    BY <1>4, <1>a DEF CommitClaim, CommitAnsweredClaim, StoreClaim
  <2>2. \A t \in Session \ {s} : pc'[t] = pc[t] /\ job'[t] = job[t]
    BY <1>4, <1>a DEF CommitClaim, CommitAnsweredClaim, End, Goto
  <2>3. pc'[s] = "claim_stored" => pc[s] = "claimed" /\ job'[s] = job[s]
    BY <1>4, <1>a DEF CommitClaim, CommitAnsweredClaim, End, Goto
  <2>4. \A t \in Session : pc'[t] = "claim_stored" => handed[job'[t]] <= faults
    BY <1>2, <2>1, <2>2, <2>3 DEF Handing
  <2>5. \A j \in Job : status[j] \notin Unclaimed => status'[j] \notin Unclaimed
    BY <1>a, <2>1 DEF Unclaimed
  <2>6. status'[job[s]] \notin Unclaimed
    BY <1>a, <2>1 DEF Unclaimed
  <2>. QED
    BY <1>1, <2>1, <2>2, <2>4, <2>5, <2>6
<1>5. ASSUME NEW s \in Session, AnswerStoredClaim(s)
      PROVE  Handing'
  <2>1. /\ pc[s] = "claim_stored" /\ pc' = [pc EXCEPT ![s] = "idle"]
        /\ job' = [job EXCEPT ![s] = NoJob]
        /\ handed' = [handed EXCEPT ![job[s]] = @ + 1]
        /\ UNCHANGED <<status, faults>>
    BY <1>5 DEF AnswerStoredClaim, HandOut, End, Goto, rows
  <2>2. /\ job[s] \in Job /\ handed[job[s]] <= faults /\ status[job[s]] \notin Unclaimed
        /\ \A t \in Session \ {s} : pc[t] = "claim_stored" => job[t] # job[s]
    BY <1>a, <2>1 DEF IInv, OneClaim, Handing
  <2>3. HandedOutOnce'
    BY <1>a, <1>b, <2>1, <2>2 DEF Handing, HandedOutOnce
  <2>4. \A j \in Job \ {job[s]} : handed'[j] = handed[j]
    BY <1>a, <2>1
  <2>5. pc'[s] = "idle" /\ \A t \in Session \ {s} : pc'[t] = pc[t] /\ job'[t] = job[t]
    BY <1>a, <2>1
  <2>. QED
    BY <1>a, <2>1, <2>2, <2>3, <2>4, <2>5 DEF Handing
<1>6. ASSUME NEW s \in Session, Abort(s)
      PROVE  Handing'
  <2>1. /\ faults' = faults + 1 /\ UNCHANGED <<status, handed>>
        /\ \A t \in Session : pc'[t] = "claim_stored" => pc[t] = pc'[t] /\ job'[t] = job[t]
    BY <1>6, <1>a DEF Abort, End, Goto, rows
  <2>2. \A j \in Job : handed'[j] <= faults'
    BY <1>a, <2>1 DEF Handing, HandedOutOnce
  <2>3. HandedOutOnce'
    BY <1>a, <1>b, <2>1, <2>2 DEF HandedOutOnce
  <2>4. \A t \in Session : pc'[t] = "claim_stored" => handed'[job'[t]] <= faults'
    BY <1>a, <2>1, <2>2
  <2>. QED
    BY <2>2, <2>3, <2>4 DEF Handing
(* What is left is a step of a request that is not about a claim, or the   *)
(* beginning of one.                                                       *)
<1>7. ASSUME NEW s \in Session,
             pc[s] \notin {"claim_answered", "claim_stored"}, pc'[s] # "claim_stored",
             \A t \in Session \ {s} : pc'[t] = pc[t] /\ job'[t] = job[t],
             UNCHANGED <<handed, faults>>,
             \A j \in Job : status[j] \notin Unclaimed => status'[j] \notin Unclaimed
      PROVE  Handing'
  <2>1. \A t \in Session : pc'[t] = "claim_stored" => handed[job'[t]] <= faults
    BY <1>7 DEF Handing
  <2>2. \A t \in Session : pc[t] = "claim_answered" =>
          pc'[t] = "claim_answered" /\ job'[t] = job[t]
    BY <1>7
  <2>. QED
    BY <1>1, <1>7, <2>1, <2>2
<1>8. ASSUME NEW j \in Job, CreateJob(j)
      PROVE  Handing'
  <2>1. UNCHANGED <<handed, faults, pc, job>>
    BY <1>8 DEF CreateJob, session
  <2>2. \A i \in Job : status[i] \notin Unclaimed => status'[i] \notin Unclaimed
    BY <1>8, <1>a DEF CreateJob, Unclaimed
  <2>. QED
    BY <1>1, <2>1, <2>2 DEF Handing
<1>9. ASSUME NEW s \in Session,
             \/ Poll(s) \/ FindInvocation(s) \/ Refuse(s) \/ Accept(s) \/ InsertInvocation(s)
             \/ InvocationConflict(s) \/ AnswerResult(s) \/ AnswerStoredResult(s)
             \/ \E j \in Job, r \in Result : Submit(s, j, r)
      PROVE  Handing'
  <2>1. /\ pc[s] \notin {"claim_answered", "claim_stored"} /\ pc'[s] # "claim_stored"
        /\ \A t \in Session \ {s} : pc'[t] = pc[t] /\ job'[t] = job[t]
        /\ UNCHANGED <<status, handed, faults>>
    BY <1>9, <1>a DEF Poll, FindInvocation, Refuse, Accept, InsertInvocation, InvocationConflict,
                      AnswerResult, AnswerStoredResult, Submit, End, Goto, rows
  <2>. QED
    BY <1>7, <2>1
<1>10. ASSUME NEW s \in Session, CommitResult(s) \/ CommitAnsweredResult(s)
       PROVE  Handing'
  <2>1. /\ pc[s] \notin {"claim_answered", "claim_stored"} /\ pc'[s] # "claim_stored"
        /\ \A t \in Session \ {s} : pc'[t] = pc[t] /\ job'[t] = job[t]
        /\ status' = [status EXCEPT ![job[s]] = outcome[sent[s]]] /\ UNCHANGED <<handed, faults>>
        /\ pc[s] \in {"written", "result_answered"}
    BY <1>10, <1>a DEF CommitResult, CommitAnsweredResult, StoreResult, End, Goto
  <2>2. outcome[sent[s]] \notin Unclaimed
    BY <2>1 DEF Unclaimed, IInv, PlacesOK
  <2>3. \A j \in Job : status[j] \notin Unclaimed => status'[j] \notin Unclaimed
    BY <1>a, <2>1, <2>2
  <2>. QED
    BY <1>7, <2>1, <2>3
<1>11. CASE UNCHANGED vars
  <2>1. UNCHANGED <<handed, faults, pc, job, status>>
    BY <1>11 DEF vars, session, rows
  <2>. QED
    BY <1>1, <2>1 DEF Handing
<1>. QED
  BY <1>3, <1>4, <1>5, <1>6, <1>8, <1>9, <1>10, <1>11 DEF Next, Serve

(* Any number of processors may poll: a job is handed out again only after *)
(* a claim that was answered has been lost, and its claim is stored once.  *)
THEOREM HandedOut == Spec => []HandedOutOnce
<1>1. Init => Handing
  BY ProcessorAssumption DEF Init, Handing, HandedOutOnce
<1>2. Spec => []IInv
  BY IInvInit, IInvStep, PTL DEF Spec
<1>3. Spec => []Handing
  BY <1>1, <1>2, HandingStep, PTL DEF Spec
<1>4. Handing => HandedOutOnce
  BY DEF Handing
<1>. QED
  BY <1>3, <1>4, PTL
-----------------------------------------------------------------------------
(* A step by which no receipt becomes untrue.                              *)
LEMMA StillHonest ==
  ASSUME Receipts, faults \in Nat, UNCHANGED faults, Unstored' \subseteq Unstored,
         \A c \in receipts' : c.accepted \/ invocation'[c.job] # NoResult
  PROVE  Receipts'
<1>1. IsFiniteSet(Unstored') /\ Cardinality(Unstored') <= Cardinality(Unstored)
  BY FS_Subset DEF Receipts
<1>2. Cardinality(Unstored') \in Nat /\ Cardinality(Unstored) \in Nat
  BY <1>1, FS_CardinalityType DEF Receipts
<1>3. Cardinality(Unstored) <= faults
  BY DEF Receipts, ReceiptsAreHonest
<1>. QED
  BY <1>1, <1>2, <1>3 DEF Receipts, ReceiptsAreHonest

(* A commit can only make receipts true; a failing one makes one untrue.   *)
LEMMA ReceiptsStep == IInv /\ Receipts /\ [Next]_vars => Receipts'
<1> SUFFICES ASSUME IInv, Receipts, [Next]_vars
             PROVE  Receipts'
  OBVIOUS
<1> USE ProcessorAssumption
<1>a. /\ faults \in Nat /\ \A c \in receipts : c.job \in Job /\ c.result \in Result
      /\ pc \in [Session -> {"idle", "claimed", "claim_answered", "claim_stored", "loaded",
                             "insert", "written", "result_answered", "result_stored"}]
      /\ job \in [Session -> Job \cup {NoJob}] /\ sent \in [Session -> Result \cup {NoResult}]
      /\ invocation \in [Job -> Result \cup {NoResult}]
  BY DEF IInv, TypeOK
<1>b. \A c \in receipts : c.accepted \/ invocation[c.job] # NoResult
  BY DEF Receipts, ReceiptsAreHonest
(* Steps that store no result and send no receipt.                         *)
<1>1. ASSUME NEW s \in Session, UNCHANGED <<invocation, receipts, faults>>,
             pc[s] # "result_answered",
             \A t \in Session \ {s} : pc'[t] = pc[t] /\ job'[t] = job[t] /\ sent'[t] = sent[t]
      PROVE  Receipts'
  <2>1. Unstored' \subseteq Unstored
    BY <1>1 DEF Unstored
  <2>. QED
    BY <1>1, <1>a, <1>b, <2>1, StillHonest
<1>2. ASSUME NEW s \in Session,
             \/ Poll(s) \/ AnswerClaim(s) \/ CommitAnsweredClaim(s) \/ CommitClaim(s)
             \/ AnswerStoredClaim(s) \/ Refuse(s) \/ Accept(s) \/ InsertInvocation(s)
             \/ InvocationConflict(s) \/ \E j \in Job, r \in Result : Submit(s, j, r)
      PROVE  Receipts'
  <2>1. UNCHANGED <<invocation, receipts, faults>> /\ pc[s] # "result_answered"
    BY <1>2 DEF Poll, AnswerClaim, CommitAnsweredClaim, CommitClaim, AnswerStoredClaim, Refuse,
                Accept, InsertInvocation, InvocationConflict, Submit, StoreClaim, rows
  <2>2. \A t \in Session \ {s} : pc'[t] = pc[t] /\ job'[t] = job[t] /\ sent'[t] = sent[t]
    BY <1>2, <1>a DEF Poll, AnswerClaim, CommitAnsweredClaim, CommitClaim, AnswerStoredClaim,
                      Refuse, Accept, InsertInvocation, InvocationConflict, Submit, End, Goto
  <2>. QED
    BY <1>1, <2>1, <2>2
<1>3. ASSUME NEW s \in Session, FindInvocation(s)
      PROVE  Receipts'
  <2>1. /\ pc[s] = "loaded" /\ invocation[job[s]] # NoResult /\ UNCHANGED <<invocation, faults>>
        /\ receipts' = receipts \cup {[job |-> job[s], result |-> sent[s], accepted |-> FALSE]}
        /\ \A t \in Session \ {s} : pc'[t] = pc[t] /\ job'[t] = job[t] /\ sent'[t] = sent[t]
    BY <1>3, <1>a DEF FindInvocation, Receipt, End, Goto, rows
  <2>2. Unstored' \subseteq Unstored
    BY <2>1 DEF Unstored
  <2>3. \A c \in receipts' : c.accepted \/ invocation'[c.job] # NoResult
    BY <1>b, <2>1
  <2>. QED
    BY <1>a, <2>1, <2>2, <2>3, StillHonest
<1>4. ASSUME NEW s \in Session, AnswerResult(s)
      PROVE  Receipts'
  <2>1. /\ pc[s] = "written" /\ pc'[s] = "result_answered"
        /\ UNCHANGED <<invocation, faults, job, sent>>
        /\ receipts' = receipts \cup {[job |-> job[s], result |-> sent[s], accepted |-> TRUE]}
        /\ \A t \in Session \ {s} : pc'[t] = pc[t]
    BY <1>4, <1>a DEF AnswerResult, Receipt, Goto, rows
  <2>2. Unstored' \subseteq Unstored
    BY <2>1 DEF Unstored
  <2>3. \A c \in receipts' : c.accepted \/ invocation'[c.job] # NoResult
    BY <1>b, <2>1
  <2>. QED
    BY <1>a, <2>1, <2>2, <2>3, StillHonest
<1>5. ASSUME NEW s \in Session, AnswerStoredResult(s)
      PROVE  Receipts'
  <2>1. /\ pc[s] = "result_stored" /\ UNCHANGED <<invocation, faults>>
        /\ invocation[job[s]] = sent[s]
        /\ receipts' = receipts \cup {[job |-> job[s], result |-> sent[s], accepted |-> TRUE]}
        /\ \A t \in Session \ {s} : pc'[t] = pc[t] /\ job'[t] = job[t] /\ sent'[t] = sent[t]
    BY <1>5, <1>a DEF AnswerStoredResult, Receipt, End, Goto, rows, IInv, OneResult
  <2>2. Unstored' \subseteq Unstored
    BY <2>1 DEF Unstored
  <2>3. \A c \in receipts' : c.accepted \/ invocation'[c.job] # NoResult
    BY <1>b, <2>1
  <2>. QED
    BY <1>a, <2>1, <2>2, <2>3, StillHonest
(* The result is stored.  It is the only one that was about to be.         *)
<1>6. ASSUME NEW s \in Session, CommitResult(s) \/ CommitAnsweredResult(s)
      PROVE  Receipts'
  <2>1. /\ pc[s] \in {"written", "result_answered"} /\ UNCHANGED <<receipts, faults>>
        /\ invocation' = [invocation EXCEPT ![job[s]] = sent[s]]
        /\ \A t \in Session \ {s} : pc'[t] = pc[t] /\ job'[t] = job[t] /\ sent'[t] = sent[t]
    BY <1>6, <1>a DEF CommitResult, CommitAnsweredResult, StoreResult, End, Goto
  <2>2. /\ job[s] \in Job /\ sent[s] \in Result /\ invocation[job[s]] = NoResult
        /\ \A t \in Session \ {s} : pc[t] = "result_answered" => job[t] # job[s]
    BY <2>1, RequestHasJob DEF IInv, PlacesOK, OneResult
  <2>3. invocation'[job[s]] = sent[s] /\ \A j \in Job \ {job[s]} : invocation'[j] = invocation[j]
    BY <1>a, <2>1, <2>2
  <2>4. ASSUME NEW c \in Unstored'
        PROVE  c \in Unstored
    <3>1. /\ c \in receipts /\ c.accepted /\ invocation'[c.job] # c.result
          /\ \A t \in Session \ {s} :
               pc[t] = "result_answered" => job[t] # c.job \/ sent[t] # c.result
      BY <2>1, <2>4 DEF Unstored
    <3>2. job[s] # c.job \/ sent[s] # c.result
      BY <2>3, <3>1
    <3>3. invocation[c.job] # c.result
      BY <1>a, <2>2, <2>3, <3>1
    <3>. QED
      BY <3>1, <3>2, <3>3 DEF Unstored
  <2>5. \A c \in receipts' : c.accepted \/ invocation'[c.job] # NoResult
    BY <1>a, <1>b, <2>1, <2>2, <2>3
  <2>. QED
    BY <1>a, <2>1, <2>4, <2>5, StillHonest
(* The commit of a result that was answered fails: one more is not stored. *)
<1>7. ASSUME NEW s \in Session, Abort(s)
      PROVE  Receipts'
  <2> DEFINE lost == [job |-> job[s], result |-> sent[s], accepted |-> TRUE]
  <2>1. /\ UNCHANGED <<receipts, invocation>> /\ faults' = faults + 1
        /\ \A t \in Session \ {s} : pc'[t] = pc[t] /\ job'[t] = job[t] /\ sent'[t] = sent[t]
    BY <1>7, <1>a DEF Abort, End, Goto, rows
  <2>2. ASSUME NEW c \in Unstored', c # lost
        PROVE  c \in Unstored
    <3>1. /\ c \in receipts /\ c.accepted /\ invocation[c.job] # c.result
          /\ \A t \in Session \ {s} :
               pc[t] = "result_answered" => job[t] # c.job \/ sent[t] # c.result
      BY <2>1, <2>2 DEF Unstored
    <3>2. c \in [job : Job, result : Result, accepted : BOOLEAN] /\ c.accepted = TRUE
      BY <3>1 DEF IInv, TypeOK
    <3>3. job[s] # c.job \/ sent[s] # c.result
      BY <2>2, <3>2
    <3>. QED
      BY <3>1, <3>3 DEF Unstored
  <2>3. Unstored' \subseteq Unstored \cup {lost}
    BY <2>2
  <2> HIDE DEF lost
  <2>4. /\ IsFiniteSet(Unstored) /\ Cardinality(Unstored) \in Nat
        /\ Cardinality(Unstored) <= faults
    BY FS_CardinalityType DEF Receipts, ReceiptsAreHonest
  <2>5. /\ IsFiniteSet(Unstored \cup {lost})
        /\ Cardinality(Unstored \cup {lost}) <= Cardinality(Unstored) + 1
    <3>1. /\ IsFiniteSet(Unstored \cup {lost})
          /\ Cardinality(Unstored \cup {lost}) =
               IF lost \in Unstored THEN Cardinality(Unstored) ELSE Cardinality(Unstored) + 1
      BY <2>4, FS_AddElement
    <3>. QED
      BY <2>4, <3>1
  <2>6. /\ IsFiniteSet(Unstored')
        /\ Cardinality(Unstored') <= Cardinality(Unstored \cup {lost})
        /\ Cardinality(Unstored') \in Nat /\ Cardinality(Unstored \cup {lost}) \in Nat
    BY <2>3, <2>5, FS_Subset, FS_CardinalityType
  <2>7. Cardinality(Unstored') <= faults'
    BY <1>a, <2>1, <2>4, <2>5, <2>6
  <2>. QED
    BY <1>b, <2>1, <2>6, <2>7 DEF Receipts, ReceiptsAreHonest
<1>8. ASSUME UNCHANGED <<invocation, receipts, faults, pc, job, sent>>
      PROVE  Receipts'
  <2>1. Unstored' \subseteq Unstored
    BY <1>8 DEF Unstored
  <2>. QED
    BY <1>8, <1>a, <1>b, <2>1, StillHonest
<1>9. ASSUME NEW j \in Job, CreateJob(j)
      PROVE  Receipts'
  BY <1>8, <1>9 DEF CreateJob, session
<1>10. CASE UNCHANGED vars
  BY <1>8, <1>10 DEF vars, rows, session
<1>. QED
  BY <1>2, <1>3, <1>4, <1>5, <1>6, <1>7, <1>9, <1>10 DEF Next, Serve

(* However submissions interleave and retry: a receipt is untrue only if   *)
(* the commit failed after it was sent.                                    *)
THEOREM Honest == Spec => []ReceiptsAreHonest
<1>1. Init => Receipts
  <2> SUFFICES ASSUME Init
               PROVE  Receipts
    OBVIOUS
  <2>1. receipts = {} /\ Unstored = {} /\ faults = 0
    BY DEF Init, Unstored
  <2>. QED
    BY <2>1, FS_EmptySet DEF Receipts, ReceiptsAreHonest
<1>2. Spec => []IInv
  BY IInvInit, IInvStep, PTL DEF Spec
<1>3. Spec => []Receipts
  BY <1>1, <1>2, ReceiptsStep, PTL DEF Spec
<1>4. Receipts => ReceiptsAreHonest
  BY DEF Receipts
<1>. QED
  BY <1>3, <1>4, PTL

-----------------------------------------------------------------------------
(* The event queries, and first what they need to know of ranks.           *)
(* The rank of an element is the number of those before it.                *)
RankIn(R, before, o) == Cardinality({p \in R : <<p, o>> \in before})

(* The pairs of "before" order R strictly and totally.                     *)
StrictlyOrders(before, R) ==
  /\ \A o \in R : <<o, o>> \notin before
  /\ \A o, p, q \in R : <<o, p>> \in before /\ <<p, q>> \in before => <<o, q>> \in before
  /\ \A o, p \in R : o = p \/ <<o, p>> \in before \/ <<p, o>> \in before

(* In a finite set that is strictly and totally ordered each rank is that  *)
(* of exactly one element.                                                 *)
LEMMA Ranking ==
  ASSUME NEW R, IsFiniteSet(R), NEW before, StrictlyOrders(before, R)
  PROVE  /\ Cardinality(R) \in Nat
         /\ \A o \in R : RankIn(R, before, o) \in 0 .. (Cardinality(R) - 1)
         /\ \A o, p \in R : RankIn(R, before, o) = RankIn(R, before, p) => o = p
         /\ \A i \in 0 .. (Cardinality(R) - 1) : \E o \in R : RankIn(R, before, o) = i
<1> DEFINE n == Cardinality(R)
           Earlier(o) == {p \in R : <<p, o>> \in before}
           rank == [o \in R |-> Cardinality(Earlier(o))]
<1>1. n \in Nat
  BY FS_CardinalityType
<1>2. \A o \in R : IsFiniteSet(Earlier(o)) /\ Cardinality(Earlier(o)) \in Nat
  <2> TAKE o \in R
  <2>1. Earlier(o) \in SUBSET R
    OBVIOUS
  <2>. QED
    BY <2>1, FS_Subset, FS_CardinalityType
<1>3. ASSUME NEW T \in SUBSET R, NEW U \in SUBSET T, NEW o \in T, o \notin U
      PROVE  Cardinality(U) < Cardinality(T)
  <2>1. IsFiniteSet(T) /\ IsFiniteSet(U) /\ Cardinality(U) <= Cardinality(T)
        /\ (Cardinality(T) = Cardinality(U) => T = U)
    BY FS_Subset
  <2>2. Cardinality(T) \in Nat /\ Cardinality(U) \in Nat
    BY <2>1, FS_CardinalityType
  <2>. QED
    BY <1>3, <2>1, <2>2
<1>4. ASSUME NEW o \in R, NEW p \in R, <<o, p>> \in before
      PROVE  rank[o] < rank[p]
  <2>1. Earlier(o) \in SUBSET Earlier(p) /\ o \in Earlier(p) /\ o \notin Earlier(o)
    BY <1>4 DEF StrictlyOrders
  <2>2. Cardinality(Earlier(o)) < Cardinality(Earlier(p))
    BY <1>3, <2>1
  <2>. QED
    BY <1>2, <2>2
<1>5. \A o \in R : rank[o] = RankIn(R, before, o)
  BY DEF RankIn
<1>6. rank \in [R -> 0 .. (n - 1)]
  <2> SUFFICES ASSUME NEW o \in R
               PROVE  Cardinality(Earlier(o)) \in 0 .. (n - 1)
    OBVIOUS
  <2>1. o \notin Earlier(o)
    BY DEF StrictlyOrders
  <2>2. Cardinality(Earlier(o)) < n
    BY <1>3, <2>1
  <2>. QED
    BY <1>1, <1>2, <2>2
<1>. HIDE DEF rank, Earlier
<1>7. \A o, p \in R : rank[o] = rank[p] => o = p
  <2> SUFFICES ASSUME NEW o \in R, NEW p \in R, rank[o] = rank[p], o # p
               PROVE  FALSE
    OBVIOUS
  <2>1. rank[o] \in Nat /\ rank[p] \in Nat
    BY <1>1, <1>6
  <2>2. <<o, p>> \in before \/ <<p, o>> \in before
    BY DEF StrictlyOrders
  <2>. QED
    BY <1>4, <2>1, <2>2
<1>8. \A i \in 0 .. (n - 1) : \E o \in R : rank[o] = i
  <2>1. rank \in Injection(R, 0 .. (n - 1))
    BY <1>6, <1>7 DEF Injection, IsInjective
  <2>2. IsFiniteSet(0 .. (n - 1)) /\ Cardinality(0 .. (n - 1)) = n
    <3>1. /\ IsFiniteSet(0 .. (n - 1))
          /\ Cardinality(0 .. (n - 1)) = IF 0 > n - 1 THEN 0 ELSE (n - 1) - 0 + 1
      BY <1>1, FS_Interval
    <3>. HIDE DEF n
    <3>. QED
      BY <1>1, <3>1
  <2>3. rank \in Surjection(R, 0 .. (n - 1))
    BY <2>1, <2>2, FS_Injection
  <2>. QED
    BY <2>3 DEF Surjection
<1>. QED
  BY <1>1, <1>5, <1>6, <1>7, <1>8

(* So a set that is not empty has a first element.                         *)
LEMMA FirstExists ==
  ASSUME NEW R, IsFiniteSet(R), R # {}, NEW before, StrictlyOrders(before, R)
  PROVE  \E o \in R : \A p \in R \ {o} : <<o, p>> \in before
<1>1. Cardinality(R) \in Nat /\ Cardinality(R) # 0
  BY FS_CardinalityType, FS_EmptySet
<1>2. PICK o \in R : RankIn(R, before, o) = 0
  BY <1>1, Ranking
<1> DEFINE Earlier == {p \in R : <<p, o>> \in before}
<1>3. Earlier = {}
  <2>1. Earlier \in SUBSET R
    OBVIOUS
  <2>2. IsFiniteSet(Earlier)
    BY <2>1, FS_Subset
  <2>. QED
    BY <1>2, <2>2, FS_EmptySet DEF RankIn
<1>4. \A p \in R \ {o} : <<o, p>> \in before
  BY <1>3 DEF StrictlyOrders
<1>. QED
  BY <1>4

(* A slice of the ranks has as many elements as it has room for, or as     *)
(* there are from its begin on.                                            *)
LEMMA SliceSize ==
  ASSUME NEW R, IsFiniteSet(R), NEW before, StrictlyOrders(before, R),
         NEW offset \in Nat, NEW room \in Nat \ {0},
         NEW slice, slice = {o \in R : RankIn(R, before, o) \in offset .. (offset + room - 1)}
  PROVE  /\ Cardinality(slice) \in Nat
         /\ Cardinality(slice) = room \/ Cardinality(slice) + offset >= Cardinality(R)
<1> DEFINE n == Cardinality(R)
           last == IF n < offset + room THEN n - 1 ELSE offset + room - 1
           rank == [o \in slice |-> RankIn(R, before, o)]
<1>1. /\ n \in Nat
      /\ \A o \in R : RankIn(R, before, o) \in 0 .. (n - 1)
      /\ \A o, p \in R : RankIn(R, before, o) = RankIn(R, before, p) => o = p
      /\ \A i \in 0 .. (n - 1) : \E o \in R : RankIn(R, before, o) = i
  BY Ranking
<1>2. slice \in SUBSET R
  OBVIOUS
<1>3. IsFiniteSet(slice) /\ Cardinality(slice) \in Nat
  BY <1>2, FS_Subset, FS_CardinalityType
<1>. HIDE DEF n
<1>4. last \in Int
  BY <1>1
<1>5. rank \in Surjection(slice, offset .. last)
  <2>1. \A o \in slice : RankIn(R, before, o) \in offset .. last
    BY <1>1
  <2>2. ASSUME NEW i \in offset .. last
        PROVE  \E o \in slice : rank[o] = i
    <3>1. i \in 0 .. (n - 1) /\ i \in offset .. (offset + room - 1)
      BY <1>1
    <3>2. PICK o \in R : RankIn(R, before, o) = i
      BY <1>1, <3>1
    <3>. QED
      BY <3>1, <3>2
  <2>. QED
    BY <2>1, <2>2 DEF Surjection
<1>6. rank \in Injection(slice, offset .. last)
  <2>1. \A o, p \in slice : rank[o] = rank[p] => o = p
    BY <1>1
  <2>. QED
    BY <1>5, <2>1 DEF Injection, IsInjective, Surjection
<1>7. Cardinality(offset .. last) = Cardinality(slice)
  BY <1>3, <1>5, <1>6, FS_Surjection
<1>8. Cardinality(offset .. last) = IF offset > last THEN 0 ELSE last - offset + 1
  <2>. HIDE DEF last
  <2>. QED
    BY <1>4, FS_Interval
<1>9. Cardinality(slice) = IF offset > last THEN 0 ELSE last - offset + 1
  BY <1>7, <1>8
<1>. HIDE DEF rank
<1>10. CASE n < offset + room
  <2>1. last = n - 1
    BY <1>10
  <2>. QED
    BY <1>1, <1>3, <1>9, <2>1 DEF n
<1>11. CASE ~ n < offset + room
  <2>1. last = offset + room - 1
    BY <1>11
  <2>. QED
    BY <1>1, <1>3, <1>9, <2>1
<1>. QED
  BY <1>10, <1>11
-----------------------------------------------------------------------------
(* The latest observation of an entity: there is exactly one.              *)
LEMMA Times ==
  /\ \A o \in Obs : o \in Nat /\ occurred[o] \in Nat /\ until[o] \in Nat /\ entityOf[o] \in Entity
  /\ \A o \in Obs : links[o] \subseteq Object /\ (links[o] # {} => Kind(o) = "review")
  /\ \A D : D \subseteq Obs => IsFiniteSet(D)
<1>1. \A D : D \subseteq Obs => IsFiniteSet(D)
  BY EventQueryAssumption, FS_Subset
<1>. QED
  BY <1>1, EventQueryAssumption DEF Kind

(* Every entity with an observation has a latest one.                      *)
LEMMA LatestFound ==
  ASSUME NEW D, D \subseteq Obs, NEW o \in D
  PROVE  \E p \in Latest(D) : entityOf[p] = entityOf[o]
<1> DEFINE E == Of(D, entityOf[o])
           newer == {z \in E \X E : Newer(z[1], z[2])}
<1>1. E \subseteq Obs /\ o \in E /\ IsFiniteSet(E)
  BY Times DEF Of
<1>2. \A p, q \in E : <<p, q>> \in newer <=> Newer(p, q)
  OBVIOUS
<1>3. StrictlyOrders(newer, E)
  <2>1. /\ \A p \in E : ~ Newer(p, p)
        /\ \A p, q, t \in E : Newer(p, q) /\ Newer(q, t) => Newer(p, t)
        /\ \A p, q \in E : p = q \/ Newer(p, q) \/ Newer(q, p)
    BY <1>1, Times DEF Newer
  <2>. HIDE DEF newer, E
  <2>. QED
    BY <1>2, <2>1 DEF StrictlyOrders
<1>. HIDE DEF newer
<1>4. PICK p \in E : \A q \in E \ {p} : <<p, q>> \in newer
  BY <1>1, <1>3, FirstExists
<1>5. p \in LatestOf(E) /\ entityOf[p] = entityOf[o] /\ p \in D
  BY <1>2, <1>4 DEF LatestOf, Of
<1>. QED
  BY <1>5 DEF Latest

(* And no two.                                                             *)
LEMMA LatestUnique ==
  ASSUME NEW D, D \subseteq Obs, NEW o \in Latest(D), NEW p \in Latest(D), entityOf[o] = entityOf[p]
  PROVE  o = p
<1> SUFFICES ASSUME o # p
             PROVE  FALSE
  OBVIOUS
<1>1. o \in Obs /\ p \in Obs /\ o \in Of(D, entityOf[p]) /\ p \in Of(D, entityOf[o])
  BY DEF Latest, Of
<1>2. Newer(o, p) /\ Newer(p, o)
  BY <1>1 DEF Latest, LatestOf
<1>. QED
  BY <1>1, <1>2, Times DEF Newer

(* What is the latest stays it among fewer.                                *)
LEMMA LatestAmongFewer ==
  ASSUME NEW D, NEW E, D \subseteq E, NEW o \in Latest(E), o \in D
  PROVE  o \in Latest(D)
BY DEF Latest, LatestOf, Of

(* The last time of an entity: it is that of one of its observations, and  *)
(* grows.                                                                  *)
LEMMA LastAtIsMax ==
  ASSUME NEW D, D \subseteq Obs, NEW o, NEW w \in D, entityOf[w] = entityOf[o]
  PROVE  /\ LastAt(D, o) \in {until[p] : p \in Of(D, entityOf[o])}
         /\ LastAt(D, o) \in Nat
         /\ \A p \in Of(D, entityOf[o]) : until[p] <= LastAt(D, o)
<1> DEFINE T == {until[p] : p \in Of(D, entityOf[o])}
           before == {z \in T \X T : z[1] > z[2]}
<1>1. T \subseteq Nat /\ T # {}
  BY Times DEF Of
<1>2. IsFiniteSet(T)
  <2> DEFINE f == [p \in Of(D, entityOf[o]) |-> until[p]]
  <2>1. f \in Surjection(Of(D, entityOf[o]), T)
    BY DEF Surjection
  <2>2. IsFiniteSet(Of(D, entityOf[o]))
    <3>1. Of(D, entityOf[o]) \subseteq Obs
      BY DEF Of
    <3>. QED
      BY <3>1, Times
  <2>. QED
    BY <2>1, <2>2, FS_Surjection
<1>3. \A p \in Of(D, entityOf[o]) : until[p] \in T
  OBVIOUS
<1>4. LastAt(D, o) = CHOOSE t \in T : \A p \in Of(D, entityOf[o]) : until[p] <= t
  BY DEF LastAt
<1>5. \A s \in T : \E p \in Of(D, entityOf[o]) : until[p] = s
  OBVIOUS
<1>. HIDE DEF T
<1>6. StrictlyOrders(before, T)
  BY <1>1 DEF StrictlyOrders
<1>7. PICK t \in T : \A s \in T \ {t} : <<t, s>> \in before
  BY <1>1, <1>2, <1>6, FirstExists
<1>8. \A s \in T : s <= t
  <2>1. \A s \in T : <<t, s>> \in before => t > s
    OBVIOUS
  <2>. HIDE DEF before
  <2>2. \A s \in T : s = t \/ t > s
    BY <1>7, <2>1
  <2>. QED
    BY <1>1, <2>2
<1>9. \A p \in Of(D, entityOf[o]) : until[p] <= t
  BY <1>3, <1>8
<1>10. LastAt(D, o) \in T /\ \A p \in Of(D, entityOf[o]) : until[p] <= LastAt(D, o)
  BY <1>4, <1>9
<1>. QED
  BY <1>1, <1>10 DEF T

(* It is no smaller among more observations.                               *)
LEMMA LastAtGrows ==
  ASSUME NEW D, NEW E, D \subseteq E, E \subseteq Obs, NEW o, NEW w \in D, entityOf[w] = entityOf[o]
  PROVE  LastAt(D, o) <= LastAt(E, o)
<1>1. PICK p \in Of(D, entityOf[o]) : LastAt(D, o) = until[p]
  BY LastAtIsMax
<1>2. p \in Of(E, entityOf[o])
  BY DEF Of
<1>3. until[p] <= LastAt(E, o)
  BY <1>2, LastAtIsMax
<1>. QED
  BY <1>1, <1>3

(* It is that of the entity, whichever observation one asks for.           *)
LEMMA LastAtOfEntity ==
  ASSUME NEW D, NEW o, NEW p, entityOf[o] = entityOf[p]
  PROVE  LastAt(D, o) = LastAt(D, p)
BY DEF LastAt

-----------------------------------------------------------------------------
(* The rows of a list and its pages.                                       *)
Order(D, R) == {z \in R \X R : Above(D, z[1], z[2])}

(* ORDER BY last_occurred_at DESC, id DESC decides between any two rows.   *)
LEMMA AboveOrders ==
  ASSUME NEW D, D \subseteq Obs, NEW R, R \subseteq D
  PROVE  /\ StrictlyOrders(Order(D, R), R)
         /\ \A o \in R : Position(D, R, o) = RankIn(R, Order(D, R), o)
<1>1. \A o \in R : o \in Nat /\ LastAt(D, o) \in Nat
  BY Times, LastAtIsMax
<1>2. \A o, p \in R : <<o, p>> \in Order(D, R) <=> Above(D, o, p)
  BY DEF Order
<1>3. /\ \A p \in R : ~ Above(D, p, p)
      /\ \A p, q, t \in R : Above(D, p, q) /\ Above(D, q, t) => Above(D, p, t)
      /\ \A p, q \in R : p = q \/ Above(D, p, q) \/ Above(D, q, p)
  BY <1>1 DEF Above
<1>4. \A o \in R : Position(D, R, o) = RankIn(R, Order(D, R), o)
  <2> TAKE o \in R
  <2>1. {p \in R : Above(D, p, o)} = {p \in R : <<p, o>> \in Order(D, R)}
    BY <1>2
  <2>. QED
    BY <2>1 DEF Position, RankIn
<1>. QED
  BY <1>2, <1>3, <1>4 DEF StrictlyOrders

(* A page is full, or has all the rows from its offset on.                 *)
LEMMA PageSize ==
  ASSUME NEW D, D \subseteq Obs, NEW R, R \subseteq D, NEW offset \in Nat
  PROVE  /\ Cardinality(R) \in Nat /\ Cardinality(Page(D, R, offset)) \in Nat
         /\ \/ Cardinality(Page(D, R, offset)) = Limit
            \/ Cardinality(Page(D, R, offset)) + offset >= Cardinality(R)
<1> DEFINE slice == {o \in R : RankIn(R, Order(D, R), o) \in offset .. (offset + Limit - 1)}
<1>1. IsFiniteSet(R) /\ Limit \in Nat \ {0}
  BY Times, EventQueryAssumption
<1>2. Page(D, R, offset) = slice
  BY AboveOrders DEF Page
<1>. HIDE DEF slice
<1>3. /\ Cardinality(slice) \in Nat
      /\ Cardinality(slice) = Limit \/ Cardinality(slice) + offset >= Cardinality(R)
  <2>1. StrictlyOrders(Order(D, R), R)
    BY AboveOrders
  <2>. QED
    BY <1>1, <2>1, SliceSize DEF slice
<1>. QED
  BY <1>1, <1>2, <1>3, FS_CardinalityType

(* Without filters whether an entity has a row depends on the entity only. *)
Admitted(q, L, e) ==
  /\ q.kind = "any" => e \notin L
  /\ q.kind # "any" => (IF e \in Review THEN "review" ELSE "object") = q.kind

(* The parameters of a list without filters.                               *)
Plain(q) == q.match = Obs /\ q.window = <<0, 0>>

(* So the rows are the latest observations of the entities that are        *)
(* admitted.                                                               *)
LEMMA RowsOfEntities ==
  ASSUME NEW D, D \subseteq Obs, NEW q, Plain(q), NEW L
  PROVE  Rows(D, q, L) = {o \in Latest(D) : Admitted(q, L, entityOf[o])}
<1>1. \A o \in Latest(D) : o \in q.match /\ Within(LastAt(D, o), q.window)
  BY DEF Plain, Within, Latest
<1>. QED
  BY <1>1 DEF Rows, Admitted, Kind

(* Rows are latest observations, and these are stored.                     *)
LEMMA RowsWithin ==
  ASSUME NEW D, NEW q, NEW L
  PROVE  Rows(D, q, L) \subseteq Latest(D) /\ Latest(D) \subseteq D
BY DEF Rows, Latest

(* While more is committed entities get other rows, and no fewer.          *)
LEMMA RowsGrow ==
  ASSUME NEW D, NEW E, D \subseteq E, E \subseteq Obs, NEW q, Plain(q), NEW L
  PROVE  /\ Cardinality(Rows(D, q, L)) \in Nat /\ Cardinality(Rows(E, q, L)) \in Nat
         /\ Cardinality(Rows(D, q, L)) <= Cardinality(Rows(E, q, L))
<1> DEFINE R == Rows(D, q, L)
           S == Rows(E, q, L)
           heir == [o \in R |-> CHOOSE p \in S : entityOf[p] = entityOf[o]]
<1>1. R \subseteq Latest(D) /\ R \subseteq D /\ S \subseteq E /\ IsFiniteSet(R) /\ IsFiniteSet(S)
  BY RowsWithin, Times
<1>0. /\ R = {o \in Latest(D) : Admitted(q, L, entityOf[o])}
      /\ S = {o \in Latest(E) : Admitted(q, L, entityOf[o])}
  BY RowsOfEntities
<1>. HIDE DEF R, S
<1>2. \A o \in R : \E p \in S : entityOf[p] = entityOf[o]
  <2> TAKE o \in R
  <2>1. PICK p \in Latest(E) : entityOf[p] = entityOf[o]
    BY <1>1, LatestFound
  <2>. QED
    BY <1>0, <2>1
<1>3. \A o \in R : heir[o] \in S /\ entityOf[heir[o]] = entityOf[o]
  BY <1>2
<1>4. heir \in Injection(R, S)
  <2>1. heir \in [R -> S]
    BY <1>3
  <2>2. \A o, p \in R : heir[o] = heir[p] => entityOf[o] = entityOf[p]
    BY <1>3
  <2>3. \A o, p \in R : heir[o] = heir[p] => o = p
    BY <1>1, <2>2, LatestUnique
  <2>. HIDE DEF heir
  <2>. QED
    BY <2>1, <2>3 DEF Injection, IsInjective
<1>. HIDE DEF heir
<1>5. Cardinality(R) <= Cardinality(S)
  BY <1>1, <1>4, FS_Injection
<1>. QED
  BY <1>1, <1>5, FS_CardinalityType DEF R, S

-----------------------------------------------------------------------------
(* The invariant.  What a request has read so far lies between what was    *)
(* committed when it began and what is committed now.                      *)
Began ==
  /\ began.db \subseteq db
  /\ began.decision \subseteq trail

(* The writers keep decisions with what follows from them.                 *)
Trail ==
  /\ "notification" \in trail \/ "feedback" \in trail => "decision" \in trail
  /\ "job_ended" \in trail => "invocation" \in trail

(* What is listed later has the links of the reviews that are still the    *)
(* latest, and as many rows as were counted.                               *)
Listing ==
  /\ statement \in {"count", "page"} =>
       \A o \in began.db : o \in Latest(db) /\ Kind(o) = "review" => links[o] \subseteq linked
  /\ statement = "page" /\ Unfiltered => total <= Cardinality(Rows(db, query, linked))

(* The first page is what its own rows gave, and stays while the second is *)
(* read.                                                                   *)
FirstPage ==
  /\ first.db \subseteq db
  /\ first.page = Page(first.db, Rows(first.db, query, first.linked), 0)

(* The observations of a detail, from the entity that is asked for.        *)
Detail ==
  /\ statement = "timeline" => wanted \in db
  /\ statement = "display" =>
       /\ wanted \in timeline /\ Of(began.db, entityOf[wanted]) \subseteq timeline
       /\ related = LinkedIds(timeline)
  /\ BrokenOnlyUnstored

(* The sections that a request has read when it is at a statement.         *)
Read(s) ==
  CASE s = "job_ended" -> {"decision"}
    [] s = "invocation" -> {"decision", "job_ended"}
    [] s = "notification" -> {"decision", "job_ended", "invocation"}
    [] s = "feedback" -> {"decision", "job_ended", "invocation", "notification"}
    [] s = "answered" -> DOMAIN AfterSection
    [] OTHER -> {}

(* What was there when the request began has been shown by the sections    *)
(* that have been read.                                                    *)
Sections ==
  /\ shown \subseteq Read(statement)
  /\ shown \subseteq trail
  /\ shown # {} => wanted = Judged
  /\ wanted = Judged /\ began.decision # {} /\ "decision" \in Read(statement) => "decision" \in shown
  /\ "job_ended" \in shown /\ "invocation" \in Read(statement) => "invocation" \in shown

QueryInv ==
  /\ QueryTypeOK /\ Began /\ Trail /\ Listing /\ FirstPage /\ Detail /\ Sections

(* Links name objects.                                                     *)
LEMMA LinkedAreObjects ==
  \A S : S \subseteq Obs => LinkedIds(S) \subseteq Object
BY Times DEF LinkedIds

(* The rows of a page are rows of the list.                                *)
LEMMA PageWithin ==
  \A D, R, offset : Page(D, R, offset) \subseteq R
BY DEF Page

(* No observations have no rows and no page.                               *)
LEMMA NothingToList ==
  ASSUME NEW q, NEW L
  PROVE  Page({}, Rows({}, q, L), 0) = {}
BY PageWithin, RowsWithin

(* The rows of a list do not depend on the page.                           *)
LEMMA RowsOfAnyPage ==
  ASSUME NEW D, NEW q, NEW p, NEW L, q.kind = p.kind, q.match = p.match, q.window = p.window
  PROVE  Rows(D, q, L) = Rows(D, p, L)
BY DEF Rows

(* Nothing has been read yet.                                              *)
LEMMA QueryStarts == QueryInit => QueryInv
<1> SUFFICES ASSUME QueryInit
             PROVE  QueryInv
  OBVIOUS
<1>1. QueryTypeOK
  BY EventQueryAssumption DEF QueryInit, QueryTypeOK, NoQuery, NoPage, None
<1>2. FirstPage
  BY NothingToList DEF QueryInit, FirstPage, NoPage
<1>3. Began /\ Trail /\ Listing /\ Detail
  BY DEF QueryInit, Began, Trail, Listing, Detail, BrokenOnlyUnstored
<1>4. Sections
  BY DEF QueryInit, Sections, Read
<1>. QED
  BY <1>1, <1>2, <1>3, <1>4 DEF QueryInv

(* What a writer commits leaves a request's statements what they have read.*)
LEMMA IngestKeepsQuery ==
  ASSUME QueryInv, NEW o \in Obs, Ingest(o)
  PROVE  QueryInv'
<1>1. /\ db' = db \cup {o} /\ db \subseteq db' /\ db' \subseteq Obs
      /\ UNCHANGED <<trail, statement, listVars, detailVars, began>>
  BY DEF Ingest, QueryInv, QueryTypeOK
<1>2. QueryTypeOK'
  BY <1>1 DEF QueryInv, QueryTypeOK, listVars, detailVars
<1>3. Began' /\ Trail'
  BY <1>1 DEF QueryInv, Began, Trail
<1>4. Listing'
  <2>1. ASSUME statement \in {"count", "page"}, NEW p \in began.db, p \in Latest(db'), Kind(p) = "review"
        PROVE  links[p] \subseteq linked
    <3>1. p \in Latest(db)
      BY <1>1, <2>1, LatestAmongFewer DEF QueryInv, Began
    <3>. QED
      BY <2>1, <3>1 DEF QueryInv, Listing
  <2>2. ASSUME statement = "page", Unfiltered
        PROVE  total <= Cardinality(Rows(db', query, linked))
    <3>1. Plain(query)
      BY <2>2 DEF Unfiltered, Plain
    <3>2. /\ Cardinality(Rows(db, query, linked)) \in Nat
          /\ Cardinality(Rows(db', query, linked)) \in Nat
          /\ Cardinality(Rows(db, query, linked)) <= Cardinality(Rows(db', query, linked))
      BY <1>1, <3>1, RowsGrow
    <3>3. total \in Nat /\ total <= Cardinality(Rows(db, query, linked))
      BY <2>2 DEF QueryInv, QueryTypeOK, Listing
    <3>. QED
      BY <3>2, <3>3
  <2>. QED
    BY <1>1, <2>1, <2>2 DEF Listing, Unfiltered, listVars
<1>5. FirstPage'
  BY <1>1 DEF QueryInv, FirstPage, listVars
<1>6. Detail'
  BY <1>1 DEF QueryInv, Detail, BrokenOnlyUnstored, detailVars
<1>7. Sections'
  BY <1>1 DEF QueryInv, Sections, detailVars
<1>. QED
  BY <1>2, <1>3, <1>4, <1>5, <1>6, <1>7 DEF QueryInv

(* What is committed about the judged observation comes with what it       *)
(* follows from.                                                           *)
LEMMA WriteKeeps ==
  ASSUME QueryInv, Decide \/ Notify \/ GiveFeedback \/ SubmitResult
  PROVE  QueryInv'
<1>1. /\ trail \subseteq trail' /\ trail' \subseteq DOMAIN AfterSection
      /\ UNCHANGED <<db, statement, listVars, detailVars, began>>
  BY DEF Decide, Notify, GiveFeedback, SubmitResult, Write, QueryInv, QueryTypeOK, AfterSection
<1>2. QueryTypeOK'
  BY <1>1 DEF QueryInv, QueryTypeOK, listVars, detailVars
<1>3. Began' /\ Listing' /\ FirstPage' /\ Detail'
  BY <1>1 DEF QueryInv, Began, Listing, Unfiltered, FirstPage, Detail, BrokenOnlyUnstored,
              listVars, detailVars
<1>4. Trail'
  BY DEF QueryInv, Trail, Decide, Notify, GiveFeedback, SubmitResult, Write
<1>5. Sections'
  BY <1>1 DEF QueryInv, Sections, detailVars
<1>. QED
  BY <1>2, <1>3, <1>4, <1>5 DEF QueryInv

(* A request that begins knows what is committed and nothing else.         *)
LEMMA BeginKeeps ==
  ASSUME QueryInv, NEW s \in {"links", "row", "not found"}, Begin(s)
  PROVE  /\ UNCHANGED <<db, trail>> /\ statement' = s /\ Began' /\ Trail' /\ Listing'
         /\ began' \in [db : SUBSET Obs, decision : SUBSET {"decision"}]
<1>1. /\ UNCHANGED <<db, trail>> /\ statement' = s
      /\ began' = [db |-> db, decision |-> trail \cap {"decision"}]
  BY DEF Begin
<1>2. Began' /\ Trail'
  BY <1>1 DEF QueryInv, Began, Trail
<1>3. Listing'
  BY <1>1 DEF Listing
<1>4. began' \in [db : SUBSET Obs, decision : SUBSET {"decision"}]
  BY <1>1 DEF QueryInv, QueryTypeOK
<1>. QED
  BY <1>1, <1>2, <1>3, <1>4

(* A new list starts with nothing read.                                    *)
LEMMA ListKeeps ==
  ASSUME QueryInv, NEW k \in {"any", "review", "object"}, NEW m \in Matches, NEW w \in Windows,
         List(k, m, w)
  PROVE  QueryInv'
<1>1. /\ Begin("links")
      /\ query' = [kind |-> k, match |-> m, window |-> w, offset |-> 0]
      /\ linked' = {} /\ total' = 0 /\ page' = {} /\ first' = NoPage
      /\ wanted' = None /\ timeline' = {} /\ related' = {} /\ display' = {} /\ shown' = {}
  BY DEF List, ForgetDetail
<1>2. /\ UNCHANGED <<db, trail>> /\ statement' = "links" /\ Began' /\ Trail' /\ Listing'
      /\ began' \in [db : SUBSET Obs, decision : SUBSET {"decision"}]
  BY <1>1, BeginKeeps
<1>3. QueryTypeOK'
  BY <1>1, <1>2, EventQueryAssumption DEF QueryInv, QueryTypeOK, NoPage
<1>4. FirstPage'
  BY <1>1, NothingToList DEF FirstPage, NoPage
<1>5. Detail' /\ Sections'
  BY <1>1, <1>2 DEF Detail, BrokenOnlyUnstored, Sections, Read
<1>. QED
  BY <1>2, <1>3, <1>4, <1>5 DEF QueryInv

(* The next page keeps what the first one showed, and reads the rest       *)
(* again.                                                                  *)
LEMMA NextPageKeeps ==
  ASSUME QueryInv, NextPage
  PROVE  QueryInv'
<1>1. /\ Begin("links") /\ statement = "listed"
      /\ query' = [query EXCEPT !.offset = Limit]
      /\ linked' = {} /\ total' = 0 /\ page' = {} /\ UNCHANGED <<first, detailVars>>
  BY DEF NextPage
<1>2. /\ UNCHANGED <<db, trail>> /\ statement' = "links" /\ Began' /\ Trail' /\ Listing'
      /\ began' \in [db : SUBSET Obs, decision : SUBSET {"decision"}]
  BY <1>1, BeginKeeps
<1>3. QueryTypeOK' /\ query'.kind = query.kind /\ query'.match = query.match /\ query'.window = query.window
  BY <1>1, <1>2 DEF QueryInv, QueryTypeOK, detailVars
<1>4. FirstPage'
  <2>1. Rows(first.db, query', first.linked) = Rows(first.db, query, first.linked)
    BY <1>3, RowsOfAnyPage
  <2>. QED
    BY <1>1, <1>2, <2>1 DEF QueryInv, FirstPage
<1>5. shown = {}
  BY <1>1 DEF QueryInv, Sections, Read
<1>6. Detail' /\ Sections'
  BY <1>1, <1>2, <1>5 DEF Detail, BrokenOnlyUnstored, Sections, Read, detailVars
<1>. QED
  BY <1>2, <1>3, <1>4, <1>6 DEF QueryInv

(* A detail, by observation or by review item, starts with nothing read.   *)
LEMMA GetKeeps ==
  ASSUME QueryInv, (\E o \in Obs : GetEvent(o)) \/ (\E e \in Review : GetReviewItem(e))
  PROVE  QueryInv'
<1>1. PICK s \in {"row", "not found"} : Begin(s)
  BY DEF GetEvent, GetReviewItem
<1>2. /\ ForgetList
      /\ timeline' = {} /\ related' = {} /\ display' = {} /\ shown' = {}
  BY DEF GetEvent, GetReviewItem
<1>3. wanted' \in Obs \cup {None}
  <2>1. CASE \E o \in Obs : GetEvent(o)
    BY <2>1 DEF GetEvent
  <2>2. ASSUME NEW e \in Review, GetReviewItem(e)
        PROVE  wanted' \in Obs \cup {None}
    <3>1. wanted' \in {None} \/ wanted' \in Candidates(db, e)
      BY <2>2 DEF GetReviewItem
    <3>2. Candidates(db, e) \subseteq db
      BY DEF Candidates, LatestOf, Of
    <3>. QED
      BY <3>1, <3>2 DEF QueryInv, QueryTypeOK
  <2>. QED
    BY <2>1, <2>2
<1>4. /\ UNCHANGED <<db, trail>> /\ statement' = s /\ Began' /\ Trail' /\ Listing'
      /\ began' \in [db : SUBSET Obs, decision : SUBSET {"decision"}]
  BY <1>1, BeginKeeps
<1>5. QueryTypeOK'
  BY <1>2, <1>3, <1>4, EventQueryAssumption DEF QueryInv, QueryTypeOK, ForgetList, NoQuery, NoPage
<1>6. FirstPage'
  BY <1>2, NothingToList DEF ForgetList, FirstPage, NoPage
<1>7. Detail' /\ Sections'
  BY <1>2, <1>4 DEF Detail, BrokenOnlyUnstored, Sections, Read
<1>. QED
  BY <1>4, <1>5, <1>6, <1>7 DEF QueryInv

(* The statements of list_events.                                          *)
LEMMA ReadLinksKeeps ==
  ASSUME QueryInv, ReadLinks
  PROVE  QueryInv'
<1> DEFINE latest == {o \in Latest(db) : Kind(o) = "review"}
<1>1. /\ statement' = "count" /\ linked' = LinkedIds(latest)
      /\ UNCHANGED <<db, trail, query, total, page, first, detailVars, began>>
      /\ statement = "links"
  BY DEF ReadLinks
<1>2. latest \subseteq Obs
  BY DEF QueryInv, QueryTypeOK, Latest
<1>3. QueryTypeOK'
  BY <1>1, <1>2, LinkedAreObjects DEF QueryInv, QueryTypeOK, detailVars
<1>4. Listing'
  <2>1. \A o \in began.db : o \in Latest(db) /\ Kind(o) = "review" => links[o] \subseteq linked'
    BY <1>1 DEF LinkedIds
  <2>. QED
    BY <1>1, <2>1 DEF Listing
<1>5. Began' /\ Trail' /\ FirstPage'
  BY <1>1 DEF QueryInv, Began, Trail, FirstPage
<1>6. shown = {}
  BY <1>1 DEF QueryInv, Sections, Read
<1>7. Detail' /\ Sections'
  BY <1>1, <1>6 DEF Detail, BrokenOnlyUnstored, Sections, Read, detailVars
<1>. QED
  BY <1>3, <1>4, <1>5, <1>7 DEF QueryInv

(* There are no fewer rows than were counted when the page is read.        *)
LEMMA CountRowsKeeps ==
  ASSUME QueryInv, CountRows
  PROVE  QueryInv'
<1>1. /\ statement' = "page" /\ total' = Cardinality(Rows(db, query, linked))
      /\ UNCHANGED <<db, trail, query, linked, page, first, detailVars, began>>
      /\ statement = "count"
  BY DEF CountRows
<1>2. total' \in Nat
  <2>1. Rows(db, query, linked) \subseteq Obs
    BY RowsWithin DEF QueryInv, QueryTypeOK
  <2>. QED
    BY <1>1, <2>1, Times, FS_CardinalityType
<1>3. QueryTypeOK'
  BY <1>1, <1>2 DEF QueryInv, QueryTypeOK, detailVars
<1>4. Listing'
  BY <1>1, <1>2 DEF QueryInv, Listing, Unfiltered
<1>5. Began' /\ Trail' /\ FirstPage'
  BY <1>1 DEF QueryInv, Began, Trail, FirstPage
<1>6. shown = {}
  BY <1>1 DEF QueryInv, Sections, Read
<1>7. Detail' /\ Sections'
  BY <1>1, <1>6 DEF Detail, BrokenOnlyUnstored, Sections, Read, detailVars
<1>. QED
  BY <1>3, <1>4, <1>5, <1>7 DEF QueryInv

(* The first page is remembered with what it was cut from.                 *)
LEMMA ReadPageKeeps ==
  ASSUME QueryInv, ReadPage
  PROVE  QueryInv'
<1>1. /\ page' = Page(db, Rows(db, query, linked), query.offset)
      /\ first' = IF query.offset = 0 THEN [page |-> page', linked |-> linked, db |-> db] ELSE first
      /\ statement = "page" /\ statement' = "listed"
      /\ UNCHANGED <<db, trail, query, linked, total, detailVars, began>>
  BY DEF ReadPage
<1>2. page' \subseteq Obs
  BY <1>1, RowsWithin, PageWithin DEF QueryInv, QueryTypeOK
<1>3. QueryTypeOK'
  BY <1>1, <1>2 DEF QueryInv, QueryTypeOK, detailVars
<1>4. FirstPage'
  BY <1>1 DEF QueryInv, FirstPage
<1>5. Began' /\ Trail' /\ Listing'
  BY <1>1 DEF QueryInv, Began, Trail, Listing
<1>6. shown = {}
  BY <1>1 DEF QueryInv, Sections, Read
<1>7. Detail' /\ Sections'
  BY <1>1, <1>6 DEF Detail, BrokenOnlyUnstored, Sections, Read, detailVars
<1>. QED
  BY <1>3, <1>4, <1>5, <1>7 DEF QueryInv

(* The statements of get_event.                                            *)
LEMMA ReadRowKeeps ==
  ASSUME QueryInv, ReadRow
  PROVE  QueryInv'
<1>1. /\ statement' = IF wanted \in db THEN "timeline" ELSE "not found"
      /\ statement = "row"
      /\ UNCHANGED <<db, trail, listVars, detailVars, began>>
  BY DEF ReadRow
<1>2. QueryTypeOK'
  BY <1>1 DEF QueryInv, QueryTypeOK, listVars, detailVars
<1>3. Began' /\ Trail' /\ Listing' /\ FirstPage'
  BY <1>1 DEF QueryInv, Began, Trail, Listing, FirstPage, listVars
<1>4. shown = {}
  BY <1>1 DEF QueryInv, Sections, Read
<1>5. Detail' /\ Sections'
  BY <1>1, <1>4 DEF Detail, BrokenOnlyUnstored, Sections, Read, detailVars
<1>. QED
  BY <1>2, <1>3, <1>5 DEF QueryInv

(* The timeline has the observations of the entity that were stored when   *)
(* the request began.                                                      *)
LEMMA ReadTimelineKeeps ==
  ASSUME QueryInv, ReadTimeline
  PROVE  QueryInv'
<1>1. /\ timeline' = Of(db, entityOf[wanted]) /\ related' = LinkedIds(timeline')
      /\ statement = "timeline" /\ statement' = "display"
      /\ UNCHANGED <<db, trail, listVars, wanted, display, shown, began>>
  BY DEF ReadTimeline
<1>2. timeline' \subseteq Obs
  BY <1>1 DEF QueryInv, QueryTypeOK, Of
<1>3. QueryTypeOK'
  BY <1>1, <1>2, LinkedAreObjects DEF QueryInv, QueryTypeOK, listVars
<1>4. Began' /\ Trail' /\ Listing' /\ FirstPage'
  BY <1>1 DEF QueryInv, Began, Trail, Listing, FirstPage, listVars
<1>5. Detail'
  <2>1. wanted \in timeline' /\ Of(began.db, entityOf[wanted]) \subseteq timeline'
    BY <1>1 DEF QueryInv, Detail, Began, Of
  <2>. QED
    BY <1>1, <2>1 DEF Detail, BrokenOnlyUnstored
<1>6. shown = {}
  BY <1>1 DEF QueryInv, Sections, Read
<1>7. Sections'
  BY <1>1, <1>6 DEF Sections, Read
<1>. QED
  BY <1>3, <1>4, <1>5, <1>7 DEF QueryInv

(* The display is empty only if none of the linked objects was stored when *)
(* the request began.                                                      *)
LEMMA ReadDisplayKeeps ==
  ASSUME QueryInv, ReadDisplay
  PROVE  QueryInv'
<1>1. /\ display' = IF related = {} THEN timeline ELSE {o \in db : entityOf[o] \in related}
      /\ statement' = IF display' = {} THEN "broken" ELSE "decision"
      /\ statement = "display"
      /\ UNCHANGED <<db, trail, listVars, wanted, timeline, related, shown, began>>
  BY DEF ReadDisplay
<1>2. QueryTypeOK'
  BY <1>1 DEF QueryInv, QueryTypeOK, listVars, AfterSection
<1>3. Began' /\ Trail' /\ Listing' /\ FirstPage'
  BY <1>1 DEF QueryInv, Began, Trail, Listing, FirstPage, listVars
<1>4. ASSUME display' = {}
      PROVE  /\ related # {}
             /\ \A o \in began.db : entityOf[o] \notin LinkedIds(Of(began.db, entityOf[wanted]))
  <2>1. /\ wanted \in timeline /\ Of(began.db, entityOf[wanted]) \subseteq timeline
        /\ related = LinkedIds(timeline)
    BY <1>1 DEF QueryInv, Detail
  <2>2. related # {}
    BY <1>1, <1>4, <2>1
  <2>3. \A o \in began.db : entityOf[o] \notin related
    BY <1>1, <1>4, <2>2 DEF QueryInv, Began
  <2>4. LinkedIds(Of(began.db, entityOf[wanted])) \subseteq related
    BY <2>1 DEF LinkedIds
  <2>. QED
    BY <2>2, <2>3, <2>4
<1>5. Detail'
  BY <1>1, <1>4 DEF Detail, BrokenOnlyUnstored
<1>6. shown = {}
  BY <1>1 DEF QueryInv, Sections, Read
<1>7. Sections'
  BY <1>1, <1>6 DEF Sections, Read
<1>. QED
  BY <1>2, <1>3, <1>5, <1>7 DEF QueryInv

(* A section that is read shows what is committed, which is no less than   *)
(* before it was read.                                                     *)
LEMMA ReadSectionKeeps ==
  ASSUME QueryInv, ReadSection
  PROVE  QueryInv'
<1>1. /\ statement \in DOMAIN AfterSection /\ statement' = AfterSection[statement]
      /\ shown' = shown \cup (IF wanted = Judged THEN trail \cap {statement} ELSE {})
      /\ UNCHANGED <<db, trail, listVars, wanted, timeline, related, display, began>>
  BY DEF ReadSection
<1>2. DOMAIN AfterSection = {"decision", "job_ended", "invocation", "notification", "feedback"}
  BY DEF AfterSection
<1>3. \/ statement = "decision" /\ statement' = "job_ended"
      \/ statement = "job_ended" /\ statement' = "invocation"
      \/ statement = "invocation" /\ statement' = "notification"
      \/ statement = "notification" /\ statement' = "feedback"
      \/ statement = "feedback" /\ statement' = "answered"
  BY <1>1, <1>2 DEF AfterSection
<1>4. QueryTypeOK'
  BY <1>1, <1>2, <1>3 DEF QueryInv, QueryTypeOK, listVars
<1>5. Began' /\ Trail' /\ Listing' /\ FirstPage'
  BY <1>1, <1>3 DEF QueryInv, Began, Trail, Listing, FirstPage, listVars
<1>6. Detail'
  BY <1>1, <1>3 DEF Detail, BrokenOnlyUnstored
<1>7. began.decision # {} => "decision" \in trail
  BY DEF QueryInv, QueryTypeOK, Began
<1>8. Sections'
  BY <1>1, <1>2, <1>3, <1>7 DEF QueryInv, Trail, Sections, Read
<1>. QED
  BY <1>4, <1>5, <1>6, <1>8 DEF QueryInv

(* So the invariant holds whatever is asked and committed.                 *)
LEMMA QueryInvariance == QuerySpec => []QueryInv
<1>1. QueryInv /\ [QueryNext]_queryVars => QueryInv'
  <2> SUFFICES ASSUME QueryInv, [QueryNext]_queryVars
               PROVE  QueryInv'
    OBVIOUS
  <2>1. CASE Writers
    BY <2>1, IngestKeepsQuery, WriteKeeps DEF Writers
  <2>2. CASE Requests
    BY <2>2, ListKeeps, NextPageKeeps, GetKeeps DEF Requests
  <2>3. CASE Statements
    BY <2>3, ReadLinksKeeps, CountRowsKeeps, ReadPageKeeps, ReadRowKeeps, ReadTimelineKeeps,
       ReadDisplayKeeps, ReadSectionKeeps DEF Statements
  <2>4. ASSUME UNCHANGED queryVars
        PROVE  QueryInv'
    <3>1. UNCHANGED <<db, trail, statement, query, linked, total, page, first, wanted, timeline,
                      related, display, shown, began>>
      BY <2>4 DEF queryVars, listVars, detailVars
    <3>2. QueryTypeOK' /\ Began' /\ Trail' /\ FirstPage'
      BY <3>1 DEF QueryInv, QueryTypeOK, Began, Trail, FirstPage
    <3>3. Listing' /\ Detail' /\ Sections'
      BY <3>1 DEF QueryInv, Listing, Unfiltered, Detail, BrokenOnlyUnstored, Sections
    <3>. QED
      BY <3>2, <3>3 DEF QueryInv
  <2>. QED
    BY <2>1, <2>2, <2>3, <2>4 DEF QueryNext
<1>. QED
  BY <1>1, QueryStarts, PTL DEF QuerySpec

(* The types of the variables, for any observations and filters.           *)
THEOREM QueryTypeCorrect == QuerySpec => []QueryTypeOK
<1>1. QueryInv => QueryTypeOK
  BY DEF QueryInv
<1>. QED
  BY <1>1, QueryInvariance, PTL

(* A detail that is answered tells one story, and one that fails has a     *)
(* reason in what was stored when it was asked for (get_event), whatever   *)
(* is committed between its statements.                                    *)
THEOREM DetailExplained == QuerySpec => []DetailIsExplained
<1>1. QueryInv => BrokenOnlyUnstored
  BY DEF QueryInv, Detail
<1>2. QueryInv => SectionsAgree
  <2> SUFFICES ASSUME QueryInv, statement = "answered"
               PROVE  /\ "job_ended" \in shown => "invocation" \in shown
                      /\ (shown \cap {"notification", "feedback"} # {} /\ "decision" \notin shown)
                           => began.decision = {}
    BY DEF SectionsAgree
  <2>1. Read(statement) = {"decision", "job_ended", "invocation", "notification", "feedback"}
    BY DEF Read, AfterSection
  <2>2. "job_ended" \in shown => "invocation" \in shown
    BY <2>1 DEF QueryInv, Sections
  <2>3. ASSUME shown # {}, "decision" \notin shown
        PROVE  began.decision = {}
    BY <2>1, <2>3 DEF QueryInv, Sections
  <2>. QED
    BY <2>2, <2>3
<1>. QED
  BY <1>1, <1>2, QueryInvariance, PTL DEF DetailIsExplained

-----------------------------------------------------------------------------
(* A page that is not full has all the rows from its offset on, and the    *)
(* rows have not become fewer than were counted.                           *)
LEMMA PagesAreFull ==
  ASSUME QueryInv, ReadPage, Unfiltered
  PROVE  \/ Cardinality(page') = Limit
         \/ Cardinality(page') + query.offset >= total
<1> DEFINE R == Rows(db, query, linked)
<1>1. page' = Page(db, R, query.offset) /\ statement = "page"
  BY DEF ReadPage
<1>2. db \subseteq Obs /\ query.offset \in Nat /\ total \in Nat
  <2>1. db \subseteq Obs /\ total \in Nat
    BY DEF QueryInv, QueryTypeOK
  <2>2. query.offset \in {0, Limit}
    BY DEF QueryInv, QueryTypeOK
  <2>3. Limit \in Nat
    BY EventQueryAssumption
  <2>. QED
    BY <2>1, <2>2, <2>3
<1>3. total <= Cardinality(R)
  BY <1>1 DEF QueryInv, Listing
<1>4. R \subseteq db
  BY RowsWithin
<1>. HIDE DEF R
<1>5. /\ Cardinality(R) \in Nat /\ Cardinality(page') \in Nat
      /\ \/ Cardinality(page') = Limit
         \/ Cardinality(page') + query.offset >= Cardinality(R)
  BY <1>1, <1>2, <1>4, PageSize
<1>. QED
  BY <1>2, <1>3, <1>5

(* A review that had its row when the request began had its links read, if *)
(* it still has its row.                                                   *)
LEMMA ObjectsAreGrouped ==
  ASSUME QueryInv, ReadPage, query.kind = "any",
         NEW o \in page', NEW p \in page', entityOf[p] \in links[o]
  PROVE  o \notin began.db
<1> SUFFICES ASSUME o \in began.db
             PROVE  FALSE
  OBVIOUS
<1>1. statement = "page" /\ page' \subseteq Rows(db, query, linked) /\ db \subseteq Obs
  BY PageWithin DEF ReadPage, QueryInv, QueryTypeOK
<1>2. entityOf[p] \notin linked
  BY <1>1 DEF Rows
<1>3. o \in Latest(db) /\ o \in Obs
  BY <1>1, RowsWithin
<1>4. Kind(o) = "review"
  BY <1>3, Times
<1>5. links[o] \subseteq linked
  BY <1>1, <1>3, <1>4 DEF QueryInv, Listing
<1>. QED
  BY <1>2, <1>5

(* Without filters a page is never shorter than the total lets the client  *)
(* expect, and an object stands beside its review only when the review's   *)
(* observation came in during the request (list_events).                   *)
THEOREM ListExplained == QuerySpec => ListIsExplained
<1>1. QueryInv /\ [QueryNext]_queryVars =>
        [ReadPage /\ Unfiltered =>
           \/ Cardinality(page') = Limit
           \/ Cardinality(page') + query.offset >= total]_queryVars
  BY PagesAreFull
<1>2. QueryInv /\ [QueryNext]_queryVars =>
        [ReadPage /\ query.kind = "any" =>
           \A o \in page', p \in page' :
             entityOf[p] \in links[o] => o \notin began.db]_queryVars
  BY ObjectsAreGrouped
<1>3. QuerySpec => PageIsFull
  BY <1>1, QueryInvariance, PTL DEF QuerySpec, PageIsFull
<1>4. QuerySpec => GroupedOrFresh
  BY <1>2, QueryInvariance, PTL DEF QuerySpec, GroupedOrFresh
<1>. QED
  BY <1>3, <1>4 DEF ListIsExplained

(* The row o of an entity that had a row on neither page: if nothing that  *)
(* excuses it has happened, the rows that were above it still are, and it  *)
(* is on the second page.                                                  *)
LEMMA NotMissed ==
  ASSUME QueryInv, Unfiltered, query.kind = "any",
         NEW now, now = Rows(db, query, linked), Cardinality(now) <= 2 * Limit,
         NEW o \in now, NEW w \in first.db, entityOf[w] = entityOf[o],
         \A p \in first.page : entityOf[p] # entityOf[o],
         LastAt(db, o) = LastAt(first.db, o),
         (linked \ first.linked) \cap {entityOf[p] : p \in first.db} = {},
         entityOf[o] \notin first.linked,
         \A p \in now \ first.db : LastAt(db, p) # LastAt(first.db, o)
  PROVE  o \in Page(db, now, Limit)
<1> DEFINE before == first.db
           R == Rows(before, query, first.linked)
<1>1. /\ db \subseteq Obs /\ before \subseteq db /\ before \subseteq Obs
      /\ first.page = Page(before, R, 0)
  BY DEF QueryInv, QueryTypeOK, FirstPage
<1>2. /\ now = {p \in Latest(db) : entityOf[p] \notin linked}
      /\ R = {p \in Latest(before) : entityOf[p] \notin first.linked}
  <2>1. Plain(query)
    BY DEF Unfiltered, Plain
  <2>2. \A L, e : Admitted(query, L, e) <=> e \notin L
    BY DEF Admitted
  <2>3. now = {p \in Latest(db) : entityOf[p] \notin linked}
    <3>1. Rows(db, query, linked) = {p \in Latest(db) : Admitted(query, linked, entityOf[p])}
      BY <1>1, <2>1, RowsOfEntities
    <3>. QED
      BY <2>2, <3>1
  <2>4. R = {p \in Latest(before) : entityOf[p] \notin first.linked}
    <3>1. Rows(before, query, first.linked)
            = {p \in Latest(before) : Admitted(query, first.linked, entityOf[p])}
      BY <1>1, <2>1, RowsOfEntities
    <3>. QED
      BY <2>2, <3>1
  <2>. QED
    BY <2>3, <2>4
<1>. HIDE DEF R
<1>3. /\ R \subseteq before /\ now \subseteq db /\ IsFiniteSet(R) /\ IsFiniteSet(now)
      /\ R \subseteq Latest(before) /\ now \subseteq Latest(db)
  <2>1. R \subseteq before /\ now \subseteq db
    BY <1>2 DEF Latest
  <2>. QED
    BY <1>1, <1>2, <2>1, Times
<1>4. Limit \in Nat \ {0} /\ 0 + Limit - 1 \in Int
  BY EventQueryAssumption

\* Its row then was below the first page.
<1>5. PICK old \in R : entityOf[old] = entityOf[o]
  <2>1. PICK p \in Latest(before) : entityOf[p] = entityOf[w]
    BY <1>1, LatestFound
  <2>. QED
    BY <1>2, <2>1
<1>6. LastAt(before, old) = LastAt(db, o) /\ LastAt(before, old) = LastAt(before, o)
  BY <1>5, LastAtOfEntity
<1> DEFINE Above1 == {p \in R : Above(before, p, old)}
           Above2 == {p \in now : Above(db, p, o)}
           heir == [p \in Above1 |-> CHOOSE q \in now : entityOf[q] = entityOf[p]]
<1>7. Cardinality(Above1) \in Nat /\ Cardinality(Above1) >= Limit
  <2>1. IsFiniteSet(Above1) /\ Cardinality(Above1) \in Nat
    <3>1. Above1 \in SUBSET R
      OBVIOUS
    <3>. QED
      BY <1>3, <3>1, FS_Subset, FS_CardinalityType
  <2>2. old \notin Page(before, R, 0)
    BY <1>1, <1>5
  <2>3. Cardinality(Above1) \notin 0 .. (0 + Limit - 1)
    BY <1>5, <2>2 DEF Page, Position
  <2>. QED
    BY <1>4, <2>1, <2>3

\* The entities above it are above it now.
<1>8. ASSUME NEW p \in Above1
      PROVE  \E q \in Above2 : entityOf[q] = entityOf[p]
  <2>1. p \in R /\ p \in before /\ p \in Obs /\ Above(before, p, old)
    BY <1>1, <1>3
  <2>2. PICK q \in Latest(db) : entityOf[q] = entityOf[p]
    BY <1>1, <2>1, LatestFound
  <2>3. q \in now
    BY <1>2, <2>1, <2>2
  <2>4. LastAt(before, p) <= LastAt(db, q) /\ LastAt(before, q) = LastAt(before, p)
    <3>1. LastAt(before, p) <= LastAt(db, p)
      BY <1>1, <2>1, LastAtGrows
    <3>. QED
      BY <2>2, <3>1, LastAtOfEntity
  <2>5. /\ LastAt(before, p) \in Nat /\ LastAt(db, q) \in Nat /\ LastAt(db, o) \in Nat
        /\ p \in Nat /\ q \in Nat /\ o \in Nat /\ old \in Nat
    <3>1. q \in db /\ o \in db /\ old \in before
      BY <1>3, <1>5, <2>3
    <3>. QED
      BY <1>1, <2>1, <3>1, Times, LastAtIsMax
  <2>6. CASE LastAt(db, q) > LastAt(db, o)
    BY <2>2, <2>3, <2>6 DEF Above
  <2>7. CASE ~ (LastAt(db, q) > LastAt(db, o))
    <3>1. LastAt(db, q) = LastAt(db, o) /\ LastAt(before, p) = LastAt(before, old) /\ p > old
      BY <1>6, <2>1, <2>4, <2>5, <2>7 DEF Above
    <3>2. q \in before /\ o \in before
      BY <1>6, <2>3, <3>1
    <3>3. q \in Latest(before) /\ o \in Latest(before)
      BY <1>1, <1>3, <2>2, <3>2, LatestAmongFewer
    <3>4. q = p /\ o = old
      BY <1>1, <1>3, <1>5, <2>1, <2>2, <3>3, LatestUnique
    <3>. QED
      BY <2>2, <2>3, <3>1, <3>4 DEF Above
  <2>. QED
    BY <2>6, <2>7
<1>9. IsFiniteSet(Above2) /\ Cardinality(Above2) \in Nat /\ Cardinality(Above2) <= Cardinality(now)
      /\ (Cardinality(Above2) = Cardinality(now) => Above2 = now) /\ Cardinality(now) \in Nat
  <2>1. Above2 \in SUBSET now
    OBVIOUS
  <2>. QED
    BY <1>3, <2>1, FS_Subset, FS_CardinalityType
<1>10. Cardinality(Above1) <= Cardinality(Above2)
  <2> DEFINE into == [p \in Above1 |-> CHOOSE q \in Above2 : entityOf[q] = entityOf[p]]
  <2>. HIDE DEF Above2
  <2>1. into \in [Above1 -> Above2] /\ \A p \in Above1 : entityOf[into[p]] = entityOf[p]
    BY <1>8
  <2>2. \A p, q \in Above1 : into[p] = into[q] => p = q
    <3>1. Above1 \subseteq Latest(before)
      BY <1>3
    <3>. HIDE DEF Above1, into
    <3>. QED
      BY <1>1, <2>1, <3>1, LatestUnique
  <2>. HIDE DEF Above1, into
  <2>3. into \in Injection(Above1, Above2)
    BY <2>1, <2>2 DEF Injection, IsInjective
  <2>. QED
    BY <1>9, <2>3, FS_Injection
<1>11. o \notin Above2
  <2>1. LastAt(db, o) \in Nat /\ o \in Nat
    BY <1>1, <1>3, Times, LastAtIsMax
  <2>. QED
    BY <2>1 DEF Above
<1>12. Cardinality(Above2) \in Limit .. (Limit + Limit - 1)
  <2>1. Cardinality(Above2) # Cardinality(now)
    BY <1>9, <1>11
  <2>. HIDE DEF Above1, Above2
  <2>. QED
    BY <1>4, <1>7, <1>9, <1>10, <2>1
<1>. QED
  BY <1>12 DEF Page, Position

(* Of two pages of the list that have room for every row, an entity that   *)
(* was stored before the first is only missing when it moved up, when a    *)
(* row was grouped meanwhile or it had been, or when a row that ties with  *)
(* it changed its id (list_events, cut by OFFSET and LIMIT).               *)
THEOREM OnlyMovedAreMissed == QuerySpec => PagesMissOnlyMoved
<1>1. ASSUME QueryInv, ReadPage, Unfiltered, query.kind = "any", query.offset = Limit
      PROVE  LET now     == Rows(db, query, linked)
                 seen    == {entityOf[o] : o \in first.page \cup page'}
                 before  == {entityOf[o] : o \in first.db}
                 grouped == linked \ first.linked
             IN  Cardinality(now) <= 2 * Limit =>
                   \A o \in now : entityOf[o] \in before \ seen =>
                     \/ LastAt(db, o) # LastAt(first.db, o)
                     \/ grouped \cap before # {}
                     \/ entityOf[o] \in first.linked
                     \/ \E p \in now \ first.db : LastAt(db, p) = LastAt(first.db, o)
  <2> DEFINE now     == Rows(db, query, linked)
             seen    == {entityOf[o] : o \in first.page \cup page'}
             before  == {entityOf[o] : o \in first.db}
  <2> SUFFICES ASSUME Cardinality(now) <= 2 * Limit,
                      NEW o \in now, entityOf[o] \in before \ seen,
                      LastAt(db, o) = LastAt(first.db, o),
                      (linked \ first.linked) \cap before = {},
                      entityOf[o] \notin first.linked,
                      \A p \in now \ first.db : LastAt(db, p) # LastAt(first.db, o)
               PROVE  FALSE
    OBVIOUS
  <2>1. page' = Page(db, now, Limit)
    BY <1>1 DEF ReadPage
  <2>2. PICK w \in first.db : entityOf[w] = entityOf[o]
    OBVIOUS
  <2>3. o \notin page' /\ \A p \in first.page : entityOf[p] # entityOf[o]
    OBVIOUS
  <2>. HIDE DEF now, seen
  <2>4. o \in Page(db, now, Limit)
    BY <1>1, <2>2, <2>3, NotMissed DEF now
  <2>. QED
    BY <2>1, <2>3, <2>4
<1>2. QueryInv /\ [QueryNext]_queryVars =>
        [ReadPage /\ Unfiltered /\ query.kind = "any" /\ query.offset = Limit =>
           LET now     == Rows(db, query, linked)
               seen    == {entityOf[o] : o \in first.page \cup page'}
               before  == {entityOf[o] : o \in first.db}
               grouped == linked \ first.linked
           IN  Cardinality(now) <= 2 * Limit =>
                 \A o \in now : entityOf[o] \in before \ seen =>
                   \/ LastAt(db, o) # LastAt(first.db, o)
                   \/ grouped \cap before # {}
                   \/ entityOf[o] \in first.linked
                   \/ \E p \in now \ first.db : LastAt(db, p) = LastAt(first.db, o)]_queryVars
  BY <1>1
<1>. QED
  BY <1>2, QueryInvariance, PTL DEF QuerySpec, PagesMissOnlyMoved
=============================================================================
