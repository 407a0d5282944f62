---------------------------- MODULE ProcessorJobs ----------------------------
(***************************************************************************)
(* The processor API (api/routes/processor.py).  External processors poll  *)
(* for the next job and submit results.  A request is one transaction of   *)
(* get_session (api/dependencies.py), which commits after the handler has  *)
(* returned; whether the answer is sent before that commit or after it     *)
(* depends on the version of the web framework, and both happen here.      *)
(*                                                                         *)
(* Processors are not part of the repository: one may poll whenever it     *)
(* likes, and submit any result for any job it has been handed, also       *)
(* again, after a timeout, or while an earlier submission is in progress.  *)
(*                                                                         *)
(* Abstractions: a result is a model value with an outcome, and acceptable *)
(* if it names the job, cites granted evidence only and keeps the privacy  *)
(* policy; model invocation, claims and evidence links are one value,      *)
(* written in one transaction.  Requests that only read are left out.      *)
(***************************************************************************)
EXTENDS Naturals, FiniteSets

CONSTANTS
  Job,         \* numbered in the order of available_at, created_at and id
  Result,
  outcome,     \* outcome[r]: "succeeded", "abstained" or "failed"
  Acceptable,  \* results that pass the checks of submit_result
  Session,     \* requests that may be in progress at a time
  NoJob,
  NoResult,
  MaxFaults    \* bound: requests that die before their commit

ASSUME ProcessorAssumption ==
  /\ Job \subseteq Nat /\ NoJob \notin Job
  /\ outcome \in [Result -> {"succeeded", "abstained", "failed"}]
  /\ Acceptable \subseteq Result /\ NoResult \notin Result
  /\ MaxFaults \in Nat

VARIABLES
  status,      \* processor_jobs.status, or "none" before ingest adds the row
  attempts,    \* processor_jobs.attempt_count
  invocation,  \* invocation[j]: the result in model_invocations and claims
  audits,      \* audits[j]: enrichment_result.accepted records
  handed,      \* handed[j]: how often a processor was given the job
  receipts,    \* receipts that were sent: job, result, accepted
  pc,          \* pc[s]: where the request of session s is
  job,         \* job[s]: the job it is about
  sent,        \* sent[s]: the result submitted to s
  saw,         \* saw[s]: the job status that s has read
  faults

rows    == <<status, attempts, invocation, audits>>
session == <<pc, job, sent, saw>>
vars    == <<rows, handed, receipts, session, faults>>

Init ==
  /\ status = [j \in Job |-> "none"]
  /\ attempts = [j \in Job |-> 0]
  /\ invocation = [j \in Job |-> NoResult]
  /\ audits = [j \in Job |-> 0]
  /\ handed = [j \in Job |-> 0]
  /\ receipts = {}
  /\ pc = [s \in Session |-> "idle"]
  /\ job = [s \in Session |-> NoJob]
  /\ sent = [s \in Session |-> NoResult]
  /\ saw = [s \in Session |-> "none"]
  /\ faults = 0

(* create_processor_job, when the transaction of ingest commits.           *)
CreateJob(j) ==
  /\ status[j] = "none"
  /\ status' = [status EXCEPT ![j] = "pending"]
  /\ UNCHANGED <<attempts, invocation, audits, handed, receipts, session, faults>>

-----------------------------------------------------------------------------
Goto(s, p) == pc' = [pc EXCEPT ![s] = p]

End(s) ==
  /\ Goto(s, "idle")
  /\ job' = [job EXCEPT ![s] = NoJob]
  /\ sent' = [sent EXCEPT ![s] = NoResult]
  /\ saw' = [saw EXCEPT ![s] = "none"]

\* Variant: only jobs that were never handed out are picked.
FirstTimeQueued == {j \in Job : status[j] = "pending" /\ handed[j] = 0}

\* WHERE status IN ('pending', 'retry_wait'); nothing sets "retry_wait".
Queued == {j \in Job : status[j] = "pending"}

\* Variant: no row lock.
NoneLocked == {}

\* Rows that an open transaction of next_job has locked.
Locked == {job[s] : s \in {t \in Session : pc[t] \in {"claimed", "claim_answered"}}}

(* next_job: ORDER BY ... LIMIT 1 FOR UPDATE SKIP LOCKED.                  *)
Poll(s) ==
  /\ pc[s] = "idle"
  /\ \E j \in Queued \ Locked :
       /\ \A k \in Queued \ Locked : j <= k
       /\ job' = [job EXCEPT ![s] = j]
  /\ Goto(s, "claimed")
  /\ UNCHANGED <<rows, handed, receipts, sent, saw, faults>>

HandOut(s) == handed' = [handed EXCEPT ![job[s]] = @ + 1]

StoreClaim(s) ==
  /\ status' = [status EXCEPT ![job[s]] = "running"]
  /\ attempts' = [attempts EXCEPT ![job[s]] = @ + 1]
  /\ UNCHANGED <<invocation, audits>>

AnswerClaim(s) ==
  /\ pc[s] = "claimed"
  /\ HandOut(s)
  /\ Goto(s, "claim_answered")
  /\ UNCHANGED <<rows, receipts, job, sent, saw, faults>>

CommitAnsweredClaim(s) ==
  /\ pc[s] = "claim_answered"
  /\ StoreClaim(s)
  /\ End(s)
  /\ UNCHANGED <<handed, receipts, faults>>

CommitClaim(s) ==
  /\ pc[s] = "claimed"
  /\ StoreClaim(s)
  /\ Goto(s, "claim_stored")
  /\ UNCHANGED <<handed, receipts, job, sent, saw, faults>>

AnswerStoredClaim(s) ==
  /\ pc[s] = "claim_stored"
  /\ HandOut(s)
  /\ End(s)
  /\ UNCHANGED <<rows, receipts, faults>>

-----------------------------------------------------------------------------
Receipt(s, accepted) ==
  receipts' = receipts \cup {[job |-> job[s], result |-> sent[s], accepted |-> accepted]}

(* submit_result reads the job, without a lock ...                         *)
Submit(s, j, r) ==
  /\ pc[s] = "idle" /\ handed[j] > 0
  /\ job' = [job EXCEPT ![s] = j]
  /\ sent' = [sent EXCEPT ![s] = r]
  /\ saw' = [saw EXCEPT ![s] = status[j]]
  /\ Goto(s, "loaded")
  /\ UNCHANGED <<rows, handed, receipts, faults>>

(* ... and then looks for a result that is already there.                  *)
FindInvocation(s) ==
  /\ pc[s] = "loaded" /\ invocation[job[s]] # NoResult
  /\ Receipt(s, FALSE)
  /\ End(s)
  /\ UNCHANGED <<rows, handed, faults>>

Refuse(s) ==
  /\ pc[s] = "loaded" /\ invocation[job[s]] = NoResult
  /\ saw[s] # "running" \/ sent[s] \notin Acceptable
  /\ End(s)
  /\ UNCHANGED <<rows, handed, receipts, faults>>

Accept(s) ==
  /\ pc[s] = "loaded" /\ invocation[job[s]] = NoResult
  /\ saw[s] = "running" /\ sent[s] \in Acceptable
  /\ Goto(s, "insert")
  /\ UNCHANGED <<rows, handed, receipts, job, sent, saw, faults>>

\* Variant: no unique constraint on processor_job_id.
NeverTaken(j) == FALSE

Taken(j) == invocation[j] # NoResult

\* Another transaction has inserted an invocation: an INSERT waits for it.
Awaited(s) ==
  \E t \in Session \ {s} : pc[t] \in {"written", "result_answered"} /\ job[t] = job[s]

InsertInvocation(s) ==
  /\ pc[s] = "insert" /\ ~ Awaited(s) /\ ~ Taken(job[s])
  /\ Goto(s, "written")
  /\ UNCHANGED <<rows, handed, receipts, job, sent, saw, faults>>

\* Variant: the conflict is taken for success.
ConflictAccepted(s) ==
  /\ pc[s] = "insert" /\ ~ Awaited(s) /\ Taken(job[s])
  /\ Receipt(s, TRUE)
  /\ End(s)
  /\ UNCHANGED <<rows, handed, faults>>

(* IntegrityError, answered with status 500.                               *)
InvocationConflict(s) ==
  /\ pc[s] = "insert" /\ ~ Awaited(s) /\ Taken(job[s])
  /\ End(s)
  /\ UNCHANGED <<rows, handed, receipts, faults>>

StoreResult(s) ==
  /\ invocation' = [invocation EXCEPT ![job[s]] = sent[s]]
  /\ status' = [status EXCEPT ![job[s]] = outcome[sent[s]]]
  /\ audits' = [audits EXCEPT ![job[s]] = @ + 1]
  /\ UNCHANGED attempts

AnswerResult(s) ==
  /\ pc[s] = "written"
  /\ Receipt(s, TRUE)
  /\ Goto(s, "result_answered")
  /\ UNCHANGED <<rows, handed, job, sent, saw, faults>>

CommitAnsweredResult(s) ==
  /\ pc[s] = "result_answered"
  /\ StoreResult(s)
  /\ End(s)
  /\ UNCHANGED <<handed, receipts, faults>>

CommitResult(s) ==
  /\ pc[s] = "written"
  /\ StoreResult(s)
  /\ Goto(s, "result_stored")
  /\ UNCHANGED <<handed, receipts, job, sent, saw, faults>>

AnswerStoredResult(s) ==
  /\ pc[s] = "result_stored"
  /\ Receipt(s, TRUE)
  /\ End(s)
  /\ UNCHANGED <<rows, handed, faults>>

-----------------------------------------------------------------------------
(* The process dies, or the commit fails: rollback of what is not          *)
(* committed, and no answer if none was sent.                              *)
Abort(s) ==
  /\ pc[s] # "idle"
  /\ faults < MaxFaults /\ faults' = faults + 1
  /\ End(s)
  /\ UNCHANGED <<rows, handed, receipts>>

Serve(s) ==
  \/ AnswerClaim(s) \/ CommitAnsweredClaim(s) \/ CommitClaim(s) \/ AnswerStoredClaim(s)
  \/ FindInvocation(s) \/ Refuse(s) \/ Accept(s)
  \/ InsertInvocation(s) \/ InvocationConflict(s)
  \/ AnswerResult(s) \/ CommitAnsweredResult(s) \/ CommitResult(s) \/ AnswerStoredResult(s)

Next ==
  \/ \E j \in Job : CreateJob(j)
  \/ \E s \in Session :
       \/ Poll(s) \/ Serve(s) \/ Abort(s)
       \/ \E j \in Job, r \in Result : Submit(s, j, r)

Spec == Init /\ [][Next]_vars

(* Requests come to an end, ingest adds its jobs, and some processor keeps *)
(* polling; no processor has to submit.                                    *)
FairSpec ==
  /\ Spec
  /\ \A j \in Job : WF_vars(CreateJob(j))
  /\ \A s \in Session : WF_vars(Serve(s))
  /\ SF_vars(\E s \in Session : Poll(s))

-----------------------------------------------------------------------------
TypeOK ==
  /\ status \in [Job -> {"none", "pending", "running", "succeeded", "abstained", "failed"}]
  /\ attempts \in [Job -> Nat] /\ audits \in [Job -> Nat] /\ handed \in [Job -> Nat]
  /\ invocation \in [Job -> Result \cup {NoResult}]
  /\ receipts \subseteq [job : Job, result : Result, accepted : BOOLEAN]
  /\ pc \in [Session -> {"idle", "claimed", "claim_answered", "claim_stored", "loaded",
                         "insert", "written", "result_answered", "result_stored"}]
  /\ job \in [Session -> Job \cup {NoJob}]
  /\ sent \in [Session -> Result \cup {NoResult}]
  /\ saw \in [Session -> {"none", "pending", "running", "succeeded", "abstained", "failed"}]
  /\ faults \in 0 .. MaxFaults
  /\ \A s \in Session : pc[s] = "idle" <=> job[s] = NoJob

(* A job is handed to one processor; to a further one only after a claim   *)
(* that was answered has failed to commit.                                 *)
HandedOutOnce == \A j \in Job : handed[j] <= 1 + faults /\ attempts[j] <= 1

(* A job ends with the one acceptable result that is stored for it, with   *)
(* its outcome and one audit record, whoever else submits at that time.    *)
ResultMatchesJob ==
  \A j \in Job :
    IF invocation[j] = NoResult
    THEN status[j] \in {"none", "pending", "running"} /\ audits[j] = 0
    ELSE /\ invocation[j] \in Acceptable
         /\ status[j] = outcome[invocation[j]]
         /\ audits[j] = 1 /\ attempts[j] = 1

\* Accepted results that are neither stored nor about to be committed.
Unstored ==
  {c \in receipts :
     /\ c.accepted /\ invocation[c.job] # c.result
     /\ \A s \in Session :
          pc[s] = "result_answered" => job[s] # c.job \/ sent[s] # c.result}

(* A receipt tells the truth: "not accepted" says that a result is stored, *)
(* and "accepted" that this one is, but for commits that failed after the  *)
(* receipt was sent.                                                       *)
ReceiptsAreHonest ==
  /\ \A c \in receipts : c.accepted \/ invocation[c.job] # NoResult
  /\ Cardinality(Unstored) <= faults

(* Every job is claimed, a claim that fails notwithstanding.               *)
JobsAreServed == \A j \in Job : <>(status[j] \notin {"none", "pending"})
=============================================================================
