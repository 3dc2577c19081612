---------------------------- MODULE JobLifecycle ----------------------------
(***************************************************************************)
(* The durable life of an agent job: the agent_jobs and approvals rows,    *)
(* the worker run of every claimed attempt, the agent thread of that run   *)
(* with the tool transaction it may have open, lease recovery, and the     *)
(* operator's decision or expiry of a parked approval.                     *)
(*                                                                         *)
(* One database transaction is one action, except the transactions an      *)
(* agent thread opens through the gateway: those lock the job row in one   *)
(* step and commit or abort in a later one, because the worker can stop    *)
(* waiting for them (gateway timeout, job deadline, lost lease, crash)     *)
(* while the server still completes them.                                  *)
(*                                                                         *)
(* Time is abstract: a lease, a retry delay and an approval deadline each  *)
(* run out by an action of their own, so every relation between the        *)
(* configured durations, and every clock skew between workers, is covered. *)
(***************************************************************************)
EXTENDS Naturals

CONSTANTS Jobs,        \* the job identifiers
          MaxRetries   \* Settings.worker_max_retries

ASSUME RetriesAssumption == MaxRetries \in Nat

\* claim_next hands out one attempt number per claim; RetryBudget below shows
\* that no attempt outside this range is ever claimed.
Attempts == 1 .. MaxRetries + 1

VARIABLES
    \* --- the agent_jobs row -------------------------------------------------
    status,     \* status column; "absent" before the row is inserted
    attempt,    \* attempt_count
    ready,      \* available_at <= now
    lease,      \* lease_expires_at: "none" (NULL), "live" or "expired"
    marker,     \* side_effect_committed_at IS NOT NULL
    \* --- the approvals row of the job ---------------------------------------
    appr,       \* status column; "none" when the job has no approval row
    due,        \* expires_at <= now
    author,     \* history: the attempt whose action the approval row holds
    \* --- the worker run of each (job, attempt) ------------------------------
    sup,        \* serve_once / _run_claimed_with_lease
    thr,        \* the agent thread of the run
    txn,        \* a gateway transaction that holds the job row lock
    \* --- history -------------------------------------------------------------
    late        \* a tool committed after its worker had chosen the outcome

jobVars  == <<status, attempt, ready, lease, marker>>
apprVars == <<appr, due, author>>
runVars  == <<sup, thr, txn>>
vars     == <<status, attempt, ready, lease, marker, appr, due, author,
              sup, thr, txn, late>>

-----------------------------------------------------------------------------
(* Values.                                                                 *)

Terminal  == {"succeeded", "failed", "failed_uncertain"}
JobStatus == {"absent", "queued", "running", "awaiting_approval"} \cup Terminal

ApprStatus == {"none", "staged", "pending", "approved", "rejected",
               "expired", "cancelled"}

\* How a run ends, as serve_once tells the cases apart.
Outcome == {"completed",   \* AgentRunResult COMPLETED, evidence recorded
            "empty",       \* AgentRunResult COMPLETED, empty execution path
            "approval",    \* COMPLETED with final response approval_requested
            "agent_failed",\* AgentRunResult FAILED
            "retryable",   \* RetryableJobError
            "rejected",    \* ProviderRequestRejectedError
            "crashed",     \* any other exception of the thread
            "unreadable",  \* preflight: document_unreadable
            "incapable"}   \* preflight: any other reason

\* The outcomes for which the worker reads the side-effect marker first.
Inspected == {"agent_failed", "retryable", "rejected", "crashed"}

\* The one write a run still has to make.
Write == {"succeed", "park", "fail", "uncertain", "requeue"}

SupState == {"idle", "run", "over"} \cup Outcome \cup Write
ThrState == {"idle", "start", "work", "call", "gone"} \cup Outcome
TxnState == {"none", "tool", "approval"}

\* TypeOK: types of the rows, of the workers and of their threads, and the
\* statuses that the job table's check constraint allows.
TypeOK ==
    /\ status  \in [Jobs -> JobStatus]
    /\ attempt \in [Jobs -> Nat]
    /\ ready   \in [Jobs -> BOOLEAN]
    /\ lease   \in [Jobs -> {"none", "live", "expired"}]
    /\ marker  \in [Jobs -> BOOLEAN]
    /\ appr    \in [Jobs -> ApprStatus]
    /\ due     \in [Jobs -> BOOLEAN]
    /\ author  \in [Jobs -> Nat]
    /\ sup     \in [Jobs -> [Attempts -> SupState]]
    /\ thr     \in [Jobs -> [Attempts -> ThrState]]
    /\ txn     \in [Jobs -> [Attempts -> TxnState]]
    /\ late    \in [Jobs -> BOOLEAN]

Init ==
    /\ status  = [j \in Jobs |-> "absent"]
    /\ attempt = [j \in Jobs |-> 0]
    /\ ready   = [j \in Jobs |-> FALSE]
    /\ lease   = [j \in Jobs |-> "none"]
    /\ marker  = [j \in Jobs |-> FALSE]
    /\ appr    = [j \in Jobs |-> "none"]
    /\ due     = [j \in Jobs |-> FALSE]
    /\ author  = [j \in Jobs |-> 0]
    /\ sup     = [j \in Jobs |-> [a \in Attempts |-> "idle"]]
    /\ thr     = [j \in Jobs |-> [a \in Attempts |-> "idle"]]
    /\ txn     = [j \in Jobs |-> [a \in Attempts |-> "none"]]
    /\ late    = [j \in Jobs |-> FALSE]

-----------------------------------------------------------------------------
(* Guards and decisions shared by the actions.  A definition called        *)
(* "...Fault" is not part of the specification: it is the same decision    *)
(* with a plausible mistake in it, kept to show that a property notices.   *)

OwnsFault(j, a)  == status[j] = "running"
OwnsFault2(j, a) == attempt[j] = a

\* The fence of every worker write: the row is read FOR UPDATE with the
\* claimed attempt in its predicate and must still be running.
Owns(j, a) == status[j] = "running" /\ attempt[j] = a

\* No gateway transaction holds the job row: a FOR UPDATE read of the row
\* gets its lock, and a SKIP LOCKED one does not skip it.
RowFree(j) == \A a \in Attempts : txn[j][a] = "none"

LeaseDueFault(j)  == status[j] = "running" /\ lease[j] = "expired"
LeaseDueFault2(j) == LeaseDueFault(j) /\ RowFree(j) /\ ~marker[j]

\* The rows recover_expired_leases selects.
LeaseDue(j) == status[j] = "running" /\ lease[j] = "expired" /\ RowFree(j)

RecoveredFault(j)  == IF attempt[j] <= MaxRetries THEN "queued" ELSE "failed"
RecoveredFault2(j) == IF marker[j] THEN "failed_uncertain"
                      ELSE IF attempt[j] <= MaxRetries + 1 THEN "queued"
                      ELSE "failed"

\* Where recover_expired_leases sends an abandoned attempt.
Recovered(j) ==
    IF marker[j] THEN "failed_uncertain"
    ELSE IF attempt[j] <= MaxRetries THEN "queued"
    ELSE "failed"

WithoutStagedFault(j) == appr[j]

\* _cancel_staged_approval: the approval status after it.
WithoutStaged(j) == IF appr[j] = "staged" THEN "cancelled" ELSE appr[j]

\* The write serve_once and _persist_result choose for an outcome.  For an
\* inspected outcome the marker has just been read; for the others it is not
\* looked at.
Decision(j, a, o) ==
    CASE o \in {"completed", "unreadable"} -> "succeed"
      [] o = "approval"                    -> "park"
      [] o \in {"empty", "incapable"}      -> "fail"
      [] o \in Inspected /\ marker[j]      -> "uncertain"
      [] o = "retryable" /\ ~marker[j] /\ a <= MaxRetries -> "requeue"
      [] OTHER                             -> "fail"

\* The status each terminal write stores.
TerminalOf(w) == CASE w = "succeed"   -> "succeeded"
                   [] w = "fail"      -> "failed"
                   [] w = "uncertain" -> "failed_uncertain"

-----------------------------------------------------------------------------
(* The queue.                                                              *)

\* IntakeService inserts the job row; available_at defaults to now.
Enqueue(j) ==
    /\ status[j] = "absent"
    /\ status' = [status EXCEPT ![j] = "queued"]
    /\ ready'  = [ready EXCEPT ![j] = TRUE]
    /\ UNCHANGED <<attempt, lease, marker, apprVars, runVars, late>>

\* The retry delay runs out.
DelayElapses(j) ==
    /\ status[j] = "queued" /\ ~ready[j]
    /\ ready' = [ready EXCEPT ![j] = TRUE]
    /\ UNCHANGED <<status, attempt, lease, marker, apprVars, runVars, late>>

\* claim_next, and the worker run it starts: heartbeat, agent thread, deadline.
Claim(j) ==
    LET a == attempt[j] + 1 IN
    /\ status[j] = "queued" /\ ready[j] /\ RowFree(j)
    /\ status'  = [status EXCEPT ![j] = "running"]
    /\ attempt' = [attempt EXCEPT ![j] = a]
    /\ lease'   = [lease EXCEPT ![j] = "live"]
    /\ sup'     = [sup EXCEPT ![j][a] = "run"]
    /\ thr'     = [thr EXCEPT ![j][a] = "start"]
    /\ UNCHANGED <<ready, marker, apprVars, txn, late>>

\* The lease deadline passes, on the clock of whichever worker looks at it.
LeaseExpires(j) ==
    /\ lease[j] = "live"
    /\ lease' = [lease EXCEPT ![j] = "expired"]
    /\ UNCHANGED <<status, attempt, ready, marker, apprVars, runVars, late>>

\* recover_expired_leases: one transaction over every due row.  The staged
\* approval of an attempt that goes back to the queue is left in place.
RecoverExpiredLeases ==
    LET dueJobs == {j \in Jobs : LeaseDue(j)} IN
    /\ dueJobs # {}
    /\ status' = [j \in Jobs |-> IF j \in dueJobs THEN Recovered(j) ELSE status[j]]
    /\ lease'  = [j \in Jobs |-> IF j \in dueJobs THEN "none" ELSE lease[j]]
    /\ ready'  = [j \in Jobs |-> IF j \in dueJobs /\ Recovered(j) = "queued"
                                 THEN FALSE ELSE ready[j]]
    /\ appr'   = [j \in Jobs |-> IF j \in dueJobs /\ Recovered(j) # "queued"
                                 THEN WithoutStaged(j) ELSE appr[j]]
    /\ UNCHANGED <<attempt, marker, due, author, runVars, late>>

-----------------------------------------------------------------------------
(* The agent thread.  Once its run has left "run" the cancellation event   *)
(* is set.  A tool checks it again with the row lock in hand, so it gets   *)
(* no further; an approval request checks it only before it opens its      *)
(* session, so it may still find its way to the row.                       *)

\* The loop ends.  Preflight results and an empty execution path are only
\* possible before the first tool call.
ThreadEnds(j, a) ==
    /\ \/ /\ thr[j][a] = "start"
          /\ \E o \in Outcome \ {"approval"} : thr' = [thr EXCEPT ![j][a] = o]
       \/ /\ thr[j][a] = "work"
          /\ \E o \in Inspected \cup {"completed"} : thr' = [thr EXCEPT ![j][a] = o]
    /\ UNCHANGED <<jobVars, apprVars, sup, txn, late>>

\* A mutating tool reaches _mark_side_effect: not cancelled, and the fenced
\* row is now locked.  Its writes become visible at TxnCommit.
ToolLocksRow(j, a) ==
    /\ thr[j][a] \in {"start", "work"} /\ sup[j][a] = "run"
    /\ RowFree(j) /\ Owns(j, a)
    /\ thr' = [thr EXCEPT ![j][a] = "call"]
    /\ txn' = [txn EXCEPT ![j][a] = "tool"]
    /\ UNCHANGED <<jobVars, apprVars, sup, late>>

\* create_for_running_job: the fenced row is locked and the job has no
\* approval, or a staged one that this attempt may replace.
ApprovalLocksRow(j, a) ==
    /\ thr[j][a] \in {"start", "work"}
    /\ RowFree(j) /\ Owns(j, a) /\ appr[j] \in {"none", "staged"}
    /\ thr' = [thr EXCEPT ![j][a] = "call"]
    /\ txn' = [txn EXCEPT ![j][a] = "approval"]
    /\ UNCHANGED <<jobVars, apprVars, sup, late>>

\* COMMIT of a gateway transaction, whether or not anyone still waits for it.
TxnCommit(j, a) ==
    /\ txn[j][a] # "none"
    /\ txn' = [txn EXCEPT ![j][a] = "none"]
    /\ \/ /\ txn[j][a] = "tool"
          /\ marker' = [marker EXCEPT ![j] = TRUE]
          /\ late'   = IF sup[j][a] \in Write THEN [late EXCEPT ![j] = TRUE] ELSE late
          /\ thr'    = [thr EXCEPT ![j][a] = IF @ = "call" THEN "work" ELSE @]
          /\ UNCHANGED apprVars
       \/ /\ txn[j][a] = "approval"
          /\ appr'   = [appr EXCEPT ![j] = "staged"]
          /\ due'    = [due EXCEPT ![j] = FALSE]
          /\ author' = [author EXCEPT ![j] = a]
          /\ thr'    = [thr EXCEPT ![j][a] = IF @ = "call" THEN "approval" ELSE @]
          /\ UNCHANGED <<marker, late>>
    /\ UNCHANGED <<status, attempt, ready, lease, sup>>

\* The transaction rolls back.  The executor turns a tool's exception into a
\* FAILED result; an exception of request_approval escapes the loop.
TxnAbort(j, a) ==
    /\ txn[j][a] # "none"
    /\ txn' = [txn EXCEPT ![j][a] = "none"]
    /\ thr' = [thr EXCEPT ![j][a] =
                  IF @ # "call" THEN @
                  ELSE IF txn[j][a] = "tool" THEN "agent_failed" ELSE "crashed"]
    /\ UNCHANGED <<jobVars, apprVars, sup, late>>

\* WorkerAsyncGateway.call gives up; the transaction stays with the server.
GatewayTimeout(j, a) ==
    /\ thr[j][a] = "call" /\ txn[j][a] # "none"
    /\ thr' = [thr EXCEPT ![j][a] =
                  IF txn[j][a] = "tool" THEN "agent_failed" ELSE "retryable"]
    /\ UNCHANGED <<jobVars, apprVars, sup, txn, late>>

-----------------------------------------------------------------------------
(* The worker run of attempt a.                                            *)

\* _maintain_lease: the renewal is fenced but does not look at the deadline,
\* so it also revives an expired lease that nobody has recovered yet.
RenewLease(j, a) ==
    /\ sup[j][a] = "run" /\ RowFree(j) /\ Owns(j, a)
    /\ lease' = [lease EXCEPT ![j] = "live"]
    /\ UNCHANGED <<status, attempt, ready, marker, apprVars, runVars, late>>

\* The renewal is refused or raises: the run stops without writing anything.
HeartbeatLost(j, a) ==
    /\ sup[j][a] = "run"
    /\ sup' = [sup EXCEPT ![j][a] = "over"]
    /\ UNCHANGED <<jobVars, apprVars, thr, txn, late>>

\* The thread's result reaches serve_once while the lease is still held.
Finish(j, a) ==
    /\ sup[j][a] = "run" /\ thr[j][a] \in Outcome
    /\ sup' = [sup EXCEPT ![j][a] = thr[j][a]]
    /\ UNCHANGED <<jobVars, apprVars, thr, txn, late>>

\* The job deadline: after the grace period RetryableJobError is raised even
\* when the thread is still busy.
Deadline(j, a) ==
    /\ sup[j][a] = "run" /\ thr[j][a] \notin Outcome
    /\ sup' = [sup EXCEPT ![j][a] = "retryable"]
    /\ UNCHANGED <<jobVars, apprVars, thr, txn, late>>

\* _has_side_effect, an unlocked read in a transaction of its own, and the
\* choice of the write.  A failed fence ends the run as a lost lease.
Inspect(j, a) ==
    /\ sup[j][a] \in Outcome
    /\ sup' = [sup EXCEPT ![j][a] =
                  IF @ \in Inspected /\ ~Owns(j, a) THEN "over"
                  ELSE Decision(j, a, @)]
    /\ UNCHANGED <<jobVars, apprVars, thr, txn, late>>

\* mark_succeeded, mark_failed, mark_failed_uncertain (_mark_terminal).
MarkTerminal(j, a) ==
    /\ sup[j][a] \in {"succeed", "fail", "uncertain"}
    /\ RowFree(j) /\ Owns(j, a)
    /\ status' = [status EXCEPT ![j] = TerminalOf(sup[j][a])]
    /\ lease'  = [lease EXCEPT ![j] = "none"]
    /\ appr'   = [appr EXCEPT ![j] = WithoutStaged(j)]
    /\ sup'    = [sup EXCEPT ![j][a] = "over"]
    /\ UNCHANGED <<attempt, ready, marker, due, author, thr, txn, late>>

\* record_awaiting_approval_result: publish the staged approval and park.
Park(j, a) ==
    /\ sup[j][a] = "park"
    /\ RowFree(j) /\ Owns(j, a) /\ appr[j] = "staged"
    /\ status' = [status EXCEPT ![j] = "awaiting_approval"]
    /\ lease'  = [lease EXCEPT ![j] = "none"]
    /\ appr'   = [appr EXCEPT ![j] = "pending"]
    /\ sup'    = [sup EXCEPT ![j][a] = "over"]
    /\ UNCHANGED <<attempt, ready, marker, due, author, thr, txn, late>>

\* schedule_retry: neither the marker nor the staged approval is looked at.
ScheduleRetry(j, a) ==
    /\ sup[j][a] = "requeue"
    /\ RowFree(j) /\ Owns(j, a)
    /\ status' = [status EXCEPT ![j] = "queued"]
    /\ ready'  = [ready EXCEPT ![j] = FALSE]
    /\ lease'  = [lease EXCEPT ![j] = "none"]
    /\ sup'    = [sup EXCEPT ![j][a] = "over"]
    /\ UNCHANGED <<attempt, marker, apprVars, thr, txn, late>>

\* The fence of the write fails: JobLeaseLostError, nothing is written.
WriteRefused(j, a) ==
    /\ sup[j][a] \in Write /\ RowFree(j)
    /\ ~Owns(j, a) \/ (sup[j][a] = "park" /\ appr[j] # "staged")
    /\ sup' = [sup EXCEPT ![j][a] = "over"]
    /\ UNCHANGED <<jobVars, apprVars, thr, txn, late>>

\* A persistence error, or the supervisor cancelling every slot after one:
\* the run ends and the row keeps the state it has.
Abandon(j, a) ==
    /\ sup[j][a] \notin {"idle", "over"}
    /\ sup' = [sup EXCEPT ![j][a] = "over"]
    /\ UNCHANGED <<jobVars, apprVars, thr, txn, late>>

\* The worker process dies; a transaction already with the server survives.
Crash(j, a) ==
    /\ sup[j][a] # "idle" /\ thr[j][a] # "gone"
    /\ sup' = [sup EXCEPT ![j][a] = "over"]
    /\ thr' = [thr EXCEPT ![j][a] = "gone"]
    /\ UNCHANGED <<jobVars, apprVars, txn, late>>

-----------------------------------------------------------------------------
(* The parked job.                                                         *)

\* The approval deadline passes.
ApprovalFallsDue(j) ==
    /\ appr[j] \in {"staged", "pending"} /\ ~due[j]
    /\ due' = [due EXCEPT ![j] = TRUE]
    /\ UNCHANGED <<jobVars, appr, author, runVars, late>>

\* finalize_job_for_decision: the job status that goes with a decision.
FinalStatus(d) == IF d = "expired" THEN "failed" ELSE "succeeded"

\* The rows expire_due selects.
Expirable(j) == appr[j] = "pending" /\ status[j] = "awaiting_approval" /\ due[j]

\* decide finds the row through _published_lifecycle_predicate, undecided.
Decidable(j) == /\ appr[j] = "pending" /\ status[j] = "awaiting_approval"
                /\ RowFree(j)

\* ApprovalService.decide on an undecided approval.  After the deadline either
\* request expires it.  An approval executes the frozen action in the same
\* transaction; find_customer is the one action that leaves no marker.
Decide(j, d) ==
    LET final == IF due[j] THEN "expired" ELSE d IN
    /\ Decidable(j)
    /\ appr'   = [appr EXCEPT ![j] = final]
    /\ status' = [status EXCEPT ![j] = FinalStatus(final)]
    /\ lease'  = [lease EXCEPT ![j] = "none"]
    /\ \/ marker' = marker
       \/ final = "approved" /\ marker' = [marker EXCEPT ![j] = TRUE]
    /\ UNCHANGED <<attempt, ready, due, author, runVars, late>>

\* expire_due: one transaction over the due rows.
ExpireDue ==
    LET gone == {j \in Jobs : Expirable(j)} IN
    /\ gone # {}
    /\ appr'   = [j \in Jobs |-> IF j \in gone THEN "expired" ELSE appr[j]]
    /\ status' = [j \in Jobs |-> IF j \in gone THEN FinalStatus("expired")
                                 ELSE status[j]]
    /\ lease'  = [j \in Jobs |-> IF j \in gone THEN "none" ELSE lease[j]]
    /\ UNCHANGED <<attempt, ready, marker, due, author, runVars, late>>

-----------------------------------------------------------------------------
RunStep(j, a) ==
    \/ ThreadEnds(j, a) \/ ToolLocksRow(j, a) \/ ApprovalLocksRow(j, a)
    \/ TxnCommit(j, a) \/ TxnAbort(j, a) \/ GatewayTimeout(j, a)
    \/ RenewLease(j, a) \/ HeartbeatLost(j, a) \/ Finish(j, a) \/ Deadline(j, a)
    \/ Inspect(j, a) \/ MarkTerminal(j, a) \/ Park(j, a) \/ ScheduleRetry(j, a)
    \/ WriteRefused(j, a) \/ Abandon(j, a) \/ Crash(j, a)

JobStep(j) ==
    \/ Enqueue(j) \/ DelayElapses(j) \/ Claim(j) \/ LeaseExpires(j)
    \/ ApprovalFallsDue(j)
    \/ \E d \in {"approved", "rejected"} : Decide(j, d)

Next ==
    \/ \E j \in Jobs : JobStep(j)
    \/ \E j \in Jobs, a \in Attempts : RunStep(j, a)
    \/ RecoverExpiredLeases
    \/ ExpireDue

Spec == Init /\ [][Next]_vars
-----------------------------------------------------------------------------
(* Safety.                                                                 *)

\* RetryBudget: no history of retries, lost leases and crashes claims a job
\* more than worker_max_retries + 1 times.  The bound is enforced in two
\* places (serve_once before schedule_retry, and recover_expired_leases), and
\* claim_next itself does not check it.
RetryBudget ==
    \A j \in Jobs : /\ attempt[j] <= MaxRetries + 1
                    /\ status[j] = "queued" => attempt[j] <= MaxRetries

\* ApprovalMatchesJob: the two rows of a job always agree.  An approval is
\* pending exactly while its job is parked, is staged only while the job can
\* still run, and a decided or cancelled approval belongs to a finished job,
\* although workers lock the job row first and deciders the approval row.
ApprovalMatchesJob ==
    \A j \in Jobs :
        /\ appr[j] = "pending" <=> status[j] = "awaiting_approval"
        /\ appr[j] = "staged" => status[j] \in {"queued", "running"}
        /\ appr[j] \in {"approved", "rejected"} => status[j] = "succeeded"
        /\ appr[j] = "expired" => status[j] = "failed"
        /\ appr[j] = "cancelled" => status[j] \in Terminal

\* PublishedByItsAttempt: what an operator is asked to decide was requested by
\* the attempt that parked the job.  A staged approval survives a retry, so a
\* later attempt could otherwise publish the action of an earlier one.
PublishedByItsAttempt ==
    \A j \in Jobs : appr[j] = "pending" => author[j] = attempt[j]

\* OpenTxnOwnsJob: a tool or approval transaction that can still commit
\* belongs to the current, running attempt, however long ago its worker
\* stopped waiting for it.  The row lock taken with the fence provides this.
OpenTxnOwnsJob ==
    \A j \in Jobs, a \in Attempts : txn[j][a] # "none" => Owns(j, a)

\* LeaseIffRunning: lease_expires_at is set exactly while the job runs, so
\* recover_expired_leases sees every abandoned attempt and nothing else.
LeaseIffRunning ==
    \A j \in Jobs : lease[j] # "none" <=> status[j] = "running"

\* RowsConsistent: whatever the attempts, the recovery and the operator write, and
\* in whichever order, the rows of a job stay consistent: the attempts are within
\* the budget, the approval matches the job and the lease matches the status.
RowsConsistent == RetryBudget /\ ApprovalMatchesJob /\ LeaseIffRunning

\* EffectReplayedOnlyIfLate: a job whose side effect is committed goes back to
\* the queue, or ends as plain "failed", only if the commit landed after its
\* worker had already inspected the marker, or if the operator's window on a
\* parked job ran out.  Crash, lease expiry, provider errors and retries alone
\* never lose the marker.
EffectReplayedOnlyIfLate ==
    \A j \in Jobs :
        /\ status[j] = "queued" /\ marker[j] => late[j]
        /\ status[j] = "failed" /\ marker[j] => late[j] \/ appr[j] = "expired"

\* TerminalIsFinal: nothing touches a finished job again: not a zombie thread,
\* a late commit, a stale worker, a recovery sweep or a second decision.
TerminalIsFinal ==
    [][\A j \in Jobs : status[j] \in Terminal =>
          /\ status'[j] = status[j] /\ attempt'[j] = attempt[j]
          /\ marker'[j] = marker[j] /\ appr'[j] = appr[j]]_vars

\* QueuedIsUntouched: between a retry and the next claim no worker writes to
\* the job: its attempt, marker and staged approval keep their values.
QueuedIsUntouched ==
    [][\A j \in Jobs : status[j] = "queued" =>
          /\ marker'[j] = marker[j] /\ appr'[j] = appr[j]
          /\ status'[j] = "queued" => attempt'[j] = attempt[j]]_vars

-----------------------------------------------------------------------------
(* The inductive invariant: the safety properties above, and what the      *)
(* worker runs know about the rows they are about to write.                *)

\* A job that has not been accepted has no attempts and no side effect.
AbsentJobsBlank ==
    \A j \in Jobs : status[j] = "absent" => attempt[j] = 0 /\ ~marker[j]

\* The run of an attempt that has not been claimed has not started.
FutureRunsIdle ==
    \A j \in Jobs, a \in Attempts :
        a > attempt[j] => sup[j][a] = "idle" /\ thr[j][a] = "idle"

\* A worker that is going to requeue has budget left.
RequeueHasBudget ==
    \A j \in Jobs, a \in Attempts : sup[j][a] = "requeue" => a <= MaxRetries

\* An owner that reports an approval has its own action staged.
ReportedApprovalStaged ==
    \A j \in Jobs, a \in Attempts :
        /\ Owns(j, a)
        /\ thr[j][a] = "approval" \/ sup[j][a] \in {"approval", "park"}
        => appr[j] = "staged" /\ author[j] = a

\* While a transaction is open its thread has executed a tool.
OpenTxnThread ==
    \A j \in Jobs, a \in Attempts :
        txn[j][a] # "none" =>
            /\ thr[j][a] \in {"call", "agent_failed", "retryable", "gone"}
            /\ txn[j][a] = "tool" => sup[j][a] \notin {"empty", "incapable"}

\* An owner that has executed nothing, or has decided to fail or requeue, faces
\* a marker only if some tool committed late.
UnseenMarkerIsLate ==
    \A j \in Jobs, a \in Attempts :
        /\ Owns(j, a) /\ marker[j]
        /\ \/ thr[j][a] \in {"start", "empty", "incapable"}
           \/ sup[j][a] \in {"empty", "incapable", "fail", "requeue"}
        => late[j]

IInv == /\ TypeOK
        /\ RetryBudget /\ ApprovalMatchesJob /\ PublishedByItsAttempt
        /\ OpenTxnOwnsJob /\ LeaseIffRunning /\ EffectReplayedOnlyIfLate
        /\ AbsentJobsBlank /\ FutureRunsIdle /\ RequeueHasBudget
        /\ ReportedApprovalStaged /\ OpenTxnThread /\ UnseenMarkerIsLate

-----------------------------------------------------------------------------
(* The client's view.                                                      *)

JobViewFault(j) == <<status[j], appr[j]>>

\* get_read_for_tenant and project_job_read: the approval is shown only when
\* its status goes with the job's.
JobView(j) ==
    <<status[j],
      IF \/ appr[j] = "pending" /\ status[j] = "awaiting_approval"
         \/ appr[j] \in {"approved", "rejected"} /\ status[j] = "succeeded"
         \/ appr[j] = "expired" /\ status[j] = "failed"
      THEN appr[j] ELSE "none">>

Contract == INSTANCE JobContract WITH view  <- [j \in Jobs |-> JobView(j)],
                                      tries <- attempt

\* ImplementsContract: every behaviour of workers, threads, crashes, recovery
\* and operators looks to a polling client like a behaviour of JobContract.
ImplementsContract == Contract!Spec

-----------------------------------------------------------------------------
(* A statement of the documentation that the code does not keep.           *)

\* NoEffectIsReplayed: a job whose side effect is committed never waits for
\* another automatic attempt.
NoEffectIsReplayed == \A j \in Jobs : status[j] = "queued" => ~marker[j]

-----------------------------------------------------------------------------
(* Liveness.                                                               *)

\* What the deployment guarantees to happen.  Time passes: delays, leases that
\* nobody renews, deadlines and approval windows run out.  Workers keep polling
\* and the server ends every transaction it was given (statement_timeout).  No
\* fairness is assumed of the model, the tools, the heartbeat or the operator,
\* and none against crashes or persistence errors.
Fairness ==
    /\ \A j \in Jobs : /\ WF_vars(DelayElapses(j)) /\ WF_vars(Claim(j))
                       /\ WF_vars(ApprovalFallsDue(j))
    /\ \A j \in Jobs, a \in Attempts :
          /\ WF_vars(Deadline(j, a) \/ Finish(j, a))
          /\ WF_vars(Inspect(j, a))
          /\ WF_vars(MarkTerminal(j, a) \/ Park(j, a) \/ ScheduleRetry(j, a)
                       \/ WriteRefused(j, a))
          /\ WF_vars(TxnCommit(j, a) \/ TxnAbort(j, a))
          /\ WF_vars(attempt[j] = a /\ sup[j][a] = "over" /\ LeaseExpires(j))
    /\ WF_vars(RecoverExpiredLeases) /\ WF_vars(ExpireDue)

FairSpec == Spec /\ Fairness

\* EveryJobEnds: an accepted job reaches a terminal status, whatever fails on
\* the way: a crashed worker's job is recovered, retries run out, and a parked
\* job that nobody decides expires.
EveryJobEnds ==
    \A j \in Jobs : status[j] # "absent" ~> status[j] \in Terminal
=============================================================================
