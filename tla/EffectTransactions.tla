------------------------- MODULE EffectTransactions -------------------------
(***************************************************************************)
(* The transactions that create cases and artifacts and that decide        *)
(* approvals, statement by statement, with the row locks they hold: the    *)
(* tool transactions of every attempt's agent thread (those of a lost      *)
(* attempt included), the request and the publication of an approval, the  *)
(* operators' decide requests with the approved action they execute, and   *)
(* the expiry sweep.                                                       *)
(*                                                                         *)
(* JobLifecycle makes decisions and worker writes atomic; here the locks   *)
(* that entitle it to do so are explicit.  Deciders and sweeps lock the    *)
(* approval row, then the job row, then the rows of the action; tools lock *)
(* the rows of the action first and the job row last; the worker locks the *)
(* job row and then the approval row.                                      *)
(*                                                                         *)
(* Writes are applied at commit.  That hides nothing: each is to a row     *)
(* whose lock the transaction holds until it ends.                         *)
(***************************************************************************)
EXTENDS Naturals

CONSTANTS Jobs,
          MaxAttempts,  \* worker_max_retries + 1
          Tools,        \* the registered actions that are exercised
          Requests,     \* calls of ApprovalDecisionService.decide
          Sweepers      \* workers that run expire_due

ArtifactTools == {"create_reply_draft", "flag_for_review"}
CaseTools     == {"create_case", "update_case_fields"}

Threads == Jobs \X (1 .. MaxAttempts)
Procs   == Threads \cup Requests \cup Sweepers

ASSUME EffectAssumption ==
    /\ MaxAttempts \in Nat
    /\ Tools \subseteq ArtifactTools \cup CaseTools \cup {"find_customer"}
    /\ Requests \cap Threads = {} /\ Sweepers \cap Threads = {}
    /\ Sweepers \cap Requests = {}

VARIABLES
    \* --- committed rows ------------------------------------------------------
    status, attempt, marker,  \* agent_jobs
    appr, act, due,           \* approvals: status, frozen action, expires_at <= now
    cases,                    \* cases created for the job's idempotency record
    arts,                     \* artifacts of the job, by kind
    \* --- transactions --------------------------------------------------------
    pc, held,                 \* where each process is, and the rows it has locked
    tool,                     \* the action it executes
    \* --- decide requests -----------------------------------------------------
    on, want, intime,         \* the job of the approval, the decision, now < expires_at
    saw,                      \* the job status its first statement read
    ans,                      \* what the operator was answered
    done                      \* history: how often an approved action was executed

rowVars == <<status, attempt, marker, appr, act, due, cases, arts>>
reqVars == <<on, want, intime, saw, ans>>
vars == <<status, attempt, marker, appr, act, due, cases, arts, pc, held, tool,
          on, want, intime, saw, ans, done>>

Terminal  == {"succeeded", "failed", "failed_uncertain"}
JobStatus == {"queued", "running", "awaiting_approval"} \cup Terminal
Decided   == {"approved", "rejected", "expired"}

\* Rows that are locked FOR UPDATE.  "key" is the share a foreign-key check
\* takes in the job row; the tenant's cases count as one row.
Rows == ({"approval", "job", "key", "create_case"} \cup ArtifactTools) \X Jobs
           \cup {<<"update_case_fields", "case">>}

PC == {"idle", "over",                          \* between transactions
       "effect", "insert", "key",               \* the rows of an action
       "fence", "fencing", "commit",            \* _mark_side_effect, COMMIT
       "ask", "stage", "staged", "park",        \* request and publication
       "find", "wait", "job", "both",           \* decide
       "sweep"}                                 \* expire_due

Answers == Decided \cup {"none", "too_late", "conflict", "not_found", "error"}

\* TypeOK: types of the rows, the locks and the processes, and the statuses that
\* the check constraints of the tables allow.
TypeOK ==
    /\ status  \in [Jobs -> JobStatus]
    /\ attempt \in [Jobs -> 0 .. MaxAttempts]
    /\ marker  \in [Jobs -> BOOLEAN]
    /\ appr    \in [Jobs -> {"none", "staged", "pending", "cancelled"} \cup Decided]
    /\ act     \in [Jobs -> Tools \cup {"none"}]
    /\ due     \in [Jobs -> BOOLEAN]
    /\ cases   \in [Jobs -> Nat]
    /\ arts    \in [Jobs -> [ArtifactTools -> Nat]]
    /\ pc      \in [Procs -> PC]
    /\ held    \in [Procs -> SUBSET Rows]
    /\ tool    \in [Procs -> Tools \cup {"none", "reused"}]
    /\ on      \in [Requests -> Jobs]
    /\ want    \in [Requests -> {"approve", "reject"}]
    /\ intime  \in [Requests -> BOOLEAN]
    /\ saw     \in [Requests -> JobStatus \cup {"none"}]
    /\ ans     \in [Requests -> Answers]
    /\ done    \in [Jobs -> Nat]

\* Freshly accepted jobs; which approval a request is for, and what it asks,
\* is fixed before it arrives.
Init ==
    /\ status  = [j \in Jobs |-> "queued"]
    /\ attempt = [j \in Jobs |-> 0]
    /\ marker  = [j \in Jobs |-> FALSE]
    /\ appr    = [j \in Jobs |-> "none"]
    /\ act     = [j \in Jobs |-> "none"]
    /\ due     = [j \in Jobs |-> FALSE]
    /\ cases   = [j \in Jobs |-> 0]
    /\ arts    = [j \in Jobs |-> [k \in ArtifactTools |-> 0]]
    /\ pc      = [p \in Procs |-> IF p \in Threads THEN "over" ELSE "idle"]
    /\ held    = [p \in Procs |-> {}]
    /\ tool    = [p \in Procs |-> "none"]
    /\ on      \in [Requests -> Jobs]
    /\ want    \in [Requests -> {"approve", "reject"}]
    /\ intime  = [r \in Requests |-> TRUE]
    /\ saw     = [r \in Requests |-> "none"]
    /\ ans     = [r \in Requests |-> "none"]
    /\ done    = [j \in Jobs |-> 0]

-----------------------------------------------------------------------------
(* Locks.  Definitions called "...Fault" are not part of the               *)
(* specification: each is the one after it with a plausible mistake.       *)

JobOf(p) == IF p \in Requests THEN on[p] ELSE p[1]

\* No other transaction has the row.
Free(p, row) == \A q \in Procs \ {p} : row \notin held[q]

\* FOR UPDATE of the job row waits for its holder and for foreign-key checks.
JobFree(p, j) == Free(p, <<"job", j>>) /\ Free(p, <<"key", j>>)

\* A short transaction of the worker, outside Procs, finds the job row free.
Unlocked(j) == \A q \in Procs : <<"job", j>> \notin held[q] /\ <<"key", j>> \notin held[q]

Lock(p, rows) == held' = [held EXCEPT ![p] = @ \cup rows]
Goto(p, l)    == pc' = [pc EXCEPT ![p] = l]

\* COMMIT or ROLLBACK.
Release(p) == /\ held' = [held EXCEPT ![p] = {}]
              /\ tool' = [tool EXCEPT ![p] = "none"]

\* The row an action serializes on: the job's idempotency record, the case, or
\* the unique index entry of the artifact.
ActionRow(p) == IF tool[p] = "update_case_fields" THEN <<tool[p], "case">>
                ELSE <<tool[p], JobOf(p)>>

Owns(t) == status[t[1]] = "running" /\ attempt[t[1]] = t[2]

-----------------------------------------------------------------------------
(* The worker's short transactions on the job row.                         *)

\* claim_next
Claim(j) ==
    LET t == <<j, attempt[j] + 1>> IN
    /\ status[j] = "queued" /\ attempt[j] < MaxAttempts /\ Unlocked(j)
    /\ status'  = [status EXCEPT ![j] = "running"]
    /\ attempt' = [attempt EXCEPT ![j] = @ + 1]
    /\ Goto(t, "idle")
    /\ UNCHANGED <<marker, appr, act, due, cases, arts, held, tool, reqVars, done>>

\* schedule_retry, recover_expired_leases and _mark_terminal, for any reason:
\* when each applies is JobLifecycle's subject.
EndAttempt(j, s) ==
    /\ status[j] = "running" /\ Unlocked(j)
    /\ s = "queued" => attempt[j] < MaxAttempts
    /\ status' = [status EXCEPT ![j] = s]
    /\ appr'   = [appr EXCEPT ![j] = IF @ = "staged" /\ s # "queued"
                                     THEN "cancelled" ELSE @]
    /\ UNCHANGED <<attempt, marker, act, due, cases, arts, pc, held, tool, reqVars, done>>

\* The approval's deadline passes.
FallsDue(j) ==
    /\ appr[j] \in {"staged", "pending"} /\ ~due[j]
    /\ due' = [due EXCEPT ![j] = TRUE]
    /\ UNCHANGED <<status, attempt, marker, appr, act, cases, arts, pc, held, tool,
                   reqVars, done>>

-----------------------------------------------------------------------------
(* The rows of an action, for a tool of a thread and for the approved      *)
(* action of a decide request alike.                                       *)

AfterRows(p) == IF p \in Threads THEN "fence" ELSE "commit"

ExistingFault(p) == tool[p] \in ArtifactTools /\ arts[JobOf(p)][tool[p]] > 0

\* The case or artifact is there already: idempotency.case_id is set, or the
\* select finds the row.
Existing(p) == \/ tool[p] = "create_case" /\ cases[JobOf(p)] > 0
               \/ tool[p] \in ArtifactTools /\ arts[JobOf(p)][tool[p]] > 0

\* An agent thread starts a tool with a side effect.  Its first cancellation
\* check has passed; the statements may follow at any later time.
BeginTool(t, k) ==
    /\ pc[t] = "idle" /\ k # "find_customer"
    /\ Goto(t, "effect")
    /\ tool' = [tool EXCEPT ![t] = k]
    /\ UNCHANGED <<rowVars, held, reqVars, done>>

\* _lock_idempotency or get_for_tenant_for_update; nothing to reuse.
LockActionRow(p) ==
    /\ pc[p] = "effect" /\ tool[p] \in CaseTools
    /\ Free(p, ActionRow(p)) /\ ~Existing(p)
    /\ Lock(p, {ActionRow(p)})
    /\ Goto(p, AfterRows(p))
    /\ UNCHANGED <<rowVars, tool, reqVars, done>>

\* create_case finds the job's case.  The tool returns it and commits at once,
\* without touching the job; an approved action goes on to mark the job.
ReuseCase(p) ==
    /\ pc[p] = "effect" /\ tool[p] = "create_case"
    /\ Free(p, ActionRow(p)) /\ Existing(p)
    /\ IF p \in Threads THEN Goto(p, "idle") /\ Release(p)
       ELSE /\ Goto(p, "commit") /\ Lock(p, {ActionRow(p)})
            /\ tool' = [tool EXCEPT ![p] = "reused"]
    /\ UNCHANGED <<rowVars, reqVars, done>>

\* create_for_job: the locking select finds the artifact.
ReuseArtifact(p) ==
    /\ pc[p] = "effect" /\ tool[p] \in ArtifactTools
    /\ Free(p, ActionRow(p)) /\ Existing(p)
    /\ tool' = [tool EXCEPT ![p] = "reused"]
    /\ Lock(p, {ActionRow(p)})
    /\ Goto(p, AfterRows(p))
    /\ UNCHANGED <<rowVars, reqVars, done>>

\* The select finds nothing: it does not see an insert in progress.
MissArtifact(p) ==
    /\ pc[p] = "effect" /\ tool[p] \in ArtifactTools /\ ~Existing(p)
    /\ Goto(p, "insert")
    /\ UNCHANGED <<rowVars, held, tool, reqVars, done>>

\* The insert enters the unique index, behind any other insert of the entry.
InsertArtifact(p) ==
    /\ pc[p] = "insert" /\ Free(p, ActionRow(p)) /\ ~Existing(p)
    /\ Lock(p, {ActionRow(p)})
    /\ Goto(p, "key")
    /\ UNCHANGED <<rowVars, tool, reqVars, done>>

\* IntegrityError: the savepoint is rolled back and the winner's row is read.
LoseArtifact(p) ==
    /\ pc[p] = "insert" /\ Free(p, ActionRow(p)) /\ Existing(p)
    /\ tool' = [tool EXCEPT ![p] = "reused"]
    /\ Goto(p, AfterRows(p))
    /\ UNCHANGED <<rowVars, held, reqVars, done>>

\* The foreign-key check of the insert takes a share of the job row.
CheckKey(p) ==
    /\ pc[p] = "key" /\ Free(p, <<"job", JobOf(p)>>)
    /\ Lock(p, {<<"key", JobOf(p)>>})
    /\ Goto(p, AfterRows(p))
    /\ UNCHANGED <<rowVars, tool, reqVars, done>>

MarksFault(k) == k = "create_case"

\* commits_side_effect of the registry.
Marks(k) == k # "find_customer"

\* What the commit of action k for job j makes durable.
Effects(j, k) ==
    /\ cases'  = [cases EXCEPT ![j] = IF k = "create_case" THEN @ + 1 ELSE @]
    /\ arts'   = [arts EXCEPT ![j] = [x \in ArtifactTools |->
                                        IF x = k THEN @[x] + 1 ELSE @[x]]]
    /\ marker' = [marker EXCEPT ![j] = @ \/ Marks(k)]

-----------------------------------------------------------------------------
(* The end of a tool transaction.                                          *)

\* The select finds the row and gets its lock, at once or after a wait.
PassFence(t) ==
    /\ pc[t] \in {"fence", "fencing"} /\ Owns(t) /\ JobFree(t, t[1])
    /\ Lock(t, {<<"job", t[1]>>})
    /\ Goto(t, "commit")
    /\ UNCHANGED <<rowVars, tool, reqVars, done>>

\* It finds the row locked and waits.  It will look at the predicate again
\* only when it has the row.
WaitAtFence(t) ==
    /\ pc[t] = "fence" /\ Owns(t) /\ ~JobFree(t, t[1])
    /\ Goto(t, "fencing")
    /\ UNCHANGED <<rowVars, held, tool, reqVars, done>>

\* The attempt no longer owns the job: RuntimeError, rollback, failed run.
FailFence(t) ==
    /\ ~Owns(t)
    /\ pc[t] = "fence" \/ (pc[t] = "fencing" /\ JobFree(t, t[1]))
    /\ Release(t) /\ Goto(t, "over")
    /\ UNCHANGED <<rowVars, reqVars, done>>

CommitTool(t) ==
    /\ pc[t] = "commit"
    /\ Effects(t[1], tool[t])
    /\ Release(t) /\ Goto(t, "idle")
    /\ UNCHANGED <<status, attempt, appr, act, due, reqVars, done>>

\* The case or the customer does not exist, cancellation, a lock or statement
\* timeout, a deadlock's victim, a lost connection: each ends the run.
AbortTool(t) ==
    /\ pc[t] \in {"effect", "insert", "key", "fence", "fencing", "commit"}
    /\ Release(t) /\ Goto(t, "over")
    /\ UNCHANGED <<rowVars, reqVars, done>>

-----------------------------------------------------------------------------
(* Request and publication of an approval.                                 *)

\* request_approval for action k.
Ask(t, k) ==
    /\ pc[t] = "idle"
    /\ Goto(t, "ask")
    /\ tool' = [tool EXCEPT ![t] = k]
    /\ UNCHANGED <<rowVars, held, reqVars, done>>

\* create_for_running_job locks the job row whatever its status, and then
\* tests it.
LockForStaging(t) ==
    /\ pc[t] = "ask" /\ JobFree(t, t[1]) /\ Owns(t)
    /\ Lock(t, {<<"job", t[1]>>}) /\ Goto(t, "stage")
    /\ UNCHANGED <<rowVars, tool, reqVars, done>>

\* The approval row is inserted, or locked and replaced.
Stage(t) ==
    LET j == t[1] IN
    /\ pc[t] = "stage" /\ Free(t, <<"approval", j>>) /\ appr[j] \in {"none", "staged"}
    /\ appr' = [appr EXCEPT ![j] = "staged"]
    /\ act'  = [act EXCEPT ![j] = tool[t]]
    /\ due'  = [due EXCEPT ![j] = FALSE]
    /\ Release(t) /\ Goto(t, "staged")
    /\ UNCHANGED <<status, attempt, marker, cases, arts, reqVars, done>>

\* record_awaiting_approval_result: the job row first,
LockForPark(t) ==
    /\ pc[t] = "staged" /\ JobFree(t, t[1]) /\ Owns(t)
    /\ Lock(t, {<<"job", t[1]>>}) /\ Goto(t, "park")
    /\ UNCHANGED <<rowVars, tool, reqVars, done>>

\* then the approval row; both change at commit.
Park(t) ==
    LET j == t[1] IN
    /\ pc[t] = "park" /\ Free(t, <<"approval", j>>) /\ appr[j] = "staged"
    /\ appr'   = [appr EXCEPT ![j] = "pending"]
    /\ status' = [status EXCEPT ![j] = "awaiting_approval"]
    /\ Release(t) /\ Goto(t, "over")
    /\ UNCHANGED <<attempt, marker, act, due, cases, arts, reqVars, done>>

\* ApprovalCreationConflict, JobLeaseLostError, a timeout or a crash.
AbortApproval(t) ==
    /\ pc[t] \in {"ask", "stage", "staged", "park"}
    /\ Release(t) /\ Goto(t, "over")
    /\ UNCHANGED <<rowVars, reqVars, done>>

-----------------------------------------------------------------------------
(* ApprovalDecisionService.decide.                                         *)

PublishedFault(a, s) == a \notin {"none", "cancelled"}

\* _published_lifecycle_predicate, for an approval of a job.
Published(a, s) == \/ a = "pending" /\ s = "awaiting_approval"
                   \/ a \in {"approved", "rejected"} /\ s = "succeeded"
                   \/ a = "expired" /\ s = "failed"

Answer(r, a) == ans' = [ans EXCEPT ![r] = a] /\ Goto(r, "over")

\* The request reads the clock, before anything else.
Arrive(r) ==
    /\ pc[r] = "idle" /\ appr[on[r]] # "none"
    /\ intime' = [intime EXCEPT ![r] = ~due[on[r]]]
    /\ Goto(r, "find")
    /\ UNCHANGED <<rowVars, held, tool, on, want, saw, ans, done>>

\* get_for_tenant_for_update reads both rows in one snapshot and locks the
\* approval: it gets the lock,
LockApproval(r) ==
    LET j == on[r] IN
    /\ pc[r] = "find" /\ Published(appr[j], status[j]) /\ Free(r, <<"approval", j>>)
    /\ saw' = [saw EXCEPT ![r] = status[j]]
    /\ Lock(r, {<<"approval", j>>}) /\ Goto(r, "job")
    /\ UNCHANGED <<rowVars, tool, on, want, intime, ans, done>>

\* or waits for its holder,
WaitForApproval(r) ==
    LET j == on[r] IN
    /\ pc[r] = "find" /\ Published(appr[j], status[j]) /\ ~Free(r, <<"approval", j>>)
    /\ saw' = [saw EXCEPT ![r] = status[j]]
    /\ Goto(r, "wait")
    /\ UNCHANGED <<rowVars, held, tool, on, want, intime, ans, done>>

\* or finds nothing.
NotFound(r) ==
    LET j == on[r] IN
    /\ pc[r] = "find" /\ ~Published(appr[j], status[j])
    /\ Answer(r, "not_found")
    /\ UNCHANGED <<rowVars, held, tool, on, want, intime, saw, done>>

\* After a wait READ COMMITTED evaluates the predicate again, on the new
\* version of the locked approval row and the old one of the joined job row.
RecheckApproval(r) ==
    LET j == on[r] IN
    /\ pc[r] = "wait" /\ Free(r, <<"approval", j>>)
    /\ IF Published(appr[j], saw[r])
       THEN Lock(r, {<<"approval", j>>}) /\ Goto(r, "job") /\ UNCHANGED ans
       ELSE Answer(r, "not_found") /\ UNCHANGED held
    /\ UNCHANGED <<rowVars, tool, on, want, intime, saw, done>>

\* get_job_for_update
LockJob(r) ==
    /\ pc[r] = "job" /\ JobFree(r, on[r])
    /\ Lock(r, {<<"job", on[r]>>}) /\ Goto(r, "both")
    /\ UNCHANGED <<rowVars, tool, reqVars, done>>

\* _is_same_final_decision
SameDecision(r) == (want[r] = "approve") <=> (appr[on[r]] = "approved")

\* The approval is decided: the stored outcome again, or a conflict.
AnswerDecided(r) ==
    LET a == appr[on[r]] IN
    /\ pc[r] = "both" /\ a \in Decided
    /\ Answer(r, IF SameDecision(r) THEN a ELSE "conflict")
    /\ Release(r)
    /\ UNCHANGED <<rowVars, on, want, intime, saw, done>>

FinalizeFault2(j, a) ==
    /\ appr'   = [appr EXCEPT ![j] = a]
    /\ status' = IF a = "expired" THEN status ELSE [status EXCEPT ![j] = "succeeded"]

\* finalize_job_for_decision
Finalize(j, a) ==
    /\ appr'   = [appr EXCEPT ![j] = a]
    /\ status' = [status EXCEPT ![j] = IF a = "expired" THEN "failed" ELSE "succeeded"]

ExpireNowFault(r) ==
    /\ pc[r] = "both" /\ appr[on[r]] = "pending" /\ ~intime[r]
    /\ IF want[r] = "reject" THEN Finalize(on[r], "expired") /\ Answer(r, "expired")
       ELSE UNCHANGED <<appr, status>> /\ Answer(r, "too_late")
    /\ Release(r)
    /\ UNCHANGED <<attempt, marker, act, due, cases, arts, on, want, intime, saw, done>>

\* The deadline had passed when the request arrived: the expiry is committed
\* before an approve is answered with the conflict.
ExpireNow(r) ==
    LET j == on[r] IN
    /\ pc[r] = "both" /\ appr[j] = "pending" /\ ~intime[r]
    /\ Finalize(j, "expired")
    /\ Answer(r, IF want[r] = "reject" THEN "expired" ELSE "too_late")
    /\ Release(r)
    /\ UNCHANGED <<attempt, marker, act, due, cases, arts, on, want, intime,
                   saw, done>>

Reject(r) ==
    LET j == on[r] IN
    /\ pc[r] = "both" /\ appr[j] = "pending" /\ intime[r] /\ want[r] = "reject"
    /\ Finalize(j, "rejected")
    /\ Answer(r, "rejected") /\ Release(r)
    /\ UNCHANGED <<attempt, marker, act, due, cases, arts, on, want, intime,
                   saw, done>>

\* The frozen action is valid and still authorized: PostgresApprovalActionExecutor
\* starts it in the same transaction.
Approve(r) ==
    LET j == on[r] IN
    /\ pc[r] = "both" /\ appr[j] = "pending" /\ intime[r] /\ want[r] = "approve"
    /\ status[j] = "awaiting_approval"
    /\ tool' = [tool EXCEPT ![r] = act[j]]
    /\ Goto(r, IF act[j] = "find_customer" THEN "commit" ELSE "effect")
    /\ UNCHANGED <<rowVars, held, reqVars, done>>

CommitApproved(r) ==
    LET j == on[r] IN
    /\ pc[r] = "commit"
    /\ Effects(j, tool[r])
    /\ Finalize(j, "approved")
    /\ done' = [done EXCEPT ![j] = @ + 1]
    /\ Answer(r, "approved") /\ Release(r)
    /\ UNCHANGED <<attempt, act, due, on, want, intime, saw>>

\* The profile or the action is no longer valid (a conflict, found with both rows
\* locked), the case or customer is gone, or a statement fails: everything is
\* rolled back.
FailRequest(r, a) ==
    /\ pc[r] \in {"find", "wait", "job", "both", "effect", "insert", "key", "commit"}
    /\ a = "conflict" => pc[r] = "both"
    /\ Answer(r, a) /\ Release(r)
    /\ UNCHANGED <<rowVars, on, want, intime, saw, done>>

-----------------------------------------------------------------------------
(* expire_due.                                                             *)

DueRow(s, j) == /\ appr[j] = "pending" /\ status[j] = "awaiting_approval" /\ due[j]
                /\ Free(s, <<"approval", j>>)

\* One select locks every due approval that nobody has locked.
SelectDue(s) ==
    LET batch == {j \in Jobs : DueRow(s, j)} IN
    /\ pc[s] = "idle" /\ batch # {}
    /\ Lock(s, {<<"approval", j>> : j \in batch}) /\ Goto(s, "sweep")
    /\ UNCHANGED <<rowVars, tool, reqVars, done>>

\* The jobs follow one by one.
SweepLocksJob(s, j) ==
    /\ pc[s] = "sweep" /\ <<"approval", j>> \in held[s] /\ <<"job", j>> \notin held[s]
    /\ JobFree(s, j)
    /\ Lock(s, {<<"job", j>>})
    /\ UNCHANGED <<rowVars, pc, tool, reqVars, done>>

CommitSweep(s) ==
    LET batch == {j \in Jobs : <<"approval", j>> \in held[s]} IN
    /\ pc[s] = "sweep" /\ \A j \in batch : <<"job", j>> \in held[s]
    /\ appr'   = [j \in Jobs |-> IF j \in batch THEN "expired" ELSE appr[j]]
    /\ status' = [j \in Jobs |-> IF j \in batch THEN "failed" ELSE status[j]]
    /\ Release(s) /\ Goto(s, "idle")
    /\ UNCHANGED <<attempt, marker, act, due, cases, arts, reqVars, done>>

AbortSweep(s) ==
    /\ pc[s] = "sweep"
    /\ Release(s) /\ Goto(s, "idle")
    /\ UNCHANGED <<rowVars, reqVars, done>>

-----------------------------------------------------------------------------
JobStep(j) == \/ Claim(j) \/ FallsDue(j)
              \/ \E s \in Terminal \cup {"queued"} : EndAttempt(j, s)

ActionStep(p) ==
    \/ LockActionRow(p) \/ ReuseCase(p) \/ ReuseArtifact(p) \/ MissArtifact(p)
    \/ InsertArtifact(p) \/ LoseArtifact(p) \/ CheckKey(p)

ThreadStep(t) ==
    \/ \E k \in Tools : BeginTool(t, k) \/ Ask(t, k)
    \/ PassFence(t) \/ WaitAtFence(t) \/ FailFence(t) \/ CommitTool(t) \/ AbortTool(t)
    \/ LockForStaging(t) \/ Stage(t) \/ LockForPark(t) \/ Park(t) \/ AbortApproval(t)

RequestStep(r) ==
    \/ Arrive(r) \/ LockApproval(r) \/ WaitForApproval(r) \/ NotFound(r)
    \/ RecheckApproval(r) \/ LockJob(r) \/ AnswerDecided(r) \/ ExpireNow(r)
    \/ Reject(r) \/ Approve(r) \/ CommitApproved(r)
    \/ \E a \in {"conflict", "error"} : FailRequest(r, a)

SweepStep(s) == \/ SelectDue(s) \/ CommitSweep(s) \/ AbortSweep(s)
                \/ \E j \in Jobs : SweepLocksJob(s, j)

Next ==
    \/ \E j \in Jobs : JobStep(j)
    \/ \E p \in Threads \cup Requests : ActionStep(p)
    \/ \E t \in Threads : ThreadStep(t)
    \/ \E r \in Requests : RequestStep(r)
    \/ \E s \in Sweepers : SweepStep(s)

Spec == Init /\ [][Next]_vars

-----------------------------------------------------------------------------
(* Properties.                                                             *)

\* EffectsOnce: however often tools are retried by later attempts, raced by the
\* thread of a lost attempt or repeated by an approved action, a job has at most
\* one case and one artifact of a kind, and an approved action was executed
\* exactly once.
EffectsOnce ==
    \A j \in Jobs :
        /\ cases[j] <= 1 /\ \A k \in ArtifactTools : arts[j][k] <= 1
        /\ done[j] = IF appr[j] = "approved" THEN 1 ELSE 0

\* EffectIsMarked: a case or artifact of a job is never durable without the
\* job's side-effect marker, which is what stops an automatic replay.
EffectIsMarked ==
    \A j \in Jobs :
        cases[j] > 0 \/ (\E k \in ArtifactTools : arts[j][k] > 0) => marker[j]

\* EffectsOnceAndMarked: the effects of a job, whichever of tool and approved
\* action makes them, happen once and not without the job's marker.
EffectsOnceAndMarked == EffectsOnce /\ EffectIsMarked

\* AnswersHold: what an operator is told is durable and is an answer to what was
\* asked; in particular the expiry reported to a late approve is committed, and
\* racing requests that are both answered agree.
AnswersHold ==
    \A r \in Requests :
        /\ ans[r] \in Decided => appr[on[r]] = ans[r]
        /\ ans[r] = "too_late" => appr[on[r]] = "expired"
        /\ ans[r] = "approved" => want[r] = "approve"
        /\ ans[r] \in {"rejected", "expired"} => want[r] = "reject"

\* RowsAgree: no interleaving of statements publishes an approval without
\* parking its job, or decides one without finishing the job.
RowsAgree ==
    \A j \in Jobs :
        /\ appr[j] = "pending" <=> status[j] = "awaiting_approval"
        /\ appr[j] \in Decided => Published(appr[j], status[j])
        /\ appr[j] = "staged" => status[j] \in {"queued", "running"}

\* The rows whose lock p may be waiting for.
Wanted(p) ==
    CASE \/ pc[p] = "insert"
         \/ pc[p] = "effect" /\ (tool[p] \in CaseTools \/ Existing(p)) -> {ActionRow(p)}
      [] pc[p] = "key" -> {<<"job", JobOf(p)>>}
      [] pc[p] \in {"fencing", "ask", "staged", "job"} ->
             {<<"job", JobOf(p)>>, <<"key", JobOf(p)>>}
      [] pc[p] \in {"stage", "park", "wait"} -> {<<"approval", JobOf(p)>>}
      [] pc[p] = "sweep" ->
             {row \in Rows : /\ row[1] \in {"job", "key"}
                             /\ <<"approval", row[2]>> \in held[p]
                             /\ <<"job", row[2]>> \notin held[p]}
      [] OTHER -> {}

\* p waits for a lock that q holds.
WaitsFor(p, q) == q # p /\ Wanted(p) \cap held[q] # {}

\* The agent thread of an attempt that has lost the job.
Lost(p) == p \in Threads /\ ~Owns(p)

\* DeadlockNeedsLostAttempt: although the worker, the deciders and the tools lock
\* the same rows in three different orders, they never wait for each other in a
\* circle, unless the thread of an attempt that has lost the job takes part.
DeadlockNeedsLostAttempt ==
    \A S \in SUBSET Procs :
        S # {} /\ (\A p \in S : \E q \in S : WaitsFor(p, q)) => \E p \in S : Lost(p)

-----------------------------------------------------------------------------
(* The inductive invariant: the safety properties, what the locks exclude, *)
(* and what each transaction knows by the locks it holds.                  *)

\* Only foreign-key shares are held together.
LocksExclude ==
    \A p, q \in Procs : p # q =>
        /\ \A row \in held[p] \cap held[q] : row[1] = "key"
        /\ \A j \in Jobs : <<"job", j>> \in held[p] => <<"key", j>> \notin held[q]

\* A transaction about to create something has the row it serializes on, and
\* nothing is there yet.
Creates(p) ==
    /\ tool[p] = "create_case" =>
          <<"create_case", JobOf(p)>> \in held[p] /\ cases[JobOf(p)] = 0
    /\ tool[p] \in ArtifactTools =>
          <<tool[p], JobOf(p)>> \in held[p] /\ arts[JobOf(p)][tool[p]] = 0

\* A thread's transaction locks rows of its own job and the case; with the job
\* row it owns the job.  A thread that has not been started does nothing.
ThreadKnows(t) ==
    LET j == t[1] IN
    /\ t[2] > attempt[j] => pc[t] = "over"
    /\ pc[t] \notin {"find", "wait", "job", "both", "sweep"}
    /\ \A row \in held[t] : /\ row[1] # "approval"
                            /\ row[2] = j \/ row = <<"update_case_fields", "case">>
    /\ pc[t] \in {"idle", "over", "ask", "staged", "effect", "insert"} => held[t] = {}
    /\ pc[t] \in {"stage", "park", "commit"} => <<"job", j>> \in held[t]
    /\ <<"job", j>> \in held[t] => Owns(t)
    /\ <<"update_case_fields", "case">> \in held[t] =>
          pc[t] \in {"fence", "fencing", "commit"}
    /\ pc[t] \in {"key", "fence", "fencing", "commit"} => Creates(t)
    /\ pc[t] \in {"ask", "stage"} => tool[t] \in Tools
    /\ pc[t] = "insert" => tool[t] \in ArtifactTools

\* A request locks the approval first, then the job; past the lookup the
\* approval is pending or decided, and an action starts only if it is pending.
RequestKnows(r) ==
    LET j == on[r] IN
    /\ pc[r] \in {"idle", "over", "find", "wait", "job", "both", "effect", "insert",
                  "key", "commit"}
    /\ \A row \in held[r] : row[2] = j \/ row = <<"update_case_fields", "case">>
    /\ pc[r] \in {"idle", "over", "find", "wait"} => held[r] = {}
    /\ pc[r] \notin {"idle", "over", "find", "wait"} =>
          <<"approval", j>> \in held[r] /\ appr[j] \in Decided \cup {"pending"}
    /\ pc[r] \in {"both", "effect", "insert", "key", "commit"} =>
          <<"job", j>> \in held[r]
    /\ pc[r] \in {"effect", "insert", "key", "commit"} =>
          appr[j] = "pending" /\ want[r] = "approve"
    /\ <<"update_case_fields", "case">> \in held[r] => pc[r] = "commit"
    /\ pc[r] \in {"key", "commit"} => Creates(r)
    /\ pc[r] = "insert" => tool[r] \in ArtifactTools
    /\ pc[r] # "over" => ans[r] = "none"

\* A sweep holds pending approvals, and only their jobs.
SweepKnows(s) ==
    /\ pc[s] \in {"idle", "sweep"}
    /\ pc[s] = "idle" => held[s] = {}
    /\ \A row \in held[s] : row[1] \in {"approval", "job"}
    /\ \A j \in Jobs : /\ <<"approval", j>> \in held[s] => appr[j] = "pending"
                       /\ <<"job", j>> \in held[s] => <<"approval", j>> \in held[s]

IInv == /\ TypeOK /\ LocksExclude
        /\ \A t \in Threads : ThreadKnows(t)
        /\ \A r \in Requests : RequestKnows(r)
        /\ \A s \in Sweepers : SweepKnows(s)
        /\ RowsAgree /\ EffectsOnce /\ EffectIsMarked /\ AnswersHold
=============================================================================
