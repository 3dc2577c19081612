-------------------------- MODULE WorkerSupervisor --------------------------
(***************************************************************************)
(* AgentWorker.serve: one worker process keeps up to worker_concurrency    *)
(* serve_once tasks, reserves the tenant of every job they claim, reaps    *)
(* finished tasks, and on a persistence error cancels all of them and      *)
(* backs off.  An action is what happens between two awaits.  Of a run it  *)
(* keeps only when it ends; JobLifecycle has the rest.                     *)
(***************************************************************************)
EXTENDS Naturals, FiniteSets

CONSTANTS Slots,      \* as many as worker_concurrency
          Jobs, Tenants, TenantOf,
          Attempts,   \* worker_max_retries + 1
          MaxBackoff, \* doublings until worker_persistence_backoff_max_seconds
          MaxFaults   \* bound: task failures, shutdowns and crashes

ASSUME SupervisorAssumption ==
    /\ Slots # {} /\ IsFiniteSet(Slots)
    /\ TenantOf \in [Jobs -> Tenants]
    /\ Attempts \in Nat \ {0} /\ MaxBackoff \in Nat /\ MaxFaults \in Nat

VARIABLES
    pc,        \* where serve awaits
    exiting,   \* cancel_tasks was entered to leave serve
    backoff,   \* doublings of the delay so far
    active,    \* active_tenants
    cur,       \* the task of the filling loop
    excluded,  \* the snapshot of active_tenants given to cur
    st,        \* each task of the set tasks, "none" for a free slot
    job,       \* the job a task has claimed, as a set
    holder,    \* task_holders
    row,       \* agent_jobs
    faults     \* bound on faults, counted

proc == <<pc, exiting, backoff, active, cur, excluded, st, job, holder>>
vars == <<proc, row, faults>>
-----------------------------------------------------------------------------
Alive   == {"start", "poll", "claimed", "run"}
Failed  == {"error", "fatal"}
Done    == {"worked", "idle", "cancelled"} \cup Failed
Places  == {"fill", "polling", "wait", "pause", "cancel", "backoff", "down"}
RowStatus == {"absent", "delayed", "queued", "running", "off"}

\* TypeOK: types of the slots, the reservations and the rows.
TypeOK ==
    /\ pc \in Places /\ exiting \in BOOLEAN
    /\ backoff \in 0 .. MaxBackoff
    /\ active \subseteq Tenants /\ excluded \subseteq Tenants
    /\ cur \in Slots
    /\ st \in [Slots -> Alive \cup Done \cup {"none"}]
    /\ job \in [Slots -> SUBSET Jobs]
    /\ holder \in [Slots -> SUBSET Tenants]
    /\ row \in [Jobs -> [status : RowStatus, att : 0 .. Attempts, due : BOOLEAN]]
    /\ faults \in 0 .. MaxFaults

Tasks     == {t \in Slots : st[t] # "none"}
Finished  == {t \in Slots : st[t] \in Done}
Reserved  == UNION {holder[t] : t \in Slots}

Init ==
    /\ pc = "fill" /\ exiting = FALSE /\ backoff = 0
    /\ active = {} /\ excluded = {} /\ cur \in Slots
    /\ st = [t \in Slots |-> "none"]
    /\ job = [t \in Slots |-> {}] /\ holder = [t \in Slots |-> {}]
    /\ row = [j \in Jobs |-> [status |-> "absent", att |-> 0, due |-> FALSE]]
    /\ faults = 0
-----------------------------------------------------------------------------
(* The rows.  A job that reached a final status or waits for an operator   *)
(* is "off"; one whose available_at is in the future is "delayed".         *)

Arrive(j) ==
    /\ row[j].status = "absent"
    /\ row' = [row EXCEPT ![j].status = "queued"]
    /\ UNCHANGED <<proc, faults>>

DelayElapses(j) ==
    /\ row[j].status = "delayed"
    /\ row' = [row EXCEPT ![j].status = "queued"]
    /\ UNCHANGED <<proc, faults>>

LeaseExpires(j) ==
    /\ row[j].status = "running" /\ ~row[j].due
    /\ row' = [row EXCEPT ![j].due = TRUE]
    /\ UNCHANGED <<proc, faults>>

\* What a row may be after its attempt: off, or delayed while attempts remain.
After(r) == {[r EXCEPT !.status = s, !.due = FALSE] :
                s \in {"off"} \cup IF r.att < Attempts THEN {"delayed"} ELSE {}}

-----------------------------------------------------------------------------
(* A task: serve_once.                                                     *)

\* recover_expired_leases
Recover(t) ==
    /\ st[t] = "start"
    /\ st' = [st EXCEPT ![t] = "poll"]
    /\ row' \in {f \in [Jobs -> UNION {After(row[j]) \cup {row[j]} : j \in Jobs}] :
                   \A j \in Jobs : f[j] \in IF row[j].due THEN After(row[j])
                                             ELSE {row[j]}}
    /\ UNCHANGED <<pc, exiting, backoff, active, cur, excluded, job, holder, faults>>

ClaimableFault == {j \in Jobs : row[j].status = "queued"}

\* The jobs claim_next may select.
Claimable == {j \in Jobs : row[j].status = "queued" /\ TenantOf[j] \notin excluded}

\* claim_next commits.
Claim(t) ==
    /\ st[t] = "poll"
    /\ \E j \in Claimable :
          /\ row' = [row EXCEPT ![j].status = "running", ![j].att = @ + 1]
          /\ job' = [job EXCEPT ![t] = {j}]
    /\ st' = [st EXCEPT ![t] = "claimed"]
    /\ UNCHANGED <<pc, exiting, backoff, active, cur, excluded, holder, faults>>

\* claim_next returns None and serve_once False.
ClaimNothing(t) ==
    /\ st[t] = "poll" /\ Claimable = {}
    /\ st' = [st EXCEPT ![t] = "idle"]
    /\ UNCHANGED <<pc, exiting, backoff, active, cur, excluded, job, holder, row, faults>>

\* The session is closed and on_claim reserves the tenant.
Reserve(t) ==
    LET ids == {TenantOf[j] : j \in job[t]} IN
    /\ st[t] = "claimed"
    /\ st' = [st EXCEPT ![t] = "run"]
    /\ active' = active \cup ids
    /\ holder' = [holder EXCEPT ![t] = @ \cup ids]
    /\ UNCHANGED <<pc, exiting, backoff, cur, excluded, job, row, faults>>

\* serve_once returns True: the outcome is persisted, or the lease was lost and
\* nothing is written.
EndRun(t) ==
    /\ st[t] = "run"
    /\ st' = [st EXCEPT ![t] = "worked"]
    /\ \E j \in job[t] :
          IF row[j].status = "running"
          THEN \E r \in After(row[j]) : row' = [row EXCEPT ![j] = r]
          ELSE UNCHANGED row
    /\ UNCHANGED <<pc, exiting, backoff, active, cur, excluded, job, holder, faults>>

\* serve_once raises: a persistence error, or anything else.
FailTask(t) ==
    /\ st[t] \in Alive /\ faults < MaxFaults
    /\ \E e \in Failed : st' = [st EXCEPT ![t] = e]
    /\ faults' = faults + 1
    /\ UNCHANGED <<pc, exiting, backoff, active, cur, excluded, job, holder, row>>
-----------------------------------------------------------------------------
(* The supervisor: serve.                                                  *)

FreedFault(T) ==
    /\ st'     = [t \in Slots |-> IF t \in T THEN "none" ELSE st[t]]
    /\ job'    = [t \in Slots |-> IF t \in T THEN {} ELSE job[t]]
    /\ holder' = [t \in Slots |-> IF t \in T THEN {} ELSE holder[t]]
    /\ active' = active

\* Tasks T leave the set and their reservations are discarded.
Freed(T) ==
    /\ st'     = [t \in Slots |-> IF t \in T THEN "none" ELSE st[t]]
    /\ job'    = [t \in Slots |-> IF t \in T THEN {} ELSE job[t]]
    /\ holder' = [t \in Slots |-> IF t \in T THEN {} ELSE holder[t]]
    /\ active' = active \ UNION {holder[t] : t \in T}

\* The filling loop starts a task with the tenants reserved so far excluded.
Spawn(t) ==
    /\ pc = "fill" /\ st[t] = "none"
    /\ pc' = "polling" /\ cur' = t /\ excluded' = active
    /\ st' = [st EXCEPT ![t] = "start"]
    /\ UNCHANGED <<exiting, backoff, active, job, holder, row, faults>>

\* All slots are taken.
Full ==
    /\ pc = "fill" /\ Tasks = Slots
    /\ pc' = "wait"
    /\ UNCHANGED <<exiting, backoff, active, cur, excluded, st, job, holder, row, faults>>

\* claimed_signal is set: on to the next slot.
Signalled ==
    /\ pc = "polling" /\ st[cur] = "run"
    /\ pc' = "fill"
    /\ UNCHANGED <<exiting, backoff, active, cur, excluded, st, job, holder, row, faults>>

\* The new task is done already: after a failure or without work the loop is
\* left, otherwise the slot is filled again.
Returned ==
    /\ pc = "polling" /\ st[cur] \in Done
    /\ Freed({cur})
    /\ pc' = IF st[cur] \in Failed THEN "cancel"
             ELSE IF st[cur] = "worked" THEN "fill"
             ELSE IF Tasks = {cur} THEN "pause" ELSE "wait"
    /\ exiting' = (st[cur] = "fatal")
    /\ UNCHANGED <<backoff, cur, excluded, row, faults>>

\* No work at all: sleep(poll_interval), then "continue", which skips the
\* reset of the backoff.
Pause ==
    /\ pc = "pause"
    /\ pc' = "fill"
    /\ UNCHANGED <<exiting, backoff, active, cur, excluded, st, job, holder, row, faults>>

\* asyncio.wait returns and every finished task is reaped.
Reap ==
    /\ pc = "wait" /\ Finished # {}
    /\ \A t \in Finished : st[t] \notin Failed
    /\ Freed(Finished)
    /\ pc' = "fill" /\ backoff' = 0
    /\ UNCHANGED <<exiting, cur, excluded, row, faults>>

\* One of the finished tasks has failed: its exception leaves the loop, with
\* the tasks looked at before it reaped.
ReapFailed ==
    /\ pc = "wait"
    /\ \E t \in Finished, T \in SUBSET Finished :
          /\ st[t] \in Failed /\ \A u \in T : st[u] \notin Failed
          /\ Freed(T \cup {t})
          /\ exiting' = (st[t] = "fatal")
    /\ pc' = "cancel"
    /\ UNCHANGED <<backoff, cur, excluded, row, faults>>

\* serve itself is cancelled while it awaits.
Shutdown ==
    /\ pc \in {"polling", "wait", "pause"} /\ faults < MaxFaults
    /\ pc' = "cancel" /\ exiting' = TRUE /\ faults' = faults + 1
    /\ UNCHANGED <<backoff, active, cur, excluded, st, job, holder, row>>

\* A cancelled task ends where it is.  Until then it may still end by itself:
\* _await_run_shutdown even swallows a cancellation.
CancelTask(t) ==
    /\ pc = "cancel" /\ st[t] \in Alive
    /\ st' = [st EXCEPT ![t] = "cancelled"]
    /\ UNCHANGED <<pc, exiting, backoff, active, cur, excluded, job, holder, row, faults>>

\* asyncio.gather returns.
Gathered == \A t \in Slots : st[t] \notin Alive

\* cancel_tasks ends: serve backs off or leaves.
Cancelled ==
    /\ pc = "cancel" /\ Gathered
    /\ Freed(Slots)
    /\ pc' = IF exiting THEN "down" ELSE "backoff"
    /\ exiting' = FALSE
    /\ UNCHANGED <<backoff, cur, excluded, row, faults>>

BackoffStep == backoff' = IF backoff < MaxBackoff THEN backoff + 1 ELSE backoff

BackedOff ==
    /\ pc = "backoff" /\ BackoffStep
    /\ pc' = "fill"
    /\ UNCHANGED <<exiting, active, cur, excluded, st, job, holder, row, faults>>

\* The locals of serve are gone with the process.
Fresh ==
    /\ exiting' = FALSE /\ backoff' = 0 /\ active' = {} /\ excluded' = {}
    /\ st' = [t \in Slots |-> "none"]
    /\ job' = [t \in Slots |-> {}] /\ holder' = [t \in Slots |-> {}]

\* The process dies with all its tasks; what they committed stays.
Crash ==
    /\ pc # "down" /\ faults < MaxFaults
    /\ pc' = "down" /\ Fresh /\ faults' = faults + 1
    /\ UNCHANGED <<cur, row>>

\* The container is restarted (restart: unless-stopped).
Restart ==
    /\ pc = "down"
    /\ pc' = "fill" /\ Fresh
    /\ UNCHANGED <<cur, row, faults>>
-----------------------------------------------------------------------------
Task(t) == \/ Recover(t) \/ Claim(t) \/ ClaimNothing(t) \/ Reserve(t)
           \/ EndRun(t) \/ CancelTask(t)

Serve == \/ \E t \in Slots : Spawn(t)
         \/ Full \/ Signalled \/ Returned \/ Pause \/ Reap \/ ReapFailed
         \/ Cancelled \/ BackedOff \/ Restart

Next ==
    \/ \E j \in Jobs : Arrive(j) \/ DelayElapses(j) \/ LeaseExpires(j)
    \/ \E t \in Slots : Task(t) \/ FailTask(t)
    \/ Serve \/ Shutdown \/ Crash

Spec == Init /\ [][Next]_vars

\* The event loop runs every ready task; a run ends by its deadline; the lease
\* of a job no task holds any more expires; delays are finite.
FairSpec ==
    /\ Spec /\ WF_vars(Serve)
    /\ \A t \in Slots : WF_vars(Task(t))
    /\ \A j \in Jobs : /\ WF_vars(DelayElapses(j))
                       /\ WF_vars(LeaseExpires(j) /\ \A t \in Slots : j \notin job[t])
-----------------------------------------------------------------------------
(* Properties.                                                             *)

\* OneSlotPerTenant: no two tasks of the process work for the same tenant,
\* although a claim is committed before its tenant is reserved, other tasks end
\* meanwhile, and the claim excludes a snapshot of the reservations.
OneSlotPerTenant ==
    \A t, u \in Slots : \A i \in job[t], j \in job[u] :
        t # u /\ st[t] \in Alive /\ st[u] \in Alive => TenantOf[i] # TenantOf[j]

\* NoLostReservation: a tenant is reserved exactly as long as a task that is not
\* reaped holds it, so an error path can neither lock a tenant out for good nor
\* free one that is still being worked for.
NoLostReservation ==
    /\ active = Reserved
    /\ \A t \in Slots : st[t] = "run" => holder[t] = {TenantOf[j] : j \in job[t]}

\* TenantsReserved: serve works for a tenant in one task at a time, and reserves it
\* for exactly as long, on every error path.
TenantsReserved == OneSlotPerTenant /\ NoLostReservation

\* What the two rest on.  A task that has not reserved yet is the one the filling
\* loop waits for, and its snapshot is still exact; no tenant is reserved twice.
Snapshot ==
    /\ \A t \in Slots : st[t] \in {"start", "poll", "claimed"} =>
          /\ t = cur /\ pc \in {"polling", "cancel"}
          /\ holder[t] = {} /\ excluded = active
    /\ \A t \in Slots : st[t] = "claimed" =>
          \A j \in job[t] : TenantOf[j] \notin excluded
    /\ \A t \in Slots : st[t] \in {"none", "start", "poll"} =>
          job[t] = {} /\ holder[t] = {}
    /\ \A t, u \in Slots : t # u => holder[t] \cap holder[u] = {}

IInv == TypeOK /\ OneSlotPerTenant /\ NoLostReservation /\ Snapshot

\* JobsServed: every job that arrives is brought to a final status or to an
\* operator, although errors cancel the runs of all slots.
JobsServed == \A j \in Jobs : row[j].status = "queued" ~> row[j].status = "off"
=============================================================================
