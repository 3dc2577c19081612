---------------------------- MODULE ProviderRun ----------------------------
(***************************************************************************)
(* One claimed job between the claim and its last event.  A thread builds  *)
(* the runtime (deterministic preflight first), talks to the model through *)
(* OpenAICompatibleLLMClient and runs the tools the model asks for.  On    *)
(* the event loop _run_claimed_with_lease waits for the thread, for the    *)
(* lease and for the deadline, and serve_once turns what it gets into a    *)
(* job status and one event.  Neither of the two waits for the other for   *)
(* ever: a thread whose worker gave up goes on until it looks at the       *)
(* cancellation event.  What the policy and the tools decide is AgentLoop, *)
(* what the tool transactions do EffectTransactions, and the queue around  *)
(* it JobLifecycle; here they are choices.                                 *)
(***************************************************************************)
EXTENDS Naturals, Sequences

CONSTANTS Calls,     \* the tool calls the model may propose
          MaxSteps   \* AgentLoop.max_steps

ASSUME ProviderRunAssumption == MaxSteps \in Nat \ {0} /\ "none" \notin Calls

VARIABLES
    job,        \* what was persisted with the job, fixed for the run
    row,        \* the job's row: "running" until it is settled or taken
    marked,     \* side_effect_committed_at is set
    pc,         \* where the agent's thread is
    messages,   \* AgentLoop.run's transcript
    steps,      \* its completed provider calls
    index,      \* call_index of the attempt in progress
    client,     \* the run's httpx.Client
    result,     \* what the thread returned, or the error it raised
    cancelled,  \* the cancellation event
    worker,     \* where serve_once is
    verdict,    \* what serve_once has to persist
    uncertain,  \* what _has_side_effect read
    events,     \* history: how often each event was emitted
    finished,   \* history: the outcome of the WORKER_JOB_FINISHED event
    posts,      \* history: requests posted to the provider in this step
    answer,     \* history: how the last of them ended
    late        \* history: requests posted after the cancellation

thread == <<pc, messages, steps, index, client, result>>
loop   == <<cancelled, worker, verdict, uncertain, finished>>
vars   == <<job, row, marked, thread, loop, events, posts, answer, late>>
-----------------------------------------------------------------------------
(* What the parts are.                                                     *)

\* The document of the source snapshot as preflight_document sees it: whether
\* the compiled profile binds its kind, normalizer and media type, whether its
\* target intake type exists, and whether its text could not be extracted.
Documents == [present : {TRUE}, bound : BOOLEAN, intake : BOOLEAN, error : BOOLEAN]
NoDocument == [present |-> FALSE, bound |-> FALSE, intake |-> FALSE, error |-> FALSE]

\* profile: resolve_persisted_profile succeeds, finds a capability missing, or
\* cannot use the snapshot; risk: the persisted risk signals are well formed;
\* lastTry: attempt_count exceeds max_retries.
Jobs == [profile : {"ok", "no_capability", "unusable"},
         document : Documents \cup {NoDocument},
         risk : BOOLEAN, lastTry : BOOLEAN]

Roles    == {"system", "user", "assistant", "tool"}
Messages == [role : Roles, call : Calls \cup {"none"}]
Message(role, c) == [role |-> role, call |-> c]

Preflights == {"document_unreadable", "capability_unavailable", "snapshot_incompatible"}
Outcomes   == {"completed", "approval_requested", "agent_failed", "tool_execution_failed"}
Errors     == {"provider_unavailable", "gateway_timeout", "provider_request_rejected",
               "worker_error"}
Results    == Preflights \cup Outcomes \cup Errors

\* RetryableJobError
Retryable == {"provider_unavailable", "gateway_timeout", "worker_timeout"}

\* The httpx errors a chat completion request can raise.  protocol_error is a
\* RequestError that is no NetworkError.
Failures == {"timeout", "network_error", "protocol_error", "http_transient",
             "http_rejected"}

\* How a request ends: with a usable proposal, with content the proposal schema
\* rejects, with an error, or with a status above 599, which the field
\* status_code of an event cannot hold.
Answers == Failures \cup {"proposal", "invalid", "http_unnameable"}

Events == {"profile", "preflight", "provider_call", "structured_failed", "step",
           "run_finished", "claimed", "started", "retry_scheduled", "job_finished",
           "persistence_failed"}

\* The statuses that end an attempt.
Settled == {"queued", "succeeded", "awaiting_approval", "failed", "failed_uncertain"}

\* TypeOK: types of the variables of a run and of the worker that waits for it.
TypeOK ==
    /\ job \in Jobs
    /\ row \in {"running", "taken"} \cup Settled
    /\ marked \in BOOLEAN
    /\ pc \in {"build", "complete", "posted", "proposed", "tool", "done"}
    /\ messages \in Seq(Messages)
    /\ steps \in 0 .. MaxSteps
    /\ index \in {1, 2}
    /\ client \in {"none", "open", "closed"}
    /\ result \in Results \cup {"none"}
    /\ cancelled \in BOOLEAN
    /\ worker \in {"waiting", "stopping", "inspect", "persist", "report",
                  "over", "aborted"}
    /\ verdict \in Results \cup {"none", "worker_timeout", "lease_lost", "shutdown"}
    /\ uncertain \in BOOLEAN
    /\ events \in [Events -> Nat]
    /\ finished \in {"none", "retry_scheduled", "succeeded", "needs_approval",
                     "failed", "failed_uncertain", "lease_lost", "persistence_error"}
    /\ posts \in 0 .. 2
    /\ answer \in Answers \cup {"none"}
    /\ late \in Nat

\* serve_once has claimed the job and emitted its first two events.
Init ==
    /\ job \in Jobs
    /\ row = "running" /\ marked = FALSE
    /\ pc = "build" /\ messages = <<>> /\ steps = 0 /\ index = 1
    /\ client = "none" /\ result = "none"
    /\ cancelled = FALSE /\ worker = "waiting" /\ verdict = "none"
    /\ uncertain = FALSE /\ finished = "none"
    /\ events = [e \in Events |-> IF e \in {"claimed", "started"} THEN 1 ELSE 0]
    /\ posts = 0 /\ answer = "none" /\ late = 0

-----------------------------------------------------------------------------
(* Definitions called "...Fault" are the same decision with a mistake.     *)

\* safe_emit, once for each of the events es.
Emit(es) == events' = [e \in Events |-> events[e] + (IF e \in es THEN 1 ELSE 0)]

PreflightFault(j) ==
    IF ~j.document.present THEN "continue"
    ELSE IF ~j.document.bound THEN "snapshot_incompatible"
    ELSE IF ~j.document.intake THEN "capability_unavailable"
    ELSE "continue"

\* preflight_document
Preflight(j) ==
    IF ~j.document.present THEN "continue"
    ELSE IF ~j.document.bound THEN "snapshot_incompatible"
    ELSE IF ~j.document.intake THEN "capability_unavailable"
    ELSE IF j.document.error THEN "document_unreadable"
    ELSE "continue"

\* What build makes of the job: the profile first, then the document, then the
\* risk signals.
BuildResult(j) ==
    CASE j.profile = "no_capability" -> "capability_unavailable"
      [] j.profile = "unusable" -> "snapshot_incompatible"
      [] j.profile = "ok" /\ Preflight(j) # "continue" -> Preflight(j)
      [] j.profile = "ok" /\ Preflight(j) = "continue" /\ ~j.risk -> "snapshot_incompatible"
      [] OTHER -> "continue"

\* initial_messages: the rule about source data, the skills (one message for all
\* generic ones, one more for a readable document), the catalog, the source.
InitialMessages(j) ==
    LET system == Message("system", "none") IN
    <<system, system>> \o (IF j.document.present THEN <<system>> ELSE <<>>)
        \o <<system, Message("user", "none")>>

\* The messages of an attempt: complete adds the validator's feedback to the
\* second one only, and to its own copy.
Outgoing == IF index = 1 THEN messages ELSE Append(messages, Message("user", "none"))

\* _provider_messages raises no error: a tool message answers the assistant's
\* call directly before it, and nothing else follows such a call.
Accepts(ms) ==
    /\ \A n \in 1 .. Len(ms) - 1 :
          ms[n].role = "assistant" /\ ms[n].call # "none" => ms[n + 1].role = "tool"
    /\ \A n \in 1 .. Len(ms) :
          ms[n].role = "tool" =>
             /\ n > 1 /\ ms[n - 1].role = "assistant"
             /\ ms[n].call # "none" /\ ms[n].call = ms[n - 1].call

\* _run_claimed_job's classification of what leaves the loop.
Classify(f) ==
    IF f \in {"timeout", "network_error", "http_transient"} THEN "provider_unavailable"
    ELSE IF f = "http_rejected" THEN "provider_request_rejected" ELSE "worker_error"

\* The last message proposes the same call as the two proposals before it.
ThirdRepeat ==
    LET n == Len(messages) IN
    n > 4 /\ \A k \in {2, 4} : messages[n - k] = messages[n]

LeaveFault(r) ==
    /\ pc' = "done" /\ result' = r
    /\ client' = IF r \in Errors THEN client ELSE "closed"

\* The thread ends with r; _run_claimed_job closes the client on every way out.
Leave(r) == pc' = "done" /\ result' = r /\ client' = "closed"

-----------------------------------------------------------------------------
(* The agent's thread.                                                     *)

\* build ends in a terminal preflight result, before anything is constructed.
BuildTerminal ==
    /\ pc = "build" /\ BuildResult(job) # "continue"
    /\ pc' = "done" /\ result' = BuildResult(job)
    /\ Emit({"profile", "preflight"})
    /\ UNCHANGED <<job, row, marked, messages, steps, index, client, loop, posts, answer, late>>

\* build constructs the executor, the client and the loop.
BuildReady ==
    /\ pc = "build" /\ BuildResult(job) = "continue"
    /\ pc' = "complete" /\ client' = "open"
    /\ messages' = InitialMessages(job)
    /\ Emit({"profile", "preflight"})
    /\ UNCHANGED <<job, row, marked, steps, index, result, loop, posts, answer, late>>

\* _complete_once posts the request.
Post ==
    /\ pc = "complete" /\ steps < MaxSteps /\ Accepts(Outgoing)
    /\ pc' = "posted"
    /\ posts' = posts + 1
    /\ late' = IF cancelled THEN late + 1 ELSE late
    /\ UNCHANGED <<job, row, marked, messages, steps, index, client, result, loop, events, answer>>

\* A usable proposal: the loop counts the step and appends the message.
Proposal(c) ==
    /\ pc = "posted"
    /\ pc' = "proposed" /\ steps' = steps + 1 /\ index' = 1 /\ posts' = 0
    /\ answer' = "proposal"
    /\ messages' = Append(messages, Message("assistant", c))
    /\ Emit({"provider_call"})
    /\ UNCHANGED <<job, row, marked, client, result, loop, late>>

\* An attempt can raise a validation error: its answer is in, or _provider_messages
\* refuses to send the conversation.
AttemptRaises ==
    \/ pc = "posted"
    \/ pc = "complete" /\ steps < MaxSteps /\ ~Accepts(Outgoing)

RepairFault(es) ==
    /\ \/ /\ index = 1 /\ index' = 2 /\ pc' = "complete"
          /\ messages' = Append(messages, Message("user", "none"))
          /\ UNCHANGED <<client, result>>
          /\ Emit(es)
       \/ /\ index = 2 /\ UNCHANGED <<index, messages>>
          /\ Leave("worker_error")
          /\ Emit(es \cup {"structured_failed", "run_finished"})
    /\ UNCHANGED <<job, row, marked, steps, loop, posts, late>>

\* complete after an attempt that raised a validation error: one more attempt
\* with feedback, then StructuredProposalValidationError.
Repair(es) ==
    /\ \/ /\ index = 1 /\ index' = 2 /\ pc' = "complete"
          /\ UNCHANGED <<client, result>>
          /\ Emit(es)
       \/ /\ index = 2 /\ UNCHANGED index
          /\ Leave("worker_error")
          /\ Emit(es \cup {"structured_failed", "run_finished"})
    /\ UNCHANGED <<job, row, marked, messages, steps, loop, posts, late>>

Invalid == AttemptRaises /\ answer' = "invalid" /\ Repair({"provider_call"})

\* _emit_call cannot build its event for such a status: the ValidationError takes
\* the place of the HTTPStatusError, and complete takes it for an invalid answer.
UnnameableStatus == pc = "posted" /\ answer' = "http_unnameable" /\ Repair({})

RequestFailsFault(f) ==
    /\ pc = "posted" /\ answer' = f
    /\ \/ Leave(Classify(f)) /\ UNCHANGED index /\ Emit({"provider_call", "run_finished"})
       \/ /\ f = "timeout" /\ pc' = "complete" /\ Emit({"provider_call"})
          /\ UNCHANGED <<index, client, result>>
    /\ UNCHANGED <<job, row, marked, messages, steps, loop, posts, late>>

\* The request raises an httpx error: no further attempt in this run.
RequestFails(f) ==
    /\ pc = "posted" /\ answer' = f
    /\ Leave(Classify(f))
    /\ Emit({"provider_call", "run_finished"})
    /\ UNCHANGED <<job, row, marked, messages, steps, index, loop, posts, late>>

LastCall == messages[Len(messages)].call

\* evaluate_terminal and execute find the run cancelled and raise.
SeesCancellation ==
    /\ pc = "proposed" /\ cancelled
    /\ LastCall = "none" \/ ~ThirdRepeat
    /\ Leave("worker_error")
    /\ IF LastCall = "none" THEN UNCHANGED events ELSE Emit({"step"})
    /\ UNCHANGED <<job, row, marked, messages, steps, index, loop, posts, answer, late>>

\* The proposal closes the run.
Close ==
    /\ pc = "proposed" /\ ~cancelled /\ LastCall = "none"
    /\ Leave("completed")
    /\ Emit({"step", "run_finished"})
    /\ UNCHANGED <<job, row, marked, messages, steps, index, loop, posts, answer, late>>

\* REPEATED_TOOL
Repeated ==
    /\ pc = "proposed" /\ LastCall # "none" /\ ThirdRepeat
    /\ Leave("agent_failed")
    /\ Emit({"step", "run_finished"})
    /\ UNCHANGED <<job, row, marked, messages, steps, index, loop, posts, answer, late>>

StartToolFault ==
    /\ pc = "proposed" /\ LastCall # "none" /\ ~ThirdRepeat
    /\ pc' = "tool"
    /\ Emit({"step"})
    /\ UNCHANGED <<job, row, marked, messages, steps, index, client, result, loop, posts, answer, late>>

\* The executor has looked at the cancellation event and goes on.
StartTool ==
    /\ pc = "proposed" /\ ~cancelled /\ LastCall # "none" /\ ~ThirdRepeat
    /\ pc' = "tool"
    /\ Emit({"step"})
    /\ UNCHANGED <<job, row, marked, messages, steps, index, client, result, loop, posts, answer, late>>

\* A tool transaction commits with the marker; it locks the row and needs it
\* still running for this attempt (EffectTransactions).
ToolEffect == marked' \in {marked, marked \/ row = "running"}

\* The tool ran and the loop goes on with its message.
ToolContinues ==
    /\ pc = "tool" /\ pc' = "complete"
    /\ messages' = Append(messages, Message("tool", LastCall))
    /\ ToolEffect
    /\ UNCHANGED <<job, row, steps, index, client, result, loop, events, posts, answer, late>>

\* The tool, or the policy in its place, ends the run: completed, waiting for
\* approval, or failed, since every exception of a handler is caught.
ToolStops ==
    /\ pc = "tool"
    /\ messages' = Append(messages, Message("tool", LastCall))
    /\ \/ \E r \in {"completed", "tool_execution_failed"} : Leave(r) /\ ToolEffect
       \/ row = "running" /\ Leave("approval_requested") /\ UNCHANGED marked
    /\ Emit({"run_finished"})
    /\ UNCHANGED <<job, row, steps, index, loop, posts, answer, late>>

\* request_approval raises: its gateway call timed out, or the port refused.
ApprovalRaises ==
    /\ pc = "tool"
    /\ \E r \in {"gateway_timeout", "worker_error"} : Leave(r)
    /\ UNCHANGED <<job, row, marked, messages, steps, index, loop, events, posts, answer, late>>

\* MAX_STEPS
Exhausted ==
    /\ pc = "complete" /\ steps = MaxSteps
    /\ Leave("agent_failed")
    /\ Emit({"run_finished"})
    /\ UNCHANGED <<job, row, marked, messages, steps, index, loop, posts, answer, late>>

-----------------------------------------------------------------------------
(* serve_once and _run_claimed_with_lease.                                 *)

\* Another worker recovers the job because its lease has expired.
Taken ==
    /\ row = "running"
    /\ row' = "taken"
    /\ UNCHANGED <<job, marked, thread, loop, events, posts, answer, late>>

\* _maintain_lease gives up: the renewal found the job taken, or failed.
HeartbeatFails ==
    /\ verdict' = "lease_lost"
    /\ Emit({}) \/ Emit({"persistence_failed"})

\* The run task is done: the heartbeat is asked once more, then the result is
\* taken.  The finally clause sets the cancellation event.
RunReturns ==
    /\ worker = "waiting" /\ pc = "done"
    /\ cancelled' = TRUE /\ worker' = "inspect"
    /\ HeartbeatFails \/ (verdict' = result /\ Emit({}))
    /\ UNCHANGED <<job, row, marked, thread, uncertain, finished, posts, answer, late>>

\* The heartbeat could not renew the lease, the deadline passed, or cancel_tasks
\* cancels serve_once while it waits: the run is told to stop.
Interrupt ==
    /\ worker = "waiting"
    /\ cancelled' = TRUE /\ worker' = "stopping"
    /\ \/ HeartbeatFails
       \/ verdict' \in {"worker_timeout", "shutdown"} /\ Emit({})
    /\ UNCHANGED <<job, row, marked, thread, uncertain, finished, posts, answer, late>>

StopWaitingFault ==
    /\ worker = "stopping" /\ worker' = "inspect"
    /\ verdict' = IF pc = "done" /\ verdict # "shutdown" THEN result ELSE verdict
    /\ UNCHANGED <<job, row, marked, thread, cancelled, uncertain, events, finished,
                   posts, answer, late>>

\* _await_run_shutdown: the thread ends in time, the grace period passes, or the
\* wait is cancelled, which is caught there.  Either way the verdict stays what
\* interrupted the run.
StopWaiting ==
    /\ worker = "stopping" /\ worker' = "inspect"
    /\ UNCHANGED <<job, row, marked, thread, cancelled, verdict, uncertain, events,
                   finished, posts, answer, late>>

\* Verdicts that make serve_once ask for the side effect marker.
Inspected == Errors \cup {"worker_timeout", "agent_failed", "tool_execution_failed"}

\* _has_side_effect; a row that is no longer this attempt's raises.
Inspect ==
    /\ worker = "inspect" /\ verdict \in Inspected /\ row = "running"
    /\ worker' = "persist" /\ uncertain' = marked
    /\ UNCHANGED <<job, row, marked, thread, cancelled, verdict, events, finished,
                   posts, answer, late>>

\* The verdict needs no such read.
SkipInspect ==
    /\ worker = "inspect"
    /\ verdict \in Preflights \cup {"completed", "approval_requested"}
    /\ worker' = "persist"
    /\ UNCHANGED <<job, row, marked, thread, cancelled, verdict, uncertain, events,
                   finished, posts, answer, late>>

\* The status the verdict is persisted as.
Status ==
    CASE verdict \in {"document_unreadable", "completed"} -> "succeeded"
      [] verdict = "approval_requested" -> "awaiting_approval"
      [] verdict \in Inspected /\ uncertain -> "failed_uncertain"
      [] verdict \in Retryable /\ ~uncertain /\ ~job.lastTry -> "queued"
      [] OTHER -> "failed"

\* The outcome of the event that reports it.
OutcomeOf(s) == CASE s = "queued" -> "retry_scheduled"
                  [] s = "awaiting_approval" -> "needs_approval"
                  [] OTHER -> s

Finish(outcome, es) ==
    /\ worker' = "over" /\ finished' = outcome
    /\ Emit({"job_finished"} \cup es)
    /\ UNCHANGED <<job, marked, thread, cancelled, verdict, uncertain, posts, answer, late>>

\* The status is committed, for this attempt of a running job.
Commit ==
    /\ worker = "persist" /\ row = "running"
    /\ row' = Status /\ worker' = "report"
    /\ UNCHANGED <<job, marked, thread, cancelled, verdict, uncertain, events, finished,
                   posts, answer, late>>

\* The call that committed returns, and its outcome is reported.
Report ==
    /\ worker = "report"
    /\ UNCHANGED row
    /\ Finish(OutcomeOf(Status), IF Status = "queued" THEN {"retry_scheduled"} ELSE {})

PersistFailsFault ==
    /\ worker \in {"inspect", "persist", "report"} /\ verdict \notin {"lease_lost", "shutdown"}
    /\ worker' = "over" /\ finished' = "persistence_error"
    /\ Emit({"persistence_failed"})
    /\ UNCHANGED <<job, row, marked, thread, cancelled, verdict, uncertain, posts, answer, late>>

\* The database fails: the event says so and the exception leaves serve_once.  A
\* commit may have succeeded although its acknowledgement, or the closing of the
\* session, raised.
PersistFails ==
    /\ UNCHANGED row
    /\ \/ /\ worker = "inspect" /\ verdict \in Inspected
          /\ Finish("persistence_error", {})
       \/ /\ worker \in {"persist", "report"}
          /\ Finish("persistence_error", {"persistence_failed"})
       \/ worker = "report" /\ Finish("persistence_error", {})

\* JobLeaseLostError, from the heartbeat or from a write that finds the job
\* taken.
LeaseLost ==
    /\ \/ worker = "inspect" /\ verdict = "lease_lost"
       \/ worker = "inspect" /\ verdict \in Inspected /\ row = "taken"
       \/ worker = "persist" /\ row = "taken"
    /\ UNCHANGED row
    /\ Finish("lease_lost", {})

\* CancelledError is no Exception: it leaves serve_once without an event.
Aborts ==
    /\ worker' = "aborted"
    /\ UNCHANGED <<job, row, marked, thread, cancelled, verdict, uncertain, events,
                   finished, posts, answer, late>>

\* The cancellation of the wait is raised again; the lease will expire.
ShutDown == worker = "inspect" /\ verdict = "shutdown" /\ Aborts

CancelFault ==
    /\ \/ worker = "inspect" /\ verdict \in Inspected
       \/ worker \in {"persist", "report"}
    /\ UNCHANGED row
    /\ Finish("lease_lost", {})

\* cancel_tasks cancels serve_once in _has_side_effect or in a persisting call,
\* before its commit or after it.
Cancel ==
    /\ \/ worker = "inspect" /\ verdict \in Inspected
       \/ worker \in {"persist", "report"}
    /\ Aborts

-----------------------------------------------------------------------------
ThreadNext ==
    \/ BuildTerminal \/ BuildReady \/ Post
    \/ \E c \in Calls \cup {"none"} : Proposal(c)
    \/ Invalid \/ UnnameableStatus
    \/ \E f \in Failures : RequestFails(f)
    \/ SeesCancellation \/ Close \/ Repeated \/ StartTool
    \/ ToolContinues \/ ToolStops \/ ApprovalRaises \/ Exhausted

WorkerNext ==
    \/ RunReturns \/ Interrupt \/ StopWaiting \/ Inspect \/ SkipInspect
    \/ Commit \/ Report \/ PersistFails \/ LeaseLost \/ ShutDown \/ Cancel

Next == ThreadNext \/ WorkerNext \/ Taken

Spec == Init /\ [][Next]_vars

\* The provider client has a timeout of 30 seconds and every gateway call one of
\* its own, so the thread is never blocked for good; the event loop runs, and
\* the job's deadline and the grace period pass.
FairSpec == Spec /\ WF_vars(ThreadNext) /\ WF_vars(WorkerNext)

-----------------------------------------------------------------------------
(* Properties.                                                             *)

\* QuietPreflight: a job whose profile, document or risk signals do not admit a
\* run never opens a client, posts a request or starts a tool, and what is
\* persisted of it is the preflight's own verdict: succeeded, to be routed to a
\* person, for an unreadable document, and failed otherwise, unless the run was
\* interrupted before the verdict was in.
QuietPreflight ==
    job.profile # "ok" \/ ~job.risk \/ (job.document.present /\
        (~job.document.bound \/ ~job.document.intake \/ job.document.error)) =>
    /\ client = "none" /\ events["provider_call"] = 0 /\ ~marked
    /\ (row = "succeeded" => job.document.error)
    /\ (row = "failed" => verdict = "worker_timeout" \/ BuildResult(job) # "document_unreadable")
    /\ row # "awaiting_approval"

\* OneRepair: a step costs at most two requests, the second only after an answer
\* taken for invalid, and a run at most two for each step.
OneRepair ==
    /\ pc = "posted" => posts = index
    /\ index = 2 /\ pc # "done" => answer \in {"invalid", "http_unnameable"}
    /\ events["provider_call"] <= 2 * MaxSteps

\* ConversationIsSound: the transcript the loop builds is always one the adapter
\* can send, so that no attempt is lost to a conversation of the program's own
\* making, and the feedback of a repaired answer never stays in it.
ConversationIsSound ==
    /\ pc = "complete" => Accepts(Outgoing)
    /\ \A n \in DOMAIN messages : messages[n].role = "user" =>
          \A m \in 1 .. n - 1 : messages[m].role = "system"

\* RequestsAreSound: the requests of a run: none without an admissible job, at most
\* two for a step, and each with a conversation that the adapter accepts.
RequestsAreSound == QuietPreflight /\ OneRepair /\ ConversationIsSound

\* AbandonedRunIsHarmless: once the run was told to stop, its thread posts at most
\* the two requests of one more step, because that step's proposal is not acted
\* upon: nothing checks the cancellation between two requests.
AbandonedRunIsHarmless == late <= 2

\* OneJobEvent: serve_once reports a claimed job once, unless it is cancelled.
\* The row is committed before it is reported and either can be cut off from the
\* other, so that a settled row may go unreported after a cancellation, or be
\* reported as a persistence error; but an outcome that is reported was committed,
\* a lost lease has settled nothing, and a retry is announced exactly when one was
\* scheduled and reported (and the variables have their types).
OneJobEvent ==
    /\ TypeOK
    /\ events["job_finished"] = (IF worker = "over" THEN 1 ELSE 0)
    /\ events["retry_scheduled"] = (IF finished = "retry_scheduled" THEN 1 ELSE 0)
    /\ finished # "none" <=> worker = "over"
    /\ finished \notin {"none", "lease_lost", "persistence_error"} =>
           row \in Settled /\ finished = OutcomeOf(row)
    /\ row \in Settled => \/ worker \in {"report", "aborted"}
                         \/ finished \in {OutcomeOf(row), "persistence_error"}

\* InterruptDecides: a run that was interrupted by its deadline is retried or
\* failed for the timeout and never takes on the result of the thread that was
\* left behind; one that lost its lease writes nothing.
InterruptDecides ==
    [][/\ (verdict \in {"worker_timeout", "lease_lost", "shutdown"} => verdict' = verdict)
       /\ (verdict \in {"lease_lost", "shutdown"} /\ row = "running" => row' \in {"running", "taken"})
       /\ (verdict = "worker_timeout" /\ row = "running" =>
              row' \in {"running", "taken", "queued", "failed", "failed_uncertain"})]_vars

\* RunIsOver: the worker comes to an end, and so does the thread it may have left
\* behind, with its client closed.
RunIsOver == <>[](worker \in {"over", "aborted"} /\ pc = "done" /\ client # "open")
-----------------------------------------------------------------------------
(* The inductive invariant behind the safety properties, in parts.         *)

\* A job that build refuses leaves no trace of a run but the refusal.
Admitted ==
    /\ pc = "build" => client = "none" /\ ~marked /\ events["provider_call"] = 0
    /\ pc = "done" => result # "none"
    /\ BuildResult(job) # "continue" =>
          /\ pc \in {"build", "done"} /\ client = "none" /\ ~marked
          /\ events["provider_call"] = 0
          /\ pc = "done" => result = BuildResult(job)

\* The requests of the step in progress are those call_index counts, and each
\* earlier step has had two at most.
Attempt ==
    /\ pc = "complete" => posts = index - 1
    /\ pc = "posted" => posts = index /\ steps < MaxSteps
    /\ pc \in {"build", "proposed", "tool"} => posts = 0 /\ index = 1
    /\ pc = "complete" /\ index = 2 => steps < MaxSteps
    /\ index = 2 /\ pc # "done" => answer \in {"invalid", "http_unnameable"}
    /\ pc # "done" => events["provider_call"] <= 2 * steps + index - 1
    /\ pc = "done" => events["provider_call"] <= 2 * MaxSteps

\* The transcript can be sent at any time; only while a proposal is acted upon
\* does it end with a call that has no answer yet.
Open(m) == m.role = "assistant" /\ m.call # "none"

Transcript ==
    /\ Accepts(messages)
    /\ \A n \in DOMAIN messages : messages[n].role = "user" =>
          \A m \in 1 .. n - 1 : messages[m].role = "system"
    /\ pc \in {"complete", "posted"} =>
          messages # <<>> /\ ~Open(messages[Len(messages)])
    /\ pc \in {"proposed", "tool"} =>
          messages # <<>> /\ messages[Len(messages)].role = "assistant"
    /\ pc = "tool" => LastCall # "none"

\* A tool is started by a run that was not told to stop, so late requests all
\* belong to one step.
LateStep ==
    /\ ~cancelled \/ pc \in {"build", "tool"} => late = 0
    /\ pc \in {"complete", "posted"} => late <= posts
    /\ late <= 2

\* What serve_once knows at each point, and what it has persisted.
Reported ==
    /\ worker = "waiting" => ~cancelled /\ verdict = "none"
    /\ worker = "stopping" => verdict \in {"worker_timeout", "lease_lost", "shutdown"}
    /\ worker \notin {"waiting", "stopping"} => verdict # "none"
    /\ worker \in {"persist", "report"} => verdict \notin {"lease_lost", "shutdown"}
    /\ verdict \in Results => pc = "done" /\ verdict = result
    /\ worker = "report" => row \in Settled
    /\ row \in Settled => verdict \notin {"lease_lost", "shutdown"} /\ row = Status

IInv == OneJobEvent /\ Admitted /\ Attempt /\ Transcript /\ LateStep /\ Reported
=============================================================================
