# A TLA+ verification of Integra Intake

Integra Intake accepts customer messages over HTTP, queues each one as a job in
PostgreSQL, and lets a worker run a language-model agent over it.  The agent's
proposals go through a tenant policy; an action is executed, denied, or parked
until an operator decides.  This directory models the parts of `src/app` that
keep state or take decisions, checks them with TLC on small instances, and
proves the most important results with TLAPS for every value of the constants.

## 1. Inventory

| Component (source under `src/app`) | State | Operations | Correct when |
|---|---|---|---|
| Job queue and leases (`domain/job_repository.py`) | `agent_jobs`: status, attempt_count, available_at, lease, side-effect marker | create, claim, renew, recover, retry, terminal marks, park | attempts are bounded, a lost lease fences every write, finished is final, no job is stuck |
| Worker run (`workers/agent_worker.py`, `serve_once`) | heartbeat, deadline, agent thread, outcome | claim, run, inspect the marker, persist | a committed side effect is not repeated; any failure leaves a recoverable row |
| Worker supervisor (`serve`) | tasks, reserved tenants, backoff | fill, reap, cancel, back off | one slot per tenant, no leaked reservation, every job served |
| Gateway and tool transactions (`runtime/gateway.py`, `tools/postgres.py`) | an open transaction on the job row | lock with fence, commit, abort, time out | what can still commit belongs to the current attempt |
| Approvals (`domain/approval_repository.py`, `domain/approvals.py`) | `approvals`: status, expires_at | stage, publish, decide, expire, cancel | job and approval rows agree; the operator decides what this attempt asked for |
| Approval review (`domain/approvals.py`, `tenants/field_values.py`, `api/approvals.py`) | frozen fields and arguments of the pending action | validate, freeze, list, review, decide, sweep, emit | what is executed was offered; what was frozen is accepted again |
| Job reads (`domain/jobs.py`, `api/jobs.py`) | none | read in three statements, project | a client never sees a decision without its status, or a result without what it made |
| Intake and idempotency (`domain/intake.py`, `api/intake.py`) | `idempotency_records`, jobs | probe, parse, look up, insert, re-read | one job per key, faithful retries get it back, everyone is answered |
| HTTP boundary (`api/body_limit.py`, `auth/`, `observability/middleware.py`, `api/inbound.py`, `inbound/`) | keys and tenants, the bytes buffered, the trace of a request | limit, authenticate, verify the signature, validate, enqueue, answer | every job is entitled, bodies stay bounded, every request is completed and traced once |
| Agent loop and executor (`agent/loop.py`, `tools/executor.py`) | steps, last call, execution path | propose, gate, execute, request approval, close | it ends, it does not repeat itself, and the worker reads its result rightly |
| Policy and routing (`policy/engine.py`, `tenants/routing.py`) | none | evaluate | more risk never permits more |
| Preflight, factory, provider (`runtime/`, `providers/`) | an HTTP client, the conversation, the events of a run | check, build, call, repair, classify, close | an inadmissible job touches nothing; one repair per step; its errors map to the right outcome |
| Documents (`documents/`, `runtime/legacy_profiles.py`) | a normalizer thread, the stored snapshot | bind, read pages, time out, store, decode | the model sees the whole text or none, and a queued job stays readable |
| Cases and artifacts (`domain/service.py`, `domain/artifact_repository.py`) | `cases`, `artifacts` | create, update | one artifact of a kind per job |
| Live smoke command (`scripts/live_provider_smoke.py`) | what it was told so far | submit, deliver again, poll, judge, report | PASS is earned, failures keep the evidence |
| Evals, migrations, other scripts | offline | | out of scope, see section 7 |

How they interact.  The API inserts a job and its idempotency record in one
transaction and never talks to a worker: the two meet only in the tables.  A
worker process runs `serve`, which keeps several `serve_once` tasks; each claims
one job and starts an agent thread, a heartbeat and a deadline.  The thread
calls back into the event loop through the gateway for every database access,
and the caller may stop waiting while the server still commits.  Operators
decide through the API, again only on the rows.  The smoke command is one more
client: it posts, polls, and compares what it reads with what it asked for.

What is hard: the worker can stop waiting for a thread or a transaction it
cannot stop; a lease can be renewed, recovered and reclaimed around it; the
marker is read in one transaction and acted on in another; two tables have to
agree although different actors write them; requests race for one key; an error
in one slot cancels the runs of all; and the model may propose anything,
including texts the server uses as control values.  Rows also outlive the code:
what one release froze, another reads, with the profile it carries and not with
the one on disk.  And a row is committed in one await and reported after it, with
a cancellation possible at either.  `PROJECT.json` lists these hazards at their
lines, each with the properties aimed at it, or why there are none.

## 2. Modules

| Module | Models | Composition |
|---|---|---|
| `JobLifecycle` | rows of a job, the run, thread and transaction of each attempt, recovery, decision, expiry | implements `JobContract` |
| `JobContract` | what a polling client may rely on | abstract specification |
| `IntakeIdempotency` | any number of concurrent requests through `_enqueue` and `enqueue_document` | |
| `Policy` | `evaluate`, `evaluate_terminal`, `route` as operators | extended by `AgentLoop` |
| `AgentLoop` | one run of the agent and what the worker makes of its result | justifies the outcomes a thread of `JobLifecycle` may have |
| `WorkerSupervisor` | `serve` in one process: slots, reservations, cancellation, backoff | a run is reduced to its end; `JobLifecycle` has the detail |
| `EffectTransactions` | statements and row locks of tool, approval, decide and expiry transactions; case and artifact rows | justifies the atomic `Decide`, `ExpireDue` and tool commits of `JobLifecycle` |
| `ApprovalReview` | freezing, reviewing and deciding a proposal across deployments, the sweep, the events | a decision is one step; `EffectTransactions` has its locks |
| `HttpBoundary` | a POST request from its first byte to its completion event, on both routes | the hand-over is one step; `IntakeIdempotency` has its transactions |
| `ProviderRun` | `build`, the agent thread's calls to the provider, and the worker that waits for it, with every event | details the run of `JobLifecycle` on the provider's side; the policy's verdict on a proposal is a choice, which `AgentLoop` details |
| `SmokeClient` | the smoke command beside the job it watches and the statements of a job read | the job is that of `JobContract`, with what it made |
| `Documents` | a document from the request to the worker's preflight | gives the facts that `ProviderRun` tests in its preflight |
| `MC...` | the instances for TLC | `MCAgentRun` has two halves that share nothing, a document on its way and a run of the agent |
| `...Proofs` | theorems and proofs | |

Definitions named `...Fault` or `...Fault2` belong to no specification: each is
one decision of the code with a plausible mistake, used to see that a property
notices it.

### JobLifecycle

One database transaction is one action: `Claim` is `claim_next`,
`RecoverExpiredLeases` is `recover_expired_leases` over its whole batch,
`MarkTerminal`, `Park` and `ScheduleRetry` are the three families of final
writes, `Decide` and `ExpireDue` the two ways a parked job ends.  Two
exceptions.  A transaction opened by an agent thread takes two steps
(`ToolLocksRow` or `ApprovalLocksRow`, then `TxnCommit` or `TxnAbort`), since
`GatewayTimeout`, `Deadline`, `HeartbeatLost`, `Abandon` and `Crash` can come in
between.  And the marker is read (`Inspect`) one step before the write it leads
to, as `_has_side_effect` does in a session of its own.  `sup[j][a]` and
`thr[j][a]` say where the supervisor task and the thread of attempt `a` stand;
old attempts stay in the state, so zombies act beside their successors.
`RowFree` is the row lock; `Owns` the fence every worker write repeats.

Durations are not numbers.  A lease, a delay and an approval window each run out
by an action, so every relation between the settings and every clock skew is
covered.

A tool's transaction writes to cases and artifacts too; here only the marker and
the lock count.

### IntakeIdempotency

`pc[r]` follows one request; a retry is another request with the same key and
content.  `Lookup`, `Insert`, `Reread` and `Commit` are the statements of
`_enqueue` under READ COMMITTED: `Insert` waits while another transaction holds
an uncommitted record with the key.  The digest is modelled by what it covers:
the content and whether it is a document, not the normalizer's result.  `Commit`
may lose its answer; `Fail` stands for every other exception.

### Policy and AgentLoop

An evaluation is a record of the facts the two functions test.  `AgentLoop` has
one action per way a step can go.  A proposal is any combination of those facts
with any call, and a text that may equal one of the two strings the server
compares.  The profile, the risk signal and the document error are chosen
initially and never change in a run.  The order in `evaluate` of the checks that
all deny is left out: it only selects the reason.

### WorkerSupervisor

An action is what happens between two awaits.  `cur` is the task the filling
loop waits for and `excluded` the snapshot it was given.  `Claim` commits the
row; `Reserve` (the `on_claim` callback) comes later.  `CancelTask` ends a
cancelled task, but until then it may also end by itself, because
`_await_run_shutdown` can swallow a cancellation.  `Pause` keeps the backoff: the
`continue` of the idle path skips the `else` that resets it.

### EffectTransactions

Here a step is one statement of a transaction.  A process is the agent thread of
an attempt (lost attempts included), a decide request or an expiry sweep;
`held[p]` are the rows it has locked, `pc[p]` the statement it is at, `tool[p]`
the action it executes.  Deciders and sweeps lock the approval, then the job,
then the rows of the action; a tool locks the rows of the action first and
fences on the job last (`_mark_side_effect`); the worker locks the job and then
the approval.  Writes are applied at commit: each is to a row whose lock is held
until then.

* A locking select that waits (`WaitAtFence`, `WaitForApproval`) evaluates its
  predicate again when it gets the row.  `RecheckApproval` uses the new approval
  and the job row read before the wait (`saw`), which is what READ COMMITTED does
  with a joined table that is not locked.
* An artifact is looked up, missed, inserted behind any other insert of the same
  unique key, and re-read when the insert loses.
* The insert's foreign-key check takes a share of the job row: the row `"key"`,
  which excludes FOR UPDATE and not other shares.  Shares in cases and customers
  are left out; only a tool's transaction could wait there.
* The tenant's cases count as one row, so any two updates may meet.  The sweep's
  limit of 100 is left out.

The model shows a circle of waits: the thread of a lost attempt inserts an
artifact and waits for the job row of a decider, which waits for the same index
entry.  PostgreSQL's deadlock detection and the lock timeout resolve it, by
`AbortTool` or `FailRequest`.  `DeadlockNeedsLostAttempt` says that there is no
circle without such a thread.

### ApprovalReview

A proposal is a set of items: a field name, a value, the source the model names
and where the excerpt really stands.  `ValidatedFields` does what
`field_values.py` does with them (validation, body before document); `Request`
freezes the result without the excerpts, and `FrozenValid` is the validation of
the frozen values.  `Executable` is the projection that the review shows,
`Verdict` the checks of the decide request: two pieces of code about the same row, run by
whatever build is deployed at that moment.  `ask[o]` keeps what an operator
looked at, and the time the request read before it waited for the row.  Events
follow the commit in a step of their own, so a process can die in between.

### HttpBoundary

`req[r].pc` follows the stack: middleware, body limit, credentials, payload,
enqueue, answer.  Bodies arrive in chunks with any declared length; the webhook
looks at the form of the key before it reads, the intake route after.  The
signature covers the body that was signed, which need not be the one that
arrives.  Keys are rotated and tenants suspended between any two steps.  An
answer may be lost with its client; an exception above the middleware gives a
500 without a trace header.

### ProviderRun

The thread and the worker are two processes that share the job's row.  The
thread builds the runtime, posts, repairs at most once per step, runs tools and
closes its client; the worker waits, meets the deadline, loses its lease or is
cancelled, inspects the marker, commits (`Commit`) and, when that call has
returned, reports (`Report`).  `cancel_tasks` may cancel `serve_once` at each of
these awaits: the wait is told to stop first (`Interrupt`, `ShutDown`), a read of
the marker or a persisting call ends at once (`Cancel`), with the row committed
or not, and no event.  `PersistFails` has the same two sides: a commit can succeed
and its acknowledgement, or the closing of the session, still raise, which is
reported as a persistence error on a settled row.  `messages` is the conversation as
far as the adapter checks it (roles and the tool call each answer belongs to).
`events` counts what was emitted, `late` the requests posted after the run was
told to stop.

### SmokeClient

The client's step and the server's steps interleave.  A poll is read in two
steps, the row (`ReadRow`) and what it made (`ReadRefs`), since each statement
of `get_read_for_tenant` has a snapshot of its own.  `told` is what the accepted
answers really said and `progress` what the client keeps, so that evidence can
be compared with the truth; a poll rejected for its identity or its scenario
(`Rejections`) is not accepted, so it does not enter `told`.  Answers may be
lost, garbled, refused, malformed, or about another job.  Which values
`_safe_job_response` takes for malformed is data: any answer may be found so
(`ReceiveNothing`), and that the server's own answers are not is not
claimed.  The case's expectations are sets and predicates over the job, not
texts.

### Documents

A text is a sequence of the characters the normalizer tells apart: carriage
return, line feed, visible.  The thread reads one page per step and may be left
behind by `TimesOut`.  `EditProfile` and `Deploy` may come at any time; the
request keeps the profile it resolved (`bound`) and stores it with the snapshot.
A release has a registry of normalizers and one of actions, and a profile needs
both (`Compiles`): every binding's normalizer and every executable action.  The
upgrade of a version-1 profile (`Upgrade`) makes executable only the actions
that the release registers and adds the one binding its documents can have.  Rows
of the earlier release, with a version-1 profile and a snapshot without a
binding, are initial states.  What pypdf makes of a file is an input: pages that
raise, a reader that raises, encryption.

## 3. Runs

One run per module, which checks its safety and, where the module has any, its
liveness, so that both hold of the same instance, but for `agent_run`, which has
both `AgentLoop` and `Documents`; and three runs of what the code does not
keep.  Related invariants are stated as named parts and checked as one
conjunction: `RowsConsistent` is `RetryBudget`, `ApprovalMatchesJob` and
`LeaseIffRunning`, `RequestsAreSound` is `QuietPreflight`, `OneRepair` and
`ConversationIsSound`, and so on.  The type invariant is a theorem of its own in
six modules and a conjunct of a checked property in the other four
(`EventsMatchRows`, `BodyStaysBounded`, `OneJobEvent`, `WorkIsBounded`).

| Run | Instance | Shows |
|---|---|---|
| `job_run` | 1 job, 1 retry, `FairSpec` | consistent rows, own publications, the fence, no replay but a late one, the refinement and `EveryJobEnds`, for two attempts with every interleaving of thread, transaction, heartbeat, deadline, crash, recovery, operator |
| `job_replay` | 1 job, 1 retry | violation, see section 6 |
| `intake_requests` | 3 requests, 2 keys, 2 contents, with documents, `CanonicalSpec` (fair) | one job per key and the same for all its callers, no conflict for a retry, everyone is answered |
| `intake_parsers` | 3 requests | violation, see section 6 |
| `agent_run` | documents: 6 texts, at most 3 pages of 2 allowed, 3 characters, 5 profiles, 3 releases, 2 version-1 profiles; agent: 2 tools, 1 unregistered name, good and bad arguments, 4 steps, every profile | whole text, right verdict, bounded work, queued jobs stay readable; parking, repetition, reported outcome, registry, and the policy compared on every evaluated input with every worse one |
| `supervisor_serve` | 2 slots, 3 jobs of 2 tenants, 2 attempts, 1 fault, `FairSpec` | tenants stay apart, reservations are exact, every job is served |
| `effects_safe` | 1 job, 2 attempts, 2 requests, 1 sweep, 4 actions | effects happen once and marked, answers are true, rows agree, deadlock needs a lost attempt |
| `approval_review` | 1 row and 1 legacy row, 2 operators, 7 proposals, 4 builds, sweep limit 1, `FairSpec` | what is frozen was quoted, body first, and is accepted again; only what was offered is executed, refusals have a reason, events match rows, the list is complete and ordered, a row with a deadline is decided |
| `http_requests` | 1 request of any of the good and bad kinds, beside a second delivery, 3 keys, `FairSpec` | bounded bodies, entitled jobs, traces that name the job, events that tell what was answered, every request completed |
| `provider_run` | 2 tool calls, 4 steps, every persisted input, `FairSpec` | preflight, repair, conversation, reporting under cancellation and lost acknowledgements, interruption; worker and thread end, the client is closed |
| `smoke_cases` | 7 demo cases, 2 actions, 2 polls, 2 attempts | PASS, whole views, evidence |
| `smoke_evidence` | the `live` case | violation, see section 6 |

Why the bounds suffice.  Jobs interact only in the two batch transactions and, in
the supervisor, through their tenant.  Two attempts give a zombie and its
successor, which is also the last one, so the retry budget is met exactly; the
proofs cover any number of jobs and retries.  Three requests give a winner, a
loser that waits and one that arrives late; two keys and two contents give
conflicts and independence.  Four steps allow two equal calls, the refused third
and a different call in between.  Two slots and two jobs of one tenant give the
only pairs the exclusion is about; the third job keeps the other slot busy; one
error already cancels every task, and the proofs cover any number.  For effects,
two attempts are a zombie and its successor, two requests a decider and its
rival, and the four actions one of each way to lock (idempotency record, case,
artifact index, none).  `MaxFaults`, `MaxBackoff`, `Attempts`, `MaxAsks`,
`MaxTime` and `MaxAttempts` are the only bounds on counters and stand in the
guards (the number of steps and of polls is bounded by the code). For reviews,
two operators give the rival, and the builds that lack the normalizer, accept
fewer values, or have a new version of the action give the ways a frozen row can
cease to be executable; the proposals that fail validation must never be frozen;
a sweep limit of 1 leaves a row for the next sweep.  For requests, one of every
kind meets every check and its boundary, and the second delivery meets it on its
key.  Four provider steps allow two equal calls and the refused third.  Two polls
see the job before and after any one of its moves; the proofs cover any
number.  For documents, three characters on two pages are exactly at, above and
below the limit with and without the line break between pages, and the texts
have each line ending at either end of a page, where joining makes a pair of two
characters; the releases lack a normalizer's version, a media type and an
action, and the profiles need each.

Symmetry is declared for the requests of `effects_safe` only, which checks no
liveness.  `intake_requests` breaks it instead: `CanonicalInit` fixes the key and
the content of the first request, since renaming keys or contents changes
nothing.  The other runs do not check for deadlock, since a finished job, an
answered request and a finished run really stop; the supervisor run does, since
`serve` never stops.

## 4. Fairness

* Jobs: time passes (delays, approval windows, and the lease of an attempt whose
  run is over), workers poll, a run meets its deadline, and the server ends each
  transaction it was given.  Nothing is assumed of the model, the tools, the
  heartbeat or the operator, and crashes and persistence errors may strike at
  any step; the retry budget makes them finitely many.
* Intake: a handler that can take a step eventually does.  A normalizer thread
  may hang, since `document_parse_timeout_seconds` ends the wait.
* Supervisor: the event loop runs ready tasks, a run ends by its deadline, the
  lease of an orphaned job expires, the container restarts
  (`restart: unless-stopped`).  Faults are bounded by `MaxFaults`: under a
  permanent database outage nothing is served.
* Approvals: the clock runs, and the sweep is called by every worker's poll.  No
  operator is assumed to decide, no request to complete and no build to be
  deployed again.
* HTTP: the server goes on with a request it has received, and a client sends
  the body it began or hangs up.  Nothing is assumed of keys, tenants or the clock.
* Provider: the thread goes on, because the client has a timeout of 30 seconds,
  and the worker's waits are bounded by its settings.

None is stated for the agent loop and the smoke command: the step limit and
`max_polls` bound both, and their type invariants say so.

## 5. Proofs

Assumptions are those named in the modules, and every run evaluates them:
`MaxRetries` is a natural number, `ParseConcurrency` and the step limits are
positive, the registry and the other names are disjoint, slots are finitely many
and at least one, the approval rows are finitely many numbers, every client sends
some kind of request, a key has one holder and one principal, and what
`DocumentAssumption` says of texts and profiles.
None bounds the number of jobs, requests, attempts or steps.

The shape is the same throughout: an inductive invariant (`IInv`; `IntakeInv`
for the intake, `DocumentInv` for documents) that TLC has checked on the run's
instance, one case per action, and the properties as consequences.  What differs
is what must be added to the properties to make them inductive:

 * `JobLifecycleProofs`: types; then `IInv` (`InvariantHolds`).  The properties
are not inductive by themselves.  The strengthening says what a run knows about
the rows it will write: a run about to requeue has budget
(`RequeueHasBudget`), an owner that reports an approval has its own action
staged (`ReportedApprovalStaged`), a marker that a run has not seen was
committed late (`UnseenMarkerIsLate`), runs of unclaimed attempts are idle, and
an open transaction fits its thread.  The induction has one case per action.  
From it follow the budget, the agreement of the rows, the fence, the leases,
the replay result, both action properties (a step that does not own a row
leaves it alone, `UnownedKept`) and the refinement of `JobContract`
(`ContractRefined`: every step of a job's view is a move of the contract). *
`JobLifecycleProofs`, about `IntakeIdempotency` (which names its   specification
`IntakeSpec`, its invariant `IntakeInv` and so on, so that one   module can
speak of the creation of a job and of its life): with   `UncommittedIsAlone`
(the unique index), true records and recorded answers, one   job per key, one
answer per key and no conflict for a faithful retry, for any   number of
requests. * `JobLifecycleProofs`, about `Documents` (`DocumentSpec`,
`DocumentInv`): first   what its operators compute, for texts and pages of any
length.  Joining,   normalizing and filtering are concatenations of pieces
(`FlattenSeq`), which   `FlattenFrom` unrolls into beginnings; the induction
along them is over a set of   numbers (`NatSet`, from well-foundedness), since
the library's own induction   theorem cannot be instantiated.  A text and its
normalized form are `Alike`   (visible characters, line ends, blankness) at
every character   (`NormalizeAlike`), and fewer pages never give a longer text
(`JoinPrefix`), so   that the page loop may give up early.  Then the invariant:
`Resolved` (one valid   profile before anything is made), `Looping` (the texts
read are those of the   first pages, none of which fails), `Truthful` (what the
thread made and what the   request has is deserved) and `RowKept`.  Each of the
three properties that the   run checks follows; that a queued job stays readable
needs that a row of this   release carries its own binding (`NewRowReadable`)
and that the upgrades of the   document and of the profile of an old row agree
(`OldRowReadable`).   `DocumentAssumption` says that the texts are sequences of
characters, that current profiles have version 2 and old ones version 1 and no
documents, and that there may be a page. * `AgentLoopProofs`: monotonicity of
the policy as a fact about its operators;   then, with `StillOpen` (nothing is
staged while the run goes on, and `prev` and   `same` describe the last calls),
`ParkIffStaged` and `NoThirdRepeat` for every   registry, profile and step
limit.  `Traced` says what the path of a run holds   while it is open, which
gives `PolicyIsSafe` (only registered tools run) and   `ClosingKeepsOutcome`. *
`WorkerSupervisorProofs`: with `Snapshot` (the task that has not reserved yet
is the one `serve` waits for, nothing is released meanwhile, and no tenant is
reserved twice), `OneSlotPerTenant` and `NoLostReservation` for any number of
slots, jobs, tenants and faults. * `EffectTransactionsProofs`: the properties of
rows need to know what each open   transaction may rely on, so `IInv` adds
`LocksExclude` and, per process, what   its locks guarantee at each statement
(`ThreadKnows`, `RequestKnows`,   `SweepKnows`).  The induction rests on one
fact, that a row changes only in a   step of a process that holds it or of a
worker that finds it unlocked, and so   leaves what the others know intact.  From
it follow one effect per job and   kind, the marker, the answers, the agreement
of the rows, and   `NoDeadlockAmongOwners`: without a lost attempt, processes
that hold something   and still wait can only wait for the case row or an
approval, and the holder   of a case row waits for nobody. *
`ProviderRunProofs`: what was admitted (`Admitted`), where an attempt stands
(`Attempt`), what the thread still holds (`Open`), the conversation as a
sequence in which every tool call is answered before the next turn
(`Transcript`), how far a thread may go once it was told to stop (`LateStep`),
and what was committed and reported (`Reported`: a settled row has the status of
the verdict, and nothing but the commit settles it (`SettledLate`), so that a
report that comes later, or never, cannot differ from it).  From them follow
`RequestsAreSound`,   `OneJobEvent`, `AbandonedRunIsHarmless`, and
`InterruptDecides` as an action   property, for any tool calls and any step
limit. * `ApprovalReviewProofs`: first what validation and freezing mean, as
facts about   their operators (`ValidatedMeaning`, `FrozenMeaning`).  A page is
chosen by rank   among the pending rows; that it has the first rows and no gap
needs that ranks   grow along the order (`RankGrows`), that some row has the
least rank above any   (`LeastRank`, by well-foundedness) and that there are not
more rows below it   than its rank (`FewBelow`).  `EventsOwed` says which events
a row owes in each   state, `Frozen` what was validated when the row was made,
`Offered` what the   operator was shown.  From them follow `EventsMatchRows`,
`FrozenIsSound`,   `PageIsHonest` and the action properties
`OnlyOfferedIsExecuted` and   `RefusalIsExplained`. * `BoundaryProofs`:
`Checked` says what has been checked of a request by the time   it is where it
is, `Made` and `Named` tie jobs to the requests that made them   and to those
that were answered with them, `Told` ties the answer and the   event to what the
request knows.  The proof restates the invariant request by   request
(`ByRequest`), since a handler's step changes one request only and   adds at
most one job, in the empty slot of that request (`OneMoves`).  A key   may be
rotated at any time: what holds of a key at authentication is that the   request
was entitled at some moment of its life, which no later step undoes.   From it
follow `BodyStaysBounded`, `JobIsEntitled` and `RequestIsTraced`. *
`SmokeClientProofs`: a pass speaks about the job now, from a row read before.  
`ReadStaysTrue` says what a read still guarantees after any number of steps of
the server (a status that was final, references that only grow), `RowAgrees`
and `EffectsRecorded` what the row says about effects, `ClientKnows` what the
client holds in each phase.  From them follow `PassIsEarned`, `ViewIsWhole`   and
`FailureKeepsEvidence`, for any number of polls and attempts.

`CollisionHasWinner`, `TerminalIsFinal` and `QueuedIsUntouched` are theorems that
no run repeats.

Only model-checked: the liveness properties (fairness and ENABLED are beyond
the prover).

## 6. Findings

1. `job_replay`: a tool may commit between `_has_side_effect` and
   `schedule_retry`, after the deadline's grace period.  The job is then queued
   again with its side effect committed, although the runbook says that a
   possible side effect is not replayed.  `EffectReplayedOnlyIfLate`, checked and
   proved, says that this window is the only one.
2. `intake_parsers`: the parser semaphore is created per request by
   `api/inbound.py`, so `DOCUMENT_PARSE_CONCURRENCY` bounds nothing across
   requests.
3. `smoke_evidence`: `_poll_job` stores a poll as the evidence before it compares
   its identity and its scenario, so a poll that is rejected for either has
   replaced the one accepted before; the runbook
   (`docs/runbooks/live-provider-demo.md`, line 547) says that a rejected poll
   never does.  `FailureKeepsEvidence`, checked and proved, says that every other
   failure shows the latest accepted poll, and these two the poll they reject.

Seen while modelling; the models have each of them, and no run is spent on it:

* A run may execute one tool and request approval for the next; the parked job
  then has a committed side effect, which the runbook
  (`docs/runbooks/live-provider-demo.md`, line 370) excludes.
* A second decide that waits behind the first is answered 404: its predicate
  joins the approval with the job and is evaluated again with the new approval
  and the job as it was (`RecheckApproval`).  The tests fix the sequential case,
  the stored answer again or 409.  `AnswersHold` is about the answers that carry
  a decision.
* The event of a provider call is built outside `safe_emit`, and its status field
  ends at 599.  A status above that raises a validation error in place of the
  HTTP error, and the request is repeated as if the proposal had been invalid;
  `OneRepair` names the case (`http_unnameable`).
* The review's `executable` looks neither at the version of the pending action
  nor at the deadline (`RefusalIsExplained` lists both as reasons).
* A row without a deadline, from before deadlines existed, stays pending until
  an operator decides (`DeadlineDecides` excludes it).
* The recipient of an approved reply draft is the contact field, whatever type
  the profile gives it.
* After a cancellation the thread may still post two requests, the second being
  a repair (`AbandonedRunIsHarmless`).  A cancelled `serve_once` emits no job
  event, also when its row was already committed, and a commit whose
  acknowledgement is lost is reported as a persistence error (`OneJobEvent`
  names both).
* `build` would leak its HTTP client if `create_llm` or `initial_messages`
  raised; `ProviderRun` assumes that neither does.
* An unhandled exception is answered 500 without `X-Trace-ID`, and an intake body
  that turns out too long while the framework reads it may be answered 400.
* A PDF's text is measured before line endings are normalized, a plain text
  after: `VerdictIsRight` says so.  The check of the normalized text of a PDF
  never fires.  A thread left behind by the timeout still emits that it
  succeeded.  The runbook speaks of normalization in the worker; it happens in
  the request.

## 7. Not modelled, and the plan

Done in this order, most important first: JobLifecycle with its contract,
IntakeIdempotency, Policy and AgentLoop, WorkerSupervisor, EffectTransactions,
ApprovalReview, HttpBoundary, ProviderRun, SmokeClient, Documents.

Next:

1. A composition of AgentLoop with the thread of JobLifecycle, to replace the
   nondeterministic outcomes by those a run can have; ProviderRun has the other
   half of that thread.
2. The refinement of an abstract one-job-per-key service by IntakeIdempotency.

Left out:

* What pypdf, YAML, JSON Schema and the signature's hash compute: inputs of the
  models.  Identifier patterns, texts of messages, layout of reports: data.
* The direct case API (one insert per request), audit events and the fields of
  events: written and never read back.
* The eval runners: sequential, one case after another on an in-memory double of
  the tool port, whose order of operations is that of AgentLoop.
* Migrations: the constraints of the schema are used in the models; the upgrade
  itself runs offline.
* Of the smoke command, argument parsing, credentials, the rendering of
  reports, and the literals that `_safe_job_response` and `_safe_execution_path`
  accept: whether they include all that `project_job_read` makes is a comparison
  of two lists, not a question of states.
