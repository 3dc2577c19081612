---------------------------- MODULE SmokeClient ----------------------------
(***************************************************************************)
(* The read side of a job: GET /v1/jobs/{id} while the worker, operators   *)
(* and the sweep move the job, and scripts/live_provider_smoke.py, which   *)
(* submits one demo case, polls the job and decides between PASS and FAIL. *)
(* The handler reads the row and then the references in statements of      *)
(* their own; the job may move in between.  The client trusts no answer:   *)
(* one may be lost, refused, malformed or about another job.  Locks and    *)
(* fences of the job are JobLifecycle and EffectTransactions; here a       *)
(* transaction is one step, and the marker a run read before it decided to *)
(* retry or fail may be stale (Requeue and Fail do not depend on it).      *)
(***************************************************************************)
EXTENDS Naturals

CONSTANTS Cases,        \* the demo cases that may be selected
          Actions,      \* the registered actions the agent may propose
          MaxPolls,     \* max_polls of _poll_job
          MaxAttempts   \* attempts the worker gives a job

Webhooks == {"webhook_body", "malformed", "duplicate", "conflict"}
Twice    == {"duplicate", "conflict"}

ASSUME SmokeAssumption ==
    /\ MaxPolls \in Nat \ {0} /\ MaxAttempts \in Nat \ {0}
    /\ Actions \subseteq {"case", "reply_draft", "review_flag", "update", "find"}
    /\ Cases \subseteq Webhooks \cup {"live", "body_complete", "body_incomplete"}

VARIABLES
    job,        \* the job's row and its approval, as the server has them
    done,       \* the effects committed for the job
    run,        \* what the running attempt has done so far
    attempts,   \* attempts claimed
    resolves,   \* the deployed build resolves the job's profile
    read,       \* what the handler has read, until the client has the answer
    args,       \* the command line and the tenant behind the API key, fixed
    phase,      \* where the client is
    sent,       \* deliveries posted
    progress,   \* SmokeProgress
    polls,      \* poll_count
    expired,    \* the polling deadline has passed
    exit,       \* "none", "pass" or the code of the SmokeFailure
    honest,     \* history: every answer so far was the server's own
    told        \* history: what the accepted answers said, as a SmokeProgress

server == <<job, done, run, attempts, resolves>>
client == <<phase, sent, progress, polls, expired, exit, honest, told>>
vars   == <<server, read, args, client>>
-----------------------------------------------------------------------------
(* The job and its view.  A path is the set of its entries: the tools that *)
(* ran (a reference kind stands for the tool that makes it), "approval"    *)
(* for the one that was staged, "closed" for entries without an action.    *)

Kinds     == {"case", "reply_draft", "review_flag"}
Effects   == Actions \ {"find"}
Entries   == Actions \cup {"approval", "closed"}
Outcomes  == {"none", "other", "missing_contact", "unreadable", "approval"}
Statuses  == {"absent", "queued", "running", "awaiting_approval", "succeeded",
              "failed", "failed_uncertain"}
Approvals == {"none", "staged", "pending", "approved", "rejected", "expired", "cancelled"}

Jobs == [status : Statuses, outcome : Outcomes, path : SUBSET Entries,
         approval : Approvals, action : Actions \cup {"none"}]

Views == [id : {"none", "ours", "other"}, scenario : {"expected", "wrong", "none"},
          status : Statuses, outcome : Outcomes, path : SUBSET Entries,
          approval : Approvals, refs : SUBSET Kinds]

NoView == [id |-> "none", scenario |-> "none", status |-> "absent", outcome |-> "none",
           path |-> {}, approval |-> "none", refs |-> {}]

Progresses == [accepted : BOOLEAN, second : {"none", "reused", "rejected"}, last : Views]
NoProgress == [accepted |-> FALSE, second |-> "none", last |-> NoView]

Commands == [case : Cases, input : {"ok", "invalid", "unsupported"},
             expect : {"none", "tool", "approval"}, scenario : {"expected", "wrong"}]

Garbled    == {"network_error", "http_error", "malformed_response"}
ReadCodes  == {"job_network_error", "job_http_error", "malformed_job_response"}
Verdicts   == {"again", "trace_id_mismatch", "scenario_mismatch", "job_failed",
               "job_failed_uncertain", "expected_path_not_observed",
               "expectation_failed", "pass"}
Exits      == Garbled \cup ReadCodes \cup (Verdicts \ {"again"}) \cup
              {"none", "usage_error", "webhook_profile_unsupported", "duplicate_identity_mismatch",
               "expected_conflict_not_returned", "poll_timeout"}

Init ==
    /\ job = [status |-> "absent", outcome |-> "none", path |-> {},
              approval |-> "none", action |-> "none"]
    /\ done = {} /\ run = {} /\ attempts = 0 /\ resolves = TRUE
    /\ read = NoView
    /\ args \in Commands
    /\ args.input = "unsupported" => args.case \in Webhooks
    /\ phase = "start" /\ sent = 0 /\ progress = NoProgress
    /\ polls = 0 /\ expired = FALSE /\ exit = "none"
    /\ honest = TRUE /\ told = NoProgress
-----------------------------------------------------------------------------
(* The server.                                                             *)

Claim ==
    /\ job.status = "queued" /\ attempts < MaxAttempts
    /\ job' = [job EXCEPT !.status = "running"]
    /\ attempts' = attempts + 1 /\ run' = {}
    /\ UNCHANGED <<done, resolves, read, args, client>>

Working == job.status = "running" /\ args.case # "malformed" /\ "approval" \notin run

ToolFault(t) ==
    /\ Working
    /\ run' = run \cup {t}
    /\ UNCHANGED <<job, done, attempts, resolves, read, args, client>>

\* A tool commits: the effect, the marker and what references it, together.
Tool(t) ==
    /\ Working
    /\ run' = run \cup {t} /\ done' = done \cup ({t} \cap Effects)
    /\ UNCHANGED <<job, attempts, resolves, read, args, client>>

\* create_for_running_job: an approval is staged, or a staged one replaced.
Stage(t) ==
    /\ Working /\ job.approval \in {"none", "staged"}
    /\ run' = run \cup {"approval"}
    /\ job' = [job EXCEPT !.approval = "staged", !.action = t]
    /\ UNCHANGED <<done, attempts, resolves, read, args, client>>

\* record_awaiting_approval_result: approval, status and evidence at once.
Park ==
    /\ job.status = "running" /\ "approval" \in run
    /\ job' = [job EXCEPT !.status = "awaiting_approval", !.approval = "pending",
                          !.outcome = "approval", !.path = run]
    /\ UNCHANGED <<done, run, attempts, resolves, read, args, client>>

\* _mark_terminal cancels an approval that was never published.
Ended(status, outcome, path) ==
    [job EXCEPT !.status = status, !.outcome = outcome, !.path = path,
                !.approval = IF @ = "staged" THEN "cancelled" ELSE @]

\* mark_succeeded: the summary of a completed run, or an unreadable document.
Succeed ==
    /\ job.status = "running" /\ "approval" \notin run
    /\ \/ /\ args.case = "malformed"
          /\ job' = Ended("succeeded", "unreadable", {})
       \/ /\ args.case # "malformed"
          /\ \E o \in {"other", "missing_contact"} :
                job' = Ended("succeeded", o, run \cup {"closed"})
    /\ UNCHANGED <<done, run, attempts, resolves, read, args, client>>

\* mark_failed, mark_failed_uncertain: no result is kept.
Fail ==
    /\ job.status = "running"
    /\ \/ job' = Ended("failed", "none", {})
       \/ done # {} /\ job' = Ended("failed_uncertain", "none", {})
    /\ UNCHANGED <<done, run, attempts, resolves, read, args, client>>

\* schedule_retry, or recovery of an expired lease.
Requeue ==
    /\ job.status = "running" /\ attempts < MaxAttempts
    /\ job' = [job EXCEPT !.status = "queued"]
    /\ UNCHANGED <<done, run, attempts, resolves, read, args, client>>

\* finalize_job_for_decision: the evidence of the parked run is preserved.
Decided(d) ==
    [job EXCEPT !.approval = d, !.status = IF d = "expired" THEN "failed" ELSE "succeeded"]

\* An operator decides, or the deadline does; approving executes the action.
Decide(d) ==
    /\ job.status = "awaiting_approval" /\ job.approval = "pending"
    /\ job' = Decided(d)
    /\ done' = IF d = "approved" THEN done \cup ({job.action} \cap Effects) ELSE done
    /\ UNCHANGED <<run, attempts, resolves, read, args, client>>

\* Another build is deployed; it may not know the job's profile.
Deploy ==
    /\ resolves' = ~resolves
    /\ UNCHANGED <<job, done, run, attempts, read, args, client>>
-----------------------------------------------------------------------------
(* The handler: get_read_for_tenant and project_job_read.                  *)

\* The condition of _poll_job's loop, negated.
TimeUp == expired \/ polls = MaxPolls

\* Staged and cancelled approvals are not joined.
Joined(a) == IF a \in {"staged", "cancelled"} THEN "none" ELSE a

\* The row with its approval, in one statement.
ReadRow ==
    /\ phase = "poll" /\ ~TimeUp
    /\ read' = [id |-> "ours", scenario |-> args.scenario, status |-> job.status,
                outcome |-> job.outcome, path |-> job.path,
                approval |-> Joined(job.approval), refs |-> {}]
    /\ phase' = "refs"
    /\ UNCHANGED <<server, args, sent, progress, polls, expired, exit, honest, told>>

\* An approval is shown when its state goes with the status.
ShownApproval(a, s) ==
    IF \/ a = "pending" /\ s = "awaiting_approval"
       \/ a \in {"approved", "rejected"} /\ s = "succeeded"
       \/ a = "expired" /\ s = "failed"
    THEN a ELSE "none"

\* A path that names an action the profile does not register is dropped whole.
ShownPath(path) == IF resolves \/ path \subseteq {"closed"} THEN path ELSE {}

\* The references in later statements, then the projection.
ReadRefs ==
    /\ phase = "refs"
    /\ read' = [read EXCEPT !.refs     = done \cap Kinds,
                            !.path     = ShownPath(@),
                            !.approval = ShownApproval(@, read.status),
                            !.scenario = IF resolves THEN @ ELSE "none"]
    /\ phase' = "answer"
    /\ UNCHANGED <<server, args, sent, progress, polls, expired, exit, honest, told>>
-----------------------------------------------------------------------------
(* The client.                                                             *)

Over(code) == phase' = "over" /\ exit' = code

\* Arguments, input file and attachment are checked before anything is sent.
Start ==
    /\ phase = "start"
    /\ \/ args.input = "ok" /\ phase' = "first" /\ UNCHANGED exit
       \/ args.input = "invalid" /\ Over("usage_error")
       \/ args.input = "unsupported" /\ Over("webhook_profile_unsupported")
    /\ UNCHANGED <<server, read, args, sent, progress, polls, expired, honest, told>>

AfterFirst == IF args.case \in Twice THEN "second" ELSE "poll"

Accepted == [NoProgress EXCEPT !.accepted = TRUE]

\* 202 with a job id and a trace id (_accepted_identity).
PostFirst ==
    /\ phase = "first" /\ sent' = 1
    /\ job' = [job EXCEPT !.status = "queued"]
    /\ progress' = Accepted /\ told' = Accepted
    /\ phase' = AfterFirst
    /\ UNCHANGED <<done, run, attempts, resolves, read, args, polls, expired, exit, honest>>

\* Nothing usable comes back; the job may have been accepted all the same.
PostFirstFails(code) ==
    /\ phase = "first" /\ sent' = 1
    /\ \/ UNCHANGED job
       \/ code # "http_error" /\ job' = [job EXCEPT !.status = "queued"]
    /\ Over(code) /\ honest' = FALSE
    /\ UNCHANGED <<done, run, attempts, resolves, read, args, progress, polls, expired, told>>

SecondResult == IF args.case = "conflict" THEN "rejected" ELSE "reused"

\* The delivery again: the same job for the same body, 409 for another one.
PostSecond ==
    /\ phase = "second" /\ sent' = 2 /\ phase' = "poll"
    /\ progress' = [progress EXCEPT !.second = SecondResult]
    /\ told' = [told EXCEPT !.second = SecondResult]
    /\ UNCHANGED <<server, read, args, polls, expired, exit, honest>>

\* What a second answer that is not the server's own looks like to the client.
SecondCodes ==
    IF args.case = "conflict" THEN {"network_error", "expected_conflict_not_returned"}
    ELSE Garbled \cup {"duplicate_identity_mismatch"}

PostSecondFailsFault(code) ==
    /\ phase = "second" /\ sent' = 2 /\ code \in SecondCodes
    /\ Over(code) /\ honest' = FALSE /\ progress' = NoProgress
    /\ UNCHANGED <<server, read, args, polls, expired, told>>

\* The failure carries the identity of the accepted delivery.
PostSecondFails(code) ==
    /\ phase = "second" /\ sent' = 2 /\ code \in SecondCodes
    /\ Over(code) /\ honest' = FALSE
    /\ UNCHANGED <<server, read, args, progress, polls, expired, told>>

PathHolds(v) ==
    /\ args.expect = "tool" => v.path \cap Actions # {}
    /\ args.expect = "approval" => "approval" \in v.path

Incomplete(v) == /\ v.status = "succeeded" /\ v.outcome = "missing_contact"
                 /\ v.path \cap Effects = {}

CaseHoldsFault(v, second) == TRUE

\* _case_checks.
CaseHolds(v, second) ==
    /\ args.case = "body_complete" /\ v.status = "awaiting_approval" =>
           v.approval # "none" /\ "approval" \in v.path
    /\ args.case = "body_incomplete" => Incomplete(v)
    /\ args.case = "webhook_body" => Incomplete(v) /\ v.approval = "none"
    /\ args.case = "malformed" =>
           /\ v.status = "succeeded" /\ v.outcome = "unreadable"
           /\ v.path = {} /\ v.approval = "none"
    /\ args.case = "duplicate" => second = "reused"
    /\ args.case = "conflict" => second = "rejected"

ForeignFault(v) == FALSE

\* The answer is about another job or another trace.
Foreign(v) == v.id # "ours"

WrongScenario(v) == \/ v.scenario = "wrong"
                    \/ v.scenario = "none" /\ v.status \notin {"failed", "failed_uncertain"}

\* The early returns of _poll_job in their order, then those of run_demo_case.
Verdict(v) ==
    CASE Foreign(v)                                -> "trace_id_mismatch"
      [] ~Foreign(v) /\ WrongScenario(v)           -> "scenario_mismatch"
      [] OTHER ->
           CASE v.status = "failed"                -> "job_failed"
             [] v.status = "failed_uncertain"      -> "job_failed_uncertain"
             [] v.status \in {"queued", "running"} -> "again"
             [] OTHER -> IF ~PathHolds(v) THEN "expected_path_not_observed"
                         ELSE IF ~CaseHolds(v, progress.second) THEN "expectation_failed"
                         ELSE "pass"

\* poll_count after one more poll.
Counted == polls + 1

\* with_job: an answer that parses becomes the evidence, before it is compared
\* with the accepted identity and with the expected scenario.
Evidence(v) == [progress EXCEPT !.last = v]

Handle(v) ==
    /\ progress' = Evidence(v)
    /\ IF Verdict(v) = "again"
       THEN phase' = "poll" /\ polls' = Counted /\ UNCHANGED exit
       ELSE Over(Verdict(v)) /\ UNCHANGED polls

\* The verdicts that reject the poll itself, not what the job came to.
Rejections == {"trace_id_mismatch", "scenario_mismatch"}

\* The server's own answer arrives.
Receive ==
    /\ phase = "answer"
    /\ Handle(read)
    /\ told' = IF Verdict(read) \in Rejections THEN told ELSE [told EXCEPT !.last = read]
    /\ read' = NoView
    /\ UNCHANGED <<server, args, sent, expired, honest>>

\* The answer is about another job.
ReceiveForeign ==
    /\ phase = "answer"
    /\ \E s \in {"running", "succeeded"} :
          Handle([read EXCEPT !.id = "other", !.status = s, !.approval = "none"])
    /\ honest' = FALSE /\ read' = NoView
    /\ UNCHANGED <<server, args, sent, expired, told>>

\* The answer is lost, refused, or not one that _safe_job_response accepts.
ReceiveNothing(code) ==
    /\ phase = "answer" /\ Over(code) /\ honest' = FALSE /\ read' = NoView
    /\ UNCHANGED <<server, args, sent, progress, polls, expired, told>>

PollTimeout ==
    /\ phase = "poll" /\ TimeUp
    /\ Over("poll_timeout")
    /\ UNCHANGED <<server, read, args, sent, progress, polls, expired, honest, told>>

\* The clock passes the deadline.
Tick ==
    /\ phase \in {"poll", "refs", "answer"} /\ ~expired
    /\ expired' = TRUE
    /\ UNCHANGED <<server, read, args, phase, sent, progress, polls, exit, honest, told>>
-----------------------------------------------------------------------------
ServerStep ==
    \/ Claim \/ Park \/ Succeed \/ Fail \/ Requeue \/ Deploy
    \/ \E t \in Actions : Tool(t) \/ Stage(t)
    \/ \E d \in {"approved", "rejected", "expired"} : Decide(d)

ClientStep ==
    \/ Start \/ PostFirst \/ PostSecond \/ Receive \/ ReceiveForeign \/ PollTimeout
    \/ ReadRow \/ ReadRefs
    \/ \E code \in Garbled : PostFirstFails(code)
    \/ \E code \in Exits : PostSecondFails(code)
    \/ \E code \in ReadCodes : ReceiveNothing(code)

Next == ServerStep \/ ClientStep \/ Tick

Spec == Init /\ [][Next]_vars

-----------------------------------------------------------------------------
\* TypeOK: types of the variables, and the bound on the number of polls.
TypeOK ==
    /\ job \in Jobs /\ done \subseteq Effects /\ run \subseteq Entries
    /\ attempts \in 0 .. MaxAttempts /\ resolves \in BOOLEAN /\ read \in Views
    /\ args \in Commands /\ sent \in 0 .. 2 /\ progress \in Progresses
    /\ phase \in {"start", "first", "second", "poll", "refs", "answer", "over"}
    /\ polls \in 0 .. MaxPolls /\ expired \in BOOLEAN /\ exit \in Exits
    /\ honest \in BOOLEAN /\ told \in Progresses

\* PassIsEarned: PASS (run_demo_case returns a report) is about the job the
\* client submitted, as the server still has it: the job succeeded or was
\* parked, the case's expectation and --expect-path hold of the persisted
\* result, and nothing on the way was garbled.
PassIsEarned ==
    exit = "pass" =>
        /\ honest /\ args.scenario = "expected"
        /\ \/ job.status = "succeeded"
           \/ job.approval \in {"pending", "expired"} /\ "approval" \in job.path
        /\ args.expect = "tool" => job.path \cap Actions # {}
        /\ args.expect = "approval" => "approval" \in job.path
        /\ args.case \in {"body_incomplete", "webhook_body"} =>
               job.outcome = "missing_contact" /\ job.path \cap Effects = {}
        /\ args.case = "malformed" => job.outcome = "unreadable" /\ done = {}
        /\ args.case \in Twice => sent = 2 /\ told.second # "none"

\* ViewIsWhole: although row and references are read in separate statements
\* while the job moves, an answer never shows a result without the references
\* that result made, nor a parked job without its approval (get_job).
ViewIsWhole ==
    phase = "answer" =>
        /\ read.status = "succeeded" => read.path \cap Kinds \subseteq read.refs
        /\ read.approval = "approved" => {job.action} \cap Kinds \subseteq read.refs
        /\ read.status = "awaiting_approval" =>
               /\ read.approval = "pending"
               /\ read.scenario # "none" => "approval" \in read.path

\* FailureKeepsEvidence: whatever ends the run, the report keeps the accepted
\* identity and the outcome of the second delivery; the poll it shows is the
\* latest accepted one, or else the very poll that the code of the failure
\* rejects for its identity or its scenario (SmokeProgress).
FailureKeepsEvidence ==
    phase = "over" =>
        /\ progress.accepted = told.accepted /\ progress.second = told.second
        /\ exit \notin Rejections => progress.last = told.last
        /\ exit = "trace_id_mismatch" => Foreign(progress.last)
        /\ exit = "scenario_mismatch" => WrongScenario(progress.last)

\* ReportIsHonest: what the command reports, PASS or a failure with its evidence,
\* is what the server has and what the accepted answers said, but for a poll that
\* the failure itself names as rejected.
ReportIsHonest == PassIsEarned /\ FailureKeepsEvidence

\* RejectedPollReplacesNothing: what the runbook says of the evidence, that a
\* rejected poll never replaces what an earlier accepted one showed.  _poll_job
\* stores the poll before it compares its identity and its scenario.
RejectedPollReplacesNothing ==
    phase = "over" /\ told.last # NoView => progress.last = told.last
-----------------------------------------------------------------------------
(* The inductive invariant behind PassIsEarned and ViewIsWhole.            *)

Published == {"pending", "approved", "rejected", "expired"}

\* Status, approval and the persisted path go together, at every commit.
RowAgrees ==
    /\ job.approval = "pending" <=> job.status = "awaiting_approval"
    /\ job.approval \in {"approved", "rejected"} => job.status = "succeeded"
    /\ job.approval = "expired" => job.status = "failed"
    /\ job.approval \in Published => "approval" \in job.path

\* What a run or a result shows is committed; an unreadable document starts
\* nothing.
EffectsRecorded ==
    /\ run \cap Effects \subseteq done /\ job.path \cap Effects \subseteq done
    /\ job.approval = "approved" => {job.action} \cap Effects \subseteq done
    /\ args.case = "malformed" => run = {} /\ done = {} /\ job.path = {}

\* Where the client is, and what it can know there.
ClientKnows ==
    /\ exit = "none" <=> phase # "over"
    /\ phase # "over" => honest /\ progress = told
    /\ progress.second # "none" => sent = 2
    /\ phase \in {"start", "first"} => job.status = "absent" /\ progress.second = "none"
    /\ phase \in {"second", "poll", "refs", "answer"} => job.status # "absent"

\* A row that was read and not yet answered: the job may have moved on, but
\* what a published approval or a success shows stays true.
ReadStaysTrue ==
    phase \in {"refs", "answer"} =>
        /\ polls < MaxPolls /\ read.id = "ours" /\ read.status # "absent"
        /\ read.scenario \in {args.scenario, "none"}
        /\ read.approval \in Published \cup {"none"}
        /\ read.approval = "pending" <=> read.status = "awaiting_approval"
        /\ read.approval = "approved" => job.approval = "approved"
        /\ read.status = "awaiting_approval" => job.approval \in Published
        /\ read.status = "succeeded" => job.status = "succeeded" /\ read.outcome = job.outcome
        /\ (read.status \in {"awaiting_approval", "succeeded"} /\ read.scenario # "none") =>
               read.path = job.path
        /\ read.path \cap Effects \subseteq done

IInv == /\ TypeOK /\ RowAgrees /\ EffectsRecorded /\ ClientKnows /\ ReadStaysTrue
        /\ ViewIsWhole /\ PassIsEarned /\ FailureKeepsEvidence
=============================================================================
