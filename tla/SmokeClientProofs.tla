------------------------- MODULE SmokeClientProofs -------------------------
(***************************************************************************)
(* Proofs about SmokeClient for every set of cases and actions and every   *)
(* bound.  The argument: a published approval and a success only become    *)
(* more final (JobMoves), so what the first statement of the handler read  *)
(* is still true when the client judges it, and references read after the  *)
(* row cover what the row shows.                                           *)
(***************************************************************************)
EXTENDS SmokeClient, TLAPS

\* How the server may move a job while somebody holds an older view of it.
JobMoves ==
    /\ job.status = "absent" <=> job'.status = "absent"
    /\ job.approval \in Published =>
           /\ job'.approval \in Published
           /\ job'.path = job.path /\ job'.outcome = job.outcome
    /\ job.approval = "approved" => job'.approval = "approved" /\ job'.action = job.action
    /\ job.status = "succeeded" => job' = job
    /\ done \subseteq done'

\* KindsAreEffects: a reference is only ever made by an effect.
LEMMA KindsAreEffects == Kinds \cap Entries \subseteq Effects /\ Kinds \cap Actions \subseteq Effects
BY SmokeAssumption DEF Kinds, Entries, Effects

\* ServerFrame: a server step that keeps the row consistent and moves the job
\* forward keeps everything the client and the handler know.
LEMMA ServerFrame ==
    ASSUME IInv, UNCHANGED <<read, args, client>>, TypeOK', RowAgrees', EffectsRecorded',
           JobMoves
    PROVE  IInv'
<1> USE DEF IInv, client
<1>1. ClientKnows' /\ FailureKeepsEvidence'
  BY DEF ClientKnows, FailureKeepsEvidence, JobMoves
<1>2. ReadStaysTrue'
  <2> SUFFICES ASSUME phase \in {"refs", "answer"} PROVE ReadStaysTrue'
    BY DEF ReadStaysTrue
  <2>1. read.approval = "approved" => job'.approval = "approved"
    BY DEF ReadStaysTrue, JobMoves
  <2>2. read.status = "awaiting_approval" => job'.approval \in Published
    BY DEF ReadStaysTrue, JobMoves
  <2>3. read.status = "succeeded" => job'.status = "succeeded" /\ read.outcome = job'.outcome
    BY DEF ReadStaysTrue, JobMoves
  <2>4. (read.status \in {"awaiting_approval", "succeeded"} /\ read.scenario # "none") =>
            read.path = job'.path
    BY DEF ReadStaysTrue, JobMoves
  <2>5. read.path \cap Effects \subseteq done'
    BY DEF ReadStaysTrue, JobMoves
  <2>6. QED
    BY <2>1, <2>2, <2>3, <2>4, <2>5 DEF ReadStaysTrue
<1>3. ViewIsWhole'
  BY DEF ViewIsWhole, ReadStaysTrue, JobMoves
<1>4. PassIsEarned'
  <2> SUFFICES ASSUME exit = "pass" PROVE PassIsEarned'
    BY DEF PassIsEarned
  <2>1. CASE job.status = "succeeded"
    BY <2>1 DEF PassIsEarned, JobMoves, EffectsRecorded
  <2>2. CASE job.approval \in {"pending", "expired"} /\ "approval" \in job.path
    <3>1. job'.approval \in Published /\ job'.path = job.path /\ job'.outcome = job.outcome
      BY <2>2 DEF JobMoves, Published
    <3>2. \/ job'.status = "succeeded"
          \/ job'.approval \in {"pending", "expired"} /\ "approval" \in job'.path
      BY <2>2, <3>1 DEF RowAgrees, Published
    <3>3. QED
      BY <2>2, <3>1, <3>2 DEF PassIsEarned, EffectsRecorded
  <2>3. QED
    BY <2>1, <2>2 DEF PassIsEarned
<1>5. QED
  BY <1>1, <1>2, <1>3, <1>4

\* ServerKeeps: one step per transaction of the server.
LEMMA ServerKeeps == ASSUME IInv, ServerStep PROVE IInv'
<1> USE SmokeAssumption, KindsAreEffects
<1>1. CASE Claim
  <2>1. TypeOK'
    BY <1>1 DEF Claim, IInv, TypeOK, Jobs, client, Statuses
  <2>2. RowAgrees' /\ JobMoves
    BY <1>1 DEF Claim, IInv, TypeOK, Jobs, RowAgrees, JobMoves, Published
  <2>3. EffectsRecorded'
    BY <1>1 DEF Claim, IInv, TypeOK, Jobs, EffectsRecorded
  <2>4. QED
    BY <1>1, <2>1, <2>2, <2>3, ServerFrame DEF Claim
<1>2. CASE Park
  <2>1. TypeOK'
    BY <1>2 DEF Park, IInv, TypeOK, Jobs, client, Statuses, Outcomes, Approvals
  <2>2. RowAgrees' /\ JobMoves
    BY <1>2 DEF Park, IInv, TypeOK, Jobs, RowAgrees, JobMoves, Published
  <2>3. EffectsRecorded'
    BY <1>2 DEF Park, IInv, TypeOK, Jobs, EffectsRecorded
  <2>4. QED
    BY <1>2, <2>1, <2>2, <2>3, ServerFrame DEF Park
<1>3. ASSUME NEW s \in {"succeeded", "failed", "failed_uncertain"}, NEW o \in Outcomes,
             NEW p \in SUBSET Entries, job' = Ended(s, o, p), job.status = "running",
             p \cap Effects \subseteq done, args.case = "malformed" => p = {},
             UNCHANGED <<done, run, attempts, resolves, read, args, client>>
      PROVE  IInv'
  <2>1. TypeOK'
    BY <1>3 DEF Ended, IInv, TypeOK, Jobs, client, Statuses, Approvals
  <2>2. job.approval \notin Published
    BY <1>3 DEF IInv, RowAgrees, Published
  <2>3. RowAgrees' /\ JobMoves
    BY <1>3, <2>2 DEF Ended, IInv, TypeOK, Jobs, RowAgrees, JobMoves, Published
  <2>4. EffectsRecorded'
    BY <1>3, <2>2 DEF Ended, IInv, TypeOK, Jobs, EffectsRecorded, Published
  <2>5. QED
    BY <1>3, <2>1, <2>3, <2>4, ServerFrame
<1>4. CASE Succeed
  <2>1. CASE args.case = "malformed"
    <3>1. job' = Ended("succeeded", "unreadable", {})
      BY <1>4, <2>1 DEF Succeed
    <3>2. QED
      BY <1>4, <3>1, <1>3 DEF Succeed, Outcomes
  <2>2. CASE args.case # "malformed"
    <3>1. PICK o \in {"other", "missing_contact"} :
              job' = Ended("succeeded", o, run \cup {"closed"})
      BY <1>4, <2>2 DEF Succeed
    <3>2. /\ run \cup {"closed"} \in SUBSET Entries
          /\ (run \cup {"closed"}) \cap Effects \subseteq done
      BY DEF IInv, TypeOK, Entries, EffectsRecorded, Effects
    <3>3. QED
      BY <1>4, <2>2, <3>1, <3>2, <1>3 DEF Succeed, Outcomes
  <2>3. QED
    BY <2>1, <2>2
<1>5. CASE Fail
  <2>1. \E s \in {"failed", "failed_uncertain"} : job' = Ended(s, "none", {})
    BY <1>5 DEF Fail
  <2>2. QED
    BY <1>5, <2>1, <1>3 DEF Fail, Outcomes
<1>6. CASE Requeue
  <2>1. TypeOK'
    BY <1>6 DEF Requeue, IInv, TypeOK, Jobs, client, Statuses
  <2>2. RowAgrees' /\ JobMoves
    BY <1>6 DEF Requeue, IInv, TypeOK, Jobs, RowAgrees, JobMoves, Published
  <2>3. EffectsRecorded'
    BY <1>6 DEF Requeue, IInv, TypeOK, Jobs, EffectsRecorded
  <2>4. QED
    BY <1>6, <2>1, <2>2, <2>3, ServerFrame DEF Requeue
<1>7. CASE Deploy
  <2>1. TypeOK' /\ RowAgrees' /\ EffectsRecorded' /\ JobMoves
    BY <1>7 DEF Deploy, IInv, TypeOK, client, RowAgrees, EffectsRecorded, JobMoves
  <2>2. QED
    BY <1>7, <2>1, ServerFrame DEF Deploy
<1>8. ASSUME NEW t \in Actions, Tool(t) PROVE IInv'
  <2>1. TypeOK'
    BY <1>8 DEF Tool, IInv, TypeOK, client, Entries, Effects
  <2>2. RowAgrees' /\ JobMoves
    BY <1>8 DEF Tool, IInv, RowAgrees, JobMoves
  <2>3. EffectsRecorded'
    BY <1>8 DEF Tool, Working, IInv, EffectsRecorded
  <2>4. QED
    BY <1>8, <2>1, <2>2, <2>3, ServerFrame DEF Tool
<1>9. ASSUME NEW t \in Actions, Stage(t) PROVE IInv'
  <2>1. TypeOK'
    BY <1>9 DEF Stage, IInv, TypeOK, Jobs, client, Entries, Approvals
  <2>2. RowAgrees' /\ JobMoves
    BY <1>9 DEF Stage, Working, IInv, TypeOK, Jobs, RowAgrees, JobMoves, Published
  <2>3. EffectsRecorded'
    BY <1>9 DEF Stage, Working, IInv, TypeOK, Jobs, EffectsRecorded, Effects
  <2>4. QED
    BY <1>9, <2>1, <2>2, <2>3, ServerFrame DEF Stage
<1>10. ASSUME NEW d \in {"approved", "rejected", "expired"}, Decide(d) PROVE IInv'
  <2>1. TypeOK'
    BY <1>10 DEF Decide, Decided, IInv, TypeOK, Jobs, client, Statuses, Approvals
  <2>2. RowAgrees' /\ JobMoves
    BY <1>10 DEF Decide, Decided, IInv, TypeOK, Jobs, RowAgrees, JobMoves, Published
  <2>3. args.case # "malformed"
    BY <1>10 DEF Decide, IInv, RowAgrees, EffectsRecorded, Published
  <2>4. EffectsRecorded'
    BY <1>10, <2>3 DEF Decide, Decided, IInv, TypeOK, Jobs, EffectsRecorded
  <2>5. QED
    BY <1>10, <2>1, <2>2, <2>4, ServerFrame DEF Decide
<1>11. QED
  BY <1>1, <1>2, <1>4, <1>5, <1>6, <1>7, <1>8, <1>9, <1>10 DEF ServerStep

\* OwnAnswerEarned: the handler's own answer passes only if the job, as it is
\* now, earned it.
LEMMA OwnAnswerEarned ==
    ASSUME IInv, phase = "answer", Verdict(read) = "pass"
    PROVE  /\ args.scenario = "expected"
           /\ \/ job.status = "succeeded"
              \/ job.approval \in {"pending", "expired"} /\ "approval" \in job.path
           /\ args.expect = "tool" => job.path \cap Actions # {}
           /\ args.expect = "approval" => "approval" \in job.path
           /\ args.case \in {"body_incomplete", "webhook_body"} =>
                  job.outcome = "missing_contact" /\ job.path \cap Effects = {}
           /\ args.case = "malformed" => job.outcome = "unreadable" /\ done = {}
           /\ args.case \in Twice => sent = 2 /\ progress.second # "none"
<1> USE DEF IInv
<1>1. ~WrongScenario(read) /\ PathHolds(read) /\ CaseHolds(read, progress.second)
      /\ read.status \notin {"failed", "failed_uncertain", "queued", "running"}
  BY DEF Verdict
<1>2. read.status \in {"awaiting_approval", "succeeded"} /\ read \in Views
  BY <1>1 DEF TypeOK, Views, Statuses, ReadStaysTrue
<1>3. read.scenario = "expected" /\ args.scenario = "expected"
  BY <1>1, <1>2 DEF WrongScenario, ReadStaysTrue, TypeOK, Views, Commands
<1>4. read.path = job.path
  BY <1>2, <1>3 DEF ReadStaysTrue
<1>5. \/ job.status = "succeeded"
      \/ job.approval \in {"pending", "expired"} /\ "approval" \in job.path
  BY <1>2 DEF ReadStaysTrue, RowAgrees, Published
<1>6. /\ args.expect = "tool" => job.path \cap Actions # {}
      /\ args.expect = "approval" => "approval" \in job.path
  BY <1>1, <1>4 DEF PathHolds
<1>7. /\ args.case \in {"body_incomplete", "webhook_body"} =>
             job.outcome = "missing_contact" /\ job.path \cap Effects = {}
      /\ args.case = "malformed" => job.outcome = "unreadable" /\ done = {}
  BY <1>1, <1>4 DEF CaseHolds, Incomplete, ReadStaysTrue, EffectsRecorded
<1>8. args.case \in Twice => sent = 2 /\ progress.second # "none"
  BY <1>1 DEF CaseHolds, Twice, ClientKnows
<1>9. QED
  BY <1>3, <1>5, <1>6, <1>7, <1>8

\* ClientKeeps: one step per action of the client and of the handler.
LEMMA ClientKeeps == ASSUME IInv, ClientStep \/ Tick PROVE IInv'
<1> USE SmokeAssumption DEF IInv, server
<1>1. CASE Start
  BY <1>1 DEF Start, Over, TypeOK, Exits, RowAgrees, EffectsRecorded, ClientKnows,
     ReadStaysTrue, ViewIsWhole, PassIsEarned, FailureKeepsEvidence, Rejections
<1>2. CASE PostFirst
  <2>1. TypeOK'
    <3>1. Accepted \in Progresses
      BY DEF Accepted, NoProgress, NoView, Progresses, Views, Statuses, Outcomes, Approvals
    <3>2. job' \in Jobs /\ sent' \in 0 .. 2
      BY <1>2 DEF PostFirst, TypeOK, Jobs, Statuses
    <3>3. QED
      BY <1>2, <3>1, <3>2 DEF PostFirst, AfterFirst, TypeOK
  <2>2. RowAgrees'
    BY <1>2 DEF PostFirst, TypeOK, Jobs, RowAgrees, ClientKnows, Published
  <2>3. EffectsRecorded'
    BY <1>2 DEF PostFirst, TypeOK, Jobs, EffectsRecorded
  <2>4. ClientKnows' /\ FailureKeepsEvidence'
    BY <1>2 DEF PostFirst, AfterFirst, Accepted, NoProgress, ClientKnows, TypeOK, Jobs,
       FailureKeepsEvidence, Garbled, ReadCodes
  <2>5. ReadStaysTrue' /\ ViewIsWhole' /\ PassIsEarned'
    BY <1>2 DEF PostFirst, AfterFirst, ReadStaysTrue, ViewIsWhole, PassIsEarned, ClientKnows
  <2>6. QED
    BY <2>1, <2>2, <2>3, <2>4, <2>5
<1>3. ASSUME NEW code \in Garbled, PostFirstFails(code) PROVE IInv'
  <2>1. TypeOK'
    <3>1. job' \in Jobs /\ sent' \in 0 .. 2 /\ exit' \in Exits
      BY <1>3 DEF PostFirstFails, Over, TypeOK, Jobs, Statuses, Exits
    <3>2. QED
      BY <1>3, <3>1 DEF PostFirstFails, Over, TypeOK
  <2>2. RowAgrees'
    BY <1>3 DEF PostFirstFails, TypeOK, Jobs, RowAgrees, ClientKnows, Published
  <2>3. EffectsRecorded'
    BY <1>3 DEF PostFirstFails, TypeOK, Jobs, EffectsRecorded
  <2>4. ClientKnows' /\ FailureKeepsEvidence'
    BY <1>3 DEF PostFirstFails, Over, ClientKnows, FailureKeepsEvidence, TypeOK, Jobs, Garbled
  <2>5. ReadStaysTrue' /\ ViewIsWhole' /\ PassIsEarned'
    BY <1>3 DEF PostFirstFails, Over, ReadStaysTrue, ViewIsWhole, PassIsEarned, Garbled
  <2>6. QED
    BY <2>1, <2>2, <2>3, <2>4, <2>5
<1>4. CASE PostSecond
  <2>1. TypeOK' /\ RowAgrees' /\ EffectsRecorded'
    BY <1>4 DEF PostSecond, SecondResult, TypeOK, Progresses, RowAgrees, EffectsRecorded
  <2>2. ClientKnows' /\ FailureKeepsEvidence'
    BY <1>4 DEF PostSecond, ClientKnows, FailureKeepsEvidence
  <2>3. ReadStaysTrue' /\ ViewIsWhole' /\ PassIsEarned'
    BY <1>4 DEF PostSecond, ReadStaysTrue, ViewIsWhole, PassIsEarned, ClientKnows
  <2>4. QED
    BY <2>1, <2>2, <2>3
<1>5. ASSUME NEW code \in Exits, PostSecondFails(code) PROVE IInv'
  <2>1. code \in SecondCodes /\ code # "pass" /\ code # "none" /\ code \notin Rejections
    BY <1>5 DEF PostSecondFails, SecondCodes, Garbled, Rejections
  <2>2. TypeOK' /\ RowAgrees' /\ EffectsRecorded'
    <3>1. sent' \in 0 .. 2
      BY <1>5 DEF PostSecondFails
    <3>2. QED
      BY <1>5, <3>1 DEF PostSecondFails, Over, TypeOK, RowAgrees, EffectsRecorded
  <2>3. ClientKnows' /\ FailureKeepsEvidence'
    BY <1>5, <2>1 DEF PostSecondFails, Over, ClientKnows, FailureKeepsEvidence, Rejections
  <2>4. ReadStaysTrue' /\ ViewIsWhole' /\ PassIsEarned'
    BY <1>5, <2>1 DEF PostSecondFails, Over, ReadStaysTrue, ViewIsWhole, PassIsEarned
  <2>5. QED
    BY <2>2, <2>3, <2>4
<1>6. CASE ReadRow
  <2>1. TypeOK' /\ RowAgrees' /\ EffectsRecorded'
    BY <1>6 DEF ReadRow, Joined, TypeOK, Jobs, Views, Commands, Approvals, RowAgrees,
       EffectsRecorded
  <2>2. ClientKnows' /\ FailureKeepsEvidence' /\ ViewIsWhole'
        /\ PassIsEarned'
    BY <1>6 DEF ReadRow, ClientKnows, FailureKeepsEvidence,
       ViewIsWhole, PassIsEarned
  <2>3. ReadStaysTrue'
    <3>1. polls < MaxPolls
      BY <1>6 DEF ReadRow, TimeUp, TypeOK
    <3>2. Joined(job.approval) \in Published \cup {"none"}
      BY DEF Joined, Published, TypeOK, Jobs, Approvals
    <3>3. QED
      BY <1>6, <3>1, <3>2 DEF ReadRow, Joined, ReadStaysTrue, RowAgrees, EffectsRecorded,
         ClientKnows, Published, TypeOK, Jobs
  <2>4. QED
    BY <2>1, <2>2, <2>3
<1>7. CASE ReadRefs
  <2>1. TypeOK' /\ RowAgrees' /\ EffectsRecorded'
    <3>1. ShownPath(read.path) \in SUBSET Entries /\ done \cap Kinds \in SUBSET Kinds
          /\ ShownApproval(read.approval, read.status) \in Approvals
      BY DEF ShownPath, ShownApproval, TypeOK, Views, Approvals
    <3>2. read' \in Views
      BY <1>7, <3>1 DEF ReadRefs, TypeOK, Views
    <3>3. QED
      BY <1>7, <3>2 DEF ReadRefs, TypeOK, RowAgrees, EffectsRecorded
  <2>2. ClientKnows' /\ FailureKeepsEvidence' /\ PassIsEarned'
    BY <1>7 DEF ReadRefs, ClientKnows, FailureKeepsEvidence,
       PassIsEarned
  <2>3. ReadStaysTrue'
    BY <1>7 DEF ReadRefs, ShownPath, ShownApproval, ReadStaysTrue, Published, TypeOK, Views
  <2>4. ViewIsWhole'
    BY <1>7, KindsAreEffects DEF ReadRefs, ShownPath, ShownApproval, ViewIsWhole,
       ReadStaysTrue, RowAgrees, EffectsRecorded, Published, TypeOK, Views, Jobs
  <2>5. QED
    BY <2>1, <2>2, <2>3, <2>4
<1>8. CASE Receive
  <2>1. ~Foreign(read)
    BY <1>8 DEF Receive, Foreign, ReadStaysTrue
  <2>2. /\ Verdict(read) \in Verdicts /\ Verdict(read) # "trace_id_mismatch"
        /\ Verdict(read) = "scenario_mismatch" => WrongScenario(read)
    BY <2>1 DEF Verdict, Verdicts
  <2>3. /\ progress' = [progress EXCEPT !.last = read] /\ progress = told
        /\ told' = IF Verdict(read) = "scenario_mismatch" THEN told
                   ELSE [told EXCEPT !.last = read]
    BY <1>8, <2>2 DEF Receive, Handle, Evidence, ClientKnows, Rejections
  <2>4. \/ /\ Verdict(read) = "again" /\ phase' = "poll" /\ polls' = polls + 1
           /\ UNCHANGED exit
        \/ /\ Verdict(read) # "again" /\ phase' = "over" /\ exit' = Verdict(read)
           /\ UNCHANGED polls
    BY <1>8 DEF Receive, Handle, Over, Counted
  <2>5. TypeOK'
    <3>1. polls' \in 0 .. MaxPolls /\ exit' \in Exits
      BY <1>8, <2>2, <2>4 DEF Receive, TypeOK, ReadStaysTrue, Exits
    <3>2. progress' \in Progresses /\ told' \in Progresses /\ read' \in Views
      BY <1>8, <2>3 DEF Receive, TypeOK, Progresses, NoView, Views, Statuses, Outcomes, Approvals
    <3>3. QED
      BY <1>8, <2>4, <3>1, <3>2 DEF Receive, TypeOK
  <2>6. RowAgrees' /\ EffectsRecorded' /\ ReadStaysTrue' /\ ViewIsWhole'
    BY <1>8, <2>4 DEF Receive, RowAgrees, EffectsRecorded, ReadStaysTrue, ViewIsWhole
  <2>7. ClientKnows'
    BY <1>8, <2>2, <2>3, <2>4 DEF Receive, ClientKnows, TypeOK, Progresses, Verdicts
  <2>8. FailureKeepsEvidence'
    <3>1. /\ progress'.last = read
          /\ progress'.accepted = told'.accepted /\ progress'.second = told'.second
          /\ Verdict(read) # "scenario_mismatch" => told'.last = read
      BY <2>3 DEF TypeOK, Progresses
    <3>2. WrongScenario(read) => WrongScenario(progress.last)'
      BY <3>1 DEF WrongScenario
    <3>3. QED
      BY <2>2, <2>4, <3>1, <3>2 DEF FailureKeepsEvidence, Rejections
  <2>9. PassIsEarned'
    <3>1. CASE exit' = "pass"
      <4>1. Verdict(read) = "pass" /\ phase = "answer" /\ honest'
        BY <1>8, <2>4, <3>1 DEF Receive, ClientKnows
      <4>2. told'.second = progress.second
        BY <2>3 DEF TypeOK, Progresses
      <4>3. QED
        BY <1>8, <4>1, <4>2, OwnAnswerEarned DEF Receive, PassIsEarned
    <3>2. CASE exit' # "pass"
      BY <3>2 DEF PassIsEarned
    <3>3. QED
      BY <3>1, <3>2
  <2>10. QED
    BY <2>5, <2>6, <2>7, <2>8, <2>9
<1>9. CASE ReceiveForeign
  <2>1. PICK s \in {"running", "succeeded"} :
            Handle([read EXCEPT !.id = "other", !.status = s, !.approval = "none"])
    BY <1>9 DEF ReceiveForeign
  <2> DEFINE v == [read EXCEPT !.id = "other", !.status = s, !.approval = "none"]
  <2>2. v \in Views /\ v.id = "other" /\ v.approval = "none"
    BY DEF TypeOK, Views, Statuses, Approvals
  <2>3. Verdict(v) = "trace_id_mismatch" /\ progress' = [progress EXCEPT !.last = v]
    BY <2>1, <2>2 DEF Verdict, Foreign, Handle, Evidence
  <2>4. phase' = "over" /\ exit' = "trace_id_mismatch" /\ UNCHANGED polls
    BY <2>1, <2>3 DEF Handle, Over
  <2>5. TypeOK'
    <3>1. progress' \in Progresses /\ read' \in Views /\ exit' \in Exits
      BY <1>9, <2>2, <2>3, <2>4 DEF ReceiveForeign, TypeOK, Progresses, NoView, Views,
         Statuses, Outcomes, Approvals, Exits, Verdicts
    <3>2. QED
      BY <1>9, <2>4, <3>1 DEF ReceiveForeign, TypeOK
  <2>6. RowAgrees' /\ EffectsRecorded' /\ ReadStaysTrue' /\ ViewIsWhole' /\ PassIsEarned'
    BY <1>9, <2>4 DEF ReceiveForeign, RowAgrees, EffectsRecorded, ReadStaysTrue, ViewIsWhole,
       PassIsEarned
  <2>7. ClientKnows' /\ FailureKeepsEvidence'
    <3>1. /\ progress'.last = v /\ progress'.accepted = told'.accepted
          /\ progress'.second = told'.second
      BY <1>9, <2>3 DEF ReceiveForeign, TypeOK, Progresses, ClientKnows
    <3> HIDE DEF v
    <3>2. Foreign(progress.last)' /\ ClientKnows'
      BY <1>9, <2>2, <2>4, <3>1 DEF ReceiveForeign, Foreign, ClientKnows
    <3>3. QED
      BY <2>4, <3>1, <3>2 DEF FailureKeepsEvidence, Rejections
  <2>8. QED
    BY <2>5, <2>6, <2>7
<1>10. ASSUME NEW code \in ReadCodes, ReceiveNothing(code) PROVE IInv'
  <2>1. code \in Exits /\ code # "none" /\ code # "pass" /\ code \notin Rejections
    BY <1>10 DEF ReadCodes, Exits, Rejections
  <2>2. NoView \in Views
    BY DEF NoView, Views, Statuses, Outcomes, Approvals
  <2>3. TypeOK' /\ RowAgrees' /\ EffectsRecorded' /\ ReadStaysTrue' /\ ViewIsWhole'
    BY <1>10, <2>1, <2>2 DEF ReceiveNothing, Over, TypeOK, RowAgrees, EffectsRecorded,
       ReadStaysTrue, ViewIsWhole
  <2>4. ClientKnows' /\ FailureKeepsEvidence' /\ PassIsEarned'
    BY <1>10, <2>1 DEF ReceiveNothing, Over, ClientKnows, FailureKeepsEvidence, PassIsEarned,
       Rejections
  <2>5. QED
    BY <2>3, <2>4
<1>11. CASE PollTimeout
  BY <1>11 DEF PollTimeout, Over, TypeOK, Exits, RowAgrees, EffectsRecorded, ClientKnows,
     ReadStaysTrue, ViewIsWhole, PassIsEarned, FailureKeepsEvidence, Rejections
<1>12. CASE Tick
  BY <1>12 DEF Tick, TypeOK, RowAgrees, EffectsRecorded, ClientKnows, ReadStaysTrue,
     ViewIsWhole, PassIsEarned, FailureKeepsEvidence
<1>13. QED
  BY <1>1, <1>2, <1>3, <1>4, <1>5, <1>6, <1>7, <1>8, <1>9, <1>10, <1>11, <1>12 DEF ClientStep

\* SmokeInvariant: the inductive invariant of reader, client and job.
THEOREM SmokeInvariant == Spec => []IInv
<1>1. Init => IInv
  <2> SUFFICES ASSUME Init PROVE IInv
    OBVIOUS
  <2>1. TypeOK
    <3>1. NoView \in Views
      BY DEF NoView, Views, Statuses, Outcomes, Approvals
    <3>2. NoProgress \in Progresses
      BY <3>1 DEF NoProgress, Progresses
    <3>3. job \in Jobs
      BY DEF Init, Jobs, Statuses, Outcomes, Approvals
    <3>4. /\ exit \in Exits /\ polls \in 0 .. MaxPolls /\ attempts \in 0 .. MaxAttempts
          /\ sent \in 0 .. 2 /\ phase = "start"
      BY SmokeAssumption DEF Init, Exits
    <3>5. resolves \in BOOLEAN /\ expired \in BOOLEAN /\ honest \in BOOLEAN
      BY Zenon DEF Init
    <3>6. /\ done \subseteq Effects /\ run \subseteq Entries /\ args \in Commands
          /\ read \in Views /\ progress \in Progresses /\ told \in Progresses
      BY <3>1, <3>2 DEF Init
    <3>7. QED
      BY <3>3, <3>4, <3>5, <3>6 DEF TypeOK
  <2>2. RowAgrees /\ EffectsRecorded /\ ClientKnows /\ ReadStaysTrue
    BY DEF Init, RowAgrees, EffectsRecorded, ClientKnows, ReadStaysTrue, NoProgress, Published
  <2>3. ViewIsWhole /\ PassIsEarned /\ FailureKeepsEvidence
    BY DEF Init, ViewIsWhole, PassIsEarned, FailureKeepsEvidence,
       Garbled, ReadCodes
  <2>4. QED
    BY <2>1, <2>2, <2>3 DEF IInv
<1>2. IInv /\ [Next]_vars => IInv'
  <2>1. ASSUME IInv, UNCHANGED vars PROVE IInv'
    BY <2>1 DEF vars, server, client, IInv, TypeOK, RowAgrees, EffectsRecorded, ClientKnows,
       ReadStaysTrue, ViewIsWhole, PassIsEarned,
       FailureKeepsEvidence
  <2>2. QED
    BY <2>1, ServerKeeps, ClientKeeps DEF Next
<1>3. QED
  BY <1>1, <1>2, PTL DEF Spec

\* SmokeTypesHold: types hold, so the number of polls stays within max_polls.
THEOREM SmokeTypesHold == Spec => []TypeOK
<1>1. IInv => TypeOK
  BY DEF IInv
<1>2. QED
  BY <1>1, SmokeInvariant, PTL

\* PassesAreEarned: a PASS is about the client's own job and true of what the
\* server has persisted, whatever the job does and whatever answers are lost or
\* swapped on the way.
THEOREM PassesAreEarned == Spec => []PassIsEarned
<1>1. IInv => PassIsEarned
  BY DEF IInv
<1>2. QED
  BY <1>1, SmokeInvariant, PTL

\* ViewsAreWhole: reading the row before the references suffices; no isolation
\* across the statements is needed.
THEOREM ViewsAreWhole == Spec => []ViewIsWhole
<1>1. IInv => ViewIsWhole
  BY DEF IInv
<1>2. QED
  BY <1>1, SmokeInvariant, PTL

\* EvidenceKept: every failure keeps the accepted identity and second delivery,
\* and shows the latest accepted poll, or the poll that it says it rejected.
THEOREM EvidenceKept == Spec => []FailureKeepsEvidence
<1>1. IInv => FailureKeepsEvidence
  BY DEF IInv
<1>2. QED
  BY <1>1, SmokeInvariant, PTL

\* ReportsAreHonest: a PASS is true of the job, and a failure shows what the accepted
\* answers said or, under the code that says so, the poll it rejected, for any
\* number of polls and attempts.
THEOREM ReportsAreHonest == Spec => []ReportIsHonest
<1>1. PassIsEarned /\ FailureKeepsEvidence => ReportIsHonest
  BY DEF ReportIsHonest
<1>2. QED
  BY <1>1, PassesAreEarned, EvidenceKept, PTL

=============================================================================
