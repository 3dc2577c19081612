---------------------- MODULE EffectTransactionsProofs ----------------------
(***************************************************************************)
(* Proofs about EffectTransactions, for every set of jobs, tools, requests *)
(* and sweepers and every number of attempts.                              *)
(***************************************************************************)
EXTENDS EffectTransactions, TLAPS

\* Processes and their jobs.
LEMMA Processes ==
    ASSUME TypeOK
    PROVE  /\ Threads \subseteq Procs /\ Requests \subseteq Procs /\ Sweepers \subseteq Procs
           /\ \A t \in Threads : /\ t \notin Requests /\ t \notin Sweepers
                                 /\ JobOf(t) = t[1] /\ t[1] \in Jobs
                                 /\ t[2] \in 1 .. MaxAttempts /\ t = <<t[1], t[2]>>
           /\ \A r \in Requests : /\ r \notin Threads /\ r \notin Sweepers
                                  /\ JobOf(r) = on[r] /\ on[r] \in Jobs
           /\ \A s \in Sweepers : s \notin Threads /\ s \notin Requests
BY EffectAssumption DEF TypeOK, Procs, Threads, JobOf

\* The row of an action is a row of the job, or the case.
LEMMA ActionRows ==
    ASSUME TypeOK, NEW p \in Threads \cup Requests,
           tool[p] \in CaseTools \cup ArtifactTools
    PROVE  /\ ActionRow(p) \in Rows
           /\ ActionRow(p)[1] = tool[p]
           /\ ActionRow(p)[2] = JobOf(p) \/ ActionRow(p) = <<"update_case_fields", "case">>
           /\ tool[p] # "update_case_fields" => ActionRow(p) = <<tool[p], JobOf(p)>>
           /\ tool[p] = "update_case_fields" => ActionRow(p) = <<"update_case_fields", "case">>
BY Processes DEF ActionRow, Rows, CaseTools, ArtifactTools

\* Locking rows keeps the type of held.
LEMMA LockTyped ==
    ASSUME TypeOK, NEW p \in Procs, NEW R \in SUBSET Rows, Lock(p, R)
    PROVE  held' \in [Procs -> SUBSET Rows]
BY DEF TypeOK, Lock

\* The steps of an agent thread keep the types.
LEMMA ThreadTypes ==
    ASSUME TypeOK, NEW t \in Threads, ThreadKnows(t), ThreadStep(t)
    PROVE  TypeOK'
<1>0. t \in Procs /\ t[1] \in Jobs /\ t \notin Requests BY Processes
<1>0a. <<"job", t[1]>> \in Rows BY <1>0 DEF Rows
<1>1. ASSUME NEW k \in Tools, BeginTool(t, k) \/ Ask(t, k) PROVE TypeOK'
  BY <1>0, <1>1 DEF BeginTool, Ask, TypeOK, PC, rowVars, reqVars, Goto
<1>2. CASE PassFence(t) \/ LockForStaging(t) \/ LockForPark(t)
  <2>1. held' \in [Procs -> SUBSET Rows]
    BY <1>0, <1>0a, <1>2, LockTyped DEF PassFence, LockForStaging, LockForPark
  <2> QED
    BY <1>0, <1>2, <2>1 DEF PassFence, LockForStaging, LockForPark, TypeOK, PC,
                            rowVars, reqVars, Goto
<1>3. CASE WaitAtFence(t)
  BY <1>0, <1>3 DEF WaitAtFence, TypeOK, PC, rowVars, reqVars, Goto
<1>4. CASE FailFence(t) \/ AbortTool(t) \/ AbortApproval(t)
  BY <1>0, <1>4 DEF FailFence, AbortTool, AbortApproval, TypeOK, PC, rowVars, reqVars, Goto, Release
<1>5. CASE CommitTool(t)
  BY <1>0, <1>5 DEF CommitTool, Effects, Marks, TypeOK, PC, rowVars, reqVars, Goto, Release
<1>6. CASE Stage(t)
  BY <1>0, <1>6 DEF Stage, ThreadKnows, TypeOK, PC, rowVars, reqVars, Goto, Release
<1>7. CASE Park(t)
  BY <1>0, <1>7 DEF Park, TypeOK, PC, rowVars, reqVars, Goto, Release, JobStatus
<1>. QED BY <1>1, <1>2, <1>3, <1>4, <1>5, <1>6, <1>7 DEF ThreadStep

\* The statements of an action keep the types.
LEMMA ActionTypes ==
    ASSUME TypeOK, NEW p \in Threads \cup Requests, ActionStep(p),
           pc[p] = "insert" => tool[p] \in ArtifactTools
    PROVE  TypeOK'
<1>0. p \in Procs /\ JobOf(p) \in Jobs BY Processes
<1>1. AfterRows(p) \in PC BY DEF AfterRows, PC
<1>2. tool[p] \in CaseTools \cup ArtifactTools => ActionRow(p) \in Rows
  BY ActionRows
<1>3. <<"key", JobOf(p)>> \in Rows BY <1>0 DEF Rows
<1>4. CASE LockActionRow(p)
  <2>1. held' \in [Procs -> SUBSET Rows] BY <1>0, <1>2, <1>4, LockTyped DEF LockActionRow
  <2> QED BY <1>0, <1>1, <1>4, <2>1 DEF LockActionRow, TypeOK, rowVars, reqVars, Goto
<1>5. CASE ReuseCase(p)
  <2>0. tool[p] \in CaseTools BY <1>5 DEF ReuseCase, CaseTools
  <2>1. held' \in [Procs -> SUBSET Rows]
    BY <1>0, <1>2, <1>5, <2>0, LockTyped DEF ReuseCase, Release, TypeOK
  <2>2. tool' \in [Procs -> Tools \cup {"none", "reused"}]
    BY <1>0, <1>5 DEF ReuseCase, Release, TypeOK
  <2>3. pc' = [pc EXCEPT ![p] = "idle"] \/ pc' = [pc EXCEPT ![p] = "commit"]
    BY <1>5 DEF ReuseCase, Goto
  <2>4. pc' \in [Procs -> PC]
    BY <1>0, <2>3 DEF TypeOK, PC
  <2> QED BY <1>5, <2>1, <2>2, <2>4 DEF ReuseCase, TypeOK, rowVars, reqVars
<1>6. CASE ReuseArtifact(p)
  <2>1. held' \in [Procs -> SUBSET Rows] BY <1>0, <1>2, <1>6, LockTyped DEF ReuseArtifact
  <2> QED BY <1>0, <1>1, <1>6, <2>1 DEF ReuseArtifact, TypeOK, rowVars, reqVars, Goto
<1>7. CASE MissArtifact(p)
  BY <1>0, <1>7 DEF MissArtifact, TypeOK, rowVars, reqVars, Goto, PC
<1>8. CASE InsertArtifact(p)
  <2>1. held' \in [Procs -> SUBSET Rows] BY <1>0, <1>2, <1>8, LockTyped DEF InsertArtifact
  <2> QED BY <1>0, <1>8, <2>1 DEF InsertArtifact, TypeOK, rowVars, reqVars, Goto, PC
<1>9. CASE LoseArtifact(p)
  BY <1>0, <1>1, <1>9 DEF LoseArtifact, TypeOK, rowVars, reqVars, Goto
<1>10. CASE CheckKey(p)
  <2>1. held' \in [Procs -> SUBSET Rows] BY <1>0, <1>3, <1>10, LockTyped DEF CheckKey
  <2> QED BY <1>0, <1>1, <1>10, <2>1 DEF CheckKey, TypeOK, rowVars, reqVars, Goto
<1> QED BY <1>4, <1>5, <1>6, <1>7, <1>8, <1>9, <1>10 DEF ActionStep

\* The steps of a decide request keep the types.
LEMMA RequestTypes ==
    ASSUME TypeOK, NEW r \in Requests, RequestStep(r)
    PROVE  TypeOK'
<1>0. r \in Procs /\ on[r] \in Jobs BY Processes
<1>1. <<"approval", on[r]>> \in Rows /\ <<"job", on[r]>> \in Rows BY <1>0 DEF Rows
<1>2. CASE Arrive(r)
  BY <1>0, <1>2 DEF Arrive, TypeOK, rowVars, Goto, PC
<1>3. CASE LockApproval(r)
  <2>1. held' \in [Procs -> SUBSET Rows] BY <1>0, <1>1, <1>3, LockTyped DEF LockApproval
  <2> QED BY <1>0, <1>3, <2>1 DEF LockApproval, TypeOK, rowVars, Goto, PC
<1>4. CASE WaitForApproval(r)
  BY <1>0, <1>4 DEF WaitForApproval, TypeOK, rowVars, Goto, PC
<1>5. CASE NotFound(r)
  BY <1>0, <1>5 DEF NotFound, TypeOK, rowVars, Goto, PC, Answer, Answers
<1>6. CASE RecheckApproval(r)
  <2>1. held' \in [Procs -> SUBSET Rows]
    BY <1>0, <1>1, <1>6, LockTyped DEF RecheckApproval, TypeOK
  <2>2. pc' \in [Procs -> PC] /\ ans' \in [Requests -> Answers]
    BY <1>0, <1>6 DEF RecheckApproval, TypeOK, Goto, PC, Answer, Answers
  <2> QED BY <1>6, <2>1, <2>2 DEF RecheckApproval, TypeOK, rowVars
<1>7. CASE LockJob(r)
  <2>1. held' \in [Procs -> SUBSET Rows] BY <1>0, <1>1, <1>7, LockTyped DEF LockJob
  <2> QED BY <1>0, <1>7, <2>1 DEF LockJob, TypeOK, rowVars, reqVars, Goto, PC
<1>8. CASE AnswerDecided(r)
  BY <1>0, <1>8 DEF AnswerDecided, TypeOK, rowVars, Goto, PC, Answer, Answers, Release
<1>9. CASE ExpireNow(r)
  BY <1>0, <1>9 DEF ExpireNow, Finalize, TypeOK, Goto, PC, Answer, Answers, Release,
                    Decided, JobStatus, Terminal
<1>10. CASE Reject(r)
  BY <1>0, <1>10 DEF Reject, Finalize, TypeOK, Goto, PC, Answer, Answers, Release,
                     Decided, JobStatus, Terminal
<1>11. CASE Approve(r)
  BY <1>0, <1>11 DEF Approve, TypeOK, rowVars, reqVars, Goto, PC
<1>12. CASE CommitApproved(r)
  <2>1. cases' \in [Jobs -> Nat] /\ arts' \in [Jobs -> [ArtifactTools -> Nat]]
        /\ marker' \in [Jobs -> BOOLEAN]
    BY <1>0, <1>12 DEF CommitApproved, Effects, Marks, TypeOK
  <2>2. appr' \in [Jobs -> {"none", "staged", "pending", "cancelled"} \cup Decided]
        /\ status' \in [Jobs -> JobStatus]
    BY <1>0, <1>12 DEF CommitApproved, Finalize, TypeOK, Decided, JobStatus, Terminal
  <2>3. pc' \in [Procs -> PC] /\ ans' \in [Requests -> Answers]
    BY <1>0, <1>12 DEF CommitApproved, TypeOK, Goto, PC, Answer, Answers, Decided
  <2>4. /\ held' \in [Procs -> SUBSET Rows] /\ done' \in [Jobs -> Nat]
        /\ tool' \in [Procs -> Tools \cup {"none", "reused"}]
    BY <1>0, <1>12 DEF CommitApproved, TypeOK, Release
  <2> QED BY <1>12, <2>1, <2>2, <2>3, <2>4 DEF CommitApproved, TypeOK
<1>13. ASSUME NEW a \in {"conflict", "error"}, FailRequest(r, a) PROVE TypeOK'
  BY <1>0, <1>13 DEF FailRequest, TypeOK, rowVars, Goto, PC, Answer, Answers, Release
<1> QED BY <1>2, <1>3, <1>4, <1>5, <1>6, <1>7, <1>8, <1>9, <1>10, <1>11, <1>12, <1>13
           DEF RequestStep

\* The steps of the expiry sweep keep the types.
LEMMA SweepTypes ==
    ASSUME TypeOK, NEW s \in Sweepers, SweepStep(s)
    PROVE  TypeOK'
<1>0. s \in Procs BY Processes
<1>1. CASE SelectDue(s)
  <2>1. {<<"approval", j>> : j \in {i \in Jobs : DueRow(s, i)}} \in SUBSET Rows BY DEF Rows
  <2>2. held' \in [Procs -> SUBSET Rows] BY <1>0, <1>1, <2>1, LockTyped DEF SelectDue
  <2> QED BY <1>0, <1>1, <2>2 DEF SelectDue, TypeOK, rowVars, reqVars, Goto, PC
<1>2. ASSUME NEW j \in Jobs, SweepLocksJob(s, j) PROVE TypeOK'
  <2>1. {<<"job", j>>} \in SUBSET Rows BY DEF Rows
  <2>2. held' \in [Procs -> SUBSET Rows] BY <1>0, <1>2, <2>1, LockTyped DEF SweepLocksJob
  <2> QED BY <1>2, <2>2 DEF SweepLocksJob, TypeOK, rowVars, reqVars
<1>3. CASE CommitSweep(s)
  BY <1>0, <1>3 DEF CommitSweep, TypeOK, reqVars, Goto, PC, Release, Decided, JobStatus,
                    Terminal
<1>4. CASE AbortSweep(s)
  BY <1>0, <1>4 DEF AbortSweep, TypeOK, rowVars, reqVars, Goto, PC, Release
<1> QED BY <1>1, <1>2, <1>3, <1>4 DEF SweepStep

\* The worker's short transactions keep the types.
LEMMA JobTypes ==
    ASSUME TypeOK, NEW j \in Jobs, JobStep(j)
    PROVE  TypeOK'
<1>1. CASE Claim(j)
  <2>1. <<j, attempt[j] + 1>> \in Procs
    BY <1>1, EffectAssumption DEF Claim, TypeOK, Procs, Threads
  <2> QED BY <1>1, <2>1, EffectAssumption DEF Claim, TypeOK, reqVars, Goto, PC, JobStatus
<1>2. CASE FallsDue(j)
  BY <1>2 DEF FallsDue, TypeOK, reqVars
<1>3. ASSUME NEW s \in Terminal \cup {"queued"}, EndAttempt(j, s) PROVE TypeOK'
  BY <1>3 DEF EndAttempt, TypeOK, reqVars, JobStatus
<1> QED BY <1>1, <1>2, <1>3 DEF JobStep

-----------------------------------------------------------------------------
(* What a transaction knows survives the steps of the others, because the  *)
(* rows it relies on are locked.                                           *)

\* A thread that takes no step keeps what it knows.
LEMMA ThreadKept ==
    ASSUME TypeOK, NEW t \in Threads, ThreadKnows(t),
           pc'[t] = pc[t], held'[t] = held[t], tool'[t] = tool[t],
           attempt[t[1]] \in Nat, attempt'[t[1]] \in Nat,
           attempt'[t[1]] >= attempt[t[1]],
           <<"job", t[1]>> \in held[t] => Owns(t)',
           <<"create_case", t[1]>> \in held[t] => cases'[t[1]] = cases[t[1]],
           \A k \in ArtifactTools :
               <<k, t[1]>> \in held[t] => arts'[t[1]][k] = arts[t[1]][k]
    PROVE  ThreadKnows(t)'
<1>1. t \notin Requests /\ t[2] \in Nat BY Processes
<1>2. Creates(t) => Creates(t)' BY <1>1 DEF Creates, JobOf
<1> QED BY <1>1, <1>2 DEF ThreadKnows

\* A request that takes no step keeps what it knows.
LEMMA RequestKept ==
    ASSUME TypeOK, NEW r \in Requests, RequestKnows(r),
           pc'[r] = pc[r], held'[r] = held[r], tool'[r] = tool[r],
           on' = on, want' = want, ans'[r] = ans[r],
           <<"approval", on[r]>> \in held[r] => appr'[on[r]] = appr[on[r]],
           <<"create_case", on[r]>> \in held[r] => cases'[on[r]] = cases[on[r]],
           \A k \in ArtifactTools :
               <<k, on[r]>> \in held[r] => arts'[on[r]][k] = arts[on[r]][k]
    PROVE  RequestKnows(r)'
<1>1. Creates(r) => Creates(r)' BY DEF Creates, JobOf
<1> QED BY <1>1 DEF RequestKnows

\* A sweep that takes no step keeps what it knows.
LEMMA SweepKept ==
    ASSUME NEW s \in Sweepers, SweepKnows(s), pc'[s] = pc[s], held'[s] = held[s],
           \A j \in Jobs : <<"approval", j>> \in held[s] => appr'[j] = appr[j]
    PROVE  SweepKnows(s)'
BY DEF SweepKnows

\* Locking rows that are free keeps the locks exclusive.
LEMMA LockExcludes ==
    ASSUME TypeOK, LocksExclude, NEW p \in Procs, NEW R \in SUBSET Rows, Lock(p, R),
           \A row \in R : \/ row[1] = "key" /\ Free(p, <<"job", row[2]>>)
                          \/ /\ row[1] # "key" /\ Free(p, row)
                             /\ row[1] = "job" => Free(p, <<"key", row[2]>>)
    PROVE  LocksExclude'
<1>1. /\ held'[p] = held[p] \cup R
      /\ \A q \in Procs \ {p} : held'[q] = held[q]
  BY DEF Lock, TypeOK
<1>2. \A j \in Jobs : <<"job", j>>[1] = "job" /\ <<"job", j>>[2] = j
                     /\ <<"key", j>>[1] = "key" /\ <<"key", j>>[2] = j
  OBVIOUS
<1> SUFFICES ASSUME NEW q1 \in Procs, NEW q2 \in Procs, q1 # q2
            PROVE  /\ \A row \in held'[q1] \cap held'[q2] : row[1] = "key"
                   /\ \A j \in Jobs : <<"job", j>> \in held'[q1] => <<"key", j>> \notin held'[q2]
  BY DEF LocksExclude
<1>3. CASE q1 # p /\ q2 # p
  BY <1>1, <1>3 DEF LocksExclude
<1>4. ASSUME NEW q \in Procs, q # p
      PROVE  /\ \A row \in held'[p] \cap held'[q] : row[1] = "key"
             /\ \A j \in Jobs : /\ <<"job", j>> \in held'[p] => <<"key", j>> \notin held'[q]
                                /\ <<"job", j>> \in held'[q] => <<"key", j>> \notin held'[p]
  <2>1. \A row \in R : row[1] = "key" \/ row \notin held[q] BY <1>4 DEF Free
  <2>2. \A row \in held[p] \cap held[q] : row[1] = "key" BY <1>4 DEF LocksExclude
  <2>3. ASSUME NEW j \in Jobs PROVE <<"job", j>> \in R => <<"key", j>> \notin held[q]
    BY <1>2, <1>4 DEF Free
  <2>4. ASSUME NEW j \in Jobs PROVE <<"key", j>> \in R => <<"job", j>> \notin held[q]
    BY <1>2, <1>4 DEF Free
  <2>5. \A j \in Jobs : /\ <<"job", j>> \in held[p] => <<"key", j>> \notin held[q]
                        /\ <<"job", j>> \in held[q] => <<"key", j>> \notin held[p]
    BY <1>4 DEF LocksExclude
  <2>6. held'[p] = held[p] \cup R /\ held'[q] = held[q] BY <1>1, <1>4
  <2>7. \A row \in held'[p] \cap held'[q] : row[1] = "key" BY <2>1, <2>2, <2>6
  <2> QED BY <2>3, <2>4, <2>5, <2>6, <2>7
<1>5. CASE q1 = p BY <1>4, <1>5
<1>6. CASE q2 = p
  <2>1. held'[q1] \cap held'[q2] = held'[p] \cap held'[q1] BY <1>6
  <2> QED BY <1>4, <1>6, <2>1
<1> QED BY <1>3, <1>5, <1>6

\* So does releasing them.
LEMMA ReleaseExcludes ==
    ASSUME TypeOK, LocksExclude, NEW p \in Procs, held' = [held EXCEPT ![p] = {}]
    PROVE  LocksExclude'
BY DEF LocksExclude, TypeOK

\* No process outside P takes a step.
OthersStay(P) ==
    /\ \A q \in Procs \ P : pc'[q] = pc[q] /\ held'[q] = held[q] /\ tool'[q] = tool[q]
    /\ \A r \in Requests \ P : ans'[r] = ans[r]
    /\ on' = on /\ want' = want

\* No process outside P has locked the row.
OnlyBy(P, row) == \A q \in Procs \ P : row \notin held[q]

\* Only rows that nobody outside P has locked change.
LockedChange(P) ==
    \A j \in Jobs :
        /\ \/ attempt'[j] = attempt[j]
           \/ OnlyBy(P, <<"job", j>>) /\ attempt'[j] >= attempt[j]
        /\ status'[j] = status[j] \/ OnlyBy(P, <<"job", j>>)
        /\ appr'[j] = appr[j] \/ OnlyBy(P, <<"approval", j>>)
        /\ cases'[j] = cases[j] \/ OnlyBy(P, <<"create_case", j>>)
        /\ \A k \in ArtifactTools : arts'[j][k] = arts[j][k] \/ OnlyBy(P, <<k, j>>)

\* What a process knows, whichever it is.
Knows(p) == /\ p \in Threads => ThreadKnows(p)
            /\ p \in Requests => RequestKnows(p)
            /\ p \in Sweepers => SweepKnows(p)

\* A step that changes only rows that nobody else has locked disturbs nobody else.
LEMMA RowStep ==
    ASSUME IInv, TypeOK', LocksExclude', NEW P \in SUBSET Procs, OthersStay(P),
           \A p \in P : Knows(p)',
           RowsAgree', EffectsOnce', EffectIsMarked', AnswersHold',
           LockedChange(P)
    PROVE  IInv'
<1>1. ASSUME NEW t \in Threads, t \notin P PROVE ThreadKnows(t)'
  <2>1. t \in Procs /\ t[1] \in Jobs BY Processes DEF IInv
  <2>2. ThreadKnows(t) /\ TypeOK BY DEF IInv
  <2>3. attempt[t[1]] \in Nat /\ attempt'[t[1]] \in Nat
    BY <2>1, <2>2, EffectAssumption DEF TypeOK
  <2>4. attempt'[t[1]] >= attempt[t[1]]
    <3>1. attempt'[t[1]] = attempt[t[1]] \/ attempt'[t[1]] >= attempt[t[1]]
      BY <2>1 DEF LockedChange
    <3> QED BY <2>3, <3>1, SMT
  <2>5. <<"job", t[1]>> \in held[t] => Owns(t)'
    BY <1>1, <2>1, <2>2 DEF ThreadKnows, Owns, OnlyBy, LockedChange
  <2>6. pc'[t] = pc[t] /\ held'[t] = held[t] /\ tool'[t] = tool[t]
    BY <1>1, <2>1 DEF OthersStay
  <2>7. /\ <<"create_case", t[1]>> \in held[t] => cases'[t[1]] = cases[t[1]]
        /\ \A k \in ArtifactTools :
               <<k, t[1]>> \in held[t] => arts'[t[1]][k] = arts[t[1]][k]
    BY <1>1, <2>1 DEF OnlyBy, LockedChange
  <2> QED BY <2>2, <2>3, <2>4, <2>5, <2>6, <2>7, ThreadKept
<1>2. ASSUME NEW r \in Requests, r \notin P PROVE RequestKnows(r)'
  <2>1. r \in Procs /\ on[r] \in Jobs BY Processes DEF IInv
  <2>2. RequestKnows(r) /\ TypeOK BY DEF IInv
  <2>3. pc'[r] = pc[r] /\ held'[r] = held[r] /\ tool'[r] = tool[r] /\ ans'[r] = ans[r]
        /\ on' = on /\ want' = want
    BY <1>2, <2>1 DEF OthersStay
  <2>4. /\ <<"approval", on[r]>> \in held[r] => appr'[on[r]] = appr[on[r]]
        /\ <<"create_case", on[r]>> \in held[r] => cases'[on[r]] = cases[on[r]]
        /\ \A k \in ArtifactTools :
               <<k, on[r]>> \in held[r] => arts'[on[r]][k] = arts[on[r]][k]
    BY <1>2, <2>1 DEF OnlyBy, LockedChange
  <2> QED BY <2>2, <2>3, <2>4, RequestKept
<1>3. ASSUME NEW s \in Sweepers, s \notin P PROVE SweepKnows(s)'
  <2>1. s \in Procs BY Processes DEF IInv
  <2>2. SweepKnows(s) BY DEF IInv
  <2>3. pc'[s] = pc[s] /\ held'[s] = held[s] BY <1>3, <2>1 DEF OthersStay
  <2>4. \A j \in Jobs : <<"approval", j>> \in held[s] => appr'[j] = appr[j]
    BY <1>3, <2>1 DEF OnlyBy, LockedChange
  <2> QED BY <2>2, <2>3, <2>4, SweepKept
<1> QED BY <1>1, <1>2, <1>3 DEF IInv, Knows

\* A step of p that changes no row and keeps the locks exclusive.
LEMMA QuietStep ==
    ASSUME IInv, TypeOK', LocksExclude', NEW p \in Procs, OthersStay({p}),
           UNCHANGED <<rowVars, done>>, Knows(p)', AnswersHold'
    PROVE  IInv'
<1>1. RowsAgree' /\ EffectsOnce' /\ EffectIsMarked'
  BY DEF IInv, RowsAgree, EffectsOnce, EffectIsMarked, rowVars
<1>2. LockedChange({p}) BY DEF LockedChange, rowVars
<1> QED BY <1>1, <1>2, RowStep

\* Answers stay true when neither they nor the approvals change.
LEMMA AnswersKept ==
    ASSUME AnswersHold, UNCHANGED <<appr, on, want, ans>>
    PROVE  AnswersHold'
BY DEF AnswersHold

-----------------------------------------------------------------------------
(* The statements of an action.                                            *)

\* A thread or a request that executes a statement of an action keeps the invariant.
LEMMA ActionKeeps ==
    ASSUME IInv, NEW p \in Threads \cup Requests, ActionStep(p)
    PROVE  IInv'
<1>0. /\ TypeOK /\ LocksExclude /\ AnswersHold /\ p \in Procs /\ JobOf(p) \in Jobs
      /\ p \in Threads => ThreadKnows(p) /\ p \notin Requests
      /\ p \in Requests => RequestKnows(p) /\ p \notin Threads
      /\ p \notin Sweepers
  BY Processes DEF IInv
<1>1. pc[p] = "insert" => tool[p] \in ArtifactTools
  BY <1>0 DEF ThreadKnows, RequestKnows
<1>2. TypeOK' BY <1>0, <1>1, ActionTypes
<1>3. UNCHANGED <<rowVars, done, reqVars>>
  BY DEF ActionStep, LockActionRow, ReuseCase, ReuseArtifact, MissArtifact, InsertArtifact,
         LoseArtifact, CheckKey
<1>4. OthersStay({p})
  BY <1>0, <1>3 DEF ActionStep, LockActionRow, ReuseCase, ReuseArtifact, MissArtifact, InsertArtifact,
         LoseArtifact, CheckKey, OthersStay, Goto, Lock, Release, TypeOK, reqVars
<1>5. AnswersHold' BY <1>0, <1>3, AnswersKept DEF rowVars, reqVars
<1>6. JobOf(p)' = JobOf(p) BY <1>3 DEF JobOf, reqVars
<1>7. LocksExclude' /\ Knows(p)'
  <2>0. /\ Existing(p) \/ (tool[p] = "create_case" => cases[JobOf(p)] = 0)
        /\ Existing(p) \/ (tool[p] \in ArtifactTools => arts[JobOf(p)][tool[p]] = 0)
    BY <1>0 DEF TypeOK, Existing
  <2>1. CASE LockActionRow(p)
    <3> DEFINE row == ActionRow(p)
    <3>1. /\ tool[p] \in CaseTools /\ ~Existing(p) /\ Free(p, row) /\ Lock(p, {row})
          /\ pc[p] = "effect" /\ tool' = tool
      BY <2>1 DEF LockActionRow
    <3>2. row \in Rows /\ row[1] = tool[p] /\ (row[2] = JobOf(p) \/ row = <<"update_case_fields", "case">>)
          /\ (tool[p] # "update_case_fields" => row = <<tool[p], JobOf(p)>>)
      BY <1>0, <3>1, ActionRows
    <3>3. LocksExclude' BY <1>0, <3>1, <3>2, LockExcludes DEF CaseTools
    <3>4. pc'[p] = AfterRows(p) /\ held'[p] = held[p] \cup {row}
      BY <1>0, <2>1, <3>1 DEF LockActionRow, Goto, Lock, TypeOK
    <3>5. Creates(p)'
      BY <1>3, <1>6, <2>0, <3>1, <3>2, <3>4 DEF Creates, rowVars, CaseTools, ArtifactTools
    <3> HIDE DEF row
    <3>6. p \in Threads => ThreadKnows(p)'
      BY <1>0, <1>3, <3>1, <3>2, <3>4, <3>5, Processes
         DEF ThreadKnows, AfterRows, rowVars, CaseTools, Owns
    <3>7. p \in Requests => RequestKnows(p)'
      BY <1>0, <1>3, <3>1, <3>2, <3>4, <3>5, Processes
         DEF RequestKnows, AfterRows, rowVars, reqVars, CaseTools
    <3> QED BY <1>0, <3>3, <3>6, <3>7 DEF Knows
  <2>2. CASE ReuseCase(p)
    <3> DEFINE row == ActionRow(p)
    <3>1. tool[p] = "create_case" /\ Free(p, row) /\ pc[p] = "effect" BY <2>2 DEF ReuseCase
    <3>2. row \in Rows /\ row = <<"create_case", JobOf(p)>>
      BY <1>0, <3>1, ActionRows DEF CaseTools
    <3>3. CASE p \in Threads
      <4>1. held' = [held EXCEPT ![p] = {}] /\ held'[p] = {} /\ pc'[p] = "idle"
        BY <1>0, <2>2, <3>3 DEF ReuseCase, Release, Goto, TypeOK
      <4>2. LocksExclude' BY <1>0, <4>1, ReleaseExcludes
      <4>3. ThreadKnows(p)'
        BY <1>0, <1>3, <3>1, <3>3, <4>1, Processes DEF ThreadKnows, rowVars, Owns
      <4> QED BY <1>0, <3>3, <4>2, <4>3 DEF Knows
    <3>4. CASE p \in Requests
      <4>1. Lock(p, {row}) /\ pc'[p] = "commit" /\ held'[p] = held[p] \cup {row}
            /\ tool'[p] = "reused"
        BY <1>0, <2>2, <3>4 DEF ReuseCase, Lock, Goto, TypeOK
      <4>2. LocksExclude' BY <1>0, <3>1, <3>2, <4>1, LockExcludes
      <4>3. Creates(p)' BY <4>1 DEF Creates, ArtifactTools
      <4> HIDE DEF row
      <4>4. RequestKnows(p)'
        BY <1>0, <1>3, <3>1, <3>2, <3>4, <4>1, <4>3, Processes DEF RequestKnows, rowVars, reqVars
      <4> QED BY <1>0, <3>4, <4>2, <4>4 DEF Knows
    <3> QED BY <3>3, <3>4
  <2>3. CASE ReuseArtifact(p)
    <3> DEFINE row == ActionRow(p)
    <3>1. tool[p] \in ArtifactTools /\ Free(p, row) /\ pc[p] = "effect" /\ Lock(p, {row})
      BY <2>3 DEF ReuseArtifact
    <3>2. row \in Rows /\ row = <<tool[p], JobOf(p)>>
      BY <1>0, <3>1, ActionRows DEF ArtifactTools
    <3>3. LocksExclude' BY <1>0, <3>1, <3>2, LockExcludes DEF ArtifactTools
    <3>4. pc'[p] = AfterRows(p) /\ held'[p] = held[p] \cup {row} /\ tool'[p] = "reused"
      BY <1>0, <2>3, <3>1 DEF ReuseArtifact, Goto, Lock, TypeOK
    <3>5. Creates(p)' BY <3>4 DEF Creates, ArtifactTools
    <3> HIDE DEF row
    <3>6. p \in Threads => ThreadKnows(p)'
      BY <1>0, <1>3, <3>1, <3>2, <3>4, <3>5, Processes
         DEF ThreadKnows, AfterRows, rowVars, ArtifactTools, Owns
    <3>7. p \in Requests => RequestKnows(p)'
      BY <1>0, <1>3, <3>1, <3>2, <3>4, <3>5, Processes
         DEF RequestKnows, AfterRows, rowVars, reqVars, ArtifactTools
    <3> QED BY <1>0, <3>3, <3>6, <3>7 DEF Knows
  <2>4. CASE MissArtifact(p)
    <3>1. /\ pc[p] = "effect" /\ pc'[p] = "insert" /\ held' = held /\ tool' = tool
          /\ tool[p] \in ArtifactTools
      BY <1>0, <2>4 DEF MissArtifact, Goto, TypeOK
    <3>2. LocksExclude' BY <1>0, <3>1 DEF LocksExclude
    <3>3. p \in Threads => ThreadKnows(p)'
      BY <1>0, <1>3, <3>1, Processes DEF ThreadKnows, rowVars, Owns
    <3>4. p \in Requests => RequestKnows(p)'
      BY <1>0, <1>3, <3>1, Processes DEF RequestKnows, rowVars, reqVars
    <3> QED BY <1>0, <3>2, <3>3, <3>4 DEF Knows
  <2>5. CASE InsertArtifact(p)
    <3> DEFINE row == ActionRow(p)
    <3>1. /\ ~Existing(p) /\ Free(p, row) /\ Lock(p, {row}) /\ tool[p] \in ArtifactTools
          /\ pc[p] = "insert" /\ tool' = tool
      BY <1>1, <2>5 DEF InsertArtifact
    <3>2. row \in Rows /\ row = <<tool[p], JobOf(p)>>
      BY <1>0, <3>1, ActionRows DEF ArtifactTools
    <3>3. LocksExclude' BY <1>0, <3>1, <3>2, LockExcludes DEF ArtifactTools
    <3>4. pc'[p] = "key" /\ held'[p] = held[p] \cup {row}
      BY <1>0, <2>5, <3>1 DEF InsertArtifact, Goto, Lock, TypeOK
    <3>5. Creates(p)'
      BY <1>3, <1>6, <2>0, <3>1, <3>2, <3>4 DEF Creates, rowVars, ArtifactTools
    <3> HIDE DEF row
    <3>6. p \in Threads => ThreadKnows(p)'
      BY <1>0, <1>3, <3>1, <3>2, <3>4, <3>5, Processes
         DEF ThreadKnows, rowVars, ArtifactTools, Owns
    <3>7. p \in Requests => RequestKnows(p)'
      BY <1>0, <1>3, <3>1, <3>2, <3>4, <3>5, Processes
         DEF RequestKnows, rowVars, reqVars, ArtifactTools
    <3> QED BY <1>0, <3>3, <3>6, <3>7 DEF Knows
  <2>6. CASE LoseArtifact(p)
    <3>1. /\ pc[p] = "insert" /\ pc'[p] = AfterRows(p) /\ held' = held /\ tool'[p] = "reused"
      BY <1>0, <2>6 DEF LoseArtifact, Goto, TypeOK
    <3>2. LocksExclude' BY <1>0, <3>1 DEF LocksExclude
    <3>3. Creates(p)' BY <3>1 DEF Creates, ArtifactTools
    <3>4. p \in Threads => ThreadKnows(p)'
      BY <1>0, <1>3, <3>1, <3>3, Processes DEF ThreadKnows, AfterRows, rowVars, Owns
    <3>5. p \in Requests => RequestKnows(p)'
      BY <1>0, <1>3, <3>1, <3>3, Processes DEF RequestKnows, AfterRows, rowVars, reqVars
    <3> QED BY <1>0, <3>2, <3>4, <3>5 DEF Knows
  <2>7. CASE CheckKey(p)
    <3> DEFINE row == <<"key", JobOf(p)>>
    <3>1. /\ Free(p, <<"job", JobOf(p)>>) /\ Lock(p, {row}) /\ pc[p] = "key" /\ tool' = tool
      BY <2>7 DEF CheckKey
    <3>2. row \in Rows /\ row[1] = "key" /\ row[2] = JobOf(p) BY <1>0 DEF Rows
    <3>3. LocksExclude' BY <1>0, <3>1, <3>2, LockExcludes
    <3>4. pc'[p] = AfterRows(p) /\ held'[p] = held[p] \cup {row}
      BY <1>0, <2>7, <3>1 DEF CheckKey, Goto, Lock, TypeOK
    <3>5. Creates(p)'
      BY <1>0, <1>3, <1>6, <3>1, <3>4 DEF Creates, ThreadKnows, RequestKnows, rowVars
    <3>6. p \in Threads => ThreadKnows(p)'
      BY <1>0, <1>3, <3>1, <3>2, <3>4, <3>5, Processes
         DEF ThreadKnows, AfterRows, rowVars, Owns
    <3>7. p \in Requests => RequestKnows(p)'
      BY <1>0, <1>3, <3>1, <3>2, <3>4, <3>5, Processes
         DEF RequestKnows, AfterRows, rowVars, reqVars
    <3> QED BY <1>0, <3>3, <3>6, <3>7 DEF Knows
  <2> QED BY <2>1, <2>2, <2>3, <2>4, <2>5, <2>6, <2>7 DEF ActionStep
<1> QED BY <1>0, <1>2, <1>3, <1>4, <1>5, <1>7, QuietStep

-----------------------------------------------------------------------------
(* The steps of a thread.                                                  *)

\* The steps of a thread that change no row keep the invariant.
LEMMA ThreadQuietKeeps ==
    ASSUME IInv, NEW t \in Threads, ThreadStep(t), UNCHANGED <<rowVars, done, reqVars>>
    PROVE  IInv'
<1>0. /\ TypeOK /\ LocksExclude /\ AnswersHold /\ ThreadKnows(t) /\ t \in Procs
      /\ t[1] \in Jobs /\ t \notin Requests /\ t \notin Sweepers /\ t[2] \in Nat
      /\ JobOf(t) = t[1] /\ <<"job", t[1]>> \in Rows
  BY Processes DEF IInv, Rows
<1>1. TypeOK' BY <1>0, ThreadTypes
<1>2. AnswersHold' BY <1>0, AnswersKept DEF rowVars, reqVars
<1>3. JobOf(t)' = JobOf(t) BY DEF JobOf, reqVars
<1>4. OthersStay({t})
  BY <1>0 DEF ThreadStep, BeginTool, Ask, PassFence, WaitAtFence, FailFence, CommitTool,
              AbortTool, LockForStaging, Stage, LockForPark, Park, AbortApproval,
              OthersStay, Goto, Lock, Release, TypeOK, reqVars
<1>5. LocksExclude' /\ ThreadKnows(t)'
  <2>1. ASSUME NEW k \in Tools, BeginTool(t, k) \/ Ask(t, k) PROVE LocksExclude' /\ ThreadKnows(t)'
    <3>1. /\ pc[t] = "idle" /\ held' = held /\ pc'[t] \in {"effect", "ask"} /\ tool'[t] \in Tools
      BY <1>0, <2>1 DEF BeginTool, Ask, Goto, TypeOK
    <3> QED BY <1>0, <3>1 DEF ThreadKnows, LocksExclude, rowVars, Owns
  <2>2. CASE PassFence(t) \/ LockForStaging(t) \/ LockForPark(t)
    <3>1. /\ JobFree(t, t[1]) /\ Lock(t, {<<"job", t[1]>>}) /\ Owns(t) /\ tool' = tool
          /\ \/ pc[t] \in {"fence", "fencing"} /\ pc'[t] = "commit"
             \/ pc[t] = "ask" /\ pc'[t] = "stage"
             \/ pc[t] = "staged" /\ pc'[t] = "park"
      BY <1>0, <2>2 DEF PassFence, LockForStaging, LockForPark, Goto, TypeOK
    <3>2. LocksExclude' BY <1>0, <3>1, LockExcludes DEF JobFree
    <3>3. held'[t] = held[t] \cup {<<"job", t[1]>>} BY <1>0, <3>1 DEF Lock, TypeOK
    <3>4. Creates(t) => Creates(t)' BY <1>3, <3>1, <3>3 DEF Creates, rowVars
    <3>5. Owns(t)' BY <3>1 DEF Owns, rowVars
    <3> QED BY <1>0, <3>1, <3>2, <3>3, <3>4, <3>5 DEF ThreadKnows, rowVars
  <2>3. CASE WaitAtFence(t)
    <3>1. pc[t] = "fence" /\ pc'[t] = "fencing" /\ held' = held /\ tool' = tool
      BY <1>0, <2>3 DEF WaitAtFence, Goto, TypeOK
    <3>2. Creates(t) => Creates(t)' BY <1>3, <3>1 DEF Creates, rowVars
    <3> QED BY <1>0, <3>1, <3>2 DEF ThreadKnows, LocksExclude, rowVars, Owns
  <2>4. CASE FailFence(t) \/ AbortTool(t) \/ AbortApproval(t) \/ CommitTool(t) \/ Stage(t) \/ Park(t)
    <3>1. /\ held' = [held EXCEPT ![t] = {}] /\ held'[t] = {}
          /\ pc[t] # "over" /\ pc'[t] \in {"over", "idle", "staged"}
      BY <1>0, <2>4 DEF FailFence, AbortTool, AbortApproval, CommitTool, Stage, Park, Goto,
                        Release, TypeOK
    <3>2. LocksExclude' BY <1>0, <3>1, ReleaseExcludes
    <3> QED BY <1>0, <3>1, <3>2 DEF ThreadKnows, rowVars
  <2> QED BY <2>1, <2>2, <2>3, <2>4 DEF ThreadStep
<1> QED BY <1>0, <1>1, <1>2, <1>4, <1>5, QuietStep DEF Knows

\* With the job row, a thread is the only transaction that relies on the row.
LEMMA OwnerAlone ==
    ASSUME IInv, NEW p \in Procs, NEW j \in Jobs, <<"job", j>> \in held[p]
    PROVE  \A q \in Procs \ {p} : <<"job", j>> \notin held[q] /\ <<"key", j>> \notin held[q]
BY DEF IInv, LocksExclude

\* A job that runs has no approval that a decider or a sweep may have locked.
LEMMA RunningUndecided ==
    ASSUME IInv, NEW j \in Jobs, status[j] \in {"queued", "running"}
    PROVE  /\ appr[j] \in {"none", "staged", "cancelled"}
           /\ \A r \in Requests : on[r] = j => <<"approval", j>> \notin held[r] /\ ans[r] \notin Decided \cup {"too_late"}
           /\ \A s \in Sweepers : <<"approval", j>> \notin held[s]
<1>1. appr[j] \in {"none", "staged", "cancelled"}
  BY DEF IInv, TypeOK, RowsAgree, Published, Decided
<1>2. ASSUME NEW r \in Requests, on[r] = j
      PROVE  <<"approval", j>> \notin held[r] /\ ans[r] \notin Decided \cup {"too_late"}
  <2>1. RequestKnows(r) /\ AnswersHold BY DEF IInv
  <2> QED BY <1>1, <1>2, <2>1 DEF RequestKnows, AnswersHold, Decided
<1>3. ASSUME NEW s \in Sweepers PROVE <<"approval", j>> \notin held[s]
  BY <1>1 DEF IInv, SweepKnows
<1> QED BY <1>1, <1>2, <1>3

\* What an action makes durable for a job is marked, and made once, if nothing was there.
LEMMA EffectsKeep ==
    ASSUME IInv, NEW p \in Threads \cup Requests, Creates(p), Effects(JobOf(p), tool[p]),
           JobOf(p) \in Jobs
    PROVE  /\ EffectIsMarked'
           /\ \A j \in Jobs : cases'[j] <= 1 /\ \A k \in ArtifactTools : arts'[j][k] <= 1
           /\ \A j \in Jobs :
                 /\ cases'[j] = cases[j] \/ OnlyBy({p}, <<"create_case", j>>)
                 /\ \A k \in ArtifactTools : arts'[j][k] = arts[j][k] \/ OnlyBy({p}, <<k, j>>)
<1> DEFINE i == JobOf(p)
<1>0. TypeOK /\ EffectsOnce /\ EffectIsMarked /\ p \in Procs BY Processes DEF IInv
<1>1. /\ cases' = [cases EXCEPT ![i] = IF tool[p] = "create_case" THEN @ + 1 ELSE @]
      /\ arts'  = [arts EXCEPT ![i] = [x \in ArtifactTools |->
                                         IF x = tool[p] THEN @[x] + 1 ELSE @[x]]]
      /\ marker' = [marker EXCEPT ![i] = @ \/ Marks(tool[p])]
  BY DEF Effects
<1>2. /\ tool[p] = "create_case" => <<"create_case", i>> \in held[p] /\ cases[i] = 0
      /\ tool[p] \in ArtifactTools => <<tool[p], i>> \in held[p] /\ arts[i][tool[p]] = 0
  BY DEF Creates
<1>3. /\ "create_case" # "key" /\ \A k \in ArtifactTools : k # "key"
  BY DEF ArtifactTools
<1>4. ASSUME NEW k \in ArtifactTools \cup {"create_case"}, <<k, i>> \in held[p]
      PROVE  OnlyBy({p}, <<k, i>>)
  <2>1. LocksExclude /\ k # "key" /\ <<k, i>>[1] = k BY <1>3 DEF IInv
  <2> QED BY <1>0, <1>4, <2>1 DEF LocksExclude, OnlyBy
<1> HIDE DEF i
<1>5. ASSUME NEW j \in Jobs
      PROVE  /\ cases'[j] <= 1
             /\ cases'[j] = cases[j] \/ (j = i /\ tool[p] = "create_case")
  BY <1>0, <1>1, <1>2 DEF TypeOK, EffectsOnce
<1>6. ASSUME NEW j \in Jobs, NEW k \in ArtifactTools
      PROVE  /\ arts'[j][k] <= 1
             /\ arts'[j][k] = arts[j][k] \/ (j = i /\ tool[p] = k)
  <2>1. CASE j = i /\ tool[p] = k
    <3>1. arts'[j][k] = arts[j][k] + 1 BY <1>0, <1>1, <2>1 DEF TypeOK
    <3> QED BY <1>2, <2>1, <3>1
  <2>2. CASE ~(j = i /\ tool[p] = k)
    <3>1. arts'[j][k] = arts[j][k] BY <1>0, <1>1, <2>2 DEF TypeOK
    <3> QED BY <1>0, <3>1 DEF EffectsOnce
  <2> QED BY <2>1, <2>2
<1>7. ASSUME NEW j \in Jobs
      PROVE  /\ cases'[j] = cases[j] \/ OnlyBy({p}, <<"create_case", j>>)
             /\ \A k \in ArtifactTools : arts'[j][k] = arts[j][k] \/ OnlyBy({p}, <<k, j>>)
  BY <1>2, <1>4, <1>5, <1>6
<1>8. ASSUME NEW j \in Jobs, cases'[j] > 0 \/ (\E k \in ArtifactTools : arts'[j][k] > 0)
      PROVE  marker'[j]
  <2>1. CASE j = i /\ Marks(tool[p]) BY <1>0, <1>1, <2>1 DEF TypeOK
  <2>2. CASE ~(j = i /\ Marks(tool[p]))
    <3>1. cases'[j] = cases[j] /\ \A k \in ArtifactTools : arts'[j][k] = arts[j][k]
      BY <1>5, <1>6, <2>2 DEF Marks, ArtifactTools
    <3>2. marker[j] BY <1>0, <1>8, <3>1 DEF EffectIsMarked
    <3> QED BY <1>0, <1>1, <2>2, <3>2 DEF TypeOK
  <2> QED BY <2>1, <2>2
<1> QED BY <1>5, <1>6, <1>7, <1>8 DEF EffectIsMarked

\* The commit of a tool keeps the invariant.
LEMMA CommitToolKeeps ==
    ASSUME IInv, NEW t \in Threads, CommitTool(t)
    PROVE  IInv'
<1>0. /\ TypeOK /\ LocksExclude /\ AnswersHold /\ RowsAgree /\ EffectsOnce /\ ThreadKnows(t)
      /\ t \in Procs /\ t[1] \in Jobs /\ t \notin Requests /\ t \notin Sweepers
      /\ t[2] \in Nat /\ JobOf(t) = t[1]
  BY Processes DEF IInv
<1>1. TypeOK' BY <1>0, ThreadTypes DEF ThreadStep
<1>2. UNCHANGED <<status, attempt, appr, on, want, ans, done>>
  BY DEF CommitTool, reqVars
<1>3. AnswersHold' /\ RowsAgree'
  BY <1>0, <1>2, AnswersKept DEF RowsAgree
<1>4. /\ pc[t] = "commit" /\ pc'[t] = "idle" /\ held' = [held EXCEPT ![t] = {}] /\ held'[t] = {}
  BY <1>0 DEF CommitTool, Goto, Release, TypeOK
<1>5. LocksExclude' BY <1>0, <1>4, ReleaseExcludes
<1>6. ThreadKnows(t)' BY <1>0, <1>2, <1>4 DEF ThreadKnows
<1>7. OthersStay({t})
  BY <1>0, <1>2 DEF CommitTool, OthersStay, Goto, Release, TypeOK
<1>8. Creates(t) BY <1>0, <1>4 DEF ThreadKnows
<1>9. Effects(JobOf(t), tool[t]) BY <1>0 DEF CommitTool
<1>10. /\ EffectIsMarked'
       /\ \A j \in Jobs : cases'[j] <= 1 /\ \A k \in ArtifactTools : arts'[j][k] <= 1
       /\ \A j \in Jobs :
             /\ cases'[j] = cases[j] \/ OnlyBy({t}, <<"create_case", j>>)
             /\ \A k \in ArtifactTools : arts'[j][k] = arts[j][k] \/ OnlyBy({t}, <<k, j>>)
  BY <1>0, <1>8, <1>9, EffectsKeep
<1>11. EffectsOnce' BY <1>0, <1>2, <1>10 DEF EffectsOnce
<1>12. LockedChange({t}) BY <1>2, <1>10 DEF LockedChange
<1> QED BY <1>0, <1>1, <1>3, <1>5, <1>6, <1>7, <1>10, <1>11, <1>12, RowStep DEF Knows

\* Staging and publishing an approval keep the invariant.
LEMMA StageParkKeeps ==
    ASSUME IInv, NEW t \in Threads, Stage(t) \/ Park(t)
    PROVE  IInv'
<1> DEFINE i == t[1]
<1>0. /\ TypeOK /\ LocksExclude /\ AnswersHold /\ RowsAgree /\ EffectsOnce /\ EffectIsMarked
      /\ ThreadKnows(t) /\ t \in Procs /\ i \in Jobs /\ t \notin Requests /\ t \notin Sweepers
      /\ t[2] \in Nat
  BY Processes DEF IInv
<1>1. TypeOK' BY <1>0, ThreadTypes DEF ThreadStep
<1>2. UNCHANGED <<attempt, marker, cases, arts, on, want, ans, done>>
  BY DEF Stage, Park, reqVars
<1>3. /\ pc[t] \in {"stage", "park"} /\ pc'[t] \in {"staged", "over"}
      /\ held' = [held EXCEPT ![t] = {}] /\ held'[t] = {}
  BY <1>0 DEF Stage, Park, Goto, Release, TypeOK
<1>4. LocksExclude' BY <1>0, <1>3, ReleaseExcludes
<1>5. ThreadKnows(t)' BY <1>0, <1>2, <1>3 DEF ThreadKnows
<1>6. OthersStay({t})
  BY <1>0, <1>2 DEF Stage, Park, OthersStay, Goto, Release, TypeOK
<1>7. <<"job", i>> \in held[t] /\ status[i] = "running"
  BY <1>0, <1>3 DEF ThreadKnows, Owns
<1>8. OnlyBy({t}, <<"job", i>>) BY <1>0, <1>7, OwnerAlone DEF OnlyBy
<1>9. /\ \A j \in Jobs \ {i} : status'[j] = status[j] /\ appr'[j] = appr[j]
      /\ \/ status'[i] = status[i] /\ appr'[i] = "staged"
         \/ status'[i] = "awaiting_approval" /\ appr'[i] = "pending"
  BY <1>0 DEF Stage, Park, TypeOK
<1>10. OnlyBy({t}, <<"approval", i>>)
  BY <1>0 DEF Stage, Park, Free, OnlyBy
<1>11. RowsAgree' BY <1>0, <1>7, <1>9 DEF RowsAgree, Published, Decided
<1>12. EffectsOnce' /\ EffectIsMarked'
  <2>1. appr[i] # "approved" BY <1>0, <1>7 DEF RowsAgree, Published, Decided
  <2>2. \A j \in Jobs : appr'[j] = "approved" <=> appr[j] = "approved" BY <1>9, <2>1
  <2> QED BY <1>0, <1>2, <2>2 DEF EffectsOnce, EffectIsMarked
<1>13. AnswersHold'
  <2>1. \A r \in Requests : on[r] = i => ans[r] \notin Decided \cup {"too_late"}
    BY <1>0, <1>7, RunningUndecided
  <2>2. on \in [Requests -> Jobs] BY <1>0 DEF TypeOK
  <2> QED BY <1>0, <1>2, <1>9, <2>1, <2>2 DEF AnswersHold
<1> HIDE DEF i
<1>14. \A j \in Jobs : /\ status'[j] = status[j] \/ OnlyBy({t}, <<"job", j>>)
                       /\ appr'[j] = appr[j] \/ OnlyBy({t}, <<"approval", j>>)
  BY <1>0, <1>8, <1>9, <1>10
<1>15. LockedChange({t}) BY <1>2, <1>14 DEF LockedChange
<1> QED BY <1>0, <1>1, <1>4, <1>5, <1>6, <1>11, <1>12, <1>13, <1>15, RowStep DEF Knows

\* Every step of a thread keeps the invariant.
LEMMA ThreadKeeps ==
    ASSUME IInv, NEW t \in Threads, ThreadStep(t)
    PROVE  IInv'
<1>1. CASE CommitTool(t) BY <1>1, CommitToolKeeps
<1>2. CASE Stage(t) \/ Park(t) BY <1>2, StageParkKeeps
<1>3. CASE ~(CommitTool(t) \/ Stage(t) \/ Park(t))
  <2>1. UNCHANGED <<rowVars, done, reqVars>>
    BY <1>3 DEF ThreadStep, BeginTool, Ask, PassFence, WaitAtFence, FailFence, AbortTool,
                LockForStaging, LockForPark, AbortApproval
  <2> QED BY <2>1, ThreadQuietKeeps
<1> QED BY <1>1, <1>2, <1>3

-----------------------------------------------------------------------------
(* The steps of a decide request.                                          *)

\* The steps of a request that change no row keep the invariant.
LEMMA RequestQuietKeeps ==
    ASSUME IInv, NEW r \in Requests, RequestStep(r), UNCHANGED <<rowVars, done>>,
           ~(ExpireNow(r) \/ Reject(r) \/ CommitApproved(r))
    PROVE  IInv'
<1> DEFINE j == on[r]
<1>0. /\ TypeOK /\ LocksExclude /\ AnswersHold /\ RowsAgree /\ RequestKnows(r) /\ r \in Procs
      /\ j \in Jobs /\ r \notin Threads /\ r \notin Sweepers
      /\ JobOf(r) = j /\ <<"approval", j>> \in Rows /\ <<"job", j>> \in Rows
  BY Processes DEF IInv, Rows
<1>1. TypeOK' BY <1>0, RequestTypes
<1>2. on' = on /\ want' = want
  BY DEF RequestStep, Arrive, LockApproval, WaitForApproval, NotFound, RecheckApproval, LockJob,
         AnswerDecided, Approve, FailRequest, reqVars
<1>3. OthersStay({r})
  BY <1>0, <1>2 DEF RequestStep, Arrive, LockApproval, WaitForApproval, NotFound,
         RecheckApproval, LockJob, AnswerDecided, Approve, FailRequest, reqVars,
         OthersStay, Goto, Answer, Lock, Release, TypeOK
<1>4. JobOf(r)' = j BY <1>2 DEF JobOf
<1>5. ASSUME \/ ans'[r] = ans[r]
             \/ ans'[r] \in {"not_found", "conflict", "error"}
             \/ ans'[r] = appr[j] /\ appr[j] \in Decided /\ SameDecision(r)
      PROVE  AnswersHold'
  <2>1. \A q \in Requests \ {r} : ans'[q] = ans[q] BY <1>3 DEF OthersStay
  <2>2. appr' = appr BY DEF rowVars
  <2>3. want[r] \in {"approve", "reject"} BY <1>0 DEF TypeOK
  <2> QED BY <1>0, <1>2, <1>5, <2>1, <2>2, <2>3 DEF AnswersHold, Decided, SameDecision
<1>6. CASE Arrive(r)
  <2>1. pc[r] = "idle" /\ pc'[r] = "find" /\ held' = held /\ ans' = ans
    BY <1>0, <1>6 DEF Arrive, Goto, TypeOK
  <2>2. LocksExclude' /\ RequestKnows(r)' BY <1>0, <1>2, <2>1 DEF RequestKnows, LocksExclude
  <2> QED BY <1>0, <1>1, <1>3, <1>5, <2>1, <2>2, QuietStep DEF Knows
<1>7. CASE LockApproval(r)
  <2>1. /\ pc[r] = "find" /\ pc'[r] = "job" /\ ans' = ans /\ Lock(r, {<<"approval", j>>})
        /\ Free(r, <<"approval", j>>) /\ Published(appr[j], status[j])
        /\ held'[r] = held[r] \cup {<<"approval", j>>}
    BY <1>0, <1>7 DEF LockApproval, Goto, Lock, TypeOK
  <2>2. LocksExclude' BY <1>0, <2>1, LockExcludes
  <2>3. RequestKnows(r)'
    BY <1>0, <1>2, <2>1 DEF RequestKnows, Published, Decided, rowVars
  <2> QED BY <1>0, <1>1, <1>3, <1>5, <2>1, <2>2, <2>3, QuietStep DEF Knows
<1>8. CASE WaitForApproval(r)
  <2>1. pc[r] = "find" /\ pc'[r] = "wait" /\ held' = held /\ ans' = ans
    BY <1>0, <1>8 DEF WaitForApproval, Goto, TypeOK
  <2>2. LocksExclude' /\ RequestKnows(r)' BY <1>0, <1>2, <2>1 DEF RequestKnows, LocksExclude
  <2> QED BY <1>0, <1>1, <1>3, <1>5, <2>1, <2>2, QuietStep DEF Knows
<1>9. CASE NotFound(r)
  <2>1. pc[r] = "find" /\ pc'[r] = "over" /\ held' = held /\ ans'[r] = "not_found"
    BY <1>0, <1>9 DEF NotFound, Answer, Goto, TypeOK
  <2>2. LocksExclude' /\ RequestKnows(r)' BY <1>0, <1>2, <2>1 DEF RequestKnows, LocksExclude
  <2> QED BY <1>0, <1>1, <1>3, <1>5, <2>1, <2>2, QuietStep DEF Knows
<1>10. CASE RecheckApproval(r)
  <2>1. CASE Published(appr[j], saw[r])
    <3>1. /\ pc[r] = "wait" /\ pc'[r] = "job" /\ ans' = ans /\ Lock(r, {<<"approval", j>>})
          /\ Free(r, <<"approval", j>>)
          /\ held'[r] = held[r] \cup {<<"approval", j>>}
      BY <1>0, <1>10, <2>1 DEF RecheckApproval, Goto, Lock, TypeOK
    <3>2. LocksExclude' BY <1>0, <3>1, LockExcludes
    <3>3. RequestKnows(r)'
      BY <1>0, <1>2, <2>1, <3>1 DEF RequestKnows, Published, Decided, rowVars
    <3> QED BY <1>0, <1>1, <1>3, <1>5, <3>1, <3>2, <3>3, QuietStep DEF Knows
  <2>2. CASE ~Published(appr[j], saw[r])
    <3>1. pc[r] = "wait" /\ pc'[r] = "over" /\ held' = held /\ ans'[r] = "not_found"
      BY <1>0, <1>10, <2>2 DEF RecheckApproval, Answer, Goto, TypeOK
    <3>2. LocksExclude' /\ RequestKnows(r)' BY <1>0, <1>2, <3>1 DEF RequestKnows, LocksExclude
    <3> QED BY <1>0, <1>1, <1>3, <1>5, <3>1, <3>2, QuietStep DEF Knows
  <2> QED BY <2>1, <2>2
<1>11. CASE LockJob(r)
  <2>1. /\ pc[r] = "job" /\ pc'[r] = "both" /\ ans' = ans /\ Lock(r, {<<"job", j>>})
        /\ JobFree(r, j) /\ held'[r] = held[r] \cup {<<"job", j>>}
    BY <1>0, <1>11 DEF LockJob, Goto, Lock, TypeOK, reqVars
  <2>2. LocksExclude' BY <1>0, <2>1, LockExcludes DEF JobFree
  <2>3. RequestKnows(r)' BY <1>0, <1>2, <2>1 DEF RequestKnows, rowVars
  <2> QED BY <1>0, <1>1, <1>3, <1>5, <2>1, <2>2, <2>3, QuietStep DEF Knows
<1>12. CASE AnswerDecided(r)
  <2>1. /\ pc'[r] = "over" /\ held' = [held EXCEPT ![r] = {}] /\ held'[r] = {}
        /\ appr[j] \in Decided
        /\ ans'[r] = IF SameDecision(r) THEN appr[j] ELSE "conflict"
    BY <1>0, <1>12 DEF AnswerDecided, Answer, Release, Goto, TypeOK
  <2>2. LocksExclude' BY <1>0, <2>1, ReleaseExcludes
  <2>3. RequestKnows(r)' BY <1>0, <1>2, <2>1 DEF RequestKnows
  <2> QED BY <1>0, <1>1, <1>3, <1>5, <2>1, <2>2, <2>3, QuietStep DEF Knows
<1>13. CASE Approve(r)
  <2>1. /\ pc[r] = "both" /\ held' = held /\ ans' = ans /\ appr[j] = "pending"
        /\ want[r] = "approve" /\ tool'[r] = act[j]
        /\ \/ pc'[r] = "effect"
           \/ pc'[r] = "commit" /\ act[j] = "find_customer"
    BY <1>0, <1>13 DEF Approve, Goto, TypeOK, reqVars
  <2>2. LocksExclude' BY <1>0, <2>1 DEF LocksExclude
  <2>3. pc'[r] = "commit" => Creates(r)' BY <2>1 DEF Creates, ArtifactTools
  <2>4. RequestKnows(r)' BY <1>0, <1>2, <2>1, <2>3 DEF RequestKnows, rowVars
  <2> QED BY <1>0, <1>1, <1>3, <1>5, <2>1, <2>2, <2>4, QuietStep DEF Knows
<1>14. ASSUME NEW a \in {"conflict", "error"}, FailRequest(r, a) PROVE IInv'
  <2>1. /\ pc'[r] = "over" /\ held' = [held EXCEPT ![r] = {}] /\ held'[r] = {}
        /\ ans'[r] \in {"conflict", "error"}
    BY <1>0, <1>14 DEF FailRequest, Answer, Release, Goto, TypeOK
  <2>2. LocksExclude' BY <1>0, <2>1, ReleaseExcludes
  <2>3. RequestKnows(r)' BY <1>0, <1>2, <2>1 DEF RequestKnows
  <2> QED BY <1>0, <1>1, <1>3, <1>5, <2>1, <2>2, <2>3, QuietStep DEF Knows
<1> QED BY <1>6, <1>7, <1>8, <1>9, <1>10, <1>11, <1>12, <1>13, <1>14 DEF RequestStep

\* A decision by the request that has both rows keeps the invariant.
LEMMA DecisionKeeps ==
    ASSUME IInv, NEW r \in Requests, ExpireNow(r) \/ Reject(r) \/ CommitApproved(r)
    PROVE  IInv'
<1> DEFINE i == on[r]
<1>0. /\ TypeOK /\ LocksExclude /\ AnswersHold /\ RowsAgree /\ EffectsOnce /\ EffectIsMarked
      /\ RequestKnows(r) /\ r \in Procs /\ i \in Jobs /\ r \notin Threads /\ r \notin Sweepers
      /\ JobOf(r) = i
  BY Processes DEF IInv
<1>1. TypeOK' BY <1>0, RequestTypes DEF RequestStep
<1>2. UNCHANGED <<attempt, on, want>> BY DEF ExpireNow, Reject, CommitApproved
<1>3. /\ pc[r] \in {"both", "commit"} /\ pc'[r] = "over"
      /\ held' = [held EXCEPT ![r] = {}] /\ held'[r] = {}
  BY <1>0 DEF ExpireNow, Reject, CommitApproved, Answer, Goto, Release, TypeOK
<1>4. LocksExclude' BY <1>0, <1>3, ReleaseExcludes
<1>5. RequestKnows(r)' BY <1>0, <1>2, <1>3 DEF RequestKnows
<1>6. OthersStay({r})
  BY <1>0, <1>2 DEF ExpireNow, Reject, CommitApproved, OthersStay, Answer, Goto, Release, TypeOK
<1>7. /\ <<"job", i>> \in held[r] /\ <<"approval", i>> \in held[r] /\ appr[i] = "pending"
  BY <1>0, <1>3 DEF RequestKnows, ExpireNow, Reject, CommitApproved
<1>8. OnlyBy({r}, <<"job", i>>) BY <1>0, <1>7, OwnerAlone DEF OnlyBy
<1>9. OnlyBy({r}, <<"approval", i>>)
  <2>1. <<"approval", i>>[1] # "key" OBVIOUS
  <2> QED BY <1>0, <1>7, <2>1 DEF LocksExclude, OnlyBy
<1>10. PICK a \in Decided :
         /\ Finalize(i, a)
         /\ a = "approved" <=> CommitApproved(r)
         /\ ans'[r] \in {a, "too_late"}
         /\ ans'[r] = "too_late" => a = "expired"
         /\ ans'[r] = "approved" => want[r] = "approve"
         /\ ans'[r] \in {"rejected", "expired"} => want[r] = "reject"
  <2>1. CASE ExpireNow(r)
    <3>1. /\ Finalize(i, "expired") /\ pc[r] = "both"
          /\ ans'[r] = IF want[r] = "reject" THEN "expired" ELSE "too_late"
      BY <1>0, <2>1 DEF ExpireNow, Answer, TypeOK
    <3> QED BY <3>1 DEF Decided, CommitApproved
  <2>2. CASE Reject(r)
    <3>1. Finalize(i, "rejected") /\ pc[r] = "both" /\ ans'[r] = "rejected" /\ want[r] = "reject"
      BY <1>0, <2>2 DEF Reject, Answer, TypeOK
    <3> QED BY <3>1 DEF Decided, CommitApproved
  <2>3. CASE CommitApproved(r)
    <3>1. Finalize(i, "approved") /\ pc[r] = "commit" /\ ans'[r] = "approved"
      BY <1>0, <2>3 DEF CommitApproved, Answer, TypeOK
    <3>2. want[r] = "approve" BY <1>0, <3>1 DEF RequestKnows
    <3> QED BY <2>3, <3>1, <3>2 DEF Decided
  <2> QED BY <2>1, <2>2, <2>3
<1>11. /\ \A j \in Jobs \ {i} : status'[j] = status[j] /\ appr'[j] = appr[j]
       /\ appr'[i] = a /\ status'[i] = IF a = "expired" THEN "failed" ELSE "succeeded"
  BY <1>0, <1>10 DEF Finalize, TypeOK
<1> HIDE DEF i
<1>12. RowsAgree' BY <1>0, <1>11 DEF RowsAgree, Published, Decided
<1>13. AnswersHold'
  <2>1. ASSUME NEW q \in Requests, q # r
        PROVE  ans'[q] = ans[q] /\ on[q] \in Jobs
               /\ (on[q] = i => ans[q] \notin Decided \cup {"too_late"})
    BY <1>0, <1>6, <1>7, <2>1 DEF OthersStay, AnswersHold, Decided, TypeOK
  <2>2. on[r] = i BY DEF i
  <2> QED BY <1>0, <1>2, <1>10, <1>11, <2>1, <2>2 DEF AnswersHold, Decided
<1>14. /\ EffectIsMarked' /\ EffectsOnce'
       /\ \A j \in Jobs :
             /\ cases'[j] = cases[j] \/ OnlyBy({r}, <<"create_case", j>>)
             /\ \A k \in ArtifactTools : arts'[j][k] = arts[j][k] \/ OnlyBy({r}, <<k, j>>)
  <2>1. CASE CommitApproved(r)
    <3>1. Creates(r) BY <1>0, <2>1 DEF RequestKnows, CommitApproved
    <3>2. Effects(JobOf(r), tool[r]) BY <1>0, <2>1 DEF CommitApproved, i
    <3>3. /\ EffectIsMarked'
          /\ \A j \in Jobs : cases'[j] <= 1 /\ \A k \in ArtifactTools : arts'[j][k] <= 1
          /\ \A j \in Jobs :
                /\ cases'[j] = cases[j] \/ OnlyBy({r}, <<"create_case", j>>)
                /\ \A k \in ArtifactTools : arts'[j][k] = arts[j][k] \/ OnlyBy({r}, <<k, j>>)
      BY <1>0, <3>1, <3>2, EffectsKeep
    <3>4. done' = [done EXCEPT ![i] = @ + 1] BY <2>1 DEF CommitApproved, i
    <3>5. \A j \in Jobs : done'[j] = IF appr'[j] = "approved" THEN 1 ELSE 0
      <4>1. done'[i] = done[i] + 1 /\ \A j \in Jobs \ {i} : done'[j] = done[j]
        BY <1>0, <3>4 DEF TypeOK
      <4>2. done[i] = 0 BY <1>0, <1>7 DEF EffectsOnce, i
      <4>3. appr'[i] = "approved" BY <1>10, <1>11, <2>1
      <4> QED BY <1>0, <1>11, <4>1, <4>2, <4>3 DEF EffectsOnce
    <3> QED BY <3>3, <3>5 DEF EffectsOnce
  <2>2. CASE ~CommitApproved(r)
    <3>1. UNCHANGED <<marker, cases, arts, done>> BY <2>2 DEF ExpireNow, Reject
    <3>2. a # "approved" /\ appr[i] # "approved" BY <1>7, <1>10, <2>2 DEF i
    <3>3. \A j \in Jobs : appr'[j] = "approved" <=> appr[j] = "approved" BY <1>11, <3>2
    <3> QED BY <1>0, <3>1, <3>3 DEF EffectsOnce, EffectIsMarked
  <2> QED BY <2>1, <2>2
<1>15. LockedChange({r}) BY <1>2, <1>8, <1>9, <1>11, <1>14 DEF LockedChange
<1> QED BY <1>0, <1>1, <1>4, <1>5, <1>6, <1>12, <1>13, <1>14, <1>15, RowStep DEF Knows

\* Every step of a request keeps the invariant.
LEMMA RequestKeeps ==
    ASSUME IInv, NEW r \in Requests, RequestStep(r)
    PROVE  IInv'
<1>1. CASE ExpireNow(r) \/ Reject(r) \/ CommitApproved(r) BY <1>1, DecisionKeeps
<1>2. CASE ~(ExpireNow(r) \/ Reject(r) \/ CommitApproved(r))
  <2>1. UNCHANGED <<rowVars, done>>
    BY <1>2 DEF RequestStep, Arrive, LockApproval, WaitForApproval, NotFound, RecheckApproval,
                LockJob, AnswerDecided, Approve, FailRequest
  <2> QED BY <1>2, <2>1, RequestQuietKeeps
<1> QED BY <1>1, <1>2

-----------------------------------------------------------------------------
(* The expiry sweep and the worker's short transactions.                   *)

\* Every step of a sweep keeps the invariant.
LEMMA SweepKeeps ==
    ASSUME IInv, NEW s \in Sweepers, SweepStep(s)
    PROVE  IInv'
<1>0. /\ TypeOK /\ LocksExclude /\ AnswersHold /\ RowsAgree /\ EffectsOnce /\ EffectIsMarked
      /\ SweepKnows(s) /\ s \in Procs /\ s \notin Threads /\ s \notin Requests
  BY Processes DEF IInv
<1>1. TypeOK' BY <1>0, SweepTypes
<1>2. UNCHANGED <<attempt, marker, cases, arts, done, reqVars>>
  BY DEF SweepStep, SelectDue, SweepLocksJob, CommitSweep, AbortSweep, rowVars
<1>3. OthersStay({s})
  BY <1>0, <1>2 DEF SweepStep, SelectDue, SweepLocksJob, CommitSweep, AbortSweep, OthersStay,
         Goto, Lock, Release, TypeOK, reqVars
<1>4. CASE SelectDue(s)
  <2> DEFINE R == {<<"approval", j>> : j \in {i \in Jobs : DueRow(s, i)}}
  <2>1. /\ UNCHANGED <<rowVars, done>> /\ Lock(s, R) /\ held'[s] = held[s] \cup R
        /\ pc[s] = "idle" /\ pc'[s] = "sweep"
    BY <1>0, <1>4 DEF SelectDue, Lock, Goto, TypeOK
  <2>2. R \in SUBSET Rows BY DEF Rows
  <2>3. ASSUME NEW row \in R PROVE row[1] = "approval" /\ Free(s, row)
    <3>1. PICK j \in Jobs : row = <<"approval", j>> /\ DueRow(s, j) OBVIOUS
    <3> QED BY <3>1 DEF DueRow
  <2>4. \A j \in Jobs : <<"approval", j>> \in R => appr[j] = "pending" BY DEF DueRow
  <2> HIDE DEF R
  <2>5. LocksExclude' BY <1>0, <2>1, <2>2, <2>3, LockExcludes
  <2>6. SweepKnows(s)' BY <1>0, <2>1, <2>3, <2>4 DEF SweepKnows, rowVars
  <2>7. AnswersHold' BY <1>0, <1>2, <2>1, AnswersKept DEF rowVars, reqVars
  <2> QED BY <1>0, <1>1, <1>3, <2>1, <2>5, <2>6, <2>7, QuietStep DEF Knows
<1>5. ASSUME NEW j \in Jobs, SweepLocksJob(s, j) PROVE IInv'
  <2>1. /\ UNCHANGED <<rowVars, done>> /\ Lock(s, {<<"job", j>>}) /\ JobFree(s, j)
        /\ held'[s] = held[s] \cup {<<"job", j>>} /\ <<"approval", j>> \in held[s]
        /\ pc[s] = "sweep" /\ pc' = pc /\ <<"job", j>> \in Rows
    BY <1>0, <1>5 DEF SweepLocksJob, Lock, TypeOK, Rows
  <2>2. LocksExclude' BY <1>0, <2>1, LockExcludes DEF JobFree
  <2>3. SweepKnows(s)' BY <1>0, <2>1 DEF SweepKnows, rowVars
  <2>4. AnswersHold' BY <1>0, <1>2, <2>1, AnswersKept DEF rowVars, reqVars
  <2> QED BY <1>0, <1>1, <1>3, <2>1, <2>2, <2>3, <2>4, QuietStep DEF Knows
<1>6. CASE AbortSweep(s)
  <2>1. /\ UNCHANGED <<rowVars, done>> /\ held' = [held EXCEPT ![s] = {}] /\ held'[s] = {}
        /\ pc'[s] = "idle"
    BY <1>0, <1>6 DEF AbortSweep, Release, Goto, TypeOK
  <2>2. LocksExclude' BY <1>0, <2>1, ReleaseExcludes
  <2>3. SweepKnows(s)' BY <1>0, <2>1 DEF SweepKnows
  <2>4. AnswersHold' BY <1>0, <1>2, <2>1, AnswersKept DEF rowVars, reqVars
  <2> QED BY <1>0, <1>1, <1>3, <2>1, <2>2, <2>3, <2>4, QuietStep DEF Knows
<1>7. CASE CommitSweep(s)
  <2> DEFINE batch == {j \in Jobs : <<"approval", j>> \in held[s]}
  <2>1. /\ held' = [held EXCEPT ![s] = {}] /\ held'[s] = {} /\ pc'[s] = "idle"
        /\ \A j \in batch : <<"job", j>> \in held[s]
        /\ \A j \in batch : appr'[j] = "expired" /\ status'[j] = "failed"
        /\ \A j \in Jobs \ batch : appr'[j] = appr[j] /\ status'[j] = status[j]
    BY <1>0, <1>7 DEF CommitSweep, Release, Goto, TypeOK
  <2>2. LocksExclude' BY <1>0, <2>1, ReleaseExcludes
  <2>3. SweepKnows(s)' BY <1>0, <2>1 DEF SweepKnows
  <2>4. \A j \in batch : j \in Jobs /\ appr[j] = "pending" BY <1>0 DEF SweepKnows
  <2>5. ASSUME NEW j \in batch
        PROVE  OnlyBy({s}, <<"approval", j>>) /\ OnlyBy({s}, <<"job", j>>)
    <3>1. <<"approval", j>>[1] # "key" /\ <<"job", j>>[1] # "key" OBVIOUS
    <3>2. <<"approval", j>> \in held[s] /\ <<"job", j>> \in held[s] BY <2>1
    <3> QED BY <1>0, <3>1, <3>2 DEF LocksExclude, OnlyBy
  <2> HIDE DEF batch
  <2>6. RowsAgree' BY <1>0, <2>1, <2>4 DEF RowsAgree, Published, Decided
  <2>7. EffectsOnce' /\ EffectIsMarked'
    <3>1. \A j \in Jobs : appr'[j] = "approved" <=> appr[j] = "approved" BY <2>1, <2>4
    <3> QED BY <1>0, <1>2, <3>1 DEF EffectsOnce, EffectIsMarked
  <2>8. AnswersHold'
    <3>1. \A r \in Requests : on[r] \in Jobs /\ (ans[r] \in Decided \cup {"too_late"} => on[r] \notin batch)
      BY <1>0, <2>4 DEF AnswersHold, Decided, TypeOK
    <3> QED BY <1>0, <1>2, <2>1, <3>1 DEF AnswersHold, reqVars, Decided
  <2>9. LockedChange({s}) BY <1>2, <2>1, <2>5 DEF LockedChange
  <2> QED BY <1>0, <1>1, <1>3, <2>2, <2>3, <2>6, <2>7, <2>8, <2>9, RowStep DEF Knows
<1> QED BY <1>4, <1>5, <1>6, <1>7 DEF SweepStep

\* Every short transaction of the worker keeps the invariant.
LEMMA JobKeeps ==
    ASSUME IInv, NEW i \in Jobs, JobStep(i)
    PROVE  IInv'
<1>0. /\ TypeOK /\ LocksExclude /\ AnswersHold /\ RowsAgree /\ EffectsOnce /\ EffectIsMarked
  BY DEF IInv
<1>1. TypeOK' BY <1>0, JobTypes
<1>2. UNCHANGED <<marker, cases, arts, done, held, tool, reqVars>>
  BY DEF JobStep, Claim, FallsDue, EndAttempt
<1>3. LocksExclude' BY <1>0, <1>2 DEF LocksExclude
<1>4. CASE FallsDue(i)
  <2>1. UNCHANGED <<status, attempt, appr, pc>> BY <1>4 DEF FallsDue
  <2>2. RowsAgree' /\ EffectsOnce' /\ EffectIsMarked' /\ AnswersHold'
    BY <1>0, <1>2, <2>1 DEF RowsAgree, EffectsOnce, EffectIsMarked, AnswersHold, reqVars
  <2>3. OthersStay({}) BY <1>2, <2>1 DEF OthersStay, reqVars
  <2>4. LockedChange({}) BY <1>2, <2>1 DEF LockedChange
  <2> QED BY <1>1, <1>3, <2>2, <2>3, <2>4, RowStep
<1>5. ASSUME NEW s \in Terminal \cup {"queued"}, EndAttempt(i, s) PROVE IInv'
  <2>1. /\ status[i] = "running" /\ Unlocked(i) /\ UNCHANGED <<attempt, pc>>
        /\ \A j \in Jobs \ {i} : status'[j] = status[j] /\ appr'[j] = appr[j]
        /\ status'[i] = s
        /\ appr'[i] = IF appr[i] = "staged" /\ s # "queued" THEN "cancelled" ELSE appr[i]
    BY <1>0, <1>5 DEF EndAttempt, TypeOK
  <2>2. /\ appr[i] \in {"none", "staged", "cancelled"}
        /\ \A r \in Requests : on[r] = i => <<"approval", i>> \notin held[r]
                                          /\ ans[r] \notin Decided \cup {"too_late"}
        /\ \A q \in Sweepers : <<"approval", i>> \notin held[q]
    BY <2>1, RunningUndecided
  <2>3. RowsAgree' BY <1>0, <2>1, <2>2 DEF RowsAgree, Published, Decided, Terminal
  <2>4. EffectsOnce' /\ EffectIsMarked'
    <3>1. \A j \in Jobs : appr'[j] = "approved" <=> appr[j] = "approved" BY <2>1, <2>2
    <3> QED BY <1>0, <1>2, <3>1 DEF EffectsOnce, EffectIsMarked
  <2>5. AnswersHold'
    <3>1. on \in [Requests -> Jobs] BY <1>0 DEF TypeOK
    <3> QED BY <1>0, <1>2, <2>1, <2>2, <3>1 DEF AnswersHold, reqVars, Decided
  <2>6. OthersStay({}) BY <1>2, <2>1 DEF OthersStay, reqVars
  <2>7. OnlyBy({}, <<"job", i>>) BY <2>1 DEF OnlyBy, Unlocked
  <2>8. OnlyBy({}, <<"approval", i>>)
    <3>1. ASSUME NEW q \in Procs PROVE <<"approval", i>> \notin held[q]
      <4>1. CASE q \in Threads
        <5>1. ThreadKnows(q) BY <4>1 DEF IInv
        <5>2. <<"approval", i>>[1] = "approval" OBVIOUS
        <5> QED BY <5>1, <5>2 DEF ThreadKnows
      <4>2. CASE q \in Requests
        <5>1. RequestKnows(q) BY <4>2 DEF IInv
        <5>2. <<"approval", i>>[2] = i /\ <<"approval", i>> # <<"update_case_fields", "case">>
          OBVIOUS
        <5> QED BY <2>2, <4>2, <5>1, <5>2 DEF RequestKnows
      <4>3. CASE q \in Sweepers BY <2>2, <4>3
      <4> QED BY <4>1, <4>2, <4>3 DEF Procs
    <3> QED BY <3>1 DEF OnlyBy
  <2>9. LockedChange({}) BY <1>2, <2>1, <2>7, <2>8 DEF LockedChange
  <2> QED BY <1>1, <1>3, <2>3, <2>4, <2>5, <2>6, <2>9, RowStep
<1>6. CASE Claim(i)
  <2>0. attempt[i] \in Nat /\ attempt[i] + 1 \in 1 .. MaxAttempts
    BY <1>0, <1>6, EffectAssumption DEF Claim, TypeOK
  <2>1. PICK t \in Threads : /\ t = <<i, attempt[i] + 1>>
                             /\ t[1] = i /\ t[2] = attempt[i] + 1
    <3>1. <<i, attempt[i] + 1>> \in Threads BY <2>0 DEF Threads
    <3>2. <<i, attempt[i] + 1>>[1] = i /\ <<i, attempt[i] + 1>>[2] = attempt[i] + 1 OBVIOUS
    <3> QED BY <3>1, <3>2
  <2>2. t \in Procs /\ t \notin Requests /\ t \notin Sweepers BY <1>0, <2>1, Processes
  <2>3. /\ status[i] = "queued" /\ Unlocked(i) /\ appr' = appr
        /\ \A j \in Jobs \ {i} : status'[j] = status[j] /\ attempt'[j] = attempt[j]
        /\ status'[i] = "running" /\ attempt'[i] = attempt[i] + 1
        /\ pc' = [pc EXCEPT ![t] = "idle"]
    BY <1>0, <1>6, <2>1 DEF Claim, TypeOK, Goto
  <2>4. pc[t] = "over" /\ held[t] = {}
    <3>1. ThreadKnows(t) BY <2>1 DEF IInv
    <3> QED BY <2>0, <2>1, <3>1 DEF ThreadKnows
  <2>5. ThreadKnows(t)'
    <3>1. pc'[t] = "idle" /\ held'[t] = {} BY <1>0, <1>2, <2>2, <2>3, <2>4 DEF TypeOK
    <3>2. ~(t[2] > attempt'[t[1]]) BY <2>0, <2>1, <2>3
    <3> QED BY <3>1, <3>2 DEF ThreadKnows
  <2>6. RowsAgree' BY <1>0, <2>3 DEF RowsAgree, Published, Decided
  <2>7. EffectsOnce' /\ EffectIsMarked'
    BY <1>0, <1>2, <2>3 DEF EffectsOnce, EffectIsMarked
  <2>8. AnswersHold' BY <1>0, <1>2, <2>3, AnswersKept DEF reqVars
  <2>9. OthersStay({t}) BY <1>0, <1>2, <2>3 DEF OthersStay, reqVars, TypeOK
  <2>10. OnlyBy({t}, <<"job", i>>) BY <2>3 DEF OnlyBy, Unlocked
  <2>11. attempt'[i] >= attempt[i] BY <2>0, <2>3
  <2>12. LockedChange({t}) BY <1>2, <2>3, <2>10, <2>11 DEF LockedChange
  <2> QED BY <1>1, <1>3, <2>1, <2>2, <2>5, <2>6, <2>7, <2>8, <2>9, <2>12, RowStep DEF Knows
<1> QED BY <1>4, <1>5, <1>6 DEF JobStep

-----------------------------------------------------------------------------
(* The theorems.                                                           *)

\* The initial state: nothing is locked, claimed, requested or asked for.
LEMMA InitHolds == Init => IInv
<1> SUFFICES ASSUME Init PROVE IInv OBVIOUS
<1>1. TypeOK
  BY EffectAssumption DEF Init, TypeOK, PC, Answers, JobStatus, Terminal, Decided
<1>2. /\ \A p \in Procs : held[p] = {}
      /\ \A t \in Threads : pc[t] = "over"
      /\ \A r \in Requests : pc[r] = "idle" /\ ans[r] = "none"
      /\ \A s \in Sweepers : pc[s] = "idle"
  BY <1>1, Processes DEF Init
<1>3. LocksExclude BY <1>2 DEF LocksExclude
<1>4. ASSUME NEW t \in Threads PROVE ThreadKnows(t)
  BY <1>1, <1>2, Processes DEF ThreadKnows
<1>5. ASSUME NEW r \in Requests PROVE RequestKnows(r)
  BY <1>1, <1>2, Processes DEF RequestKnows
<1>6. ASSUME NEW s \in Sweepers PROVE SweepKnows(s)
  BY <1>1, <1>2, Processes DEF SweepKnows
<1>7. RowsAgree /\ EffectsOnce /\ EffectIsMarked /\ AnswersHold
  BY <1>2 DEF Init, RowsAgree, EffectsOnce, EffectIsMarked, AnswersHold, Published, Decided,
              ArtifactTools
<1> QED BY <1>1, <1>3, <1>4, <1>5, <1>6, <1>7 DEF IInv

\* EffectInvariant: every reachable state satisfies the inductive invariant, that
\* is, each open transaction of decide, expire_due, the worker and the tools knows
\* by its locks what it is about to write.
THEOREM EffectInvariant == Spec => []IInv
<1>1. IInv /\ [Next]_vars => IInv'
  <2> SUFFICES ASSUME IInv, [Next]_vars PROVE IInv' OBVIOUS
  <2>1. ASSUME NEW j \in Jobs, JobStep(j) PROVE IInv' BY <2>1, JobKeeps
  <2>2. ASSUME NEW p \in Threads \cup Requests, ActionStep(p) PROVE IInv'
    BY <2>2, ActionKeeps
  <2>3. ASSUME NEW t \in Threads, ThreadStep(t) PROVE IInv' BY <2>3, ThreadKeeps
  <2>4. ASSUME NEW r \in Requests, RequestStep(r) PROVE IInv' BY <2>4, RequestKeeps
  <2>5. ASSUME NEW s \in Sweepers, SweepStep(s) PROVE IInv' BY <2>5, SweepKeeps
  <2>6. CASE UNCHANGED vars
    <3>1. TypeOK' BY <2>6 DEF vars, IInv, TypeOK
    <3>2. LocksExclude' BY <2>6 DEF vars, IInv, LocksExclude
    <3>3. RowsAgree' /\ EffectsOnce' /\ EffectIsMarked' /\ AnswersHold'
      BY <2>6 DEF vars, IInv, RowsAgree, EffectsOnce, EffectIsMarked, AnswersHold
    <3>4. OthersStay({}) /\ LockedChange({}) BY <2>6 DEF vars, OthersStay, LockedChange
    <3> QED BY <3>1, <3>2, <3>3, <3>4, RowStep
  <2> QED BY <2>1, <2>2, <2>3, <2>4, <2>5, <2>6 DEF Next
<1> QED BY <1>1, InitHolds, PTL DEF Spec

\* EffectsHappenOnce: with any number of attempts, requests and sweeps, a job never
\* gets a second case or artifact of a kind from the tools or from an approved
\* action, and an approved action was executed exactly once.
THEOREM EffectsHappenOnce == Spec => []EffectsOnce
<1>1. IInv => EffectsOnce BY DEF IInv
<1> QED BY <1>1, EffectInvariant, PTL

\* EffectsAreMarked: no case or artifact becomes durable without the job's
\* side-effect marker.
THEOREM EffectsAreMarked == Spec => []EffectIsMarked
<1>1. IInv => EffectIsMarked BY DEF IInv
<1> QED BY <1>1, EffectInvariant, PTL

\* AnswersAreTrue: what decide answers an operator is durable and answers the
\* question.
THEOREM AnswersAreTrue == Spec => []AnswersHold
<1>1. IInv => AnswersHold BY DEF IInv
<1> QED BY <1>1, EffectInvariant, PTL

\* RowsStayTogether: whatever the interleaving of statements, agent_jobs and
\* approvals agree.
THEOREM RowsStayTogether == Spec => []RowsAgree
<1>1. IInv => RowsAgree BY DEF IInv
<1> QED BY <1>1, EffectInvariant, PTL

-----------------------------------------------------------------------------
(* Deadlock.  Without the threads of lost attempts, every process that has *)
(* or wants a row of a job, other than by waiting for its approval, has    *)
(* the job to itself: the thread because the job runs, a decider or sweep  *)
(* because it has locked the approval.  What is left to wait for is the    *)
(* case, whose holders wait for nobody.                                    *)

CaseRow == <<"update_case_fields", "case">>

\* p has job j to itself.
Has(p, j) == \/ p \in Threads /\ Owns(p) /\ p[1] = j
             \/ p \notin Threads /\ <<"approval", j>> \in held[p]

\* Two processes never have one job.
LEMMA HasOnce ==
    ASSUME IInv, NEW p \in Procs, NEW q \in Procs, NEW j \in Jobs, Has(p, j), Has(q, j)
    PROVE  p = q
<1>0. TypeOK /\ LocksExclude BY DEF IInv
<1>1. ASSUME NEW t \in Threads, NEW x \in Procs \ Threads, Has(t, j), Has(x, j) PROVE FALSE
  <2>1. status[j] = "running" /\ <<"approval", j>> \in held[x]
    BY <1>1 DEF Has, Owns
  <2>2. x \notin Sweepers BY <2>1, RunningUndecided
  <2>3. x \in Requests BY <1>1, <2>2 DEF Procs
  <2>4. on[x] = j
    <3>1. RequestKnows(x) BY <2>3 DEF IInv
    <3>2. <<"approval", j>>[2] = j /\ <<"approval", j>> # <<"update_case_fields", "case">> OBVIOUS
    <3> QED BY <2>1, <3>1, <3>2 DEF RequestKnows
  <2> QED BY <2>1, <2>3, <2>4, RunningUndecided
<1>2. CASE p \in Threads /\ q \in Threads
  BY <1>0, <1>2, Processes DEF Has, Owns
<1>3. CASE p \notin Threads /\ q \notin Threads
  <2>1. <<"approval", j>> \in held[p] \cap held[q] /\ <<"approval", j>>[1] # "key"
    BY <1>3 DEF Has
  <2> QED BY <1>0, <2>1 DEF LocksExclude
<1> QED BY <1>1, <1>2, <1>3

\* A process that is not lost has the job of every row it has locked.
LEMMA LockedHas ==
    ASSUME IInv, NEW q \in Procs, ~Lost(q), NEW row \in held[q], row # CaseRow
    PROVE  row[2] \in Jobs /\ Has(q, row[2])
<1>0. TypeOK /\ row \in Rows BY DEF IInv, TypeOK
<1>1. row = <<row[1], row[2]>> /\ row[2] \in Jobs BY <1>0 DEF Rows, CaseRow
<1>2. CASE q \in Threads
  <2>1. ThreadKnows(q) BY <1>2 DEF IInv
  <2> QED BY <1>1, <1>2, <2>1 DEF ThreadKnows, Has, Lost, CaseRow
<1>3. CASE q \in Requests
  <2>1. RequestKnows(q) /\ q \notin Threads BY <1>0, <1>3, Processes DEF IInv
  <2>2. row[2] = on[q] /\ <<"approval", on[q]>> \in held[q]
    BY <2>1 DEF RequestKnows, CaseRow
  <2> QED BY <1>1, <2>1, <2>2 DEF Has
<1>4. CASE q \in Sweepers
  <2>1. SweepKnows(q) /\ q \notin Threads BY <1>0, <1>4, Processes DEF IInv
  <2>2. <<"approval", row[2]>> \in held[q] BY <1>1, <2>1 DEF SweepKnows
  <2> QED BY <1>1, <2>1, <2>2 DEF Has
<1> QED BY <1>2, <1>3, <1>4 DEF Procs

\* A process that is not lost has the job of every row it waits for, unless that is
\* the case or the request still waits for the approval.
LEMMA WantedHas ==
    ASSUME IInv, NEW p \in Procs, ~Lost(p), pc[p] # "wait",
           NEW row \in Wanted(p), row # CaseRow
    PROVE  Has(p, row[2])
<1>0. TypeOK BY DEF IInv
<1>1. CASE p \in Sweepers
  <2>1. SweepKnows(p) /\ p \notin Threads BY <1>0, <1>1, Processes DEF IInv
  <2>2. pc[p] = "sweep" /\ <<"approval", row[2]>> \in held[p]
    BY <2>1 DEF SweepKnows, Wanted
  <2> QED BY <2>1, <2>2 DEF Has
<1>2. CASE p \in Threads \cup Requests
  <2>1. /\ p \in Threads => ThreadKnows(p) /\ JobOf(p) = p[1]
        /\ p \in Requests => RequestKnows(p) /\ p \notin Threads /\ JobOf(p) = on[p]
    BY <1>0, <1>2, Processes DEF IInv
  <2>2. pc[p] # "sweep" BY <1>2, <2>1 DEF ThreadKnows, RequestKnows
  <2>3. pc[p] = "insert" => tool[p] \in ArtifactTools
    BY <1>2, <2>1 DEF ThreadKnows, RequestKnows
  <2>4. pc[p] \in {"insert", "effect", "key", "fencing", "ask", "staged", "job", "stage", "park"}
    BY <2>2 DEF Wanted
  <2>5. row[2] = JobOf(p)
    <3>1. CASE pc[p] \in {"insert", "effect"}
      <4>1. /\ row = ActionRow(p)
            /\ tool[p] \in CaseTools \cup ArtifactTools
        BY <2>3, <3>1 DEF Wanted, Existing, CaseTools
      <4> QED BY <1>0, <1>2, <4>1, ActionRows DEF CaseRow
    <3>2. CASE pc[p] = "key" BY <3>2 DEF Wanted
    <3>3. CASE pc[p] \in {"fencing", "ask", "staged", "job"} BY <3>3 DEF Wanted
    <3>4. CASE pc[p] \in {"stage", "park"} BY <3>4 DEF Wanted
    <3> QED BY <2>4, <3>1, <3>2, <3>3, <3>4
  <2>6. CASE p \in Threads BY <2>1, <2>5, <2>6 DEF Has, Lost
  <2>7. CASE p \in Requests
    <3>1. <<"approval", on[p]>> \in held[p] BY <2>1, <2>4, <2>7 DEF RequestKnows
    <3> QED BY <2>1, <2>5, <2>7, <3>1 DEF Has
  <2> QED BY <1>2, <2>6, <2>7
<1> QED BY <1>1, <1>2 DEF Procs

\* Among processes that are not lost, one waits only for the case or an approval.
LEMMA LiveWaits ==
    ASSUME IInv, NEW p \in Procs, NEW q \in Procs, ~Lost(p), ~Lost(q), WaitsFor(p, q),
           pc[p] # "wait"
    PROVE  CaseRow \in Wanted(p) /\ CaseRow \in held[q]
<1>1. PICK row \in Wanted(p) \cap held[q] : TRUE BY DEF WaitsFor
<1>2. CASE row = CaseRow BY <1>1, <1>2
<1>3. CASE row # CaseRow
  <2>1. Has(p, row[2]) BY <1>1, <1>3, WantedHas
  <2>2. row[2] \in Jobs /\ Has(q, row[2]) BY <1>1, <1>3, LockedHas
  <2> QED BY <2>1, <2>2, HasOnce DEF WaitsFor
<1> QED BY <1>2, <1>3

\* A process that is not lost and has locked the case waits for none of the others.
LEMMA CaseHolderRuns ==
    ASSUME IInv, NEW p \in Procs, NEW q \in Procs, ~Lost(p), ~Lost(q), CaseRow \in held[p]
    PROVE  ~WaitsFor(p, q)
<1>0. TypeOK BY DEF IInv
<1>1. pc[p] \in {"fence", "fencing", "commit"}
  <2>1. CASE p \in Threads BY <2>1 DEF IInv, ThreadKnows, CaseRow
  <2>2. CASE p \in Requests BY <2>2 DEF IInv, RequestKnows, CaseRow
  <2>3. CASE p \in Sweepers
    <3>1. SweepKnows(p) /\ CaseRow[1] = "update_case_fields" BY <2>3 DEF IInv, CaseRow
    <3> QED BY <3>1 DEF SweepKnows
  <2> QED BY <2>1, <2>2, <2>3 DEF Procs
<1>2. CaseRow \notin Wanted(p)
  <2>1. \A x : CaseRow # <<"job", x>> /\ CaseRow # <<"key", x>> BY DEF CaseRow
  <2> QED BY <1>1, <2>1 DEF Wanted
<1> QED BY <1>1, <1>2, LiveWaits

\* NoDeadlockAmongOwners: a circle of transactions that wait for each other contains
\* the thread of an attempt that has lost the job, for any number of processes.
THEOREM NoDeadlockAmongOwners == Spec => []DeadlockNeedsLostAttempt
<1>1. IInv => DeadlockNeedsLostAttempt
  <2> SUFFICES ASSUME IInv, NEW S \in SUBSET Procs, S # {},
                      \A p \in S : \E q \in S : WaitsFor(p, q),
                      \A p \in S : ~Lost(p)
               PROVE  FALSE
    BY DEF DeadlockNeedsLostAttempt
  <2>1. ASSUME NEW p \in S, CaseRow \in held[p] PROVE FALSE
    BY <2>1, CaseHolderRuns
  <2>2. ASSUME NEW p \in S PROVE pc[p] = "wait"
    <3>1. PICK q \in S : WaitsFor(p, q) OBVIOUS
    <3> QED BY <2>1, <3>1, LiveWaits
  <2>3. PICK p \in S : TRUE OBVIOUS
  <2>4. PICK q \in S : WaitsFor(p, q) OBVIOUS
  <2>5. held[q] = {}
    <3>1. CASE q \in Threads BY <2>2, <3>1 DEF IInv, ThreadKnows
    <3>2. CASE q \in Requests BY <2>2, <3>2 DEF IInv, RequestKnows
    <3>3. CASE q \in Sweepers BY <2>2, <3>3 DEF IInv, SweepKnows
    <3> QED BY <3>1, <3>2, <3>3 DEF Procs
  <2> QED BY <2>4, <2>5 DEF WaitsFor
<1> QED BY <1>1, EffectInvariant, PTL

\* EffectTypesHold: rows, locks and processes keep their types.
THEOREM EffectTypesHold == Spec => []TypeOK
<1>1. IInv => TypeOK
  BY DEF IInv
<1>2. QED
  BY <1>1, EffectInvariant, PTL

\* EffectsHappenOnceMarked: effects happen once and marked, for any number of
\* attempts, requests and sweeps.
THEOREM EffectsHappenOnceMarked == Spec => []EffectsOnceAndMarked
<1>1. EffectsOnce /\ EffectIsMarked => EffectsOnceAndMarked
  BY DEF EffectsOnceAndMarked
<1>2. QED
  BY <1>1, EffectsHappenOnce, EffectsAreMarked, PTL

=============================================================================
