-------------------------- MODULE ProviderRunProofs --------------------------
(***************************************************************************)
(* Proofs about ProviderRun, for every set of tool calls, every step       *)
(* limit, every persisted job and every interleaving of the agent's thread *)
(* with the worker that waits for it.                                      *)
(***************************************************************************)
EXTENDS ProviderRun, TLAPS

(***************************************************************************)
(* Operators.                                                              *)
(***************************************************************************)

\* EmitCounts: safe_emit counts the events it is given, and no other.
LEMMA EmitCounts ==
    ASSUME events \in [Events -> Nat], NEW es, Emit(es)
    PROVE  /\ events' \in [Events -> Nat]
           /\ \A e \in Events : e \in es => events'[e] = events[e] + 1
           /\ \A e \in Events : e \notin es => events'[e] = events[e]
BY DEF Emit

\* Admissible: build refuses a job exactly when its profile, its document or its
\* risk signals do not admit a run, and only an unreadable document is refused
\* as one.
LEMMA Admissible ==
    ASSUME NEW j \in Jobs
    PROVE  /\ BuildResult(j) \in Preflights \cup {"continue"}
           /\ BuildResult(j) # "continue" <=>
                 j.profile # "ok" \/ ~j.risk \/ (j.document.present /\
                    (~j.document.bound \/ ~j.document.intake \/ j.document.error))
           /\ BuildResult(j) = "document_unreadable" => j.document.error
<1> DEFINE bad == j.document.present /\
                     (~j.document.bound \/ ~j.document.intake \/ j.document.error)
<1>1. j.profile \in {"ok", "no_capability", "unusable"}
  BY DEF Jobs
<1>2. /\ bad => Preflight(j) \in Preflights
      /\ ~bad => Preflight(j) = "continue"
      /\ Preflight(j) = "document_unreadable" => j.document.error
  <2>1. CASE ~j.document.present
    BY <2>1 DEF Preflight
  <2>2. CASE j.document.present
    BY <2>2 DEF Preflight, Preflights
  <2>3. QED
    BY <2>1, <2>2
<1>3. "continue" \notin Preflights
  BY DEF Preflights
<1> HIDE DEF bad
<1>4. /\ BuildResult(j) \in Preflights \cup {"continue"}
      /\ BuildResult(j) # "continue" <=> j.profile # "ok" \/ ~j.risk \/ bad
      /\ BuildResult(j) = "document_unreadable" => j.document.error
  <2>1. CASE j.profile # "ok"
    BY <1>1, <2>1 DEF BuildResult, Preflights
  <2>2. CASE j.profile = "ok" /\ Preflight(j) # "continue"
    <3>1. BuildResult(j) = Preflight(j)
      BY <2>2 DEF BuildResult
    <3>2. QED
      BY <1>2, <1>3, <2>2, <3>1
  <2>3. CASE j.profile = "ok" /\ Preflight(j) = "continue" /\ ~j.risk
    <3>1. BuildResult(j) = "snapshot_incompatible"
      BY <2>3 DEF BuildResult
    <3>2. QED
      BY <2>3, <3>1 DEF Preflights
  <2>4. CASE j.profile = "ok" /\ Preflight(j) = "continue" /\ j.risk
    <3>1. BuildResult(j) = "continue"
      BY <2>4 DEF BuildResult
    <3>2. QED
      BY <1>2, <1>3, <2>4, <3>1
  <2>5. QED
    BY <2>1, <2>2, <2>3, <2>4
<1>5. QED
  BY <1>4 DEF bad

(***************************************************************************)
(* The two sides leave each other's state alone.                           *)
(***************************************************************************)

Silent == events'["job_finished"] = events["job_finished"]
          /\ events'["retry_scheduled"] = events["retry_scheduled"]

\* ThreadFrame: the agent's thread never writes what serve_once reads and
\* writes, and it has not ended when it takes a step.
LEMMA ThreadFrame ==
    ASSUME TypeOK, ThreadNext
    PROVE  /\ pc # "done" /\ UNCHANGED <<job, row, loop>>
           /\ events' \in [Events -> Nat] /\ Silent
<1>1. events \in [Events -> Nat] /\ {"job_finished", "retry_scheduled"} \subseteq Events
  BY DEF TypeOK, Events
<1>2. ASSUME NEW es, Emit(es), "job_finished" \notin es, "retry_scheduled" \notin es
      PROVE  events' \in [Events -> Nat] /\ Silent
  BY <1>1, <1>2, EmitCounts DEF Silent
<1>3. UNCHANGED events => events' \in [Events -> Nat] /\ Silent
  BY <1>1 DEF Silent
<1>4. CASE BuildTerminal \/ BuildReady
  BY <1>2, <1>4 DEF BuildTerminal, BuildReady, loop
<1>5. CASE Post
  BY <1>3, <1>5 DEF Post, loop
<1>6. ASSUME NEW c, Proposal(c) PROVE UNCHANGED <<job, row, loop>> /\ pc # "done"
                                     /\ events' \in [Events -> Nat] /\ Silent
  BY <1>2, <1>6 DEF Proposal, loop
<1>7. CASE Invalid \/ UnnameableStatus
  BY <1>2, <1>7 DEF Invalid, UnnameableStatus, AttemptRaises, Repair, loop
<1>8. ASSUME NEW f, RequestFails(f) PROVE UNCHANGED <<job, row, loop>> /\ pc # "done"
                                         /\ events' \in [Events -> Nat] /\ Silent
  BY <1>2, <1>8 DEF RequestFails, loop
<1>9. CASE SeesCancellation \/ Close \/ Repeated \/ StartTool
  BY <1>2, <1>3, <1>9 DEF SeesCancellation, Close, Repeated, StartTool, loop
<1>10. CASE ToolContinues \/ ToolStops \/ ApprovalRaises \/ Exhausted
  BY <1>2, <1>3, <1>10 DEF ToolContinues, ToolStops, ApprovalRaises, Exhausted, loop
<1>11. QED
  BY <1>4, <1>5, <1>6, <1>7, <1>8, <1>9, <1>10 DEF ThreadNext

\* WorkerFrame: neither the worker that waits nor one that takes the job touches
\* the thread's state; all they can do to it is to set the cancellation event.
LEMMA WorkerFrame ==
    ASSUME TypeOK, WorkerNext \/ Taken
    PROVE  /\ UNCHANGED <<job, marked, thread, posts, answer, late>>
           /\ events' \in [Events -> Nat]
           /\ events'["provider_call"] = events["provider_call"]
           /\ cancelled => cancelled'
<1>1. events \in [Events -> Nat] /\ "provider_call" \in Events
  BY DEF TypeOK, Events
<1>2. ASSUME NEW es, Emit(es), "provider_call" \notin es
      PROVE  events' \in [Events -> Nat] /\ events'["provider_call"] = events["provider_call"]
  BY <1>1, <1>2, EmitCounts
<1>3. CASE RunReturns \/ Interrupt
  BY <1>2, <1>3 DEF RunReturns, Interrupt, HeartbeatFails
<1>4. CASE \/ StopWaiting \/ Inspect \/ SkipInspect
           \/ Commit \/ ShutDown \/ Cancel
  BY <1>1, <1>4 DEF StopWaiting, Inspect, SkipInspect, Commit, ShutDown, Cancel, Aborts
<1>5. ASSUME NEW outcome, NEW es, Finish(outcome, es), "provider_call" \notin es
      PROVE  /\ UNCHANGED <<job, marked, thread, posts, answer, late, cancelled>>
             /\ events' \in [Events -> Nat]
             /\ events'["provider_call"] = events["provider_call"]
  BY <1>2, <1>5 DEF Finish
<1>6. CASE Report
  BY <1>5, <1>6 DEF Report
<1>7. CASE PersistFails
  BY <1>5, <1>7 DEF PersistFails
<1>8. CASE LeaseLost
  BY <1>5, <1>8 DEF LeaseLost
<1>9. CASE Taken
  BY <1>1, <1>9 DEF Taken, loop
<1>10. QED
  BY <1>3, <1>4, <1>6, <1>7, <1>8, <1>9 DEF WorkerNext

(***************************************************************************)
(* The transcript.                                                         *)
(***************************************************************************)

\* UserLast: what is in front of a user message is the system's.
UserLast(ms) ==
    \A n \in DOMAIN ms : ms[n].role = "user" =>
        \A m \in 1 .. n - 1 : ms[m].role = "system"

\* AppendAccepted: a message that answers an open call with its tool message, and
\* is no tool message otherwise, keeps a conversation acceptable.
LEMMA AppendAccepted ==
    ASSUME NEW ms \in Seq(Messages), NEW m \in Messages, ms # <<>>, Accepts(ms),
           Open(ms[Len(ms)]) => m.role = "tool",
           m.role = "tool" => /\ ms[Len(ms)].role = "assistant"
                              /\ m.call # "none" /\ m.call = ms[Len(ms)].call
    PROVE  Accepts(Append(ms, m))
<1> DEFINE k == Len(ms)
           t == Append(ms, m)
<1>1. /\ Len(t) = k + 1 /\ k \in Nat /\ k >= 1 /\ t[k + 1] = m
      /\ \A n \in 1 .. k : t[n] = ms[n]
  OBVIOUS
<1>2. /\ \A n \in 1 .. k - 1 :
            ms[n].role = "assistant" /\ ms[n].call # "none" => ms[n + 1].role = "tool"
      /\ \A n \in 1 .. k : ms[n].role = "tool" =>
            /\ n > 1 /\ ms[n - 1].role = "assistant"
            /\ ms[n].call # "none" /\ ms[n].call = ms[n - 1].call
  BY DEF Accepts
<1>3. /\ ms[k].role = "assistant" /\ ms[k].call # "none" => m.role = "tool"
      /\ m.role = "tool" => /\ ms[k].role = "assistant"
                            /\ m.call # "none" /\ m.call = ms[k].call
  BY DEF Open
<1> HIDE DEF k, t
<1>4. ASSUME NEW n \in 1 .. k,
             t[n].role = "assistant" /\ t[n].call # "none"
      PROVE  t[n + 1].role = "tool"
  <2>1. CASE n = k
    BY <1>1, <1>3, <1>4, <2>1
  <2>2. CASE n \in 1 .. k - 1
    BY <1>1, <1>2, <1>4, <2>2
  <2>3. QED
    BY <1>1, <2>1, <2>2
<1>5. ASSUME NEW n \in 1 .. k + 1, t[n].role = "tool"
      PROVE  /\ n > 1 /\ t[n - 1].role = "assistant"
             /\ t[n].call # "none" /\ t[n].call = t[n - 1].call
  <2>1. CASE n = k + 1
    BY <1>1, <1>3, <1>5, <2>1
  <2>2. CASE n \in 1 .. k
    BY <1>1, <1>2, <1>5, <2>2
  <2>3. QED
    BY <1>1, <2>1, <2>2
<1>6. Accepts(t)
  BY <1>1, <1>4, <1>5 DEF Accepts
<1>7. QED
  BY <1>6 DEF t

\* AppendUser: a message that is not the user's leaves the user's where it was.
LEMMA AppendUser ==
    ASSUME NEW ms \in Seq(Messages), NEW m \in Messages, UserLast(ms), m.role # "user"
    PROVE  UserLast(Append(ms, m))
<1> DEFINE k == Len(ms)
           t == Append(ms, m)
<1>1. /\ DOMAIN t = 1 .. k + 1 /\ DOMAIN ms = 1 .. k /\ k \in Nat /\ t[k + 1] = m
      /\ \A n \in 1 .. k : t[n] = ms[n]
  OBVIOUS
<1> HIDE DEF k, t
<1>2. ASSUME NEW n \in 1 .. k + 1, t[n].role = "user", NEW i \in 1 .. n - 1
      PROVE  t[i].role = "system"
  BY <1>1, <1>2 DEF UserLast
<1>3. UserLast(t)
  BY <1>1, <1>2 DEF UserLast
<1>4. QED
  BY <1>3 DEF t

\* InitialIsSound: what initial_messages returns can be sent, and ends with the
\* source.
LEMMA InitialIsSound ==
    ASSUME NEW j \in Jobs
    PROVE  LET ms == InitialMessages(j)
           IN  /\ ms \in Seq(Messages) /\ ms # <<>> /\ Accepts(ms) /\ UserLast(ms)
               /\ ~Open(ms[Len(ms)])
<1> DEFINE s == Message("system", "none")
           u == Message("user", "none")
           ms == InitialMessages(j)
<1>1. /\ s \in Messages /\ u \in Messages /\ s.role = "system" /\ u.role = "user"
  BY DEF Message, Messages, Roles
<1> DEFINE x == IF j.document.present THEN <<s>> ELSE <<>>
           a == <<s, s>> \o x
<1>2. ms = a \o <<s, u>>
  BY DEF InitialMessages
<1> HIDE DEF s, u, ms
<1>3. /\ ms \in Seq(Messages) /\ Len(ms) \in {4, 5} /\ ms[Len(ms)] = u
      /\ \A n \in 1 .. Len(ms) - 1 : ms[n] = s
  <2>1. x \in Seq(Messages) /\ Len(x) \in {0, 1} /\ \A n \in 1 .. Len(x) : x[n] = s
    BY <1>1
  <2> HIDE DEF x
  <2>2. a \in Seq(Messages) /\ Len(a) = Len(x) + 2
    BY <1>1, <2>1
  <2>3. \A n \in 1 .. Len(a) : a[n] = s
    BY <1>1, <2>1
  <2> HIDE DEF a
  <2>4. ms \in Seq(Messages) /\ Len(ms) = Len(a) + 2
    BY <1>1, <1>2, <2>2
  <2>5. ms[Len(a) + 2] = u /\ ms[Len(a) + 1] = s /\ \A n \in 1 .. Len(a) : ms[n] = s
    BY <1>1, <1>2, <2>1, <2>2, <2>3
  <2>6. QED
    BY <2>1, <2>2, <2>4, <2>5
<1>4. Accepts(ms)
  BY <1>1, <1>3 DEF Accepts
<1>5. UserLast(ms)
  BY <1>1, <1>3 DEF UserLast
<1>6. ms # <<>> /\ ~Open(ms[Len(ms)])
  <2>1. ~Open(u)
    BY <1>1 DEF Open
  <2>2. ms \in Seq(Messages) /\ Len(ms) # 0 => ms # <<>>
    OBVIOUS
  <2>3. ~Open(ms[Len(ms)])
    BY <1>3, <2>1, Zenon
  <2>4. ms \in Seq(Messages) /\ (Len(ms) = 4 \/ Len(ms) = 5)
    BY <1>3, Zenon
  <2>5. Len(ms) # 0
    BY <2>4
  <2>6. QED
    BY <2>2, <2>3, <2>4, <2>5, Zenon
<1>7. QED
  BY <1>3, <1>4, <1>5, <1>6 DEF ms

(***************************************************************************)
(* Every step keeps the invariant, part by part.                           *)
(***************************************************************************)

\* OutgoingAccepted: when a request is about to be posted, the adapter accepts
\* the conversation, with the validator's feedback or without it.
LEMMA OutgoingAccepted ==
    ASSUME TypeOK, Transcript, pc = "complete"
    PROVE  Accepts(Outgoing)
<1>1. /\ messages \in Seq(Messages) /\ messages # <<>> /\ Accepts(messages)
      /\ ~Open(messages[Len(messages)])
  BY DEF TypeOK, Transcript
<1>2. Message("user", "none") \in Messages /\ Message("user", "none").role = "user"
  BY DEF Message, Messages, Roles
<1>3. Accepts(Append(messages, Message("user", "none")))
  BY <1>1, <1>2, AppendAccepted
<1>4. QED
  BY <1>1, <1>3 DEF Outgoing

\* LastTyped: the last message of a conversation, and the call it proposes.
LEMMA LastTyped ==
    ASSUME TypeOK, messages # <<>>
    PROVE  messages[Len(messages)] \in Messages /\ LastCall \in Calls \cup {"none"}
<1>1. messages \in Seq(Messages) /\ Len(messages) \in 1 .. Len(messages)
  BY DEF TypeOK
<1>2. messages[Len(messages)] \in Messages
  BY <1>1
<1>3. QED
  BY <1>2 DEF LastCall, Messages

\* TranscriptStep: the thread keeps its transcript one the adapter can send.
LEMMA TranscriptStep ==
    ASSUME TypeOK, Transcript, ThreadNext
    PROVE  Transcript' /\ messages' \in Seq(Messages)
<1>0. /\ messages \in Seq(Messages) /\ Accepts(messages) /\ UserLast(messages)
      /\ pc \in {"complete", "posted"} =>
            messages # <<>> /\ ~Open(messages[Len(messages)])
      /\ pc \in {"proposed", "tool"} =>
            messages # <<>> /\ messages[Len(messages)].role = "assistant"
      /\ pc = "tool" => LastCall # "none"
  BY DEF TypeOK, Transcript, UserLast
<1>1. ASSUME UNCHANGED messages,
             \/ pc' = "done"
             \/ pc = "complete" /\ pc' = "posted"
             \/ pc \in {"complete", "posted"} /\ pc' = "complete"
             \/ pc = "proposed" /\ pc' = "tool" /\ LastCall # "none"
      PROVE  Transcript' /\ messages' \in Seq(Messages)
  BY <1>0, <1>1 DEF Transcript, UserLast, LastCall
<1>2. ASSUME NEW m \in Messages, messages' = Append(messages, m), messages # <<>>,
             m.role # "user", Accepts(messages')
      PROVE  /\ Accepts(messages') /\ UserLast(messages') /\ messages' \in Seq(Messages)
             /\ messages' # <<>> /\ messages'[Len(messages')] = m
  BY <1>0, <1>2, AppendUser
<1>3. CASE BuildTerminal \/ Post \/ Exhausted \/ ApprovalRaises
  BY <1>1, <1>3 DEF BuildTerminal, Post, Exhausted, ApprovalRaises, Leave
<1>4. CASE BuildReady
  <2>1. /\ messages' \in Seq(Messages) /\ messages' # <<>> /\ Accepts(messages')
        /\ UserLast(messages') /\ ~Open(messages'[Len(messages')]) /\ pc' = "complete"
    BY <1>4, InitialIsSound DEF BuildReady, TypeOK
  <2>2. QED
    BY <2>1 DEF Transcript, UserLast
<1>5. ASSUME NEW c \in Calls \cup {"none"}, Proposal(c)
      PROVE  Transcript' /\ messages' \in Seq(Messages)
  <2> DEFINE m == Message("assistant", c)
  <2>1. m \in Messages /\ m.role = "assistant"
    BY DEF Message, Messages, Roles
  <2>2. messages' = Append(messages, m) /\ pc = "posted" /\ pc' = "proposed"
    BY <1>5 DEF Proposal
  <2> HIDE DEF m
  <2>3. Accepts(messages')
    BY <1>0, <2>1, <2>2, AppendAccepted
  <2>4. QED
    BY <1>0, <1>2, <2>1, <2>2, <2>3 DEF Transcript, UserLast
<1>6. CASE Invalid \/ UnnameableStatus
  BY <1>1, <1>6 DEF Invalid, UnnameableStatus, AttemptRaises, Repair, Leave
<1>7. ASSUME NEW f, RequestFails(f) PROVE Transcript' /\ messages' \in Seq(Messages)
  BY <1>1, <1>7 DEF RequestFails, Leave
<1>8. CASE SeesCancellation \/ Close \/ Repeated \/ StartTool
  BY <1>1, <1>8 DEF SeesCancellation, Close, Repeated, StartTool, Leave
<1>9. CASE ToolContinues \/ ToolStops
  <2> DEFINE m == Message("tool", LastCall)
  <2>1. /\ pc = "tool" /\ messages' = Append(messages, m)
        /\ pc' = "complete" \/ pc' = "done"
    BY <1>9 DEF ToolContinues, ToolStops, Leave
  <2>2. /\ m \in Messages /\ m.role = "tool" /\ m.call = LastCall
    BY <1>0, <2>1, LastTyped DEF Message, Messages, Roles
  <2> HIDE DEF m
  <2>3. Accepts(messages')
    BY <1>0, <2>1, <2>2, AppendAccepted DEF LastCall
  <2>4. QED
    BY <1>0, <1>2, <2>1, <2>2, <2>3 DEF Transcript, UserLast, Open
<1>10. QED
  BY <1>3, <1>4, <1>5, <1>6, <1>7, <1>8, <1>9 DEF ThreadNext


\* AttemptStep: the thread keeps its account of requests, those it posts after a
\* cancellation included.
LEMMA AttemptStep ==
    ASSUME TypeOK, Attempt, Transcript, LateStep, ThreadNext
    PROVE  /\ Attempt' /\ LateStep'
           /\ steps' \in 0 .. MaxSteps /\ index' \in {1, 2} /\ posts' \in 0 .. 2
           /\ answer' \in Answers \cup {"none"} /\ late' \in Nat
<1> DEFINE E == events["provider_call"]
           E2 == events'["provider_call"]
           Goal == /\ Attempt' /\ LateStep'
                   /\ steps' \in 0 .. MaxSteps /\ index' \in {1, 2} /\ posts' \in 0 .. 2
                   /\ answer' \in Answers \cup {"none"} /\ late' \in Nat
<1>0. /\ events \in [Events -> Nat] /\ "provider_call" \in Events /\ E \in Nat
      /\ steps \in 0 .. MaxSteps /\ index \in {1, 2} /\ posts \in 0 .. 2
      /\ answer \in Answers \cup {"none"} /\ late \in Nat /\ MaxSteps \in Nat
      /\ cancelled \in BOOLEAN
  BY ProviderRunAssumption DEF TypeOK, Events
<1>1. UNCHANGED <<cancelled, loop>>
  BY ThreadFrame DEF loop
<1>2. ASSUME NEW es, Emit(es)
      PROVE  /\ "provider_call" \in es => E2 = E + 1
             /\ "provider_call" \notin es => E2 = E
  BY <1>0, <1>2, EmitCounts
<1> HIDE DEF E, E2, Goal
<1>3. ASSUME E2 = E, UNCHANGED <<steps, index, posts, answer, late>>,
             \/ pc' = "done" /\ (pc = "complete" => index = 1)
             \/ pc = "build" /\ pc' = "complete"
             \/ pc = "proposed" /\ pc' = "tool" /\ ~cancelled
             \/ pc = "tool" /\ pc' = "complete",
             pc \in {"build", "complete", "proposed", "tool"}
      PROVE  Goal
  BY <1>0, <1>1, <1>3 DEF Attempt, LateStep, Goal, E, E2
<1>4. CASE BuildTerminal \/ BuildReady
  <2>1. E2 = E /\ UNCHANGED <<steps, index, posts, answer, late>>
    BY <1>2, <1>4 DEF BuildTerminal, BuildReady
  <2>2. pc = "build" /\ pc' \in {"done", "complete"}
    BY <1>4 DEF BuildTerminal, BuildReady
  <2>3. QED
    BY <1>3, <2>1, <2>2 DEF Goal
<1>5. CASE Post
  <2>1. /\ pc = "complete" /\ steps < MaxSteps /\ pc' = "posted" /\ posts' = posts + 1
        /\ late' = (IF cancelled THEN late + 1 ELSE late)
        /\ UNCHANGED <<steps, index, events, answer>>
    BY <1>5 DEF Post
  <2>2. E2 = E
    BY <2>1 DEF E, E2
  <2>3. QED
    BY <1>0, <1>1, <2>1, <2>2 DEF Attempt, LateStep, Goal, E, E2
<1>6. ASSUME NEW c, Proposal(c) PROVE Goal
  <2>1. /\ pc = "posted" /\ pc' = "proposed" /\ steps' = steps + 1 /\ index' = 1
        /\ posts' = 0 /\ answer' = "proposal" /\ late' = late /\ E2 = E + 1
    BY <1>2, <1>6 DEF Proposal
  <2>2. QED
    BY <1>0, <1>1, <2>1 DEF Attempt, LateStep, Goal, E, E2, Answers
<1>7. CASE Invalid \/ UnnameableStatus
  <2>1. /\ pc = "posted" /\ UNCHANGED <<steps, posts, late>>
        /\ answer' \in {"invalid", "http_unnameable"}
    BY <1>7, OutgoingAccepted
       DEF Invalid, UnnameableStatus, AttemptRaises, Repair
  <2>2. E2 = E \/ E2 = E + 1
    BY <1>2, <1>7 DEF Invalid, UnnameableStatus, Repair
  <2>3. \/ index = 1 /\ index' = 2 /\ pc' = "complete"
        \/ index = 2 /\ index' = 2 /\ pc' = "done"
    BY <1>7 DEF Invalid, UnnameableStatus, Repair, Leave
  <2>4. QED
    BY <1>0, <1>1, <2>1, <2>2, <2>3 DEF Attempt, LateStep, Goal, E, E2, Answers
<1>8. ASSUME NEW f \in Failures, RequestFails(f) PROVE Goal
  <2>1. /\ pc = "posted" /\ pc' = "done" /\ UNCHANGED <<steps, index, posts, late>>
        /\ answer' = f /\ E2 = E + 1
    BY <1>2, <1>8 DEF RequestFails, Leave
  <2>2. QED
    BY <1>0, <1>1, <2>1 DEF Attempt, LateStep, Goal, E, E2, Answers
<1>9. CASE SeesCancellation \/ Close \/ Repeated \/ StartTool
  <2>1. UNCHANGED <<steps, index, posts, answer, late>> /\ pc = "proposed"
    BY <1>9 DEF SeesCancellation, Close, Repeated, StartTool
  <2>2. E2 = E
    <3>1. UNCHANGED events => E2 = E
      BY DEF E, E2
    <3>2. QED
      BY <1>2, <1>9, <3>1 DEF SeesCancellation, Close, Repeated, StartTool
  <2>3. pc' = "done" \/ (pc' = "tool" /\ ~cancelled)
    BY <1>9 DEF SeesCancellation, Close, Repeated, StartTool, Leave
  <2>4. QED
    BY <1>3, <2>1, <2>2, <2>3 DEF Goal
<1>10. CASE ToolContinues \/ ToolStops \/ ApprovalRaises
  <2>1. UNCHANGED <<steps, index, posts, answer, late>> /\ pc = "tool"
    BY <1>10 DEF ToolContinues, ToolStops, ApprovalRaises
  <2>2. E2 = E
    <3>1. UNCHANGED events => E2 = E
      BY DEF E, E2
    <3>2. QED
      BY <1>2, <1>10, <3>1 DEF ToolContinues, ToolStops, ApprovalRaises
  <2>3. pc' \in {"done", "complete"}
    BY <1>10 DEF ToolContinues, ToolStops, ApprovalRaises, Leave
  <2>4. QED
    BY <1>3, <2>1, <2>2, <2>3 DEF Goal
<1>11. CASE Exhausted
  <2>1. /\ UNCHANGED <<steps, index, posts, answer, late>> /\ pc = "complete"
        /\ steps = MaxSteps /\ pc' = "done" /\ E2 = E
    BY <1>2, <1>11 DEF Exhausted, Leave
  <2>2. index = 1
    BY <1>0, <2>1 DEF Attempt
  <2>3. QED
    BY <1>3, <2>1, <2>2 DEF Goal
<1>12. QED
  BY <1>4, <1>5, <1>6, <1>7, <1>8, <1>9, <1>10, <1>11 DEF ThreadNext, Goal


\* AdmittedStep: the thread of a job that build refuses does nothing but report
\* the refusal.
LEMMA AdmittedStep ==
    ASSUME TypeOK, Admitted, ThreadNext
    PROVE  /\ Admitted'
           /\ pc' \in {"build", "complete", "posted", "proposed", "tool", "done"}
           /\ client' \in {"none", "open", "closed"}
           /\ result' \in Results \cup {"none"} /\ marked' \in BOOLEAN
<1> DEFINE E == events["provider_call"]
           E2 == events'["provider_call"]
           Goal == /\ Admitted'
                   /\ pc' \in {"build", "complete", "posted", "proposed", "tool", "done"}
                   /\ client' \in {"none", "open", "closed"}
                   /\ result' \in Results \cup {"none"} /\ marked' \in BOOLEAN
<1>0. /\ job' = job /\ BuildResult(job)' = BuildResult(job)
      /\ result \in Results \cup {"none"} /\ marked \in BOOLEAN
      /\ client \in {"none", "open", "closed"}
      /\ BuildResult(job) \in Preflights \cup {"continue"}
  BY ThreadFrame, Admissible DEF TypeOK
<1> HIDE DEF Goal
<1>1. CASE BuildTerminal
  <2>1. /\ pc = "build" /\ pc' = "done" /\ result' = BuildResult(job)
        /\ result' # "continue" /\ UNCHANGED <<marked, client>>
    BY <1>1 DEF BuildTerminal
  <2>2. E2 = E
    <3>1. Emit({"profile", "preflight"}) /\ events \in [Events -> Nat]
      BY <1>1 DEF BuildTerminal, TypeOK
    <3>2. "provider_call" \in Events /\ "provider_call" \notin {"profile", "preflight"}
      BY DEF Events
    <3>3. QED
      BY <3>1, <3>2, EmitCounts
  <2>3. result' \in Preflights /\ "none" \notin Preflights
    BY <1>0, <2>1 DEF Preflights
  <2>4. QED
    BY <1>0, <2>1, <2>2, <2>3 DEF Goal, Admitted, Results
<1>2. CASE BuildReady
  BY <1>0, <1>2 DEF BuildReady, Goal, Admitted
<1>3. ASSUME pc \notin {"build", "done"},
             \/ pc' = "done" /\ result' \in Results /\ client' = "closed"
             \/ /\ pc' \in {"complete", "posted", "proposed", "tool"}
                /\ UNCHANGED <<client, result>>,
             marked' \in BOOLEAN
      PROVE  Goal
  <2>1. BuildResult(job) = "continue"
    BY <1>3 DEF Admitted
  <2>2. "none" \notin Results
    BY DEF Results, Preflights, Outcomes, Errors
  <2>3. QED
    BY <1>0, <1>3, <2>1, <2>2 DEF Goal, Admitted
<1>4. ASSUME NEW r \in Results, Leave(r)
      PROVE  pc' = "done" /\ result' \in Results /\ client' = "closed"
  BY <1>4 DEF Leave
<1>5. /\ {"worker_error", "completed", "agent_failed", "tool_execution_failed",
          "approval_requested", "gateway_timeout"} \subseteq Results
      /\ \A f \in Failures : Classify(f) \in Results
  BY DEF Results, Outcomes, Errors, Failures, Classify
<1>6. CASE Post
  BY <1>0, <1>3, <1>6 DEF Post, Goal
<1>7. ASSUME NEW c, Proposal(c) PROVE Goal
  BY <1>0, <1>3, <1>7 DEF Proposal
<1>8. CASE Invalid \/ UnnameableStatus
  <2>1. pc \notin {"build", "done"} /\ UNCHANGED marked
    BY <1>8 DEF Invalid, UnnameableStatus, AttemptRaises, Repair
  <2>2. \/ Leave("worker_error")
        \/ pc' = "complete" /\ UNCHANGED <<client, result>>
    BY <1>8 DEF Invalid, UnnameableStatus, Repair
  <2>3. QED
    BY <1>0, <1>3, <1>4, <1>5, <2>1, <2>2 DEF Goal
<1>9. ASSUME NEW f \in Failures, RequestFails(f) PROVE Goal
  <2>1. pc = "posted" /\ Leave(Classify(f)) /\ UNCHANGED marked
    BY <1>9 DEF RequestFails
  <2>2. QED
    BY <1>0, <1>3, <1>4, <1>5, <2>1
<1>10. CASE SeesCancellation \/ Close \/ Repeated
  <2>1. pc = "proposed" /\ UNCHANGED marked
    BY <1>10 DEF SeesCancellation, Close, Repeated
  <2>2. \E r \in {"worker_error", "completed", "agent_failed"} : Leave(r)
    BY <1>10 DEF SeesCancellation, Close, Repeated
  <2>3. QED
    BY <1>0, <1>3, <1>4, <1>5, <2>1, <2>2 DEF Goal
<1>11. CASE StartTool
  BY <1>0, <1>3, <1>11 DEF StartTool, Goal
<1>12. CASE ToolContinues
  BY <1>0, <1>3, <1>12 DEF ToolContinues, ToolEffect, Goal
<1>13. CASE ToolStops \/ ApprovalRaises
  <2>1. pc = "tool" /\ marked' \in BOOLEAN
    BY <1>0, <1>13 DEF ToolStops, ApprovalRaises, ToolEffect
  <2>2. \E r \in {"completed", "tool_execution_failed", "approval_requested",
                  "gateway_timeout", "worker_error"} : Leave(r)
    BY <1>13 DEF ToolStops, ApprovalRaises
  <2>3. QED
    BY <1>3, <1>4, <1>5, <2>1, <2>2 DEF Goal
<1>14. CASE Exhausted
  <2>1. pc = "complete" /\ Leave("agent_failed") /\ UNCHANGED marked
    BY <1>14 DEF Exhausted
  <2>2. QED
    BY <1>0, <1>3, <1>4, <1>5, <2>1 DEF Goal
<1>15. QED
  BY <1>1, <1>2, <1>6, <1>7, <1>8, <1>9, <1>10, <1>11, <1>12, <1>13, <1>14
     DEF ThreadNext, Goal

\* ThreadStep: a step of the thread keeps the whole invariant.
LEMMA ThreadStep ==
    ASSUME IInv, ThreadNext
    PROVE  IInv'
<1>0. /\ TypeOK /\ Admitted /\ Attempt /\ Transcript /\ LateStep /\ Reported
      /\ OneJobEvent
  BY DEF IInv, OneJobEvent
<1>1. /\ pc # "done" /\ UNCHANGED <<job, row, cancelled, worker, verdict, uncertain, finished>>
      /\ events' \in [Events -> Nat]
      /\ events'["job_finished"] = events["job_finished"]
      /\ events'["retry_scheduled"] = events["retry_scheduled"]
  BY <1>0, ThreadFrame DEF loop, Silent
<1>2. Admitted' /\ Attempt' /\ Transcript' /\ LateStep'
  BY <1>0, AdmittedStep, AttemptStep, TranscriptStep
<1>3. TypeOK'
  BY <1>0, <1>1, AdmittedStep, AttemptStep, TranscriptStep DEF TypeOK
<1>4. OneJobEvent'
  BY <1>0, <1>1, <1>3 DEF OneJobEvent, OutcomeOf
<1>5. Reported'
  <2>1. verdict \notin Results
    BY <1>0, <1>1 DEF Reported
  <2>2. QED
    BY <1>0, <1>1, <2>1 DEF Reported, Status
<1>6. QED
  BY <1>2, <1>4, <1>5 DEF IInv


\* SettledLate: the row is settled by nothing before the commit of serve_once.
LEMMA SettledLate ==
    ASSUME OneJobEvent
    PROVE  worker \notin {"report", "over", "aborted"} => row \in {"running", "taken"}
<1>1. \A x \in Settled : OutcomeOf(x) # "none"
  BY DEF Settled, OutcomeOf
<1>2. /\ finished # "none" <=> worker = "over"
      /\ row \in Settled => \/ worker \in {"report", "aborted"}
                           \/ finished \in {OutcomeOf(row), "persistence_error"}
  BY DEF OneJobEvent
<1>3. row \in {"running", "taken"} \cup Settled
  BY DEF OneJobEvent, TypeOK
<1>4. QED
  BY <1>1, <1>2, <1>3

\* WorkerStep: a step of serve_once, or of the worker that takes the job, keeps
\* the whole invariant.
LEMMA WorkerStep ==
    ASSUME IInv, WorkerNext \/ Taken
    PROVE  IInv'
<1> DEFINE F == events["job_finished"]
           F2 == events'["job_finished"]
           R == events["retry_scheduled"]
           R2 == events'["retry_scheduled"]
<1>0. /\ TypeOK /\ Admitted /\ Attempt /\ Transcript /\ LateStep /\ Reported
      /\ OneJobEvent
  BY DEF IInv, OneJobEvent
<1>1. /\ UNCHANGED <<job, marked, pc, messages, steps, index, client, result>>
      /\ UNCHANGED <<posts, answer, late>>
      /\ events' \in [Events -> Nat]
      /\ events'["provider_call"] = events["provider_call"]
      /\ cancelled => cancelled'
  BY <1>0, WorkerFrame DEF thread
<1>2. Admitted' /\ Attempt'
  BY <1>0, <1>1 DEF Admitted, Attempt, BuildResult, Preflight
<1>3. Transcript'
  BY <1>0, <1>1 DEF Transcript, LastCall
<1>4. LateStep'
  BY <1>0, <1>1 DEF LateStep
<1>5. ASSUME NEW es, Emit(es)
      PROVE  /\ "job_finished" \in es => F2 = F + 1
             /\ "job_finished" \notin es => F2 = F
             /\ "retry_scheduled" \in es => R2 = R + 1
             /\ "retry_scheduled" \notin es => R2 = R
  <2>1. events \in [Events -> Nat] /\ {"job_finished", "retry_scheduled"} \subseteq Events
    BY <1>0 DEF TypeOK, Events
  <2>2. QED
    BY <1>5, <2>1, EmitCounts
<1> DEFINE Types == /\ row' \in {"running", "taken"} \cup Settled
                    /\ cancelled' \in BOOLEAN
                    /\ worker' \in {"waiting", "stopping", "inspect", "persist",
                                   "report", "over", "aborted"}
                    /\ verdict' \in Results \cup
                          {"none", "worker_timeout", "lease_lost", "shutdown"}
                    /\ uncertain' \in BOOLEAN
                    /\ finished' \in {"none", "retry_scheduled", "succeeded",
                          "needs_approval", "failed", "failed_uncertain",
                          "lease_lost", "persistence_error"}
           Counts == /\ F2 = (IF worker' = "over" THEN 1 ELSE 0)
                     /\ R2 = (IF finished' = "retry_scheduled" THEN 1 ELSE 0)
                     /\ finished' # "none" <=> worker' = "over"
                     /\ finished' \notin {"none", "lease_lost", "persistence_error"} =>
                           row' \in Settled /\ finished' = OutcomeOf(row')
                     /\ row' \in Settled =>
                           \/ worker' \in {"report", "aborted"}
                           \/ finished' \in {OutcomeOf(row'), "persistence_error"}
           Goal == Types /\ Counts /\ Reported'
<1>6. Goal => IInv'
  <2>1. Types => TypeOK'
    BY <1>0, <1>1 DEF TypeOK
  <2>2. QED
    BY <1>2, <1>3, <1>4, <2>1 DEF IInv, OneJobEvent
<1>7. /\ row \in {"running", "taken"} \cup Settled /\ cancelled \in BOOLEAN
      /\ worker \in {"waiting", "stopping", "inspect", "persist", "report", "over",
                    "aborted"}
      /\ verdict \in Results \cup {"none", "worker_timeout", "lease_lost", "shutdown"}
      /\ uncertain \in BOOLEAN /\ result \in Results \cup {"none"} /\ marked \in BOOLEAN
      /\ worker # "over" => finished = "none"
      /\ worker \notin {"report", "over", "aborted"} => row \in {"running", "taken"}
      /\ F = (IF worker = "over" THEN 1 ELSE 0)
      /\ R = (IF finished = "retry_scheduled" THEN 1 ELSE 0)
      /\ finished \in {"none", "retry_scheduled", "succeeded", "needs_approval",
            "failed", "failed_uncertain", "lease_lost", "persistence_error"}
  BY <1>0, SettledLate DEF TypeOK, OneJobEvent
<1>8. /\ "none" \notin Results /\ "lease_lost" \notin Results
      /\ "shutdown" \notin Results /\ "worker_timeout" \notin Results
      /\ Inspected \subseteq Results \cup {"worker_timeout"}
      /\ {"lease_lost", "shutdown", "none"} \cap Inspected = {}
      /\ Preflights \cup {"completed", "approval_requested"} \subseteq Results
      /\ "running" \notin Settled /\ "taken" \notin Settled /\ "queued" \in Settled
  BY DEF Results, Preflights, Outcomes, Errors, Inspected, Settled
<1> HIDE DEF F, F2, R, R2, Goal
<1>9. CASE RunReturns
  <2>1. /\ worker = "waiting" /\ pc = "done" /\ cancelled' = TRUE /\ worker' = "inspect"
        /\ verdict' = "lease_lost" \/ verdict' = result
        /\ UNCHANGED <<row, uncertain, finished>>
    BY <1>9 DEF RunReturns, HeartbeatFails
  <2>2. F2 = F /\ R2 = R
    BY <1>5, <1>9 DEF RunReturns, HeartbeatFails
  <2>3. result # "none"
    BY <1>0, <2>1 DEF Admitted
  <2>4. Types /\ Counts
    BY <1>7, <1>8, <2>1, <2>2
  <2>5. Reported'
    BY <1>1, <1>7, <1>8, <2>1, <2>3 DEF Reported
  <2>6. QED
    BY <1>6, <2>4, <2>5 DEF Goal
<1>10. CASE Interrupt
  <2>1. /\ worker = "waiting" /\ cancelled' = TRUE /\ worker' = "stopping"
        /\ verdict' \in {"worker_timeout", "lease_lost", "shutdown"}
        /\ UNCHANGED <<row, uncertain, finished>>
    BY <1>10 DEF Interrupt, HeartbeatFails
  <2>2. F2 = F /\ R2 = R
    BY <1>5, <1>10 DEF Interrupt, HeartbeatFails
  <2>3. Types /\ Counts
    BY <1>7, <1>8, <2>1, <2>2
  <2>4. Reported'
    BY <1>1, <1>7, <1>8, <2>1 DEF Reported
  <2>5. QED
    BY <1>6, <2>3, <2>4 DEF Goal
<1>11. CASE StopWaiting \/ Inspect \/ SkipInspect
  <2>1. /\ UNCHANGED <<row, cancelled, verdict, events, finished>>
        /\ uncertain' \in {uncertain, marked}
        /\ worker \in {"stopping", "inspect"} /\ worker' \in {"inspect", "persist"}
        /\ worker = "stopping" => worker' = "inspect"
        /\ worker' = "persist" => verdict \notin {"lease_lost", "shutdown"}
    BY <1>8, <1>11 DEF StopWaiting, Inspect, SkipInspect
  <2>2. F2 = F /\ R2 = R
    BY <2>1 DEF F, F2, R, R2
  <2>3. verdict # "none"
    BY <1>0, <2>1 DEF Reported
  <2>4. Types /\ Counts
    BY <1>7, <1>8, <2>1, <2>2
  <2>5. Reported'
    BY <1>0, <1>1, <1>7, <1>8, <2>1, <2>3 DEF Reported
  <2>6. QED
    BY <1>6, <2>4, <2>5 DEF Goal
<1>12. CASE Commit
  <2>1. /\ worker = "persist" /\ row = "running" /\ row' = Status /\ worker' = "report"
        /\ UNCHANGED <<cancelled, verdict, uncertain, events, finished>>
    BY <1>12 DEF Commit
  <2>2. F2 = F /\ R2 = R
    BY <2>1 DEF F, F2, R, R2
  <2>3. Status \in Settled
    BY DEF Status, Settled
  <2>4. verdict \notin {"none", "lease_lost", "shutdown"}
    BY <1>0, <2>1 DEF Reported
  <2>5. Types /\ Counts
    BY <1>7, <1>8, <2>1, <2>2, <2>3
  <2>6. Status' = Status
    BY <1>1, <2>1 DEF Status
  <2>7. Reported'
    BY <1>0, <1>1, <1>7, <1>8, <2>1, <2>3, <2>4, <2>6 DEF Reported
  <2>8. QED
    BY <1>6, <2>5, <2>7 DEF Goal
<1>13. CASE Report
  <2>1. /\ worker = "report" /\ UNCHANGED <<row, cancelled, verdict, uncertain>>
        /\ worker' = "over" /\ finished' = OutcomeOf(Status)
        /\ Emit({"job_finished"} \cup
                (IF Status = "queued" THEN {"retry_scheduled"} ELSE {}))
    BY <1>13 DEF Report, Finish
  <2>2. F2 = F + 1 /\ R2 = (IF Status = "queued" THEN R + 1 ELSE R)
    BY <1>5, <2>1
  <2>3. /\ row \in Settled /\ row = Status
        /\ verdict \notin {"none", "lease_lost", "shutdown"}
    BY <1>0, <2>1 DEF Reported
  <2>4. /\ OutcomeOf(row) \in {"retry_scheduled", "succeeded", "needs_approval",
                              "failed", "failed_uncertain"}
        /\ OutcomeOf(row) = "retry_scheduled" <=> row = "queued"
    BY <2>3 DEF Settled, OutcomeOf
  <2>5. Types
    BY <1>7, <2>1, <2>3, <2>4
  <2>6. Counts
    BY <1>7, <2>1, <2>2, <2>3, <2>4
  <2>7. Status' = Status
    BY <1>1, <2>1 DEF Status
  <2>8. Reported'
    BY <1>0, <1>1, <1>7, <1>8, <2>1, <2>3, <2>7 DEF Reported
  <2>9. QED
    BY <1>6, <2>5, <2>6, <2>8 DEF Goal
<1>14. CASE PersistFails \/ LeaseLost
  <2>1. /\ worker \in {"inspect", "persist", "report"} /\ row' = row /\ worker' = "over"
        /\ \/ finished' = "persistence_error"
           \/ finished' = "lease_lost" /\ worker # "report"
        /\ UNCHANGED <<cancelled, verdict, uncertain>>
    BY <1>14 DEF PersistFails, LeaseLost, Finish
  <2>2. verdict # "none"
    BY <1>0, <2>1 DEF Reported
  <2>3. F2 = F + 1 /\ R2 = R
    BY <1>5, <1>14 DEF PersistFails, LeaseLost, Finish
  <2>4. Types /\ Counts
    BY <1>7, <1>8, <2>1, <2>3
  <2>5. Status' = Status
    BY <1>1, <2>1 DEF Status
  <2>6. Reported'
    BY <1>0, <1>1, <1>7, <1>8, <2>1, <2>2, <2>5 DEF Reported
  <2>7. QED
    BY <1>6, <2>4, <2>6 DEF Goal
<1>15. CASE ShutDown \/ Cancel
  <2>1. /\ worker \in {"inspect", "persist", "report"} /\ worker' = "aborted"
        /\ UNCHANGED <<row, cancelled, verdict, uncertain, events, finished>>
    BY <1>15 DEF ShutDown, Cancel, Aborts
  <2>2. F2 = F /\ R2 = R
    BY <2>1 DEF F, F2, R, R2
  <2>3. Types /\ Counts
    BY <1>7, <1>8, <2>1, <2>2
  <2>4. Status' = Status
    BY <1>1, <2>1 DEF Status
  <2>5. Reported'
    BY <1>0, <1>1, <1>7, <1>8, <2>1, <2>4 DEF Reported
  <2>6. QED
    BY <1>6, <2>3, <2>5 DEF Goal
<1>16. CASE Taken
  <2>1. /\ row = "running" /\ row' = "taken"
        /\ UNCHANGED <<cancelled, worker, verdict, uncertain, finished, events>>
    BY <1>16 DEF Taken, loop
  <2>2. F2 = F /\ R2 = R
    BY <2>1 DEF F, F2, R, R2
  <2>3. finished \in {"none", "lease_lost", "persistence_error"}
    BY <1>0, <1>8, <2>1 DEF OneJobEvent
  <2>4. Types /\ Counts
    BY <1>0, <1>7, <1>8, <2>1, <2>2, <2>3 DEF OneJobEvent
  <2>5. Reported'
    BY <1>0, <1>1, <1>7, <1>8, <2>1 DEF Reported
  <2>6. QED
    BY <1>6, <2>4, <2>5 DEF Goal
<1>17. QED
  BY <1>9, <1>10, <1>11, <1>12, <1>13, <1>14, <1>15, <1>16 DEF WorkerNext

(***************************************************************************)
(* The theorems.                                                           *)
(***************************************************************************)

\* ProviderInvariant: the inductive invariant of a run and its worker.
THEOREM ProviderInvariant == Spec => []IInv
<1>1. Init => IInv
  <2> SUFFICES ASSUME Init PROVE IInv
    OBVIOUS
  <2>1. /\ events \in [Events -> Nat] /\ events["provider_call"] = 0
        /\ events["job_finished"] = 0 /\ events["retry_scheduled"] = 0
    BY DEF Init, Events
  <2>2. TypeOK
    <3>1. messages \in Seq(Messages)
      BY DEF Init
    <3>2. steps \in 0 .. MaxSteps /\ index \in {1, 2} /\ posts \in 0 .. 2 /\ late \in Nat
      BY ProviderRunAssumption DEF Init
    <3>3. QED
      BY <2>1, <3>1, <3>2 DEF Init, TypeOK
  <2>3. OneJobEvent
    BY <2>1, <2>2 DEF Init, OneJobEvent, Settled
  <2>4. Admitted /\ Attempt /\ LateStep
    BY <2>1 DEF Init, Admitted, Attempt, LateStep
  <2>5. Transcript
    BY DEF Init, Transcript, Accepts
  <2>6. Reported
    BY DEF Init, Reported, Settled, Results, Preflights, Outcomes, Errors
  <2>7. QED
    BY <2>3, <2>4, <2>5, <2>6 DEF IInv
<1>2. IInv /\ [Next]_vars => IInv'
  <2> SUFFICES ASSUME IInv, [Next]_vars PROVE IInv'
    OBVIOUS
  <2>1. CASE ThreadNext
    BY <2>1, ThreadStep
  <2>2. CASE WorkerNext \/ Taken
    BY <2>2, WorkerStep
  <2>3. CASE UNCHANGED vars
    <3>1. OneJobEvent'
      BY <2>3 DEF vars, thread, loop, IInv, OneJobEvent, TypeOK, OutcomeOf
    <3>2. Admitted' /\ Attempt' /\ LateStep'
      BY <2>3 DEF vars, thread, loop, IInv, Admitted, Attempt, LateStep, BuildResult,
         Preflight
    <3>3. Transcript'
      BY <2>3 DEF vars, thread, loop, IInv, Transcript, LastCall
    <3>4. Reported'
      BY <2>3 DEF vars, thread, loop, IInv, Reported, Status
    <3>5. QED
      BY <3>1, <3>2, <3>3, <3>4 DEF IInv
  <2>4. QED
    BY <2>1, <2>2, <2>3 DEF Next
<1>3. QED
  BY <1>1, <1>2, PTL DEF Spec

\* QuietlyRefused: the invariant keeps a refused job quiet, and what is persisted
\* of it the preflight's verdict or the deadline's.
LEMMA QuietlyRefused == IInv => QuietPreflight
<1> SUFFICES ASSUME IInv,
                    job.profile # "ok" \/ ~job.risk \/ (job.document.present /\
                        (~job.document.bound \/ ~job.document.intake \/ job.document.error))
             PROVE  /\ client = "none" /\ events["provider_call"] = 0 /\ ~marked
                    /\ (row = "succeeded" => job.document.error)
                    /\ (row = "failed" => \/ verdict = "worker_timeout"
                                          \/ BuildResult(job) # "document_unreadable")
                    /\ row # "awaiting_approval"
  BY DEF QuietPreflight
<1> DEFINE b == BuildResult(job)
<1>1. /\ b \in Preflights /\ (b = "document_unreadable" => job.document.error)
      /\ b # "continue"
  BY Admissible DEF IInv, OneJobEvent, TypeOK, Preflights
<1>2. /\ client = "none" /\ events["provider_call"] = 0 /\ ~marked
      /\ pc = "done" => result = b
  BY <1>1 DEF IInv, Admitted
<1> HIDE DEF b
<1>3. row \in Settled => /\ row = Status /\ verdict \notin {"lease_lost", "shutdown", "none"}
                         /\ verdict \in Results => verdict = b
  <2>1. row \in Settled => worker \in {"report", "over", "aborted"}
    BY SettledLate DEF IInv, Settled
  <2>2. QED
    BY <1>2, <2>1 DEF IInv, Reported
<1>4. row \in Settled => verdict = "worker_timeout" \/ verdict = b
  BY <1>3 DEF IInv, OneJobEvent, TypeOK
<1>5. Status = "succeeded" => verdict \in {"document_unreadable", "completed"}
  BY DEF Status
<1>6. Status = "awaiting_approval" => verdict = "approval_requested"
  BY DEF Status
<1>7. verdict = "document_unreadable" => Status = "succeeded"
  BY DEF Status, Inspected, Errors, Retryable
<1>8. /\ "worker_timeout" \notin {"document_unreadable", "completed", "approval_requested"}
      /\ "completed" \notin Preflights /\ "approval_requested" \notin Preflights
      /\ {"succeeded", "failed", "awaiting_approval"} \subseteq Settled
      /\ "succeeded" # "failed"
  BY DEF Settled, Preflights
<1>9. row = "succeeded" => job.document.error
  BY <1>1, <1>3, <1>4, <1>5, <1>8
<1>10. row = "failed" => verdict = "worker_timeout" \/ b # "document_unreadable"
  BY <1>3, <1>4, <1>7, <1>8
<1>11. row # "awaiting_approval"
  BY <1>1, <1>3, <1>4, <1>6, <1>8
<1>12. QED
  BY <1>2, <1>9, <1>10, <1>11 DEF b

\* RequestsAlwaysSound: no request without an admissible job, at most two for a
\* step, and none that the adapter cannot send.
THEOREM RequestsAlwaysSound == Spec => []RequestsAreSound
<1>1. IInv => RequestsAreSound
  <2> SUFFICES ASSUME IInv PROVE RequestsAreSound
    OBVIOUS
  <2>1. TypeOK /\ Attempt /\ Transcript
    BY DEF IInv, OneJobEvent
  <2>2. OneRepair
    <3>1. pc # "done" => events["provider_call"] <= 2 * MaxSteps
      <4> SUFFICES ASSUME pc # "done" PROVE events["provider_call"] <= 2 * MaxSteps
        OBVIOUS
      <4>1. /\ events["provider_call"] \in Nat /\ steps \in 0 .. MaxSteps
            /\ index \in {1, 2} /\ MaxSteps \in Nat
            /\ events["provider_call"] <= 2 * steps + index - 1
            /\ index = 2 => steps < MaxSteps
        BY <2>1, ProviderRunAssumption DEF TypeOK, Attempt, Events
      <4>2. QED
        BY <4>1
    <3>2. QED
      BY <2>1, <3>1 DEF OneRepair, Attempt
  <2>3. ConversationIsSound
    BY <2>1, OutgoingAccepted DEF ConversationIsSound, Transcript
  <2>4. QED
    BY <2>2, <2>3, QuietlyRefused DEF RequestsAreSound
<1>2. QED
  BY <1>1, ProviderInvariant, PTL

\* ReportedOnce: serve_once reports the job once unless it is cancelled, and every
\* outcome it reports was committed first, wherever a cancellation, a lost
\* acknowledgement, the deadline or a lost lease falls.
THEOREM ReportedOnce == Spec => []OneJobEvent
<1>1. IInv => OneJobEvent
  BY DEF IInv
<1>2. QED
  BY <1>1, ProviderInvariant, PTL

\* AbandonedIsHarmless: however the cancellation falls between two requests, a
\* run that was told to stop posts at most two more.
THEOREM AbandonedIsHarmless == Spec => []AbandonedRunIsHarmless
<1>1. IInv => AbandonedRunIsHarmless
  BY DEF IInv, LateStep, AbandonedRunIsHarmless
<1>2. QED
  BY <1>1, ProviderInvariant, PTL

\* InterruptionDecides: what interrupted a run stays its verdict, whatever the
\* thread that was left behind returns.
THEOREM InterruptionDecides == Spec => InterruptDecides
<1> DEFINE A == /\ (verdict \in {"worker_timeout", "lease_lost", "shutdown"} => verdict' = verdict)
                /\ (verdict \in {"lease_lost", "shutdown"} /\ row = "running" =>
                       row' \in {"running", "taken"})
                /\ (verdict = "worker_timeout" /\ row = "running" =>
                       row' \in {"running", "taken", "queued", "failed", "failed_uncertain"})
<1>1. IInv /\ [Next]_vars => [A]_vars
  <2> SUFFICES ASSUME IInv, Next PROVE A
    OBVIOUS
  <2>0. TypeOK /\ Reported
    BY DEF IInv, OneJobEvent
  <2>1. CASE ThreadNext
    BY <2>0, <2>1, ThreadFrame DEF loop
  <2>2. CASE Taken
    BY <2>2 DEF Taken, loop
  <2>3. CASE RunReturns \/ Interrupt
    <3>1. verdict = "none"
      BY <2>0, <2>3 DEF RunReturns, Interrupt, Reported
    <3>2. QED
      BY <3>1
  <2>4. CASE StopWaiting \/ Inspect \/ SkipInspect \/ ShutDown \/ Cancel
    BY <2>4 DEF StopWaiting, Inspect, SkipInspect, ShutDown, Cancel, Aborts
  <2>5. CASE Report \/ PersistFails \/ LeaseLost
    BY <2>5 DEF Report, PersistFails, LeaseLost, Finish
  <2>6. CASE Commit
    <3>1. verdict \notin {"lease_lost", "shutdown"} /\ verdict' = verdict /\ row' = Status
      BY <2>0, <2>6 DEF Commit, Reported
    <3>2. verdict = "worker_timeout" => Status \in {"queued", "failed", "failed_uncertain"}
      BY DEF Status
    <3>3. QED
      BY <3>1, <3>2
  <2>7. QED
    BY <2>1, <2>2, <2>3, <2>4, <2>5, <2>6 DEF Next, WorkerNext
<1>2. QED
  BY <1>1, ProviderInvariant, PTL DEF Spec, InterruptDecides

=============================================================================
