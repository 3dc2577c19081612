--------------------------- MODULE AgentLoopProofs ---------------------------
(***************************************************************************)
(* Proofs about Policy and AgentLoop, for every registry, every profile,   *)
(* every step limit and every sequence of proposals.                       *)
(***************************************************************************)
EXTENDS AgentLoop, TLAPS

(***************************************************************************)
(* The policy.                                                             *)
(***************************************************************************)

\* RouteMonotone: TenantRouter never becomes more permissive when the same
\* action has more against it.
LEMMA RouteMonotone ==
    ASSUME NEW i \in PolicyInputs, NEW k \in Worse(i)
    PROVE  Permits(Route(k)) <= Permits(Route(i))
<1>1. /\ k.rule = i.rule /\ (i.risk => k.risk) /\ (i.critical => k.critical)
      /\ k.registered => i.registered
  BY DEF Worse
<1>2. i.rule \in Rules
  BY DEF PolicyInputs
<1>3. QED
  BY <1>1, <1>2 DEF Route, NeedsOperator, Permits, Rules

\* PolicyMonotone: PolicyIsMonotone's formula for all pairs of inputs, and not
\* only for those a run asks about.
THEOREM PolicyMonotone ==
    ASSUME NEW i \in PolicyInputs, NEW k \in Worse(i)
    PROVE  /\ Permits(Evaluate(k)) <= Permits(Evaluate(i))
           /\ Permits(EvaluateTerminal(k)) <= Permits(EvaluateTerminal(i))
<1>1. Unacceptable(i) => Unacceptable(k)
  BY DEF Worse, Unacceptable
<1>2. i.risk => k.risk
  BY DEF Worse
<1>3. Permits(Route(k)) <= Permits(Route(i))
  BY RouteMonotone
<1>4. Permits("deny") = 0 /\ Permits(Route(i)) \in {0, 1, 2}
  BY DEF Permits, Route, NeedsOperator
<1>5. Permits(Evaluate(k)) <= Permits(Evaluate(i))
  <2>1. CASE Unacceptable(k)
    BY <1>4, <2>1 DEF Evaluate
  <2>2. CASE ~Unacceptable(k)
    BY <1>1, <1>3, <2>2 DEF Evaluate
  <2>3. QED
    BY <2>1, <2>2
<1>6. Permits(EvaluateTerminal(k)) <= Permits(EvaluateTerminal(i))
  BY <1>1, <1>2 DEF EvaluateTerminal, Permits
<1>7. QED
  BY <1>5, <1>6

\* PassedIsRegistered: an action that is not denied is registered.
LEMMA PassedIsRegistered ==
    ASSUME NEW i \in PolicyInputs, Evaluate(i) # "deny"
    PROVE  i.registered
BY DEF Evaluate, Route

(***************************************************************************)
(* The loop.                                                               *)
(***************************************************************************)

\* InputsTyped: what execute and evaluate_terminal hand to the policy.
LEMMA InputsTyped ==
    ASSUME TypeOK, NEW p \in Proposals, NEW c \in Calls
    PROVE  ActionInput(p, c) \in PolicyInputs /\ TerminalInput(p) \in PolicyInputs
<1>1. /\ trusted.risk \in BOOLEAN /\ trusted.docError \in BOOLEAN
      /\ p.unknownIntake \in BOOLEAN /\ p.invalid \in BOOLEAN
      /\ p.missing \in BOOLEAN /\ p.injection \in BOOLEAN /\ p.critical \in BOOLEAN
      /\ profile[c.tool] \in Rules /\ "none" \in Rules
  BY DEF TypeOK, Proposals, Calls, Rules
<1>2. (trusted.risk \/ p.injection) \in BOOLEAN
  OBVIOUS
<1>3. QED
  BY <1>1, <1>2 DEF ActionInput, TerminalInput, PolicyInputs

\* TurnTyped: the counters of the loop stay in range.
LEMMA TurnTyped ==
    ASSUME TypeOK, NEW c \in Calls, Turn(c),
           result.status = "running" => same \in 0 .. MaxConsecutive - 1
    PROVE  /\ steps' \in 0 .. MaxSteps /\ same' \in 0 .. MaxConsecutive
           /\ prev' \in {<<>>} \cup {<<d>> : d \in Calls}
BY LoopAssumption DEF TypeOK, Turn, Repeats, MaxConsecutive

\* JudgedFacts: what every executed step of the loop has in common.
LEMMA JudgedFacts ==
    ASSUME TypeOK, StillOpen, NEW p \in Proposals, NEW c \in Calls,
           NEW d \in Decisions, Judged(p, c, d)
    PROVE  /\ result.status = "running" /\ same' = Repeats(c) /\ prev' = <<c>>
           /\ same' \in {1, 2} /\ steps' \in 0 .. MaxSteps
           /\ prev' \in {<<>>} \cup {<<x>> : x \in Calls}
           /\ asked' \in [input : PolicyInputs, decision : Decisions]
           /\ asked'.decision = d /\ asked'.input = ActionInput(p, c)
           /\ d # "deny" => c.tool \in Tools
<1>1. /\ result.status = "running" /\ same' = Repeats(c) /\ prev' = <<c>>
      /\ ~TooMany(c) /\ Turn(c) /\ Evaluate(ActionInput(p, c)) = d
      /\ asked' = [input |-> ActionInput(p, c), decision |-> d]
  BY DEF Judged, Turn
<1>2. same \in {0, 1, 2} /\ (same = 0 => prev = <<>>)
  BY <1>1 DEF StillOpen
<1>3. same' \in {1, 2}
  BY <1>1, <1>2 DEF TooMany, Repeats, MaxConsecutive
<1>4. steps' \in 0 .. MaxSteps /\ prev' \in {<<>>} \cup {<<x>> : x \in Calls}
  BY <1>1, <1>2, TurnTyped DEF MaxConsecutive
<1>5. ActionInput(p, c) \in PolicyInputs
  BY InputsTyped
<1>6. d # "deny" => c.tool \in Tools
  BY <1>1, <1>5, PassedIsRegistered DEF ActionInput
<1>7. QED
  BY <1>1, <1>3, <1>4, <1>5, <1>6

\* NoneSeen: no entry of the path says that a known action needs approval.
NoneSeen(s) == \A n \in DOMAIN s : ~(s[n].known /\ s[n].decision = "needs_approval")

\* AppendSeen: what one more entry changes about that.
LEMMA AppendSeen ==
    ASSUME NEW s \in Seq(Entries), NEW e \in Entries
    PROVE  /\ Append(s, e) \in Seq(Entries)
           /\ NoneSeen(s) /\ ~(e.known /\ e.decision = "needs_approval")
                => NoneSeen(Append(s, e))
           /\ e.known /\ e.decision = "needs_approval" => ~NoneSeen(Append(s, e))
<1> DEFINE t == Append(s, e)
<1>1. /\ t \in Seq(Entries) /\ Len(t) = Len(s) + 1 /\ t[Len(s) + 1] = e
      /\ \A n \in 1 .. Len(s) : t[n] = s[n]
      /\ DOMAIN t = 1 .. Len(s) + 1 /\ DOMAIN s = 1 .. Len(s)
  OBVIOUS
<1>2. Len(s) \in Nat
  OBVIOUS
<1> HIDE DEF t
<1>3. NoneSeen(s) /\ ~(e.known /\ e.decision = "needs_approval") => NoneSeen(t)
  <2> SUFFICES ASSUME NoneSeen(s), ~(e.known /\ e.decision = "needs_approval"),
                      NEW n \in DOMAIN t
               PROVE  ~(t[n].known /\ t[n].decision = "needs_approval")
    BY DEF NoneSeen
  <2>1. CASE n \in 1 .. Len(s)
    BY <1>1, <2>1 DEF NoneSeen
  <2>2. CASE n = Len(s) + 1
    BY <1>1, <2>2
  <2>3. QED
    BY <1>1, <1>2, <2>1, <2>2
<1>4. e.known /\ e.decision = "needs_approval" => ~NoneSeen(t)
  BY <1>1, <1>2 DEF NoneSeen
<1>5. QED
  BY <1>1, <1>3, <1>4 DEF t

\* EndKeeps: a step that ends the run without starting a handler keeps the
\* invariant if the path, the response and the staged flag fit together.
LEMMA EndKeeps ==
    ASSUME TypeOK', NEW st \in Statuses \ {"running"}, NEW resp \in Responses,
           Stop(st, resp), NoThirdRepeat, calls' = calls,
           st = "completed" =>
               (staged' <=> (resp = "approval_requested" /\ ~NoneSeen(path')))
    PROVE  IInv'
<1>1. result'.status = st /\ result'.response = resp
  BY DEF Stop
<1>2. StillOpen'
  BY <1>1 DEF StillOpen
<1>3. ParkIffStaged'
  BY <1>1 DEF ParkIffStaged, ApprovalWasRequested, NoneSeen
<1>4. NoThirdRepeat'
  BY DEF NoThirdRepeat
<1>5. QED
  BY <1>2, <1>3, <1>4 DEF IInv

\* CallKeeps: starting a handler that the repetition check let pass.
LEMMA CallKeeps ==
    ASSUME TypeOK, StillOpen, NoThirdRepeat, NEW c \in Calls,
           result.status = "running", calls' = Append(calls, c),
           same' = Repeats(c), same' \in {1, 2}, prev' = <<c>>
    PROVE  /\ calls' \in Seq(Calls) /\ NoThirdRepeat'
           /\ calls' # <<>> /\ prev' = <<calls'[Len(calls')]>>
           /\ same' = 1 /\ Len(calls') > 1 =>
                 calls'[Len(calls') - 1] # calls'[Len(calls')]
<1> DEFINE n == Len(calls)
<1>1. /\ calls \in Seq(Calls) /\ n \in Nat /\ calls' \in Seq(Calls)
      /\ Len(calls') = n + 1 /\ calls'[n + 1] = c
      /\ \A m \in 1 .. n : calls'[m] = calls[m]
      /\ calls = <<>> <=> n = 0
  BY DEF TypeOK
<1>2. calls # <<>> => /\ prev = <<calls[n]>> /\ same \in {1, 2}
                      /\ same = 1 /\ n > 1 => calls[n - 1] # calls[n]
  BY DEF StillOpen
<1> HIDE DEF n
<1>3. same' = 1 /\ n + 1 > 1 => calls'[n] # c
  <2> SUFFICES ASSUME same' = 1, n > 0 PROVE calls[n] # c
    BY <1>1
  <2>1. prev = <<calls[n]>> /\ same \in {1, 2}
    BY <1>1, <1>2
  <2>2. prev # <<c>>
    BY <2>1 DEF Repeats
  <2>3. QED
    BY <2>1, <2>2
<1>4. n > 1 => ~(calls[n - 1] = calls[n] /\ calls[n] = c)
  <2> SUFFICES ASSUME n > 1, calls[n - 1] = calls[n], calls[n] = c PROVE FALSE
    OBVIOUS
  <2>1. prev = <<c>> /\ same = 2
    BY <1>1, <1>2
  <2>2. QED
    BY <2>1 DEF Repeats
<1>5. NoThirdRepeat'
  <2> SUFFICES ASSUME NEW m \in 1 .. (n + 1) - 2,
                      calls'[m] = calls'[m + 1], calls'[m + 1] = calls'[m + 2]
               PROVE  FALSE
    BY <1>1 DEF NoThirdRepeat
  <2>1. CASE m + 2 <= n
    BY <1>1, <2>1 DEF NoThirdRepeat, n
  <2>2. CASE m + 2 = n + 1
    BY <1>1, <1>4, <2>2
  <2>3. QED
    BY <1>1, <2>1, <2>2
<1>6. QED
  BY <1>1, <1>3, <1>5

\* StepKeeps: every step of the loop keeps the invariant.
LEMMA StepKeeps == IInv /\ [Next]_vars => IInv'
<1> SUFFICES ASSUME IInv, [Next]_vars PROVE IInv'
  OBVIOUS
<1> USE DEF fixed
<1>0. TypeOK /\ StillOpen /\ ParkIffStaged /\ NoThirdRepeat
  BY DEF IInv
<1>1. CASE UNCHANGED vars
  BY <1>1 DEF vars, IInv, TypeOK, StillOpen, ParkIffStaged, NoThirdRepeat,
     ApprovalWasRequested
<1>2. result.status = "running" => ~staged /\ NoneSeen(path)
  BY <1>0 DEF StillOpen, NoneSeen
<1>3. ASSUME NEW p \in Proposals, Close(p) PROVE IInv'
  <2> DEFINE d == EvaluateTerminal(TerminalInput(p))
             e == Entry(FALSE, d, FALSE)
  <2>1. d \in Decisions /\ e \in Entries /\ ~e.known
    BY DEF EvaluateTerminal, Decisions, Entry, Entries
  <2>2. TerminalResponse(p, d) \in Responses
    BY DEF TerminalResponse, Responses, Rationales, Proposals
  <2>3. /\ result.status = "running" /\ steps < MaxSteps /\ steps' = steps + 1
        /\ asked' = [input |-> TerminalInput(p), decision |-> d]
        /\ path' = Append(path, e) /\ Stop("completed", TerminalResponse(p, d))
        /\ UNCHANGED <<profile, trusted, prev, same, staged, calls>>
    BY <1>3 DEF Close
  <2>4. TerminalInput(p) \in PolicyInputs
    <3>1. CASE Calls = {}
      <4>1. /\ trusted.risk \in BOOLEAN /\ trusted.docError \in BOOLEAN
            /\ p.unknownIntake \in BOOLEAN /\ p.invalid \in BOOLEAN
            /\ p.missing \in BOOLEAN /\ p.injection \in BOOLEAN
            /\ p.critical \in BOOLEAN /\ "none" \in Rules
        BY <1>0 DEF TypeOK, Proposals, Rules
      <4>2. (trusted.risk \/ p.injection) \in BOOLEAN
        OBVIOUS
      <4>3. QED
        BY <4>1, <4>2 DEF TerminalInput, PolicyInputs
    <3>2. CASE Calls # {}
      BY <1>0, <3>2, InputsTyped
    <3>3. QED
      BY <3>1, <3>2
  <2> HIDE DEF d, e
  <2>5. path' \in Seq(Entries) /\ NoneSeen(path')
    BY <1>0, <1>2, <2>1, <2>3, AppendSeen DEF TypeOK
  <2>6. asked' \in [input : PolicyInputs, decision : Decisions]
    BY <2>1, <2>3, <2>4
  <2>7. result' \in [status : Statuses, response : Responses]
    BY <2>2, <2>3 DEF Stop, Statuses
  <2>8. steps' \in 0 .. MaxSteps
    BY <1>0, <2>3, LoopAssumption DEF TypeOK
  <2>9. TypeOK'
    BY <1>0, <2>3, <2>5, <2>6, <2>7, <2>8 DEF TypeOK
  <2>10. QED
    BY <1>0, <1>2, <2>2, <2>3, <2>5, <2>9, EndKeeps DEF Statuses
<1>4. ASSUME NEW c \in Calls, Repeated(c) PROVE IInv'
  <2>1. /\ Turn(c) /\ Stop("failed", "none") /\ result.status = "running"
        /\ UNCHANGED <<profile, trusted, path, staged, calls, asked>>
    BY <1>4 DEF Repeated, Turn
  <2>2. same \in 0 .. MaxConsecutive - 1
    BY <1>0, <2>1 DEF StillOpen, MaxConsecutive
  <2>3. TypeOK'
    BY <1>0, <2>1, <2>2, TurnTyped DEF TypeOK, Stop, Statuses, Responses
  <2>4. QED
    BY <1>0, <2>1, <2>3, EndKeeps DEF Statuses, Responses
<1>5. ASSUME NEW p \in Proposals, NEW c \in Calls, NEW d \in Decisions,
             Judged(p, c, d), NEW e \in Entries, path' = Append(path, e),
             NEW resp \in Responses, Stop("completed", resp),
             UNCHANGED <<profile, trusted, calls>>,
             staged' <=> resp = "approval_requested",
             staged' \in BOOLEAN,
             staged' => e.known /\ e.decision = "needs_approval"
      PROVE  IInv'
  <2>1. result.status = "running" /\ same' \in {1, 2} /\ steps' \in 0 .. MaxSteps
        /\ prev' \in {<<>>} \cup {<<x>> : x \in Calls}
        /\ asked' \in [input : PolicyInputs, decision : Decisions]
    BY <1>0, <1>5, JudgedFacts
  <2>2. path' \in Seq(Entries) /\ (staged' => ~NoneSeen(path'))
    BY <1>0, <1>5, AppendSeen DEF TypeOK
  <2>3. result' \in [status : Statuses, response : Responses]
    BY <1>5 DEF Stop, Statuses
  <2>4. TypeOK'
    BY <1>0, <1>5, <2>1, <2>2, <2>3 DEF TypeOK, MaxConsecutive
  <2>5. QED
    BY <1>0, <1>5, <2>2, <2>4, EndKeeps DEF Statuses
<1>6. ASSUME NEW p \in Proposals, NEW c \in Calls, Denied(p, c) PROVE IInv'
  <2>1. Entry(c.tool \in Tools, "deny", FALSE) \in Entries
    BY DEF Entry, Entries, Decisions
  <2>2. Judged(p, c, "deny") /\ "deny" \in Decisions /\ "other" \in Responses
        /\ result.status = "running"
    BY <1>6 DEF Denied, Judged, Turn, Decisions, Responses
  <2>3. /\ path' = Append(path, Entry(c.tool \in Tools, "deny", FALSE))
        /\ Stop("completed", "other") /\ UNCHANGED <<profile, trusted, calls>>
        /\ staged' = FALSE
    BY <1>0, <1>2, <1>6, <2>2 DEF Denied, TypeOK
  <2>4. QED
    BY <1>5, <2>1, <2>2, <2>3
<1>7. ASSUME NEW p \in Proposals, NEW c \in Calls, InvalidArguments(p, c) PROVE IInv'
  <2>1. PICK d \in {"allow", "needs_approval"} :
             Judged(p, c, d) /\ path' = Append(path, Entry(TRUE, d, TRUE))
    BY <1>7 DEF InvalidArguments
  <2>2. Entry(TRUE, d, TRUE) \in Entries /\ d \in Decisions /\ "other" \in Responses
    BY DEF Entry, Entries, Decisions, Responses
  <2>3. result.status = "running"
    BY <2>1 DEF Judged, Turn
  <2>4. /\ Stop("completed", "other") /\ UNCHANGED <<profile, trusted, calls>>
        /\ staged' = FALSE
    BY <1>0, <1>2, <1>7, <2>3 DEF InvalidArguments, TypeOK
  <2>5. QED
    BY <1>5, <2>1, <2>2, <2>4
<1>8. ASSUME NEW p \in Proposals, NEW c \in Calls, RequestApproval(p, c) PROVE IInv'
  <2> DEFINE e == Entry(TRUE, "needs_approval", FALSE)
  <2>1. /\ e \in Entries /\ e.known /\ e.decision = "needs_approval"
        /\ "needs_approval" \in Decisions /\ "approval_requested" \in Responses
    BY DEF Entry, Entries, Decisions, Responses, Rationales
  <2>2. /\ Judged(p, c, "needs_approval") /\ path' = Append(path, e) /\ staged' = TRUE
        /\ Stop("completed", "approval_requested")
        /\ UNCHANGED <<profile, trusted, calls>>
    BY <1>8 DEF RequestApproval
  <2> HIDE DEF e
  <2>3. QED
    BY <1>5, <2>1, <2>2
<1>9. ASSUME NEW p \in Proposals, NEW c \in Calls, ApprovalUnanswered(p, c) PROVE IInv'
  <2>1. /\ Judged(p, c, "needs_approval") /\ "needs_approval" \in Decisions
        /\ staged' \in BOOLEAN /\ Stop("raised", "none")
        /\ UNCHANGED <<profile, trusted, path, calls>>
    BY <1>9 DEF ApprovalUnanswered, Decisions
  <2>2. same' \in {1, 2} /\ steps' \in 0 .. MaxSteps
        /\ prev' \in {<<>>} \cup {<<x>> : x \in Calls}
        /\ asked' \in [input : PolicyInputs, decision : Decisions]
    BY <1>0, <2>1, JudgedFacts
  <2>3. TypeOK'
    BY <1>0, <2>1, <2>2 DEF TypeOK, Stop, Statuses, Responses, MaxConsecutive
  <2>4. QED
    BY <1>0, <2>1, <2>3, EndKeeps DEF Statuses, Responses
<1>10. ASSUME NEW p \in Proposals, NEW c \in Calls, RunTool(p, c) PROVE IInv'
  <2> DEFINE e == Entry(TRUE, "allow", TRUE)
  <2>1. e \in Entries /\ e.decision = "allow" /\ "allow" \in Decisions
    BY DEF Entry, Entries, Decisions
  <2>2. /\ Judged(p, c, "allow") /\ path' = Append(path, e)
        /\ calls' = Append(calls, c) /\ UNCHANGED <<profile, trusted, staged>>
        /\ result' = result \/ Stop("completed", "other") \/ Stop("failed", "other")
    BY <1>10 DEF RunTool
  <2> HIDE DEF e
  <2>3. /\ result.status = "running" /\ same' = Repeats(c) /\ prev' = <<c>>
        /\ same' \in {1, 2} /\ steps' \in 0 .. MaxSteps
        /\ prev' \in {<<>>} \cup {<<x>> : x \in Calls}
        /\ asked' \in [input : PolicyInputs, decision : Decisions]
    BY <1>0, <2>1, <2>2, JudgedFacts
  <2>4. /\ calls' \in Seq(Calls) /\ NoThirdRepeat'
        /\ calls' # <<>> /\ prev' = <<calls'[Len(calls')]>>
        /\ same' = 1 /\ Len(calls') > 1 =>
              calls'[Len(calls') - 1] # calls'[Len(calls')]
    BY <1>0, <2>2, <2>3, CallKeeps
  <2>5. path' \in Seq(Entries) /\ NoneSeen(path') /\ ~staged'
    BY <1>0, <1>2, <2>1, <2>2, <2>3, AppendSeen DEF TypeOK
  <2>6. result' \in [status : Statuses, response : Responses]
    BY <1>0, <2>2 DEF TypeOK, Stop, Statuses, Responses
  <2>7. TypeOK'
    BY <1>0, <2>2, <2>3, <2>4, <2>5, <2>6 DEF TypeOK, MaxConsecutive
  <2>8. StillOpen'
    BY <2>3, <2>4, <2>5 DEF StillOpen, NoneSeen
  <2>9. ParkIffStaged'
    BY <2>5 DEF ParkIffStaged, ApprovalWasRequested, NoneSeen
  <2>10. QED
    BY <2>4, <2>7, <2>8, <2>9 DEF IInv
<1>11. CASE Exhausted \/ Raise
  <2>1. PICK st \in {"failed", "raised"} : Stop(st, "none")
    BY <1>11 DEF Exhausted, Raise
  <2>2. UNCHANGED <<profile, trusted, steps, prev, same, path, staged, calls, asked>>
    BY <1>11 DEF Exhausted, Raise
  <2>3. TypeOK'
    BY <1>0, <2>1, <2>2 DEF TypeOK, Stop, Statuses, Responses
  <2>4. QED
    BY <1>0, <2>1, <2>2, <2>3, EndKeeps DEF Statuses, Responses
<1>12. QED
  BY <1>1, <1>3, <1>4, <1>6, <1>7, <1>8, <1>9, <1>10, <1>11 DEF Next

\* LoopInvariant: the inductive invariant of a run.
THEOREM LoopInvariant == Spec => []IInv
<1>1. Init => IInv
  <2> SUFFICES ASSUME Init PROVE IInv
    OBVIOUS
  <2>1. /\ result.status = "running"
        /\ result \in [status : Statuses, response : Responses]
    BY DEF Init, Statuses, Responses
  <2>2. asked \in [input : PolicyInputs, decision : Decisions]
    BY DEF Init, Decisions, PolicyInputs, Rules
  <2>3. TypeOK
    <3>1. steps \in 0 .. MaxSteps /\ same \in 0 .. MaxConsecutive
      BY LoopAssumption DEF Init, MaxConsecutive
    <3>2. path \in Seq(Entries) /\ calls \in Seq(Calls)
      BY DEF Init
    <3>3. prev \in {<<>>} \cup {<<x>> : x \in Calls} /\ staged \in BOOLEAN
      BY DEF Init
    <3>4. profile \in [Names -> Rules] /\ trusted \in [risk : BOOLEAN, docError : BOOLEAN]
      BY DEF Init
    <3>5. QED
      BY <2>1, <2>2, <3>1, <3>2, <3>3, <3>4 DEF TypeOK
  <2>4. StillOpen /\ ParkIffStaged
    BY <2>1 DEF Init, StillOpen, ParkIffStaged
  <2>5. NoThirdRepeat
    BY DEF Init, NoThirdRepeat
  <2>6. QED
    BY <2>3, <2>4, <2>5 DEF IInv
<1>2. QED
  BY <1>1, StepKeeps, PTL DEF Spec

\* ParkedIffStaged: the worker parks a completed run exactly when it has staged
\* an approval, for every sequence of proposals.
THEOREM ParkedIffStaged == Spec => []ParkIffStaged
<1>1. IInv => ParkIffStaged
  BY DEF IInv
<1>2. QED
  BY <1>1, LoopInvariant, PTL

\* RepetitionStopped: no call is handed to its tool three times in a row.
THEOREM RepetitionStopped == Spec => []NoThirdRepeat
<1>1. IInv => NoThirdRepeat
  BY DEF IInv
<1>2. QED
  BY <1>1, LoopInvariant, PTL

\* MonotoneAlways: the policy is monotone around every input a run asks about.
THEOREM MonotoneAlways == Spec => []PolicyIsMonotone
<1>1. IInv => PolicyIsMonotone
  BY PolicyMonotone DEF IInv, TypeOK, PolicyIsMonotone
<1>2. QED
  BY <1>1, LoopInvariant, PTL

\* LoopTypesHold: the loop keeps its types, so steps stays within max_steps.
THEOREM LoopTypesHold == Spec => []TypeOK
<1>1. IInv => TypeOK
  BY DEF IInv
<1>2. QED
  BY <1>1, LoopInvariant, PTL

(***************************************************************************)
(* What the path says of the run.                                          *)
(***************************************************************************)

\* AppendedPath: where the entries of a longer path are.
LEMMA AppendedPath ==
    ASSUME NEW s \in Seq(Entries), NEW e \in Entries
    PROVE  /\ DOMAIN Append(s, e) = 1 .. Len(s) + 1 /\ DOMAIN s = 1 .. Len(s)
           /\ Len(Append(s, e)) = Len(s) + 1 /\ Len(s) \in Nat
           /\ Append(s, e)[Len(s) + 1] = e
           /\ \A n \in 1 .. Len(s) : Append(s, e)[n] = s[n]
           /\ Append(s, e) # <<>>
OBVIOUS

\* LastKnown: behind a path of known entries that were executed, one entry
\* without an action key leaves the last of them as the summary's entry.
LEMMA LastKnown ==
    ASSUME NEW e \in Entries, ~e.known, path \in Seq(Entries), path # <<>>,
           \A n \in DOMAIN path : path[n].known /\ path[n].executed,
           path' = Append(path, e)
    PROVE  (SummaryEntry.executed)'
<1> DEFINE k == Len(path)
           known == {n \in DOMAIN path' : path'[n].known}
           last == CHOOSE n \in known : \A m \in known : m <= n
<1>1. /\ DOMAIN path' = 1 .. k + 1 /\ DOMAIN path = 1 .. k /\ k \in Nat
      /\ path'[k + 1] = e /\ \A n \in 1 .. k : path'[n] = path[n]
  BY AppendedPath
<1>2. k >= 1
  BY <1>1
<1> HIDE DEF k
<1>3. known = 1 .. k
  <2>1. \A n \in 1 .. k : path'[n].known
    BY <1>1
  <2>2. QED
    BY <1>1, <2>1
<1> HIDE DEF known
<1>4. \E n \in known : \A m \in known : m <= n
  BY <1>1, <1>2, <1>3
<1>5. last \in known
  BY <1>4
<1>6. path'[last].executed
  BY <1>1, <1>3, <1>5
<1>7. known # {}
  BY <1>4
<1>8. QED
  BY <1>6, <1>7 DEF SummaryEntry, known

\* EntryKeeps: one more entry keeps what the path says if an entry that was let
\* pass and executed is known; a run that goes on adds a known, executed one.
LEMMA EntryKeeps ==
    ASSUME IInv, Traced, result.status = "running", NEW e \in Entries,
           path' = Append(path, e),
           e.decision # "deny" /\ e.executed => e.known,
           result'.status = "running" => e.known /\ e.executed,
           \A n \in DOMAIN calls' : calls'[n].tool \in Tools,
           ~e.known => calls' = calls,
           asked'.decision # "deny" /\ asked'.input.rule # "none"
               => asked'.input.registered
    PROVE  Traced'
<1> DEFINE k == Len(path)
<1>1. path \in Seq(Entries)
  BY DEF IInv, TypeOK
<1>2. /\ DOMAIN path' = 1 .. k + 1 /\ DOMAIN path = 1 .. k /\ k \in Nat
      /\ Len(path') = k + 1 /\ path' # <<>>
      /\ path'[k + 1] = e /\ \A n \in 1 .. k : path'[n] = path[n]
  BY <1>1, AppendedPath
<1>3. /\ \A n \in DOMAIN path : path[n].known /\ path[n].executed
      /\ calls # <<>> => path # <<>>
  BY DEF Traced, OpenPath
<1> HIDE DEF k
<1>4. OpenPath'
  <2> SUFFICES ASSUME result'.status = "running", NEW n \in 1 .. k + 1
               PROVE  path'[n].known /\ path'[n].executed
    BY <1>2 DEF OpenPath
  <2>1. n \in 1 .. k \/ n = k + 1
    BY <1>2
  <2>2. QED
    BY <1>2, <1>3, <2>1
<1>5. OnlyRegisteredRun'
  <2>1. ASSUME NEW n \in 1 .. k + 1 PROVE
             path'[n].decision # "deny" /\ path'[n].executed => path'[n].known
    <3>1. n \in 1 .. k \/ n = k + 1
      BY <1>2
    <3>2. QED
      BY <1>2, <1>3, <3>1
  <2>2. QED
    BY <1>2, <2>1 DEF OnlyRegisteredRun
<1>6. ClosingKeepsOutcome'
  <2> SUFFICES ASSUME calls' # <<>>, ~path'[Len(path')].known
               PROVE  BusinessOutcome' = "tool_result"
    BY DEF ClosingKeepsOutcome
  <2>1. ~e.known
    BY <1>2
  <2>2. path # <<>>
    BY <1>3, <2>1
  <2>3. (SummaryEntry.executed)'
    BY <1>1, <1>3, <2>1, <2>2, LastKnown
  <2>4. QED
    BY <2>3 DEF BusinessOutcome
<1>7. QED
  BY <1>4, <1>5, <1>6 DEF Traced

\* StopKeeps: a step that ends the run other than by completing it, with the path
\* and the calls as they were.
LEMMA StopKeeps ==
    ASSUME Traced, path' = path, calls' = calls,
           result'.status \notin {"running", "completed"},
           asked'.decision # "deny" /\ asked'.input.rule # "none"
               => asked'.input.registered
    PROVE  Traced'
<1>1. OpenPath' /\ ClosingKeepsOutcome'
  BY DEF OpenPath, ClosingKeepsOutcome
<1>2. OnlyRegisteredRun'
  BY DEF Traced, OnlyRegisteredRun
<1>3. QED
  BY <1>1, <1>2 DEF Traced

\* JudgedAsked: an action the policy lets pass has its registered tool.
LEMMA JudgedAsked ==
    ASSUME IInv, NEW p \in Proposals, NEW c \in Calls, NEW d \in Decisions,
           Judged(p, c, d)
    PROVE  /\ result.status = "running"
           /\ d # "deny" => c.tool \in Tools
           /\ asked'.decision # "deny" => asked'.input.registered
<1>1. /\ result.status = "running" /\ (d # "deny" => c.tool \in Tools)
      /\ asked'.decision = d /\ asked'.input = ActionInput(p, c)
  BY JudgedFacts DEF IInv
<1>2. ActionInput(p, c).registered <=> c.tool \in Tools
  BY DEF ActionInput
<1>3. QED
  BY <1>1, <1>2

\* TracedStep: every step of the loop keeps what the path says.
LEMMA TracedStep == IInv /\ Traced /\ [Next]_vars => Traced'
<1> SUFFICES ASSUME IInv, Traced, [Next]_vars PROVE Traced'
  OBVIOUS
<1>0. \A n \in DOMAIN calls : calls[n].tool \in Tools
  BY DEF Traced, OnlyRegisteredRun
<1>1. CASE UNCHANGED vars
  BY <1>1 DEF vars, Traced, OpenPath, OnlyRegisteredRun, ClosingKeepsOutcome,
     BusinessOutcome, SummaryEntry, ApprovalWasRequested
<1>2. ASSUME NEW p \in Proposals, Close(p) PROVE Traced'
  <2> DEFINE d == EvaluateTerminal(TerminalInput(p))
             e == Entry(FALSE, d, FALSE)
  <2>1. e \in Entries /\ ~e.known /\ ~e.executed
    BY DEF EvaluateTerminal, Decisions, Entry, Entries
  <2>2. asked'.input.rule = "none"
    BY <1>2 DEF Close, TerminalInput
  <2>3. /\ path' = Append(path, e) /\ calls' = calls
        /\ result.status = "running" /\ result'.status = "completed"
    BY <1>2 DEF Close, Stop
  <2> HIDE DEF e
  <2>4. QED
    BY <1>0, <2>1, <2>2, <2>3, EntryKeeps
<1>3. ASSUME NEW c \in Calls, Repeated(c) PROVE Traced'
  <2>1. /\ path' = path /\ calls' = calls /\ asked' = asked
        /\ result'.status = "failed"
    BY <1>3 DEF Repeated, Stop
  <2>2. QED
    BY <2>1, StopKeeps DEF Traced, OnlyRegisteredRun
<1>4. ASSUME NEW p \in Proposals, NEW c \in Calls, Denied(p, c) PROVE Traced'
  <2> DEFINE e == Entry(c.tool \in Tools, "deny", FALSE)
  <2>1. e \in Entries /\ e.decision = "deny"
    BY DEF Decisions, Entry, Entries
  <2>2. /\ Judged(p, c, "deny") /\ "deny" \in Decisions
        /\ path' = Append(path, e) /\ calls' = calls
        /\ result'.status = "completed"
    BY <1>4 DEF Denied, Stop, Decisions
  <2> HIDE DEF e
  <2>3. QED
    BY <1>0, <2>1, <2>2, JudgedAsked, EntryKeeps
<1>5. ASSUME NEW p \in Proposals, NEW c \in Calls, InvalidArguments(p, c)
      PROVE  Traced'
  <2>1. PICK d \in {"allow", "needs_approval"} :
             Judged(p, c, d) /\ path' = Append(path, Entry(TRUE, d, TRUE))
    BY <1>5 DEF InvalidArguments
  <2>2. Entry(TRUE, d, TRUE) \in Entries /\ Entry(TRUE, d, TRUE).known /\ d \in Decisions
    BY DEF Entry, Entries, Decisions
  <2>3. calls' = calls /\ result'.status = "completed"
    BY <1>5 DEF InvalidArguments, Stop
  <2>4. QED
    BY <1>0, <2>1, <2>2, <2>3, JudgedAsked, EntryKeeps
<1>6. ASSUME NEW p \in Proposals, NEW c \in Calls, RequestApproval(p, c)
      PROVE  Traced'
  <2> DEFINE e == Entry(TRUE, "needs_approval", FALSE)
  <2>1. e \in Entries /\ e.known /\ "needs_approval" \in Decisions
    BY DEF Entry, Entries, Decisions
  <2>2. /\ Judged(p, c, "needs_approval") /\ path' = Append(path, e)
        /\ calls' = calls /\ result'.status = "completed"
    BY <1>6 DEF RequestApproval, Stop
  <2> HIDE DEF e
  <2>3. QED
    BY <1>0, <2>1, <2>2, JudgedAsked, EntryKeeps
<1>7. ASSUME NEW p \in Proposals, NEW c \in Calls, ApprovalUnanswered(p, c)
      PROVE  Traced'
  <2>1. /\ Judged(p, c, "needs_approval") /\ "needs_approval" \in Decisions
        /\ path' = path /\ calls' = calls /\ result'.status = "raised"
    BY <1>7 DEF ApprovalUnanswered, Stop, Decisions
  <2>2. QED
    BY <2>1, JudgedAsked, StopKeeps
<1>8. ASSUME NEW p \in Proposals, NEW c \in Calls, RunTool(p, c) PROVE Traced'
  <2> DEFINE e == Entry(TRUE, "allow", TRUE)
  <2>1. e \in Entries /\ e.known /\ e.executed /\ "allow" \in Decisions
    BY DEF Entry, Entries, Decisions
  <2>2. Judged(p, c, "allow") /\ path' = Append(path, e) /\ calls' = Append(calls, c)
    BY <1>8 DEF RunTool
  <2> HIDE DEF e
  <2>3. result.status = "running" /\ c.tool \in Tools
        /\ (asked'.decision # "deny" => asked'.input.registered)
    BY <2>1, <2>2, JudgedAsked
  <2>4. \A n \in DOMAIN calls' : calls'[n].tool \in Tools
    <3>1. calls \in Seq(Calls)
      BY DEF IInv, TypeOK
    <3>2. /\ DOMAIN calls' = 1 .. Len(calls) + 1 /\ DOMAIN calls = 1 .. Len(calls)
          /\ calls'[Len(calls) + 1] = c
          /\ \A n \in 1 .. Len(calls) : calls'[n] = calls[n]
          /\ \A n \in 1 .. Len(calls) + 1 : n \in 1 .. Len(calls) \/ n = Len(calls) + 1
      BY <2>2, <3>1
    <3>3. QED
      BY <1>0, <2>3, <3>2
  <2>5. QED
    BY <2>1, <2>2, <2>3, <2>4, EntryKeeps
<1>9. CASE Exhausted \/ Raise
  <2>1. /\ path' = path /\ calls' = calls /\ asked' = asked
        /\ result'.status \in {"failed", "raised"}
    BY <1>9 DEF Exhausted, Raise, Stop
  <2>2. QED
    BY <2>1, StopKeeps DEF Traced, OnlyRegisteredRun
<1>10. QED
  BY <1>1, <1>2, <1>3, <1>4, <1>5, <1>6, <1>7, <1>8, <1>9 DEF Next

\* PathInvariant: the path of a run that goes on is the list of its executed
\* calls, and the properties that read it follow from that.
THEOREM PathInvariant == Spec => []Traced
<1>1. Init => Traced
  BY DEF Init, Traced, OpenPath, OnlyRegisteredRun, ClosingKeepsOutcome
<1>2. QED
  BY <1>1, TracedStep, LoopInvariant, PTL DEF Spec

\* PolicyAlwaysSafe: PolicyIsSafe for every registry and every profile: whatever
\* the model proposes, the policy does not permit more for more against it, and
\* nothing reaches a handler or an operator without its registered tool.
THEOREM PolicyAlwaysSafe == Spec => []PolicyIsSafe
<1>1. Traced /\ PolicyIsMonotone => PolicyIsSafe
  BY DEF Traced, PolicyIsSafe
<1>2. QED
  BY <1>1, PathInvariant, MonotoneAlways, PTL

\* OutcomeKept: _result_summary finds the tool's result behind every closing
\* proposal and behind every denied unknown action.
THEOREM OutcomeKept == Spec => []ClosingKeepsOutcome
<1>1. Traced => ClosingKeepsOutcome
  BY DEF Traced
<1>2. QED
  BY <1>1, PathInvariant, PTL

=============================================================================
