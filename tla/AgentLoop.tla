------------------------------ MODULE AgentLoop ------------------------------
(***************************************************************************)
(* One run of the agent: AgentLoop.run with PolicyGatedToolExecutor behind *)
(* it, and what the worker makes of the result.  The model behind the      *)
(* provider may propose anything at every step; its text is not trusted.   *)
(***************************************************************************)
EXTENDS Policy, Sequences

CONSTANTS Tools,         \* the keys of the action registry
          Unregistered,  \* other action names a proposal may use
          Complete,      \* tools with requires_complete_fields = True
          Arguments,     \* argument values a call may carry
          BadArguments,  \* those the tool's arguments model rejects
          MaxSteps       \* self.max_steps

ASSUME LoopAssumption == /\ MaxSteps \in Nat \ {0}
                         /\ Tools \cap Unregistered = {}
                         /\ Complete \subseteq Tools
                         /\ BadArguments \subseteq Arguments

\* MAX_CONSECUTIVE_TOOL_CALLS
MaxConsecutive == 3

VARIABLES
    profile,   \* the rule of every action name, fixed for the run
    trusted,   \* the run's own risk signal and document error, fixed
    steps,     \* completed provider calls
    prev,      \* previous_tool_call, as a sequence of length at most one
    same,      \* consecutive_tool_calls
    path,      \* execution_path
    result,    \* the AgentRunResult: status and final response
    staged,    \* history: request_approval committed
    calls,     \* history: the calls whose handler was started
    asked      \* history: what the last policy evaluation looked at, and said

vars == <<profile, trusted, steps, prev, same, path, result, staged, calls, asked>>
fixed == <<profile, trusted>>
-----------------------------------------------------------------------------
Names == Tools \cup Unregistered
Calls == [tool : Names, args : Arguments]

\* What the loop reads of a proposal.  Only the two texts that the server also
\* uses as control values are told apart from any other rationale.
Rationales == {"text", "approval_requested", "no_action_requested"}
Proposals == [unknownIntake : BOOLEAN, invalid : BOOLEAN, missing : BOOLEAN,
              injection : BOOLEAN, critical : BOOLEAN, rationale : Rationales]

Decisions == {"deny", "needs_approval", "allow"}

\* ExecutionPathEntry: whether the action is known (action_key is set), the
\* policy's decision, and whether a tool outcome was recorded.
Entries == [known : BOOLEAN, decision : Decisions, executed : BOOLEAN]

Statuses  == {"running", "completed", "failed", "raised"}
Responses == Rationales \cup {"none", "other"}

\* TypeOK: types of the variables; the path and the calls stay within the step
\* limit of AgentLoop.run.
TypeOK ==
    /\ profile \in [Names -> Rules]
    /\ trusted \in [risk : BOOLEAN, docError : BOOLEAN]
    /\ steps   \in 0 .. MaxSteps
    /\ prev    \in {<<>>} \cup {<<c>> : c \in Calls}
    /\ same    \in 0 .. MaxConsecutive
    /\ path    \in Seq(Entries)
    /\ result  \in [status : Statuses, response : Responses]
    /\ staged  \in BOOLEAN
    /\ calls   \in Seq(Calls)
    /\ asked   \in [input : PolicyInputs, decision : Decisions]

\* The state of run before its first step.  "asked" starts with an evaluation
\* that denies for want of an intake type.
Init ==
    /\ profile \in [Names -> Rules]
    /\ trusted \in [risk : BOOLEAN, docError : BOOLEAN]
    /\ steps = 0 /\ prev = <<>> /\ same = 0
    /\ path = <<>> /\ calls = <<>>
    /\ result = [status |-> "running", response |-> "none"]
    /\ staged = FALSE
    /\ asked = [decision |-> "deny",
                input |-> [docError |-> FALSE, unknownIntake |-> TRUE,
                           invalid |-> FALSE, missing |-> FALSE,
                           complete |-> FALSE, rule |-> "none",
                           registered |-> FALSE, risk |-> FALSE,
                           critical |-> FALSE]]

-----------------------------------------------------------------------------
(* Definitions called "...Fault" are the same decision with a mistake.     *)

\* PolicyInput as execute builds it.
ActionInput(p, c) ==
    [docError |-> trusted.docError, unknownIntake |-> p.unknownIntake,
     invalid |-> p.invalid, missing |-> p.missing,
     complete |-> c.tool \in Complete, rule |-> profile[c.tool],
     registered |-> c.tool \in Tools,
     risk |-> trusted.risk \/ p.injection, critical |-> p.critical]

\* PolicyInput as evaluate_terminal builds it.
TerminalInput(p) ==
    [docError |-> trusted.docError, unknownIntake |-> p.unknownIntake,
     invalid |-> p.invalid, missing |-> p.missing, complete |-> TRUE,
     rule |-> "none", registered |-> FALSE,
     risk |-> trusted.risk \/ p.injection, critical |-> p.critical]

Entry(known, d, executed) ==
    [known |-> known, decision |-> d, executed |-> executed]

RepeatsFault(c) == 1

\* consecutive_tool_calls after a call to c.
Repeats(c) == IF prev = <<c>> THEN same + 1 ELSE 1

\* The call would be the third identical one in a row.
TooMany(c) == Repeats(c) = MaxConsecutive

\* The loop counts the provider call and remembers the tool call.
Turn(c) ==
    /\ result.status = "running" /\ steps < MaxSteps
    /\ steps' = steps + 1
    /\ prev'  = <<c>>
    /\ same'  = Repeats(c)

Stop(status, response) == result' = [status |-> status, response |-> response]

\* The policy decides d about call c, which is not one call too many.
Judged(p, c, d) ==
    /\ Turn(c) /\ ~TooMany(c)
    /\ Evaluate(ActionInput(p, c)) = d
    /\ asked' = [input |-> ActionInput(p, c), decision |-> d]

\* The final response of a closing proposal: the policy's reason, unless the
\* run has used a tool before, then the model's own sentence.
TerminalResponse(p, d) ==
    IF d # "allow" THEN "other"
    ELSE IF path # <<>> THEN p.rationale ELSE "no_action_requested"

-----------------------------------------------------------------------------
(* One action per way a step of the loop can go.                           *)

\* The proposal requests no tool: evaluate_terminal, and the run completes.
Close(p) ==
    LET d == EvaluateTerminal(TerminalInput(p)) IN
    /\ result.status = "running" /\ steps < MaxSteps
    /\ steps' = steps + 1
    /\ asked' = [input |-> TerminalInput(p), decision |-> d]
    /\ path'  = Append(path, Entry(FALSE, d, FALSE))
    /\ Stop("completed", TerminalResponse(p, d))
    /\ UNCHANGED <<fixed, prev, same, staged, calls>>

\* REPEATED_TOOL: the third identical call in a row is not executed.
Repeated(c) ==
    /\ Turn(c) /\ TooMany(c)
    /\ Stop("failed", "none")
    /\ UNCHANGED <<fixed, path, staged, calls, asked>>

\* The policy denies: the run completes with the reason.
Denied(p, c) ==
    /\ Judged(p, c, "deny")
    /\ path' = Append(path, Entry(c.tool \in Tools, "deny", FALSE))
    /\ Stop("completed", "other")
    /\ UNCHANGED <<fixed, staged, calls>>

\* tool_arguments_invalid, for an allowed action and for one that would need
\* approval.
InvalidArguments(p, c) ==
    /\ c.args \in BadArguments
    /\ \E d \in {"allow", "needs_approval"} :
          /\ Judged(p, c, d)
          /\ path' = Append(path, Entry(TRUE, d, TRUE))
    /\ Stop("completed", "other")
    /\ UNCHANGED <<fixed, staged, calls>>

\* NEEDS_APPROVAL: request_approval commits and the run completes.
RequestApproval(p, c) ==
    /\ c.args \notin BadArguments
    /\ Judged(p, c, "needs_approval")
    /\ path'   = Append(path, Entry(TRUE, "needs_approval", FALSE))
    /\ staged' = TRUE
    /\ Stop("completed", "approval_requested")
    /\ UNCHANGED <<fixed, calls>>

\* request_approval raises, perhaps after its commit (the gateway timed out or
\* the run was cancelled meanwhile): the exception leaves the loop.
ApprovalUnanswered(p, c) ==
    /\ c.args \notin BadArguments
    /\ Judged(p, c, "needs_approval")
    /\ staged' \in BOOLEAN
    /\ Stop("raised", "none")
    /\ UNCHANGED <<fixed, path, calls>>

\* ALLOW: the handler runs.  It succeeds and the loop goes on; or it stops the
\* run (case_not_found, customer_not_found, trusted_source_unavailable); or it
\* raises, for a cancelled run at once, and the run fails.
RunTool(p, c) ==
    /\ c.args \notin BadArguments
    /\ Judged(p, c, "allow")
    /\ calls' = Append(calls, c)
    /\ path'  = Append(path, Entry(TRUE, "allow", TRUE))
    /\ \/ UNCHANGED result
       \/ Stop("completed", "other")
       \/ Stop("failed", "other")
    /\ UNCHANGED <<fixed, staged>>

\* MAX_STEPS
Exhausted ==
    /\ result.status = "running" /\ steps = MaxSteps
    /\ Stop("failed", "none")
    /\ UNCHANGED <<fixed, steps, prev, same, path, staged, calls, asked>>

\* An exception leaves the loop: the provider fails, or the executor finds the
\* run cancelled before it evaluates the proposal.  The loop's counters are lost
\* with its frame, so the step leaves them as they were.
Raise ==
    /\ result.status = "running" /\ steps < MaxSteps
    /\ Stop("raised", "none")
    /\ UNCHANGED <<fixed, steps, prev, same, path, staged, calls, asked>>

Next ==
    \/ \E p \in Proposals :
          \/ Close(p)
          \/ \E c \in Calls : \/ Denied(p, c) \/ InvalidArguments(p, c)
                              \/ RequestApproval(p, c) \/ RunTool(p, c)
                              \/ ApprovalUnanswered(p, c)
    \/ \E c \in Calls : Repeated(c)
    \/ Exhausted
    \/ Raise

Spec == Init /\ [][Next]_vars

-----------------------------------------------------------------------------
(* What the worker makes of the result.                                    *)

ApprovalWasRequestedFault == result.response = "approval_requested"

\* _approval_was_requested
ApprovalWasRequested ==
    /\ result.response = "approval_requested"
    /\ \E n \in DOMAIN path : path[n].known /\ path[n].decision = "needs_approval"

SummaryEntryFault == path[Len(path)]

\* _result_summary looks at the last entry with an action key, if there is one.
SummaryEntry ==
    LET known == {n \in DOMAIN path : path[n].known} IN
    IF known = {} THEN path[Len(path)]
    ELSE path[CHOOSE n \in known : \A m \in known : m <= n]

\* business_outcome
BusinessOutcome ==
    IF SummaryEntry.executed THEN "tool_result"
    ELSE IF ApprovalWasRequested THEN "approval_requested" ELSE "routing_only"

-----------------------------------------------------------------------------
(* Properties.                                                             *)

\* ParkIffStaged: the worker parks a completed run exactly when the run has an
\* approval staged, whatever sentence the model closes with: its rationale can
\* become the final response and may read "approval_requested".
ParkIffStaged ==
    result.status = "completed" => (ApprovalWasRequested <=> staged)

\* NoThirdRepeat: no handler is ever started three times in a row with the same
\* call, over the whole run.
NoThirdRepeat ==
    \A n \in 1 .. Len(calls) - 2 :
        ~(calls[n] = calls[n + 1] /\ calls[n + 1] = calls[n + 2])

\* ClosingKeepsOutcome: a run that executed a tool and then closed without a
\* further known action reports the tool's result as its business outcome.
ClosingKeepsOutcome ==
    result.status = "completed" /\ calls # <<>> /\ ~path[Len(path)].known
        => BusinessOutcome = "tool_result"

\* PolicyIsMonotone: more against a proposal never makes the policy more
\* permissive; in particular urgency or risk never lifts a denied action to one
\* an operator could approve.
PolicyIsMonotone ==
    \A k \in Worse(asked.input) :
        /\ Permits(Evaluate(k)) <= Permits(Evaluate(asked.input))
        /\ Permits(EvaluateTerminal(k)) <= Permits(EvaluateTerminal(asked.input))

\* OnlyRegisteredRun: what the policy lets pass, to a handler or to an operator,
\* has a registered tool, so execute's assertion "allowed action must have a
\* registered tool" holds.
OnlyRegisteredRun ==
    /\ \A n \in DOMAIN calls : calls[n].tool \in Tools
    /\ \A n \in DOMAIN path :
          path[n].decision # "deny" /\ path[n].executed => path[n].known
    /\ asked.decision # "deny" /\ asked.input.rule # "none" => asked.input.registered

\* PolicyIsSafe: nothing a run asks about is permitted for having more against it,
\* and nothing it may do or hand to an operator lacks its registered tool.
PolicyIsSafe == PolicyIsMonotone /\ OnlyRegisteredRun

\* While the run goes on, nothing is staged, every step has started a handler,
\* and prev and same describe the end of that series of calls.
StillOpen ==
    result.status = "running" =>
        /\ ~staged
        /\ \A n \in DOMAIN path : ~(path[n].known /\ path[n].decision = "needs_approval")
        /\ IF calls = <<>> THEN prev = <<>> /\ same = 0
           ELSE /\ prev = <<calls[Len(calls)]>>
                /\ same \in {1, 2}
                /\ same = 1 /\ Len(calls) > 1 =>
                       calls[Len(calls) - 1] # calls[Len(calls)]

IInv == TypeOK /\ StillOpen /\ ParkIffStaged /\ NoThirdRepeat

\* While the run goes on, every entry of its path is a known action whose
\* outcome was recorded, and a started handler has left one.
OpenPath ==
    result.status = "running" =>
        /\ \A n \in DOMAIN path : path[n].known /\ path[n].executed
        /\ calls # <<>> => path # <<>>

\* What the path says of the run: the strengthening the last two properties need.
Traced == OpenPath /\ OnlyRegisteredRun /\ ClosingKeepsOutcome
=============================================================================
