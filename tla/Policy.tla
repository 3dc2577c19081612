------------------------------- MODULE Policy -------------------------------
(***************************************************************************)
(* PolicyEngine and TenantRouter: what the server decides about a proposal *)
(* of the model.  Pure functions of trusted configuration, trusted risk    *)
(* signals and validated proposal fields.                                  *)
(***************************************************************************)
EXTENDS Naturals

\* A rule of the profile's action_policy: absent, not executable, executable
\* but not allowed, allowed with approval (requires_approval or one of the
\* always_approval_actions), or allowed.
Rules == {"none", "not_executable", "denied", "approval", "allowed"}

\* What an evaluation looks at.
PolicyInputs ==
    [docError : BOOLEAN,     \* the source document has an extraction error
     unknownIntake : BOOLEAN,\* the proposed intake type is not configured
     invalid : BOOLEAN,      \* some proposed field value failed validation
     missing : BOOLEAN,      \* some required field is not verified as present
     complete : BOOLEAN,     \* the action requires complete fields
     rule : Rules,
     registered : BOOLEAN,   \* the action is executable in this build
     risk : BOOLEAN,         \* trusted risk signal, or injection reported
     critical : BOOLEAN]     \* proposed priority is critical

\* The checks evaluate and evaluate_terminal make before they differ.
Unacceptable(i) ==
    i.docError \/ i.unknownIntake \/ i.invalid \/ (i.complete /\ i.missing)

\* What the router hands to an operator instead of executing.
NeedsOperator(i) == i.risk \/ i.rule = "approval" \/ i.critical

RouteFault(i) ==
    IF i.rule \in {"none", "not_executable"} \/ ~i.registered THEN "deny"
    ELSE IF NeedsOperator(i) THEN "needs_approval"
    ELSE IF i.rule = "denied" THEN "deny" ELSE "allow"

RouteFault2(i) ==
    IF i.rule \in {"none", "not_executable", "denied"} THEN "deny"
    ELSE IF NeedsOperator(i) THEN "needs_approval" ELSE "allow"

\* TenantRouter.route, after the checks above.
Route(i) ==
    IF i.rule \in {"none", "not_executable", "denied"} \/ ~i.registered THEN "deny"
    ELSE IF NeedsOperator(i) THEN "needs_approval" ELSE "allow"

\* PolicyEngine.evaluate.
Evaluate(i) == IF Unacceptable(i) THEN "deny" ELSE Route(i)

\* PolicyEngine.evaluate_terminal: no action is requested.
EvaluateTerminal(i) ==
    IF Unacceptable(i) THEN "deny"
    ELSE IF i.risk THEN "needs_approval" ELSE "allow"

-----------------------------------------------------------------------------
\* The order of permissiveness.
Permits(d) == CASE d = "deny" -> 0 [] d = "needs_approval" -> 1 [] d = "allow" -> 2

\* The inputs that agree with i except that they may have more against them.
Worse(i) ==
    [docError : {i.docError, TRUE}, unknownIntake : {i.unknownIntake, TRUE},
     invalid : {i.invalid, TRUE}, missing : {i.missing, TRUE},
     complete : {i.complete}, rule : {i.rule},
     registered : {i.registered, FALSE},
     risk : {i.risk, TRUE}, critical : {i.critical, TRUE}]
=============================================================================
