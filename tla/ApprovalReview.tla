--------------------------- MODULE ApprovalReview ---------------------------
(***************************************************************************)
(* What an operator sees of an approval and what becomes of the decision:  *)
(* the extracted fields that are frozen into the pending action, the       *)
(* review projection, the decide request, the expiry sweep, and the events *)
(* emitted after each commit.                                              *)
(*                                                                         *)
(* A row outlives deployments.  Its profile snapshot is immutable, but it  *)
(* is compiled again by whatever build reads it, and the frozen fields and *)
(* arguments are validated again by that build's code.                     *)
(*                                                                         *)
(* EffectTransactions has the locks of these transactions and the effects  *)
(* of the approved action; here a decision is one step, taken with the     *)
(* time the request read before it waited for the row.                     *)
(***************************************************************************)
EXTENDS Integers, FiniteSets

CONSTANTS Approvals,    \* the rows, identified by consecutive numbers
          Legacy,       \* those without a job, pending from the start
          Operators,
          Names,        \* field names a proposal may use
          Defined,      \* those the profile defines
          Values,       \* field values that are present
          Blank,        \* a value that is not: null, "" or []
          Proposals,    \* proposals the provider may make
          Builds,       \* [id -> what that deployment can do]
          TTL,          \* approval_timeout_seconds
          SweepLimit,   \* rows one expire_due handles
          MaxAsks,      \* bound: decide requests of an operator
          MaxTime       \* bound on the clock

Sources == {"body", "document"}

\* source: where the model says the value is from.  An excerpt is optional;
\* found: the sources it occurs in.
Items == [name : Names, value : Values \cup {Blank}, source : Sources \cup {"unsaid"},
          quoted : BOOLEAN, found : SUBSET Sources]

\* A capability set of one deployment, as far as this row's profile needs it.
Capabilities == [registered : BOOLEAN,     \* the action registry has the action
                 normalizer : BOOLEAN,     \* so does the document registry
                 version    : Nat,         \* pending_action_version
                 arguments  : BOOLEAN,     \* the frozen arguments validate
                 accepts    : SUBSET Values]

ASSUME ReviewAssumption ==
    /\ Approvals \subseteq Nat /\ IsFiniteSet(Approvals)
    /\ Legacy \subseteq Approvals
    /\ Defined \subseteq Names
    /\ Blank \notin Values
    /\ \A p \in Proposals : p.document \in BOOLEAN /\ p.items \subseteq Items
    /\ \A b \in DOMAIN Builds : Builds[b] \in Capabilities
    /\ 0 \notin DOMAIN Builds          \* "no build", in an operator's view
    /\ TTL \in Nat \ {0} /\ SweepLimit \in Nat \ {0}
    /\ MaxAsks \in Nat /\ MaxTime \in Nat

VARIABLES
    rows,   \* the approvals table, and whether the row's job is parked
    origin, \* history: the proposal each row was frozen from, and the build
    build,  \* the deployment that is running
    now,
    ask,    \* each operator: what it looked at, and its decide request
    asked,  \* decide requests it has made
    due,    \* rows the sweep expired and has not reported
    log     \* events emitted per row

vars == <<rows, origin, build, now, ask, asked, due, log>>

Events   == {"executed", "expired"}
Final    == {"approved", "rejected", "expired"}
Statuses == {"none", "pending"} \cup Final
NoDeadline == -1                     \* expires_at IS NULL, legacy rows only
Nobody == "nobody"
System == "system_timeout"

-----------------------------------------------------------------------------
(* Field validation.                                                       *)

Caps(b) == Builds[b]

\* _source_candidates.  Without a document everything is body text, quoted or
\* not; with one, a value must be quoted from the source it names, or, naming
\* none, from either.
SourceCandidates(i, document) ==
    IF ~document
    THEN IF i.source = "document" \/ (i.quoted /\ "body" \notin i.found)
         THEN {} ELSE {"body"}
    ELSE IF ~i.quoted THEN {}
    ELSE IF i.source = "unsaid" THEN i.found
    ELSE i.found \cap {i.source}

\* Names the profile does not define and blank values are skipped.
Present(p) == {i \in p.items : i.name \in Defined /\ i.value # Blank}

\* _normalized_value returns an accepted value unchanged.
Usable(p, b) == {i \in Present(p) : /\ SourceCandidates(i, p.document) # {}
                                    /\ i.value \in Caps(b).accepts}

InvalidFields(p, b) == {i.name : i \in Present(p) \ Usable(p, b)}

Candidates(p, b, n) ==
    UNION {{<<s, i.value>> : s \in SourceCandidates(i, p.document)} :
           i \in {u \in Usable(p, b) : u.name = n}}

FirstChoicesFault(p, b, n) == {x[2] : x \in Candidates(p, b, n)}

\* The stable sort puts body candidates first; among those the proposal's own
\* order decides, which Items leaves open.
FirstChoices(p, b, n) ==
    LET c    == Candidates(p, b, n)
        body == {x \in c : x[1] = "body"}
    IN  {x[2] : x \in IF body # {} THEN body ELSE c}

\* validate_proposal_fields(...).values: every outcome the order allows.
ValidatedFields(p, b) ==
    LET found == {n \in Defined : Candidates(p, b, n) # {}}
    IN  {f \in [found -> Values] : \A n \in found : f[n] \in FirstChoices(p, b, n)}

AsBodyFault(known) ==
    [document |-> TRUE,
     items |-> {[name |-> n, value |-> known[n], source |-> "body",
                 quoted |-> FALSE, found |-> {}] : n \in DOMAIN known}]

\* validate_frozen_fields: the stored values as body text, without a document
\* and without an excerpt.
AsBody(known) ==
    [document |-> FALSE,
     items |-> {[name |-> n, value |-> known[n], source |-> "body",
                 quoted |-> FALSE, found |-> {}] : n \in DOMAIN known}]

FrozenInvalid(known, b) ==
    InvalidFields(AsBody(known), b) \cup (DOMAIN known \ Defined)

FrozenValid(known, b) ==
    /\ FrozenInvalid(known, b) = {}
    /\ DOMAIN known = {n \in Defined : Candidates(AsBody(known), b, n) # {}}

-----------------------------------------------------------------------------
(* Reading a row.                                                          *)

\* resolve_persisted_profile: compile_tenant_profile requires every executable
\* action and every document normalizer of the snapshot.
Resolves(b) == Caps(b).registered /\ Caps(b).normalizer

\* available_actions: the snapshot allows the action, or no row would exist.
Available(b) == Caps(b).registered

\* _published_lifecycle_predicate: a decision finishes the job in the same
\* transaction, so only the pending row depends on the job being parked.
Published(r) == r.status # "none" /\ (r.job => r.parked)

ExecutableFault(r, b) ==
    /\ r.job /\ Resolves(b) /\ r.status = "pending"
    /\ Caps(b).registered /\ Caps(b).arguments
    /\ Available(b)

\* ApprovalReviewService._project.
Executable(r, b) ==
    /\ r.job
    /\ Resolves(b)
    /\ FrozenInvalid(r.known, b) = {}
    /\ r.status = "pending"
    /\ Caps(b).registered /\ Caps(b).arguments
    /\ Available(b)

\* ORDER BY expires_at, id: a missing deadline sorts last.
Before(a, c) ==
    LET x == rows[a].expires
        y == rows[c].expires
    IN  \/ x # NoDeadline /\ (y = NoDeadline \/ x < y)
        \/ x = y /\ a < c

FirstOf(S, n) == {a \in S : Cardinality({c \in S : Before(c, a)}) < n}

FetchedFault(s, limit) ==
    LET bounded == IF limit < 1 THEN 1 ELSE limit
    IN  [page |-> FirstOf({a \in Approvals : rows[a].status = s /\ Published(rows[a])},
                          bounded),
         limit |-> bounded]

\* list_for_tenant reads one row more than the page holds, so that
\* ApprovalReviewService.list knows whether there is another page.
Fetched(s, limit) ==
    LET bounded == IF limit < 1 THEN 1 ELSE limit
    IN  [page |-> FirstOf({a \in Approvals : rows[a].status = s /\ Published(rows[a])},
                          bounded + 1),
         limit |-> bounded]

Page(s, limit) ==
    LET f == Fetched(s, limit)
    IN  [items |-> FirstOf(f.page, f.limit), more |-> Cardinality(f.page) > f.limit]

-----------------------------------------------------------------------------

Idle == [pc |-> "idle", on |-> 0, want |-> "none", at |-> 0, saw |-> 0, answer |-> "none",
         emits |-> {}]

NoRow == [status |-> "none", job |-> TRUE, parked |-> FALSE, expires |-> NoDeadline,
          version |-> 0, known |-> << >>, by |-> Nobody]

NoOrigin == [document |-> FALSE, items |-> {}, build |-> 0]

Init ==
    /\ \E d \in [Legacy -> {NoDeadline, TTL}] :
           rows = [a \in Approvals |->
                      IF a \in Legacy
                      THEN [NoRow EXCEPT !.status = "pending", !.job = FALSE, !.expires = d[a]]
                      ELSE NoRow]
    /\ origin = [a \in Approvals |-> NoOrigin]
    /\ build \in DOMAIN Builds
    /\ now = 0
    /\ ask = [o \in Operators |-> Idle]
    /\ asked = [o \in Operators |-> 0]
    /\ due = {}
    /\ log = [a \in Approvals |-> [e \in Events |-> 0]]

\* _pending_action and create_or_get: the worker's gateway freezes the
\* action.  Arguments or fields that fail validation stop the run before this.
Request(a, p) ==
    /\ rows[a] = NoRow
    /\ Resolves(build) /\ Caps(build).arguments
    /\ InvalidFields(p, build) = {}
    /\ \E known \in ValidatedFields(p, build) :
           rows' = [rows EXCEPT ![a] =
                       [NoRow EXCEPT !.status = "pending", !.expires = now + TTL,
                                     !.version = Caps(build).version, !.known = known]]
    /\ origin' = [origin EXCEPT ![a] = [document |-> p.document, items |-> p.items,
                                        build |-> build]]
    /\ UNCHANGED <<build, now, ask, asked, due, log>>

\* record_awaiting_approval_result parks the job: the row becomes visible.
Park(a) ==
    /\ rows[a].status = "pending" /\ rows[a].job /\ ~rows[a].parked
    /\ rows' = [rows EXCEPT ![a].parked = TRUE]
    /\ UNCHANGED <<origin, build, now, ask, asked, due, log>>

\* GET /v1/approvals/{id}: the operator remembers the build that said the row
\* is executable, 0 when it is not.
View(o, a) ==
    /\ ask[o].pc \in {"idle", "viewed"}
    /\ Published(rows[a])
    /\ ask' = [ask EXCEPT ![o] =
                  [Idle EXCEPT !.pc = "viewed", !.on = a,
                               !.saw = IF Executable(rows[a], build) THEN build ELSE 0]]
    /\ UNCHANGED <<rows, origin, build, now, asked, due, log>>

\* POST .../decide arrives: _now() is read before the row is locked.
Ask(o, want) ==
    /\ ask[o].pc = "viewed"
    /\ asked[o] < MaxAsks
    /\ ask' = [ask EXCEPT ![o].pc = "asked", ![o].want = want, ![o].at = now]
    /\ asked' = [asked EXCEPT ![o] = @ + 1]
    /\ UNCHANGED <<rows, origin, build, now, due, log>>

\* _is_same_final_decision.
SameFinal(status, want) == status = "approved" <=> want = "approve"

\* Frozen arguments and fields are taken as they were when they were frozen.
VerdictFault(o) ==
    LET r == rows[ask[o].on]
    IN  IF ~Published(r) THEN "not_found"
        ELSE IF ~r.job \/ r.expires = NoDeadline THEN "legacy"
        ELSE IF ~Resolves(build) THEN "unavailable"
        ELSE IF r.status \in Final
             THEN IF SameFinal(r.status, ask[o].want) THEN "reused" ELSE "decided"
        ELSE IF r.expires <= ask[o].at THEN "expired"
        ELSE IF ask[o].want = "reject" THEN "rejected"
        ELSE IF r.version # Caps(build).version THEN "invalid_action"
        ELSE "approved"

\* The checks of decide, in their order.
Verdict(o) ==
    LET r == rows[ask[o].on]
        c == Caps(build)
    IN  IF ~Published(r) THEN "not_found"
        ELSE IF ~r.job \/ r.expires = NoDeadline THEN "legacy"
        ELSE IF ~Resolves(build) THEN "unavailable"
        ELSE IF r.status \in Final
             THEN IF SameFinal(r.status, ask[o].want) THEN "reused" ELSE "decided"
        ELSE IF r.expires <= ask[o].at THEN "expired"
        ELSE IF ask[o].want = "reject" THEN "rejected"
        ELSE IF ~c.registered \/ r.version # c.version \/ ~c.arguments THEN "invalid_action"
        ELSE IF ~Available(build) THEN "unauthorized"
        ELSE IF ~FrozenValid(r.known, build) THEN "invalid_fields"
        ELSE "approved"

\* The transaction ended: what is still to be emitted and answered.
Committed(o, answer, emits) ==
    ask' = [ask EXCEPT ![o].pc = "committed", ![o].answer = answer, ![o].emits = emits]

\* An exception inside the transaction rolls it back.
Refuse(o) ==
    /\ ask[o].pc = "asked"
    /\ Verdict(o) \in {"not_found", "legacy", "unavailable", "decided", "invalid_action",
                       "unauthorized", "invalid_fields"}
    /\ Committed(o, "conflict", {})
    /\ UNCHANGED <<rows, origin, build, now, asked, due, log>>

Reuse(o) ==
    /\ ask[o].pc = "asked"
    /\ Verdict(o) = "reused"
    /\ Committed(o, rows[ask[o].on].status, {})
    /\ UNCHANGED <<rows, origin, build, now, asked, due, log>>

\* expire_locked.
Expired(r) == [r EXCEPT !.status = "expired", !.by = System]

\* The transition is committed before an approve request is told of it.
ExpireOnDecide(o) ==
    /\ ask[o].pc = "asked"
    /\ Verdict(o) = "expired"
    /\ rows' = [rows EXCEPT ![ask[o].on] = Expired(@)]
    /\ Committed(o, IF ask[o].want = "reject" THEN "expired" ELSE "conflict", {"expired"})
    /\ UNCHANGED <<origin, build, now, asked, due, log>>

Decide(o) ==
    /\ ask[o].pc = "asked"
    /\ Verdict(o) \in {"approved", "rejected"}
    /\ rows' = [rows EXCEPT ![ask[o].on].status = Verdict(o), ![ask[o].on].by = o]
    /\ Committed(o, Verdict(o), IF Verdict(o) = "approved" THEN {"executed"} ELSE {})
    /\ UNCHANGED <<origin, build, now, asked, due, log>>

ExecutorFailsFault(o) ==
    /\ ask[o].pc = "asked"
    /\ Verdict(o) = "approved"
    /\ Committed(o, "error", {"executed"})
    /\ UNCHANGED <<rows, origin, build, now, asked, due, log>>

\* The executor raises: the customer or case is gone, the source snapshot is
\* unreadable, a handler is missing.  The client gets a 500.
ExecutorFails(o) ==
    /\ ask[o].pc = "asked"
    /\ Verdict(o) = "approved"
    /\ Committed(o, "error", {})
    /\ UNCHANGED <<rows, origin, build, now, asked, due, log>>

Emit(a, E) == log' = [log EXCEPT ![a] = [e \in Events |-> IF e \in E THEN @[e] + 1 ELSE @[e]]]

\* The events are emitted, then the answer is sent.
Reply(o) ==
    /\ ask[o].pc = "committed"
    /\ Emit(ask[o].on, ask[o].emits)
    /\ ask' = [ask EXCEPT ![o] = Idle]
    /\ UNCHANGED <<rows, origin, build, now, asked, due>>

\* The API process dies before the transaction or after it: the events of a
\* committed decision are lost with the answer.
Abandon(o) ==
    /\ ask[o].pc \in {"asked", "committed"}
    /\ ask' = [ask EXCEPT ![o] = Idle]
    /\ UNCHANGED <<rows, origin, build, now, asked, due, log>>

OverdueFault(a) ==
    /\ rows[a].status = "pending"
    /\ rows[a].job => rows[a].parked
    /\ rows[a].expires # NoDeadline /\ rows[a].expires <= now
    /\ Resolves(build)

\* Rows expire_due selects.  A deadline is enough: no profile is resolved.
Overdue(a) ==
    /\ rows[a].status = "pending"
    /\ rows[a].job => rows[a].parked
    /\ rows[a].expires # NoDeadline /\ rows[a].expires <= now

\* expire_due: SKIP LOCKED passes over rows whose decide request holds the
\* lock.  A row without a job is expired without an event.
Sweep ==
    /\ due = {}
    /\ \E locked \in SUBSET {ask[o].on : o \in {x \in Operators : ask[x].pc = "asked"}} :
           LET batch == FirstOf({a \in Approvals \ locked : Overdue(a)}, SweepLimit)
           IN  /\ batch # {}
               /\ rows' = [a \in Approvals |-> IF a \in batch THEN Expired(rows[a]) ELSE rows[a]]
               /\ due' = {a \in batch : rows[a].job}
    /\ UNCHANGED <<origin, build, now, ask, asked, log>>

\* _emit_expired_approval.
Report(a) ==
    /\ a \in due
    /\ due' = due \ {a}
    /\ Emit(a, {"expired"})
    /\ UNCHANGED <<rows, origin, build, now, ask, asked>>

\* The worker dies before it has reported them all.
WorkerDies ==
    /\ due # {}
    /\ due' = {}
    /\ UNCHANGED <<rows, origin, build, now, ask, asked, log>>

Redeploy(b) ==
    /\ build' = b
    /\ b # build
    /\ UNCHANGED <<rows, origin, now, ask, asked, due, log>>

Tick ==
    /\ now < MaxTime
    /\ now' = now + 1
    /\ UNCHANGED <<rows, origin, build, ask, asked, due, log>>

Decision(o) == Refuse(o) \/ Reuse(o) \/ ExpireOnDecide(o) \/ Decide(o) \/ ExecutorFails(o)

Next ==
    \/ \E a \in Approvals, p \in Proposals : Request(a, p)
    \/ \E a \in Approvals : Park(a) \/ Report(a)
    \/ \E o \in Operators, a \in Approvals : View(o, a)
    \/ \E o \in Operators, want \in {"approve", "reject"} : Ask(o, want)
    \/ \E o \in Operators : Decision(o) \/ Reply(o) \/ Abandon(o)
    \/ Sweep
    \/ WorkerDies
    \/ \E b \in DOMAIN Builds : Redeploy(b)
    \/ Tick

\* Every worker sweeps before it claims a job, and the clock runs.  Nothing makes
\* an operator decide, a request complete or a deployment come back.
Spec == Init /\ [][Next]_vars

FairSpec ==
    /\ Spec
    /\ WF_vars(Tick) /\ WF_vars(Sweep)
    /\ WF_vars(WorkerDies \/ \E a \in Approvals : Report(a))

-----------------------------------------------------------------------------
(* Properties.                                                             *)

\* The values that the columns allow, and what a request or an operator knows.
Knowns  == UNION {[D -> Values] : D \in SUBSET Names}
Rows    == [status : Statuses, job : BOOLEAN, parked : BOOLEAN,
            expires : {NoDeadline} \cup 0 .. MaxTime + TTL, version : Nat,
            known : Knowns, by : Operators \cup {Nobody, System}]
Origins == [document : BOOLEAN, items : SUBSET Items, build : DOMAIN Builds \cup {0}]
Asks    == [pc : {"idle", "viewed", "asked", "committed"}, on : Approvals \cup {0},
            want : {"none", "approve", "reject"}, at : 0 .. MaxTime,
            saw : DOMAIN Builds \cup {0},
            answer : {"none", "conflict", "error"} \cup Final, emits : SUBSET Events]

\* TypeOK: types of the variables; only the legacy rows have no job.
TypeOK ==
    /\ rows \in [Approvals -> Rows]
    /\ \A a \in Approvals : rows[a].job = (a \notin Legacy)
    /\ origin \in [Approvals -> Origins]
    /\ build \in DOMAIN Builds
    /\ now \in 0 .. MaxTime
    /\ ask \in [Operators -> Asks]
    /\ \A o \in Operators : ask[o].pc # "idle" => ask[o].on \in Approvals
    /\ asked \in [Operators -> 0 .. MaxAsks]
    /\ due \subseteq Approvals
    /\ log \in [Approvals -> [Events -> Nat]]

\* FreshIsExecutable: what the worker's validation froze, the operator's
\* revalidation accepts, as long as the same build is running: fields that
\* needed an excerpt from a document are frozen without it, so the second
\* validation has less to go by than the first.
FreshIsExecutable ==
    \A a \in Approvals :
        rows[a].status = "pending" /\ rows[a].job /\ origin[a].build = build
            => Executable(rows[a], build)

\* KnownIsQuoted: every frozen value was proposed for that field, and when the
\* intake has a document it stands in the source the model named, body text
\* taking precedence over the document (field_values.py, "apply body
\* precedence").
KnownIsQuoted ==
    \A a \in Approvals : \A n \in DOMAIN rows[a].known :
        \E i \in origin[a].items :
            /\ i.name = n /\ i.value = rows[a].known[n]
            /\ origin[a].document =>
                  /\ i.quoted /\ i.found # {}
                  /\ i.source # "unsaid" => i.source \in i.found
            /\ (\E k \in origin[a].items :
                    /\ k.name = n /\ k.value # Blank /\ k.quoted
                    /\ k.source # "document" /\ "body" \in k.found)
                  => i.source # "document" /\ (i.quoted => "body" \in i.found)

\* FrozenIsSound: what the worker freezes for the operator was quoted, and is still
\* accepted when the operator decides.
FrozenIsSound == FreshIsExecutable /\ KnownIsQuoted

\* EventsMatchRows: an executed or expired event is emitted at most once, only
\* for a row that was committed with that status, and never for a row that has
\* no job; a crash can lose an event, never invent one (and the variables have
\* their types).
EventsMatchRows ==
    /\ TypeOK
    /\ \A a \in Approvals :
        /\ \A e \in Events : log[a][e] <= 1
        /\ log[a]["executed"] = 1 => rows[a].status = "approved" /\ rows[a].job
        /\ log[a]["expired"] = 1 => rows[a].status = "expired" /\ rows[a].job

\* PageIsHonest: whatever limit is asked for, a page that says it is the last
\* one hides no row, and a row that is left out does not expire before one
\* that is shown.
PageIsHonest ==
    \A s \in Statuses \ {"none"}, limit \in 0 .. Cardinality(Approvals) + 1 :
        LET shown == Page(s, limit)
            all   == {a \in Approvals : rows[a].status = s /\ Published(rows[a])}
        IN  /\ shown.items \subseteq all
            /\ shown.items = {} => all = {}
            /\ shown.more <=> shown.items # all
            /\ \A a \in all \ shown.items, c \in shown.items : Before(c, a)

\* OnlyOfferedIsExecuted: no approval executes an action that the review, at
\* that moment, would not have offered as executable: the projection and the
\* decision check the same things in different code.
OnlyOfferedIsExecuted ==
    [][\A a \in Approvals :
           rows[a].status = "pending" /\ rows'[a].status = "approved"
               => Executable(rows[a], build)]_vars

\* RefusalIsExplained: an operator who approves what the running build showed
\* as executable is refused only because someone else decided or the deadline
\* passed meanwhile, or because the row was frozen for another version of the
\* action, which the projection does not look at.
RefusalIsExplained ==
    [][\A o \in Operators :
           (/\ ask[o].pc = "asked" /\ ask'[o].pc = "committed"
            /\ ask[o].want = "approve" /\ ask[o].saw = build
            /\ ask'[o].answer = "conflict")
               => \/ rows[ask[o].on].status # "pending"
                  \/ rows[ask[o].on].expires <= ask[o].at
                  \/ rows[ask[o].on].version # Caps(build).version]_vars

\* DeadlineDecides: a published row that has a deadline does not stay pending,
\* even when no build that is ever deployed again resolves its profile, in
\* which case neither decision is possible and only the sweep can end it.
DeadlineDecides ==
    \A a \in Approvals :
        (Published(rows[a]) /\ rows[a].expires # NoDeadline /\ rows[a].expires <= MaxTime)
            ~> rows[a].status \in Final

-----------------------------------------------------------------------------
(* The inductive invariant behind the safety properties, in parts.         *)

\* The status of a row of which the event tells.
StatusOf(e) == IF e = "executed" THEN "approved" ELSE "expired"

\* The event can still be emitted for the row.
Unreported(a, e) == rows[a].status = StatusOf(e) /\ rows[a].job /\ log[a][e] = 0

\* Every event is owed by one request or by the sweep, to a row that was
\* committed with its status, and not yet emitted.
EventsOwed ==
    /\ \A o \in Operators :
          /\ ask[o].pc # "committed" => ask[o].emits = {}
          /\ \A e \in ask[o].emits : Unreported(ask[o].on, e)
    /\ \A o, x \in Operators :
          o # x /\ ask[o].on = ask[x].on => ask[o].emits \cap ask[x].emits = {}
    /\ \A a \in due :
          /\ Unreported(a, "expired")
          /\ \A o \in Operators : ask[o].on = a => "expired" \notin ask[o].emits

\* Build b takes what is frozen in r.
Takes(r, b) ==
    /\ b \in DOMAIN Builds /\ Resolves(b)
    /\ Caps(b).registered /\ Caps(b).arguments
    /\ FrozenInvalid(r.known, b) = {}

\* The build that froze a row takes it, and so does the one that offered it.
Frozen ==
    /\ \A a \in Approvals :
          rows[a].status # "none" /\ rows[a].job => Takes(rows[a], origin[a].build)
    /\ KnownIsQuoted

Offered ==
    \A o \in Operators :
        ask[o].pc \in {"viewed", "asked"} /\ ask[o].saw # 0 =>
            /\ rows[ask[o].on].job /\ Published(rows[ask[o].on])
            /\ Takes(rows[ask[o].on], ask[o].saw)

IInv == EventsMatchRows /\ EventsOwed /\ Frozen /\ Offered
=============================================================================
