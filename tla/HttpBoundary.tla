---------------------------- MODULE HttpBoundary ----------------------------
(***************************************************************************)
(* The way of a POST request through the API process, from the first byte  *)
(* to the completion event: ObservabilityMiddleware (trace, one event per  *)
(* request), RequestBodyLimitMiddleware, the credential checks of the      *)
(* intake route and of the signed email webhook, the validation of the     *)
(* payload, the hand-over to the intake service, and the answer.           *)
(*                                                                         *)
(* Requests run concurrently with each other, with the rotation of keys    *)
(* and the suspension of tenants, and with a clock.  IntakeIdempotency has *)
(* the transactions of the hand-over; here it is one step.                 *)
(***************************************************************************)
EXTENDS Integers, Sequences

CONSTANTS Requests,     \* identities; also the provisional trace ids
          Tenants,
          Keys,         \* raw API keys
          Holder,       \* [Keys -> Tenants]
          Principal,    \* [Keys -> {"service", "operator"}]
          Kinds,        \* [Requests -> what its client may send]
          Limit,        \* [Routes -> largest body], in chunk units
          Window,       \* MAX_SIGNATURE_AGE_SECONDS
          MaxTime       \* bound on the clock

Routes == {"intake", "webhook"}

\* An attribute that is absent or unreadable.
None == "none"

\* What a request carries.  signed: the body its signature was computed over.
IsKind(q) ==
    /\ q.route \in Routes
    /\ q.key \in Keys \cup {None}
    /\ q.declared \in Int                   \* Content-Length, -1 when absent
    /\ q.chunks \in Seq(Nat)
    /\ q.signature \in {"absent", "garbled", "present"}
    /\ q.stamp \in Int
    /\ q.json \in BOOLEAN /\ q.fields \in BOOLEAN /\ q.header \in BOOLEAN

ASSUME BoundaryAssumption ==
    /\ Requests \subseteq Nat \ {0}
    /\ Holder \in [Keys -> Tenants]
    /\ Principal \in [Keys -> {"service", "operator"}]
    /\ \A r \in Requests : Kinds[r] # {} /\ \A q \in Kinds[r] : IsKind(q)
    /\ Limit \in [Routes -> Nat]
    /\ Window \in Nat /\ MaxTime \in Nat
    /\ None \notin Keys

VARIABLES
    req,      \* each request: where it is, what it has read, its context
    issued,   \* api_keys rows
    active,   \* those with is_active
    working,  \* tenants with status active
    jobs,     \* [<<tenant, idempotency key>> -> the job it names]
    now,
    event,    \* completion events of each request, in order
    reply     \* what the client of each request received

vars == <<req, issued, active, working, jobs, now, event, reply>>

Slots == Tenants \X UNION {{q.idem : q \in Kinds[r]} : r \in Requests}
NoJob == [trace |-> 0, content |-> None, by |-> 0]
NoReply == [status |-> 0, trace |-> 0]

Unsent(r) ==
    [pc |-> "unsent", kind |-> CHOOSE q \in Kinds[r] : TRUE, total |-> 0, read |-> 0,
     tenant |-> None, trace |-> 0, status |-> 500, lived |-> FALSE]

\* History: the key entitles its holder under these keys and tenants.
Valid(k, keys, tenants) ==
    k # None /\ k \in keys /\ Principal[k] = "service" /\ Holder[k] \in tenants

-----------------------------------------------------------------------------
(* The checks, as functions of the request and of what is read.            *)

ResolvesFault(k) == k \in issued /\ Principal[k] = "service" /\ Holder[k] \in working

\* _resolve_active_tenant: an active service key of an active tenant.
Resolves(k) == k \in active /\ Principal[k] = "service" /\ Holder[k] \in working

SignatureOutcomeFault(q) ==
    IF q.signature = "absent" THEN "missing"
    ELSE IF q.signature = "garbled" THEN "malformed"
    ELSE IF q.stamp - now > Window \/ now - q.stamp > Window THEN "stale"
    ELSE "verified"

\* inbound_signature_outcome.  A timestamp that is no number is malformed too.
SignatureOutcome(q) ==
    IF q.signature = "absent" THEN "missing"
    ELSE IF q.signature = "garbled" THEN "malformed"
    ELSE IF q.stamp - now > Window \/ now - q.stamp > Window THEN "stale"
    ELSE IF q.signed # <<q.key, q.content>> THEN "mismatch"
    ELSE "verified"

\* receive_email_webhook: the Content-Type, then WebhookEmailPayload and
\* to_message.
WebhookRejection(q) ==
    IF ~q.header THEN 415 ELSE IF ~q.json \/ ~q.fields THEN 422 ELSE 0

\* enqueue_intake: CreateIntakeRequest, then the Idempotency-Key header.
IntakeRejection(q) == IF q.fields /\ q.header THEN 0 ELSE 422

\* What stands between an authenticated request and the intake service.
Rejection(q) == IF q.route = "webhook" THEN WebhookRejection(q) ELSE IntakeRejection(q)

\* The idempotency record the request is about.  InboundIntakeService makes the
\* key of a delivery from its provider id; an intake client chooses its own,
\* out of the same keys.
SlotOf(r) == <<req[r].tenant, req[r].kind.idem>>

-----------------------------------------------------------------------------

Init ==
    /\ req = [r \in Requests |-> Unsent(r)]
    /\ issued = {} /\ active = {} /\ working = {}
    /\ jobs = [s \in Slots |-> NoJob]
    /\ now = 0
    /\ event = [r \in Requests |-> << >>]
    /\ reply = [r \in Requests |-> NoReply]

\* The application answers with a status; the response is still to be sent.
Answer(r, s) == req' = [req EXCEPT ![r].pc = "answer", ![r].status = s]

Goto(r, pc) == req' = [req EXCEPT ![r].pc = pc]

\* ObservabilityMiddleware gives the request a trace of its own, whatever the
\* client sent.
Arrive(r, q) ==
    /\ req[r].pc = "unsent"
    /\ req' = [req EXCEPT ![r] = [Unsent(r) EXCEPT !.pc = "limit", !.kind = q, !.trace = r,
                                                   !.lived = Valid(q.key, active, working)]]
    /\ UNCHANGED <<issued, active, working, jobs, now, event, reply>>

\* RequestBodyLimitMiddleware: a declared length above the limit is refused
\* unread.  The webhook looks at the key's form before it reads; the intake
\* route's body is read by the framework before any dependency runs.
Enter(r) ==
    LET q == req[r].kind
    IN  /\ req[r].pc = "limit"
        /\ IF q.declared > Limit[q.route] THEN Answer(r, 413)
           ELSE IF q.route = "webhook" /\ q.key = None THEN Answer(r, 401)
           ELSE Goto(r, "read")
        /\ UNCHANGED <<issued, active, working, jobs, now, event, reply>>

FitsFault(q, total) == q.declared # -1 \/ total <= Limit[q.route]

\* limited_receive: the count of what has arrived, whatever was declared.
Fits(q, total) == total <= Limit[q.route]

\* One chunk is received.  The exception reaches the middleware from the
\* webhook's own reader; from the framework's reader it may come as a 400.
Receive(r) ==
    LET q == req[r].kind
        i == req[r].read + 1
    IN  /\ req[r].pc = "read" /\ i \in DOMAIN q.chunks
        /\ IF Fits(q, req[r].total + q.chunks[i])
           THEN req' = [req EXCEPT ![r].read = i, ![r].total = @ + q.chunks[i]]
           ELSE \E s \in {413} \cup (IF q.route = "intake" THEN {400} ELSE {}) : Answer(r, s)
        /\ UNCHANGED <<issued, active, working, jobs, now, event, reply>>

\* The body is complete: the webhook verifies its signature, the intake route
\* has it parsed and looks at the form of the key.
Verify(r) ==
    LET q == req[r].kind
    IN  /\ req[r].pc = "read" /\ req[r].read = Len(q.chunks)
        /\ IF q.route = "webhook" /\ SignatureOutcome(q) # "verified" THEN Answer(r, 401)
           ELSE IF q.route = "intake" /\ ~q.json THEN Answer(r, 422)
           ELSE IF q.key = None THEN Answer(r, 401)
           ELSE Goto(r, "auth")
        /\ UNCHANGED <<issued, active, working, jobs, now, event, reply>>

\* get_current_tenant and get_current_inbound_tenant read the credential in a
\* transaction of their own.
Authenticate(r) ==
    LET q == req[r].kind
    IN  /\ req[r].pc = "auth"
        /\ IF Resolves(q.key)
           THEN req' = [req EXCEPT ![r].pc = "route", ![r].tenant = Holder[q.key]]
           ELSE Answer(r, 401)
        /\ UNCHANGED <<issued, active, working, jobs, now, event, reply>>

CheckPayload(r) ==
    LET q == req[r].kind
    IN  /\ req[r].pc = "route"
        /\ IF Rejection(q) = 0 THEN Goto(r, "enqueue") ELSE Answer(r, Rejection(q))
        /\ UNCHANGED <<issued, active, working, jobs, now, event, reply>>

\* The job the answer is about; bind_request_context gives the request the
\* root trace of that job.
BindFault(r, trace) == req' = [req EXCEPT ![r].pc = "answer", ![r].status = 202]

Bind(r, trace) == req' = [req EXCEPT ![r].pc = "answer", ![r].status = 202, ![r].trace = trace]

\* IntakeEnqueueService: a new job, the job the key already names, a conflict
\* when the content differs, or an unavailable profile or normalizer.
Enqueue(r) ==
    LET q == req[r].kind
        s == SlotOf(r)
    IN  /\ req[r].pc = "enqueue"
        /\ \/ /\ jobs[s] = NoJob
              /\ jobs' = [jobs EXCEPT ![s] = [trace |-> req[r].trace, content |-> q.content,
                                              by |-> r]]
              /\ Bind(r, req[r].trace)
           \/ /\ jobs[s] # NoJob /\ jobs[s].content = q.content
              /\ UNCHANGED jobs
              /\ Bind(r, jobs[s].trace)
           \/ /\ jobs[s] # NoJob /\ jobs[s].content # q.content
              /\ UNCHANGED jobs
              /\ Answer(r, 409)
           \/ /\ UNCHANGED jobs
              /\ \E status \in {422, 503} : Answer(r, status)
        /\ UNCHANGED <<issued, active, working, now, event, reply>>

CompleteFault(r) ==
    /\ req[r].pc = "sent"
    /\ event' = [event EXCEPT ![r] = Append(@, [status |-> req[r].status, trace |-> r])]
    /\ Goto(r, "done")
    /\ UNCHANGED <<issued, active, working, jobs, now, reply>>

\* send_with_trace: the header is the trace of the context at that moment.
Respond(r) ==
    /\ req[r].pc = "answer"
    /\ reply' = [reply EXCEPT ![r] = [status |-> req[r].status, trace |-> req[r].trace]]
    /\ Goto(r, "sent")
    /\ UNCHANGED <<issued, active, working, jobs, now, event>>

\* An exception no handler knows (the database is gone, the client hangs up
\* while it sends the body).  The answer is made outside both middlewares.
Raise(r) ==
    /\ req[r].pc \in {"read", "auth", "enqueue"}
    /\ req' = [req EXCEPT ![r].pc = "sent", ![r].status = 500]
    /\ reply' = [reply EXCEPT ![r] = [status |-> 500, trace |-> 0]]
    /\ UNCHANGED <<issued, active, working, jobs, now, event>>

CancelFault(r) ==
    /\ req[r].pc \in {"limit", "read", "auth", "route", "enqueue", "answer"}
    /\ req' = [req EXCEPT ![r].pc = "done"]
    /\ UNCHANGED <<issued, active, working, jobs, now, event, reply>>

\* The task is cancelled when the server shuts down: no answer, and the event
\* tells the initial 500 unless a response was started.
Cancel(r) ==
    /\ req[r].pc \in {"limit", "read", "auth", "route", "enqueue", "answer"}
    /\ req' = [req EXCEPT ![r].pc = "sent", ![r].status = 500]
    /\ UNCHANGED <<issued, active, working, jobs, now, event, reply>>

\* The finally clause: one event, with the last status and the last context.
Complete(r) ==
    /\ req[r].pc = "sent"
    /\ event' = [event EXCEPT ![r] = Append(@, [status |-> req[r].status,
                                                trace |-> req[r].trace])]
    /\ Goto(r, "done")
    /\ UNCHANGED <<issued, active, working, jobs, now, reply>>

-----------------------------------------------------------------------------
(* Keys, tenants, time.                                                    *)

\* A request that waits is entitled from the moment its key becomes valid.
Entitle == [r \in Requests |->
               [req[r] EXCEPT !.lived =
                   \/ @
                   \/ /\ req[r].pc \notin {"unsent", "done"}
                      /\ Valid(req[r].kind.key, active', working')]]

\* Active keys of the same holder and kind are deactivated, and k is added.
Replace(k) ==
    /\ k \notin issued
    /\ issued' = issued \cup {k}
    /\ active' = {k} \cup {x \in active : Holder[x] # Holder[k] \/ Principal[x] # Principal[k]}
    /\ req' = Entitle
    /\ UNCHANGED <<jobs, now, event, reply>>

\* seed_demo_tenant creates or reactivates the tenant and rotates its key.
SeedTenant(k) ==
    /\ Principal[k] = "service"
    /\ working' = working \cup {Holder[k]}
    /\ Replace(k)

\* seed_operator_key needs an active tenant.
SeedOperator(k) ==
    /\ Principal[k] = "operator"
    /\ Holder[k] \in working
    /\ UNCHANGED working
    /\ Replace(k)

\* The operator of the service suspends a tenant.
Suspend(t) ==
    /\ t \in working
    /\ working' = working \ {t}
    /\ UNCHANGED <<req, issued, active, jobs, now, event, reply>>

Tick ==
    /\ now < MaxTime
    /\ now' = now + 1
    /\ UNCHANGED <<req, issued, active, working, jobs, event, reply>>

Step(r) ==
    \/ Enter(r) \/ Receive(r) \/ Verify(r) \/ Authenticate(r) \/ CheckPayload(r)
    \/ Enqueue(r) \/ Respond(r) \/ Complete(r)

Next ==
    \/ \E r \in Requests : \E q \in Kinds[r] : Arrive(r, q)
    \/ \E r \in Requests : Step(r) \/ Raise(r) \/ Cancel(r)
    \/ \E k \in Keys : SeedTenant(k) \/ SeedOperator(k)
    \/ \E t \in Tenants : Suspend(t)
    \/ Tick

Spec == Init /\ [][Next]_vars

\* A client sends the body it began or hangs up, and the event loop runs every
\* handler on.
FairSpec == Spec /\ \A r \in Requests : WF_vars(Step(r))

-----------------------------------------------------------------------------
(* Properties.                                                             *)

\* The values of a request's columns and of what is recorded of it.
Places   == {"unsent", "limit", "read", "auth", "route", "enqueue", "answer", "sent", "done"}
Statuses == {202, 400, 401, 409, 413, 415, 422, 500, 503}
Traces   == Requests \cup {0}
AllKinds == UNION {Kinds[r] : r \in Requests}
Exchanges == [pc : Places, kind : AllKinds, total : Nat, read : Nat, tenant : Tenants \cup {None},
              trace : Traces, status : Statuses, lived : BOOLEAN]
Records  == [trace : Traces, content : {None} \cup {q.content : q \in AllKinds}, by : Traces]

\* TypeOK: types of a request's variables, and the statuses the API answers with.
TypeOK ==
    /\ req \in [Requests -> Exchanges]
    /\ \A r \in Requests : /\ req[r].kind \in Kinds[r]
                           /\ req[r].read <= Len(req[r].kind.chunks)
    /\ active \subseteq issued /\ issued \subseteq Keys /\ working \subseteq Tenants
    /\ jobs \in [Slots -> Records]
    /\ now \in 0 .. MaxTime
    /\ event \in [Requests -> Seq([status : Statuses, trace : Traces])]
    /\ reply \in [Requests -> [status : Statuses \cup {0}, trace : Traces]]

\* BodyStaysBounded: no request, on either route and whatever length it
\* declares, has more of its body buffered than its limit, and none whose body
\* exceeds it reaches the credential check, let alone becomes a job (and the
\* variables have their types).
BodyStaysBounded ==
    /\ TypeOK
    /\ \A r \in Requests :
        /\ req[r].total <= Limit[req[r].kind.route]
        /\ req[r].pc \in {"auth", "route", "enqueue"} \/ req[r].status = 202
               => req[r].read = Len(req[r].kind.chunks)

\* JobIsEntitled: a job exists only for a request whose key was a valid service
\* key of that tenant at some moment of the request, so a rotated key or a
\* suspended tenant stops every later request, and, through the webhook, whose
\* very body that key had signed.
JobIsEntitled ==
    \A s \in Slots :
        jobs[s] # NoJob =>
            LET r == jobs[s].by
                q == req[r].kind
            IN  /\ req[r].lived /\ Holder[q.key] = s[1]
                /\ q.route = "webhook" => q.signed = <<q.key, jobs[s].content>>
                /\ jobs[s].content = q.content /\ q.idem = s[2]

\* TraceNamesJob: every accepted answer names, in X-Trace-ID, the root trace of
\* the one job its key has, made from the content it sent, whichever route it
\* came by and whoever created the job (README: "Idempotent duplicates reuse
\* that job trace").
TraceNamesJob ==
    \A r \in Requests :
        reply[r].status = 202 =>
            LET s == SlotOf(r)
            IN  /\ jobs[s] # NoJob /\ reply[r].trace = jobs[s].trace
                /\ jobs[s].content = req[r].kind.content

\* OneTrueEvent: a request is completed at most once, and when its client got
\* an answer the event tells that status and, for every answer the application
\* made, the trace that stands in its header.
OneTrueEvent ==
    \A r \in Requests :
        /\ Len(event[r]) <= 1
        /\ req[r].pc = "done" => Len(event[r]) = 1
        /\ event[r] # << >> /\ reply[r] # NoReply =>
              /\ event[r][1].status = reply[r].status
              /\ reply[r].trace # 0 => event[r][1].trace = reply[r].trace

\* RequestIsTraced: what the client was told and what was recorded of its request
\* name the same job, trace and status.
RequestIsTraced == TraceNamesJob /\ OneTrueEvent

\* EveryRequestCompletes: a request that arrived is completed with its event,
\* whatever is wrong with it.
EveryRequestCompletes ==
    \A r \in Requests : req[r].pc # "unsent" ~> Len(event[r]) = 1

-----------------------------------------------------------------------------
(* The inductive invariant behind the safety properties, in parts.         *)

\* Pending: the application has not answered.
Pending == {"unsent", "limit", "read", "auth", "route", "enqueue"}

\* What has been checked of a request by the time it is where it is; its key
\* entitles it from the first moment it is valid while the request lives.
Checked ==
    \A r \in Requests :
        LET q == req[r].kind
        IN  /\ req[r].pc \in Pending => req[r].status = 500
            /\ req[r].pc \notin {"unsent", "done"} /\ Valid(q.key, active, working) => req[r].lived
            /\ req[r].pc \in {"auth", "route", "enqueue"} /\ q.route = "webhook" =>
                  q.signed = <<q.key, q.content>>
            /\ req[r].pc \in {"route", "enqueue"} =>
                  req[r].lived /\ req[r].tenant = Holder[q.key] /\ req[r].tenant \in Tenants

\* A job has the key and the content of a request that has been answered.
Made ==
    \A s \in Slots :
        jobs[s] # NoJob => /\ jobs[s].by \in Requests
                           /\ req[jobs[s].by].pc \in {"answer", "sent", "done"}

\* An accepted request has the trace of the job in its slot.
Named ==
    \A r \in Requests :
        req[r].status = 202 =>
            /\ SlotOf(r) \in Slots /\ jobs[SlotOf(r)] # NoJob
            /\ req[r].trace = jobs[SlotOf(r)].trace
            /\ jobs[SlotOf(r)].content = req[r].kind.content

\* What a client was told, and what was recorded, is what the request knows.
Told ==
    \A r \in Requests :
        LET known == [status |-> req[r].status, trace |-> req[r].trace]
        IN  /\ req[r].pc \in Pending \cup {"answer"} => reply[r] = NoReply
            /\ \/ reply[r] = NoReply
               \/ reply[r] = known
               \/ reply[r] = [status |-> 500, trace |-> 0] /\ req[r].status = 500
            /\ event[r] = IF req[r].pc = "done" THEN <<known>> ELSE << >>

IInv == BodyStaysBounded /\ JobIsEntitled /\ Checked /\ Made /\ Named /\ Told
=============================================================================
