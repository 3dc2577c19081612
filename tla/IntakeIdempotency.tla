-------------------------- MODULE IntakeIdempotency --------------------------
(***************************************************************************)
(* Accepting intake under an Idempotency-Key: POST /v1/intake and the      *)
(* inbound email webhook, for any number of concurrent requests.           *)
(*                                                                         *)
(* A request is retried by a client as another request with the same key   *)
(* and content.  Statements run under READ COMMITTED: each sees what was   *)
(* committed before it, and an insert that collides with an uncommitted    *)
(* row waits for the transaction that owns that row.  A request creates at *)
(* most one job, so the job is named after the request.                    *)
(***************************************************************************)
EXTENDS Naturals, FiniteSets

CONSTANTS Requests,          \* requests, retries included
          Keys,              \* pairs of a tenant and an Idempotency-Key
          Contents,          \* what the caller sent
          ParseConcurrency   \* Settings.document_parse_concurrency

ASSUME ParserAssumption == ParseConcurrency \in Nat \ {0}

VARIABLES
    req,      \* the request: its key, its content, and whether it is a document
    pc,       \* how far its handler has come
    parsed,   \* what normalization made of its document
    parsing,  \* the requests whose normalizer thread is running
    recs,     \* idempotency_records, committed
    jobs,     \* agent_jobs, committed
    reply,    \* what the caller was answered
    told      \* the job the answer names, as a set

intakeVars == <<req, pc, parsed, parsing, recs, jobs, reply, told>>
-----------------------------------------------------------------------------
PC == {"start",    \* authenticated, body read
       "parse",    \* the document's key is new
       "parsing",  \* waiting for the normalizer thread
       "enqueue",  \* about to open the transaction of _enqueue
       "insert",   \* in that transaction, the key was not found
       "commit",   \* job and record inserted, not committed
       "reread",   \* IntegrityError, the savepoint is rolled back
       "done"}

Reply == {"none", "created", "reused", "conflict", "error"}

\* IntakeTypeOK: types of the requests and of the idempotency records.
IntakeTypeOK ==
    /\ req     \in [Requests -> [key : Keys, content : Contents, doc : BOOLEAN]]
    /\ pc      \in [Requests -> PC]
    /\ parsed  \in [Requests -> {"none", "ok", "timeout"}]
    /\ parsing \subseteq Requests
    /\ recs    \subseteq [key : Keys, hash : BOOLEAN \X Contents, job : Requests]
    /\ jobs    \subseteq Requests
    /\ reply   \in [Requests -> Reply]
    /\ told    \in [Requests -> SUBSET Requests]

IntakeInit ==
    /\ req     \in [Requests -> [key : Keys, content : Contents, doc : BOOLEAN]]
    /\ pc      = [r \in Requests |-> "start"]
    /\ parsed  = [r \in Requests |-> "none"]
    /\ parsing = {}
    /\ recs    = {}
    /\ jobs    = {}
    /\ reply   = [r \in Requests |-> "none"]
    /\ told    = [r \in Requests |-> {}]

-----------------------------------------------------------------------------
(* "...Fault" definitions are the same decision with a plausible mistake.  *)

RequestHashFault(r) == <<parsed[r] # "none", req[r].content>>

\* canonical_intake_hash, canonical_document_intake_hash: a digest of what the
\* caller sent.  For a document it covers the raw bytes, not what the
\* normalizer made of them.
RequestHash(r) == <<req[r].doc, req[r].content>>

\* get_idempotency_for_tenant, FOR UPDATE: records are never deleted and locked
\* only briefly, so the read finds the committed record if there is one.
Existing(r) == {x \in recs : x.key = req[r].key}

ReusableFault(r, x) == TRUE

\* _existing_result hands out the stored job only to the same request.
Reusable(r, x) == x.hash = RequestHash(r)

IndexFreeFault(r) == Existing(r) = {}

\* uq_idempotency_records_tenant_id_key: no transaction has an uncommitted
\* record with this key, and none is committed.
IndexFree(r) ==
    /\ Existing(r) = {}
    /\ \A q \in Requests : ~(pc[q] = "commit" /\ req[q].key = req[r].key)

CollidesFault2(r) == Existing(r) # {} /\ pc[r] # "insert"

\* The insert raises IntegrityError: the other record is committed by now.
Collides(r) == Existing(r) # {}

\* The handler ends with an answer that changes no table.
Answer(r, kind, job) ==
    /\ pc'    = [pc EXCEPT ![r] = "done"]
    /\ reply' = [reply EXCEPT ![r] = kind]
    /\ told'  = [told EXCEPT ![r] = job]
    /\ UNCHANGED <<req, parsed, parsing, recs, jobs>>

\* _existing_result: the stored job, or a conflict.
AnswerExisting(r) ==
    \E x \in Existing(r) :
        IF Reusable(r, x) THEN Answer(r, "reused", {x.job})
        ELSE Answer(r, "conflict", {})

\* The handler goes on, touching nothing else.
Proceed(r, to) ==
    /\ pc' = [pc EXCEPT ![r] = to]
    /\ UNCHANGED <<req, parsed, parsing, recs, jobs, reply, told>>

-----------------------------------------------------------------------------
(* Documents: enqueue_document before it reaches _enqueue.                 *)

\* _existing_document_result, a transaction of its own.
Probe(r) ==
    /\ pc[r] = "start" /\ req[r].doc
    /\ \/ AnswerExisting(r)
       \/ Existing(r) = {} /\ Proceed(r, "parse")

\* _normalize_document starts the normalizer thread.  The semaphore belongs to
\* the service, a service is built for each request, and ParseConcurrency is
\* at least one: the acquire never waits.
ParseStarts(r) ==
    /\ pc[r] = "parse"
    /\ pc'      = [pc EXCEPT ![r] = "parsing"]
    /\ parsing' = parsing \cup {r}
    /\ UNCHANGED <<req, parsed, recs, jobs, reply, told>>

\* The thread returns; if nobody waits for it any more the result is dropped.
ParseEnds(r) ==
    /\ r \in parsing
    /\ parsing' = parsing \ {r}
    /\ IF pc[r] = "parsing"
       THEN /\ pc'     = [pc EXCEPT ![r] = "enqueue"]
            /\ parsed' = [parsed EXCEPT ![r] = "ok"]
       ELSE UNCHANGED <<pc, parsed>>
    /\ UNCHANGED <<req, recs, jobs, reply, told>>

\* document_parse_timeout_seconds: the request goes on with an extraction
\* error, and the thread goes on too.
ParseTimeout(r) ==
    /\ pc[r] = "parsing"
    /\ pc'     = [pc EXCEPT ![r] = "enqueue"]
    /\ parsed' = [parsed EXCEPT ![r] = "timeout"]
    /\ UNCHANGED <<req, parsing, recs, jobs, reply, told>>

-----------------------------------------------------------------------------
(* _enqueue.                                                               *)

\* The transaction opens with a locking read of the key.
Lookup(r) ==
    /\ pc[r] = "enqueue" \/ (pc[r] = "start" /\ ~req[r].doc)
    /\ \/ AnswerExisting(r)
       \/ Existing(r) = {} /\ Proceed(r, "insert")

\* The savepoint inserts the job and its record, waiting for an uncommitted
\* record with the same key, and is rolled back if that one commits.
Insert(r) ==
    /\ pc[r] = "insert"
    /\ \/ IndexFree(r) /\ Proceed(r, "commit")
       \/ Collides(r)  /\ Proceed(r, "reread")

\* After the collision the key is read again.
Reread(r) ==
    /\ pc[r] = "reread"
    /\ IF Existing(r) = {} THEN Answer(r, "error", {}) ELSE AnswerExisting(r)

\* COMMIT.  The caller may lose the answer although the server committed.
Commit(r) ==
    /\ pc[r] = "commit"
    /\ recs' = recs \cup {[key |-> req[r].key, hash |-> RequestHash(r), job |-> r]}
    /\ jobs' = jobs \cup {r}
    /\ pc'   = [pc EXCEPT ![r] = "done"]
    /\ \/ /\ reply' = [reply EXCEPT ![r] = "created"]
          /\ told'  = [told EXCEPT ![r] = {r}]
       \/ /\ reply' = [reply EXCEPT ![r] = "error"]
          /\ told'  = told
    /\ UNCHANGED <<req, parsed, parsing>>

\* Any other exception: unknown profile, unsupported media type, statement or
\* lock timeout, lost connection, cancelled request.  Nothing is committed.
Fail(r) == pc[r] # "done" /\ Answer(r, "error", {})

Step(r) == \/ Probe(r) \/ ParseStarts(r) \/ ParseTimeout(r)
           \/ Lookup(r) \/ Insert(r) \/ Reread(r) \/ Commit(r)

IntakeNext == \E r \in Requests : Step(r) \/ ParseEnds(r) \/ Fail(r)

IntakeSpec == IntakeInit /\ [][IntakeNext]_intakeVars

\* Handlers are scheduled and the server answers; a normalizer thread may hang
\* for ever, and no request needs to fail.
FairIntake == IntakeSpec /\ \A r \in Requests : WF_intakeVars(Step(r))

-----------------------------------------------------------------------------
(* Properties.                                                             *)

\* OneJobPerKey: concurrent and retried requests under one key create at most
\* one job, and no job is committed without the record that names it, although
\* the key is looked up long before the insert.
OneJobPerKey ==
    /\ \A x, y \in recs : x.key = y.key => x = y
    /\ jobs = {x.job : x \in recs}

\* SameJobForSameKey: callers that are given a job under one key are given the
\* same committed job, and each of them sent the content the job was made from.
SameJobForSameKey ==
    \A r \in Requests : \A j \in told[r] :
        /\ j \in jobs /\ req[j] = req[r]
        /\ \A q \in Requests : req[q].key = req[r].key => told[q] \subseteq {j}

\* KeyIsIdempotent: a key stands for one job, in the tables and in what the callers
\* are told, however their requests overlap (IntakeEnqueueService._enqueue).
KeyIsIdempotent == OneJobPerKey /\ SameJobForSameKey

\* RetryNeverConflicts: 409 is only answered to a caller whose content differs
\* from that of the job under its key, never to a faithful retry, whatever the
\* normalizer did in each of the two attempts.
RetryNeverConflicts ==
    \A r \in Requests : reply[r] = "conflict" =>
        \E j \in jobs : req[j].key = req[r].key /\ req[j] # req[r]

\* CollisionHasWinner: the re-read after an IntegrityError finds the record
\* that won, so its "raise" branch is dead.
CollisionHasWinner ==
    \A r \in Requests : pc[r] = "reread" => Existing(r) # {}

\* EveryRequestAnswered: no caller waits for ever on the unique index or on a
\* normalizer that never returns.
EveryRequestAnswered ==
    \A r \in Requests : <>(pc[r] = "done")

\* ParserConcurrencyBounded: no more than document_parse_concurrency documents
\* are parsed at a time in one process.
ParserConcurrencyBounded == Cardinality(parsing) <= ParseConcurrency

\* What the handlers have reserved and not yet committed; with the types and the
\* properties above it makes the inductive invariant.
UncommittedIsAlone ==
    \A r \in Requests : pc[r] = "commit" =>
        /\ Existing(r) = {}
        /\ \A q \in Requests : pc[q] = "commit" /\ req[q].key = req[r].key => q = r

\* A record holds the key and the digest of the request that made its job.
RecordsAreTrue ==
    \A x \in recs : x.key = req[x.job].key /\ x.hash = RequestHash(x.job)

\* The jobs that callers were told are on record under their key.
ToldIsRecorded ==
    \A r \in Requests : \A j \in told[r] : j \in jobs /\ req[j] = req[r]

\* A conflict was answered from a record.
ConflictIsRecorded ==
    \A r \in Requests : reply[r] = "conflict" =>
        \E x \in recs : x.key = req[r].key /\ x.hash # RequestHash(r)

IntakeInv ==
    /\ IntakeTypeOK /\ OneJobPerKey /\ UncommittedIsAlone /\ RecordsAreTrue
    /\ ToldIsRecorded /\ ConflictIsRecorded /\ CollisionHasWinner
=============================================================================
