--------------------------- MODULE BoundaryProofs ---------------------------
(***************************************************************************)
(* The safety of HttpBoundary for every set of requests, keys, tenants,    *)
(* limits and bodies.  IInv is inductive; the proof states it once more,   *)
(* request by request and job by job (Parts), because a step changes one   *)
(* request: OneMoves says what the new value of that request must satisfy, *)
(* and each action shows that it does.                                     *)
(***************************************************************************)
EXTENDS HttpBoundary, TLAPS

(***************************************************************************)
(* The invariant, request by request.                                      *)
(***************************************************************************)

\* Over: places of a request that the application has answered.
Over == {"answer", "sent", "done"}

\* Sound: what one request may be, given the keys and tenants of the moment.
Sound(r, c, keys, tenants) ==
    /\ c \in Exchanges /\ c.kind \in Kinds[r] /\ c.read <= Len(c.kind.chunks)
    /\ c.total <= Limit[c.kind.route]
    /\ c.pc \in {"auth", "route", "enqueue"} \/ c.status = 202 => c.read = Len(c.kind.chunks)
    /\ c.pc \in Pending => c.status = 500
    /\ c.pc \notin {"unsent", "done"} /\ Valid(c.kind.key, keys, tenants) => c.lived
    /\ c.pc \in {"auth", "route", "enqueue"} /\ c.kind.route = "webhook" =>
          c.kind.signed = <<c.kind.key, c.kind.content>>
    /\ c.pc \in {"route", "enqueue"} =>
          c.lived /\ c.tenant = Holder[c.kind.key] /\ c.tenant \in Tenants

\* Accepted: an accepted request has the trace of the job in its slot.
Accepted(c, made) ==
    c.status = 202 => /\ <<c.tenant, c.kind.idem>> \in Slots
                      /\ made[<<c.tenant, c.kind.idem>>] # NoJob
                      /\ c.trace = made[<<c.tenant, c.kind.idem>>].trace
                      /\ made[<<c.tenant, c.kind.idem>>].content = c.kind.content

\* Recorded: what the client was told and what was recorded of the request.
Recorded(c, ev, rp) ==
    LET known == [status |-> c.status, trace |-> c.trace]
    IN  /\ c.pc \in Pending \cup {"answer"} => rp = NoReply
        /\ \/ rp = NoReply \/ rp = known
           \/ rp = [status |-> 500, trace |-> 0] /\ c.status = 500
        /\ ev = IF c.pc = "done" THEN <<known>> ELSE << >>

\* Owned: a job belongs to a request that was entitled to it and has been answered.
Owned(s, made, rs) ==
    made[s] # NoJob =>
        LET c == rs[made[s].by]
        IN  /\ made[s].by \in Requests /\ c.pc \in Over
            /\ c.lived /\ Holder[c.kind.key] = s[1]
            /\ c.kind.route = "webhook" => c.kind.signed = <<c.kind.key, made[s].content>>
            /\ made[s].content = c.kind.content /\ c.kind.idem = s[2]

\* Tables: the types that no single request has.
Tables ==
    /\ DOMAIN req = Requests
    /\ req = [r \in Requests |-> req[r]]
    /\ active \subseteq issued /\ issued \subseteq Keys /\ working \subseteq Tenants
    /\ jobs \in [Slots -> Records]
    /\ now \in 0 .. MaxTime
    /\ event \in [Requests -> Seq([status : Statuses, trace : Traces])]
    /\ reply \in [Requests -> [status : Statuses \cup {0}, trace : Traces]]

\* Parts: the invariant, request by request and job by job.
Parts ==
    /\ Tables
    /\ \A r \in Requests : /\ Sound(r, req[r], active, working)
                           /\ Accepted(req[r], jobs)
                           /\ Recorded(req[r], event[r], reply[r])
    /\ \A s \in Slots : Owned(s, jobs, req)

\* ByRequest: the parts make up the invariant.
LEMMA ByRequest == IInv <=> Parts
<1>1. ASSUME IInv
      PROVE  Parts
  <2>1. TypeOK /\ BodyStaysBounded /\ JobIsEntitled /\ Checked /\ Made /\ Named /\ Told
    BY <1>1 DEF IInv, BodyStaysBounded
  <2>2. Tables
    BY <2>1 DEF TypeOK, Tables
  <2>3. ASSUME NEW r \in Requests PROVE Sound(r, req[r], active, working)
    BY <2>1 DEF TypeOK, BodyStaysBounded, Checked, Sound
  <2>4. ASSUME NEW r \in Requests PROVE Accepted(req[r], jobs)
    BY <2>1 DEF Named, SlotOf, Accepted
  <2>5. ASSUME NEW r \in Requests PROVE Recorded(req[r], event[r], reply[r])
    BY <2>1 DEF Told, Recorded
  <2>6. ASSUME NEW s \in Slots PROVE Owned(s, jobs, req)
    BY <2>1 DEF JobIsEntitled, Made, Owned, Over
  <2>7. QED
    BY <2>2, <2>3, <2>4, <2>5, <2>6 DEF Parts
<1>2. ASSUME Parts
      PROVE  IInv
  <2>1. TypeOK
    BY <1>2 DEF Parts, TypeOK, Tables, Sound
  <2>2. BodyStaysBounded
    BY <1>2, <2>1 DEF Parts, BodyStaysBounded, Sound
  <2>3. Checked
    BY <1>2 DEF Parts, Checked, Sound
  <2>4. JobIsEntitled /\ Made
    BY <1>2 DEF Parts, JobIsEntitled, Made, Owned, Over
  <2>5. Named
    BY <1>2 DEF Parts, Named, SlotOf, Accepted
  <2>6. Told
    BY <1>2 DEF Parts, Told, Recorded
  <2>7. QED
    BY <2>1, <2>2, <2>3, <2>4, <2>5, <2>6 DEF IInv
<1>3. QED
  BY <1>1, <1>2

\* SlotFacts: what a kind of a request is, and that it has a slot with every tenant.
LEMMA SlotFacts ==
    ASSUME NEW r \in Requests, NEW q \in Kinds[r], NEW t \in Tenants
    PROVE  q \in AllKinds /\ IsKind(q) /\ <<t, q.idem>> \in Slots
<1>1. q \in AllKinds
  BY DEF AllKinds
<1>2. IsKind(q)
  BY BoundaryAssumption
<1> DEFINE own == {k.idem : k \in Kinds[r]}
<1>3. q.idem \in own /\ own \in {{k.idem : k \in Kinds[x]} : x \in Requests}
  BY Zenon
<1> HIDE DEF own
<1>4. \A S : \A T \in S : T \subseteq UNION S
  BY Zenon
<1>5. q.idem \in UNION {{k.idem : k \in Kinds[x]} : x \in Requests}
  BY <1>3, <1>4, Zenon
<1>6. QED
  BY <1>1, <1>2, <1>5 DEF Slots

\* OneStep: a step changes request r to c, which is sound; it is told what it
\* knows, keeps its kind and its entitlement once it is answered, and adds a
\* job only to its own empty slot, when it was about to be enqueued.
OneStep(r, c, ev, rp) ==
    /\ UNCHANGED <<issued, active, working, now>>
    /\ req' = [req EXCEPT ![r] = c]
    /\ Sound(r, c, active, working) /\ Accepted(c, jobs')
    /\ jobs' \in [Slots -> Records]
    /\ ev \in Seq([status : Statuses, trace : Traces]) /\ event' = [event EXCEPT ![r] = ev]
    /\ rp \in [status : Statuses \cup {0}, trace : Traces] /\ reply' = [reply EXCEPT ![r] = rp]
    /\ Recorded(c, ev, rp)
    /\ req[r].pc \in Over => c.pc \in Over /\ c.kind = req[r].kind /\ c.lived = req[r].lived
    /\ \A s \in Slots :
          \/ jobs'[s] = jobs[s]
          \/ /\ jobs[s] = NoJob /\ s = SlotOf(r) /\ req[r].pc = "enqueue"
             /\ jobs'[s].by = r /\ jobs'[s].content = c.kind.content
             /\ c.kind = req[r].kind /\ c.lived = req[r].lived /\ c.pc = "answer"

\* OneMoves: such a step keeps the invariant.
LEMMA OneMoves ==
    ASSUME IInv, NEW r \in Requests, NEW c, NEW ev, NEW rp, OneStep(r, c, ev, rp)
    PROVE  IInv'
<1> USE DEF OneStep
<1>1. /\ Tables
      /\ \A x \in Requests : /\ Sound(x, req[x], active, working)
                             /\ Accepted(req[x], jobs)
                             /\ Recorded(req[x], event[x], reply[x])
      /\ \A s \in Slots : Owned(s, jobs, req)
  BY ByRequest DEF Parts
<1>2. req'[r] = c /\ event'[r] = ev /\ reply'[r] = rp
  BY <1>1 DEF Tables
<1>3. \A x \in Requests \ {r} : req'[x] = req[x] /\ event'[x] = event[x] /\ reply'[x] = reply[x]
  BY <1>1 DEF Tables
<1>4. Tables'
  BY <1>1 DEF Tables
<1>5. \A s \in Slots : jobs[s] # NoJob => jobs'[s] = jobs[s]
  OBVIOUS
<1>6. ASSUME NEW x \in Requests
      PROVE  /\ Sound(x, req'[x], active, working) /\ Accepted(req'[x], jobs')
             /\ Recorded(req'[x], event'[x], reply'[x])
  <2>1. CASE x = r
    BY <1>2, <2>1
  <2>2. CASE x # r
    <3>1. Accepted(req[x], jobs')
      BY <1>1, <1>5 DEF Accepted
    <3>2. QED
      BY <1>1, <1>3, <2>2, <3>1
  <2>3. QED
    BY <2>1, <2>2
<1>7. ASSUME NEW s \in Slots PROVE Owned(s, jobs', req')
  <2>1. CASE jobs'[s] = jobs[s]
    <3>1. SUFFICES ASSUME jobs[s] # NoJob
                   PROVE  LET c1 == req'[jobs[s].by]
                          IN  /\ jobs[s].by \in Requests /\ c1.pc \in Over
                              /\ c1.lived /\ Holder[c1.kind.key] = s[1]
                              /\ c1.kind.route = "webhook" =>
                                    c1.kind.signed = <<c1.kind.key, jobs[s].content>>
                              /\ jobs[s].content = c1.kind.content /\ c1.kind.idem = s[2]
      BY <2>1 DEF Owned
    <3> DEFINE x == jobs[s].by
    <3>2. /\ x \in Requests /\ req[x].pc \in Over
          /\ req[x].lived /\ Holder[req[x].kind.key] = s[1]
          /\ req[x].kind.route = "webhook" =>
                req[x].kind.signed = <<req[x].kind.key, jobs[s].content>>
          /\ jobs[s].content = req[x].kind.content /\ req[x].kind.idem = s[2]
      BY <1>1, <3>1 DEF Owned
    <3>3. CASE x = r
      <4>1. req'[x].pc \in Over /\ req'[x].kind = req[x].kind /\ req'[x].lived = req[x].lived
        BY <1>2, <3>2, <3>3
      <4>2. QED
        BY <3>2, <4>1
    <3>4. CASE x # r
      BY <1>3, <3>2, <3>4
    <3>5. QED
      BY <3>3, <3>4
  <2>2. CASE jobs'[s] # jobs[s]
    <3>1. /\ s = SlotOf(r) /\ req[r].pc = "enqueue" /\ jobs'[s].by = r
          /\ jobs'[s].content = c.kind.content /\ c.kind = req[r].kind
          /\ c.lived = req[r].lived /\ c.pc = "answer"
      BY <2>2
    <3>2. /\ req[r].lived /\ req[r].tenant = Holder[req[r].kind.key]
          /\ req[r].kind.route = "webhook" =>
                req[r].kind.signed = <<req[r].kind.key, req[r].kind.content>>
      BY <1>1, <3>1 DEF Sound
    <3>3. s[1] = req[r].tenant /\ s[2] = req[r].kind.idem
      BY <3>1 DEF SlotOf
    <3>4. /\ req'[r].pc \in Over /\ req'[r].lived /\ req'[r].kind = req[r].kind
      BY <1>2, <3>1, <3>2 DEF Over
    <3>5. QED
      BY <3>1, <3>2, <3>3, <3>4 DEF Owned
  <2>3. QED
    BY <2>1, <2>2
<1>8. QED
  <2>1. Parts'
    BY <1>4, <1>6, <1>7 DEF Parts
  <2>2. QED
    BY <2>1, ByRequest, PTL

(***************************************************************************)
(* The steps of the handlers.                                              *)
(***************************************************************************)

\* Moved: a request at another place, with another status.
Moved(c, pc, st) == [c EXCEPT !.pc = pc, !.status = st]

\* MovedFields: it keeps everything else.
LEMMA MovedFields ==
    ASSUME NEW c \in Exchanges, NEW pc \in Places, NEW st \in Statuses
    PROVE  LET d == Moved(c, pc, st)
           IN  /\ d \in Exchanges /\ d.pc = pc /\ d.status = st /\ d.kind = c.kind
               /\ d.total = c.total /\ d.read = c.read /\ d.tenant = c.tenant
               /\ d.trace = c.trace /\ d.lived = c.lived
<1> DEFINE T == Tenants \cup {None}
           B == BOOLEAN
<1> HIDE DEF T, B
<1>1. QED
  BY DEF Moved, Exchanges, T, B

\* MoveStep: a request goes on, is answered without a job or is cancelled.
MoveStep(r, pc, st) ==
    /\ pc \in Places \ {"unsent", "done"} /\ st \in Statuses \ {202}
    /\ req' = [req EXCEPT ![r] = Moved(req[r], pc, st)]
    /\ UNCHANGED <<issued, active, working, jobs, now, event, reply>>
    /\ req[r].pc \in (Pending \ {"unsent"}) \cup {"answer"}
    /\ req[r].pc = "answer" => pc = "sent"
    /\ pc \in Pending => st = 500
    /\ pc \in {"auth", "route", "enqueue"} =>
          /\ req[r].read = Len(req[r].kind.chunks)
          /\ req[r].kind.route = "webhook" =>
                req[r].kind.signed = <<req[r].kind.key, req[r].kind.content>>
    /\ pc \in {"route", "enqueue"} =>
          /\ req[r].lived /\ req[r].tenant = Holder[req[r].kind.key]
          /\ req[r].tenant \in Tenants

\* MoveKeeps: such a step keeps the invariant.
LEMMA MoveKeeps ==
    ASSUME IInv, NEW r \in Requests, NEW pc, NEW st, MoveStep(r, pc, st)
    PROVE  IInv'
<1> USE DEF MoveStep
<1> DEFINE c == Moved(req[r], pc, st)
<1>1. /\ Tables /\ Sound(r, req[r], active, working)
      /\ Recorded(req[r], event[r], reply[r])
  BY ByRequest DEF Parts
<1>2. /\ c \in Exchanges /\ c.pc = pc /\ c.status = st /\ c.kind = req[r].kind
      /\ c.total = req[r].total /\ c.read = req[r].read /\ c.tenant = req[r].tenant
      /\ c.trace = req[r].trace /\ c.lived = req[r].lived
  BY <1>1, MovedFields DEF Sound
<1> HIDE DEF c
<1>3. Sound(r, c, active, working)
  <2>1. c.pc \notin {"unsent", "done"} /\ Valid(c.kind.key, active, working) => c.lived
    <3>1. req[r].pc \notin {"unsent", "done"}
      BY DEF Pending
    <3>2. Valid(req[r].kind.key, active, working) => req[r].lived
      BY <1>1, <3>1 DEF Sound
    <3>3. QED
      BY <1>2, <3>2
  <2>2. c.pc \in {"route", "enqueue"} =>
            c.lived /\ c.tenant = Holder[c.kind.key] /\ c.tenant \in Tenants
    BY <1>2
  <2>3. /\ c.kind \in Kinds[r] /\ c.read <= Len(c.kind.chunks)
        /\ c.total <= Limit[c.kind.route]
    BY <1>1, <1>2 DEF Sound
  <2>4. QED
    BY <1>2, <2>1, <2>2, <2>3 DEF Sound
<1>4. Accepted(c, jobs')
  BY <1>2 DEF Accepted
<1>5. reply[r] = NoReply /\ event[r] = << >>
  BY <1>1 DEF Recorded, Pending
<1>6. Recorded(c, event[r], reply[r])
  BY <1>2, <1>5 DEF Recorded
<1>7. /\ event' = [event EXCEPT ![r] = event[r]] /\ reply' = [reply EXCEPT ![r] = reply[r]]
      /\ event[r] \in Seq([status : Statuses, trace : Traces])
      /\ reply[r] \in [status : Statuses \cup {0}, trace : Traces]
      /\ jobs' \in [Slots -> Records]
  <2> DEFINE E == Seq([status : Statuses, trace : Traces])
             R == [status : Statuses \cup {0}, trace : Traces]
  <2>1. event \in [Requests -> E] /\ reply \in [Requests -> R] /\ jobs \in [Slots -> Records]
    BY <1>1 DEF Tables
  <2> HIDE DEF E, R
  <2>2. event = [event EXCEPT ![r] = event[r]] /\ reply = [reply EXCEPT ![r] = reply[r]]
    BY <2>1
  <2>3. event' = event /\ reply' = reply /\ jobs' = jobs
    OBVIOUS
  <2>4. event[r] \in E /\ reply[r] \in R
    BY <2>1
  <2>5. QED
    BY <2>1, <2>2, <2>3, <2>4 DEF E, R
<1>8. req[r].pc \in Over =>
          c.pc \in Over /\ c.kind = req[r].kind /\ c.lived = req[r].lived
  BY <1>2 DEF Over, Pending
<1>9. req' = [req EXCEPT ![r] = c]
  BY DEF c
<1>10. UNCHANGED <<issued, active, working, now>> /\ \A s \in Slots : jobs'[s] = jobs[s]
  OBVIOUS
<1>11. OneStep(r, c, event[r], reply[r])
  BY <1>3, <1>4, <1>6, <1>7, <1>8, <1>9, <1>10, Zenon DEF OneStep
<1>12. QED
  BY <1>11, OneMoves

\* AsMoved: Answer and Goto move a request.
LEMMA AsMoved ==
    ASSUME IInv, NEW r \in Requests
    PROVE  /\ \A s : Answer(r, s) => req' = [req EXCEPT ![r] = Moved(req[r], "answer", s)]
           /\ \A pc : Goto(r, pc) => req' = [req EXCEPT ![r] = Moved(req[r], pc, req[r].status)]
<1>1. req \in [Requests -> Exchanges]
  BY DEF IInv, BodyStaysBounded, TypeOK
<1>2. ASSUME NEW s, Answer(r, s) PROVE req' = [req EXCEPT ![r] = Moved(req[r], "answer", s)]
  BY <1>1, <1>2 DEF Answer, Moved
<1>3. ASSUME NEW pc, Goto(r, pc)
      PROVE  req' = [req EXCEPT ![r] = Moved(req[r], pc, req[r].status)]
  BY <1>1, <1>3 DEF Goto, Moved, Exchanges
<1>4. QED
  BY <1>2, <1>3

\* RefusedKeeps: a refusal keeps the invariant.
LEMMA RefusedKeeps ==
    ASSUME IInv, NEW r \in Requests, req[r].pc \in Pending \ {"unsent"},
           NEW st \in Statuses \ {202}, Answer(r, st),
           UNCHANGED <<issued, active, working, jobs, now, event, reply>>
    PROVE  IInv'
<1>1. req' = [req EXCEPT ![r] = Moved(req[r], "answer", st)]
  BY AsMoved
<1>2. "answer" \in Places \ {"unsent", "done"} /\ "answer" \notin Pending
      /\ req[r].pc # "answer"
  BY DEF Places, Pending
<1>3. MoveStep(r, "answer", st)
  BY <1>1, <1>2 DEF MoveStep
<1>4. QED
  BY <1>3, MoveKeeps

\* GotoKeeps: a request that passed a check keeps the invariant, if it has what the next
\* place asks for.
LEMMA GotoKeeps ==
    ASSUME IInv, NEW r \in Requests, req[r].pc \in Pending \ {"unsent"},
           NEW pc \in Pending \ {"unsent"}, Goto(r, pc),
           UNCHANGED <<issued, active, working, jobs, now, event, reply>>,
           pc \in {"auth", "route", "enqueue"} =>
               /\ req[r].read = Len(req[r].kind.chunks)
               /\ req[r].kind.route = "webhook" =>
                     req[r].kind.signed = <<req[r].kind.key, req[r].kind.content>>,
           pc \in {"route", "enqueue"} =>
               /\ req[r].lived /\ req[r].tenant = Holder[req[r].kind.key]
               /\ req[r].tenant \in Tenants
    PROVE  IInv'
<1>1. req' = [req EXCEPT ![r] = Moved(req[r], pc, req[r].status)]
  BY AsMoved
<1>2. req[r].status = 500 /\ 500 \in Statuses \ {202}
  BY ByRequest DEF Parts, Sound, Statuses
<1>3. pc \in Places \ {"unsent", "done"} /\ req[r].pc # "answer"
  BY DEF Places, Pending
<1>4. req' = [req EXCEPT ![r] = Moved(req[r], pc, 500)]
  BY <1>1, <1>2
<1>5. MoveStep(r, pc, 500)
  BY <1>2, <1>3, <1>4, Zenon DEF MoveStep
<1>6. QED
  BY <1>5, MoveKeeps

\* EnterKeeps: the declared length and the form of the webhook's key.
LEMMA EnterKeeps == ASSUME IInv, NEW r \in Requests, Enter(r) PROVE IInv'
<1> DEFINE q == req[r].kind
<1>1. req[r].pc = "limit" /\ UNCHANGED <<issued, active, working, jobs, now, event, reply>>
  BY DEF Enter
<1>2. Answer(r, 413) \/ Answer(r, 401) \/ Goto(r, "read")
  BY DEF Enter
<1>3. "limit" \in Pending \ {"unsent"} /\ "read" \in Pending \ {"unsent"}
      /\ 413 \in Statuses \ {202} /\ 401 \in Statuses \ {202}
  BY DEF Pending, Statuses
<1>4. QED
  BY <1>1, <1>2, <1>3, RefusedKeeps, GotoKeeps

\* VerifyKeeps: past it the body is complete and a delivery's signature is the key's.
LEMMA VerifyKeeps == ASSUME IInv, NEW r \in Requests, Verify(r) PROVE IInv'
<1> DEFINE q == req[r].kind
<1>1. /\ req[r].pc = "read" /\ req[r].read = Len(q.chunks)
      /\ UNCHANGED <<issued, active, working, jobs, now, event, reply>>
  BY DEF Verify
<1>2. \/ Answer(r, 401) \/ Answer(r, 422)
      \/ Goto(r, "auth") /\ (q.route = "webhook" => SignatureOutcome(q) = "verified")
  BY DEF Verify
<1>3. SignatureOutcome(q) = "verified" => q.signed = <<q.key, q.content>>
  BY DEF SignatureOutcome
<1>4. "auth" \in Pending \ {"unsent"} /\ "read" \in Pending \ {"unsent"}
      /\ 422 \in Statuses \ {202} /\ 401 \in Statuses \ {202}
  BY DEF Pending, Statuses
<1>5. CASE Answer(r, 401) \/ Answer(r, 422)
  BY <1>1, <1>4, <1>5, RefusedKeeps
<1>6. CASE Goto(r, "auth") /\ (q.route = "webhook" => SignatureOutcome(q) = "verified")
  BY <1>1, <1>3, <1>4, <1>6, GotoKeeps
<1>7. QED
  BY <1>2, <1>5, <1>6

\* PayloadKeeps: past it the request is still the one that was authenticated.
LEMMA PayloadKeeps == ASSUME IInv, NEW r \in Requests, CheckPayload(r) PROVE IInv'
<1> DEFINE q == req[r].kind
<1>1. /\ req[r].pc = "route" /\ UNCHANGED <<issued, active, working, jobs, now, event, reply>>
      /\ \/ Goto(r, "enqueue")
         \/ Rejection(q) # 0 /\ Answer(r, Rejection(q))
  BY DEF CheckPayload
<1>2. Rejection(q) # 0 => Rejection(q) \in Statuses \ {202}
  BY DEF Rejection, WebhookRejection, IntakeRejection, Statuses
<1>3. Sound(r, req[r], active, working)
  BY ByRequest DEF Parts
<1>4. /\ req[r].read = Len(req[r].kind.chunks)
      /\ req[r].kind.route = "webhook" =>
            req[r].kind.signed = <<req[r].kind.key, req[r].kind.content>>
      /\ req[r].lived /\ req[r].tenant = Holder[req[r].kind.key]
      /\ req[r].tenant \in Tenants
  BY <1>1, <1>3 DEF Sound
<1>5. "route" \in Pending \ {"unsent"} /\ "enqueue" \in Pending \ {"unsent"}
  BY DEF Pending
<1>6. QED
  BY <1>1, <1>2, <1>4, <1>5, RefusedKeeps, GotoKeeps

\* CancelKeeps: a cancelled request has had no answer, so its event contradicts none.
LEMMA CancelKeeps == ASSUME IInv, NEW r \in Requests, Cancel(r) PROVE IInv'
<1>1. req \in [Requests -> Exchanges]
  BY DEF IInv, BodyStaysBounded, TypeOK
<1>2. req' = [req EXCEPT ![r] = Moved(req[r], "sent", 500)]
  BY <1>1 DEF Cancel, Moved
<1>3. /\ "sent" \in Places \ {"unsent", "done"} /\ "sent" \notin Pending
      /\ 500 \in Statuses \ {202} /\ req[r].pc \in (Pending \ {"unsent"}) \cup {"answer"}
  BY DEF Cancel, Places, Pending, Statuses
<1>4. UNCHANGED <<issued, active, working, jobs, now, event, reply>>
  BY DEF Cancel
<1>5. MoveStep(r, "sent", 500)
  BY <1>2, <1>3, <1>4 DEF MoveStep
<1>6. QED
  BY <1>5, MoveKeeps

\* RequestFacts: what the invariant says about one request.
LEMMA RequestFacts ==
    ASSUME IInv, NEW r \in Requests
    PROVE  /\ Sound(r, req[r], active, working) /\ Recorded(req[r], event[r], reply[r])
           /\ Accepted(req[r], jobs)
           /\ req \in [Requests -> Exchanges] /\ req[r] \in Exchanges
           /\ req[r].kind \in Kinds[r] /\ active \subseteq Keys /\ working \subseteq Tenants
           /\ jobs \in [Slots -> Records]
<1>1. /\ Sound(r, req[r], active, working) /\ Recorded(req[r], event[r], reply[r])
      /\ Accepted(req[r], jobs) /\ Tables
  BY ByRequest DEF Parts
<1>2. req \in [Requests -> Exchanges]
  BY DEF IInv, BodyStaysBounded, TypeOK
<1>3. QED
  BY <1>1, <1>2 DEF Sound, Tables

\* Quiet: a step tells nobody anything and makes no job.
Quiet(r, c) ==
    /\ UNCHANGED <<issued, active, working, jobs, now, event, reply>>
    /\ req' = [req EXCEPT ![r] = c] /\ req[r].pc \in Pending /\ c.pc \in Pending
    /\ Sound(r, c, active, working)

\* QuietStep: such a step keeps the invariant.
LEMMA QuietStep ==
    ASSUME IInv, NEW r \in Requests, NEW c, Quiet(r, c)
    PROVE  IInv'
<1> USE DEF Quiet
<1>1. Tables /\ Recorded(req[r], event[r], reply[r])
  BY ByRequest DEF Parts
<1>2. c.status # 202
  BY DEF Sound
<1>3. reply[r] = NoReply /\ event[r] = << >>
  BY <1>1 DEF Recorded, Pending
<1>4. Recorded(c, event[r], reply[r]) /\ Accepted(c, jobs')
  BY <1>2, <1>3 DEF Recorded, Accepted, Pending
<1> DEFINE E == Seq([status : Statuses, trace : Traces])
           R == [status : Statuses \cup {0}, trace : Traces]
<1>5. event \in [Requests -> E] /\ reply \in [Requests -> R] /\ jobs \in [Slots -> Records]
  BY <1>1 DEF Tables
<1> HIDE DEF E, R
<1>6. /\ event' = [event EXCEPT ![r] = event[r]] /\ reply' = [reply EXCEPT ![r] = reply[r]]
      /\ event[r] \in E /\ reply[r] \in R /\ jobs' \in [Slots -> Records]
      /\ \A s \in Slots : jobs'[s] = jobs[s]
  BY <1>5
<1>7. req[r].pc \notin Over
  BY DEF Over, Pending
<1>8. OneStep(r, c, event[r], reply[r])
  BY <1>4, <1>6, <1>7 DEF OneStep, E, R
<1>9. QED
  BY <1>8, OneMoves

\* ReceiveKeeps: a chunk is counted only if the whole still fits.
LEMMA ReceiveKeeps == ASSUME IInv, NEW r \in Requests, Receive(r) PROVE IInv'
<1> DEFINE q == req[r].kind
           i == req[r].read + 1
           n == req[r].total + q.chunks[i]
           c == [req[r] EXCEPT !.read = i, !.total = n]
<1>1. /\ req[r].pc = "read" /\ i \in DOMAIN q.chunks
      /\ UNCHANGED <<issued, active, working, jobs, now, event, reply>>
  BY DEF Receive
<1>2. /\ Sound(r, req[r], active, working) /\ req \in [Requests -> Exchanges]
      /\ req[r] \in Exchanges /\ q \in Kinds[r]
  BY RequestFacts
<1>3. "read" \in Pending /\ "read" \in Pending \ {"unsent"}
      /\ 413 \in Statuses \ {202} /\ 400 \in Statuses \ {202}
  BY DEF Pending, Statuses
<1>4. CASE \E s \in {413, 400} : Answer(r, s)
  BY <1>1, <1>3, <1>4, RefusedKeeps
<1>5. CASE /\ Fits(q, n)
           /\ req' = [req EXCEPT ![r].read = i, ![r].total = @ + q.chunks[i]]
  <2>1. q.chunks \in Seq(Nat) /\ req[r].read \in Nat /\ req[r].total \in Nat
    <3>1. IsKind(q)
      BY <1>2, BoundaryAssumption
    <3>2. QED
      BY <1>2, <3>1 DEF IsKind, Exchanges
  <2>2. i \in Nat /\ i <= Len(q.chunks) /\ n \in Nat
    <3>1. \A sq \in Seq(Nat) : \A k \in DOMAIN sq : k \in Nat /\ k <= Len(sq) /\ sq[k] \in Nat
      OBVIOUS
    <3>2. i \in Nat /\ i <= Len(q.chunks) /\ q.chunks[i] \in Nat
      BY <1>1, <2>1, <3>1, Zenon
    <3> HIDE DEF i
    <3>3. QED
      BY <2>1, <3>2
  <2>3. req' = [req EXCEPT ![r] = c]
    BY <1>2, <1>5
  <2>4. n <= Limit[q.route]
    BY <1>5 DEF Fits
  <2> HIDE DEF i, n
  <2>5. /\ c \in Exchanges /\ c.pc = req[r].pc /\ c.status = req[r].status /\ c.kind = q
        /\ c.total = n /\ c.read = i /\ c.lived = req[r].lived
    <3> DEFINE T == Tenants \cup {None}
               B == BOOLEAN
    <3> HIDE DEF T, B
    <3>1. QED
      BY <1>2, <2>2 DEF Exchanges, T, B
  <2> HIDE DEF c
  <2>6. c.status = 500 /\ c.pc = "read" /\ (Valid(c.kind.key, active, working) => c.lived)
    BY <1>1, <1>2, <1>3, <2>5 DEF Sound
  <2>7. Sound(r, c, active, working)
    BY <1>2, <2>2, <2>4, <2>5, <2>6 DEF Sound
  <2>8. Quiet(r, c)
    BY <1>1, <1>3, <2>3, <2>6, <2>7 DEF Quiet
  <2>9. QED
    BY <2>8, QuietStep
<1>6. QED
  <2>1. \/ Fits(q, n) /\ req' = [req EXCEPT ![r].read = i, ![r].total = @ + q.chunks[i]]
        \/ \E s \in {413, 400} : Answer(r, s)
    BY DEF Receive
  <2>2. QED
    BY <1>4, <1>5, <2>1

\* AuthenticateKeeps: the key read is valid at this moment, so the request was entitled
\* while it lived.
LEMMA AuthenticateKeeps == ASSUME IInv, NEW r \in Requests, Authenticate(r) PROVE IInv'
<1> DEFINE q == req[r].kind
           c == [req[r] EXCEPT !.pc = "route", !.tenant = Holder[q.key]]
<1>1. req[r].pc = "auth" /\ UNCHANGED <<issued, active, working, jobs, now, event, reply>>
  BY DEF Authenticate
<1>2. /\ Sound(r, req[r], active, working) /\ req \in [Requests -> Exchanges]
      /\ req[r] \in Exchanges /\ q \in Kinds[r] /\ active \subseteq Keys /\ working \subseteq Tenants
  BY RequestFacts
<1>3. "auth" \in Pending /\ "auth" \in Pending \ {"unsent"} /\ "route" \in Pending
      /\ 401 \in Statuses \ {202}
  BY DEF Pending, Statuses
<1>4. CASE Answer(r, 401)
  BY <1>1, <1>3, <1>4, RefusedKeeps
<1>5. CASE /\ Resolves(q.key)
           /\ req' = [req EXCEPT ![r].pc = "route", ![r].tenant = Holder[q.key]]
  <2>1. q.key \in Keys /\ Holder[q.key] \in Tenants /\ Valid(q.key, active, working)
    BY <1>2, <1>5, BoundaryAssumption DEF Resolves, Valid
  <2>2. req' = [req EXCEPT ![r] = c]
    BY <1>2, <1>5
  <2>3. /\ c \in Exchanges /\ c.pc = "route" /\ c.status = req[r].status /\ c.kind = q
        /\ c.total = req[r].total /\ c.read = req[r].read /\ c.lived = req[r].lived
        /\ c.tenant = Holder[q.key]
    <3> DEFINE T == Tenants \cup {None}
               B == BOOLEAN
    <3>1. Holder[q.key] \in T /\ "route" \in Places
      BY <2>1 DEF Places
    <3> HIDE DEF T, B
    <3>2. QED
      BY <1>2, <3>1 DEF Exchanges, T, B
  <2> HIDE DEF c
  <2>4. /\ c.status = 500 /\ req[r].lived /\ c.read = Len(q.chunks)
        /\ c.read <= Len(c.kind.chunks) /\ c.total <= Limit[c.kind.route]
        /\ q.route = "webhook" => q.signed = <<q.key, q.content>>
    BY <1>1, <1>2, <1>3, <2>1, <2>3 DEF Sound
  <2>5. c.lived
    BY <2>3, <2>4
  <2>6. Sound(r, c, active, working)
    BY <1>2, <2>1, <2>3, <2>4, <2>5 DEF Sound
  <2>7. Quiet(r, c)
    BY <1>1, <1>3, <2>2, <2>3, <2>6 DEF Quiet
  <2>8. QED
    BY <2>7, QuietStep
<1>6. QED
  BY <1>4, <1>5 DEF Authenticate

\* UnsentType: a request that has not been sent has the types of a request.
LEMMA UnsentType ==
    ASSUME NEW r \in Requests
    PROVE  /\ Unsent(r) \in Exchanges /\ Unsent(r).kind \in Kinds[r] /\ Unsent(r).total = 0
           /\ Unsent(r).read = 0 /\ Unsent(r).status = 500 /\ Unsent(r).pc = "unsent"
<1> DEFINE k == CHOOSE x \in Kinds[r] : TRUE
<1>1. k \in Kinds[r]
  BY BoundaryAssumption
<1>2. k \in AllKinds
  BY <1>1 DEF AllKinds
<1>3. Unsent(r) = [pc |-> "unsent", kind |-> k, total |-> 0, read |-> 0, tenant |-> None,
                   trace |-> 0, status |-> 500, lived |-> FALSE]
  BY Zenon DEF Unsent
<1> HIDE DEF k
<1>4. QED
  BY <1>1, <1>2, <1>3 DEF Exchanges, Places, Traces, Statuses

\* Entered: the request as the middleware first sees it.
Entered(u, q, trace, lived) ==
    [u EXCEPT !.pc = "limit", !.kind = q, !.trace = trace, !.lived = lived]

\* ArriveKeeps: a new request is entitled if its key is valid as it arrives.
LEMMA ArriveKeeps ==
    ASSUME IInv, NEW r \in Requests, NEW q \in Kinds[r], Arrive(r, q) PROVE IInv'
<1> DEFINE v == Valid(q.key, active, working)
<1>1. /\ req[r].pc = "unsent" /\ req' = [req EXCEPT ![r] = Entered(Unsent(r), q, r, v)]
      /\ UNCHANGED <<issued, active, working, jobs, now, event, reply>>
  BY DEF Arrive, Entered
<1>2. PICK w \in BOOLEAN : w = v
  <2>1. v \in BOOLEAN
    BY Zenon DEF Valid
  <2> HIDE DEF v
  <2>2. QED
    BY <2>1, Zenon
<1> HIDE DEF v
<1> DEFINE c == Entered(Unsent(r), q, r, w)
<1>3. q \in AllKinds /\ IsKind(q)
  BY BoundaryAssumption DEF AllKinds
<1>4. Limit[q.route] \in Nat /\ Len(q.chunks) \in Nat
  BY <1>3, BoundaryAssumption DEF IsKind
<1>5. Unsent(r) \in Exchanges /\ Unsent(r).total = 0 /\ Unsent(r).read = 0
      /\ Unsent(r).status = 500
  BY UnsentType
<1>6. /\ c \in Exchanges /\ c.pc = "limit" /\ c.kind = q /\ c.total = 0 /\ c.read = 0
      /\ c.status = 500 /\ c.lived = w
  <2>1. "limit" \in Places /\ r \in Traces
    BY DEF Places, Traces
  <2> DEFINE T == Tenants \cup {None}
             B == BOOLEAN
             u == Unsent(r)
  <2>2. w \in B /\ u \in Exchanges
    BY <1>5
  <2> HIDE DEF T, B, u
  <2>3. /\ Entered(u, q, r, w) \in Exchanges /\ Entered(u, q, r, w).pc = "limit"
        /\ Entered(u, q, r, w).kind = q /\ Entered(u, q, r, w).total = u.total
        /\ Entered(u, q, r, w).read = u.read /\ Entered(u, q, r, w).status = u.status
        /\ Entered(u, q, r, w).lived = w
    BY <1>3, <2>1, <2>2 DEF Exchanges, Entered, T, B
  <2>4. QED
    BY <1>5, <2>3 DEF u
<1>7. req' = [req EXCEPT ![r] = c]
  BY <1>1, <1>2, Zenon
<1> HIDE DEF c
<1>8. Valid(c.kind.key, active, working) => c.lived
  BY <1>2, <1>6, Zenon DEF v
<1>9. Sound(r, c, active, working)
  BY <1>4, <1>6, <1>8 DEF Sound
<1>10. "limit" \in Pending /\ "unsent" \in Pending
  BY DEF Pending
<1>11. Quiet(r, c)
  BY <1>1, <1>6, <1>7, <1>9, <1>10 DEF Quiet
<1>12. QED
  BY <1>11, QuietStep

\* Bound: the request once its answer is about a job.
Bound(c, trace) == [c EXCEPT !.pc = "answer", !.status = 202, !.trace = trace]

\* BoundKeeps: a request that is bound to the job in its slot.
LEMMA BoundKeeps ==
    ASSUME IInv, NEW r \in Requests, req[r].pc = "enqueue",
           UNCHANGED <<issued, active, working, now, event, reply>>,
           jobs' \in [Slots -> Records],
           jobs'[SlotOf(r)] # NoJob, jobs'[SlotOf(r)].content = req[r].kind.content,
           Bind(r, jobs'[SlotOf(r)].trace),
           \A s \in Slots :
               \/ jobs'[s] = jobs[s]
               \/ jobs[s] = NoJob /\ s = SlotOf(r) /\ jobs'[s].by = r
    PROVE  IInv'
<1> DEFINE c == Bound(req[r], jobs'[SlotOf(r)].trace)
<1>1. /\ Sound(r, req[r], active, working) /\ Recorded(req[r], event[r], reply[r])
      /\ req \in [Requests -> Exchanges] /\ req[r] \in Exchanges /\ req[r].kind \in Kinds[r]
      /\ Tables
  BY RequestFacts, ByRequest DEF Parts
<1>2. /\ req[r].lived /\ req[r].tenant \in Tenants /\ req[r].read = Len(req[r].kind.chunks)
      /\ req[r].total <= Limit[req[r].kind.route] /\ req[r].read <= Len(req[r].kind.chunks)
  BY <1>1 DEF Sound
<1>3. SlotOf(r) \in Slots
  BY <1>1, <1>2, SlotFacts DEF SlotOf
<1>4. jobs'[SlotOf(r)].trace \in Traces
  BY <1>3 DEF Records
<1>5. req' = [req EXCEPT ![r] = c]
  BY <1>1 DEF Bind, Bound
<1>6. /\ c \in Exchanges /\ c.pc = "answer" /\ c.status = 202 /\ c.kind = req[r].kind
      /\ c.total = req[r].total /\ c.read = req[r].read /\ c.lived = req[r].lived
      /\ c.tenant = req[r].tenant /\ c.trace = jobs'[SlotOf(r)].trace
  <2>1. "answer" \in Places /\ 202 \in Statuses
    BY DEF Places, Statuses
  <2> DEFINE T == Tenants \cup {None}
             B == BOOLEAN
  <2> HIDE DEF T, B
  <2>2. QED
    BY <1>1, <1>4, <2>1 DEF Bound, Exchanges, T, B
<1> HIDE DEF c
<1>7. Sound(r, c, active, working)
  <2>1. c.lived
    BY <1>2, <1>6
  <2>2. c.pc \notin Pending
    BY <1>6 DEF Pending
  <2>3. QED
    BY <1>1, <1>2, <1>6, <2>1, <2>2 DEF Sound
<1>8. Accepted(c, jobs')
  BY <1>3, <1>6 DEF Accepted, SlotOf
<1>9. reply[r] = NoReply /\ event[r] = << >>
  BY <1>1 DEF Recorded, Pending
<1>10. Recorded(c, event[r], reply[r])
  BY <1>6, <1>9 DEF Recorded
<1> DEFINE E == Seq([status : Statuses, trace : Traces])
           R == [status : Statuses \cup {0}, trace : Traces]
<1>11. event \in [Requests -> E] /\ reply \in [Requests -> R]
  BY <1>1 DEF Tables
<1> HIDE DEF E, R
<1>12. /\ event' = [event EXCEPT ![r] = event[r]] /\ reply' = [reply EXCEPT ![r] = reply[r]]
       /\ event[r] \in E /\ reply[r] \in R
  BY <1>11
<1>13. req[r].pc \notin Over
  BY DEF Over
<1>14. \A s \in Slots :
          \/ jobs'[s] = jobs[s]
          \/ /\ jobs[s] = NoJob /\ s = SlotOf(r) /\ req[r].pc = "enqueue"
             /\ jobs'[s].by = r /\ jobs'[s].content = c.kind.content
             /\ c.kind = req[r].kind /\ c.lived = req[r].lived /\ c.pc = "answer"
  BY <1>6
<1>15. OneStep(r, c, event[r], reply[r])
  BY <1>5, <1>7, <1>8, <1>10, <1>12, <1>13, <1>14 DEF OneStep, E, R
<1>16. QED
  BY <1>15, OneMoves

\* EnqueueKeeps: a new job, the job of the slot, or a refusal.
LEMMA EnqueueKeeps == ASSUME IInv, NEW r \in Requests, Enqueue(r) PROVE IInv'
<1> DEFINE q == req[r].kind
           s == SlotOf(r)
           new == [trace |-> req[r].trace, content |-> q.content, by |-> r]
<1>1. /\ req[r].pc = "enqueue" /\ UNCHANGED <<issued, active, working, now, event, reply>>
  BY DEF Enqueue
<1>2. /\ Sound(r, req[r], active, working) /\ req[r] \in Exchanges /\ q \in Kinds[r]
      /\ jobs \in [Slots -> Records]
  BY RequestFacts
<1>3. s \in Slots
  <2>1. req[r].tenant \in Tenants
    BY <1>1, <1>2 DEF Sound
  <2>2. QED
    BY <1>2, <2>1, SlotFacts DEF SlotOf
<1>4. new \in Records /\ new # NoJob
  <2>1. q \in AllKinds /\ r # 0
    BY <1>2, BoundaryAssumption DEF AllKinds
  <2>2. req[r].trace \in Traces /\ r \in Traces
    BY <1>2 DEF Exchanges, Traces
  <2>3. new \in Records
    BY <2>1, <2>2 DEF Records
  <2>4. new.by = r /\ NoJob.by = 0
    BY DEF NoJob
  <2>5. QED
    BY <2>1, <2>3, <2>4
<1>5. "enqueue" \in Pending \ {"unsent"} /\ {409, 422, 503} \subseteq Statuses \ {202}
  BY DEF Pending, Statuses
<1>6. CASE jobs[s] = NoJob /\ jobs' = [jobs EXCEPT ![s] = new] /\ Bind(r, req[r].trace)
  <2>1. jobs'[s] = new /\ \A x \in Slots \ {s} : jobs'[x] = jobs[x]
    BY <1>2, <1>3, <1>6
  <2>2. jobs' \in [Slots -> Records]
    BY <1>2, <1>4, <1>6
  <2>3. jobs'[s].by = r /\ jobs'[s].content = q.content /\ jobs'[s].trace = req[r].trace
        /\ jobs'[s] # NoJob
    BY <1>4, <2>1
  <2>4. Bind(r, jobs'[s].trace)
    BY <1>6, <2>3
  <2>5. \A x \in Slots : \/ jobs'[x] = jobs[x]
                         \/ jobs[x] = NoJob /\ x = s /\ jobs'[x].by = r
    BY <1>6, <2>1, <2>3
  <2> HIDE DEF new
  <2>6. QED
    BY <1>1, <2>2, <2>3, <2>4, <2>5, BoundKeeps
<1>7. CASE jobs[s] # NoJob /\ jobs[s].content = q.content /\ jobs' = jobs /\ Bind(r, jobs[s].trace)
  <2>1. /\ jobs' \in [Slots -> Records] /\ jobs'[s] # NoJob /\ jobs'[s].content = q.content
        /\ Bind(r, jobs'[s].trace) /\ \A x \in Slots : jobs'[x] = jobs[x]
    BY <1>2, <1>7
  <2>2. QED
    BY <1>1, <2>1, BoundKeeps
<1>8. CASE jobs' = jobs /\ \E st \in {409, 422, 503} : Answer(r, st)
  <2>1. PICK st \in {409, 422, 503} : Answer(r, st)
    BY <1>8
  <2>2. st \in Statuses \ {202} /\ req[r].pc \in Pending \ {"unsent"}
    BY <1>1, <1>5
  <2>3. UNCHANGED <<issued, active, working, jobs, now, event, reply>>
    BY <1>1, <1>8
  <2>4. QED
    BY <2>1, <2>2, <2>3, RefusedKeeps
<1>9. \/ jobs[s] = NoJob /\ jobs' = [jobs EXCEPT ![s] = new] /\ Bind(r, req[r].trace)
      \/ jobs[s] # NoJob /\ jobs[s].content = q.content /\ jobs' = jobs /\ Bind(r, jobs[s].trace)
      \/ jobs' = jobs /\ Answer(r, 409)
      \/ jobs' = jobs /\ \E st \in {422, 503} : Answer(r, st)
  BY DEF Enqueue
<1>10. QED
  BY <1>6, <1>7, <1>8, <1>9

\* EndSound: a request that leaves the application stays sound.
LEMMA EndSound ==
    ASSUME IInv, NEW r \in Requests, NEW pc \in {"sent", "done"}, NEW st \in Statuses,
           st = 202 => req[r].status = 202, req[r].pc \notin {"unsent", "done"}
    PROVE  /\ Sound(r, Moved(req[r], pc, st), active, working)
           /\ Accepted(Moved(req[r], pc, st), jobs)
<1> DEFINE c == Moved(req[r], pc, st)
<1>1. /\ Sound(r, req[r], active, working) /\ Accepted(req[r], jobs) /\ req[r] \in Exchanges
  BY RequestFacts
<1>2. pc \in Places /\ pc \notin Pending
  BY DEF Places, Pending
<1>3. /\ c \in Exchanges /\ c.pc = pc /\ c.status = st /\ c.kind = req[r].kind
      /\ c.total = req[r].total /\ c.read = req[r].read /\ c.tenant = req[r].tenant
      /\ c.trace = req[r].trace /\ c.lived = req[r].lived
  BY <1>1, <1>2, MovedFields
<1> HIDE DEF c
<1>4. Valid(c.kind.key, active, working) => c.lived
  BY <1>1, <1>3 DEF Sound
<1>5. Sound(r, c, active, working)
  BY <1>1, <1>2, <1>3, <1>4 DEF Sound
<1>6. Accepted(c, jobs)
  BY <1>1, <1>3 DEF Accepted
<1>7. QED
  BY <1>5, <1>6 DEF c

\* Ended: a request leaves the application, and what is told and recorded of it
\* is what it knows.
Ended(r, pc, st, ev, rp) ==
    /\ pc \in {"sent", "done"} /\ st \in Statuses /\ (st = 202 => req[r].status = 202)
    /\ req[r].pc \notin {"unsent", "done"}
    /\ UNCHANGED <<issued, active, working, jobs, now>>
    /\ req' = [req EXCEPT ![r] = Moved(req[r], pc, st)]
    /\ ev \in Seq([status : Statuses, trace : Traces]) /\ event' = [event EXCEPT ![r] = ev]
    /\ rp \in [status : Statuses \cup {0}, trace : Traces] /\ reply' = [reply EXCEPT ![r] = rp]
    /\ Recorded(Moved(req[r], pc, st), ev, rp)

\* EndKeeps: such a step keeps the invariant.
LEMMA EndKeeps ==
    ASSUME IInv, NEW r \in Requests, NEW pc, NEW st, NEW ev, NEW rp, Ended(r, pc, st, ev, rp)
    PROVE  IInv'
<1> USE DEF Ended
<1> DEFINE c == Moved(req[r], pc, st)
<1>1. Sound(r, c, active, working) /\ Accepted(c, jobs)
  BY EndSound
<1>2. req[r] \in Exchanges /\ jobs \in [Slots -> Records]
  BY RequestFacts
<1>3. c.pc = pc /\ c.kind = req[r].kind /\ c.lived = req[r].lived
  <2>1. pc \in Places
    BY DEF Places
  <2>2. QED
    BY <1>2, <2>1, MovedFields
<1> HIDE DEF c
<1>4. c.pc \in Over /\ \A s \in Slots : jobs'[s] = jobs[s]
  BY <1>3 DEF Over
<1>5. Accepted(c, jobs') /\ jobs' \in [Slots -> Records] /\ Recorded(c, ev, rp)
      /\ req' = [req EXCEPT ![r] = c]
  BY <1>1, <1>2 DEF c
<1>6. OneStep(r, c, ev, rp)
  BY <1>1, <1>3, <1>4, <1>5 DEF OneStep
<1>7. QED
  BY <1>6, OneMoves

\* RespondKeeps: the client is told what the request knows.
LEMMA RespondKeeps == ASSUME IInv, NEW r \in Requests, Respond(r) PROVE IInv'
<1> DEFINE st == req[r].status
           rp == [status |-> st, trace |-> req[r].trace]
           c == Moved(req[r], "sent", st)
<1>1. /\ req[r].pc = "answer" /\ reply' = [reply EXCEPT ![r] = rp] /\ Goto(r, "sent")
      /\ UNCHANGED <<issued, active, working, jobs, now, event>>
  BY DEF Respond
<1>2. /\ req[r] \in Exchanges /\ Recorded(req[r], event[r], reply[r]) /\ Tables
  BY RequestFacts, ByRequest DEF Parts
<1>3. st \in Statuses /\ req[r].trace \in Traces
  BY <1>2 DEF Exchanges
<1>4. rp \in [status : Statuses \cup {0}, trace : Traces]
  BY <1>3
<1>5. req' = [req EXCEPT ![r] = c]
  BY <1>1, AsMoved
<1>6. event[r] = << >>
  BY <1>1, <1>2 DEF Recorded
<1>7. c.pc = "sent" /\ c.status = st /\ c.trace = req[r].trace
  <2>1. "sent" \in Places
    BY DEF Places
  <2>2. QED
    BY <1>2, <1>3, <2>1, MovedFields
<1>8. Recorded(c, event[r], rp)
  <2> HIDE DEF c, st
  <2>1. QED
    BY <1>6, <1>7 DEF Recorded, Pending
<1> DEFINE E == Seq([status : Statuses, trace : Traces])
<1>9. event \in [Requests -> E]
  BY <1>2 DEF Tables
<1> HIDE DEF E
<1>10. event[r] \in E /\ event' = [event EXCEPT ![r] = event[r]]
  BY <1>1, <1>9
<1>11. Ended(r, "sent", st, event[r], rp)
  <2> HIDE DEF rp, st
  <2>1. QED
    BY <1>1, <1>3, <1>4, <1>5, <1>8, <1>10 DEF Ended, E, st
<1>12. QED
  BY <1>11, EndKeeps

\* RaiseKeeps: the client is told of the failure, outside the trace.
LEMMA RaiseKeeps == ASSUME IInv, NEW r \in Requests, Raise(r) PROVE IInv'
<1> DEFINE rp == [status |-> 500, trace |-> 0]
           c == Moved(req[r], "sent", 500)
<1>1. /\ req[r].pc \in {"read", "auth", "enqueue"} /\ reply' = [reply EXCEPT ![r] = rp]
      /\ UNCHANGED <<issued, active, working, jobs, now, event>>
      /\ req' = [req EXCEPT ![r].pc = "sent", ![r].status = 500]
  BY DEF Raise
<1>2. /\ req[r] \in Exchanges /\ Recorded(req[r], event[r], reply[r]) /\ Tables
      /\ req \in [Requests -> Exchanges]
  BY RequestFacts, ByRequest DEF Parts
<1>3. 500 \in Statuses /\ 0 \in Traces
  BY DEF Statuses, Traces
<1>4. rp \in [status : Statuses \cup {0}, trace : Traces]
  BY <1>3
<1>5. req' = [req EXCEPT ![r] = c]
  BY <1>1, <1>2 DEF Moved
<1>6. event[r] = << >>
  BY <1>1, <1>2 DEF Recorded
<1>7. c.pc = "sent" /\ c.status = 500 /\ c.trace = req[r].trace
  <2>1. "sent" \in Places
    BY DEF Places
  <2>2. QED
    BY <1>2, <1>3, <2>1, MovedFields
<1>8. Recorded(c, event[r], rp)
  <2> HIDE DEF c
  <2>1. QED
    BY <1>6, <1>7 DEF Recorded, Pending
<1> DEFINE E == Seq([status : Statuses, trace : Traces])
<1>9. event \in [Requests -> E]
  BY <1>2 DEF Tables
<1> HIDE DEF E
<1>10. event[r] \in E /\ event' = [event EXCEPT ![r] = event[r]]
  BY <1>1, <1>9
<1>11. Ended(r, "sent", 500, event[r], rp)
  <2>1. req[r].pc \notin {"unsent", "done"} /\ 500 # 202 /\ "sent" \in {"sent", "done"}
    BY <1>1
  <2>2. UNCHANGED <<issued, active, working, jobs, now>>
    BY <1>1
  <2> HIDE DEF rp
  <2>3. QED
    BY <1>1, <1>3, <1>4, <1>5, <1>8, <1>10, <2>1, <2>2, Zenon DEF Ended, E
<1>12. QED
  BY <1>11, EndKeeps

\* CompleteKeeps: what is recorded is what the request knows.
LEMMA CompleteKeeps == ASSUME IInv, NEW r \in Requests, Complete(r) PROVE IInv'
<1> DEFINE st == req[r].status
           known == [status |-> st, trace |-> req[r].trace]
           c == Moved(req[r], "done", st)
<1>1. /\ req[r].pc = "sent" /\ event' = [event EXCEPT ![r] = Append(@, known)] /\ Goto(r, "done")
      /\ UNCHANGED <<issued, active, working, jobs, now, reply>>
  BY DEF Complete
<1>2. /\ req[r] \in Exchanges /\ Recorded(req[r], event[r], reply[r]) /\ Tables
  BY RequestFacts, ByRequest DEF Parts
<1>3. st \in Statuses /\ req[r].trace \in Traces
  BY <1>2 DEF Exchanges
<1>4. <<known>> \in Seq([status : Statuses, trace : Traces])
  BY <1>3
<1>5. req' = [req EXCEPT ![r] = c]
  BY <1>1, AsMoved
<1>6. event[r] = << >> /\ (\/ reply[r] = NoReply \/ reply[r] = known
                           \/ reply[r] = [status |-> 500, trace |-> 0] /\ st = 500)
  BY <1>1, <1>2 DEF Recorded
<1>7. c.pc = "done" /\ c.status = st /\ c.trace = req[r].trace
  <2>1. "done" \in Places
    BY DEF Places
  <2>2. QED
    BY <1>2, <1>3, <2>1, MovedFields
<1>8. Recorded(c, <<known>>, reply[r])
  <2> HIDE DEF c, st
  <2>1. QED
    BY <1>6, <1>7 DEF Recorded, Pending
<1>9. event' = [event EXCEPT ![r] = <<known>>]
  <2>1. Append(<< >>, known) = <<known>>
    OBVIOUS
  <2> HIDE DEF known
  <2>2. QED
    BY <1>1, <1>6, <2>1
<1> DEFINE R == [status : Statuses \cup {0}, trace : Traces]
<1>10. reply \in [Requests -> R]
  BY <1>2 DEF Tables
<1> HIDE DEF R
<1>11. reply[r] \in R /\ reply' = [reply EXCEPT ![r] = reply[r]]
  BY <1>1, <1>10
<1>12. Ended(r, "done", st, <<known>>, reply[r])
  <2> HIDE DEF known, st
  <2>1. QED
    BY <1>1, <1>3, <1>4, <1>5, <1>8, <1>9, <1>11 DEF Ended, R, st
<1>13. QED
  BY <1>12, EndKeeps

(***************************************************************************)
(* Keys, tenants and time.                                                 *)
(***************************************************************************)

\* EntitleFields: the rotation of a key only entitles requests that wait for it.
LEMMA EntitleFields ==
    ASSUME IInv, req' = Entitle, NEW r \in Requests
    PROVE  LET c == req'[r]
           IN  /\ c \in Exchanges /\ c.pc = req[r].pc /\ c.kind = req[r].kind
               /\ c.total = req[r].total /\ c.read = req[r].read /\ c.tenant = req[r].tenant
               /\ c.trace = req[r].trace /\ c.status = req[r].status
               /\ req[r].lived => c.lived
               /\ c.pc \notin {"unsent", "done"} /\ Valid(c.kind.key, active', working') => c.lived
<1> DEFINE v == \/ req[r].lived
                \/ /\ req[r].pc \notin {"unsent", "done"}
                   /\ Valid(req[r].kind.key, active', working')
<1>1. req'[r] = [req[r] EXCEPT !.lived = v]
  BY DEF Entitle
<1>2. PICK w \in BOOLEAN : w = v
  <2>1. v \in BOOLEAN
    BY Zenon
  <2> HIDE DEF v
  <2>2. QED
    BY <2>1, Zenon
<1>3. (req[r].lived => w) /\ (req[r].pc \notin {"unsent", "done"}
          /\ Valid(req[r].kind.key, active', working') => w)
  BY <1>2, Zenon
<1> HIDE DEF v
<1>4. req[r] \in Exchanges
  BY RequestFacts
<1> DEFINE c == [req[r] EXCEPT !.lived = w]
<1>5. req'[r] = c
  BY <1>1, <1>2, Zenon
<1>6. /\ c \in Exchanges /\ c.pc = req[r].pc /\ c.kind = req[r].kind
      /\ c.total = req[r].total /\ c.read = req[r].read /\ c.tenant = req[r].tenant
      /\ c.trace = req[r].trace /\ c.status = req[r].status /\ c.lived = w
  <2> DEFINE T == Tenants \cup {None}
             B == BOOLEAN
  <2>1. w \in B
    BY <1>2
  <2> HIDE DEF T, B
  <2>2. QED
    BY <1>4, <2>1 DEF Exchanges, T, B
<1> HIDE DEF c
<1>7. QED
  BY <1>3, <1>5, <1>6, Zenon

\* ReplaceKeeps: the rotation of a key keeps the invariant.
LEMMA ReplaceKeeps ==
    ASSUME IInv, NEW k \in Keys, Replace(k), working' \subseteq Tenants
    PROVE  IInv'
<1>1. /\ Tables
      /\ \A x \in Requests : /\ Sound(x, req[x], active, working)
                             /\ Accepted(req[x], jobs)
                             /\ Recorded(req[x], event[x], reply[x])
      /\ \A s \in Slots : Owned(s, jobs, req)
  BY ByRequest DEF Parts
<1>2. req' = Entitle /\ UNCHANGED <<jobs, now, event, reply>>
  BY DEF Replace
<1>3. Tables'
  <2>1. active' \subseteq issued' /\ issued' \subseteq Keys
    BY <1>1 DEF Tables, Replace
  <2>2. DOMAIN req' = Requests /\ req' = [r \in Requests |-> req'[r]]
    BY <1>2 DEF Entitle
  <2>3. QED
    BY <1>1, <1>2, <2>1, <2>2 DEF Tables
<1>4. ASSUME NEW x \in Requests
      PROVE  /\ Sound(x, req'[x], active', working') /\ Accepted(req'[x], jobs')
             /\ Recorded(req'[x], event'[x], reply'[x])
  <2> DEFINE c == req'[x]
  <2>1. /\ c \in Exchanges /\ c.pc = req[x].pc /\ c.kind = req[x].kind
        /\ c.total = req[x].total /\ c.read = req[x].read /\ c.tenant = req[x].tenant
        /\ c.trace = req[x].trace /\ c.status = req[x].status
        /\ req[x].lived => c.lived
        /\ c.pc \notin {"unsent", "done"} /\ Valid(c.kind.key, active', working') => c.lived
    BY <1>2, EntitleFields
  <2> HIDE DEF c
  <2>2. Sound(x, c, active', working')
    BY <1>1, <2>1 DEF Sound
  <2>3. Accepted(c, jobs')
    <3>1. Accepted(req[x], jobs) /\ jobs' = jobs
      BY <1>1, <1>2
    <3>2. QED
      BY <2>1, <3>1, Zenon DEF Accepted
  <2>4. Recorded(c, event'[x], reply'[x])
    BY <1>1, <1>2, <2>1 DEF Recorded
  <2>5. QED
    BY <2>2, <2>3, <2>4 DEF c
<1>5. ASSUME NEW s \in Slots PROVE Owned(s, jobs', req')
  <2>1. CASE jobs[s] = NoJob
    BY <1>2, <2>1 DEF Owned
  <2>2. CASE jobs[s] # NoJob
    <3> DEFINE x == jobs[s].by
    <3>1. /\ x \in Requests /\ req[x].pc \in Over
          /\ req[x].lived /\ Holder[req[x].kind.key] = s[1]
          /\ req[x].kind.route = "webhook" =>
                req[x].kind.signed = <<req[x].kind.key, jobs[s].content>>
          /\ jobs[s].content = req[x].kind.content /\ req[x].kind.idem = s[2]
      BY <1>1, <2>2 DEF Owned
    <3>2. req'[x].pc = req[x].pc /\ req'[x].kind = req[x].kind /\ (req[x].lived => req'[x].lived)
      BY <1>2, <3>1, EntitleFields
    <3>3. QED
      BY <1>2, <3>1, <3>2 DEF Owned
  <2>3. QED
    BY <2>1, <2>2
<1>6. QED
  <2>1. Parts'
    BY <1>3, <1>4, <1>5 DEF Parts
  <2>2. QED
    BY <2>1, ByRequest, PTL

\* EnvironmentKeeps: keys, tenants and time keep the invariant.
LEMMA EnvironmentKeeps ==
    ASSUME IInv,
           \/ \E k \in Keys : SeedTenant(k) \/ SeedOperator(k)
           \/ \E t \in Tenants : Suspend(t)
           \/ Tick
           \/ UNCHANGED vars
    PROVE  IInv'
<1>1. /\ Tables
      /\ \A x \in Requests : /\ Sound(x, req[x], active, working)
                             /\ Accepted(req[x], jobs)
                             /\ Recorded(req[x], event[x], reply[x])
      /\ \A s \in Slots : Owned(s, jobs, req)
  BY ByRequest DEF Parts
<1>2. ASSUME NEW k \in Keys, SeedTenant(k) \/ SeedOperator(k) PROVE IInv'
  <2>1. Replace(k) /\ working' \subseteq working \cup {Holder[k]}
    BY <1>2 DEF SeedTenant, SeedOperator
  <2>2. working' \subseteq Tenants
    BY <1>1, <2>1, BoundaryAssumption DEF Tables
  <2>3. QED
    BY <2>1, <2>2, ReplaceKeeps
<1>3. ASSUME UNCHANGED <<req, issued, active, jobs, event, reply>>,
             now' \in 0 .. MaxTime, working' \subseteq working
      PROVE  IInv'
  <2>1. Tables'
    BY <1>1, <1>3 DEF Tables
  <2>2. ASSUME NEW x \in Requests PROVE Sound(x, req[x], active', working')
    <3>1. Valid(req[x].kind.key, active', working') => Valid(req[x].kind.key, active, working)
      BY <1>3 DEF Valid
    <3>2. QED
      BY <1>1, <3>1 DEF Sound
  <2>3. Parts'
    BY <1>1, <1>3, <2>1, <2>2 DEF Parts
  <2>4. QED
    BY <2>3, ByRequest, PTL
<1>4. ASSUME (\E t \in Tenants : Suspend(t)) \/ UNCHANGED vars PROVE IInv'
  BY <1>1, <1>3, <1>4 DEF Suspend, vars, Tables
<1>5. ASSUME Tick PROVE IInv'
  <2>1. now' \in 0 .. MaxTime
    BY <1>1, <1>5, BoundaryAssumption DEF Tick, Tables
  <2>2. QED
    BY <1>3, <1>5, <2>1 DEF Tick
<1>6. QED
  BY <1>2, <1>4, <1>5

(***************************************************************************)
(* The theorems.                                                           *)
(***************************************************************************)

\* InitialBoundary: the invariant holds before the first request.
LEMMA InitialBoundary == Init => IInv
<1> SUFFICES ASSUME Init PROVE IInv
  OBVIOUS
<1>1. Tables
  <2>1. NoJob \in Records /\ NoReply \in [status : Statuses \cup {0}, trace : Traces]
    BY DEF NoJob, NoReply, Records, Traces
  <2>2. 0 \in 0 .. MaxTime
    BY BoundaryAssumption
  <2>3. QED
    BY <2>1, <2>2 DEF Init, Tables
<1>2. ASSUME NEW r \in Requests
      PROVE  /\ Sound(r, req[r], active, working) /\ Accepted(req[r], jobs)
             /\ Recorded(req[r], event[r], reply[r])
  <2>1. req[r] = Unsent(r) /\ event[r] = << >> /\ reply[r] = NoReply
    BY DEF Init
  <2>2. /\ Unsent(r) \in Exchanges /\ Unsent(r).kind \in Kinds[r] /\ Unsent(r).total = 0
        /\ Unsent(r).read = 0 /\ Unsent(r).status = 500 /\ Unsent(r).pc = "unsent"
    BY UnsentType
  <2> DEFINE q == Unsent(r).kind
  <2>3. Limit[q.route] \in Nat /\ Len(q.chunks) \in Nat
    BY <2>2, BoundaryAssumption DEF IsKind
  <2> HIDE DEF q
  <2>4. Sound(r, Unsent(r), active, working)
    BY <2>2, <2>3 DEF Sound, q
  <2>5. QED
    BY <2>1, <2>2, <2>4 DEF Accepted, Recorded
<1>3. ASSUME NEW s \in Slots PROVE Owned(s, jobs, req)
  BY DEF Owned, Init
<1>4. QED
  BY <1>1, <1>2, <1>3, ByRequest DEF Parts

\* BoundaryStep: every step keeps the invariant.
LEMMA BoundaryStep == IInv /\ [Next]_vars => IInv'
<1> SUFFICES ASSUME IInv, [Next]_vars PROVE IInv'
  OBVIOUS
<1>1. ASSUME NEW r \in Requests, NEW q \in Kinds[r], Arrive(r, q) PROVE IInv'
  BY <1>1, ArriveKeeps
<1>2. ASSUME NEW r \in Requests, Step(r) \/ Raise(r) \/ Cancel(r) PROVE IInv'
  BY <1>2, EnterKeeps, ReceiveKeeps, VerifyKeeps, AuthenticateKeeps, PayloadKeeps,
     EnqueueKeeps, RespondKeeps, CompleteKeeps, RaiseKeeps, CancelKeeps DEF Step
<1>3. CASE \/ \E k \in Keys : SeedTenant(k) \/ SeedOperator(k)
           \/ \E t \in Tenants : Suspend(t)
           \/ Tick
           \/ UNCHANGED vars
  BY <1>3, EnvironmentKeeps
<1>4. QED
  BY <1>1, <1>2, <1>3 DEF Next

\* BoundaryInvariant: what is checked of a request where it is, what it was told
\* and recorded as, and whose the jobs are, holds in every reachable state.
THEOREM BoundaryInvariant == Spec => []IInv
  BY InitialBoundary, BoundaryStep, PTL DEF Spec

\* BodiesStayBounded: no request buffers more than its route's limit or reaches the
\* credential check with a body unread, whatever length it declares.
THEOREM BodiesStayBounded == Spec => []BodyStaysBounded
<1>1. IInv => BodyStaysBounded
  BY DEF IInv
<1>2. QED
  BY <1>1, BoundaryInvariant, PTL

\* JobsAreEntitled: every job was made for a request whose key was, at a moment of
\* the request, a valid service key of the job's tenant and, through the webhook,
\* had signed the content.
THEOREM JobsAreEntitled == Spec => []JobIsEntitled
<1>1. IInv => JobIsEntitled
  BY DEF IInv
<1>2. QED
  BY <1>1, BoundaryInvariant, PTL

\* RequestsAreTraced: the answer, the one completion event and the job of a request
\* agree on status and trace, whoever created the job.
THEOREM RequestsAreTraced == Spec => []RequestIsTraced
<1>1. ASSUME IInv PROVE RequestIsTraced
  <2>1. ASSUME NEW r \in Requests
        PROVE  Accepted(req[r], jobs) /\ Recorded(req[r], event[r], reply[r])
    BY <1>1, ByRequest DEF Parts
  <2>2. ASSUME NEW r \in Requests, reply[r].status = 202
        PROVE  /\ jobs[SlotOf(r)] # NoJob /\ reply[r].trace = jobs[SlotOf(r)].trace
               /\ jobs[SlotOf(r)].content = req[r].kind.content
    <3>1. reply[r] = [status |-> req[r].status, trace |-> req[r].trace]
      <4>1. NoReply.status # 202 /\ [status |-> 500, trace |-> 0].status # 202
        BY DEF NoReply
      <4>2. \/ reply[r] = NoReply \/ reply[r] = [status |-> 500, trace |-> 0]
            \/ reply[r] = [status |-> req[r].status, trace |-> req[r].trace]
        BY <2>1 DEF Recorded
      <4>3. reply[r] # NoReply
        BY <2>2, <4>1
      <4>4. reply[r] # [status |-> 500, trace |-> 0]
        BY <2>2, <4>1
      <4>5. QED
        BY <4>2, <4>3, <4>4
    <3>2. QED
      BY <2>1, <2>2, <3>1 DEF Accepted, SlotOf
  <2>3. ASSUME NEW r \in Requests
        PROVE  /\ Len(event[r]) <= 1
               /\ req[r].pc = "done" => Len(event[r]) = 1
               /\ event[r] # << >> /\ reply[r] # NoReply =>
                     /\ event[r][1].status = reply[r].status
                     /\ reply[r].trace # 0 => event[r][1].trace = reply[r].trace
    <3> DEFINE known == [status |-> req[r].status, trace |-> req[r].trace]
    <3>1. /\ event[r] = IF req[r].pc = "done" THEN <<known>> ELSE << >>
          /\ \/ reply[r] = NoReply \/ reply[r] = known
             \/ reply[r] = [status |-> 500, trace |-> 0] /\ req[r].status = 500
      BY <2>1 DEF Recorded
    <3>2. Len(<<known>>) = 1 /\ Len(<< >>) = 0 /\ <<known>>[1] = known
      OBVIOUS
    <3>3. known.status = req[r].status /\ known.trace = req[r].trace
      OBVIOUS
    <3> HIDE DEF known
    <3>4. QED
      BY <3>1, <3>2, <3>3
  <2>4. QED
    BY <2>2, <2>3 DEF RequestIsTraced, TraceNamesJob, OneTrueEvent
<1>2. QED
  BY <1>1, BoundaryInvariant, PTL
=============================================================================
