----------------------- MODULE WorkerSupervisorProofs -----------------------
(***************************************************************************)
(* Proofs about WorkerSupervisor, for every number of slots, jobs, tenants *)
(* and faults.                                                             *)
(***************************************************************************)
EXTENDS WorkerSupervisor, TLAPS

USE SupervisorAssumption

Row == [status : RowStatus, att : 0 .. Attempts, due : BOOLEAN]

\* A row keeps its type when its attempt is over (After).
LEMMA AfterTyped ==
    ASSUME NEW r \in Row, NEW q \in After(r)
    PROVE  q \in Row
BY DEF After, Row, RowStatus

\* Every operation of serve and serve_once keeps the types.
LEMMA TypeStep == TypeOK /\ [Next]_vars => TypeOK'
<1> SUFFICES ASSUME TypeOK, [Next]_vars PROVE TypeOK'
  OBVIOUS
<1> USE DEF TypeOK, Alive, Done, Failed, Places
<1>1. ASSUME NEW j \in Jobs, Arrive(j) \/ DelayElapses(j) \/ LeaseExpires(j)
      PROVE  TypeOK'
  <2>1. CASE Arrive(j)
    BY <2>1 DEF Arrive, proc, RowStatus
  <2>2. CASE DelayElapses(j)
    BY <2>2 DEF DelayElapses, proc, RowStatus
  <2>3. CASE LeaseExpires(j)
    BY <2>3 DEF LeaseExpires, proc, RowStatus
  <2> QED
    BY <1>1, <2>1, <2>2, <2>3
<1>2. ASSUME NEW t \in Slots, Recover(t)
      PROVE  TypeOK'
  <2>1. row' \in [Jobs -> Row]
    <3>1. row \in [Jobs -> Row]
      BY DEF Row
    <3>2. \A j \in Jobs : row'[j] \in Row
      BY <1>2, <3>1, AfterTyped DEF Recover
    <3> QED
      BY <1>2, <3>2 DEF Recover
  <2> QED
    BY <1>2, <2>1 DEF Recover, Row
<1>3. ASSUME NEW t \in Slots, Claim(t)
      PROVE  TypeOK'
  BY <1>3 DEF Claim, Claimable, RowStatus
<1>4. ASSUME NEW t \in Slots, EndRun(t)
      PROVE  TypeOK'
  <2>1. PICK j \in job[t] :
          IF row[j].status = "running"
          THEN \E r \in After(row[j]) : row' = [row EXCEPT ![j] = r]
          ELSE UNCHANGED row
    BY <1>4 DEF EndRun
  <2>2. j \in Jobs /\ row[j] \in Row
    BY DEF Row
  <2>3. row' \in [Jobs -> Row]
    BY <2>1, <2>2, AfterTyped DEF Row
  <2> QED
    BY <1>4, <2>3 DEF EndRun, Row
<1>5. ASSUME NEW t \in Slots, Reserve(t)
      PROVE  TypeOK'
  <2>1. {TenantOf[j] : j \in job[t]} \subseteq Tenants
    OBVIOUS
  <2> QED
    BY <1>5, <2>1 DEF Reserve
<1>6. ASSUME NEW t \in Slots, ClaimNothing(t) \/ CancelTask(t) \/ FailTask(t)
      PROVE  TypeOK'
  BY <1>6 DEF ClaimNothing, CancelTask, FailTask
<1>7. ASSUME NEW t \in Slots, Spawn(t)
      PROVE  TypeOK'
  BY <1>7 DEF Spawn
<1>8. CASE Full \/ Signalled \/ Pause \/ BackedOff \/ Shutdown
  <2>1. CASE Full \/ Signalled \/ Pause
    BY <2>1 DEF Full, Signalled, Pause
  <2>2. CASE BackedOff
    BY <2>2 DEF BackedOff, BackoffStep
  <2>3. CASE Shutdown
    BY <2>3 DEF Shutdown
  <2> QED
    BY <1>8, <2>1, <2>2, <2>3
<1>9. ASSUME NEW T \in SUBSET Slots, Freed(T)
      PROVE  /\ st' \in [Slots -> Alive \cup Done \cup {"none"}]
             /\ job' \in [Slots -> SUBSET Jobs]
             /\ holder' \in [Slots -> SUBSET Tenants]
             /\ active' \subseteq Tenants
  BY <1>9 DEF Freed
<1>10. CASE Returned
  BY <1>10, <1>9 DEF Returned
<1>11. CASE Reap
  BY <1>11, <1>9 DEF Reap, Finished
<1>12. CASE ReapFailed
  BY <1>12, <1>9 DEF ReapFailed, Finished
<1>13. CASE Cancelled
  BY <1>13, <1>9 DEF Cancelled
<1>14. CASE Crash \/ Restart
  <2>1. Fresh => /\ st' \in [Slots -> Alive \cup Done \cup {"none"}]
                 /\ job' \in [Slots -> SUBSET Jobs]
                 /\ holder' \in [Slots -> SUBSET Tenants]
                 /\ exiting' \in BOOLEAN /\ backoff' \in 0 .. MaxBackoff
                 /\ active' \subseteq Tenants /\ excluded' \subseteq Tenants
    <3>0. Fresh => exiting' \in BOOLEAN
      BY Zenon DEF Fresh
    <3>1. Fresh => backoff' \in 0 .. MaxBackoff
      BY DEF Fresh
    <3>2. Fresh => active' \subseteq Tenants /\ excluded' \subseteq Tenants
      BY DEF Fresh
    <3>3. Fresh => st' \in [Slots -> Alive \cup Done \cup {"none"}]
      BY DEF Fresh
    <3>4. Fresh => /\ job' \in [Slots -> SUBSET Jobs]
                   /\ holder' \in [Slots -> SUBSET Tenants]
      BY DEF Fresh
    <3> QED
      BY <3>0, <3>1, <3>2, <3>3, <3>4
  <2>2. CASE Crash
    BY <2>1, <2>2 DEF Crash
  <2>3. CASE Restart
    BY <2>1, <2>3 DEF Restart
  <2> QED
    BY <1>14, <2>2, <2>3
<1>15. CASE UNCHANGED vars
  BY <1>15 DEF vars, proc
<1> QED
  BY <1>1, <1>2, <1>3, <1>4, <1>5, <1>6, <1>7, <1>8, <1>10, <1>11, <1>12,
     <1>13, <1>14, <1>15 DEF Next, Task, Serve

-----------------------------------------------------------------------------
Safe == OneSlotPerTenant /\ NoLostReservation /\ Snapshot

Unreserved == {"start", "poll", "claimed"}

\* Reaping or cancelling the tasks T (Freed) releases exactly their tenants.
LEMMA FreedKeeps ==
    ASSUME TypeOK, Safe, NEW T \in SUBSET Slots, Freed(T),
           \A t \in Slots \ T : st[t] \notin Unreserved
    PROVE  Safe'
<1> USE DEF TypeOK, Safe, Unreserved
<1>1. \A t \in Slots : /\ st'[t] = IF t \in T THEN "none" ELSE st[t]
                       /\ job'[t] = IF t \in T THEN {} ELSE job[t]
                       /\ holder'[t] = IF t \in T THEN {} ELSE holder[t]
  BY DEF Freed
<1>2. \A t \in Slots : st'[t] \notin Unreserved
  BY <1>1
<1>3. OneSlotPerTenant'
  BY <1>1 DEF OneSlotPerTenant, Alive
<1>4. active' = Reserved'
  <2>1. ASSUME NEW x \in active' PROVE x \in Reserved'
    <3>1. PICK t \in Slots : x \in holder[t]
      BY <2>1 DEF Freed, NoLostReservation, Reserved
    <3>2. t \notin T
      BY <2>1, <3>1 DEF Freed
    <3> QED
      BY <1>1, <3>1, <3>2 DEF Reserved
  <2>2. ASSUME NEW x \in Reserved' PROVE x \in active'
    <3>1. PICK t \in Slots : x \in holder'[t]
      BY <2>2 DEF Reserved
    <3>2. t \notin T /\ x \in holder[t]
      BY <1>1, <3>1
    <3>3. x \in active
      BY <3>2 DEF NoLostReservation, Reserved
    <3>4. \A u \in T : x \notin holder[u]
      BY <3>2 DEF Snapshot
    <3> QED
      BY <3>3, <3>4 DEF Freed
  <2> QED
    BY <2>1, <2>2
<1>5. NoLostReservation'
  BY <1>1, <1>4 DEF NoLostReservation
<1>6. Snapshot'
  BY <1>1, <1>2 DEF Snapshot
<1> QED
  BY <1>3, <1>5, <1>6

\* A task that moves on without a claim or a reservation disturbs nothing.
LEMMA MoveKeeps ==
    ASSUME TypeOK, Safe, NEW t \in Slots, NEW s,
           st[t] \in Alive, s \in Done \/ (s = "poll" /\ st[t] = "start"),
           st' = [st EXCEPT ![t] = s],
           UNCHANGED <<pc, active, cur, excluded, job, holder>>
    PROVE  Safe'
<1> USE DEF TypeOK, Safe, Alive, Done, Failed
<1>1. \A u \in Slots : st'[u] = IF u = t THEN s ELSE st[u]
  OBVIOUS
<1>2. OneSlotPerTenant'
  BY <1>1 DEF OneSlotPerTenant
<1>3. NoLostReservation'
  BY <1>1 DEF NoLostReservation, Reserved
<1>4. Snapshot'
  BY <1>1 DEF Snapshot
<1> QED
  BY <1>2, <1>3, <1>4

\* claim_next selects a tenant no other task works for, because the snapshot it
\* excludes is still the set of reservations.
LEMMA ClaimKeeps ==
    ASSUME TypeOK, Safe, NEW t \in Slots, Claim(t)
    PROVE  Safe'
<1> USE DEF TypeOK, Safe, Alive, Done, Failed
<1>1. PICK j \in Claimable : job' = [job EXCEPT ![t] = {j}]
  BY DEF Claim
<1>2. j \in Jobs /\ TenantOf[j] \notin excluded
  BY <1>1 DEF Claimable
<1>3. /\ \A u \in Slots : st'[u] = IF u = t THEN "claimed" ELSE st[u]
      /\ \A u \in Slots : job'[u] = IF u = t THEN {j} ELSE job[u]
      /\ st[t] = "poll"
      /\ UNCHANGED <<pc, active, cur, excluded, holder>>
  BY <1>1 DEF Claim
<1>4. excluded = active /\ t = cur
  BY <1>3 DEF Snapshot
<1>5. ASSUME NEW u \in Slots, u # t, st[u] \in Alive, NEW i \in job[u]
      PROVE  TenantOf[i] # TenantOf[j]
  <2>1. st[u] = "run"
    BY <1>4, <1>5 DEF Snapshot
  <2>2. TenantOf[i] \in holder[u]
    BY <1>5, <2>1 DEF NoLostReservation
  <2>3. TenantOf[i] \in active
    BY <2>2 DEF NoLostReservation, Reserved
  <2> QED
    BY <1>2, <1>4, <2>3
<1>6. OneSlotPerTenant'
  <2> SUFFICES ASSUME NEW u \in Slots, NEW v \in Slots,
                      NEW i \in job'[u], NEW k \in job'[v],
                      u # v, st'[u] \in Alive, st'[v] \in Alive
               PROVE  TenantOf[i] # TenantOf[k]
    BY DEF OneSlotPerTenant
  <2>1. CASE u = t
    BY <1>3, <1>5, <2>1
  <2>2. CASE v = t
    BY <1>3, <1>5, <2>2
  <2>3. CASE u # t /\ v # t
    BY <1>3, <2>3 DEF OneSlotPerTenant
  <2> QED
    BY <2>1, <2>2, <2>3
<1>7. NoLostReservation'
  BY <1>3 DEF NoLostReservation, Reserved
<1>8. Snapshot'
  BY <1>2, <1>3, <1>4 DEF Snapshot
<1> QED
  BY <1>6, <1>7, <1>8

\* on_claim reserves a tenant that nobody holds.
LEMMA ReserveKeeps ==
    ASSUME TypeOK, Safe, NEW t \in Slots, Reserve(t)
    PROVE  Safe'
<1> USE DEF TypeOK, Safe, Alive, Done, Failed
<1> DEFINE ids == {TenantOf[j] : j \in job[t]}
<1>1. /\ st[t] = "claimed"
      /\ \A u \in Slots : st'[u] = IF u = t THEN "run" ELSE st[u]
      /\ \A u \in Slots : holder'[u] = IF u = t THEN holder[u] \cup ids ELSE holder[u]
      /\ active' = active \cup ids
      /\ UNCHANGED <<pc, cur, excluded, job>>
  BY DEF Reserve
<1>2. holder[t] = {} /\ t = cur /\ excluded = active
  BY <1>1 DEF Snapshot
<1>3. ids \cap active = {}
  BY <1>1, <1>2 DEF Snapshot
<1>4. OneSlotPerTenant'
  BY <1>1 DEF OneSlotPerTenant
<1>5. active' = Reserved'
  <2>1. active = Reserved
    BY DEF NoLostReservation
  <2>2. \A x \in active' : x \in Reserved'
    <3> SUFFICES ASSUME NEW x \in active'
                 PROVE  \E u \in Slots : x \in holder'[u]
      BY DEF Reserved
    <3>1. CASE x \in ids
      BY <1>1, <3>1
    <3>2. CASE x \in active
      <4>1. PICK u \in Slots : x \in holder[u]
        BY <2>1, <3>2 DEF Reserved
      <4> QED
        BY <1>1, <4>1
    <3> QED
      BY <1>1, <3>1, <3>2
  <2>3. \A x \in Reserved' : x \in active'
    <3> SUFFICES ASSUME NEW u \in Slots, NEW x \in holder'[u]
                 PROVE  x \in active'
      BY DEF Reserved
    <3>1. x \in holder[u] \/ x \in ids
      BY <1>1
    <3> QED
      BY <1>1, <2>1, <3>1 DEF Reserved
  <2> QED
    BY <2>2, <2>3
<1>6. NoLostReservation'
  BY <1>1, <1>2, <1>5 DEF NoLostReservation
<1>7. \A u \in Slots : u # t => st[u] \notin Unreserved
  BY <1>2 DEF Snapshot, Unreserved
<1>8. \A u \in Slots : u # t => holder[u] \cap ids = {}
  BY <1>3 DEF NoLostReservation, Reserved
<1>9. \A u, v \in Slots : u # v => holder'[u] \cap holder'[v] = {}
  <2>1. holder'[t] = ids
    BY <1>1, <1>2
  <2>2. \A u \in Slots : u # t => holder'[u] = holder[u]
    BY <1>1
  <2> QED
    BY <1>8, <2>1, <2>2 DEF Snapshot
<1>10. Snapshot'
  BY <1>1, <1>7, <1>9 DEF Snapshot, Unreserved
<1> QED
  BY <1>4, <1>6, <1>10

\* Every step keeps the reservations and the exclusion.
LEMMA SafeStep == TypeOK /\ Safe /\ [Next]_vars => Safe'
<1> SUFFICES ASSUME TypeOK, Safe, [Next]_vars PROVE Safe'
  OBVIOUS
<1>0. ASSUME pc \notin {"polling", "cancel"}
      PROVE  \A t \in Slots : st[t] \notin Unreserved
  BY <1>0 DEF Safe, Snapshot, Unreserved
<1>1. ASSUME UNCHANGED <<active, cur, excluded, st, job, holder>>,
             pc' = pc \/ pc' = "cancel" \/ \A t \in Slots : st[t] \notin Unreserved
      PROVE  Safe'
  <2>1. OneSlotPerTenant' /\ NoLostReservation'
    BY <1>1 DEF Safe, OneSlotPerTenant, NoLostReservation, Reserved
  <2>2. Snapshot'
    BY <1>1 DEF Safe, Snapshot, Unreserved
  <2> QED
    BY <2>1, <2>2 DEF Safe
<1>2. ASSUME NEW j \in Jobs, Arrive(j) \/ DelayElapses(j) \/ LeaseExpires(j)
      PROVE  Safe'
  BY <1>1, <1>2 DEF Arrive, DelayElapses, LeaseExpires, proc
<1>3. ASSUME NEW t \in Slots, Recover(t) \/ ClaimNothing(t) \/ EndRun(t) \/ CancelTask(t)
      PROVE  Safe'
  <2>1. CASE Recover(t)
    BY <2>1, MoveKeeps DEF Recover, Alive
  <2>2. CASE ClaimNothing(t)
    <3>1. /\ st[t] \in Alive /\ "idle" \in Done
          /\ st' = [st EXCEPT ![t] = "idle"]
          /\ UNCHANGED <<pc, active, cur, excluded, job, holder>>
      BY <2>2 DEF ClaimNothing, Alive, Done
    <3> QED
      BY <3>1, MoveKeeps
  <2>3. CASE EndRun(t)
    <3>1. /\ st[t] \in Alive /\ "worked" \in Done
          /\ st' = [st EXCEPT ![t] = "worked"]
          /\ UNCHANGED <<pc, active, cur, excluded, job, holder>>
      BY <2>3 DEF EndRun, Alive, Done
    <3> QED
      BY <3>1, MoveKeeps
  <2>4. CASE CancelTask(t)
    BY <2>4, MoveKeeps DEF CancelTask, Done
  <2> QED
    BY <1>3, <2>1, <2>2, <2>3, <2>4
<1>4. ASSUME NEW t \in Slots, FailTask(t)
      PROVE  Safe'
  BY <1>4, MoveKeeps DEF FailTask, Done
<1>5. ASSUME NEW t \in Slots, Claim(t) PROVE Safe'
  BY <1>5, ClaimKeeps
<1>6. ASSUME NEW t \in Slots, Reserve(t) PROVE Safe'
  BY <1>6, ReserveKeeps
<1>7. ASSUME NEW t \in Slots, Spawn(t) PROVE Safe'
  <2>1. /\ \A u \in Slots : st[u] \notin Unreserved
        /\ st[t] = "none" /\ pc' = "polling" /\ cur' = t /\ excluded' = active
        /\ \A u \in Slots : st'[u] = IF u = t THEN "start" ELSE st[u]
        /\ UNCHANGED <<active, job, holder>>
    BY <1>0, <1>7 DEF Spawn, TypeOK
  <2>2. job[t] = {} /\ holder[t] = {}
    BY <2>1 DEF Safe, Snapshot
  <2>3. OneSlotPerTenant'
    BY <2>1, <2>2 DEF Safe, OneSlotPerTenant, Alive
  <2>4. NoLostReservation'
    BY <2>1 DEF Safe, NoLostReservation, Reserved
  <2>5. Snapshot'
    BY <2>1, <2>2 DEF Safe, Snapshot, Unreserved
  <2> QED
    BY <2>3, <2>4, <2>5 DEF Safe
<1>8. CASE Full \/ Pause \/ BackedOff
  BY <1>0, <1>1, <1>8 DEF Full, Pause, BackedOff
<1>9. CASE Signalled
  <2>1. \A t \in Slots : st[t] \notin Unreserved
    BY <1>9 DEF Signalled, Safe, Snapshot, Unreserved
  <2> QED
    BY <1>1, <1>9, <2>1 DEF Signalled
<1>10. CASE Shutdown
  BY <1>1, <1>10 DEF Shutdown
<1>11. CASE Returned
  <2>1. \A t \in Slots \ {cur} : st[t] \notin Unreserved
    BY DEF Safe, Snapshot, Unreserved
  <2> QED
    BY <1>11, <2>1, FreedKeeps DEF Returned, TypeOK
<1>12. CASE Reap
  BY <1>0, <1>12, FreedKeeps DEF Reap, Finished
<1>13. CASE ReapFailed
  BY <1>0, <1>13, FreedKeeps DEF ReapFailed, Finished
<1>14. CASE Cancelled
  BY <1>14, FreedKeeps DEF Cancelled
<1>15. CASE Crash \/ Restart
  <2>1. /\ active' = {}
        /\ \A t \in Slots : st'[t] = "none" /\ job'[t] = {} /\ holder'[t] = {}
    BY <1>15 DEF Crash, Restart, Fresh
  <2> QED
    BY <2>1 DEF Safe, OneSlotPerTenant, NoLostReservation, Reserved, Snapshot
<1>16. CASE UNCHANGED vars
  BY <1>1, <1>16 DEF vars, proc
<1> QED
  BY <1>2, <1>3, <1>4, <1>5, <1>6, <1>7, <1>8, <1>9, <1>10, <1>11, <1>12,
     <1>13, <1>14, <1>15, <1>16 DEF Next, Task, Serve

\* The inductive invariant of serve: the reservations are exact, no tenant is
\* reserved twice, and the snapshot given to a polling task stays exact.
THEOREM SupervisorInvariant == Spec => []IInv
<1>1. Init => IInv
  <2> SUFFICES ASSUME Init PROVE IInv
    OBVIOUS
  <2>1. TypeOK
    <3>0. exiting \in BOOLEAN
      BY Zenon DEF Init
    <3>1. /\ pc \in Places /\ backoff \in 0 .. MaxBackoff
          /\ faults \in 0 .. MaxFaults /\ cur \in Slots
          /\ active \subseteq Tenants /\ excluded \subseteq Tenants
      BY DEF Init, Places
    <3>2. /\ st \in [Slots -> Alive \cup Done \cup {"none"}]
          /\ job \in [Slots -> SUBSET Jobs]
          /\ holder \in [Slots -> SUBSET Tenants]
      BY DEF Init
    <3>3. row \in [Jobs -> [status : RowStatus, att : 0 .. Attempts, due : BOOLEAN]]
      BY DEF Init, RowStatus
    <3> QED
      BY <3>0, <3>1, <3>2, <3>3 DEF TypeOK
  <2>2. OneSlotPerTenant
    BY DEF Init, OneSlotPerTenant
  <2>3. NoLostReservation
    <3>1. Reserved = {}
      BY DEF Init, Reserved
    <3> QED
      BY <3>1 DEF Init, NoLostReservation
  <2>4. Snapshot
    BY DEF Init, Snapshot
  <2> QED
    BY <2>1, <2>2, <2>3, <2>4 DEF IInv
<1>2. IInv /\ [Next]_vars => IInv'
  BY TypeStep, SafeStep DEF IInv, Safe
<1> QED
  BY <1>1, <1>2, PTL DEF Spec

\* No two tasks of one worker process work for the same tenant.
THEOREM TenantsApart == Spec => []OneSlotPerTenant
<1>1. IInv => OneSlotPerTenant
  BY DEF IInv
<1> QED
  BY <1>1, SupervisorInvariant, PTL

\* No error path of serve loses or leaks a reservation.
THEOREM ReservationsExact == Spec => []NoLostReservation
<1>1. IInv => NoLostReservation
  BY DEF IInv
<1> QED
  BY <1>1, SupervisorInvariant, PTL

\* SupervisorTypesHold: serve keeps its types, so the backoff stays bounded.
THEOREM SupervisorTypesHold == Spec => []TypeOK
<1>1. IInv => TypeOK
  BY DEF IInv
<1>2. QED
  BY <1>1, SupervisorInvariant, PTL

\* TenantsStayReserved: tenants are kept apart and reserved exactly, for any number
\* of slots, jobs and faults.
THEOREM TenantsStayReserved == Spec => []TenantsReserved
<1>1. OneSlotPerTenant /\ NoLostReservation => TenantsReserved
  BY DEF TenantsReserved
<1>2. QED
  BY <1>1, TenantsApart, ReservationsExact, PTL

=============================================================================
