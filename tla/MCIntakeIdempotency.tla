------------------------- MODULE MCIntakeIdempotency -------------------------
(* Model-checking instance of IntakeIdempotency.  Keys and contents are    *)
(* interchangeable: that one request has the first of each loses nothing,  *)
(* and unlike a symmetry set it may be combined with liveness.             *)
EXTENDS IntakeIdempotency, TLC

CanonicalInit ==
    LET r == CHOOSE x \in Requests : TRUE IN
    /\ IntakeInit
    /\ req[r].key = CHOOSE k \in Keys : TRUE
    /\ req[r].content = CHOOSE c \in Contents : TRUE

CanonicalSpec == /\ CanonicalInit /\ [][IntakeNext]_intakeVars
                 /\ \A r \in Requests : WF_intakeVars(Step(r))
=============================================================================
