----------------------------- MODULE JobContract -----------------------------
(***************************************************************************)
(* What a client of GET /v1/jobs/{id} may rely on: the status and approval *)
(* it reads change only along these moves, both in the same step, and the  *)
(* job is started at most MaxRetries + 1 times.                            *)
(***************************************************************************)
EXTENDS Naturals

CONSTANTS Jobs, MaxRetries

VARIABLES view,   \* per job, the pair <<status, approval status>> it shows
          tries   \* per job, the attempt_count it shows

\* The moves of one job that do not start an attempt.
Moves ==
    { << <<"absent", "none">>,  <<"queued", "none">> >>,
      << <<"running", "none">>, <<"queued", "none">> >>,
      << <<"running", "none">>, <<"awaiting_approval", "pending">> >>,
      << <<"running", "none">>, <<"succeeded", "none">> >>,
      << <<"running", "none">>, <<"failed", "none">> >>,
      << <<"running", "none">>, <<"failed_uncertain", "none">> >>,
      << <<"awaiting_approval", "pending">>, <<"succeeded", "approved">> >>,
      << <<"awaiting_approval", "pending">>, <<"succeeded", "rejected">> >>,
      << <<"awaiting_approval", "pending">>, <<"failed", "expired">> >> }

Init == /\ view  = [j \in Jobs |-> <<"absent", "none">>]
        /\ tries = [j \in Jobs |-> 0]

\* One attempt of one job starts.
Start(j) ==
    /\ view[j] = <<"queued", "none">>
    /\ tries[j] <= MaxRetries
    /\ view'  = [view EXCEPT ![j] = <<"running", "none">>]
    /\ tries' = [tries EXCEPT ![j] = @ + 1]

\* Any number of jobs move; none starts.
Move ==
    /\ \A j \in Jobs : view'[j] = view[j] \/ <<view[j], view'[j]>> \in Moves
    /\ tries' = tries

Next == Move \/ \E j \in Jobs : Start(j)

Spec == Init /\ [][Next]_<<view, tries>>
=============================================================================
