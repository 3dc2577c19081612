----------------------------- MODULE MCAgentRun -----------------------------
(***************************************************************************)
(* The two halves of a run in one instance: the way of a document up to    *)
(* the preflight (Documents), and the loop that starts when the preflight  *)
(* lets the run go on (AgentLoop).  They share no variable, so each is     *)
(* explored while the other stays in one of its initial states.            *)
(***************************************************************************)
EXTENDS MCDocuments, MCAgentLoop

VARIABLE half   \* the half that is explored

IdleLoop ==
    /\ Init
    /\ profile = CHOOSE f \in [Names -> Rules] : TRUE
    /\ trusted = [risk |-> FALSE, docError |-> FALSE]

IdleDocument ==
    /\ DocumentInit
    /\ doc = CHOOSE d \in Plain : ~d.large
    /\ file = Freight /\ release = Offer(1, Media, Both) /\ request = "new"

RunInit == \/ half = "document" /\ DocumentInit /\ IdleLoop
           \/ half = "loop" /\ Init /\ IdleDocument

RunNext == \/ half = "document" /\ DocumentNext /\ UNCHANGED <<half, vars>>
           \/ half = "loop" /\ Next /\ UNCHANGED <<half, documentVars>>

RunSpec == RunInit /\ [][RunNext]_<<half, vars, documentVars>>
=============================================================================
