------------------------- MODULE MCWorkerSupervisor -------------------------
(* Model-checking instance of WorkerSupervisor: two jobs of one tenant and *)
(* one of another.                                                         *)
EXTENDS WorkerSupervisor, TLC

CONSTANTS a1, a2, b1, ta, tb

MCTenantOf == (a1 :> ta) @@ (a2 :> ta) @@ (b1 :> tb)
=============================================================================
