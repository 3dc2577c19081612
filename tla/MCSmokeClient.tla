--------------------------- MODULE MCSmokeClient ---------------------------
(***************************************************************************)
(* Instances of SmokeClient.                                               *)
(***************************************************************************)
EXTENDS SmokeClient
=============================================================================
