--------------------------- MODULE MCProviderRun ---------------------------
(* Instances of ProviderRun for TLC.                                       *)
EXTENDS ProviderRun
=============================================================================
