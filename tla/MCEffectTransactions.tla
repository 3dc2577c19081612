------------------------ MODULE MCEffectTransactions ------------------------
(* Model-checking instance of EffectTransactions.  The decide requests are *)
(* interchangeable.                                                        *)
EXTENDS EffectTransactions, TLC

Symmetry == Permutations(Requests)
=============================================================================
