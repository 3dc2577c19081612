--------------------------- MODULE MCJobLifecycle ---------------------------
(* Model-checking instance of JobLifecycle: one job with its attempts.     *)
(* Jobs meet only in the two batch transactions, which take each due row   *)
(* by itself.                                                              *)
EXTENDS JobLifecycle
=============================================================================
