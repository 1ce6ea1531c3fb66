--------------------------- MODULE MCModelLifecycle ---------------------------
(* Two trainings in flight at once, of one kind so that the runtime of one can *)
(* stand in for the other's estimator, or of two; one crash anywhere; one      *)
(* request whose capture and answers fall anywhere in between.                 *)
EXTENDS ModelLifecycle
=============================================================================
