-------------------------------- MODULE Claims --------------------------------
(***************************************************************************)
(* What the repository's docs say of the sweeper and its code does not     *)
(* keep: a run finds a behaviour of Proxy that refutes it.                 *)
(***************************************************************************)
EXTENDS Proxy

(* The sweeper fails a task stuck in PROCESSING after expiresAt             *)
(* (OPERATIONS.md).  It does not while an expired PENDING task shares its   *)
(* batch: the CHECK violation aborts the whole batch, every time.           *)
StuckIsFailed ==
    \A t \in Tasks :
        tasks[t].status = "PROCESSING" /\ tasks[t].expiresAt = "passed"
            ~> tasks[t].status # "PROCESSING"
=============================================================================
