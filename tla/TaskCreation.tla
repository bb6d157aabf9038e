----------------------------- MODULE TaskCreation -----------------------------
(***************************************************************************)
(* POST /tasks without an idempotency key: TasksService.create.  INSERT    *)
(* and enqueue are two systems and no transaction spans them, so the       *)
(* handler deletes the row again when the enqueue throws.                  *)
(***************************************************************************)
EXTENDS Broker

VARIABLE creator        \* per task id, where the request that creates it stands

\* The statement about to run, or how the request ended.
CreatorStates == {"insert", "enqueue", "rollback", "created", "failed"}

create_frame == UNCHANGED <<events, deliveries, notice, published, crashes>>

-----------------------------------------------------------------------------
\* tasksRepo.insert commits.
Insert(t) ==
    /\ creator[t] = "insert"
    /\ insert(t)
    /\ creator' = [creator EXCEPT ![t] = "enqueue"]
    /\ UNCHANGED job /\ create_frame

\* tasksRepo.insert throws and nothing was written.
InsertThrows(t) ==
    /\ "db" \in Faults
    /\ creator[t] = "insert"
    /\ creator' = [creator EXCEPT ![t] = "failed"]
    /\ UNCHANGED <<tasks, job>> /\ create_frame

\* queue.enqueue returns and the client gets its 202.
Enqueue(t) ==
    /\ creator[t] = "enqueue"
    /\ enqueueDispatch(t)
    /\ creator' = [creator EXCEPT ![t] = "created"]
    /\ UNCHANGED tasks /\ create_frame

\* queue.enqueue throws.  Redis may have added the job before the reply was lost.
EnqueueThrows(t) ==
    /\ "redis" \in Faults
    /\ creator[t] = "enqueue"
    /\ enqueueDispatch(t) \/ UNCHANGED job
    /\ creator' = [creator EXCEPT ![t] = "rollback"]
    /\ UNCHANGED tasks /\ create_frame

\* The catch block's deleteById: it has no condition on the status.
Rollback(t) ==
    /\ creator[t] = "rollback"
    /\ deleteById(t)
    /\ creator' = [creator EXCEPT ![t] = "failed"]
    /\ UNCHANGED job /\ create_frame

\* The process dies, or the database fails the statement under way (the insert
\* committed but threw, the rollback threw): the row stays behind.
CreatorDies(t) ==
    /\ Faults \cap {"db", "crash"} # {}
    /\ creator[t] \in {"enqueue", "rollback"}
    /\ creator' = [creator EXCEPT ![t] = "failed"]
    /\ UNCHANGED <<tasks, job>> /\ create_frame

CreationInit == creator = [t \in Tasks |-> "insert"]

CreationNext ==
    \E t \in Tasks :
        \/ Insert(t) \/ InsertThrows(t)
        \/ Enqueue(t) \/ EnqueueThrows(t)
        \/ Rollback(t) \/ CreatorDies(t)

CreationType == creator \in [Tasks -> CreatorStates]
=============================================================================
