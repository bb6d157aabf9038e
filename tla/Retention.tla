------------------------------ MODULE Retention ------------------------------
(***************************************************************************)
(* DataRetentionProcessor over MaintenanceRepository.deleteOldData, beside *)
(* the whole proxy: the one job that deletes events, and rows of tasks     *)
(* other actors may still be at work on.                                   *)
(***************************************************************************)
EXTENDS Proxy

CONSTANTS Retainers,                    \* the worker replicas
          RETENTION_DELETE_BATCH_SIZE

ASSUME RetentionAssumption == RETENTION_DELETE_BATCH_SIZE \in Nat \ {0}

VARIABLES aged,         \* tasks whose created_at lies before the cutoff
          retention     \* per replica, where deleteOldData stands and its batch

retentionVars == <<aged, retention>>

GotoRetain(r, pc, batch) == retention' = [retention EXCEPT ![r] = [pc |-> pc, batch |-> batch]]

\* What retention never touches.
besides_retention ==
    UNCHANGED <<job, deliveries, notice, published, creator, dispatchVars, callVars,
                delivered, sweeper>>

-----------------------------------------------------------------------------
\* Retention days pass.  Nothing bounds how long a task waits in the queue, and
\* its claim renews its deadline, so a task of any status may be that old.
Age(t) ==
    /\ Exists(t) /\ t \notin aged
    /\ aged' = aged \cup {t}
    /\ UNCHANGED <<tableVars, crashes, retention>> /\ besides_retention

\* The cron pattern fires.
RetentionTick(r) ==
    /\ retention[r].pc = "idle"
    /\ GotoRetain(r, "select", {})
    /\ UNCHANGED <<tableVars, crashes, aged>> /\ besides_retention

Old_anyStatus == {t \in aged : Exists(t)}
Old_finished == {t \in aged : tasks[t].status \in {"COMPLETED", "CANCELLED"}}

\* WHERE status IN (...) AND created_at < cutoff.
Old == {t \in aged : tasks[t].status \in TerminalStatuses}

\* SELECT id ... LIMIT: an empty batch ends the loop.
Select(r) ==
    /\ retention[r].pc = "select"
    /\ \E batch \in SUBSET Old :
          /\ Cardinality(batch) <= RETENTION_DELETE_BATCH_SIZE
          /\ batch = Old \/ Cardinality(batch) = RETENTION_DELETE_BATCH_SIZE
          /\ GotoRetain(r, IF batch = {} THEN "idle" ELSE "delete", batch)
    /\ UNCHANGED <<tableVars, crashes, aged>> /\ besides_retention

Without(table, batch, nothing) ==
    [t \in Tasks |-> IF t \in batch THEN nothing ELSE table[t]]

Delete_eventsFirst(r) ==
    /\ retention[r].pc = "delete"
    /\ events' = Without(events, retention[r].batch, <<>>)
    /\ GotoRetain(r, "select", {})
    /\ UNCHANGED <<tasks, crashes, aged>> /\ besides_retention

\* One transaction deletes the events and the rows of the ids selected earlier,
\* with no second look at their status.  A full batch is followed by another.
Delete(r) ==
    /\ retention[r].pc = "delete"
    /\ events' = Without(events, retention[r].batch, <<>>)
    /\ tasks' = Without(tasks, retention[r].batch, Absent)
    /\ GotoRetain(r, IF Cardinality(retention[r].batch) >= RETENTION_DELETE_BATCH_SIZE
                     THEN "select" ELSE "idle", {})
    /\ UNCHANGED <<crashes, aged>> /\ besides_retention

\* A statement throws or the worker dies: with attempts = 1 the next cron starts over.
RetentionFails(r) ==
    /\ retention[r].pc # "idle" /\ crashes < MaxCrashes
    /\ crashes' = crashes + 1
    /\ GotoRetain(r, "idle", {})
    /\ UNCHANGED <<tableVars, aged>> /\ besides_retention

-----------------------------------------------------------------------------
allVars == <<vars, retentionVars>>

RetentionInit ==
    /\ Init
    /\ aged = {}
    /\ retention = [r \in Retainers |-> [pc |-> "idle", batch |-> {}]]

RetentionStep(r) == RetentionTick(r) \/ Select(r) \/ Delete(r)

RetentionNext ==
    \/ Next /\ UNCHANGED retentionVars
    \/ \E t \in Tasks : Age(t)
    \/ \E r \in Retainers : RetentionStep(r) \/ RetentionFails(r)

RetentionSpec == RetentionInit /\ [][RetentionNext]_allVars

\* The cron fires again and again, and a job that runs keeps running.
FairRetentionSpec == RetentionSpec /\ \A r \in Retainers : WF_allVars(RetentionStep(r))

-----------------------------------------------------------------------------
(* Tasks in flight are never pruned: though select and delete are separate  *)
(* statements, what was over when it was selected is over, or gone, when it *)
(* is deleted.                                                              *)
NoneInFlightPruned ==
    \A r \in Retainers : \A t \in retention[r].batch :
        retention[r].pc = "delete" => tasks[t].status \in TerminalStatuses \cup {"ABSENT"}

(* As long as a task's row exists its log is whole: every event a call has  *)
(* logged is there for the streams to replay.                               *)
LogKeptWithRow ==
    \A c \in Calls :
        Exists(task(c)) /\ call[c].seq > 0 => call[c].seq \in DOMAIN events[task(c)]

(* Data of old tasks that are over is deleted in the end.                   *)
OldDataGoes ==
    \A t \in Tasks :
        t \in aged /\ tasks[t].status \in TerminalStatuses ~> ~Exists(t)
=============================================================================
