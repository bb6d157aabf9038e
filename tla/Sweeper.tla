-------------------------------- MODULE Sweeper --------------------------------
(***************************************************************************)
(* TimeoutSweeperProcessor.process over                                    *)
(* MaintenanceRepository.expireTimedOutTasksBatch, and the clock that      *)
(* makes deadlines pass.  One cron job at a time is scheduled, but a sweep *)
(* that outlasts its interval runs beside the next one on another worker.  *)
(***************************************************************************)
EXTENDS ApiCalls, Dispatch

CONSTANTS Sweepers,     \* the worker replicas
          BatchSize     \* SWEEP_BATCH_SIZE (500)

ASSUME SweeperAssumption == BatchSize \in Nat \ {0}

VARIABLE sweeper        \* per replica, where its sweep stands and what it has to publish

SweeperStates == [pc : {"idle", "sweep", "publish"}, batch : SUBSET (Tasks \X Nat)]

GotoSweep(s, pc, batch) == sweeper' = [sweeper EXCEPT ![s] = [pc |-> pc, batch |-> batch]]

sweep_frame == UNCHANGED <<job, deliveries, notice, crashes, callVars, dispatchVars>>

-----------------------------------------------------------------------------
\* The clock passes a live row's expires_at.
Elapse(t) ==
    /\ tasks[t].status \in ActiveStatuses /\ tasks[t].expiresAt = "ahead"
    /\ tasks' = [tasks EXCEPT ![t].expiresAt = "passed"]
    /\ UNCHANGED <<events, published, sweeper>> /\ sweep_frame

\* The cron pattern fires.
Tick(s) ==
    /\ sweeper[s].pc = "idle"
    /\ GotoSweep(s, "sweep", {})
    /\ UNCHANGED <<tasks, events, published>> /\ sweep_frame

Expired_anyStatus ==
    {t \in Tasks : tasks[t].status # "ABSENT" /\ tasks[t].expiresAt = "passed"}

\* WHERE status IN ('PENDING', 'PROCESSING') AND expires_at < now.
Expired == {t \in Tasks : tasks[t].status \in ActiveStatuses /\ tasks[t].expiresAt = "passed"}

\* Rows a concurrent transaction may have locked, which SKIP LOCKED passes over.
\* (A cancel is one transaction that ends the task: passing over its row is the
\* same as running after it.)
Locked(s) ==
    {t \in Tasks :
        \/ \E c \in Calls : task(c) = t /\ At(c, "update")
        \/ \E d \in Deliveries : dispatcher[<<t, d>>] \in {"claim"} \cup DispatchErrors
        \/ \E r \in Sweepers \ {s} : sweeper[r].pc = "sweep"}

\* The batches FOR UPDATE SKIP LOCKED LIMIT BatchSize may return.
Batches(s) ==
    {E \in SUBSET Expired :
        /\ Cardinality(E) <= BatchSize
        /\ Cardinality(E) = BatchSize \/ Expired \ E \subseteq Locked(s)}

\* SET status, completed_at, error: processing_started_at is left as it is.
TimedOut(row) == [row EXCEPT !.status = "FAILED", !.completedAt = TRUE,
                             !.error = "BUSINESS_TIMEOUT"]

\* Nothing to expire: the loop breaks and the job is done.
SweepEnds(s) ==
    /\ sweeper[s].pc = "sweep"
    /\ {} \in Batches(s)
    /\ GotoSweep(s, "idle", {})
    /\ UNCHANGED <<tasks, events, published>> /\ sweep_frame

\* The transaction commits: every row of the batch fails and gets its event.
SweepBatch(s) ==
    /\ sweeper[s].pc = "sweep"
    /\ \E E \in Batches(s) \ {{}} :
          /\ \A t \in E : tasks_valid_state_data(TimedOut(tasks[t]))
          /\ tasks' = [t \in Tasks |-> IF t \in E THEN TimedOut(tasks[t]) ELSE tasks[t]]
          /\ events' = [t \in Tasks |-> IF t \in E THEN Append(events[t], "failed") ELSE events[t]]
          /\ GotoSweep(s, "publish", {<<t, nextSeq(t)>> : t \in E})
    /\ UNCHANGED published /\ sweep_frame

\* The transaction aborts and, with attempts = 1, the sweep with it: a row of the
\* batch would break the CHECK constraint, a progress event took the seq this
\* transaction computed without the advisory lock, or the database failed.
SweepAborts(s) ==
    /\ sweeper[s].pc = "sweep"
    /\ \E E \in Batches(s) \ {{}} :
          \/ \E t \in E : ~tasks_valid_state_data(TimedOut(tasks[t]))
          \/ \E c \in Calls : task(c) \in E /\ At(c, "event")
          \/ "db" \in Faults
    /\ GotoSweep(s, "idle", {})
    /\ UNCHANGED <<tasks, events, published>> /\ sweep_frame

\* Promise.allSettled over the batch: a publish that fails is logged and lost.
SweepPublishes(s) ==
    /\ sweeper[s].pc = "publish"
    /\ \E lost \in SUBSET (IF "redis" \in Faults THEN sweeper[s].batch ELSE {}) :
          published' = published \cup (sweeper[s].batch \ lost)
    /\ GotoSweep(s, "sweep", {})
    /\ UNCHANGED <<tasks, events>> /\ sweep_frame

\* The worker dies between the commit and the publishes.
SweeperDies(s) ==
    /\ "crash" \in Faults
    /\ sweeper[s].pc = "publish"
    /\ GotoSweep(s, "idle", {})
    /\ UNCHANGED <<tasks, events, published>> /\ sweep_frame

-----------------------------------------------------------------------------
SweeperInit == sweeper = [s \in Sweepers |-> [pc |-> "idle", batch |-> {}]]

SweepStep(s) == SweepEnds(s) \/ SweepBatch(s) \/ SweepAborts(s) \/ SweepPublishes(s)

SweeperNext ==
    \/ \E t \in Tasks : Elapse(t)
    \/ \E s \in Sweepers : Tick(s) \/ SweepStep(s) \/ SweeperDies(s)

SweeperType == sweeper \in [Sweepers -> SweeperStates]
=============================================================================
