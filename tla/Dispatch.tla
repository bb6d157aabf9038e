------------------------------- MODULE Dispatch -------------------------------
(***************************************************************************)
(* DispatchProcessor.process, the worker side of the dispatch queue, and   *)
(* the executor it POSTs to.  The job is delivered at least once, so       *)
(* several runs of the handler may exist for one task, at the same time    *)
(* when the first only hangs; <<t, d>> is the run of t's d-th delivery.    *)
(***************************************************************************)
EXTENDS Broker

VARIABLES dispatcher,   \* per run, the statement it is about to execute
          posted,       \* the runs that got as far as POSTing to the executor
          accepted      \* tasks whose POST, and so callbackToken, the executor has

dispatchVars == <<dispatcher, posted, accepted>>

Runs == Tasks \X Deliveries

\* A run at an error is about to record it; "ret" has returned and its job is
\* not yet acknowledged; "gone" is dead or settled.
DispatchErrors == {"NonRetryableError", "DispatchFailedError"}
DispatcherStates == {"none", "claim", "post", "ret", "gone"} \cup DispatchErrors

Goto(t, d, pc) == dispatcher' = [dispatcher EXCEPT ![<<t, d>>] = pc]

dispatch_frame == UNCHANGED <<events, notice, published>>

-----------------------------------------------------------------------------
\* BullMQ hands the job to a worker.
Take(t) ==
    /\ take(t)
    /\ Goto(t, deliveries[t] + 1, "claim")
    /\ UNCHANGED <<tasks, crashes, posted, accepted>> /\ dispatch_frame

Claimed_noStart(row) == [row EXCEPT !.status = "PROCESSING", !.expiresAt = "ahead"]

Claimed(row) == [row EXCEPT !.status = "PROCESSING", !.processingStartedAt = TRUE,
                            !.expiresAt = "ahead"]

Claim_reclaims(t, d) ==
    /\ dispatcher[<<t, d>>] = "claim"
    /\ updateStatus(t, ActiveStatuses, Claimed(tasks[t]))
    /\ IF Matches(t, ActiveStatuses)
       THEN Goto(t, d, "post") /\ posted' = posted \cup {<<t, d>>}
       ELSE Goto(t, d, "ret") /\ UNCHANGED posted
    /\ UNCHANGED <<job, deliveries, crashes, accepted>> /\ dispatch_frame

\* updateStatus PENDING -> PROCESSING; no row back means skip.
Claim(t, d) ==
    /\ dispatcher[<<t, d>>] = "claim"
    /\ updateStatus(t, {"PENDING"}, Claimed(tasks[t]))
    /\ IF Matches(t, {"PENDING"})
       THEN Goto(t, d, "post") /\ posted' = posted \cup {<<t, d>>}
       ELSE Goto(t, d, "ret") /\ UNCHANGED posted
    /\ UNCHANGED <<job, deliveries, crashes, accepted>> /\ dispatch_frame

\* That statement throws, committed or not.  It is outside the try block: the
\* job fails and, with attempts = 1, is not run again.
ClaimThrows(t, d) ==
    /\ "db" \in Faults
    /\ dispatcher[<<t, d>>] = "claim"
    /\ updateStatus(t, {"PENDING"}, Claimed(tasks[t])) \/ UNCHANGED tasks
    /\ settle(t, d, "failed")
    /\ Goto(t, d, "gone")
    /\ UNCHANGED <<deliveries, crashes, posted, accepted>> /\ dispatch_frame

\* The executor receives the POST, perhaps long after the client gave up on it.
ExecutorAccepts(t) ==
    /\ t \notin accepted
    /\ \E d \in Deliveries : <<t, d>> \in posted
    /\ accepted' = accepted \cup {t}
    /\ UNCHANGED <<tasks, job, deliveries, crashes, dispatcher, posted>> /\ dispatch_frame

\* httpRetry.post returns.
PostReturns(t, d) ==
    /\ dispatcher[<<t, d>>] = "post"
    /\ t \in accepted
    /\ Goto(t, d, "ret")
    /\ UNCHANGED <<tasks, job, deliveries, crashes, posted, accepted>> /\ dispatch_frame

\* httpRetry.post throws, with either of its two errors and no other.
PostThrows(t, d) ==
    /\ dispatcher[<<t, d>>] = "post"
    /\ \E err \in DispatchErrors : Goto(t, d, err)
    /\ UNCHANGED <<tasks, job, deliveries, crashes, posted, accepted>> /\ dispatch_frame

Code(err) == IF err = "NonRetryableError" THEN "EXECUTOR_REJECTED" ELSE "DISPATCH_FAILED"

failTask_anyStatus(t, err) ==
    updateStatus(t, TASK_STATUSES,
        [tasks[t] EXCEPT !.status = "FAILED", !.completedAt = TRUE, !.error = Code(err)])

failTask(t, err) ==
    updateStatus(t, {"PROCESSING"},
        [tasks[t] EXCEPT !.status = "FAILED", !.completedAt = TRUE, !.error = Code(err)])

\* The catch block: PROCESSING -> FAILED, whether or not a row came back, and
\* the handler returns.  It writes no event, publishes nothing, enqueues nothing.
RecordError(t, d) ==
    /\ dispatcher[<<t, d>>] \in DispatchErrors
    /\ failTask(t, dispatcher[<<t, d>>])
    /\ Goto(t, d, "ret")
    /\ UNCHANGED <<job, deliveries, crashes, posted, accepted>> /\ dispatch_frame

\* The update in the catch block throws, committed or not: the job fails.
RecordErrorThrows(t, d) ==
    /\ "db" \in Faults
    /\ dispatcher[<<t, d>>] \in DispatchErrors
    /\ failTask(t, dispatcher[<<t, d>>]) \/ UNCHANGED tasks
    /\ settle(t, d, "failed")
    /\ Goto(t, d, "gone")
    /\ UNCHANGED <<deliveries, crashes, posted, accepted>> /\ dispatch_frame

Acknowledge_notAwaited(t, d) ==
    /\ dispatcher[<<t, d>>] \in {"claim", "ret"}
    /\ settle(t, d, "completed")
    /\ IF dispatcher[<<t, d>>] = "ret" THEN Goto(t, d, "gone") ELSE UNCHANGED dispatcher
    /\ UNCHANGED <<tasks, deliveries, crashes, posted, accepted>> /\ dispatch_frame

\* BullMQ marks the job of a returned handler completed.
Acknowledge(t, d) ==
    /\ dispatcher[<<t, d>>] = "ret"
    /\ settle(t, d, "completed")
    /\ Goto(t, d, "gone")
    /\ UNCHANGED <<tasks, deliveries, crashes, posted, accepted>> /\ dispatch_frame

\* The worker dies in the middle of a run.
WorkerDies(t, d) ==
    /\ crashes < MaxCrashes
    /\ dispatcher[<<t, d>>] \notin {"none", "gone"}
    /\ crashes' = crashes + 1
    /\ Goto(t, d, "gone")
    /\ UNCHANGED <<tasks, job, deliveries, posted, accepted>> /\ dispatch_frame

\* The stalled-job check; a run that only hangs goes on as if nothing happened.
JobStalls(t) ==
    /\ job[t] = "active"
    /\ dispatcher[<<t, deliveries[t]>>] = "gone" \/ "stall" \in Faults
    /\ requeueStalled(t)
    /\ UNCHANGED <<tasks, deliveries, crashes, dispatchVars>> /\ dispatch_frame

-----------------------------------------------------------------------------
DispatchInit ==
    /\ dispatcher = [r \in Runs |-> "none"]
    /\ posted = {}
    /\ accepted = {}

RunStep(t, d) ==
    \/ Claim(t, d) \/ PostReturns(t, d) \/ PostThrows(t, d)
    \/ RecordError(t, d) \/ Acknowledge(t, d)

DispatchNext ==
    \E t \in Tasks :
        \/ Take(t) \/ ExecutorAccepts(t) \/ JobStalls(t)
        \/ \E d \in Deliveries :
              RunStep(t, d) \/ ClaimThrows(t, d) \/ RecordErrorThrows(t, d) \/ WorkerDies(t, d)

DispatchType ==
    /\ dispatcher \in [Runs -> DispatcherStates]
    /\ posted \subseteq Runs
    /\ accepted \subseteq Tasks
=============================================================================
