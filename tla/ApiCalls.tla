------------------------------- MODULE ApiCalls -------------------------------
(***************************************************************************)
(* The API process after creation: the executor's POST /tasks/:id/result   *)
(* and PATCH /tasks/:id/progress (CallbackAuthGuard, ExecutorService) and  *)
(* the client's DELETE /tasks/:id (TasksService.cancel).  Every await is a *)
(* step boundary; the handlers of all calls run interleaved.               *)
(*                                                                         *)
(* The guard reads the row in one statement and the service updates it in  *)
(* a later one, so what the guard saw may be stale when the update runs.   *)
(***************************************************************************)
EXTENDS Broker

VARIABLES request,      \* per call, the request it makes: chosen once, never changed
          call          \* per call, where its handler stands

callVars == <<request, call>>

ResultKinds == {"completed", "failed"}
Kinds == ResultKinds \cup {"progress", "cancel"}
Requests == [task : Tasks, kind : Kinds]

\* pc is the statement about to run or the reply; seq is the event it has logged.
Replies == {"204", "404", "409", "500"}
CallStates == [pc  : {"start", "update", "event", "publish", "enqueue", "find"} \cup Replies,
               seq : Nat]

task(c) == request[c].task
kind(c) == request[c].kind

At(c, pc) == call[c].pc = pc
GotoCall(c, pc) == call' = [call EXCEPT ![c].pc = pc]

\* Where a logged event leaves the handler: about to publish it.
Logged(c) == call' = [call EXCEPT ![c].pc = "publish", ![c].seq = nextSeq(task(c))]

call_frame == UNCHANGED <<job, deliveries, crashes, request>>

-----------------------------------------------------------------------------
\* CallbackAuthGuard.canActivate, for a caller that has the right token.
Authorize(c) ==
    /\ At(c, "start") /\ kind(c) # "cancel"
    /\ GotoCall(c, CASE tasks[task(c)].status = "ABSENT" -> "404"
                     [] tasks[task(c)].status = "PROCESSING" -> "update"
                     [] OTHER -> "409")
    /\ UNCHANGED <<tasks, events, notice, published>> /\ call_frame

\* The row submitResult writes: the outcome and when it came.
Outcome(c) ==
    IF kind(c) = "completed"
    THEN [tasks[task(c)] EXCEPT !.status = "COMPLETED", !.completedAt = TRUE, !.result = c]
    ELSE [tasks[task(c)] EXCEPT !.status = "FAILED", !.completedAt = TRUE, !.error = c]

SubmitResult_ignoresNull(c) ==
    /\ At(c, "update") /\ kind(c) \in ResultKinds
    /\ updateStatus(task(c), {"PROCESSING"}, Outcome(c))
    /\ GotoCall(c, "event")
    /\ UNCHANGED <<events, notice, published>> /\ call_frame

\* submitResult's guarded update; when no row comes back the handler returns,
\* which the controller answers with 204.
SubmitResult(c) ==
    /\ At(c, "update") /\ kind(c) \in ResultKinds
    /\ updateStatus(task(c), {"PROCESSING"}, Outcome(c))
    /\ GotoCall(c, IF Matches(task(c), {"PROCESSING"}) THEN "event" ELSE "204")
    /\ UNCHANGED <<events, notice, published>> /\ call_frame

\* updateProgress's update, on the word of the guard alone.
ReportProgress(c) ==
    /\ At(c, "update") /\ kind(c) = "progress"
    /\ updateProgress(task(c), c)
    /\ GotoCall(c, "event")
    /\ UNCHANGED <<events, notice, published>> /\ call_frame

\* eventsRepo.insertEvent, in a transaction of its own.
InsertEvent(c) ==
    /\ At(c, "event") /\ kind(c) # "cancel"
    /\ insertEvent(task(c), kind(c))
    /\ Logged(c)
    /\ UNCHANGED <<tasks, notice, published>> /\ call_frame

\* The sweeper, which takes no advisory lock, committed the same seq first: the
\* unique index on (task_id, seq) rejects this insert and the handler throws.
InsertEventConflicts(c) ==
    /\ At(c, "event") /\ kind(c) = "progress"
    /\ tasks[task(c)].error = "BUSINESS_TIMEOUT"
    /\ GotoCall(c, "500")
    /\ UNCHANGED <<tasks, events, notice, published>> /\ call_frame

\* cancelTask: update and event in one transaction.
Cancel(c) ==
    /\ At(c, "start") /\ kind(c) = "cancel"
    /\ updateStatus(task(c), ActiveStatuses,
           [tasks[task(c)] EXCEPT !.status = "CANCELLED", !.completedAt = TRUE])
    /\ IF Matches(task(c), ActiveStatuses)
       THEN insertEvent(task(c), "cancelled") /\ Logged(c)
       ELSE GotoCall(c, "find") /\ UNCHANGED events
    /\ UNCHANGED <<notice, published>> /\ call_frame

\* No row came back: a second read, findById, decides how to say no.
CancelRefused(c) ==
    /\ At(c, "find")
    /\ GotoCall(c, IF tasks[task(c)].status = "ABSENT" THEN "404" ELSE "409")
    /\ UNCHANGED <<tasks, events, notice, published>> /\ call_frame

Notifies_failures(c) ==
    \/ kind(c) = "failed" /\ task(c) \in Webhooked
    \/ kind(c) = "cancel" /\ task(c) \in Cancellable

\* The job to enqueue at the end: webhook after a result, cancel after a cancel.
Notifies(c) ==
    \/ kind(c) \in ResultKinds /\ task(c) \in Webhooked
    \/ kind(c) = "cancel" /\ task(c) \in Cancellable

Publish_returns(c) ==
    /\ At(c, "publish")
    /\ publish(task(c), {call[c].seq})
    /\ GotoCall(c, "204")
    /\ UNCHANGED <<tasks, events, notice>> /\ call_frame

\* redis.client.publish of the event just logged.
Publish(c) ==
    /\ At(c, "publish")
    /\ publish(task(c), {call[c].seq})
    /\ GotoCall(c, IF Notifies(c) THEN "enqueue" ELSE "204")
    /\ UNCHANGED <<tasks, events, notice>> /\ call_frame

\* queue.enqueue('webhook' | 'cancel').
EnqueueJob(c) ==
    /\ At(c, "enqueue")
    /\ enqueueNotice(c)
    /\ GotoCall(c, "204")
    /\ UNCHANGED <<tasks, events, published>> /\ call_frame

\* A statement throws or the process dies: what was committed stays, what was
\* still to come never happens, and no handler resumes it.  (A statement that
\* took effect and threw is a death one statement later.)
HandlerDies(c) ==
    /\ Faults \cap {"db", "redis", "crash"} # {}
    /\ call[c].pc \in {"update", "event", "publish", "enqueue", "find"}
    /\ GotoCall(c, "500")
    /\ UNCHANGED <<tasks, events, notice, published>> /\ call_frame

-----------------------------------------------------------------------------
CallsInit ==
    /\ request \in [Calls -> Requests]
    /\ call = [c \in Calls |-> [pc |-> "start", seq |-> 0]]

\* A call's first statement; the rest of a handler that has begun.
CallBegins(c) == Authorize(c) \/ Cancel(c)
CallStep(c) ==
    \/ SubmitResult(c) \/ ReportProgress(c) \/ InsertEvent(c)
    \/ Publish(c) \/ EnqueueJob(c) \/ CancelRefused(c)

CallsType ==
    /\ request \in [Calls -> Requests]
    /\ call \in [Calls -> CallStates]
=============================================================================
