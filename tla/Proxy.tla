--------------------------------- MODULE Proxy ---------------------------------
(***************************************************************************)
(* The whole proxy: the API process's handlers, the workers and the cron   *)
(* job over one Postgres and one Redis, any two steps of different actors  *)
(* in any order.                                                           *)
(***************************************************************************)
EXTENDS TaskCreation, Notices, Sweeper

vars == <<tableVars, brokerVars, creator, dispatchVars, callVars, delivered, sweeper>>

Init ==
    /\ TableInit /\ BrokerInit /\ CreationInit
    /\ DispatchInit /\ CallsInit /\ NoticesInit /\ SweeperInit

besides_creation == UNCHANGED <<dispatchVars, callVars, delivered, sweeper>>
besides_dispatch == UNCHANGED <<creator, callVars, delivered, sweeper>>
besides_calls    == UNCHANGED <<creator, dispatchVars, delivered, sweeper>>
besides_notices  == UNCHANGED <<creator, dispatchVars, sweeper>>
besides_sweeper  == UNCHANGED <<creator, delivered>>

\* The executor can call back once it has the token the POST carried; the client
\* can cancel once its 202 named the task.
MayBegin(c) ==
    IF kind(c) = "cancel" THEN creator[task(c)] = "created" ELSE task(c) \in accepted

CallsNext ==
    \E c \in Calls :
        \/ MayBegin(c) /\ CallBegins(c)
        \/ CallStep(c) \/ InsertEventConflicts(c) \/ HandlerDies(c)

Next ==
    \/ CreationNext /\ besides_creation
    \/ DispatchNext /\ besides_dispatch
    \/ CallsNext /\ besides_calls
    \/ NoticesNext /\ besides_notices
    \/ SweeperNext /\ besides_sweeper

Spec == Init /\ [][Next]_vars

-----------------------------------------------------------------------------
(* Fairness: what runs keeps running.  A handler that has begun reaches its *)
(* next statement (every await ends: the HTTP client times out), queues     *)
(* hand out their jobs, the stalled-job check and the cron fire, time       *)
(* passes.  Clients and executors owe nothing.                              *)

CreatorRuns(t) == (Enqueue(t) \/ Rollback(t)) /\ besides_creation
RunRuns(t, d)  == RunStep(t, d) /\ besides_dispatch
QueueServes(t) == (Take(t) \/ (JobStalls(t) /\ dispatcher[<<t, deliveries[t]>>] = "gone"))
                  /\ besides_dispatch
CallRuns(c)    == CallStep(c) /\ besides_calls
NoticeRuns(c)  == (Fetch(c) \/ Finish(c)) /\ besides_notices
SweeperRuns(s) == (Tick(s) \/ SweepStep(s)) /\ besides_sweeper
TimePasses(t)  == Elapse(t) /\ besides_sweeper

Fairness ==
    /\ \A t \in Tasks : /\ WF_vars(CreatorRuns(t))
                        /\ WF_vars(QueueServes(t))
                        /\ WF_vars(TimePasses(t))
                        /\ \A d \in Deliveries : WF_vars(RunRuns(t, d))
    /\ \A c \in Calls : WF_vars(CallRuns(c)) /\ WF_vars(NoticeRuns(c))
    /\ \A s \in Sweepers : WF_vars(SweeperRuns(s))

FairSpec == Spec /\ Fairness

-----------------------------------------------------------------------------
(* Every variable has its type. *)
TypeOK ==
    /\ TableType /\ BrokerType /\ CreationType /\ DispatchType
    /\ CallsType /\ NoticesType /\ SweeperType

Exists(t) == tasks[t].status # "ABSENT"

Terminal(t, i) == i \in DOMAIN events[t] /\ events[t][i] \in TERMINAL_EVENT_TYPES

\* The status a terminal event announces.
Announces(e) == CASE e = "completed" -> "COMPLETED"
                  [] e = "failed"    -> "FAILED"
                  [] e = "cancelled" -> "CANCELLED"

(* No statement of any handler would be rejected by the CHECK constraint,   *)
(* except the sweeper's, which SweepAborts accounts for: the columns that   *)
(* updateStatus's callers write always belong to the status they write.     *)
ValidStateData == \A t \in Tasks : Exists(t) => tasks_valid_state_data(tasks[t])

(* A task's log announces at most one end: of a result, a second result, a  *)
(* cancel and the sweeper, only the one whose guarded UPDATE matched logs.  *)
OneTerminalEvent ==
    \A t \in Tasks : \A i, j \in DOMAIN events[t] :
        Terminal(t, i) /\ Terminal(t, j) => i = j

(* The end the log announces is the end the row has, though update and      *)
(* event are separate transactions in submitResult.                         *)
LogAgreesWithRow ==
    \A t \in Tasks : \A i \in DOMAIN events[t] :
        Terminal(t, i) /\ Exists(t) => tasks[t].status = Announces(events[t][i])

(* However often the queue delivers a dispatch job, at most one run of the  *)
(* handler POSTs the task to its executor.                                  *)
AtMostOneDispatch ==
    \A t \in Tasks : \A d, e \in Deliveries :
        <<t, d>> \in posted /\ <<t, e>> \in posted => d = e

(* A dispatch job is not reported completed while its task still waits for  *)
(* dispatch: a run skips only what is no longer PENDING.                    *)
NoLostDispatch == \A t \in Tasks : job[t] = "completed" => tasks[t].status # "PENDING"

(* What a webhook's receiver is told is the result of the call that queued  *)
(* the webhook, whenever the worker fetched the row and however late the    *)
(* body arrives; and two webhooks of one task never tell different things.  *)
WebhookTellsOutcome ==
    \A m \in delivered :
        kind(m[1]) \in ResultKinds =>
            m[2] = [status |-> IF kind(m[1]) = "completed" THEN "COMPLETED" ELSE "FAILED",
                    result |-> IF kind(m[1]) = "completed" THEN m[1] ELSE "null",
                    error  |-> IF kind(m[1]) = "completed" THEN "null" ELSE m[1]]

(* Of all the calls on a task, at most one gets to queue a notification.    *)
OneNotifier ==
    \A c, b \in Calls :
        /\ task(c) = task(b)
        /\ notice[c].state # "none" /\ notice[b].state # "none"
        => c = b

(* The executor is told to cancel only a task that is CANCELLED.            *)
CancelNoticeIsTrue ==
    \A m \in delivered : kind(m[1]) = "cancel" => m[2].status = "CANCELLED"

(* Two overlapping sweeps never both expire a task, so none is announced as *)
(* failed twice.                                                            *)
NoDoubleSweep ==
    \A r, s \in Sweepers : \A m \in sweeper[r].batch, n \in sweeper[s].batch :
        m[1] = n[1] => r = s /\ m = n

(* A cancel answered 204 has been logged, published and, when the executor  *)
(* is to be told, queued: nothing of it is left to a step that may be lost. *)
AckedCancelIsComplete ==
    \A c \in Calls :
        At(c, "204") /\ kind(c) = "cancel" =>
            /\ call[c].seq \in DOMAIN events[task(c)]
            /\ events[task(c)][call[c].seq] = "cancelled"
            /\ <<task(c), call[c].seq>> \in published
            /\ task(c) \in Cancellable => notice[c].state # "none"

-----------------------------------------------------------------------------
(* The row of every task lives the life TaskLifecycle allows: forward only, *)
(* one verdict, a success or a failure only after a dispatch.               *)
L == INSTANCE TaskLifecycle WITH
        status    <- [t \in Tasks |-> IF Exists(t) THEN tasks[t].status
                                      ELSE IF creator[t] = "insert" THEN "UNBORN"
                                      ELSE "REMOVED"],
        verdict   <- [t \in Tasks |-> [result |-> tasks[t].result, error |-> tasks[t].error]],
        NoVerdict <- [result |-> "null", error |-> "null"],
        Verdicts  <- [result : Calls \cup {"null"}, error : Calls \cup ErrorCodes \cup {"null"}]

Lifecycle == L!Spec

(* Every task's rows of task_events and its publishes are a feed as the     *)
(* streams assume it (EventFeed): append-only, one end, nothing published   *)
(* that is not logged.                                                      *)
Feed(t) == INSTANCE EventFeed WITH
        EventTypes    <- TASK_EVENT_TYPES,
        TerminalTypes <- TERMINAL_EVENT_TYPES,
        log           <- events[t],
        published     <- {m[2] : m \in {n \in published : n[1] = t}}

EveryTaskIsAFeed ==
    /\ \A t \in Tasks : Feed(t)!FeedInit
    /\ [][\A t \in Tasks : Feed(t)!FeedNext \/ UNCHANGED Feed(t)!feedVars]_vars

-----------------------------------------------------------------------------
(* Liveness *)

(* Every task that is created reaches an end, with or without an answer of  *)
(* the executor, and through a worker's death.                              *)
EveryTaskSettles ==
    \A t \in Tasks : tasks[t].status \in ActiveStatuses ~> tasks[t].status \in TerminalStatuses

(* Every logged event is published to the live streams of its task.         *)
EveryEventPublished ==
    \A t \in Tasks : \A i \in 1..(Cardinality(Calls) + 1) :
        i \in DOMAIN events[t] ~> <<t, i>> \in published

(* A result that won, a success or a failure, leads to a webhook job that   *)
(* runs to its end.                                                         *)
WebhookRuns ==
    \A c \in Calls :
        c \in {tasks[task(c)].result, tasks[task(c)].error} /\ task(c) \in Webhooked
            ~> notice[c].state = "completed"
=============================================================================
