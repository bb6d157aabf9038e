------------------------------ MODULE TaskTable ------------------------------
(***************************************************************************)
(* The two Postgres tables, tasks and task_events, and the statements the  *)
(* repositories run on them.  Every operator stands for one committed      *)
(* statement or transaction: Postgres makes each of them atomic, and what  *)
(* interleaves is the code between them.                                   *)
(*                                                                         *)
(* Columns keep what the code tells apart.  A timestamp is whether it is   *)
(* set.  expiresAt is "ahead" or "passed" relative to the clock, so that   *)
(* no bound on time is needed.  A result, an error body or a progress      *)
(* value is named by the API call that brought it.                         *)
(***************************************************************************)
EXTENDS Integers, Sequences, FiniteSets

CONSTANTS Tasks,        \* the task ids the clients' POST /tasks may create
          Calls,        \* the later API calls on them: result, progress, cancel
          Webhooked,    \* tasks created with a webhookUrl
          Cancellable,  \* tasks created with a cancelUrl
          Faults        \* the kinds of fault the environment may inject

VARIABLES tasks,        \* table tasks: one row per id, Absent when there is none
          events        \* table task_events: per task its event types, in seq order

tableVars == <<tasks, events>>

ErrorCodes == {"EXECUTOR_REJECTED", "DISPATCH_FAILED", "BUSINESS_TIMEOUT"}

ASSUME TableAssumption ==
    /\ Webhooked \subseteq Tasks
    /\ Cancellable \subseteq Tasks
    /\ Calls \cap (ErrorCodes \cup {"null"}) = {}
    /\ Faults \subseteq {"db", "redis", "crash", "stall"}

-----------------------------------------------------------------------------
TASK_STATUSES == {"PENDING", "PROCESSING", "COMPLETED", "FAILED", "CANCELLED"}
ActiveStatuses == {"PENDING", "PROCESSING"}
TerminalStatuses == {"COMPLETED", "FAILED", "CANCELLED"}

TASK_EVENT_TYPES == {"progress", "completed", "failed", "cancelled"}
TERMINAL_EVENT_TYPES == {"completed", "failed", "cancelled"}

Row == [status              : TASK_STATUSES \cup {"ABSENT"},
        processingStartedAt : BOOLEAN,
        completedAt         : BOOLEAN,
        expiresAt           : {"ahead", "passed"},
        result              : Calls \cup {"null"},
        error               : Calls \cup ErrorCodes \cup {"null"},
        progress            : Calls \cup {"null"}]

\* The columns TasksService.create leaves to the defaults, and the deadline it
\* computes from timeoutSeconds (at least one second away).
NewRow == [status |-> "PENDING", processingStartedAt |-> FALSE,
           completedAt |-> FALSE, expiresAt |-> "ahead",
           result |-> "null", error |-> "null", progress |-> "null"]

\* No row with this id: the value findById reports as null.
Absent == [NewRow EXCEPT !.status = "ABSENT"]

\* The CHECK constraint on (status, processing_started_at, completed_at).  A
\* statement that would write a row outside it is rejected with an error.
tasks_valid_state_data(row) ==
    \/ row.status = "PENDING" /\ ~row.processingStartedAt /\ ~row.completedAt
    \/ row.status = "PROCESSING" /\ row.processingStartedAt /\ ~row.completedAt
    \/ row.status \in {"COMPLETED", "FAILED"} /\ row.processingStartedAt /\ row.completedAt
    \/ row.status = "CANCELLED" /\ row.completedAt

-----------------------------------------------------------------------------
(* TasksRepository *)

insert(t) == tasks' = [tasks EXCEPT ![t] = NewRow]

deleteById(t) == tasks' = [tasks EXCEPT ![t] = Absent]

\* UPDATE ... WHERE id = t: no condition on the status, nothing if there is no row.
updateProgress(t, value) ==
    tasks' = IF tasks[t].status = "ABSENT" THEN tasks
             ELSE [tasks EXCEPT ![t].progress = value]

\* The row the guarded UPDATE matches: id = t and status in from.
Matches(t, from) == tasks[t].status \in from

updateStatus_unguarded(t, from, row) == tasks' = [tasks EXCEPT ![t] = row]

\* UPDATE ... SET row WHERE id = t AND status IN from.  The caller reads whether
\* a row came back with Matches, evaluated in the same step.
updateStatus(t, from, row) ==
    tasks' = IF Matches(t, from) THEN [tasks EXCEPT ![t] = row] ELSE tasks

(* EventsRepository *)

\* One transaction under the per-task advisory lock: seq is MAX(seq) + 1.
nextSeq(t) == Len(events[t]) + 1

insertEvent(t, type) == events' = [events EXCEPT ![t] = Append(@, type)]

-----------------------------------------------------------------------------
TableInit ==
    /\ tasks = [t \in Tasks |-> Absent]
    /\ events = [t \in Tasks |-> <<>>]

TableType ==
    /\ tasks \in [Tasks -> Row]
    /\ events \in [Tasks -> Seq(TASK_EVENT_TYPES)]
=============================================================================
