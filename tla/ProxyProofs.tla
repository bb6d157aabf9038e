----------------------------- MODULE ProxyProofs -----------------------------
(***************************************************************************)
(* Proofs about Proxy, for every set of tasks, calls and sweepers, every   *)
(* choice of faults and every bound.                                       *)
(***************************************************************************)
EXTENDS Proxy, TLAPS

-----------------------------------------------------------------------------
(* Type correctness.  TypeOK alone is not inductive: that a delivery number *)
(* or a count of attempts stays within its bound needs what the queue knows *)
(* about the jobs that wait in it.                                          *)

\* A dispatch job is enqueued once, and waits only while deliveries are left.
DispatchQueueInv ==
    \A t \in Tasks :
        /\ creator[t] \in {"insert", "enqueue"} => job[t] = "none"
        /\ job[t] = "none" => deliveries[t] = 0
        /\ job[t] = "waiting" => deliveries[t] <= MaxStalled

\* A notice is enqueued by the last statement of its call, and runs only while
\* attempts are left.
NoticeQueueInv ==
    \A c \in Calls :
        /\ call[c].pc \notin {"204", "500"} => notice[c].state = "none"
        /\ notice[c].state # "failed" => notice[c].tries < Attempts

TypeInv == TypeOK /\ DispatchQueueInv /\ NoticeQueueInv

(* The type invariant holds initially.                                      *)
LEMMA TypeInit == Init => TypeInv
<1> SUFFICES ASSUME Init PROVE TypeInv
  OBVIOUS
<1>1. TableType
  <2>1. Absent \in Row
    BY DEF Absent, NewRow, Row
  <2> QED
    BY <2>1 DEF Init, TableInit, TableType
<1>2. BrokerType
  BY BrokerAssumption DEF Init, BrokerInit, BrokerType, JobStates, NoNotice, Notice
<1>3. CreationType /\ DispatchType /\ CallsType /\ NoticesType /\ SweeperType
  BY DEF Init, CreationInit, CreationType, CreatorStates, DispatchInit, DispatchType,
         DispatcherStates, CallsInit, CallsType, CallStates, NoticesInit, NoticesType,
         SweeperInit, SweeperType, SweeperStates
<1>4. DispatchQueueInv /\ NoticeQueueInv
  BY BrokerAssumption DEF Init, BrokerInit, CreationInit, CallsInit, NoNotice,
         DispatchQueueInv, NoticeQueueInv
<1> QED
  BY <1>1, <1>2, <1>3, <1>4 DEF TypeInv, TypeOK

(* Every step of the creation handler keeps the type invariant.             *)
LEMMA TypeCreation == TypeInv /\ CreationNext /\ besides_creation => TypeInv'
<1> SUFFICES ASSUME TypeInv, besides_creation, NEW t \in Tasks,
                    \/ Insert(t) \/ InsertThrows(t) \/ Enqueue(t)
                    \/ EnqueueThrows(t) \/ Rollback(t) \/ CreatorDies(t)
             PROVE  TypeInv'
  BY DEF CreationNext
<1> USE BrokerAssumption DEF TypeInv, TypeOK, DispatchQueueInv, NoticeQueueInv, CreationType,
        CreatorStates, create_frame, besides_creation, BrokerType, TableType
<1>0. NewRow \in Row /\ Absent \in Row
  BY DEF Absent, NewRow, Row, TASK_STATUSES
<1>a. /\ UNCHANGED <<events, deliveries, notice, published, crashes>>
      /\ DispatchType' /\ CallsType' /\ NoticesType' /\ SweeperType'
      /\ NoticeQueueInv'
  BY DEF Insert, InsertThrows, Enqueue, EnqueueThrows, Rollback, CreatorDies, dispatchVars,
         callVars, DispatchType, CallsType, NoticesType, SweeperType
<1>b. TableType'
  BY <1>0, <1>a DEF Insert, InsertThrows, Enqueue, EnqueueThrows, Rollback, CreatorDies,
         insert, deleteById
<1>c. CreationType'
  BY DEF Insert, InsertThrows, Enqueue, EnqueueThrows, Rollback, CreatorDies
<1>d. \/ UNCHANGED job
      \/ job' = [job EXCEPT ![t] = "waiting"] /\ creator[t] = "enqueue"
  BY DEF Insert, InsertThrows, Enqueue, EnqueueThrows, Rollback, CreatorDies, enqueueDispatch
<1>e. BrokerType'
  BY <1>a, <1>d DEF JobStates
<1>f. /\ \A u \in Tasks \ {t} : creator'[u] = creator[u]
      /\ creator'[t] = "enqueue" => creator[t] = "insert" /\ UNCHANGED job
      /\ creator'[t] # "insert"
  BY DEF Insert, InsertThrows, Enqueue, EnqueueThrows, Rollback, CreatorDies
<1>g. DispatchQueueInv'
  BY <1>a, <1>d, <1>f
<1> QED
  BY <1>a, <1>b, <1>c, <1>e, <1>g

(* Every step of the dispatch queue, its handlers and the executor does.    *)
LEMMA TypeDispatch == TypeInv /\ DispatchNext /\ besides_dispatch => TypeInv'
<1> SUFFICES ASSUME TypeInv, besides_dispatch, NEW t \in Tasks, NEW d \in Deliveries,
                    \/ Take(t) \/ ExecutorAccepts(t) \/ JobStalls(t)
                    \/ Claim(t, d) \/ PostReturns(t, d) \/ PostThrows(t, d)
                    \/ RecordError(t, d) \/ Acknowledge(t, d)
                    \/ ClaimThrows(t, d) \/ RecordErrorThrows(t, d) \/ WorkerDies(t, d)
             PROVE  TypeInv'
  <2>1. 1 \in Deliveries
    BY BrokerAssumption DEF Deliveries
  <2> QED
    BY <2>1 DEF DispatchNext, RunStep
<1> USE BrokerAssumption DEF TypeInv, TypeOK, TableType, BrokerType
<1>a. /\ UNCHANGED <<events, notice, published>>
      /\ CreationType' /\ CallsType' /\ NoticesType' /\ SweeperType' /\ NoticeQueueInv'
  BY DEF Take, ExecutorAccepts, JobStalls, Claim, PostReturns, PostThrows, RecordError,
         Acknowledge, ClaimThrows, RecordErrorThrows, WorkerDies, dispatch_frame,
         besides_dispatch, callVars, CreationType, CallsType, NoticesType, SweeperType,
         NoticeQueueInv
<1>b. TableType'
  <2>1. Claimed(tasks[t]) \in Row
    BY DEF Claimed, Row, TASK_STATUSES
  <2>2. \A err : [tasks[t] EXCEPT !.status = "FAILED", !.completedAt = TRUE,
                                 !.error = Code(err)] \in Row
    BY DEF Code, Row, TASK_STATUSES, ErrorCodes
  <2>3. UNCHANGED tasks \/ \E row \in Row : tasks' = [tasks EXCEPT ![t] = row]
    BY <2>1, <2>2 DEF Take, ExecutorAccepts, JobStalls, Claim, PostReturns, PostThrows,
         RecordError, Acknowledge, ClaimThrows, RecordErrorThrows, WorkerDies, failTask,
         updateStatus
  <2> QED
    BY <1>a, <2>3
<1>c. \/ /\ UNCHANGED deliveries /\ job[t] = "active" /\ job'[t] # "none"
         /\ job'[t] = "waiting" => deliveries[t] <= MaxStalled
      \/ UNCHANGED <<job, deliveries>>
      \/ /\ job[t] = "waiting" /\ job' = [job EXCEPT ![t] = "active"]
         /\ deliveries' = [deliveries EXCEPT ![t] = @ + 1]
  BY DEF Take, ExecutorAccepts, JobStalls, Claim, PostReturns, PostThrows,
         RecordError, Acknowledge, ClaimThrows, RecordErrorThrows, WorkerDies, take,
         settle, requeueStalled
<1>d. /\ job' \in [Tasks -> JobStates]
      /\ \A u \in Tasks \ {t} : job'[u] = job[u]
  BY DEF Take, ExecutorAccepts, JobStalls, Claim, PostReturns, PostThrows,
         RecordError, Acknowledge, ClaimThrows, RecordErrorThrows, WorkerDies, take,
         settle, requeueStalled, JobStates
<1>e. BrokerType' /\ DispatchQueueInv'
  <2>1. crashes' \in 0..MaxCrashes
    BY DEF Take, ExecutorAccepts, JobStalls, Claim, PostReturns, PostThrows,
         RecordError, Acknowledge, ClaimThrows, RecordErrorThrows, WorkerDies
  <2>2. deliveries' \in [Tasks -> 0..(MaxStalled + 1)]
    <3>1. job[t] = "waiting" => deliveries[t] + 1 \in 0..(MaxStalled + 1)
      BY DEF DispatchQueueInv
    <3> QED
      BY <1>c, <3>1
  <2>3. UNCHANGED creator
    BY DEF besides_dispatch
  <2>4. DispatchQueueInv'
    <3> SUFFICES ASSUME NEW u \in Tasks
                 PROVE  /\ creator[u] \in {"insert", "enqueue"} => job'[u] = "none"
                        /\ job'[u] = "none" => deliveries'[u] = 0
                        /\ job'[u] = "waiting" => deliveries'[u] <= MaxStalled
      BY <2>3 DEF DispatchQueueInv
    <3>1. CASE u # t
      BY <1>c, <1>d, <3>1 DEF DispatchQueueInv
    <3>2. CASE u = t
      BY <1>c, <1>d, <3>2 DEF DispatchQueueInv
    <3> QED
      BY <3>1, <3>2
  <2> QED
    BY <1>a, <1>d, <2>1, <2>2, <2>4
<1>f. DispatchType'
  <2>1. /\ posted' \subseteq Runs
        /\ accepted' \subseteq Tasks
    BY DEF Take, ExecutorAccepts, JobStalls, Claim, PostReturns, PostThrows,
         RecordError, Acknowledge, ClaimThrows, RecordErrorThrows, WorkerDies,
         dispatchVars, DispatchType, Runs
  <2>2. dispatcher' \in [Runs -> DispatcherStates]
    BY DEF Take, ExecutorAccepts, JobStalls, Claim, PostReturns, PostThrows,
         RecordError, Acknowledge, ClaimThrows, RecordErrorThrows, WorkerDies,
         dispatchVars, DispatchType, DispatcherStates, DispatchErrors, Goto
  <2> QED
    BY <2>1, <2>2 DEF DispatchType
<1> QED
  BY <1>a, <1>b, <1>e, <1>f

(* So does every step of an API call's handler.                             *)
LEMMA TypeCalls == TypeInv /\ CallsNext /\ besides_calls => TypeInv'
<1> SUFFICES ASSUME TypeInv, besides_calls, NEW c \in Calls,
                    \/ Authorize(c) \/ Cancel(c) \/ SubmitResult(c) \/ ReportProgress(c)
                    \/ InsertEvent(c) \/ Publish(c) \/ EnqueueJob(c)
                    \/ CancelRefused(c) \/ InsertEventConflicts(c) \/ HandlerDies(c)
             PROVE  TypeInv'
  BY DEF CallsNext, CallBegins, CallStep
<1> USE BrokerAssumption DEF TypeInv, TypeOK, TableType, BrokerType, CallsType, At
<1>a. /\ UNCHANGED <<job, deliveries, crashes, request>>
      /\ CreationType' /\ DispatchType' /\ NoticesType' /\ SweeperType' /\ DispatchQueueInv'
  BY DEF Authorize, Cancel, SubmitResult, ReportProgress, InsertEvent, Publish, EnqueueJob,
         CancelRefused, InsertEventConflicts, HandlerDies, call_frame, besides_calls, dispatchVars,
         CreationType, DispatchType, NoticesType, SweeperType, DispatchQueueInv
<1>b. /\ task(c) \in Tasks /\ kind(c) \in Kinds
      /\ nextSeq(task(c)) \in Nat
  BY DEF task, kind, Requests, nextSeq
<1>c. tasks' \in [Tasks -> Row]
  <2>1. Outcome(c) \in Row
    <3>1. tasks[task(c)] \in Row
      BY <1>b
    <3>2. /\ [tasks[task(c)] EXCEPT !.status = "COMPLETED", !.completedAt = TRUE, !.result = c] \in Row
          /\ [tasks[task(c)] EXCEPT !.status = "FAILED", !.completedAt = TRUE, !.error = c] \in Row
      BY <3>1 DEF Row, TASK_STATUSES
    <3> QED
      BY <3>2 DEF Outcome
  <2>2. /\ [tasks[task(c)] EXCEPT !.status = "CANCELLED", !.completedAt = TRUE] \in Row
        /\ [tasks[task(c)] EXCEPT !.progress = c] \in Row
    BY <1>b DEF Row, TASK_STATUSES
  <2>3. \/ UNCHANGED tasks
        \/ \E row \in Row : tasks' = [tasks EXCEPT ![task(c)] = row]
    BY <1>b, <2>1, <2>2 DEF Authorize, Cancel, SubmitResult, ReportProgress, InsertEvent, Publish,
         EnqueueJob, CancelRefused, InsertEventConflicts, HandlerDies, updateStatus, updateProgress
  <2> QED
    BY <1>b, <2>3
<1>d. events' \in [Tasks -> Seq(TASK_EVENT_TYPES)]
  <2>1. \/ UNCHANGED events
        \/ \E e \in TASK_EVENT_TYPES : events' = [events EXCEPT ![task(c)] = Append(@, e)]
    <3>1. CASE InsertEvent(c)
      BY <1>b, <3>1 DEF InsertEvent, insertEvent, Kinds, ResultKinds, TASK_EVENT_TYPES
    <3>2. CASE Cancel(c)
      BY <3>2 DEF Cancel, insertEvent, TASK_EVENT_TYPES
    <3> QED
      BY <3>1, <3>2 DEF Authorize, SubmitResult, ReportProgress, Publish,
         EnqueueJob, CancelRefused, InsertEventConflicts, HandlerDies
  <2>2. \A e \in TASK_EVENT_TYPES : Append(events[task(c)], e) \in Seq(TASK_EVENT_TYPES)
    BY <1>b
  <2> QED
    BY <1>b, <2>1, <2>2
<1>e. call' \in [Calls -> CallStates]
  <2>1. \/ \E pc \in {"update", "event", "enqueue", "find"} \cup Replies : GotoCall(c, pc)
        \/ Logged(c)
    BY DEF Authorize, Cancel, SubmitResult, ReportProgress, InsertEvent, Publish, EnqueueJob,
         CancelRefused, InsertEventConflicts, HandlerDies, Replies
  <2>2. ASSUME NEW pc \in {"update", "event", "enqueue", "find"} \cup Replies, GotoCall(c, pc)
        PROVE  call' \in [Calls -> CallStates]
    BY <2>2 DEF GotoCall, CallStates
  <2>3. ASSUME Logged(c) PROVE call' \in [Calls -> CallStates]
    BY <1>b, <2>3 DEF Logged, CallStates
  <2> QED
    BY <2>1, <2>2, <2>3
<1>f. published' \subseteq Tasks \X Nat
  BY <1>b DEF Authorize, Cancel, SubmitResult, ReportProgress, InsertEvent, Publish, EnqueueJob,
         CancelRefused, InsertEventConflicts, HandlerDies, publish, CallStates
<1>g. notice' \in [Calls -> Notice] /\ NoticeQueueInv'
  <2>1. CASE EnqueueJob(c)
    BY <2>1 DEF EnqueueJob, enqueueNotice, GotoCall, Notice, JobStates, NoticeQueueInv, CallStates
  <2>2. CASE ~EnqueueJob(c)
    <3>1. UNCHANGED notice
      BY <2>2 DEF Authorize, Cancel, SubmitResult, ReportProgress, InsertEvent, Publish,
         CancelRefused, InsertEventConflicts, HandlerDies
    <3>2. call[c].pc \notin {"204", "500"} /\ \A b \in Calls \ {c} : call'[b] = call[b]
      BY <2>2 DEF Authorize, Cancel, SubmitResult, ReportProgress, InsertEvent, Publish,
         CancelRefused, InsertEventConflicts, HandlerDies, GotoCall, Logged
    <3> QED
      BY <3>1, <3>2 DEF NoticeQueueInv
  <2> QED
    BY <2>1, <2>2
<1> QED
  BY <1>a, <1>c, <1>d, <1>e, <1>f, <1>g

(* So does every step of the webhook and cancel workers.                    *)
LEMMA TypeNotices == TypeInv /\ NoticesNext /\ besides_notices => TypeInv'
<1> SUFFICES ASSUME TypeInv, besides_notices, NEW c \in Calls,
                    \/ Fetch(c) \/ FetchThrows(c) \/ Finish(c) \/ NoticeStalls(c)
                    \/ \E body \in notice[c].bodies : Receive(c, body)
             PROVE  TypeInv'
  BY DEF NoticesNext
<1> USE BrokerAssumption DEF TypeInv, TypeOK, TableType, BrokerType
<1>a. /\ UNCHANGED <<tasks, events, job, deliveries, published, request, call>>
      /\ CreationType' /\ DispatchType' /\ CallsType' /\ SweeperType' /\ DispatchQueueInv'
  BY DEF Fetch, FetchThrows, Finish, NoticeStalls, Receive, notice_frame, besides_notices,
         dispatchVars, CreationType, DispatchType, CallsType, SweeperType, DispatchQueueInv
<1>b. tasks[task(c)] \in Row /\ Body(tasks[task(c)]) \in Bodies
  BY DEF CallsType, Requests, task, Row, Body, Bodies
<1>c. crashes' \in 0..MaxCrashes
  BY DEF Fetch, FetchThrows, Finish, NoticeStalls, Receive
<1>d. /\ notice' \in [Calls -> Notice]
      /\ \A b \in Calls \ {c} : notice'[b] = notice[b]
      /\ notice'[c].state # "failed" => notice'[c].tries < Attempts
      /\ notice[c].state = "none" => notice'[c].state = "none"
  <2> DEFINE n0 == notice[c]
             Becomes(n) == /\ n \in Notice
                           /\ notice' = [notice EXCEPT ![c] = n]
                           /\ n.state # "failed" => n.tries < Attempts
  <2>0. /\ n0 \in Notice
        /\ n0.state # "failed" => n0.tries < Attempts
    BY DEF NoticeQueueInv
  <2>1. CASE Fetch(c)
    <3>1. CASE tasks[task(c)].status = "ABSENT"
      <4>1. Becomes([n0 EXCEPT !.state = "completed"])
        BY <2>0, <2>1, <3>1 DEF Fetch, Notice, JobStates
      <4> QED
        BY <2>1, <4>1 DEF Fetch
    <3>2. CASE tasks[task(c)].status # "ABSENT"
      <4>1. Becomes([n0 EXCEPT !.state = "active", !.bodies = @ \cup {Body(tasks[task(c)])}])
        BY <1>b, <2>0, <2>1, <3>2 DEF Fetch, Notice, JobStates
      <4> QED
        BY <2>1, <4>1 DEF Fetch
    <3> QED
      BY <3>1, <3>2
  <2>2. CASE FetchThrows(c)
    <3>0. n0.tries + 1 \in 0..Attempts
      BY <2>0, <2>2 DEF FetchThrows, Notice
    <3>1. CASE n0.tries + 1 < Attempts
      <4>1. Becomes([n0 EXCEPT !.tries = @ + 1, !.state = "waiting"])
        BY <2>0, <2>2, <3>0, <3>1 DEF FetchThrows, retryNotice, Notice, JobStates
      <4> QED
        BY <2>2, <4>1 DEF FetchThrows
    <3>2. CASE ~(n0.tries + 1 < Attempts)
      <4>1. Becomes([n0 EXCEPT !.tries = @ + 1, !.state = "failed"])
        BY <2>0, <2>2, <3>0, <3>2 DEF FetchThrows, retryNotice, Notice, JobStates
      <4> QED
        BY <2>2, <4>1 DEF FetchThrows
    <3> QED
      BY <3>1, <3>2
  <2>3. CASE Finish(c)
    <3>1. Becomes([n0 EXCEPT !.state = "completed"])
      BY <2>0, <2>3 DEF Finish, Notice, JobStates
    <3> QED
      BY <2>3, <3>1 DEF Finish
  <2>4. CASE NoticeStalls(c)
    <3>1. CASE n0.stalls < MaxStalled
      <4>1. Becomes([n0 EXCEPT !.stalls = @ + 1, !.state = "waiting"])
        BY <2>0, <2>4, <3>1 DEF NoticeStalls, requeueNotice, Notice, JobStates
      <4> QED
        BY <2>4, <4>1 DEF NoticeStalls
    <3>2. CASE ~(n0.stalls < MaxStalled)
      <4>1. Becomes([n0 EXCEPT !.state = "failed"])
        BY <2>0, <2>4, <3>2 DEF NoticeStalls, requeueNotice, Notice, JobStates
      <4> QED
        BY <2>4, <4>1 DEF NoticeStalls
    <3> QED
      BY <3>1, <3>2
  <2>5. CASE \E body \in notice[c].bodies : Receive(c, body)
    BY <2>0, <2>5 DEF Receive
  <2> QED
    BY <2>1, <2>2, <2>3, <2>4, <2>5
<1>e. NoticesType'
  BY DEF Fetch, FetchThrows, Finish, NoticeStalls, Receive, NoticesType, Notice
<1>f. NoticeQueueInv'
  BY <1>a, <1>d DEF NoticeQueueInv
<1> QED
  BY <1>a, <1>c, <1>d, <1>e, <1>f

(* So does every step of the sweeper and of the clock.                      *)
LEMMA TypeSweeper == TypeInv /\ SweeperNext /\ besides_sweeper => TypeInv'
<1> SUFFICES ASSUME TypeInv, besides_sweeper,
                    \/ \E t \in Tasks : Elapse(t)
                    \/ \E s \in Sweepers : \/ Tick(s) \/ SweepEnds(s) \/ SweepBatch(s)
                                           \/ SweepAborts(s) \/ SweepPublishes(s)
                                           \/ SweeperDies(s)
             PROVE  TypeInv'
  BY DEF SweeperNext, SweepStep
<1> USE DEF TypeInv, TypeOK, TableType, BrokerType
<1>a. /\ UNCHANGED <<job, deliveries, notice, crashes, call, request>>
      /\ CreationType' /\ DispatchType' /\ CallsType' /\ NoticesType'
      /\ DispatchQueueInv' /\ NoticeQueueInv'
  BY DEF Elapse, Tick, SweepEnds, SweepBatch, SweepAborts, SweepPublishes, SweeperDies,
         sweep_frame, besides_sweeper, dispatchVars, callVars, CreationType, DispatchType,
         CallsType, NoticesType, DispatchQueueInv, NoticeQueueInv
<1>b. tasks' \in [Tasks -> Row]
  <2>1. \A row \in Row : TimedOut(row) \in Row /\ [row EXCEPT !.expiresAt = "passed"] \in Row
    BY DEF TimedOut, Row, TASK_STATUSES, ErrorCodes
  <2>2. CASE \E t \in Tasks : Elapse(t)
    BY <2>1, <2>2 DEF Elapse
  <2>3. CASE \E s \in Sweepers : SweepBatch(s)
    <3>1. PICK E : tasks' = [t \in Tasks |-> IF t \in E THEN TimedOut(tasks[t]) ELSE tasks[t]]
      BY <2>3 DEF SweepBatch
    <3> QED
      BY <2>1, <3>1
  <2> QED
    BY <2>2, <2>3 DEF Tick, SweepEnds, SweepAborts, SweepPublishes, SweeperDies
<1>c. events' \in [Tasks -> Seq(TASK_EVENT_TYPES)]
  <2>1. \A t \in Tasks : Append(events[t], "failed") \in Seq(TASK_EVENT_TYPES)
    BY DEF TASK_EVENT_TYPES
  <2> QED
    BY <2>1 DEF Elapse, Tick, SweepEnds, SweepBatch, SweepAborts, SweepPublishes, SweeperDies
<1>d. SweeperType'
  <2>1. \A E \in SUBSET Tasks : {<<t, nextSeq(t)>> : t \in E} \in SUBSET (Tasks \X Nat)
    BY DEF nextSeq
  <2>2. \A s \in Sweepers : Batches(s) \subseteq SUBSET Tasks
    BY DEF Batches, Expired
  <2>3. \/ UNCHANGED sweeper
        \/ \E s \in Sweepers : \E pc \in {"idle", "sweep"} : GotoSweep(s, pc, {})
        \/ \E s \in Sweepers : \E E \in SUBSET Tasks :
              GotoSweep(s, "publish", {<<t, nextSeq(t)>> : t \in E})
    BY <2>2 DEF Elapse, Tick, SweepEnds, SweepBatch, SweepAborts, SweepPublishes, SweeperDies
  <2> QED
    BY <2>1, <2>3 DEF GotoSweep, SweeperType, SweeperStates
<1>e. published' \subseteq Tasks \X Nat
  BY DEF Elapse, Tick, SweepEnds, SweepBatch, SweepAborts, SweepPublishes, SweeperDies,
         SweeperType, SweeperStates
<1> QED
  BY <1>a, <1>b, <1>c, <1>d, <1>e

(* The type invariant is inductive.                                         *)
LEMMA TypeStep == TypeInv /\ [Next]_vars => TypeInv'
<1> SUFFICES ASSUME TypeInv, [Next]_vars PROVE TypeInv'
  OBVIOUS
<1>1. CASE Next
  BY <1>1, TypeCreation, TypeDispatch, TypeCalls, TypeNotices, TypeSweeper DEF Next
<1>2. CASE UNCHANGED vars
  BY <1>2 DEF vars, tableVars, brokerVars, dispatchVars, callVars, TypeInv, TypeOK, TableType,
         BrokerType, CreationType, DispatchType, CallsType, NoticesType, SweeperType,
         DispatchQueueInv, NoticeQueueInv
<1> QED
  BY <1>1, <1>2

(* TypeOK holds of every behaviour.  In particular no dispatch job is       *)
(* delivered more than maxStalledCount + 1 times and no notice is tried     *)
(* more often than its attempts allow.                                      *)
THEOREM TypeCorrect == Spec => []TypeOK
<1>1. TypeInv => TypeOK
  BY DEF TypeInv
<1> QED
  BY TypeInit, TypeStep, <1>1, PTL DEF Spec

-----------------------------------------------------------------------------
(* The life of a row.  Every later proof needs only what a step can do to a *)
(* row, so that is established once: RowStep lists it, whoever takes the    *)
(* step.                                                                    *)

SameStatus(t) == tasks'[t].status = tasks[t].status
SameTimes(t) == /\ tasks'[t].processingStartedAt = tasks[t].processingStartedAt
                /\ tasks'[t].completedAt = tasks[t].completedAt
SameVerdict(t) == tasks'[t].result = tasks[t].result /\ tasks'[t].error = tasks[t].error

Keeps(t) == SameStatus(t) /\ SameTimes(t) /\ SameVerdict(t)
Starts(t) == creator[t] = "insert" /\ creator'[t] # "insert" /\ tasks'[t] = NewRow
IsClaimed(t) == /\ tasks[t].status = "PENDING" /\ tasks'[t].status = "PROCESSING"
                /\ tasks'[t].processingStartedAt /\ SameVerdict(t)
                /\ tasks'[t].completedAt = tasks[t].completedAt
IsDecided(t) == /\ tasks[t].status = "PROCESSING" /\ tasks'[t].status \in {"COMPLETED", "FAILED"}
                /\ tasks'[t].processingStartedAt = tasks[t].processingStartedAt
                /\ tasks'[t].completedAt
                /\ tasks'[t].result # "null" \/ tasks'[t].error # "null"
IsCancelled(t) == /\ tasks[t].status \in ActiveStatuses /\ tasks'[t].status = "CANCELLED"
                  /\ tasks'[t].completedAt /\ SameVerdict(t)
IsDeleted(t) == creator[t] = "rollback" /\ tasks'[t] = Absent

RowStep(t) ==
    /\ creator[t] # "insert" => creator'[t] # "insert"
    /\ \/ Keeps(t) \/ Starts(t) \/ IsClaimed(t)
       \/ IsDecided(t) \/ IsCancelled(t) \/ IsDeleted(t)

\* A row exists only once its creator has inserted it, agrees with the CHECK
\* constraint, and has no verdict before its end.
RowInv ==
    \A t \in Tasks :
        /\ creator[t] = "insert" => tasks[t].status = "ABSENT"
        /\ tasks[t].status # "ABSENT" => tasks_valid_state_data(tasks[t])
        /\ tasks[t].status \in ActiveStatuses \cup {"ABSENT"}
               => tasks[t].result = "null" /\ tasks[t].error = "null"

(* A step that leaves a row and its creator alone is a RowStep.             *)
LEMMA RowKept ==
    ASSUME NEW t \in Tasks, tasks'[t] = tasks[t], creator'[t] = creator[t]
    PROVE  RowStep(t)
BY DEF RowStep, Keeps, SameStatus, SameTimes, SameVerdict

(* What the creation handler does to a row.                                 *)
LEMMA RowCreation ==
    TypeInv /\ RowInv /\ CreationNext => \A u \in Tasks : RowStep(u)
<1> SUFFICES ASSUME TypeInv, RowInv, NEW t \in Tasks, NEW u \in Tasks,
                    \/ Insert(t) \/ InsertThrows(t) \/ Enqueue(t)
                    \/ EnqueueThrows(t) \/ Rollback(t) \/ CreatorDies(t)
             PROVE  RowStep(u)
  BY DEF CreationNext
<1>0. tasks \in [Tasks -> Row] /\ creator \in [Tasks -> CreatorStates]
  BY DEF TypeInv, TypeOK, TableType, CreationType
<1>1. CASE u # t
  <2>1. tasks'[u] = tasks[u] /\ creator'[u] = creator[u]
    BY <1>0, <1>1 DEF Insert, InsertThrows, Enqueue, EnqueueThrows, Rollback, CreatorDies, insert,
           deleteById
  <2> QED
    BY <2>1, RowKept
<1>2. CASE u = t
  <2>1. creator'[t] # "insert"
    BY <1>0 DEF Insert, InsertThrows, Enqueue, EnqueueThrows, Rollback, CreatorDies
  <2>2. CASE Insert(t)
    BY <1>0, <1>2, <2>1, <2>2 DEF Insert, insert, RowStep, Starts
  <2>3. CASE Rollback(t)
    BY <1>0, <1>2, <2>1, <2>3 DEF Rollback, deleteById, RowStep, IsDeleted
  <2>4. CASE UNCHANGED tasks
    BY <1>2, <2>1, <2>4 DEF RowStep, Keeps, SameStatus, SameTimes, SameVerdict
  <2> QED
    BY <2>2, <2>3, <2>4 DEF InsertThrows, Enqueue, EnqueueThrows, CreatorDies
<1> QED
  BY <1>1, <1>2

(* What a dispatch handler does to a row.                                   *)
LEMMA RowDispatch ==
    TypeInv /\ DispatchNext /\ besides_dispatch => \A u \in Tasks : RowStep(u)
<1> SUFFICES ASSUME TypeInv, UNCHANGED creator, NEW u \in Tasks, NEW t \in Tasks,
                    \/ Take(t) \/ ExecutorAccepts(t) \/ JobStalls(t)
                    \/ \E d \in Deliveries :
                          \/ Claim(t, d) \/ PostReturns(t, d) \/ PostThrows(t, d)
                          \/ RecordError(t, d) \/ Acknowledge(t, d)
                          \/ ClaimThrows(t, d) \/ RecordErrorThrows(t, d) \/ WorkerDies(t, d)
             PROVE  RowStep(u)
  BY DEF DispatchNext, RunStep, besides_dispatch
<1>0. tasks \in [Tasks -> Row]
  BY DEF TypeInv, TypeOK, TableType
<1>1. \/ UNCHANGED tasks
      \/ tasks[t].status = "PENDING" /\ tasks' = [tasks EXCEPT ![t] = Claimed(tasks[t])]
      \/ /\ tasks[t].status = "PROCESSING"
         /\ \E err : tasks' = [tasks EXCEPT ![t] =
                [tasks[t] EXCEPT !.status = "FAILED", !.completedAt = TRUE, !.error = Code(err)]]
  BY DEF Take, ExecutorAccepts, JobStalls, Claim, PostReturns, PostThrows, RecordError,
         Acknowledge, ClaimThrows, RecordErrorThrows, WorkerDies, updateStatus, Matches, failTask
<1>2. CASE UNCHANGED tasks
  BY <1>2, RowKept
<1>3. CASE tasks[t].status = "PENDING" /\ tasks' = [tasks EXCEPT ![t] = Claimed(tasks[t])]
  <2>1. u = t => IsClaimed(t)
    BY <1>0, <1>3 DEF IsClaimed, Claimed, SameVerdict, Row
  <2> QED
    BY <1>0, <1>3, <2>1, RowKept DEF RowStep
<1>4. ASSUME tasks[t].status = "PROCESSING", NEW err,
             tasks' = [tasks EXCEPT ![t] = [tasks[t] EXCEPT !.status = "FAILED",
                                            !.completedAt = TRUE, !.error = Code(err)]]
      PROVE  RowStep(u)
  <2>1. u = t => IsDecided(t)
    BY <1>0, <1>4 DEF IsDecided, Row, Code
  <2> QED
    BY <1>0, <1>4, <2>1, RowKept DEF RowStep
<1> QED
  BY <1>1, <1>2, <1>3, <1>4

(* What an API call's handler does to a row.                                *)
LEMMA RowCalls ==
    TypeInv /\ CallsNext /\ besides_calls => \A u \in Tasks : RowStep(u)
<1> SUFFICES ASSUME TypeInv, UNCHANGED creator, NEW u \in Tasks, NEW c \in Calls,
                    \/ Authorize(c) \/ Cancel(c) \/ SubmitResult(c) \/ ReportProgress(c)
                    \/ InsertEvent(c) \/ Publish(c) \/ EnqueueJob(c)
                    \/ CancelRefused(c) \/ InsertEventConflicts(c) \/ HandlerDies(c)
             PROVE  RowStep(u)
  BY DEF CallsNext, CallBegins, CallStep, besides_calls
<1>0. tasks \in [Tasks -> Row] /\ task(c) \in Tasks /\ c # "null"
  BY TableAssumption DEF TypeInv, TypeOK, TableType, CallsType, Requests, task
<1> DEFINE t == task(c)
<1>1. CASE UNCHANGED tasks
  BY <1>1, RowKept
<1>2. CASE SubmitResult(c) /\ tasks' # tasks
  <2>1. tasks[t].status = "PROCESSING" /\ tasks' = [tasks EXCEPT ![t] = Outcome(c)]
    BY <1>2 DEF SubmitResult, updateStatus, Matches
  <2>2. u = t => IsDecided(t)
    BY <1>0, <2>1 DEF IsDecided, Row, Outcome
  <2> QED
    BY <1>0, <2>1, <2>2, RowKept DEF RowStep
<1>3. CASE ReportProgress(c) /\ tasks' # tasks
  <2>1. tasks' = [tasks EXCEPT ![t].progress = c]
    BY <1>3 DEF ReportProgress, updateProgress
  <2>2. u = t => Keeps(t)
    BY <1>0, <2>1 DEF Keeps, Row, SameStatus, SameTimes, SameVerdict
  <2> QED
    BY <1>0, <2>1, <2>2, RowKept DEF RowStep
<1>4. CASE Cancel(c) /\ tasks' # tasks
  <2>1. /\ tasks[t].status \in ActiveStatuses
        /\ tasks' = [tasks EXCEPT ![t] =
                        [tasks[t] EXCEPT !.status = "CANCELLED", !.completedAt = TRUE]]
    BY <1>4 DEF Cancel, updateStatus, Matches
  <2>2. u = t => IsCancelled(t)
    BY <1>0, <2>1 DEF IsCancelled, Row, SameVerdict
  <2> QED
    BY <1>0, <2>1, <2>2, RowKept DEF RowStep
<1> QED
  BY <1>1, <1>2, <1>3, <1>4 DEF Authorize, InsertEvent, Publish, EnqueueJob,
     CancelRefused, InsertEventConflicts, HandlerDies

(* What the sweeper and the clock do to a row.  The CHECK constraint is     *)
(* what keeps the sweeper from failing a task that was never dispatched.    *)
LEMMA RowSweeper ==
    TypeInv /\ RowInv /\ SweeperNext /\ besides_sweeper => \A u \in Tasks : RowStep(u)
<1> SUFFICES ASSUME TypeInv, RowInv, UNCHANGED creator, NEW u \in Tasks,
                    \/ \E t \in Tasks : Elapse(t)
                    \/ \E s \in Sweepers : \/ Tick(s) \/ SweepEnds(s) \/ SweepBatch(s)
                                           \/ SweepAborts(s) \/ SweepPublishes(s)
                                           \/ SweeperDies(s)
             PROVE  RowStep(u)
  BY DEF SweeperNext, SweepStep, besides_sweeper
<1>0. tasks \in [Tasks -> Row]
  BY DEF TypeInv, TypeOK, TableType
<1>1. CASE UNCHANGED tasks
  BY <1>1, RowKept
<1>2. CASE \E t \in Tasks : Elapse(t)
  <2>1. PICK t \in Tasks : tasks' = [tasks EXCEPT ![t].expiresAt = "passed"]
    BY <1>2 DEF Elapse
  <2>2. Keeps(u)
    BY <1>0, <2>1 DEF Keeps, Row, SameStatus, SameTimes, SameVerdict
  <2> QED
    BY <2>2 DEF RowStep
<1>3. CASE \E s \in Sweepers : SweepBatch(s)
  <2>1. PICK s \in Sweepers : SweepBatch(s)
    BY <1>3
  <2>2. PICK E \in Batches(s) :
           /\ \A t \in E : tasks_valid_state_data(TimedOut(tasks[t]))
           /\ tasks' = [t \in Tasks |-> IF t \in E THEN TimedOut(tasks[t]) ELSE tasks[t]]
    BY <2>1 DEF SweepBatch
  <2>3. CASE u \in E
    <3>1. tasks[u].status \in ActiveStatuses /\ tasks'[u] = TimedOut(tasks[u])
      BY <2>2, <2>3 DEF Batches, Expired
    <3>2. tasks[u].processingStartedAt
      BY <1>0, <2>2, <2>3 DEF tasks_valid_state_data, TimedOut, Row
    <3>3. tasks[u].status = "PROCESSING"
      BY <3>1, <3>2 DEF RowInv, tasks_valid_state_data, ActiveStatuses
    <3>4. IsDecided(u)
      BY <1>0, <3>1, <3>3 DEF IsDecided, TimedOut, Row
    <3> QED
      BY <3>4 DEF RowStep
  <2>4. CASE u \notin E
    BY <2>2, <2>4, RowKept
  <2> QED
    BY <2>3, <2>4
<1> QED
  BY <1>1, <1>2, <1>3 DEF Tick, SweepEnds, SweepAborts, SweepPublishes, SweeperDies

(* Every step of the proxy does to every row what RowStep allows.           *)
LEMMA RowSteps == TypeInv /\ RowInv /\ [Next]_vars => \A u \in Tasks : RowStep(u)
<1> SUFFICES ASSUME TypeInv, RowInv, [Next]_vars, NEW u \in Tasks PROVE RowStep(u)
  OBVIOUS
<1>1. CASE NoticesNext /\ besides_notices
  <2>1. UNCHANGED <<tasks, creator>>
    BY <1>1 DEF NoticesNext, Fetch, FetchThrows, Finish, NoticeStalls, Receive, notice_frame,
       besides_notices
  <2> QED
    BY <2>1, RowKept
<1>2. CASE UNCHANGED vars
  BY <1>2, RowKept DEF vars, tableVars
<1> QED
  BY <1>1, <1>2, RowCreation, RowDispatch, RowCalls, RowSweeper DEF Next

(* There are no rows at first.                                              *)
LEMMA RowInit == Init => RowInv
BY DEF Init, TableInit, CreationInit, RowInv, Absent, NewRow, ActiveStatuses

(* What a step may do to a row keeps the row invariant.                     *)
LEMMA RowPreserved == TypeInv /\ RowInv /\ [Next]_vars => RowInv'
<1> SUFFICES ASSUME TypeInv, RowInv, [Next]_vars, NEW t \in Tasks
             PROVE  /\ creator'[t] = "insert" => tasks'[t].status = "ABSENT"
                    /\ tasks'[t].status # "ABSENT" => tasks_valid_state_data(tasks'[t])
                    /\ tasks'[t].status \in ActiveStatuses \cup {"ABSENT"}
                           => tasks'[t].result = "null" /\ tasks'[t].error = "null"
  BY DEF RowInv, tasks_valid_state_data
<1>1. RowStep(t)
  BY RowSteps
<1> USE DEF RowInv, tasks_valid_state_data, ActiveStatuses
<1>2. CASE Keeps(t)
  BY <1>1, <1>2 DEF RowStep, Keeps, SameStatus, SameTimes, SameVerdict
<1>3. CASE Starts(t)
  BY <1>3 DEF Starts, NewRow
<1>4. CASE IsClaimed(t)
  BY <1>1, <1>4 DEF RowStep, IsClaimed, SameVerdict
<1>5. CASE IsDecided(t)
  BY <1>1, <1>5 DEF RowStep, IsDecided
<1>6. CASE IsCancelled(t)
  BY <1>1, <1>6 DEF RowStep, IsCancelled
<1>7. CASE IsDeleted(t)
  BY <1>1, <1>7 DEF RowStep, IsDeleted, Absent, NewRow
<1> QED
  BY <1>1, <1>2, <1>3, <1>4, <1>5, <1>6, <1>7 DEF RowStep

(* No handler ever writes a row the CHECK constraint would reject: the      *)
(* columns written beside a status always belong to it.                     *)
THEOREM RowsValid == Spec => []ValidStateData
<1>1. RowInv => ValidStateData
  BY DEF RowInv, ValidStateData, Exists
<1>2. Init => TypeInv /\ RowInv
  BY TypeInit, RowInit
<1>3. (TypeInv /\ RowInv) /\ [Next]_vars => (TypeInv /\ RowInv)'
  BY TypeStep, RowPreserved
<1> QED
  BY <1>1, <1>2, <1>3, PTL DEF Spec

(* What RowStep allows, the abstract life of a task allows.                 *)
LEMMA LifeSteps == TypeInv /\ RowInv /\ [Next]_vars => \A t \in Tasks : L!Step(t)
<1> SUFFICES ASSUME TypeInv, RowInv, [Next]_vars, NEW t \in Tasks
             PROVE  L!Step(t)
  OBVIOUS
<1>0. RowStep(t) /\ TypeInv'
  BY RowSteps, TypeStep
<1>1. tasks[t] \in Row /\ tasks'[t] \in Row
  BY <1>0 DEF TypeInv, TypeOK, TableType
<1> USE DEF Exists
<1>2. CASE Keeps(t)
  BY <1>0, <1>2 DEF RowStep, Keeps, SameStatus, SameVerdict, RowInv, L!Step, L!Born, L!Rests
<1>3. CASE Starts(t)
  BY <1>3 DEF Starts, NewRow, RowInv, L!Step, L!Born
<1>4. CASE IsClaimed(t)
  BY <1>4 DEF IsClaimed, SameVerdict, L!Step, L!Dispatched
<1>5. CASE IsDecided(t)
  BY <1>1, <1>5 DEF IsDecided, RowInv, ActiveStatuses, Row, L!Step, L!Decided
<1>6. CASE IsCancelled(t)
  BY <1>6 DEF IsCancelled, SameVerdict, ActiveStatuses, L!Step, L!Cancelled
<1>7. CASE IsDeleted(t)
  BY <1>0, <1>1, <1>7 DEF RowStep, IsDeleted, Absent, NewRow, Row, TASK_STATUSES, L!Step, L!Removed
<1> QED
  BY <1>0, <1>2, <1>3, <1>4, <1>5, <1>6, <1>7 DEF RowStep

(* The abstract life begins where the tables are empty.                     *)
LEMMA LifeInit == Init => L!Init
BY DEF Init, TableInit, CreationInit, L!Init, Exists, Absent, NewRow

(* The detailed specification implements the abstract one: through every    *)
(* interleaving, fault and redelivery a task's row only moves forward, gets *)
(* its verdict once, and succeeds or fails only after a dispatch.           *)
THEOREM ProxyImplementsLifecycle == Spec => Lifecycle
<1>1. Init => L!Init
  BY LifeInit
<1>2. TypeInv /\ RowInv /\ [Next]_vars =>
        [L!Next]_<<[t \in Tasks |-> IF Exists(t) THEN tasks[t].status
                                    ELSE IF creator[t] = "insert" THEN "UNBORN"
                                    ELSE "REMOVED"],
                   [t \in Tasks |-> [result |-> tasks[t].result, error |-> tasks[t].error]]>>
  BY LifeSteps DEF L!Next
<1>3. Init => TypeInv /\ RowInv
  BY TypeInit, RowInit
<1>4. (TypeInv /\ RowInv) /\ [Next]_vars => (TypeInv /\ RowInv)'
  BY TypeStep, RowPreserved
<1> QED
  BY <1>1, <1>2, <1>3, <1>4, PTL DEF Spec, Lifecycle, L!Spec

-----------------------------------------------------------------------------
(* Who ended a task, and who may still speak about it.  The two predicates  *)
(* every step keeps carry all the invariants below: a task past its         *)
(* dispatch stays past it, a task that is over stays over.                  *)

Past(t) == tasks[t].status # "PENDING" /\ creator[t] # "insert"
Over(t) == tasks[t].status \notin ActiveStatuses /\ creator[t] # "insert"

\* A run past its claim, or a completed job, has a task that waits no more; and
\* only one run can have claimed it.
DispatchInv ==
    \A t \in Tasks :
        /\ \A d \in Deliveries :
              /\ dispatcher[<<t, d>>] # "none" => creator[t] # "insert"
              /\ dispatcher[<<t, d>>] \notin {"none", "claim", "gone"} => Past(t)
              /\ <<t, d>> \in posted => Past(t)
        /\ job[t] = "completed" => Past(t)
        /\ \A d, e \in Deliveries : <<t, d>> \in posted /\ <<t, e>> \in posted => d = e

(* A task past its dispatch stays past it; a task that is over stays over,  *)
(* and its row is kept as it is or deleted.                                 *)
LEMMA Stable ==
    TypeInv /\ RowInv /\ [Next]_vars =>
        \A t \in Tasks : /\ Past(t) => Past(t)'
                         /\ Over(t) => Over(t)' /\ (Keeps(t) \/ tasks'[t].status = "ABSENT")
<1> SUFFICES ASSUME TypeInv, RowInv, [Next]_vars, NEW t \in Tasks
             PROVE  /\ Past(t) => Past(t)'
                    /\ Over(t) => Over(t)' /\ (Keeps(t) \/ tasks'[t].status = "ABSENT")
  OBVIOUS
<1>1. RowStep(t)
  BY RowSteps
<1> USE DEF Past, Over, ActiveStatuses
<1>2. CASE Keeps(t)
  BY <1>1, <1>2 DEF RowStep, Keeps, SameStatus
<1>3. CASE Starts(t)
  BY <1>3 DEF Starts
<1>4. CASE IsClaimed(t) \/ IsDecided(t) \/ IsCancelled(t)
  BY <1>1, <1>4 DEF RowStep, IsClaimed, IsDecided, IsCancelled
<1>5. CASE IsDeleted(t)
  BY <1>1, <1>5 DEF RowStep, IsDeleted, Absent, NewRow
<1> QED
  BY <1>1, <1>2, <1>3, <1>4, <1>5 DEF RowStep

(* There are no runs at first.                                              *)
LEMMA DispatchInvInit == Init => DispatchInv
BY DEF Init, BrokerInit, DispatchInit, DispatchInv, Runs

(* Steps that are not the dispatcher's leave its invariant alone.           *)
LEMMA DispatchKept ==
    ASSUME TypeInv, RowInv, DispatchInv, [Next]_vars,
           UNCHANGED dispatchVars,
           \A t \in Tasks : job'[t] = "completed" => job[t] = "completed"
    PROVE  DispatchInv'
<1>1. \A t \in Tasks : Past(t) => Past(t)'
  BY Stable
<1>2. \A t \in Tasks : creator[t] # "insert" => creator'[t] # "insert"
  BY RowSteps DEF RowStep
<1> QED
  BY <1>1, <1>2 DEF DispatchInv, dispatchVars

(* Every step keeps the dispatcher's invariant.                             *)
LEMMA DispatchPreserved == TypeInv /\ RowInv /\ DispatchInv /\ [Next]_vars => DispatchInv'
<1> SUFFICES ASSUME TypeInv, RowInv, DispatchInv, [Next]_vars PROVE DispatchInv'
  OBVIOUS
<1>a. \A t \in Tasks : Past(t) => Past(t)'
  BY Stable
<1>b. \A t \in Tasks : creator[t] # "insert" => creator'[t] # "insert"
  BY RowSteps DEF RowStep
<1>c. /\ job \in [Tasks -> JobStates] /\ dispatcher \in [Runs -> DispatcherStates]
      /\ DispatchQueueInv /\ tasks \in [Tasks -> Row]
  BY DEF TypeInv, TypeOK, BrokerType, DispatchType, TableType
<1>1. CASE CreationNext /\ besides_creation
  <2>1. UNCHANGED dispatchVars
    BY <1>1 DEF besides_creation
  <2>2. \A t \in Tasks : job'[t] = "completed" => job[t] = "completed"
    BY <1>1, <1>c DEF CreationNext, Insert, InsertThrows, Enqueue, EnqueueThrows, Rollback,
       CreatorDies, enqueueDispatch
  <2> QED
    BY <2>1, <2>2, DispatchKept
<1>2. CASE \/ CallsNext /\ besides_calls
           \/ NoticesNext /\ besides_notices
           \/ SweeperNext /\ besides_sweeper
           \/ UNCHANGED vars
  <2>1. UNCHANGED <<dispatchVars, job>>
    BY <1>2 DEF CallsNext, CallBegins, CallStep, Authorize, Cancel, SubmitResult, ReportProgress,
       InsertEvent, Publish, EnqueueJob, CancelRefused, InsertEventConflicts, HandlerDies, call_frame,
       besides_calls, NoticesNext, Fetch, FetchThrows, Finish, NoticeStalls, Receive,
       notice_frame, besides_notices, SweeperNext, SweepStep, Elapse, Tick, SweepEnds, SweepBatch,
       SweepAborts, SweepPublishes, SweeperDies, sweep_frame, vars, brokerVars
  <2> QED
    BY <2>1, DispatchKept
<1>3. CASE DispatchNext /\ besides_dispatch
  <2>0. UNCHANGED creator
    BY <1>3 DEF besides_dispatch
  <2>1. PICK t \in Tasks :
           \/ Take(t) \/ ExecutorAccepts(t) \/ JobStalls(t)
           \/ \E d \in Deliveries :
                 RunStep(t, d) \/ ClaimThrows(t, d) \/ RecordErrorThrows(t, d) \/ WorkerDies(t, d)
    BY <1>3 DEF DispatchNext
  <2>2. CASE Take(t)
    <3>1. creator[t] # "insert"
      BY <1>c, <2>2 DEF Take, take, DispatchQueueInv
    <3>2. UNCHANGED <<tasks, posted>> /\ \A u \in Tasks : job'[u] = "completed" => job[u] = "completed"
      BY <1>c, <2>2 DEF Take, take
    <3>3. \A u \in Tasks, d \in Deliveries :
             dispatcher'[<<u, d>>] = dispatcher[<<u, d>>] \/ (u = t /\ dispatcher'[<<u, d>>] = "claim")
      BY <1>c, <2>2 DEF Take, Goto, Runs
    <3> QED
      BY <1>a, <1>b, <2>0, <3>1, <3>2, <3>3 DEF DispatchInv
  <2>3. CASE ExecutorAccepts(t)
    BY <1>a, <1>b, <2>3 DEF ExecutorAccepts, DispatchInv
  <2>4. CASE JobStalls(t)
    <3>1. UNCHANGED <<dispatcher, posted>> /\ \A u \in Tasks : job'[u] = "completed" => job[u] = "completed"
      BY <1>c, <2>4 DEF JobStalls, requeueStalled, dispatchVars
    <3> QED
      BY <1>a, <1>b, <3>1 DEF DispatchInv
  <2>5. ASSUME NEW d \in Deliveries,
               RunStep(t, d) \/ ClaimThrows(t, d) \/ RecordErrorThrows(t, d) \/ WorkerDies(t, d)
        PROVE  DispatchInv'
    <3>0. <<t, d>> \in Runs
      BY DEF Runs
    <3>1. CASE Claim(t, d)
      <4>1. dispatcher[<<t, d>>] = "claim" /\ creator[t] # "insert" /\ UNCHANGED job
        BY <3>1 DEF Claim, DispatchInv
      <4>2. Past(t)'
        BY <1>c, <2>0, <3>1, <4>1 DEF Claim, Past, updateStatus, Matches, Claimed, Row
      <4>3. \A r \in Runs \ {<<t, d>>} : dispatcher'[r] = dispatcher[r]
        BY <1>c, <3>1 DEF Claim, Goto
      <4>4. \/ UNCHANGED posted
            \/ posted' = posted \cup {<<t, d>>} /\ \A e \in Deliveries : <<t, e>> \notin posted
        BY <3>1 DEF Claim, Matches, DispatchInv, Past
      <4> QED
        BY <1>a, <1>b, <2>0, <4>1, <4>2, <4>3, <4>4 DEF DispatchInv, Runs
    <3>2. CASE PostReturns(t, d) \/ PostThrows(t, d) \/ RecordError(t, d)
      <4>1. dispatcher[<<t, d>>] \notin {"none", "claim", "gone"} /\ UNCHANGED <<job, posted>>
        BY <3>2 DEF PostReturns, PostThrows, RecordError, DispatchErrors
      <4>2. \A r \in Runs \ {<<t, d>>} : dispatcher'[r] = dispatcher[r]
        BY <1>c, <3>2 DEF PostReturns, PostThrows, RecordError, Goto
      <4> QED
        BY <1>a, <1>b, <2>0, <4>1, <4>2 DEF DispatchInv, Runs, Past
    <3>3. CASE Acknowledge(t, d)
      <4>1. dispatcher[<<t, d>>] = "ret" /\ UNCHANGED posted
        BY <3>3 DEF Acknowledge
      <4>2. \A u \in Tasks : job'[u] = "completed" => job[u] = "completed" \/ u = t
        BY <1>c, <3>3 DEF Acknowledge, settle
      <4>3. dispatcher' = [dispatcher EXCEPT ![<<t, d>>] = "gone"]
        BY <3>3 DEF Acknowledge, Goto
      <4> QED
        BY <1>a, <1>b, <1>c, <2>0, <3>0, <4>1, <4>2, <4>3 DEF DispatchInv, Runs, Past
    <3>4. CASE ClaimThrows(t, d) \/ RecordErrorThrows(t, d) \/ WorkerDies(t, d)
      <4>1. UNCHANGED posted /\ dispatcher[<<t, d>>] # "none"
        BY <3>4 DEF ClaimThrows, RecordErrorThrows, WorkerDies, DispatchErrors
      <4>2. \A u \in Tasks : job'[u] = "completed" => job[u] = "completed"
        BY <1>c, <3>4 DEF ClaimThrows, RecordErrorThrows, WorkerDies, settle
      <4>3. dispatcher' = [dispatcher EXCEPT ![<<t, d>>] = "gone"]
        BY <3>4 DEF ClaimThrows, RecordErrorThrows, WorkerDies, Goto
      <4> QED
        BY <1>a, <1>b, <1>c, <2>0, <3>0, <4>1, <4>2, <4>3 DEF DispatchInv, Runs
    <3> QED
      BY <2>5, <3>1, <3>2, <3>3, <3>4 DEF RunStep
  <2> QED
    BY <2>1, <2>2, <2>3, <2>4, <2>5
<1> QED
  BY <1>1, <1>2, <1>3 DEF Next

(* What holds of every behaviour, put together.                             *)
LEMMA DispatchAlways == Spec => [](TypeInv /\ RowInv /\ DispatchInv)
<1>1. Init => TypeInv /\ RowInv /\ DispatchInv
  BY TypeInit, RowInit, DispatchInvInit
<1>2. (TypeInv /\ RowInv /\ DispatchInv) /\ [Next]_vars => (TypeInv /\ RowInv /\ DispatchInv)'
  BY TypeStep, RowPreserved, DispatchPreserved
<1> QED
  BY <1>1, <1>2, PTL DEF Spec

(* The guarded PENDING -> PROCESSING update of DispatchProcessor lets one   *)
(* run POST, for any number of redeliveries, hung workers and crashes.      *)
THEOREM DispatchedAtMostOnce == Spec => []AtMostOneDispatch
<1>1. DispatchInv => AtMostOneDispatch
  BY DEF DispatchInv, AtMostOneDispatch
<1> QED
  BY <1>1, DispatchAlways, PTL

(* A dispatch job is completed only when its task waits no longer.          *)
THEOREM DispatchNotLost == Spec => []NoLostDispatch
<1>1. DispatchInv => NoLostDispatch
  BY DEF DispatchInv, NoLostDispatch, Past
<1> QED
  BY <1>1, DispatchAlways, PTL
=============================================================================
