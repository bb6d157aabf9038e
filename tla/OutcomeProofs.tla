---------------------------- MODULE OutcomeProofs ----------------------------
(***************************************************************************)
(* Who ended a task, and what is said about it afterwards: one call or     *)
(* sweep ends a task, and its log and its notices tell that end.  Proved   *)
(* for every set of tasks, calls and sweepers and every choice of faults.  *)
(***************************************************************************)
EXTENDS ProxyProofs

\* Call c's guarded UPDATE matched: it is the one that ended its task.
Ended(c) ==
    \/ kind(c) \in ResultKinds /\ call[c].pc \in {"event", "publish", "enqueue"}
    \/ kind(c) = "cancel" /\ call[c].pc \in {"publish", "enqueue"}
    \/ notice[c].state # "none"

\* The status, result and error that c gives a task it ends.
Verdict(c) ==
    [status |-> IF kind(c) = "completed" THEN "COMPLETED"
                ELSE IF kind(c) = "failed" THEN "FAILED" ELSE "CANCELLED",
     result |-> IF kind(c) = "completed" THEN c ELSE "null",
     error  |-> IF kind(c) = "failed" THEN c ELSE "null"]

\* A call that ended its task found it alive, left it its verdict, and is the
\* only one that did.
EndInv ==
    /\ \A c \in Calls :
          /\ Ended(c) => Over(task(c)) /\ kind(c) # "progress"
          /\ Ended(c) /\ Exists(task(c)) => Body(tasks[task(c)]) = Verdict(c)
          /\ call[c].pc = "enqueue" => kind(c) # "progress"
          /\ kind(c) = "cancel" => call[c].pc \notin {"update", "event"}
    /\ \A b, c \in Calls : Ended(b) /\ Ended(c) /\ task(b) = task(c) => b = c

\* What a notice carries is the verdict of the call that queued it.
NoticeInv ==
    /\ \A c \in Calls : \A body \in notice[c].bodies : body = Verdict(c)
    /\ \A m \in delivered : m[2] = Verdict(m[1])

\* The log announces an end only of a task that is over, and not yet while the
\* call that ended it is still to log it.
LogInv ==
    /\ \A t \in Tasks : \A i \in DOMAIN events[t] :
          Terminal(t, i) =>
             /\ Over(t)
             /\ Exists(t) => tasks[t].status = Announces(events[t][i])
             /\ \A j \in DOMAIN events[t] : Terminal(t, j) => i = j
    /\ \A c \in Calls :
          kind(c) \in ResultKinds /\ call[c].pc = "event" =>
             \A i \in DOMAIN events[task(c)] : ~Terminal(task(c), i)

\* A sweep still to be published is of tasks that are over, and of no other sweep.
SweepInv ==
    /\ \A s \in Sweepers : \A m \in sweeper[s].batch : Over(m[1])
    /\ NoDoubleSweep

\* The steps of call c's handler.
StepOf(c) ==
    \/ Authorize(c) \/ Cancel(c) \/ SubmitResult(c) \/ ReportProgress(c)
    \/ InsertEvent(c) \/ Publish(c) \/ EnqueueJob(c)
    \/ CancelRefused(c) \/ InsertEventConflicts(c) \/ HandlerDies(c)

-----------------------------------------------------------------------------
(* A request never changes, a handler moves only by a step of its own, and  *)
(* the workers enqueue nothing.                                             *)
LEMMA Movers ==
    TypeInv /\ [Next]_vars =>
        /\ UNCHANGED request
        /\ \/ \E c \in Calls : StepOf(c) /\ besides_calls
           \/ /\ UNCHANGED call
              /\ \A c \in Calls : notice[c].state = "none" => notice'[c].state = "none"
<1> SUFFICES ASSUME TypeInv, [Next]_vars
             PROVE  /\ UNCHANGED request
                    /\ \/ \E c \in Calls : StepOf(c) /\ besides_calls
                       \/ /\ UNCHANGED call
                          /\ \A c \in Calls : notice[c].state = "none" => notice'[c].state = "none"
  OBVIOUS
<1>1. CASE CallsNext /\ besides_calls
  <2>1. PICK c \in Calls : StepOf(c)
    BY <1>1 DEF CallsNext, CallBegins, CallStep, StepOf
  <2>2. UNCHANGED request
    BY <2>1 DEF StepOf, Authorize, Cancel, SubmitResult, ReportProgress, InsertEvent, Publish,
       EnqueueJob, CancelRefused, InsertEventConflicts, HandlerDies, call_frame
  <2> QED
    BY <1>1, <2>1, <2>2
<1>2. CASE \/ CreationNext /\ besides_creation
           \/ DispatchNext /\ besides_dispatch
           \/ SweeperNext /\ besides_sweeper
           \/ UNCHANGED vars
  BY <1>2 DEF CreationNext, Insert, InsertThrows, Enqueue, EnqueueThrows, Rollback, CreatorDies,
     create_frame, besides_creation, DispatchNext, RunStep, Take, ExecutorAccepts, JobStalls,
     Claim, PostReturns, PostThrows, RecordError, Acknowledge, ClaimThrows, RecordErrorThrows,
     WorkerDies, dispatch_frame, besides_dispatch, SweeperNext, SweepStep, Elapse, Tick, SweepEnds,
     SweepBatch, SweepAborts, SweepPublishes, SweeperDies, sweep_frame, vars, brokerVars, callVars
<1>3. CASE NoticesNext /\ besides_notices
  <2>1. UNCHANGED <<request, call>>
    BY <1>3 DEF NoticesNext, Fetch, FetchThrows, Finish, NoticeStalls, Receive, notice_frame
  <2>2. notice \in [Calls -> Notice]
    BY DEF TypeInv, TypeOK, BrokerType
  <2>3. ASSUME NEW c \in Calls, notice[c].state = "none" PROVE notice'[c].state = "none"
    BY <1>3, <2>2, <2>3 DEF NoticesNext, Fetch, FetchThrows, Finish, NoticeStalls, Receive,
       retryNotice, requeueNotice
  <2> QED
    BY <2>1, <2>3
<1> QED
  BY <1>1, <1>2, <1>3 DEF Next

\* In this step c ends its task, which was alive.
Ends(c) ==
    /\ tasks[task(c)].status \in ActiveStatuses
    /\ Over(task(c))'
    /\ Body(tasks'[task(c)]) = Verdict(c)
    /\ kind(c) # "progress"
    /\ \A b \in Calls \ {c} : Ended(b)' => Ended(b)

(* A step of c's handler after which c has ended its task either finds that *)
(* c had ended it before or is the one in which it does.                    *)
LEMMA EndedByOwnStep ==
    ASSUME TypeInv, RowInv, EndInv, NEW c \in Calls, StepOf(c), besides_calls, UNCHANGED request
    PROVE  /\ Ended(c)' => Ended(c) \/ Ends(c)
           /\ \A b \in Calls \ {c} : call'[b] = call[b] /\ notice'[b] = notice[b]
           /\ call'[c].pc = "enqueue" => kind(c) # "progress"
           /\ kind(c) = "cancel" => call'[c].pc \notin {"update", "event"}
<1>0. /\ tasks \in [Tasks -> Row] /\ notice \in [Calls -> Notice] /\ call \in [Calls -> CallStates]
      /\ task(c) \in Tasks /\ kind(c) \in Kinds
  BY DEF TypeInv, TypeOK, TableType, BrokerType, CallsType, Requests, task, kind
<1>a. UNCHANGED creator
  BY DEF besides_calls
<1>1. \A b \in Calls \ {c} : call'[b] = call[b] /\ notice'[b] = notice[b]
  BY <1>0 DEF StepOf, Authorize, Cancel, SubmitResult, ReportProgress, InsertEvent, Publish,
     EnqueueJob, CancelRefused, InsertEventConflicts, HandlerDies, GotoCall, Logged, enqueueNotice
<1>2. \A b \in Calls \ {c} : Ended(b)' => Ended(b)
  BY <1>1 DEF Ended, kind
<1> USE DEF At, GotoCall
<1>3. CASE Authorize(c)
  <2>1. call'[c].pc \in {"404", "update", "409"} /\ UNCHANGED notice /\ kind(c) # "cancel"
    BY <1>0, <1>3 DEF Authorize, CallStates
  <2> QED
    BY <1>1, <2>1 DEF Ended, kind
<1>4. CASE Cancel(c)
  <2>1. kind(c) = "cancel" /\ UNCHANGED notice
    BY <1>4 DEF Cancel
  <2>2. CASE Matches(task(c), ActiveStatuses)
    <3>1. call'[c].pc = "publish"
      BY <1>0, <1>4, <2>2 DEF Cancel, Logged, CallStates
    <3>2. tasks'[task(c)] = [tasks[task(c)] EXCEPT !.status = "CANCELLED", !.completedAt = TRUE]
      BY <1>0, <1>4, <2>2 DEF Cancel, updateStatus
    <3>3. /\ tasks[task(c)].result = "null" /\ tasks[task(c)].error = "null"
          /\ creator[task(c)] # "insert" /\ tasks[task(c)] \in Row
      BY <1>0, <2>2 DEF RowInv, Matches, ActiveStatuses
    <3>4. Over(task(c))'
      BY <1>a, <3>2, <3>3 DEF Over, Row, ActiveStatuses, task
    <3>5. Body(tasks'[task(c)]) = Verdict(c)
      BY <2>1, <3>2, <3>3 DEF Body, Verdict, Row
    <3>6. Ends(c)
      BY <1>2, <2>1, <2>2, <3>4, <3>5 DEF Ends, Matches
    <3> QED
      BY <1>1, <2>1, <3>1, <3>6
  <2>3. CASE ~Matches(task(c), ActiveStatuses)
    <3>1. call'[c].pc = "find"
      BY <1>0, <1>4, <2>3 DEF Cancel, CallStates
    <3> QED
      BY <1>1, <2>1, <3>1 DEF Ended, kind
  <2> QED
    BY <2>2, <2>3
<1>5. CASE SubmitResult(c)
  <2>1. kind(c) \in ResultKinds /\ UNCHANGED notice
    BY <1>5 DEF SubmitResult
  <2>2. CASE Matches(task(c), {"PROCESSING"})
    <3>1. call'[c].pc = "event"
      BY <1>0, <1>5, <2>2 DEF SubmitResult
    <3>2. tasks'[task(c)] = Outcome(c)
      BY <1>0, <1>5, <2>2 DEF SubmitResult, updateStatus
    <3>3. /\ tasks[task(c)].result = "null" /\ tasks[task(c)].error = "null"
          /\ creator[task(c)] # "insert" /\ tasks[task(c)] \in Row
      BY <1>0, <2>2 DEF RowInv, Matches, ActiveStatuses
    <3>4. Over(task(c))'
      BY <1>a, <3>2, <3>3 DEF Over, Row, ActiveStatuses, task, Outcome
    <3>5. Body(tasks'[task(c)]) = Verdict(c)
      BY <2>1, <3>2, <3>3 DEF Body, Verdict, Row, Outcome, ResultKinds
    <3>6. Ends(c)
      BY <1>2, <2>1, <2>2, <3>4, <3>5 DEF Ends, Matches, ActiveStatuses, ResultKinds
    <3> QED
      BY <1>1, <2>1, <3>1, <3>6 DEF ResultKinds
  <2>3. CASE ~Matches(task(c), {"PROCESSING"})
    <3>1. call'[c].pc = "204"
      BY <1>0, <1>5, <2>3 DEF SubmitResult
    <3> QED
      BY <1>1, <2>1, <3>1 DEF Ended, kind
  <2> QED
    BY <2>2, <2>3
<1>6. CASE ReportProgress(c)
  <2>1. call'[c].pc = "event" /\ kind(c) = "progress" /\ UNCHANGED notice
    BY <1>0, <1>6 DEF ReportProgress
  <2> QED
    BY <1>1, <2>1 DEF Ended, kind, ResultKinds
<1>7. CASE InsertEvent(c)
  <2>1. /\ call[c].pc = "event" /\ call'[c].pc = "publish" /\ kind(c) # "cancel"
        /\ UNCHANGED notice
    BY <1>0, <1>7 DEF InsertEvent, Logged
  <2> QED
    BY <1>1, <2>1 DEF Ended, kind
<1>8. CASE Publish(c)
  <2>1. /\ call[c].pc = "publish" /\ UNCHANGED notice
        /\ call'[c].pc = IF Notifies(c) THEN "enqueue" ELSE "204"
    BY <1>0, <1>8 DEF Publish
  <2>2. Notifies(c) => kind(c) \in ResultKinds \cup {"cancel"}
    BY DEF Notifies
  <2> QED
    BY <1>1, <2>1, <2>2 DEF Ended, kind, ResultKinds
<1>9. CASE EnqueueJob(c)
  <2>1. call[c].pc = "enqueue" /\ call'[c].pc = "204"
    BY <1>0, <1>9 DEF EnqueueJob
  <2>2. Ended(c)
    BY <1>0, <2>1 DEF EndInv, Ended, Kinds
  <2> QED
    BY <1>1, <2>1, <2>2
<1>10. CASE CancelRefused(c) \/ InsertEventConflicts(c) \/ HandlerDies(c)
  <2>1. call'[c].pc \in {"404", "409", "500"} /\ UNCHANGED notice
    BY <1>0, <1>10 DEF CancelRefused, InsertEventConflicts, HandlerDies, CallStates
  <2> QED
    BY <1>1, <2>1 DEF Ended, kind
<1> QED
  BY <1>3, <1>4, <1>5, <1>6, <1>7, <1>8, <1>9, <1>10 DEF StepOf

(* The same of any step: the others end no task for c.                      *)
LEMMA EndedStep ==
    TypeInv /\ RowInv /\ EndInv /\ [Next]_vars =>
        \A c \in Calls : /\ Ended(c)' => Ended(c) \/ Ends(c)
                         /\ call'[c].pc = "enqueue" => kind(c) # "progress"
                         /\ kind(c) = "cancel" => call'[c].pc \notin {"update", "event"}
<1> SUFFICES ASSUME TypeInv, RowInv, EndInv, [Next]_vars, NEW c \in Calls
             PROVE  /\ Ended(c)' => Ended(c) \/ Ends(c)
                    /\ call'[c].pc = "enqueue" => kind(c) # "progress"
                    /\ kind(c) = "cancel" => call'[c].pc \notin {"update", "event"}
  OBVIOUS
<1>0. UNCHANGED request
  BY Movers
<1>1. CASE \E b \in Calls : StepOf(b) /\ besides_calls
  <2>1. PICK b \in Calls : StepOf(b) /\ besides_calls
    BY <1>1
  <2>2. CASE b = c
    BY <1>0, <2>1, <2>2, EndedByOwnStep
  <2>3. CASE b # c
    <3>1. call'[c] = call[c] /\ notice'[c] = notice[c]
      BY <1>0, <2>1, <2>3, EndedByOwnStep
    <3> QED
      BY <1>0, <3>1 DEF Ended, kind, EndInv
  <2> QED
    BY <2>2, <2>3
<1>2. CASE UNCHANGED call /\ (notice[c].state = "none" => notice'[c].state = "none")
  BY <1>0, <1>2 DEF Ended, kind, EndInv
<1> QED
  BY <1>1, <1>2, Movers

(* No call has begun at first.                                              *)
LEMMA EndInit == Init => EndInv
BY DEF Init, CallsInit, BrokerInit, NoNotice, EndInv, Ended

(* Every step keeps EndInv: a task that is over is never ended again, and   *)
(* its row keeps its verdict or is deleted.                                 *)
LEMMA EndPreserved == TypeInv /\ RowInv /\ EndInv /\ [Next]_vars => EndInv'
<1> SUFFICES ASSUME TypeInv, RowInv, EndInv, [Next]_vars PROVE EndInv'
  OBVIOUS
<1>0. UNCHANGED request
  BY Movers
<1>1. \A c \in Calls : task(c) \in Tasks /\ task(c)' = task(c) /\ kind(c)' = kind(c)
                       /\ Verdict(c)' = Verdict(c)
  BY <1>0 DEF TypeInv, TypeOK, CallsType, Requests, task, kind, Verdict
<1>2. ASSUME NEW c \in Calls, Ended(c)'
      PROVE  /\ Over(task(c))' /\ kind(c) # "progress"
             /\ Exists(task(c))' => Body(tasks'[task(c)]) = Verdict(c)
  <2>1. CASE Ends(c)
    BY <2>1 DEF Ends
  <2>2. CASE Ended(c)
    <3>1. Over(task(c)) /\ kind(c) # "progress" /\ (Exists(task(c)) => Body(tasks[task(c)]) = Verdict(c))
      BY <2>2 DEF EndInv
    <3>2. Over(task(c))' /\ (Keeps(task(c)) \/ tasks'[task(c)].status = "ABSENT")
      BY <1>0, <1>1, <3>1, Stable DEF Over, task
    <3>3. Exists(task(c))' => tasks'[task(c)].status # "ABSENT"
      BY <1>0 DEF Exists, task
    <3>4. Keeps(task(c)) => Body(tasks'[task(c)]) = Body(tasks[task(c)])
      BY DEF Keeps, SameStatus, SameVerdict, Body
    <3>5. Keeps(task(c)) /\ tasks'[task(c)].status # "ABSENT" => Exists(task(c))
      BY DEF Keeps, SameStatus, Exists
    <3> QED
      BY <3>1, <3>2, <3>3, <3>4, <3>5
  <2> QED
    BY <1>2, <2>1, <2>2, EndedStep
<1>3. ASSUME NEW b \in Calls, NEW c \in Calls, Ended(b)', Ended(c)', task(b) = task(c), b # c
      PROVE  FALSE
  <2>1. CASE Ended(b) /\ Ended(c)
    BY <1>3, <2>1 DEF EndInv
  <2>2. CASE Ends(b)
    BY <1>3, <2>2 DEF Ends, EndInv, Over
  <2>3. CASE Ends(c)
    BY <1>3, <2>3 DEF Ends, EndInv, Over
  <2> QED
    BY <1>3, <2>1, <2>2, <2>3, EndedStep
<1>4. \A c \in Calls :
          /\ Ended(c)' => Over(task(c))' /\ kind(c)' # "progress"
          /\ Ended(c)' /\ Exists(task(c))' => Body(tasks[task(c)])' = Verdict(c)'
  BY <1>1, <1>2 DEF Body
<1>5. \A c \in Calls :
          /\ call'[c].pc = "enqueue" => kind(c)' # "progress"
          /\ kind(c)' = "cancel" => call'[c].pc \notin {"update", "event"}
  BY <1>1, EndedStep
<1>6. \A b, c \in Calls : Ended(b)' /\ Ended(c)' /\ task(b)' = task(c)' => b = c
  BY <1>1, <1>3
<1> QED
  BY <1>4, <1>5, <1>6 DEF EndInv

-----------------------------------------------------------------------------
(* Nothing is queued or delivered at first.                                 *)
LEMMA NoticeInit == Init => NoticeInv
BY DEF Init, BrokerInit, NoNotice, NoticesInit, NoticeInv

(* A worker fetches the row of a task its call has ended, so what it POSTs  *)
(* is that call's verdict, however late the fetch.                          *)
LEMMA NoticePreserved == TypeInv /\ EndInv /\ NoticeInv /\ [Next]_vars => NoticeInv'
<1> SUFFICES ASSUME TypeInv, EndInv, NoticeInv, [Next]_vars PROVE NoticeInv'
  OBVIOUS
<1>0. UNCHANGED request
  BY Movers
<1>1. \A c : Verdict(c)' = Verdict(c)
  BY <1>0 DEF kind, Verdict
<1>2. notice \in [Calls -> Notice] /\ delivered \subseteq Calls \X Bodies
  BY DEF TypeInv, TypeOK, BrokerType, NoticesType
<1>3. CASE NoticesNext /\ besides_notices
  <2>1. PICK c \in Calls : \/ Fetch(c) \/ FetchThrows(c) \/ Finish(c) \/ NoticeStalls(c)
                           \/ \E body \in notice[c].bodies : Receive(c, body)
    BY <1>3 DEF NoticesNext
  <2>2. CASE Fetch(c)
    <3>1. Exists(task(c)) => Body(tasks[task(c)]) = Verdict(c)
      BY <2>2 DEF EndInv, Ended, Fetch
    <3>2. \A b \in Calls : \/ notice'[b].bodies = notice[b].bodies
                           \/ /\ b = c /\ Exists(task(c))
                              /\ notice'[b].bodies = notice[b].bodies \cup {Body(tasks[task(c)])}
      BY <1>2, <2>2 DEF Fetch, Exists, Notice
    <3> QED
      BY <1>1, <2>2, <3>1, <3>2 DEF Fetch, NoticeInv
  <2>3. CASE FetchThrows(c) \/ Finish(c) \/ NoticeStalls(c)
    <3>1. \A b \in Calls : notice'[b].bodies = notice[b].bodies
      BY <1>2, <2>3 DEF FetchThrows, retryNotice, Finish, NoticeStalls, requeueNotice, Notice
    <3>2. UNCHANGED delivered
      BY <2>3 DEF FetchThrows, Finish, NoticeStalls
    <3> QED
      BY <1>1, <3>1, <3>2 DEF NoticeInv
  <2>4. ASSUME NEW body \in notice[c].bodies, Receive(c, body)
        PROVE  NoticeInv'
    BY <1>1, <2>4 DEF Receive, NoticeInv
  <2> QED
    BY <2>1, <2>2, <2>3, <2>4
<1>4. CASE CallsNext /\ besides_calls
  <2>1. PICK c \in Calls : StepOf(c)
    BY <1>4 DEF CallsNext, CallBegins, CallStep, StepOf
  <2>2. \A b \in Calls : notice'[b].bodies = notice[b].bodies
    BY <1>2, <2>1 DEF StepOf, Authorize, Cancel, SubmitResult, ReportProgress, InsertEvent,
       Publish, EnqueueJob, enqueueNotice, CancelRefused, InsertEventConflicts, HandlerDies, Notice
  <2> QED
    BY <1>1, <1>4, <2>2 DEF besides_calls, NoticeInv
<1>5. CASE \/ CreationNext /\ besides_creation
           \/ DispatchNext /\ besides_dispatch
           \/ SweeperNext /\ besides_sweeper
           \/ UNCHANGED vars
  <2>1. UNCHANGED <<notice, delivered>>
    BY <1>5 DEF CreationNext, Insert, InsertThrows, Enqueue, EnqueueThrows, Rollback, CreatorDies,
       create_frame, besides_creation, DispatchNext, RunStep, Take, ExecutorAccepts, JobStalls,
       Claim, PostReturns, PostThrows, RecordError, Acknowledge, ClaimThrows, RecordErrorThrows,
       WorkerDies, dispatch_frame, besides_dispatch, SweeperNext, SweepStep, Elapse, Tick,
       SweepEnds, SweepBatch, SweepAborts, SweepPublishes, SweeperDies, sweep_frame,
       besides_sweeper, vars, brokerVars
  <2> QED
    BY <1>1, <2>1 DEF NoticeInv
<1> QED
  BY <1>3, <1>4, <1>5 DEF Next

-----------------------------------------------------------------------------
\* What a step may do to a log: nothing, add progress, or announce the end of a
\* task that had none, which no result handler is about to announce as well.
NoEnd(t) == \A i \in DOMAIN events[t] : ~Terminal(t, i)

LogStep(t) ==
    \/ events'[t] = events[t]
    \/ events'[t] = Append(events[t], "progress")
    \/ \E e \in TERMINAL_EVENT_TYPES :
          /\ events'[t] = Append(events[t], e)
          /\ NoEnd(t)
          /\ Over(t)'
          /\ tasks'[t].status \in {"ABSENT", Announces(e)}
          /\ \A c \in Calls : task(c) = t /\ kind(c) \in ResultKinds => call'[c].pc # "event"

(* A task that is alive has announced no end, and no result handler is      *)
(* about to.                                                                *)
LEMMA AliveHasNoEnd ==
    ASSUME EndInv, LogInv, NEW t \in Tasks, tasks[t].status \in ActiveStatuses
    PROVE  /\ NoEnd(t)
           /\ \A c \in Calls : task(c) = t /\ kind(c) \in ResultKinds => call[c].pc # "event"
BY DEF LogInv, NoEnd, Over, EndInv, Ended

(* What the handlers of the calls do to a log.                              *)
LEMMA LogCalls ==
    ASSUME TypeInv, RowInv, EndInv, LogInv, NEW c \in Calls, StepOf(c), besides_calls,
           UNCHANGED request, NEW t \in Tasks
    PROVE  LogStep(t)
<1>0. /\ tasks \in [Tasks -> Row] /\ call \in [Calls -> CallStates]
      /\ events \in [Tasks -> Seq(TASK_EVENT_TYPES)]
      /\ task(c) \in Tasks /\ kind(c) \in Kinds /\ UNCHANGED creator
  BY DEF TypeInv, TypeOK, TableType, CallsType, Requests, task, kind, besides_calls
<1>1. CASE events'[t] = events[t]
  BY <1>1 DEF LogStep
<1>2. CASE InsertEvent(c) /\ t = task(c)
  <2>1. /\ events'[t] = Append(events[t], kind(c)) /\ UNCHANGED tasks
        /\ call[c].pc = "event" /\ kind(c) # "cancel"
        /\ call'[c].pc = "publish" /\ \A b \in Calls \ {c} : call'[b] = call[b]
    BY <1>0, <1>2 DEF InsertEvent, insertEvent, Logged, At, CallStates
  <2>2. CASE kind(c) = "progress"
    BY <2>1, <2>2 DEF LogStep
  <2>3. CASE kind(c) \in ResultKinds
    <3>1. Ended(c) /\ NoEnd(t)
      BY <1>2, <2>1, <2>3 DEF Ended, LogInv, NoEnd
    <3>2. Over(t) /\ (Exists(t) => Body(tasks[t]) = Verdict(c))
      BY <1>2, <3>1 DEF EndInv
    <3>3. Over(t)' /\ tasks'[t].status \in {"ABSENT", Announces(kind(c))}
      BY <1>0, <2>1, <2>3, <3>2 DEF Over, Exists, Body, Verdict, Announces, ResultKinds
    <3>4. \A b \in Calls : task(b) = t /\ kind(b) \in ResultKinds => call'[b].pc # "event"
      BY <1>2, <2>1, <3>1 DEF EndInv, Ended
    <3> QED
      BY <2>1, <2>3, <3>1, <3>3, <3>4 DEF LogStep, ResultKinds, TERMINAL_EVENT_TYPES
  <2> QED
    BY <1>0, <2>1, <2>2, <2>3 DEF Kinds
<1>3. CASE Cancel(c) /\ t = task(c) /\ events'[t] # events[t]
  <2>1. /\ tasks[t].status \in ActiveStatuses /\ events'[t] = Append(events[t], "cancelled")
        /\ tasks'[t] = [tasks[t] EXCEPT !.status = "CANCELLED", !.completedAt = TRUE]
        /\ call'[c].pc = "publish" /\ \A b \in Calls \ {c} : call'[b] = call[b]
    BY <1>0, <1>3 DEF Cancel, Matches, updateStatus, insertEvent, Logged, At, CallStates
  <2>2. tasks'[t].status = "CANCELLED" /\ creator[t] # "insert"
    BY <1>0, <2>1 DEF Row, RowInv, ActiveStatuses
  <2>3. NoEnd(t) /\ \A b \in Calls : task(b) = t /\ kind(b) \in ResultKinds => call'[b].pc # "event"
    BY <2>1, AliveHasNoEnd
  <2>4. Over(t)' /\ tasks'[t].status = Announces("cancelled")
    BY <1>0, <2>2 DEF Over, ActiveStatuses, Announces
  <2> QED
    BY <2>1, <2>3, <2>4 DEF LogStep, TERMINAL_EVENT_TYPES
<1>4. events'[t] # events[t] => t = task(c) /\ (InsertEvent(c) \/ Cancel(c))
  BY <1>0 DEF StepOf, Authorize, Cancel, SubmitResult, ReportProgress, InsertEvent, Publish,
     EnqueueJob, CancelRefused, InsertEventConflicts, HandlerDies, insertEvent
<1> QED
  BY <1>1, <1>2, <1>3, <1>4

(* What any step does to a log.                                             *)
LEMMA LogSteps ==
    TypeInv /\ RowInv /\ EndInv /\ LogInv /\ [Next]_vars => \A t \in Tasks : LogStep(t)
<1> SUFFICES ASSUME TypeInv, RowInv, EndInv, LogInv, [Next]_vars, NEW t \in Tasks
             PROVE  LogStep(t)
  OBVIOUS
<1>1. CASE UNCHANGED events
  BY <1>1 DEF LogStep
<1>2. CASE \E c \in Calls : StepOf(c) /\ besides_calls
  BY <1>2, LogCalls, Movers
<1>3. CASE besides_sweeper /\ \E s \in Sweepers : SweepBatch(s)
  <2>1. PICK s \in Sweepers : SweepBatch(s)
    BY <1>3
  <2>2. PICK E \in Batches(s) :
           /\ tasks' = [u \in Tasks |-> IF u \in E THEN TimedOut(tasks[u]) ELSE tasks[u]]
           /\ events' = [u \in Tasks |-> IF u \in E THEN Append(events[u], "failed") ELSE events[u]]
    BY <2>1 DEF SweepBatch
  <2>3. UNCHANGED <<call, creator>>
    BY <1>3, <2>1 DEF SweepBatch, sweep_frame, callVars, besides_sweeper
  <2>4. CASE t \in E
    <3>1. /\ tasks[t].status \in ActiveStatuses /\ tasks[t] \in Row
          /\ tasks'[t] = TimedOut(tasks[t]) /\ events'[t] = Append(events[t], "failed")
      BY <2>2, <2>4 DEF Batches, Expired, TypeInv, TypeOK, TableType
    <3>2. tasks'[t].status = "FAILED" /\ creator[t] # "insert"
      BY <3>1 DEF TimedOut, Row, RowInv, ActiveStatuses
    <3>3. Over(t)' /\ tasks'[t].status = Announces("failed")
      BY <2>3, <3>2 DEF Over, ActiveStatuses, Announces
    <3>4. NoEnd(t) /\ \A b \in Calls : task(b) = t /\ kind(b) \in ResultKinds => call'[b].pc # "event"
      BY <2>3, <3>1, AliveHasNoEnd
    <3> QED
      BY <3>1, <3>3, <3>4 DEF LogStep, TERMINAL_EVENT_TYPES
  <2>5. CASE t \notin E
    BY <2>2, <2>5 DEF LogStep
  <2> QED
    BY <2>4, <2>5
<1>4. CASE SweeperNext /\ besides_sweeper
  BY <1>1, <1>3, <1>4 DEF SweeperNext, SweepStep, Elapse, Tick, SweepEnds, SweepAborts,
     SweepPublishes, SweeperDies
<1>5. CASE CallsNext /\ besides_calls
  BY <1>2, <1>5 DEF CallsNext, CallBegins, CallStep, StepOf
<1>6. CASE \/ CreationNext /\ besides_creation
           \/ DispatchNext /\ besides_dispatch
           \/ NoticesNext /\ besides_notices
           \/ UNCHANGED vars
  BY <1>1, <1>6 DEF CreationNext, Insert, InsertThrows, Enqueue, EnqueueThrows, Rollback,
     CreatorDies, create_frame, DispatchNext, RunStep, Take, ExecutorAccepts, JobStalls, Claim,
     PostReturns, PostThrows, RecordError, Acknowledge, ClaimThrows, RecordErrorThrows, WorkerDies,
     dispatch_frame, NoticesNext, Fetch, FetchThrows, Finish, NoticeStalls, Receive, notice_frame,
     vars, tableVars
<1> QED
  BY <1>4, <1>5, <1>6 DEF Next

(* The log is empty at first.                                               *)
LEMMA LogInit == Init => LogInv
BY DEF Init, TableInit, CallsInit, LogInv

(* A result handler reaches its event only from a task it found PROCESSING. *)
LEMMA ReachesEvent ==
    ASSUME TypeInv, [Next]_vars, NEW c \in Calls, kind(c) \in ResultKinds, call'[c].pc = "event"
    PROVE  call[c].pc = "event" \/ tasks[task(c)].status = "PROCESSING"
<1>0. call \in [Calls -> CallStates]
  BY DEF TypeInv, TypeOK, CallsType
<1>1. CASE \E b \in Calls : StepOf(b)
  <2>1. PICK b \in Calls : StepOf(b)
    BY <1>1
  <2>2. CASE b # c
    BY <1>0, <2>1, <2>2 DEF StepOf, Authorize, Cancel, SubmitResult, ReportProgress, InsertEvent,
       Publish, EnqueueJob, CancelRefused, InsertEventConflicts, HandlerDies, GotoCall, Logged
  <2>3. CASE b = c
    BY <1>0, <2>1, <2>3 DEF StepOf, Authorize, Cancel, SubmitResult, ReportProgress, InsertEvent,
       Publish, EnqueueJob, CancelRefused, InsertEventConflicts, HandlerDies, GotoCall, Logged,
       CallStates,
       Matches, ResultKinds, At
  <2> QED
    BY <2>2, <2>3
<1>2. CASE UNCHANGED call
  BY <1>2
<1> QED
  BY <1>1, <1>2, Movers

(* Every step keeps the log's invariant.                                    *)
LEMMA LogPreserved == TypeInv /\ RowInv /\ EndInv /\ LogInv /\ [Next]_vars => LogInv'
<1> SUFFICES ASSUME TypeInv, RowInv, EndInv, LogInv, [Next]_vars PROVE LogInv'
  OBVIOUS
<1>0. /\ UNCHANGED request
      /\ events \in [Tasks -> Seq(TASK_EVENT_TYPES)]
      /\ \A c \in Calls : task(c) \in Tasks
  BY Movers DEF TypeInv, TypeOK, TableType, CallsType, Requests, task
<1> DEFINE End(log, i) == i \in DOMAIN log /\ log[i] \in TERMINAL_EVENT_TYPES
<1>1. \A t \in Tasks : \A i : Terminal(t, i) <=> End(events[t], i)
  BY DEF Terminal
<1>2. \A t \in Tasks : \A i : Terminal(t, i)' <=> End(events'[t], i)
  BY DEF Terminal
<1>3. ASSUME NEW t \in Tasks
      PROVE  \A i \in DOMAIN events'[t] :
                End(events'[t], i) =>
                   /\ Over(t)'
                   /\ tasks'[t].status \in {"ABSENT", Announces(events'[t][i])}
                   /\ \A j \in DOMAIN events'[t] : End(events'[t], j) => i = j
  <2>1. LogStep(t)
    BY LogSteps
  <2>2. \A i \in DOMAIN events[t] :
           End(events[t], i) =>
              /\ Over(t)'
              /\ tasks'[t].status \in {"ABSENT", Announces(events[t][i])}
              /\ \A j \in DOMAIN events[t] : End(events[t], j) => i = j
    <3>1. Over(t) => Over(t)' /\ (Keeps(t) \/ tasks'[t].status = "ABSENT")
      BY Stable
    <3> QED
      BY <1>1, <3>1 DEF LogInv, Keeps, SameStatus, Exists
  <2>3. CASE events'[t] = events[t]
    BY <2>2, <2>3
  <2>4. \A e : /\ DOMAIN Append(events[t], e) = DOMAIN events[t] \cup {Len(events[t]) + 1}
               /\ Len(events[t]) + 1 \notin DOMAIN events[t]
               /\ Append(events[t], e)[Len(events[t]) + 1] = e
               /\ \A i \in DOMAIN events[t] : Append(events[t], e)[i] = events[t][i]
    <3>1. events[t] \in Seq(TASK_EVENT_TYPES)
      BY <1>0
    <3> QED
      BY <3>1
  <2>5. CASE events'[t] = Append(events[t], "progress")
    BY <2>2, <2>4, <2>5 DEF TERMINAL_EVENT_TYPES
  <2>6. ASSUME NEW e \in TERMINAL_EVENT_TYPES, events'[t] = Append(events[t], e), NoEnd(t),
               Over(t)', tasks'[t].status \in {"ABSENT", Announces(e)}
        PROVE  \A i \in DOMAIN events'[t] :
                  End(events'[t], i) =>
                     /\ Over(t)'
                     /\ tasks'[t].status \in {"ABSENT", Announces(events'[t][i])}
                     /\ \A j \in DOMAIN events'[t] : End(events'[t], j) => i = j
    <3>1. \A i \in DOMAIN events'[t] : End(events'[t], i) => i = Len(events[t]) + 1
      BY <1>1, <2>4, <2>6 DEF NoEnd
    <3> QED
      BY <2>4, <2>6, <3>1
  <2> QED
    BY <2>1, <2>3, <2>5, <2>6 DEF LogStep
<1>4. ASSUME NEW c \in Calls, kind(c) \in ResultKinds, call'[c].pc = "event"
      PROVE  \A i \in DOMAIN events'[task(c)] : ~End(events'[task(c)], i)
  <2>1. task(c) \in Tasks /\ LogStep(task(c))
    BY <1>0, LogSteps
  <2>2. NoEnd(task(c))
    <3>1. CASE call[c].pc = "event"
      BY <1>4, <3>1 DEF LogInv, NoEnd
    <3>2. CASE tasks[task(c)].status = "PROCESSING"
      BY <2>1, <3>2, AliveHasNoEnd DEF ActiveStatuses
    <3> QED
      BY <1>4, <3>1, <3>2, ReachesEvent
  <2>3. CASE events'[task(c)] = events[task(c)]
    BY <1>1, <2>1, <2>2, <2>3 DEF NoEnd
  <2>4. CASE events'[task(c)] = Append(events[task(c)], "progress")
    <3>1. events[task(c)] \in Seq(TASK_EVENT_TYPES)
      BY <1>0, <2>1
    <3> QED
      BY <1>1, <2>1, <2>2, <2>4, <3>1 DEF NoEnd, TERMINAL_EVENT_TYPES
  <2> QED
    BY <1>4, <2>1, <2>3, <2>4 DEF LogStep
<1>5. \A c \in Calls : task(c)' = task(c) /\ kind(c)' = kind(c)
  BY <1>0 DEF task, kind
<1>6. /\ \A t \in Tasks : \A i \in DOMAIN events'[t] :
            Terminal(t, i)' =>
               /\ Over(t)'
               /\ Exists(t)' => tasks'[t].status = Announces(events'[t][i])
               /\ \A j \in DOMAIN events'[t] : Terminal(t, j)' => i = j
  BY <1>2, <1>3 DEF Exists
<1>7. \A c \in Calls : events[task(c)]' = events'[task(c)]
                       /\ \A i : Terminal(task(c), i)' <=> End(events'[task(c)], i)
  BY <1>5 DEF Terminal
<1> QED
  BY <1>4, <1>5, <1>6, <1>7 DEF LogInv

-----------------------------------------------------------------------------
(* Nothing has been swept at first.                                         *)
LEMMA SweepInit == Init => SweepInv
BY DEF Init, SweeperInit, SweepInv, NoDoubleSweep

(* A sweep takes only tasks that are alive, and those in the batches of the *)
(* others are over.                                                         *)
LEMMA SweepPreserved == TypeInv /\ RowInv /\ SweepInv /\ [Next]_vars => SweepInv'
<1> SUFFICES ASSUME TypeInv, RowInv, SweepInv, [Next]_vars PROVE SweepInv'
  OBVIOUS
<1>0. sweeper \in [Sweepers -> SweeperStates]
  BY DEF TypeInv, TypeOK, SweeperType
<1>a. \A s \in Sweepers : \A m \in sweeper[s].batch : m \in Tasks \X Nat /\ Over(m[1]) /\ Over(m[1])'
  BY <1>0, Stable DEF SweepInv, SweeperStates
<1>1. CASE UNCHANGED sweeper
  BY <1>a, <1>1 DEF SweepInv, NoDoubleSweep
<1>2. ASSUME NEW s \in Sweepers, Tick(s) \/ SweepEnds(s) \/ SweepAborts(s) \/ SweepPublishes(s)
                                 \/ SweeperDies(s)
      PROVE  SweepInv'
  <2>1. \A r \in Sweepers : sweeper'[r].batch = IF r = s THEN {} ELSE sweeper[r].batch
    BY <1>0, <1>2 DEF Tick, SweepEnds, SweepAborts, SweepPublishes, SweeperDies, GotoSweep
  <2> QED
    BY <1>a, <2>1 DEF SweepInv, NoDoubleSweep
<1>3. ASSUME NEW s \in Sweepers, SweepBatch(s), besides_sweeper PROVE SweepInv'
  <2>1. PICK E \in Batches(s) :
           /\ tasks' = [t \in Tasks |-> IF t \in E THEN TimedOut(tasks[t]) ELSE tasks[t]]
           /\ GotoSweep(s, "publish", {<<t, nextSeq(t)>> : t \in E})
    BY <1>3 DEF SweepBatch
  <2>2. \A t \in E : t \in Tasks /\ tasks[t].status \in ActiveStatuses
    BY DEF Batches, Expired
  <2>a. /\ sweeper'[s].batch = {<<t, nextSeq(t)>> : t \in E}
        /\ \A r \in Sweepers \ {s} : sweeper'[r] = sweeper[r]
    BY <1>0, <2>1 DEF GotoSweep
  <2>b. ASSUME NEW m \in sweeper'[s].batch PROVE m[1] \in E /\ m = <<m[1], nextSeq(m[1])>>
    <3>1. PICK t \in E : m = <<t, nextSeq(t)>>
      BY <2>a
    <3> QED
      BY <3>1
  <2>3. \A r \in Sweepers : \A m \in sweeper'[r].batch :
           \/ r = s /\ m[1] \in E /\ m = <<m[1], nextSeq(m[1])>>
           \/ r # s /\ m \in sweeper[r].batch
    BY <2>a, <2>b
  <2>4. ASSUME NEW t \in E PROVE Over(t)'
    <3>1. tasks'[t] = TimedOut(tasks[t]) /\ tasks[t] \in Row
      BY <2>1, <2>2 DEF TypeInv, TypeOK, TableType
    <3>2. tasks'[t].status = "FAILED" /\ creator[t] # "insert"
      BY <2>2, <3>1 DEF TimedOut, Row, RowInv, ActiveStatuses
    <3> QED
      BY <1>3, <3>2 DEF besides_sweeper, Over, ActiveStatuses
  <2>5. \A r \in Sweepers : \A m \in sweeper'[r].batch : Over(m[1])'
    BY <1>a, <2>3, <2>4
  <2>6. \A r \in Sweepers : \A m \in sweeper[r].batch : m[1] \notin E
    BY <1>a, <2>2 DEF Over
  <2>7. NoDoubleSweep'
    <3> SUFFICES ASSUME NEW r \in Sweepers, NEW q \in Sweepers,
                        NEW m \in sweeper'[r].batch, NEW n \in sweeper'[q].batch, m[1] = n[1]
                 PROVE  r = q /\ m = n
      BY DEF NoDoubleSweep
    <3>1. CASE r = s /\ q = s
      BY <2>3, <3>1
    <3>2. CASE r # s /\ q # s
      BY <2>3, <3>2 DEF SweepInv, NoDoubleSweep
    <3>3. CASE r = s /\ q # s
      BY <2>3, <2>6, <3>3
    <3>4. CASE r # s /\ q = s
      BY <2>3, <2>6, <3>4
    <3> QED
      BY <3>1, <3>2, <3>3, <3>4
  <2> QED
    BY <2>5, <2>7 DEF SweepInv
<1>4. CASE SweeperNext /\ besides_sweeper
  BY <1>1, <1>2, <1>3, <1>4 DEF SweeperNext, SweepStep, Elapse
<1>5. CASE \/ CreationNext /\ besides_creation
           \/ DispatchNext /\ besides_dispatch
           \/ CallsNext /\ besides_calls
           \/ NoticesNext /\ besides_notices
           \/ UNCHANGED vars
  BY <1>1, <1>5 DEF besides_creation, besides_dispatch, besides_calls, besides_notices, vars
<1> QED
  BY <1>4, <1>5 DEF Next

-----------------------------------------------------------------------------
\* Cancel c has done what the statements it is past do.
CancelDone(c) ==
    /\ call[c].pc \in {"publish", "enqueue", "204"} =>
          /\ call[c].seq \in DOMAIN events[task(c)]
          /\ events[task(c)][call[c].seq] = "cancelled"
    /\ call[c].pc \in {"enqueue", "204"} => <<task(c), call[c].seq>> \in published
    /\ call[c].pc = "204" /\ task(c) \in Cancellable => notice[c].state # "none"

CancelInv == \A c \in Calls : kind(c) = "cancel" => CancelDone(c)

(* No cancel has begun at first.                                            *)
LEMMA CancelInit == Init => CancelInv
BY DEF Init, CallsInit, CancelInv, CancelDone

(* What is logged, published or queued stays so.                            *)
LEMMA NothingUndone ==
    ASSUME TypeInv, RowInv, EndInv, LogInv, [Next]_vars
    PROVE  /\ \A t \in Tasks : \A i \in DOMAIN events[t] :
                 i \in DOMAIN events'[t] /\ events'[t][i] = events[t][i]
           /\ published \subseteq published'
           /\ \A c \in Calls : notice[c].state # "none" => notice'[c].state # "none"
<1>1. ASSUME NEW t \in Tasks, NEW i \in DOMAIN events[t]
      PROVE  i \in DOMAIN events'[t] /\ events'[t][i] = events[t][i]
  <2>1. LogStep(t) /\ events[t] \in Seq(TASK_EVENT_TYPES)
    BY LogSteps DEF TypeInv, TypeOK, TableType
  <2> QED
    BY <2>1 DEF LogStep
<1>2. notice \in [Calls -> Notice]
  BY DEF TypeInv, TypeOK, BrokerType
<1>3. CASE NoticesNext /\ besides_notices
  <2>1. UNCHANGED published
    BY <1>3 DEF NoticesNext, Fetch, FetchThrows, Finish, NoticeStalls, Receive, notice_frame
  <2>2. ASSUME NEW c \in Calls, notice[c].state # "none" PROVE notice'[c].state # "none"
    BY <1>2, <1>3, <2>2 DEF NoticesNext, Fetch, FetchThrows, Finish, NoticeStalls, Receive,
       retryNotice, requeueNotice, Notice
  <2> QED
    BY <1>1, <2>1, <2>2
<1>4. CASE CallsNext /\ besides_calls
  <2>1. PICK c \in Calls : StepOf(c)
    BY <1>4 DEF CallsNext, CallBegins, CallStep, StepOf
  <2>2. published \subseteq published'
    BY <2>1 DEF StepOf, Authorize, Cancel, SubmitResult, ReportProgress, InsertEvent,
       Publish, publish, EnqueueJob, CancelRefused, InsertEventConflicts, HandlerDies
  <2>3. \A b \in Calls : notice[b].state # "none" => notice'[b].state # "none"
    BY <1>2, <2>1 DEF StepOf, Authorize, Cancel, SubmitResult, ReportProgress, InsertEvent,
       Publish, EnqueueJob, enqueueNotice, CancelRefused, InsertEventConflicts, HandlerDies, Notice
  <2> QED
    BY <1>1, <2>2, <2>3
<1>5. CASE \/ CreationNext /\ besides_creation
           \/ DispatchNext /\ besides_dispatch
           \/ SweeperNext /\ besides_sweeper
           \/ UNCHANGED vars
  <2>1. UNCHANGED notice /\ published \subseteq published'
    BY <1>5 DEF CreationNext, Insert, InsertThrows, Enqueue, EnqueueThrows, Rollback, CreatorDies,
       create_frame, DispatchNext, RunStep, Take, ExecutorAccepts, JobStalls,
       Claim, PostReturns, PostThrows, RecordError, Acknowledge, ClaimThrows, RecordErrorThrows,
       WorkerDies, dispatch_frame, SweeperNext, SweepStep, Elapse, Tick,
       SweepEnds, SweepBatch, SweepAborts, SweepPublishes, SweeperDies, sweep_frame,
       vars, brokerVars
  <2> QED
    BY <1>1, <2>1
<1> QED
  BY <1>3, <1>4, <1>5 DEF Next

(* Every step keeps CancelInv: each statement of the cancel handler adds    *)
(* what the next one counts on.                                             *)
LEMMA CancelPreserved ==
    TypeInv /\ RowInv /\ EndInv /\ LogInv /\ CancelInv /\ [Next]_vars => CancelInv'
<1> SUFFICES ASSUME TypeInv, RowInv, EndInv, LogInv, CancelInv, [Next]_vars PROVE CancelInv'
  OBVIOUS
<1> SUFFICES ASSUME NEW c \in Calls, kind(c) = "cancel" PROVE CancelDone(c)'
  <2>1. \A b \in Calls : kind(b)' = kind(b)
    BY Movers DEF kind
  <2> QED
    BY <2>1 DEF CancelInv
<1>a. CancelDone(c) /\ task(c)' = task(c)
  BY Movers DEF CancelInv, task
<1>0. /\ task(c) \in Tasks /\ call \in [Calls -> CallStates] /\ notice \in [Calls -> Notice]
      /\ events \in [Tasks -> Seq(TASK_EVENT_TYPES)]
  BY DEF TypeInv, TypeOK, TableType, BrokerType, CallsType, Requests, task
<1>1. CASE call'[c] = call[c]
  BY <1>0, <1>1, <1>a, NothingUndone DEF CancelDone
<1>2. ASSUME StepOf(c) PROVE CancelDone(c)'
  <2>1. CASE Cancel(c) /\ Matches(task(c), ActiveStatuses)
    <3>1. /\ call'[c].pc = "publish" /\ call'[c].seq = Len(events[task(c)]) + 1
          /\ events'[task(c)] = Append(events[task(c)], "cancelled")
      BY <1>0, <2>1 DEF Cancel, insertEvent, Logged, nextSeq, CallStates
    <3>2. events[task(c)] \in Seq(TASK_EVENT_TYPES)
      BY <1>0
    <3> QED
      BY <1>a, <3>1, <3>2 DEF CancelDone
  <2>2. CASE Cancel(c) /\ ~Matches(task(c), ActiveStatuses)
    <3>1. call'[c].pc = "find"
      BY <1>0, <2>2 DEF Cancel, GotoCall, CallStates
    <3> QED
      BY <3>1 DEF CancelDone
  <2>3. CASE Publish(c)
    <3>1. /\ call[c].pc = "publish" /\ call'[c].seq = call[c].seq
          /\ call'[c].pc = IF task(c) \in Cancellable THEN "enqueue" ELSE "204"
          /\ published' = published \cup {<<task(c), call[c].seq>>} /\ UNCHANGED events
      BY <1>0, <2>3 DEF Publish, publish, Notifies, GotoCall, At, CallStates, ResultKinds
    <3> QED
      BY <1>a, <3>1 DEF CancelDone
  <2>4. CASE EnqueueJob(c)
    <3>1. /\ call[c].pc = "enqueue" /\ call'[c].pc = "204" /\ call'[c].seq = call[c].seq
          /\ notice'[c].state = "waiting" /\ UNCHANGED <<events, published>>
      BY <1>0, <2>4 DEF EnqueueJob, enqueueNotice, GotoCall, At, CallStates, Notice
    <3> QED
      BY <1>a, <3>1 DEF CancelDone
  <2>5. CASE CancelRefused(c) \/ HandlerDies(c)
    <3>1. call'[c].pc \in {"404", "409", "500"}
      BY <1>0, <2>5 DEF CancelRefused, HandlerDies, GotoCall, CallStates
    <3> QED
      BY <3>1 DEF CancelDone
  <2> QED
    BY <1>2, <2>1, <2>2, <2>3, <2>4, <2>5 DEF StepOf, Authorize, SubmitResult, ReportProgress,
       InsertEvent, InsertEventConflicts, ResultKinds
<1>3. ASSUME NEW b \in Calls \ {c}, StepOf(b) PROVE call'[c] = call[c]
  BY <1>0, <1>3 DEF StepOf, Authorize, Cancel, SubmitResult, ReportProgress, InsertEvent, Publish,
     EnqueueJob, CancelRefused, InsertEventConflicts, HandlerDies, GotoCall, Logged
<1> QED
  BY <1>1, <1>2, <1>3, Movers

-----------------------------------------------------------------------------
(* The inductive invariant.                                                 *)
Inv == /\ TypeInv /\ RowInv /\ EndInv /\ NoticeInv
       /\ LogInv /\ SweepInv /\ CancelInv

(* Inv holds of every behaviour.                                            *)
LEMMA Always == Spec => []Inv
<1>1. Init => Inv
  BY TypeInit, RowInit, EndInit, NoticeInit, LogInit, SweepInit, CancelInit DEF Inv
<1>2. Inv /\ [Next]_vars => Inv'
  BY TypeStep, RowPreserved, EndPreserved, NoticePreserved, LogPreserved, SweepPreserved,
     CancelPreserved DEF Inv
<1> QED
  BY <1>1, <1>2, PTL DEF Spec

(* Of results, cancels and sweeps racing for a task, at most one's event    *)
(* announces its end in task_events.                                        *)
THEOREM EndAnnouncedOnce == Spec => []OneTerminalEvent
<1>1. Inv => OneTerminalEvent
  BY DEF Inv, LogInv, OneTerminalEvent
<1> QED
  BY <1>1, Always, PTL

(* The end task_events announces is the status in tasks.                    *)
THEOREM LogIsTrue == Spec => []LogAgreesWithRow
<1>1. Inv => LogAgreesWithRow
  BY DEF Inv, LogInv, LogAgreesWithRow
<1> QED
  BY <1>1, Always, PTL

(* At most one call per task queues a webhook or a cancel notification.     *)
THEOREM NotifiedByOne == Spec => []OneNotifier
<1>1. Inv => OneNotifier
  BY DEF Inv, EndInv, Ended, OneNotifier
<1> QED
  BY <1>1, Always, PTL

(* A webhook's body is the result of the call that queued it, through       *)
(* retries, redeliveries and late arrivals.                                 *)
THEOREM WebhookIsTrue == Spec => []WebhookTellsOutcome
<1>1. Inv => WebhookTellsOutcome
  BY DEF Inv, NoticeInv, Verdict, ResultKinds, WebhookTellsOutcome
<1> QED
  BY <1>1, Always, PTL

(* The executor is told to cancel only tasks that are cancelled.            *)
THEOREM CancelIsTrue == Spec => []CancelNoticeIsTrue
<1>1. Inv => CancelNoticeIsTrue
  <2>1. \A c : kind(c) = "cancel" => Verdict(c).status = "CANCELLED"
    BY DEF Verdict
  <2> QED
    BY <2>1 DEF Inv, NoticeInv, CancelNoticeIsTrue
<1> QED
  BY <1>1, Always, PTL

(* Overlapping sweeps, however many, never both expire a task.              *)
THEOREM SweptOnce == Spec => []NoDoubleSweep
<1>1. Inv => NoDoubleSweep
  BY DEF Inv, SweepInv
<1> QED
  BY <1>1, Always, PTL

(* A cancel answered 204 is logged, published and queued.                   *)
THEOREM CancelIsComplete == Spec => []AckedCancelIsComplete
<1>1. Inv => AckedCancelIsComplete
  BY DEF Inv, CancelInv, CancelDone, At, AckedCancelIsComplete
<1> QED
  BY <1>1, Always, PTL

-----------------------------------------------------------------------------
(* The log and the publishes of a task, as the streams see them.            *)

\* Whoever is about to publish an event has logged it.
SeqInv ==
    /\ \A c \in Calls : call[c].pc = "publish" => call[c].seq \in DOMAIN events[task(c)]
    /\ \A s \in Sweepers : \A m \in sweeper[s].batch : m[2] \in DOMAIN events[m[1]]

\* The events that P publishes are logged, and at most one of them of each task.
Publishes(P) ==
    /\ published' = published \cup P
    /\ \A m \in P : m[2] \in DOMAIN events[m[1]]
    /\ \A m, n \in P : m[1] = n[1] => m = n

(* Nothing is logged and nothing to be published at first.                  *)
LEMMA SeqInit == Init => SeqInv
BY DEF Init, CallsInit, SweeperInit, SeqInv

(* A handler reaches its publish by logging, at the seq it keeps.           *)
LEMMA SeqCalls ==
    ASSUME TypeInv, NEW c \in Calls, StepOf(c), call'[c].pc = "publish"
    PROVE  call'[c].seq \in DOMAIN events'[task(c)]
<1>0. /\ task(c) \in Tasks /\ call \in [Calls -> CallStates]
      /\ events \in [Tasks -> Seq(TASK_EVENT_TYPES)]
  BY DEF TypeInv, TypeOK, TableType, CallsType, Requests, task
<1>1. ASSUME NEW e, insertEvent(task(c), e), Logged(c)
      PROVE  call'[c].seq \in DOMAIN events'[task(c)]
  <2>1. /\ call'[c].seq = Len(events[task(c)]) + 1
        /\ events'[task(c)] = Append(events[task(c)], e)
    BY <1>0, <1>1 DEF insertEvent, Logged, nextSeq, CallStates
  <2>2. events[task(c)] \in Seq(TASK_EVENT_TYPES)
    BY <1>0
  <2> QED
    BY <2>1, <2>2
<1>2. CASE InsertEvent(c)
  BY <1>1, <1>2 DEF InsertEvent
<1>3. CASE Cancel(c)
  <2>1. ~Matches(task(c), ActiveStatuses) => call'[c].pc = "find"
    BY <1>0, <1>3 DEF Cancel, GotoCall, CallStates
  <2>2. insertEvent(task(c), "cancelled") /\ Logged(c)
    BY <1>3, <2>1 DEF Cancel
  <2> QED
    BY <1>1, <2>2
<1>4. CASE \/ Authorize(c) \/ SubmitResult(c) \/ ReportProgress(c) \/ Publish(c) \/ EnqueueJob(c)
           \/ CancelRefused(c) \/ InsertEventConflicts(c) \/ HandlerDies(c)
  BY <1>0, <1>4 DEF Authorize, SubmitResult, ReportProgress, Publish, EnqueueJob, CancelRefused,
     InsertEventConflicts, HandlerDies, GotoCall, CallStates
<1> QED
  BY <1>2, <1>3, <1>4 DEF StepOf

(* Every step keeps SeqInv: a sweep logs what it puts in its batch in the   *)
(* same transaction, and no log shrinks.                                    *)
LEMMA SeqPreserved == Inv /\ SeqInv /\ [Next]_vars => SeqInv'
<1> SUFFICES ASSUME Inv, SeqInv, [Next]_vars PROVE SeqInv'
  OBVIOUS
<1>0. /\ UNCHANGED request /\ call \in [Calls -> CallStates]
      /\ events \in [Tasks -> Seq(TASK_EVENT_TYPES)] /\ sweeper \in [Sweepers -> SweeperStates]
      /\ \A c \in Calls : task(c) \in Tasks /\ task(c)' = task(c)
  BY Movers DEF Inv, TypeInv, TypeOK, TableType, CallsType, SweeperType, Requests, task
<1>s. sweeper \in [Sweepers -> SweeperStates]
  BY <1>0
<1>1. \A t \in Tasks : \A i \in DOMAIN events[t] : i \in DOMAIN events'[t]
  BY NothingUndone DEF Inv
<1>2. \A c \in Calls : call'[c].pc = "publish" => call'[c].seq \in DOMAIN events'[task(c)]
  <2>1. \A c \in Calls : call'[c] = call[c] /\ call'[c].pc = "publish"
                             => call'[c].seq \in DOMAIN events'[task(c)]
    BY <1>0, <1>1 DEF SeqInv
  <2>2. ASSUME NEW b \in Calls, StepOf(b), NEW c \in Calls \ {b} PROVE call'[c] = call[c]
    BY <1>0, <2>2 DEF StepOf, Authorize, Cancel, SubmitResult, ReportProgress, InsertEvent, Publish,
       EnqueueJob, CancelRefused, InsertEventConflicts, HandlerDies, GotoCall, Logged
  <2>3. CASE UNCHANGED call
    BY <2>1, <2>3
  <2>4. CASE \E b \in Calls : StepOf(b)
    BY <2>1, <2>2, <2>4, SeqCalls DEF Inv
  <2> QED
    BY <2>3, <2>4, Movers DEF Inv
<1>3. \A s \in Sweepers : \A m \in sweeper'[s].batch : m[2] \in DOMAIN events'[m[1]]
  <2>1. \A s \in Sweepers : \A m \in sweeper[s].batch : m[2] \in DOMAIN events'[m[1]]
    BY <1>0, <1>1 DEF SeqInv, SweeperStates
  <2>2. CASE UNCHANGED sweeper
    BY <2>1, <2>2
  <2>3. ASSUME NEW s \in Sweepers, Tick(s) \/ SweepEnds(s) \/ SweepAborts(s) \/ SweepPublishes(s)
                                   \/ SweeperDies(s)
        PROVE  \A r \in Sweepers : \A m \in sweeper'[r].batch : m[2] \in DOMAIN events'[m[1]]
    <3>1. \A r \in Sweepers : sweeper'[r].batch = IF r = s THEN {} ELSE sweeper[r].batch
      BY <1>s, <2>3 DEF Tick, SweepEnds, SweepAborts, SweepPublishes, SweeperDies, GotoSweep
    <3>2. \A r \in Sweepers : sweeper'[r].batch \subseteq sweeper[r].batch
      BY <3>1
    <3> QED
      BY <2>1, <3>2
  <2>4. ASSUME NEW s \in Sweepers, SweepBatch(s)
        PROVE  \A r \in Sweepers : \A m \in sweeper'[r].batch : m[2] \in DOMAIN events'[m[1]]
    <3>1. PICK E \in Batches(s) :
             /\ events' = [t \in Tasks |-> IF t \in E THEN Append(events[t], "failed")
                                           ELSE events[t]]
             /\ GotoSweep(s, "publish", {<<t, nextSeq(t)>> : t \in E})
      BY <2>4 DEF SweepBatch
    <3>2. \A t \in E : t \in Tasks /\ events[t] \in Seq(TASK_EVENT_TYPES)
      BY <1>0 DEF Batches, Expired
    <3>3. \A t \in E : nextSeq(t) \in DOMAIN events'[t]
      BY <3>1, <3>2 DEF nextSeq
    <3>4. /\ sweeper'[s].batch = {<<t, nextSeq(t)>> : t \in E}
          /\ \A r \in Sweepers \ {s} : sweeper'[r] = sweeper[r]
      BY <1>0, <3>1 DEF GotoSweep
    <3>5. ASSUME NEW m \in sweeper'[s].batch PROVE m[2] \in DOMAIN events'[m[1]]
      <4>1. PICK t \in E : m = <<t, nextSeq(t)>>
        BY <3>4
      <4> QED
        BY <3>3, <4>1
    <3> QED
      BY <2>1, <3>4, <3>5
  <2>5. CASE SweeperNext
    BY <2>2, <2>3, <2>4, <2>5 DEF SweeperNext, SweepStep, Elapse
  <2> QED
    BY <2>2, <2>5 DEF Next, besides_creation, besides_dispatch, besides_calls, besides_notices, vars
<1> QED
  BY <1>0, <1>2, <1>3 DEF SeqInv

(* A step publishes nothing, or logged events while no log changes: one of  *)
(* a handler, or one of each task of a sweep.                               *)
LEMMA PublishSteps ==
    ASSUME Inv, SeqInv, [Next]_vars
    PROVE  UNCHANGED published \/ (UNCHANGED events /\ \E P : Publishes(P))
<1>1. CASE CallsNext /\ besides_calls
  <2>1. PICK c \in Calls : StepOf(c)
    BY <1>1 DEF CallsNext, CallBegins, CallStep, StepOf
  <2>2. CASE Publish(c)
    <3>1. /\ published' = published \cup {<<task(c), call[c].seq>>}
          /\ UNCHANGED events /\ call[c].pc = "publish"
      BY <2>2 DEF Publish, publish, At
    <3>2. Publishes({<<task(c), call[c].seq>>})
      BY <3>1 DEF Publishes, SeqInv
    <3> QED
      BY <3>1, <3>2
  <2> QED
    BY <2>1, <2>2 DEF StepOf, Authorize, Cancel, SubmitResult, ReportProgress, InsertEvent,
       EnqueueJob, CancelRefused, InsertEventConflicts, HandlerDies
<1>2. ASSUME NEW s \in Sweepers, SweepPublishes(s)
      PROVE  UNCHANGED events /\ \E P : Publishes(P)
  <2>1. PICK lost : published' = published \cup (sweeper[s].batch \ lost)
    BY <1>2 DEF SweepPublishes
  <2>2. Publishes(sweeper[s].batch \ lost)
    BY <2>1 DEF Publishes, SeqInv, Inv, SweepInv, NoDoubleSweep
  <2> QED
    BY <1>2, <2>2 DEF SweepPublishes
<1>3. CASE SweeperNext
  BY <1>2, <1>3 DEF SweeperNext, SweepStep, Elapse, Tick, SweepEnds, SweepBatch, SweepAborts,
     SweeperDies
<1>4. CASE \/ CreationNext /\ besides_creation
           \/ DispatchNext /\ besides_dispatch
           \/ NoticesNext /\ besides_notices
           \/ UNCHANGED vars
  BY <1>4 DEF CreationNext, Insert, InsertThrows, Enqueue, EnqueueThrows, Rollback,
     CreatorDies, create_frame, DispatchNext, RunStep, Take, ExecutorAccepts, JobStalls, Claim,
     PostReturns, PostThrows, RecordError, Acknowledge, ClaimThrows, RecordErrorThrows, WorkerDies,
     dispatch_frame, NoticesNext, Fetch, FetchThrows, Finish, NoticeStalls, Receive, notice_frame,
     vars, brokerVars
<1> QED
  BY <1>1, <1>3, <1>4 DEF Next

\* The seqs of task t that have been published.
PublishedOf(t) == {m[2] : m \in {n \in published : n[1] = t}}

(* What a step does to one task's log and publishes, a feed may do.         *)
LEMMA FeedSteps ==
    ASSUME Inv, SeqInv, [Next]_vars, NEW t \in Tasks
    PROVE  Feed(t)!FeedNext \/ UNCHANGED Feed(t)!feedVars
<1>0. LogStep(t)
  BY LogSteps DEF Inv
<1>1. CASE UNCHANGED published
  <2>1. PublishedOf(t)' = PublishedOf(t)
    BY <1>1 DEF PublishedOf
  <2>2. CASE events'[t] = events[t]
    BY <2>1, <2>2 DEF PublishedOf, Feed!feedVars
  <2>3. ASSUME NEW e \in TASK_EVENT_TYPES, events'[t] = Append(events[t], e),
               e \in TERMINAL_EVENT_TYPES => NoEnd(t)
        PROVE  Feed(t)!LogEvent(e)
    BY <2>1, <2>3 DEF PublishedOf, NoEnd, Terminal, Feed!LogEvent, Feed!Ended, Feed!Ends
  <2> QED
    BY <1>0, <2>2, <2>3 DEF LogStep, TASK_EVENT_TYPES, TERMINAL_EVENT_TYPES, Feed!FeedNext
<1>2. ASSUME UNCHANGED events, NEW P, Publishes(P)
      PROVE  Feed(t)!FeedNext \/ UNCHANGED Feed(t)!feedVars
  <2>1. PublishedOf(t)' = PublishedOf(t) \cup {m[2] : m \in {n \in P : n[1] = t}}
    BY <1>2 DEF PublishedOf, Publishes
  <2>2. CASE {n \in P : n[1] = t} = {}
    <3>1. PublishedOf(t)' = PublishedOf(t)
      BY <2>1, <2>2
    <3> QED
      BY <1>2, <3>1 DEF PublishedOf, Feed!feedVars
  <2>3. ASSUME NEW m \in P, m[1] = t PROVE Feed(t)!FeedNext
    <3>1. {n \in P : n[1] = t} = {m}
      BY <1>2, <2>3 DEF Publishes
    <3>2. PublishedOf(t)' = PublishedOf(t) \cup {m[2]}
      BY <2>1, <3>1
    <3>3. m[2] \in DOMAIN events[t]
      BY <1>2, <2>3 DEF Publishes
    <3> QED
      BY <1>2, <3>2, <3>3 DEF PublishedOf, Feed!FeedNext, Feed!PublishEvent
  <2> QED
    BY <2>2, <2>3
<1> QED
  BY <1>1, <1>2, PublishSteps

(* Every task's log and publishes are a feed as the streams assume it: the  *)
(* log only grows and announces one end, and nothing is published that is   *)
(* not logged.                                                              *)
THEOREM EveryTaskFeeds == Spec => EveryTaskIsAFeed
<1>1. Init => \A t \in Tasks : Feed(t)!FeedInit
  BY DEF Init, TableInit, BrokerInit, Feed!FeedInit
<1>2. Inv /\ SeqInv /\ [Next]_vars =>
          [\A t \in Tasks : Feed(t)!FeedNext \/ UNCHANGED Feed(t)!feedVars]_vars
  BY FeedSteps
<1>3. Spec => []SeqInv
  BY SeqInit, SeqPreserved, Always, PTL DEF Spec
<1> QED
  BY <1>1, <1>2, <1>3, Always, PTL DEF Spec, EveryTaskIsAFeed
=============================================================================
