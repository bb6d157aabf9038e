--------------------------- MODULE RetentionProofs ---------------------------
(***************************************************************************)
(* Theorems about Retention and Polling, resting on what ProxyProofs and   *)
(* OutcomeProofs prove of a step of the proxy: what retention deletes, and *)
(* what a client that polls is told.                                       *)
(***************************************************************************)
EXTENDS Polling, OutcomeProofs

\* What is selected was over then and, by Stable, is over since.
PruneInv ==
    /\ aged \subseteq Tasks
    /\ retention \in [Retainers -> [pc : {"idle", "select", "delete"}, batch : SUBSET Tasks]]
    /\ \A r \in Retainers : \A t \in retention[r].batch : Over(t)

RInv == TypeInv /\ RowInv /\ PruneInv

(* The invariant holds initially.                                           *)
LEMMA PruneInit == RetentionInit => RInv
<1> SUFFICES ASSUME RetentionInit PROVE RInv
  OBVIOUS
<1>1. TypeInv /\ RowInv
  BY TypeInit, RowInit DEF RetentionInit
<1>2. PruneInv
  BY DEF RetentionInit, PruneInv
<1> QED
  BY <1>1, <1>2 DEF RInv

(* A step of the proxy keeps it: what is over stays over.                   *)
LEMMA PruneProxy == RInv /\ [Next]_vars /\ UNCHANGED retentionVars => RInv'
<1> SUFFICES ASSUME RInv, [Next]_vars, UNCHANGED retentionVars PROVE RInv'
  OBVIOUS
<1>1. TypeInv' /\ RowInv'
  BY TypeStep, RowPreserved DEF RInv
<1>2. \A t \in Tasks : Over(t) => Over(t)'
  BY Stable DEF RInv
<1>3. retention' = retention /\ aged' = aged
  BY DEF retentionVars
<1>4. \A r \in Retainers : retention[r].batch \subseteq Tasks
  BY DEF RInv, PruneInv
<1>5. \A r \in Retainers : \A t \in retention'[r].batch : Over(t)'
  BY <1>2, <1>3, <1>4 DEF RInv, PruneInv
<1>6. PruneInv'
  BY <1>3, <1>5 DEF RInv, PruneInv
<1> QED
  BY <1>1, <1>6 DEF RInv

(* Whatever leaves the tables alone and changes only the batches to tasks   *)
(* that are over keeps it.                                                  *)
LEMMA TablesKept ==
    ASSUME TypeInv, RowInv, UNCHANGED tableVars, crashes' \in 0..MaxCrashes, besides_retention
    PROVE  TypeInv' /\ RowInv' /\ \A t \in Tasks : Over(t) => Over(t)'
<1> USE DEF besides_retention, tableVars, dispatchVars, callVars
<1>1. TypeOK'
  BY DEF TypeInv, TypeOK, TableType, BrokerType, CreationType, DispatchType, CallsType,
         NoticesType, SweeperType
<1>2. DispatchQueueInv' /\ NoticeQueueInv'
  BY DEF TypeInv, DispatchQueueInv, NoticeQueueInv
<1>3. RowInv'
  BY DEF RowInv
<1>4. \A t \in Tasks : Over(t) => Over(t)'
  BY DEF Over
<1> QED
  BY <1>1, <1>2, <1>3, <1>4 DEF TypeInv

(* Deleting tasks that are over keeps every row valid and every task that   *)
(* is over, over.                                                           *)
LEMMA DeleteKeeps ==
    ASSUME RInv, NEW r \in Retainers, Delete(r)
    PROVE  TypeInv' /\ RowInv' /\ \A t \in Tasks : Over(t) => Over(t)'
<1> DEFINE B == retention[r].batch
<1>1. /\ events' = [t \in Tasks |-> IF t \in B THEN <<>> ELSE events[t]]
      /\ tasks' = [t \in Tasks |-> IF t \in B THEN Absent ELSE tasks[t]]
  BY DEF Delete, Without
<1>2. UNCHANGED <<job, deliveries, notice, published, creator, dispatcher, posted, accepted,
                  request, call, delivered, sweeper, crashes>>
  BY DEF Delete, besides_retention, dispatchVars, callVars
<1>3. TableType'
  <2>1. Absent \in Row
    BY DEF Absent, NewRow, Row
  <2>2. tasks \in [Tasks -> Row] /\ events \in [Tasks -> Seq(TASK_EVENT_TYPES)]
    BY DEF RInv, TypeInv, TypeOK, TableType
  <2>3. <<>> \in Seq(TASK_EVENT_TYPES)
    OBVIOUS
  <2>4. tasks' \in [Tasks -> Row]
    BY <1>1, <2>1, <2>2
  <2>5. events' \in [Tasks -> Seq(TASK_EVENT_TYPES)]
    BY <1>1, <2>2, <2>3
  <2> QED
    BY <2>4, <2>5 DEF TableType
<1>4. TypeOK'
  BY <1>2, <1>3 DEF RInv, TypeInv, TypeOK, BrokerType, CreationType, DispatchType, CallsType,
         NoticesType, SweeperType
<1>5. DispatchQueueInv' /\ NoticeQueueInv'
  BY <1>2 DEF RInv, TypeInv, DispatchQueueInv, NoticeQueueInv
<1>6. \A t \in Tasks : tasks'[t] = Absent \/ tasks'[t] = tasks[t]
  BY <1>1
<1>7. Absent.status = "ABSENT" /\ Absent.result = "null" /\ Absent.error = "null"
  BY DEF Absent, NewRow
<1>8. RowInv'
  <2> SUFFICES ASSUME NEW t \in Tasks
               PROVE  /\ creator'[t] = "insert" => tasks'[t].status = "ABSENT"
                      /\ tasks'[t].status # "ABSENT" => tasks_valid_state_data(tasks'[t])
                      /\ tasks'[t].status \in ActiveStatuses \cup {"ABSENT"}
                             => tasks'[t].result = "null" /\ tasks'[t].error = "null"
    BY DEF RowInv, tasks_valid_state_data
  <2>1. CASE tasks'[t] = Absent
    BY <2>1, <1>7
  <2>2. CASE tasks'[t] = tasks[t]
    BY <2>2, <1>2 DEF RInv, RowInv
  <2> QED
    BY <2>1, <2>2, <1>6
<1>9. \A t \in Tasks : Over(t) => Over(t)'
  BY <1>2, <1>6, <1>7 DEF Over, ActiveStatuses
<1> QED
  BY <1>4, <1>5, <1>8, <1>9 DEF TypeInv

(* A step of retention keeps it.                                            *)
LEMMA PruneRetention ==
    ASSUME RInv,
           \/ \E t \in Tasks : Age(t)
           \/ \E r \in Retainers : RetentionStep(r) \/ RetentionFails(r)
    PROVE  RInv'
<1>0. crashes \in 0..MaxCrashes
  BY DEF RInv, TypeInv, TypeOK, BrokerType
<1>p. /\ aged \subseteq Tasks
      /\ retention \in [Retainers -> [pc : {"idle", "select", "delete"}, batch : SUBSET Tasks]]
      /\ \A r \in Retainers : \A t \in retention[r].batch : t \in Tasks /\ Over(t)
  BY DEF RInv, PruneInv
<1>1. ASSUME NEW t \in Tasks, Age(t) PROVE RInv'
  <2>1. /\ aged' \subseteq Tasks /\ retention' = retention
        /\ UNCHANGED tableVars /\ crashes' = crashes /\ besides_retention
    BY <1>1, <1>p DEF Age
  <2>2. TypeInv' /\ RowInv' /\ \A u \in Tasks : Over(u) => Over(u)'
    BY <2>1, <1>0, TablesKept DEF RInv
  <2> QED
    BY <2>1, <2>2, <1>p DEF RInv, PruneInv
<1>2. ASSUME NEW r \in Retainers, NEW pc \in {"idle", "select", "delete"},
             NEW batch \in SUBSET Tasks, \A t \in batch : Over(t),
             GotoRetain(r, pc, batch), aged' = aged,
             TypeInv', RowInv', \A u \in Tasks : Over(u) => Over(u)'
      PROVE  RInv'
  <2>1. retention' = [retention EXCEPT ![r] = [pc |-> pc, batch |-> batch]]
    BY <1>2 DEF GotoRetain
  <2>2. retention' \in [Retainers -> [pc : {"idle", "select", "delete"}, batch : SUBSET Tasks]]
    BY <2>1, <1>p
  <2>3. \A q \in Retainers : \A t \in retention'[q].batch : t \in Tasks /\ Over(t)
    BY <2>1, <1>p, <1>2
  <2>4. \A q \in Retainers : \A t \in retention'[q].batch : Over(t)'
    BY <2>3, <1>2
  <2> QED
    BY <2>2, <2>4, <1>p, <1>2 DEF RInv, PruneInv
<1>3. ASSUME NEW r \in Retainers, RetentionTick(r) PROVE RInv'
  <2>1. /\ GotoRetain(r, "select", {}) /\ aged' = aged
        /\ UNCHANGED tableVars /\ crashes' = crashes /\ besides_retention
    BY <1>3 DEF RetentionTick
  <2> QED
    BY <2>1, <1>0, <1>2, TablesKept DEF RInv
<1>4. ASSUME NEW r \in Retainers, Select(r) PROVE RInv'
  <2>1. PICK batch \in SUBSET Old :
            GotoRetain(r, IF batch = {} THEN "idle" ELSE "delete", batch)
    BY <1>4 DEF Select
  <2>2. aged' = aged /\ UNCHANGED tableVars /\ crashes' = crashes /\ besides_retention
    BY <1>4 DEF Select
  <2>3. \A t \in batch : t \in Tasks /\ Over(t)
    <3>1. \A t \in Old : t \in Tasks /\ tasks[t].status \in TerminalStatuses
      BY <1>p DEF Old
    <3>2. \A t \in Tasks : tasks[t].status \in TerminalStatuses => Over(t)
      BY DEF RInv, RowInv, Over, TerminalStatuses, ActiveStatuses
    <3> QED
      BY <3>1, <3>2
  <2>4. (IF batch = {} THEN "idle" ELSE "delete") \in {"idle", "select", "delete"}
    OBVIOUS
  <2>5. TypeInv' /\ RowInv' /\ \A u \in Tasks : Over(u) => Over(u)'
    BY <2>2, <1>0, TablesKept DEF RInv
  <2> HIDE <1>4
  <2> QED
    BY <2>1, <2>2, <2>3, <2>4, <2>5, <1>2
<1>5. ASSUME NEW r \in Retainers, Delete(r) PROVE RInv'
  <2>1. aged' = aged
    BY <1>5 DEF Delete
  <2>2. PICK pc \in {"idle", "select", "delete"} : GotoRetain(r, pc, {})
    BY <1>5 DEF Delete
  <2> QED
    BY <1>5, <2>1, <2>2, <1>2, DeleteKeeps
<1>6. ASSUME NEW r \in Retainers, RetentionFails(r) PROVE RInv'
  <2>1. /\ GotoRetain(r, "idle", {}) /\ aged' = aged
        /\ UNCHANGED tableVars /\ crashes' \in 0..MaxCrashes /\ besides_retention
    BY <1>6, <1>0, BrokerAssumption DEF RetentionFails
  <2> QED
    BY <2>1, <1>2, TablesKept DEF RInv
<1> QED
  BY <1>1, <1>3, <1>4, <1>5, <1>6 DEF RetentionStep

(* The invariant is inductive.                                              *)
LEMMA PruneStep == RInv /\ [RetentionNext]_allVars => RInv'
<1> SUFFICES ASSUME RInv, [RetentionNext]_allVars PROVE RInv'
  OBVIOUS
<1>1. CASE Next /\ UNCHANGED retentionVars
  BY <1>1, PruneProxy
<1>2. CASE UNCHANGED allVars
  BY <1>2, PruneProxy DEF allVars
<1>3. CASE \/ \E t \in Tasks : Age(t)
           \/ \E r \in Retainers : RetentionStep(r) \/ RetentionFails(r)
  BY <1>3, PruneRetention
<1> QED
  BY <1>1, <1>2, <1>3 DEF RetentionNext

(* No task in flight is pruned, for any number of tasks, replicas and batch *)
(* sizes, though the ids are selected and deleted by separate statements    *)
(* and the delete does not look at the status.                              *)
THEOREM InFlightIsKept == RetentionSpec => []NoneInFlightPruned
<1>1. RInv => NoneInFlightPruned
  <2> SUFFICES ASSUME RInv, NEW r \in Retainers, NEW t \in retention[r].batch
               PROVE  tasks[t].status \in TerminalStatuses \cup {"ABSENT"}
    BY DEF NoneInFlightPruned
  <2>1. t \in Tasks /\ Over(t)
    BY DEF RInv, PruneInv
  <2>2. tasks[t].status \in TASK_STATUSES \cup {"ABSENT"}
    BY <2>1 DEF RInv, TypeInv, TypeOK, TableType, Row
  <2> QED
    BY <2>1, <2>2 DEF Over, TASK_STATUSES, ActiveStatuses, TerminalStatuses
<1> QED
  BY <1>1, PruneInit, PruneStep, PTL DEF RetentionSpec

(* With retention deleting rows under the other actors, a task still lives  *)
(* the abstract life: no late update brings a deleted row back.             *)
THEOREM RetentionImplementsLifecycle == RetentionSpec => Lifecycle
<1>1. RetentionInit => L!Init
  BY LifeInit DEF RetentionInit
<1>2. ASSUME RInv, [RetentionNext]_allVars, NEW t \in Tasks PROVE L!Step(t)
  <2>1. CASE [Next]_vars
    BY <1>2, <2>1, LifeSteps DEF RInv
  <2>2. ASSUME UNCHANGED <<tasks, creator>> PROVE L!Step(t)
    BY <2>2 DEF L!Step, L!Rests, Exists
  <2>3. ASSUME NEW r \in Retainers, Delete(r) PROVE L!Step(t)
    <3>1. UNCHANGED creator /\ (tasks'[t] = Absent \/ tasks'[t] = tasks[t])
      BY <2>3 DEF Delete, Without, besides_retention
    <3>2. CASE tasks'[t] = tasks[t]
      BY <3>1, <3>2 DEF L!Step, L!Rests, Exists
    <3>3. CASE tasks'[t] = Absent /\ creator[t] # "insert"
      <4>1. tasks[t] \in Row
        BY <1>2 DEF RInv, TypeInv, TypeOK, TableType
      <4> QED
        BY <3>1, <3>3, <4>1 DEF Absent, NewRow, Row, TASK_STATUSES, Exists, L!Step, L!Removed
    <3>4. CASE tasks'[t] = Absent /\ creator[t] = "insert"
      BY <1>2, <3>1, <3>4 DEF RInv, RowInv, Absent, NewRow, ActiveStatuses, Exists,
                              L!Step, L!Rests
    <3> QED
      BY <3>1, <3>2, <3>3, <3>4
  <2>4. CASE UNCHANGED allVars
    BY <2>1, <2>4 DEF allVars
  <2>5. CASE RetentionNext
    BY <2>1, <2>2, <2>3, <2>5 DEF RetentionNext, RetentionStep, Age, RetentionTick, Select,
       RetentionFails, besides_retention, tableVars
  <2> QED
    BY <1>2, <2>4, <2>5
<1>3. RInv /\ [RetentionNext]_allVars =>
        [L!Next]_<<[t \in Tasks |-> IF Exists(t) THEN tasks[t].status
                                    ELSE IF creator[t] = "insert" THEN "UNBORN"
                                    ELSE "REMOVED"],
                   [t \in Tasks |-> [result |-> tasks[t].result, error |-> tasks[t].error]]>>
  BY <1>2 DEF L!Next
<1> QED
  BY <1>1, <1>3, PruneInit, PruneStep, PTL DEF RetentionSpec, Lifecycle, L!Spec

-----------------------------------------------------------------------------
(* What the calls have logged and the clients are told, while retention     *)
(* deletes rows and events underneath.                                      *)

\* A handler that has come as far as its update or its event found a row, and
\* what it has logged is in the log for as long as that row is there.
KeptInv ==
    \A c \in Calls :
        /\ (call[c].pc \in {"update", "event"} \/ call[c].seq > 0) => creator[task(c)] # "insert"
        /\ Exists(task(c)) /\ call[c].seq > 0 => call[c].seq \in DOMAIN events[task(c)]

\* A body was POSTed, and received, only of a call that has queued its notice;
\* a cancel answered 204 cancelled its task.
ToldInv ==
    /\ \A c \in Calls : notice[c].bodies # {} => notice[c].state # "none"
    /\ \A m \in delivered : notice[m[1]].state # "none"
    /\ \A c \in Calls :
          kind(c) = "cancel" /\ call[c].pc = "204" =>
             /\ Over(task(c))
             /\ Exists(task(c)) => tasks[task(c)].status = "CANCELLED"

\* Retention selects only what has aged, and no one else deletes the row of a
\* task whose client has, or may still get, its 202.
AgedInv ==
    /\ \A r \in Retainers : retention[r].batch \subseteq aged
    /\ \A t \in Tasks : creator[t] \in {"enqueue", "created"} /\ ~Exists(t) => t \in aged

PInv == RInv /\ EndInv /\ NoticeInv /\ LogInv /\ KeptInv /\ ToldInv /\ AgedInv

(* Nothing is logged, told or deleted at first.                             *)
LEMMA ToldInit == RetentionInit => PInv
<1> SUFFICES ASSUME RetentionInit PROVE PInv
  OBVIOUS
<1>1. RInv /\ EndInv /\ NoticeInv /\ LogInv
  BY PruneInit, EndInit, NoticeInit, LogInit DEF RetentionInit
<1>2. KeptInv
  BY DEF RetentionInit, Init, CallsInit, KeptInv
<1>3. ToldInv
  BY DEF RetentionInit, Init, CallsInit, BrokerInit, NoNotice, NoticesInit, ToldInv
<1>4. AgedInv
  BY DEF RetentionInit, Init, CreationInit, AgedInv
<1> QED
  BY <1>1, <1>2, <1>3, <1>4 DEF PInv

(* A row that exists after a step of the proxy existed before it or has     *)
(* just been inserted.                                                      *)
LEMMA NoneComesBack ==
    ASSUME TypeInv, RowInv, [Next]_vars, NEW t \in Tasks, creator[t] # "insert"
    PROVE  /\ creator'[t] # "insert"
           /\ tasks'[t].status # "ABSENT" => tasks[t].status # "ABSENT"
<1>1. RowStep(t)
  BY RowSteps
<1> QED
  BY <1>1 DEF RowStep, Keeps, SameStatus, Starts, IsClaimed, IsDecided, IsCancelled, IsDeleted,
     Absent, NewRow, ActiveStatuses

(* A handler's own step: it reaches its update or its event only on a row   *)
(* it found, and the number it keeps is the last of the log it appended to. *)
LEMMA KeptByOwnStep ==
    ASSUME TypeInv, RowInv, KeptInv, NEW c \in Calls, StepOf(c)
    PROVE  /\ (call'[c].pc \in {"update", "event"} \/ call'[c].seq > 0)
                 => creator[task(c)] # "insert"
           /\ \/ call'[c].seq = call[c].seq
              \/ call'[c].seq \in DOMAIN events'[task(c)]
           /\ \A b \in Calls \ {c} : call'[b] = call[b]
<1>0. /\ task(c) \in Tasks /\ call \in [Calls -> CallStates]
      /\ events \in [Tasks -> Seq(TASK_EVENT_TYPES)]
  BY DEF TypeInv, TypeOK, TableType, CallsType, Requests, task
<1>1. \A b \in Calls \ {c} : call'[b] = call[b]
  BY <1>0 DEF StepOf, Authorize, Cancel, SubmitResult, ReportProgress, InsertEvent, Publish,
     EnqueueJob, CancelRefused, InsertEventConflicts, HandlerDies, GotoCall, Logged
<1>2. tasks[task(c)].status \in ActiveStatuses => creator[task(c)] # "insert"
  BY <1>0 DEF RowInv, ActiveStatuses
<1>3. ASSUME NEW e \in TASK_EVENT_TYPES, insertEvent(task(c), e), Logged(c),
             creator[task(c)] # "insert"
      PROVE  /\ creator[task(c)] # "insert"
             /\ call'[c].seq \in DOMAIN events'[task(c)]
  <2>1. call'[c].seq = Len(events[task(c)]) + 1
    BY <1>0, <1>3 DEF Logged, nextSeq, CallStates
  <2>2. events'[task(c)] = Append(events[task(c)], e) /\ events[task(c)] \in Seq(TASK_EVENT_TYPES)
    BY <1>0, <1>3 DEF insertEvent
  <2> QED
    BY <1>3, <2>1, <2>2
<1>4. CASE Authorize(c)
  <2>1. /\ call'[c].seq = call[c].seq
        /\ call'[c].pc \in {"update", "event"} => tasks[task(c)].status = "PROCESSING"
    BY <1>0, <1>4 DEF Authorize, GotoCall, CallStates
  <2> QED
    BY <1>1, <1>2, <2>1 DEF KeptInv, ActiveStatuses
<1>5. CASE Cancel(c)
  <2>1. CASE Matches(task(c), ActiveStatuses)
    <3>1. insertEvent(task(c), "cancelled") /\ Logged(c) /\ creator[task(c)] # "insert"
      BY <1>2, <1>5, <2>1 DEF Cancel, Matches
    <3> QED
      BY <1>1, <1>3, <3>1 DEF TASK_EVENT_TYPES
  <2>2. CASE ~Matches(task(c), ActiveStatuses)
    <3>1. call'[c].seq = call[c].seq /\ call'[c].pc = "find"
      BY <1>0, <1>5, <2>2 DEF Cancel, GotoCall, CallStates
    <3> QED
      BY <1>1, <3>1 DEF KeptInv
  <2> QED
    BY <2>1, <2>2
<1>6. CASE InsertEvent(c)
  <2>1. /\ kind(c) \in TASK_EVENT_TYPES /\ insertEvent(task(c), kind(c)) /\ Logged(c)
        /\ call[c].pc = "event"
    BY <1>6 DEF InsertEvent, At, TypeInv, TypeOK, CallsType, Requests, Kinds, ResultKinds, kind,
       TASK_EVENT_TYPES
  <2>2. creator[task(c)] # "insert"
    BY <2>1 DEF KeptInv
  <2> QED
    BY <1>1, <1>3, <2>1, <2>2
<1>7. CASE \/ SubmitResult(c) \/ ReportProgress(c) \/ Publish(c) \/ EnqueueJob(c)
           \/ CancelRefused(c) \/ InsertEventConflicts(c) \/ HandlerDies(c)
  <2>1. /\ call'[c].seq = call[c].seq
        /\ call'[c].pc \in {"update", "event"} => call[c].pc = "update"
    BY <1>0, <1>7 DEF SubmitResult, ReportProgress, Publish, EnqueueJob, CancelRefused,
       InsertEventConflicts, HandlerDies, GotoCall, At, CallStates
  <2> QED
    BY <1>1, <2>1 DEF KeptInv
<1> QED
  BY <1>4, <1>5, <1>6, <1>7 DEF StepOf

(* A step of the proxy keeps what has been logged with the row.             *)
LEMMA KeptProxy ==
    ASSUME TypeInv, RowInv, EndInv, LogInv, KeptInv, [Next]_vars
    PROVE  KeptInv'
<1>0. /\ UNCHANGED request
      /\ \A c \in Calls : task(c) \in Tasks /\ task(c)' = task(c)
  BY Movers DEF TypeInv, TypeOK, CallsType, Requests, task
<1>1. \A t \in Tasks : \A i \in DOMAIN events[t] : i \in DOMAIN events'[t]
  BY NothingUndone
<1>2. ASSUME NEW c \in Calls, call'[c] = call[c]
      PROVE  /\ (call'[c].pc \in {"update", "event"} \/ call'[c].seq > 0)
                    => creator'[task(c)] # "insert"
             /\ tasks'[task(c)].status # "ABSENT" /\ call'[c].seq > 0
                    => call'[c].seq \in DOMAIN events'[task(c)]
  BY <1>0, <1>1, <1>2, NoneComesBack DEF KeptInv, Exists
<1>3. ASSUME NEW c \in Calls, StepOf(c)
      PROVE  /\ (call'[c].pc \in {"update", "event"} \/ call'[c].seq > 0)
                    => creator'[task(c)] # "insert"
             /\ tasks'[task(c)].status # "ABSENT" /\ call'[c].seq > 0
                    => call'[c].seq \in DOMAIN events'[task(c)]
  <2>1. /\ (call'[c].pc \in {"update", "event"} \/ call'[c].seq > 0)
              => creator[task(c)] # "insert"
        /\ \/ call'[c].seq = call[c].seq
           \/ call'[c].seq \in DOMAIN events'[task(c)]
    BY <1>3, KeptByOwnStep
  <2>2. creator[task(c)] # "insert" =>
           /\ creator'[task(c)] # "insert"
           /\ tasks'[task(c)].status # "ABSENT" => tasks[task(c)].status # "ABSENT"
    BY <1>0, NoneComesBack
  <2>3. /\ task(c) \in Tasks
        /\ tasks[task(c)].status # "ABSENT" /\ call[c].seq > 0 => call[c].seq \in DOMAIN events[task(c)]
    BY <1>0 DEF KeptInv, Exists
  <2> QED
    BY <1>1, <2>1, <2>2, <2>3
<1>4. \A c \in Calls :
          /\ (call'[c].pc \in {"update", "event"} \/ call'[c].seq > 0)
                 => creator'[task(c)] # "insert"
          /\ tasks'[task(c)].status # "ABSENT" /\ call'[c].seq > 0
                 => call'[c].seq \in DOMAIN events'[task(c)]
  <2>1. CASE UNCHANGED call
    BY <1>2, <2>1
  <2>2. ASSUME NEW b \in Calls, StepOf(b)
        PROVE  \A c \in Calls : c # b => call'[c] = call[c]
    BY <2>2, KeptByOwnStep
  <2>3. CASE \E b \in Calls : StepOf(b)
    BY <1>2, <1>3, <2>2, <2>3
  <2> QED
    BY <2>1, <2>3, Movers
<1> QED
  BY <1>0, <1>4 DEF KeptInv, Exists

(* A step of the proxy keeps what receivers and cancelling clients have     *)
(* been told.                                                               *)
LEMMA ToldProxy ==
    ASSUME TypeInv, RowInv, EndInv, LogInv, ToldInv, [Next]_vars
    PROVE  ToldInv'
<1>0. /\ UNCHANGED request
      /\ call \in [Calls -> CallStates] /\ notice \in [Calls -> Notice]
      /\ delivered \subseteq Calls \X Bodies
      /\ \A c \in Calls : task(c) \in Tasks /\ task(c)' = task(c) /\ kind(c)' = kind(c)
  BY Movers DEF TypeInv, TypeOK, BrokerType, NoticesType, CallsType, Requests, task, kind
<1>1. \A c \in Calls : notice[c].state # "none" => notice'[c].state # "none"
  BY NothingUndone
<1>2. /\ \A c \in Calls : notice'[c].bodies # {} => notice'[c].state # "none"
      /\ \A m \in delivered' : notice'[m[1]].state # "none"
  <2>1. CASE UNCHANGED delivered /\ \A c \in Calls : notice'[c].bodies = notice[c].bodies
    BY <1>0, <1>1, <2>1 DEF ToldInv
  <2>2. CASE NoticesNext /\ besides_notices
    <3>1. PICK c \in Calls : \/ Fetch(c) \/ FetchThrows(c) \/ Finish(c) \/ NoticeStalls(c)
                             \/ \E body \in notice[c].bodies : Receive(c, body)
      BY <2>2 DEF NoticesNext
    <3>2. CASE Fetch(c)
      <4>1. /\ UNCHANGED delivered /\ notice'[c].state # "none"
            /\ \A b \in Calls \ {c} : notice'[b].bodies = notice[b].bodies
        BY <1>0, <3>2 DEF Fetch, Notice
      <4> QED
        BY <1>0, <1>1, <4>1 DEF ToldInv
    <3>3. CASE FetchThrows(c) \/ Finish(c) \/ NoticeStalls(c)
      BY <1>0, <2>1, <3>3 DEF FetchThrows, retryNotice, Finish, NoticeStalls, requeueNotice, Notice
    <3>4. ASSUME NEW body \in notice[c].bodies, Receive(c, body)
          PROVE  /\ \A b \in Calls : notice'[b].bodies # {} => notice'[b].state # "none"
                 /\ \A m \in delivered' : notice'[m[1]].state # "none"
      BY <3>4 DEF Receive, ToldInv
    <3> QED
      BY <3>1, <3>2, <3>3, <3>4
  <2>3. CASE CallsNext /\ besides_calls
    <3>1. PICK c \in Calls : StepOf(c)
      BY <2>3 DEF CallsNext, CallBegins, CallStep, StepOf
    <3>2. \A b \in Calls : notice'[b].bodies = notice[b].bodies
      BY <1>0, <3>1 DEF StepOf, Authorize, Cancel, SubmitResult, ReportProgress, InsertEvent,
         Publish, EnqueueJob, enqueueNotice, CancelRefused, InsertEventConflicts, HandlerDies, Notice
    <3> QED
      BY <2>1, <2>3, <3>2 DEF besides_calls
  <2>4. CASE \/ CreationNext /\ besides_creation
             \/ DispatchNext /\ besides_dispatch
             \/ SweeperNext /\ besides_sweeper
             \/ UNCHANGED vars
    <3>1. UNCHANGED <<notice, delivered>>
      BY <2>4 DEF CreationNext, Insert, InsertThrows, Enqueue, EnqueueThrows, Rollback, CreatorDies,
         create_frame, besides_creation, DispatchNext, RunStep, Take, ExecutorAccepts, JobStalls,
         Claim, PostReturns, PostThrows, RecordError, Acknowledge, ClaimThrows, RecordErrorThrows,
         WorkerDies, dispatch_frame, besides_dispatch, SweeperNext, SweepStep, Elapse, Tick,
         SweepEnds, SweepBatch, SweepAborts, SweepPublishes, SweeperDies, sweep_frame,
         besides_sweeper, vars, brokerVars
    <3> QED
      BY <2>1, <3>1
  <2> QED
    BY <2>2, <2>3, <2>4 DEF Next
<1>3. ASSUME NEW c \in Calls, kind(c) = "cancel", call'[c].pc = "204"
      PROVE  Over(task(c)) /\ (Exists(task(c)) => tasks[task(c)].status = "CANCELLED")
  <2>1. CASE call[c].pc = "204"
    BY <1>3, <2>1 DEF ToldInv
  <2>2. CASE call[c].pc \in {"publish", "enqueue"}
    <3>1. Ended(c) /\ Verdict(c).status = "CANCELLED"
      BY <1>3, <2>2 DEF Ended, Verdict
    <3> QED
      BY <3>1 DEF EndInv, Body
  <2>3. ASSUME StepOf(c) PROVE call[c].pc \in {"publish", "enqueue", "204"}
    BY <1>0, <1>3, <2>3 DEF StepOf, Authorize, Cancel, SubmitResult, ReportProgress, InsertEvent,
       Publish, EnqueueJob, CancelRefused, InsertEventConflicts, HandlerDies, GotoCall, Logged, At,
       CallStates, ResultKinds
  <2>4. ASSUME NEW b \in Calls \ {c}, StepOf(b) PROVE call'[c] = call[c]
    BY <1>0, <2>4 DEF StepOf, Authorize, Cancel, SubmitResult, ReportProgress, InsertEvent, Publish,
       EnqueueJob, CancelRefused, InsertEventConflicts, HandlerDies, GotoCall, Logged
  <2> QED
    BY <1>3, <2>1, <2>2, <2>3, <2>4, Movers
<1>4. ASSUME NEW c \in Calls, kind(c) = "cancel", call'[c].pc = "204"
      PROVE  /\ Over(task(c))'
             /\ tasks'[task(c)].status # "ABSENT" => tasks'[task(c)].status = "CANCELLED"
  <2>1. Over(task(c)) /\ (tasks[task(c)].status # "ABSENT" => tasks[task(c)].status = "CANCELLED")
    BY <1>3, <1>4 DEF Exists
  <2>2. Over(task(c))' /\ (Keeps(task(c)) \/ tasks'[task(c)].status = "ABSENT")
    BY <1>0, <2>1, Stable DEF Over, task
  <2> QED
    BY <2>1, <2>2 DEF Keeps, SameStatus
<1> QED
  BY <1>0, <1>2, <1>4 DEF ToldInv, Exists

(* A step of the proxy deletes a row only to roll a failed POST back.       *)
LEMMA AgedProxy ==
    ASSUME TypeInv, RowInv, AgedInv, [Next]_vars, UNCHANGED retentionVars
    PROVE  AgedInv'
<1>0. UNCHANGED <<aged, retention>>
  BY DEF retentionVars
<1>1. ASSUME NEW t \in Tasks, creator'[t] \in {"enqueue", "created"}
      PROVE  creator[t] \in {"enqueue", "created"} \/ tasks'[t] = NewRow
  <2>0. creator \in [Tasks -> CreatorStates] /\ tasks \in [Tasks -> Row]
    BY DEF TypeInv, TypeOK, CreationType, TableType
  <2>1. CASE UNCHANGED creator
    BY <1>1, <2>1
  <2>2. CASE CreationNext
    BY <1>1, <2>0, <2>2 DEF CreationNext, Insert, InsertThrows, Enqueue, EnqueueThrows, Rollback,
       CreatorDies, insert
  <2> QED
    BY <2>1, <2>2 DEF Next, besides_dispatch, besides_calls, besides_notices, besides_sweeper, vars
<1>2. ASSUME NEW t \in Tasks, creator'[t] \in {"enqueue", "created"}, tasks'[t].status = "ABSENT"
      PROVE  t \in aged
  <2>1. RowStep(t) /\ creator[t] \in {"enqueue", "created"}
    BY <1>1, <1>2, RowSteps DEF NewRow
  <2>2. tasks[t].status = "ABSENT"
    BY <1>2, <2>1 DEF RowStep, Keeps, SameStatus, Starts, IsClaimed, IsDecided, IsCancelled, IsDeleted
  <2> QED
    BY <2>1, <2>2 DEF AgedInv, Exists
<1> QED
  BY <1>0, <1>2 DEF AgedInv, Exists

\* What a step of retention does to the tables: the rows and the events of
\* tasks that are over and have aged go, all of them at once.
Prunes(B) ==
    /\ \A t \in B : t \in Tasks /\ Over(t) /\ t \in aged
    /\ tasks' = [t \in Tasks |-> IF t \in B THEN Absent ELSE tasks[t]]
    /\ events' = [t \in Tasks |-> IF t \in B THEN <<>> ELSE events[t]]
    /\ besides_retention

(* Every step of retention prunes some set of tasks, most often none, and   *)
(* leaves batches of aged tasks.                                            *)
LEMMA RetentionPrunes ==
    ASSUME RInv, AgedInv,
           \/ \E t \in Tasks : Age(t)
           \/ \E r \in Retainers : RetentionStep(r) \/ RetentionFails(r)
    PROVE  /\ \E B : Prunes(B)
           /\ aged \subseteq aged'
           /\ \A q \in Retainers : retention'[q].batch \subseteq aged'
<1>0. /\ tasks = [t \in Tasks |-> tasks[t]] /\ events = [t \in Tasks |-> events[t]]
      /\ \A q \in Retainers : \A t \in retention[q].batch : t \in Tasks /\ Over(t) /\ t \in aged
      /\ DOMAIN retention = Retainers
  BY DEF RInv, TypeInv, TypeOK, TableType, PruneInv, AgedInv
<1>1. ASSUME UNCHANGED tableVars, besides_retention PROVE Prunes({})
  BY <1>0, <1>1 DEF Prunes, tableVars
<1>2. ASSUME NEW r \in Retainers, NEW pc, NEW batch \in SUBSET aged, GotoRetain(r, pc, batch),
             aged' = aged
      PROVE  /\ aged \subseteq aged'
             /\ \A q \in Retainers : retention'[q].batch \subseteq aged'
  BY <1>0, <1>2 DEF GotoRetain
<1>3. ASSUME NEW t \in Tasks, Age(t)
      PROVE  /\ Prunes({})
             /\ aged \subseteq aged' /\ \A q \in Retainers : retention'[q].batch \subseteq aged'
  BY <1>0, <1>1, <1>3 DEF Age
<1>4. ASSUME NEW r \in Retainers, RetentionTick(r) \/ RetentionFails(r)
      PROVE  /\ Prunes({})
             /\ aged \subseteq aged' /\ \A q \in Retainers : retention'[q].batch \subseteq aged'
  <2>1. /\ UNCHANGED tableVars /\ besides_retention /\ aged' = aged
        /\ \E pc \in {"select", "idle"} : GotoRetain(r, pc, {})
    BY <1>4 DEF RetentionTick, RetentionFails
  <2>2. {} \in SUBSET aged
    OBVIOUS
  <2> QED
    BY <1>1, <1>2, <2>1, <2>2
<1>5. ASSUME NEW r \in Retainers, Select(r)
      PROVE  /\ Prunes({})
             /\ aged \subseteq aged' /\ \A q \in Retainers : retention'[q].batch \subseteq aged'
  <2>1. UNCHANGED tableVars /\ besides_retention /\ aged' = aged
    BY <1>5 DEF Select
  <2>2. PICK batch \in SUBSET Old :
            GotoRetain(r, IF batch = {} THEN "idle" ELSE "delete", batch)
    BY <1>5 DEF Select
  <2>3. batch \in SUBSET aged
    BY DEF Old
  <2> HIDE <1>5
  <2> QED
    BY <1>1, <1>2, <2>1, <2>2, <2>3
<1>6. ASSUME NEW r \in Retainers, Delete(r)
      PROVE  /\ Prunes(retention[r].batch)
             /\ aged \subseteq aged' /\ \A q \in Retainers : retention'[q].batch \subseteq aged'
  <2>1. Prunes(retention[r].batch) /\ aged' = aged
    BY <1>0, <1>6 DEF Delete, Without, Prunes
  <2>2. \E pc \in {"select", "idle"} : GotoRetain(r, pc, {})
    BY <1>6 DEF Delete
  <2>3. {} \in SUBSET aged
    OBVIOUS
  <2> QED
    BY <1>2, <2>1, <2>2, <2>3
<1> QED
  BY <1>3, <1>4, <1>5, <1>6 DEF RetentionStep

(* Pruning keeps everything that is said of an end: it is said of rows that *)
(* exist, or by the calls and their notices.                                *)
LEMMA PruningKeeps ==
    ASSUME TypeInv, EndInv, NoticeInv, LogInv, KeptInv, ToldInv, NEW B, Prunes(B)
    PROVE  /\ EndInv' /\ NoticeInv' /\ LogInv' /\ KeptInv' /\ ToldInv'
           /\ \A t \in Tasks : Over(t) => Over(t)'
           /\ \A c \in Calls : Ended(c)' = Ended(c)
<1>0. /\ UNCHANGED <<creator, call, request, notice, delivered>>
      /\ \A c \in Calls : task(c) \in Tasks
  BY DEF Prunes, besides_retention, callVars, TypeInv, TypeOK, CallsType, Requests, task
<1>1. \A c \in Calls : /\ task(c)' = task(c) /\ kind(c)' = kind(c)
                       /\ Verdict(c)' = Verdict(c) /\ (Ended(c)' = Ended(c))
  BY <1>0 DEF task, kind, Verdict, Ended
<1>2. Absent.status = "ABSENT"
  BY DEF Absent, NewRow
<1>3. \A t \in Tasks :
          /\ tasks'[t].status # "ABSENT" =>
                t \notin B /\ tasks'[t] = tasks[t] /\ events'[t] = events[t]
          /\ Over(t) => Over(t)'
  BY <1>0, <1>2 DEF Prunes, Over, ActiveStatuses
<1>4. \A t \in Tasks : events'[t] = events[t] \/ events'[t] = <<>>
  BY DEF Prunes
<1>5. \A t \in Tasks : \A i : Terminal(t, i)' => Terminal(t, i) /\ events'[t] = events[t]
  BY <1>4 DEF Terminal
<1>6. EndInv'
  <2>1. \A c \in Calls :
            Ended(c) => Over(task(c))' /\ (tasks'[task(c)].status # "ABSENT"
                                              => Body(tasks'[task(c)]) = Verdict(c))
    BY <1>0, <1>3 DEF EndInv, Exists, task, Over
  <2>2. \A b, c \in Calls : Ended(b)' /\ Ended(c)' /\ task(b)' = task(c)' => b = c
    BY <1>1 DEF EndInv
  <2>3. \A c \in Calls :
            /\ Ended(c)' => Over(task(c))' /\ kind(c)' # "progress"
            /\ Ended(c)' /\ Exists(task(c))' => Body(tasks[task(c)])' = Verdict(c)'
            /\ call'[c].pc = "enqueue" => kind(c)' # "progress"
            /\ kind(c)' = "cancel" => call'[c].pc \notin {"update", "event"}
    BY <1>0, <1>1, <2>1 DEF EndInv, Exists, Body
  <2> QED
    BY <2>2, <2>3 DEF EndInv
<1>7. NoticeInv'
  <2>1. \A c : Verdict(c)' = Verdict(c)
    BY <1>0 DEF kind, Verdict
  <2> QED
    BY <1>0, <2>1 DEF NoticeInv
<1>8. LogInv'
  <2>1. ASSUME NEW t \in Tasks, NEW i \in DOMAIN events'[t], Terminal(t, i)'
        PROVE  /\ Over(t)'
               /\ Exists(t)' => tasks'[t].status = Announces(events'[t][i])
               /\ \A j \in DOMAIN events'[t] : Terminal(t, j)' => i = j
    BY <1>3, <1>5, <2>1 DEF LogInv, Exists, Terminal
  <2>2. ASSUME NEW c \in Calls, kind(c) \in ResultKinds, call[c].pc = "event"
        PROVE  \A i \in DOMAIN events'[task(c)] : ~Terminal(task(c), i)'
    <3>1. \A i : ~Terminal(task(c), i)
      BY <2>2 DEF LogInv, Terminal
    <3>2. \A i : Terminal(task(c), i)' => i \in DOMAIN events'[task(c)]
                                          /\ events'[task(c)][i] \in TERMINAL_EVENT_TYPES
      BY <1>1 DEF Terminal
    <3> QED
      BY <1>0, <1>4, <3>1, <3>2 DEF Terminal
  <2> QED
    BY <1>0, <1>1, <2>1, <2>2 DEF LogInv
<1>9. KeptInv'
  BY <1>0, <1>1, <1>3 DEF KeptInv, Exists
<1>10. ToldInv'
  <2>1. \A c \in Calls : Over(task(c)) => Over(task(c))'
    BY <1>0, <1>3 DEF Over, task
  <2> QED
    BY <1>0, <1>1, <1>3, <2>1 DEF ToldInv, Exists
<1> QED
  BY <1>1, <1>3, <1>6, <1>7, <1>8, <1>9, <1>10

(* A step of retention keeps it all.                                        *)
LEMMA ToldRetention ==
    ASSUME PInv,
           \/ \E t \in Tasks : Age(t)
           \/ \E r \in Retainers : RetentionStep(r) \/ RetentionFails(r)
    PROVE  PInv'
<1>1. RInv'
  BY PruneRetention DEF PInv
<1>2. PICK B : Prunes(B)
  BY RetentionPrunes DEF PInv
<1>3. /\ aged \subseteq aged'
      /\ \A q \in Retainers : retention'[q].batch \subseteq aged'
  BY RetentionPrunes DEF PInv
<1>4. EndInv' /\ NoticeInv' /\ LogInv' /\ KeptInv' /\ ToldInv'
  BY <1>2, PruningKeeps DEF PInv, RInv
<1>5. \A t \in Tasks : creator'[t] \in {"enqueue", "created"} /\ tasks'[t].status = "ABSENT"
                           => t \in aged'
  BY <1>2, <1>3 DEF PInv, AgedInv, Prunes, besides_retention, Exists
<1> QED
  BY <1>1, <1>3, <1>4, <1>5 DEF PInv, AgedInv, Exists

(* The invariant is inductive.                                              *)
LEMMA ToldStep == PInv /\ [RetentionNext]_allVars => PInv'
<1> SUFFICES ASSUME PInv, [RetentionNext]_allVars PROVE PInv'
  OBVIOUS
<1>1. CASE [Next]_vars /\ UNCHANGED retentionVars
  BY <1>1, PruneProxy, EndPreserved, NoticePreserved, LogPreserved, KeptProxy, ToldProxy, AgedProxy
     DEF PInv, RInv
<1>2. CASE UNCHANGED allVars
  BY <1>1, <1>2 DEF allVars
<1>3. CASE \/ \E t \in Tasks : Age(t)
           \/ \E r \in Retainers : RetentionStep(r) \/ RetentionFails(r)
  BY <1>3, ToldRetention
<1> QED
  BY <1>1, <1>2, <1>3 DEF RetentionNext

(* As long as a task's row exists, every event a call has logged for it is  *)
(* in task_events, for any number of tasks, calls and retention replicas.   *)
THEOREM LogIsKeptWithRow == RetentionSpec => []LogKeptWithRow
<1>1. PInv => LogKeptWithRow
  BY DEF PInv, KeptInv, LogKeptWithRow
<1> QED
  BY <1>1, ToldInit, ToldStep, PTL DEF RetentionSpec

(* Pruning touches neither the dispatches nor the sweeps under way.         *)
LEMMA PruningKeepsWorkers ==
    ASSUME DispatchInv, SweepInv, TypeInv, NEW B, Prunes(B)
    PROVE  DispatchInv' /\ SweepInv'
<1>0. UNCHANGED <<creator, dispatcher, posted, job, sweeper>>
  BY DEF Prunes, besides_retention, dispatchVars
<1>1. Absent.status = "ABSENT"
  BY DEF Absent, NewRow
<1>2. \A t \in Tasks : (Past(t) => Past(t)') /\ (Over(t) => Over(t)')
  BY <1>0, <1>1 DEF Prunes, Past, Over, ActiveStatuses
<1>3. DispatchInv'
  BY <1>0, <1>2 DEF DispatchInv
<1>4. SweepInv'
  BY <1>0, <1>2 DEF SweepInv, NoDoubleSweep, TypeInv, TypeOK, SweeperType, SweeperStates
<1> QED
  BY <1>3, <1>4

(* With retention deleting rows and events under every other actor, what is *)
(* proved of the proxy without it still holds: one end per task, told alike *)
(* by row, log, webhook and cancel notice, one notifier, one dispatch, no   *)
(* task swept twice, and no row outside the CHECK constraint.               *)
THEOREM GuaranteesSurviveRetention ==
    RetentionSpec => [](/\ ValidStateData /\ OneTerminalEvent /\ LogAgreesWithRow
                        /\ WebhookTellsOutcome /\ CancelNoticeIsTrue /\ OneNotifier
                        /\ AtMostOneDispatch /\ NoLostDispatch /\ NoDoubleSweep)
<1> DEFINE W == PInv /\ DispatchInv /\ SweepInv
<1>1. RetentionInit => W
  BY ToldInit, DispatchInvInit, SweepInit DEF RetentionInit
<1>2. W /\ [RetentionNext]_allVars => W'
  <2> SUFFICES ASSUME W, [RetentionNext]_allVars PROVE W'
    OBVIOUS
  <2>1. PInv'
    BY ToldStep
  <2>2. CASE [Next]_vars
    BY <2>1, <2>2, DispatchPreserved, SweepPreserved DEF PInv, RInv
  <2>3. CASE UNCHANGED allVars
    BY <2>2, <2>3 DEF allVars
  <2>4. CASE \/ \E t \in Tasks : Age(t)
             \/ \E r \in Retainers : RetentionStep(r) \/ RetentionFails(r)
    <3>1. PICK B : Prunes(B)
      BY <2>4, RetentionPrunes DEF PInv
    <3> QED
      BY <2>1, <3>1, PruningKeepsWorkers DEF PInv, RInv
  <2> QED
    BY <2>2, <2>3, <2>4 DEF RetentionNext
<1>3. W => /\ ValidStateData /\ OneTerminalEvent /\ LogAgreesWithRow
           /\ WebhookTellsOutcome /\ CancelNoticeIsTrue /\ OneNotifier
           /\ AtMostOneDispatch /\ NoLostDispatch /\ NoDoubleSweep
  <2> SUFFICES ASSUME W
               PROVE  /\ ValidStateData /\ OneTerminalEvent /\ LogAgreesWithRow
                      /\ WebhookTellsOutcome /\ CancelNoticeIsTrue /\ OneNotifier
                      /\ AtMostOneDispatch /\ NoLostDispatch /\ NoDoubleSweep
    OBVIOUS
  <2>1. ValidStateData
    BY DEF PInv, RInv, RowInv, ValidStateData, Exists
  <2>2. OneTerminalEvent /\ LogAgreesWithRow
    BY DEF PInv, LogInv, OneTerminalEvent, LogAgreesWithRow
  <2>3. WebhookTellsOutcome
    BY DEF PInv, NoticeInv, Verdict, ResultKinds, WebhookTellsOutcome
  <2>4. CancelNoticeIsTrue
    <3>1. \A c : kind(c) = "cancel" => Verdict(c).status = "CANCELLED"
      BY DEF Verdict
    <3> QED
      BY <3>1 DEF PInv, NoticeInv, CancelNoticeIsTrue
  <2>5. OneNotifier
    BY DEF PInv, EndInv, Ended, OneNotifier
  <2>6. AtMostOneDispatch /\ NoLostDispatch
    BY DEF DispatchInv, Past, AtMostOneDispatch, NoLostDispatch
  <2>7. NoDoubleSweep
    BY DEF SweepInv
  <2> QED
    BY <2>1, <2>2, <2>3, <2>4, <2>5, <2>6, <2>7
<1> QED
  BY <1>1, <1>2, <1>3, PTL DEF RetentionSpec

-----------------------------------------------------------------------------
\* What a poll answered still holds, or what has happened since explains the
\* difference; an end that a poll answered is the one that the call which ended
\* the task tells.
HeardInv ==
    /\ heard \in [Tasks -> Bodies]
    /\ \A t \in Tasks :
          /\ heard[t] = Body(NewRow) \/ creator[t] # "insert"
          /\ tasks[t].status \in Later(heard[t].status)
          /\ heard[t].status \in TerminalStatuses =>
                /\ Over(t)
                /\ Exists(t) => heard[t] = Body(tasks[t])
                /\ \A c \in Calls : Ended(c) /\ task(c) = t => heard[t] = Verdict(c)

(* Statuses that may follow one another: one that may follow a later one    *)
(* may follow an earlier one.                                               *)
LEMMA LaterIsTransitive ==
    ASSUME NEW a \in TASK_STATUSES \cup {"ABSENT"}, NEW b \in Later(a), NEW c \in Later(b)
    PROVE  c \in Later(a)
<1> USE DEF Later, TASK_STATUSES
<1>1. CASE a = "PENDING"
  <2>1. Later(a) = TASK_STATUSES \cup {"ABSENT"}
    BY <1>1
  <2>2. c \in TASK_STATUSES \cup {"ABSENT"}
    <3>1. CASE b = "PENDING"
      BY <3>1
    <3>2. CASE b = "PROCESSING"
      BY <3>2
    <3>3. CASE b \notin {"PENDING", "PROCESSING"}
      BY <2>1, <3>3
    <3> QED
      BY <3>1, <3>2, <3>3
  <2> QED
    BY <2>1, <2>2
<1>2. CASE a = "PROCESSING"
  BY <1>2
<1>3. CASE a \notin {"PENDING", "PROCESSING"}
  BY <1>3
<1> QED
  BY <1>1, <1>2, <1>3

(* A step of the proxy moves a row that has been inserted only forward.     *)
LEMMA RowsMoveForward ==
    ASSUME TypeInv, RowInv, [Next]_vars, NEW t \in Tasks, creator[t] # "insert"
    PROVE  tasks'[t].status \in Later(tasks[t].status)
<1>1. RowStep(t) /\ tasks[t].status \in TASK_STATUSES \cup {"ABSENT"}
  BY RowSteps DEF TypeInv, TypeOK, TableType, Row
<1> USE DEF Later, TASK_STATUSES
<1>2. CASE Keeps(t)
  BY <1>1, <1>2 DEF Keeps, SameStatus
<1>3. CASE IsClaimed(t) \/ IsDecided(t) \/ IsCancelled(t)
  BY <1>3 DEF IsClaimed, IsDecided, IsCancelled, ActiveStatuses
<1>4. CASE IsDeleted(t)
  BY <1>1, <1>4 DEF IsDeleted, Absent, NewRow
<1> QED
  BY <1>1, <1>2, <1>3, <1>4 DEF RowStep, Starts

(* A step of the proxy leaves a poll's answer true.                         *)
LEMMA HeardProxy ==
    ASSUME TypeInv, RowInv, EndInv, HeardInv, [Next]_vars, UNCHANGED heard
    PROVE  HeardInv'
<1> SUFFICES ASSUME NEW t \in Tasks
             PROVE  /\ heard[t] = Body(NewRow) \/ creator'[t] # "insert"
                    /\ tasks'[t].status \in Later(heard[t].status)
                    /\ heard[t].status \in TerminalStatuses =>
                          /\ Over(t)'
                          /\ tasks'[t].status # "ABSENT" => heard[t] = Body(tasks'[t])
                          /\ \A c \in Calls : Ended(c)' /\ task(c) = t => heard[t] = Verdict(c)
  <2>1. \A c \in Calls : task(c)' = task(c) /\ Verdict(c)' = Verdict(c)
    BY Movers DEF task, kind, Verdict
  <2> QED
    BY <2>1 DEF HeardInv, Exists, Body
<1>0. /\ TypeInv' /\ RowStep(t)
      /\ heard[t].status \in TASK_STATUSES \cup {"ABSENT"}
  BY TypeStep, RowSteps DEF HeardInv, Bodies
<1>1. heard[t] = Body(NewRow) \/ creator'[t] # "insert"
  BY <1>0 DEF HeardInv, RowStep
<1>2. tasks'[t].status \in Later(heard[t].status)
  <2>1. CASE creator[t] # "insert"
    BY <1>0, <2>1, RowsMoveForward, LaterIsTransitive DEF HeardInv
  <2>2. CASE creator[t] = "insert"
    <3>1. heard[t].status = "PENDING"
      BY <2>2 DEF HeardInv, Body, NewRow
    <3>2. tasks'[t].status \in TASK_STATUSES \cup {"ABSENT"}
      BY <1>0 DEF TypeInv, TypeOK, TableType, Row
    <3> QED
      BY <3>1, <3>2 DEF Later
  <2> QED
    BY <2>1, <2>2
<1>3. ASSUME heard[t].status \in TerminalStatuses
      PROVE  /\ Over(t)'
             /\ tasks'[t].status # "ABSENT" => heard[t] = Body(tasks'[t])
             /\ \A c \in Calls : Ended(c)' /\ task(c) = t => heard[t] = Verdict(c)
  <2>1. Over(t) /\ (tasks[t].status # "ABSENT" => heard[t] = Body(tasks[t]))
    BY <1>3 DEF HeardInv, Exists
  <2>2. Over(t)' /\ (Keeps(t) \/ tasks'[t].status = "ABSENT")
    BY <2>1, Stable
  <2>3. tasks'[t].status # "ABSENT" => heard[t] = Body(tasks'[t])
    BY <2>1, <2>2 DEF Keeps, SameStatus, SameVerdict, Body
  <2>4. ASSUME NEW c \in Calls, Ended(c)', task(c) = t PROVE heard[t] = Verdict(c)
    <3>1. ~Ends(c)
      BY <2>1, <2>4 DEF Ends, Over
    <3>2. Ended(c)
      BY <2>4, <3>1, EndedStep
    <3> QED
      BY <1>3, <2>4, <3>2 DEF HeardInv
  <2> QED
    BY <2>2, <2>3, <2>4
<1> QED
  BY <1>1, <1>2, <1>3

(* So does pruning, after which a poll finds nothing.                       *)
LEMMA HeardPruning ==
    ASSUME PInv, HeardInv, NEW B, Prunes(B), UNCHANGED heard
    PROVE  HeardInv'
<1>0. UNCHANGED <<creator, request>>
  BY DEF Prunes, besides_retention, callVars
<1>1. \A c \in Calls : task(c)' = task(c) /\ Verdict(c)' = Verdict(c) /\ (Ended(c)' = Ended(c))
  BY <1>0, PruningKeeps DEF task, kind, Verdict, PInv, RInv
<1>2. \A t \in Tasks : Over(t) => Over(t)'
  BY PruningKeeps DEF PInv, RInv
<1>3. \A t \in Tasks : tasks'[t] = Absent \/ tasks'[t] = tasks[t]
  BY DEF Prunes
<1>4. Absent.status = "ABSENT" /\ \A s \in TASK_STATUSES \cup {"ABSENT"} : "ABSENT" \in Later(s)
  BY DEF Absent, NewRow, Later
<1>5. \A t \in Tasks : heard[t].status \in TASK_STATUSES \cup {"ABSENT"}
  BY DEF HeardInv, Bodies
<1>6. \A t \in Tasks : tasks'[t].status \in Later(heard[t].status)
  BY <1>3, <1>4, <1>5 DEF HeardInv
<1>7. \A t \in Tasks : heard[t].status \in TerminalStatuses =>
          /\ Over(t)'
          /\ Exists(t)' => heard[t] = Body(tasks'[t])
  BY <1>2, <1>3, <1>4 DEF HeardInv, Exists
<1> QED
  BY <1>0, <1>1, <1>6, <1>7 DEF HeardInv, Body

(* A poll is answered with the row as it is, which by EndInv carries the    *)
(* verdict of the call that ended the task, if one did.                     *)
LEMMA HeardPoll ==
    ASSUME PInv, HeardInv, NEW t \in Tasks, Poll(t)
    PROVE  PInv' /\ HeardInv'
<1>0. /\ UNCHANGED allVars /\ creator[t] = "created"
      /\ heard' = [heard EXCEPT ![t] = Body(tasks[t])]
  BY DEF Poll, getStatus
<1>1. UNCHANGED <<vars, aged, retention>>
  BY <1>0 DEF allVars, retentionVars
<1>2. PInv'
  BY <1>0, ToldStep
<1>3. tasks[t] \in Row /\ Body(tasks[t]) \in Bodies
  BY DEF PInv, RInv, TypeInv, TypeOK, TableType, Row, Body, Bodies
<1>4. heard' \in [Tasks -> Bodies]
  BY <1>0, <1>3 DEF HeardInv
<1>5. UNCHANGED <<tasks, creator, call, request, notice>>
  BY <1>1 DEF vars, tableVars, brokerVars, callVars
<1>6. \A c \in Calls : task(c)' = task(c) /\ Verdict(c)' = Verdict(c) /\ (Ended(c)' = Ended(c))
  BY <1>5 DEF task, kind, Verdict, Ended
<1>7. ASSUME NEW u \in Tasks
      PROVE  /\ heard'[u] = Body(NewRow) \/ creator[u] # "insert"
             /\ tasks[u].status \in Later(heard'[u].status)
             /\ heard'[u].status \in TerminalStatuses =>
                   /\ Over(u)
                   /\ Exists(u) => heard'[u] = Body(tasks[u])
                   /\ \A c \in Calls : Ended(c) /\ task(c) = u => heard'[u] = Verdict(c)
  <2>1. CASE u # t
    <3>1. heard'[u] = heard[u]
      BY <1>0, <2>1 DEF HeardInv
    <3> QED
      BY <3>1 DEF HeardInv
  <2>2. CASE u = t
    <3>1. heard'[u] = Body(tasks[u]) /\ heard'[u].status = tasks[u].status
      BY <1>0, <2>2 DEF HeardInv, Body
    <3>2. tasks[u].status \in Later(tasks[u].status)
      BY <1>3, <2>2 DEF Row, Later, TASK_STATUSES
    <3>3. ASSUME tasks[u].status \in TerminalStatuses
          PROVE  /\ Over(u)
                 /\ \A c \in Calls : Ended(c) /\ task(c) = u => Body(tasks[u]) = Verdict(c)
      BY <1>0, <2>2, <3>3 DEF TerminalStatuses, ActiveStatuses, Over, PInv, EndInv, Exists
    <3> QED
      BY <1>0, <2>2, <3>1, <3>2, <3>3
  <2> QED
    BY <2>1, <2>2
<1>8. \A u \in Tasks : (Over(u)' = Over(u)) /\ (Exists(u)' = Exists(u))
  BY <1>5 DEF Over, Exists
<1> QED
  BY <1>2, <1>4, <1>5, <1>6, <1>7, <1>8 DEF HeardInv

(* What has been heard and told holds of every behaviour.                   *)
LEMMA PollingInvariant == PollingSpec => [](PInv /\ HeardInv)
<1>1. PollingInit => PInv /\ HeardInv
  <2> SUFFICES ASSUME PollingInit PROVE PInv /\ HeardInv
    OBVIOUS
  <2>1. PInv
    BY ToldInit DEF PollingInit
  <2>2. Body(NewRow) \in Bodies /\ Body(NewRow).status = "PENDING"
    BY DEF Body, NewRow, Bodies, TASK_STATUSES
  <2>3. heard = [t \in Tasks |-> Body(NewRow)]
    BY DEF PollingInit
  <2>4. \A t \in Tasks : tasks[t].status \in Later("PENDING")
    BY <2>1 DEF PInv, RInv, TypeInv, TypeOK, TableType, Row, Later
  <2> QED
    BY <2>1, <2>2, <2>3, <2>4 DEF HeardInv, TerminalStatuses
<1>2. PInv /\ HeardInv /\ [PollingNext]_pollingVars => (PInv /\ HeardInv)'
  <2> SUFFICES ASSUME PInv, HeardInv, [PollingNext]_pollingVars PROVE PInv' /\ HeardInv'
    OBVIOUS
  <2>1. CASE [Next]_vars /\ UNCHANGED retentionVars /\ UNCHANGED heard
    <3>1. PInv'
      BY <2>1, PruneProxy, EndPreserved, NoticePreserved, LogPreserved, KeptProxy, ToldProxy,
         AgedProxy DEF PInv, RInv
    <3> QED
      BY <2>1, <3>1, HeardProxy DEF PInv, RInv
  <2>2. CASE UNCHANGED pollingVars
    BY <2>1, <2>2 DEF pollingVars, allVars
  <2>3. CASE /\ \/ \E t \in Tasks : Age(t)
                \/ \E r \in Retainers : RetentionStep(r) \/ RetentionFails(r)
             /\ UNCHANGED heard
    <3>1. PICK B : Prunes(B)
      BY <2>3, RetentionPrunes DEF PInv
    <3> QED
      BY <2>3, <3>1, ToldRetention, HeardPruning
  <2>4. ASSUME NEW t \in Tasks, Poll(t) PROVE PInv' /\ HeardInv'
    BY <2>4, HeardPoll
  <2> QED
    BY <2>1, <2>2, <2>3, <2>4 DEF PollingNext, RetentionNext
<1> QED
  BY <1>1, <1>2, PTL DEF PollingSpec

(* A poll never contradicts what the client was told before, by a poll, the *)
(* stream, a webhook or the answer to its cancel, and answers not found     *)
(* only of a task retention may prune.                                      *)
THEOREM PollsFollowTheNews == PollingSpec => []PollFollowsNews
<1>1. PInv /\ HeardInv => PollFollowsNews
  <2> SUFFICES ASSUME PInv, HeardInv, NEW t \in Tasks, creator[t] = "created"
               PROVE  /\ \A status \in Told(t) : tasks[t].status \in Later(status)
                      /\ tasks[t].status = "ABSENT" => t \in aged
    BY DEF PollFollowsNews, getStatus, Body
  <2>1. tasks[t].status = "ABSENT" => t \in aged
    BY DEF PInv, AgedInv, Exists
  <2>2. ASSUME NEW s \in TerminalStatuses, tasks[t].status \in {s, "ABSENT"}
        PROVE  tasks[t].status \in Later(s)
    BY <2>2 DEF TerminalStatuses, Later
  <2>3. ASSUME NEW m \in published, m[1] = t, Terminal(t, m[2])
        PROVE  tasks[t].status \in Later(Announces(events[t][m[2]]))
    <3>1. m[2] \in DOMAIN events[t] /\ events[t][m[2]] \in TERMINAL_EVENT_TYPES
      BY <2>3 DEF Terminal
    <3>2. tasks[t].status \in {Announces(events[t][m[2]]), "ABSENT"}
      BY <2>3, <3>1 DEF PInv, LogInv, Exists
    <3>3. Announces(events[t][m[2]]) \in TerminalStatuses
      BY <3>1 DEF TERMINAL_EVENT_TYPES, Announces, TerminalStatuses
    <3> QED
      BY <2>2, <3>2, <3>3
  <2>4. ASSUME NEW m \in delivered, task(m[1]) = t, kind(m[1]) \in ResultKinds
        PROVE  tasks[t].status \in Later(m[2].status)
    <3>1. m[1] \in Calls
      BY <2>4 DEF PInv, RInv, TypeInv, TypeOK, NoticesType
    <3>2. m[2] = Verdict(m[1]) /\ Ended(m[1])
      BY <2>4, <3>1 DEF PInv, NoticeInv, ToldInv, Ended
    <3>3. m[2].status \in TerminalStatuses
      BY <2>4, <3>2 DEF Verdict, TerminalStatuses
    <3>4. tasks[t].status \in {m[2].status, "ABSENT"}
      BY <2>4, <3>1, <3>2 DEF PInv, EndInv, Exists, Body
    <3> QED
      BY <2>2, <3>3, <3>4
  <2>5. ASSUME NEW c \in Calls, task(c) = t, kind(c) = "cancel", At(c, "204")
        PROVE  tasks[t].status \in Later("CANCELLED")
    BY <2>2, <2>5 DEF PInv, ToldInv, At, Exists, TerminalStatuses
  <2>6. tasks[t].status \in Later(heard[t].status)
    BY DEF HeardInv
  <2> QED
    BY <2>1, <2>3, <2>4, <2>5, <2>6 DEF Told
<1> QED
  BY <1>1, PollingInvariant, PTL

(* Poll and webhook tell of an end in the same words, whichever comes first *)
(* and however late the webhook is.                                         *)
THEOREM PollsMatchWebhooks == PollingSpec => []PollMatchesWebhook
<1>1. PInv /\ HeardInv => PollMatchesWebhook
  <2> SUFFICES ASSUME PInv, HeardInv, NEW m \in delivered, kind(m[1]) \in ResultKinds,
                      heard[task(m[1])].status \in TerminalStatuses
               PROVE  m[2] = heard[task(m[1])]
    BY DEF PollMatchesWebhook
  <2>1. m[1] \in Calls /\ task(m[1]) \in Tasks
    BY DEF PInv, RInv, TypeInv, TypeOK, NoticesType, CallsType, Requests, task
  <2>2. m[2] = Verdict(m[1]) /\ Ended(m[1])
    BY <2>1 DEF PInv, NoticeInv, ToldInv, Ended
  <2> QED
    BY <2>1, <2>2 DEF HeardInv
<1> QED
  BY <1>1, PollingInvariant, PTL
=============================================================================
