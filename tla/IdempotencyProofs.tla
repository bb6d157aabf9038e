-------------------------- MODULE IdempotencyProofs --------------------------
(***************************************************************************)
(* Keyed creation, for any number of requests and any faults.  The         *)
(* argument does not mention who holds the slot: a request whose enqueue   *)
(* returned is never undone, the unique index lets only one row have the   *)
(* key, and only such requests' ids get into slots and replies.            *)
(***************************************************************************)
EXTENDS Idempotency, TLAPS

Has(t) == tasks[t].status # "ABSENT"

\* A request that has not inserted has no row; one that is done inserting and
\* enqueueing has a row and a job.
CreatedInv ==
    \A t \in Tasks :
        /\ creator[t] = "enqueue" => Has(t)
        /\ creator[t] = "created" => Has(t) /\ job[t] # "none"

OneRowInv == \A t, u \in Tasks : Has(t) /\ Has(u) => t = u

NamedInv ==
    /\ slot \in Tasks => creator[slot] = "created"
    /\ \A t \in Tasks : answer[t] \in Tasks => creator[answer[t]] = "created"

IInv == IdempotencyType /\ CreatedInv /\ OneRowInv /\ NamedInv

-----------------------------------------------------------------------------
\* A row of TaskTable is not Absent once it is NewRow.
LEMMA RowValues ==
    /\ NewRow \in Row /\ Absent \in Row
    /\ NewRow.status = "PENDING" /\ Absent.status = "ABSENT"
BY DEF NewRow, Absent, Row, TASK_STATUSES

(* Initially there is no row, no job and no reply. *)
LEMMA KeyedInit == IdempotencyInit => IInv
<1> SUFFICES ASSUME IdempotencyInit PROVE IInv
  OBVIOUS
<1> USE DEF IdempotencyInit, TableInit, BrokerInit, CreationInit
<1>1. TableType
  BY RowValues DEF TableType
<1>2. BrokerType
  BY BrokerAssumption DEF BrokerType, Notice, NoNotice, JobStates, Bodies
<1>3. IdempotencyType
  BY <1>1, <1>2 DEF IdempotencyType, CreationType, CreatorStates
<1>4. CreatedInv /\ OneRowInv
  BY RowValues DEF CreatedInv, OneRowInv, Has
<1>5. NamedInv
  BY IdempotencyAssumption DEF NamedInv, NoSlot, NoAnswer
<1> QED
  BY <1>3, <1>4, <1>5 DEF IInv

(* The steps of the creation itself leave slot and replies alone, keep what *)
(* an enqueued task has, and insert a row only when no row has the key.     *)
LEMMA CreateKeeps ==
    ASSUME IInv, NEW r \in Tasks, Create(r) PROVE IInv'
<1> USE DEF IInv
<1>0. UNCHANGED slotVars /\ phase[r] = "create"
  BY DEF Create
<1>t. tasks \in [Tasks -> Row] /\ creator \in [Tasks -> CreatorStates] /\ job \in [Tasks -> JobStates]
  BY DEF IdempotencyType, TableType, CreationType, BrokerType
<1>1. SUFFICES /\ tasks' \in [Tasks -> Row]
               /\ creator' \in [Tasks -> CreatorStates]
               /\ job' \in [Tasks -> JobStates]
               /\ UNCHANGED <<events, deliveries, notice, published, crashes>>
               /\ CreatedInv' /\ OneRowInv'
               /\ \A t \in Tasks : creator[t] = "created" => creator'[t] = "created"
  <2>1. IdempotencyType'
    BY <1>0, <1>1 DEF IdempotencyType, TableType, BrokerType, CreationType, slotVars
  <2>2. NamedInv'
    BY <1>0, <1>1 DEF NamedInv, slotVars, IdempotencyType
  <2> QED
    BY <1>1, <2>1, <2>2
<1> USE <1>t
<1>2. CASE ~KeyTaken /\ Insert(r)
  <2> USE <1>2 DEF Insert, insert, create_frame
  <2>1. \A t \in Tasks : ~Has(t)
    BY DEF KeyTaken, Has
  <2>2. tasks' \in [Tasks -> Row] /\ \A t \in Tasks : Has(t)' <=> t = r
    BY <2>1, RowValues DEF Has
  <2>3. creator' = [creator EXCEPT ![r] = "enqueue"] /\ creator[r] = "insert" /\ job' = job
    OBVIOUS
  <2>4. CreatedInv' /\ OneRowInv'
    BY <2>1, <2>2, <2>3 DEF CreatedInv, OneRowInv
  <2> QED
    BY <2>2, <2>3, <2>4 DEF CreatorStates
<1>3. CASE InsertRefused(r) \/ InsertThrows(r) \/ ("db" \in Faults /\ CreatorDies(r))
  <2>1. /\ creator' = [creator EXCEPT ![r] = "failed"] /\ creator[r] # "created"
        /\ UNCHANGED <<tasks, job, events, deliveries, notice, published, crashes>>
    BY <1>3 DEF InsertRefused, InsertThrows, CreatorDies, create_frame, tableVars, brokerVars
  <2>2. CreatedInv' /\ OneRowInv'
    BY <2>1 DEF CreatedInv, OneRowInv, Has
  <2> QED
    BY <2>1, <2>2 DEF CreatorStates
<1>4. CASE Enqueue(r) \/ EnqueueThrows(r)
  <2>1. /\ UNCHANGED <<tasks, events, deliveries, notice, published, crashes>>
        /\ job' \in {job, [job EXCEPT ![r] = "waiting"]}
        /\ creator[r] = "enqueue"
        /\ \/ creator' = [creator EXCEPT ![r] = "rollback"]
           \/ creator' = [creator EXCEPT ![r] = "created"] /\ job' = [job EXCEPT ![r] = "waiting"]
    BY <1>4 DEF Enqueue, EnqueueThrows, enqueueDispatch, create_frame
  <2>2. job' \in [Tasks -> JobStates] /\ \A t \in Tasks : job[t] # "none" => job'[t] # "none"
    BY <2>1 DEF JobStates
  <2>3. CreatedInv' /\ OneRowInv'
    BY <2>1, <2>2 DEF CreatedInv, OneRowInv, Has
  <2> QED
    BY <2>1, <2>2, <2>3 DEF CreatorStates
<1>5. CASE Rollback(r)
  <2>1. /\ UNCHANGED <<job, events, deliveries, notice, published, crashes>>
        /\ tasks' = [tasks EXCEPT ![r] = Absent]
        /\ creator[r] = "rollback" /\ creator' = [creator EXCEPT ![r] = "failed"]
    BY <1>5 DEF Rollback, deleteById, create_frame
  <2>2. tasks' \in [Tasks -> Row] /\ \A t \in Tasks : Has(t)' <=> t # r /\ Has(t)
    BY <2>1, RowValues DEF Has
  <2>3. CreatedInv' /\ OneRowInv'
    BY <2>1, <2>2 DEF CreatedInv, OneRowInv
  <2> QED
    BY <2>1, <2>2, <2>3 DEF CreatorStates
<1> QED
  BY <1>2, <1>3, <1>4, <1>5 DEF Create

(* The steps around it put into slot and replies only ids of requests whose *)
(* enqueue returned.                                                        *)
LEMMA SlotKeeps ==
    ASSUME IInv, UNCHANGED <<tableVars, brokerVars, creator>>,
           slot' \in {slot, NoSlot, PENDING_SENTINEL} \cup {t \in Tasks : creator[t] = "created"},
           phase' \in [Tasks -> {"occupy", "create", "done"}],
           answer' \in [Tasks -> Tasks \cup {NoAnswer, "409", "500"}],
           \A t \in Tasks : answer'[t] \in Tasks =>
               answer'[t] = answer[t] \/ creator[answer'[t]] = "created"
    PROVE  IInv'
<1> USE DEF IInv, tableVars, brokerVars
<1>1. CreatedInv' /\ OneRowInv'
  BY DEF CreatedInv, OneRowInv, Has
<1>2. IdempotencyType'
  BY DEF IdempotencyType, TableType, BrokerType, CreationType
<1>3. NamedInv'
  BY IdempotencyAssumption DEF NamedInv, NoSlot, PENDING_SENTINEL
<1> QED
  BY <1>1, <1>2, <1>3

(* The invariant is inductive. *)
LEMMA KeyedStep == IInv /\ [IdempotencyNext]_IdempotencyVars => IInv'
<1> SUFFICES ASSUME IInv, [IdempotencyNext]_IdempotencyVars PROVE IInv'
  OBVIOUS
<1>t. /\ slot \in Tasks \cup {NoSlot, PENDING_SENTINEL}
      /\ phase \in [Tasks -> {"occupy", "create", "done"}]
      /\ answer \in [Tasks -> Tasks \cup {NoAnswer, "409", "500"}]
  BY DEF IInv, IdempotencyType
<1>1. ASSUME NEW t \in Tasks, occupySlot(t) PROVE IInv'
  <2>0. UNCHANGED <<tableVars, brokerVars, creator>>
    BY <1>1 DEF occupySlot, creation_frame
  <2>1. CASE slot = NoSlot /\ slot' = PENDING_SENTINEL
             /\ phase' = [phase EXCEPT ![t] = "create"] /\ UNCHANGED answer
    BY <2>0, <2>1, <1>t, SlotKeeps
  <2>2. CASE slot = PENDING_SENTINEL /\ Reply(t, "409") /\ UNCHANGED slot
    BY <2>0, <2>2, <1>t, SlotKeeps, IdempotencyAssumption DEF Reply
  <2>3. CASE slot \in Tasks /\ Reply(t, slot) /\ UNCHANGED slot
    <3>1. creator[slot] = "created"
      BY <2>3 DEF IInv, NamedInv
    <3> QED
      BY <2>0, <2>3, <3>1, <1>t, SlotKeeps DEF Reply
  <2> QED
    BY <1>1, <2>1, <2>2, <2>3 DEF occupySlot
<1>2. ASSUME NEW t \in Tasks, OccupyThrows(t) PROVE IInv'
  <2>1. PICK a \in {"409", "500"} : Reply(t, a)
    BY <1>2 DEF OccupyThrows
  <2> QED
    BY <1>2, <2>1, <1>t, SlotKeeps, IdempotencyAssumption
    DEF OccupyThrows, Reply, creation_frame
<1>3. ASSUME NEW t \in Tasks, commitResult(t) \/ CommitThrows(t) PROVE IInv'
  BY <1>3, <1>t, SlotKeeps DEF commitResult, CommitThrows, Reply, creation_frame
<1>4. ASSUME NEW t \in Tasks, releaseSlot(t) \/ ReleaseThrows(t) PROVE IInv'
  BY <1>4, <1>t, SlotKeeps, IdempotencyAssumption
  DEF releaseSlot, ReleaseThrows, Reply, creation_frame
<1>5. ASSUME NEW t \in Tasks, RequestDies(t) PROVE IInv'
  BY <1>5, <1>t, SlotKeeps DEF RequestDies, creation_frame
<1>6. CASE Expire
  BY <1>6, <1>t, SlotKeeps DEF Expire, creation_frame
<1>7. CASE UNCHANGED IdempotencyVars
  BY <1>7, <1>t, SlotKeeps DEF IdempotencyVars, slotVars
<1> QED
  BY <1>1, <1>2, <1>3, <1>4, <1>5, <1>6, <1>7, CreateKeeps DEF IdempotencyNext

LEMMA KeyedInvariant == IdempotencySpec => []IInv
BY KeyedInit, KeyedStep, PTL DEF IdempotencySpec

-----------------------------------------------------------------------------
(* Keyed creation is type correct for every set of requests and faults; a   *)
(* reply is never the sentinel.                                             *)
THEOREM KeyedTypeCorrect == IdempotencySpec => []IdempotencyType
<1>1. IInv => IdempotencyType
  BY DEF IInv
<1> QED
  BY <1>1, KeyedInvariant, PTL

(* All the requests of one key that TasksService.create answers with 202    *)
(* name one task, even when slots expire under the requests that hold them. *)
THEOREM CreatedExactlyOnce == IdempotencySpec => []OneTaskPerKey
<1>1. IInv => OneTaskPerKey
  BY DEF IInv, OneTaskPerKey, NamedInv, CreatedInv, OneRowInv
<1> QED
  BY <1>1, KeyedInvariant, PTL

(* Whatever task a 202 names has its row and its dispatch job.              *)
THEOREM AnswerIsBacked == IdempotencySpec => []AnsweredTaskRuns
<1>1. IInv => AnsweredTaskRuns
  BY DEF IInv, AnsweredTaskRuns, NamedInv, CreatedInv, Has
<1> QED
  BY <1>1, KeyedInvariant, PTL
=============================================================================
