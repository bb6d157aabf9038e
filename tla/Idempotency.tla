----------------------------- MODULE Idempotency -----------------------------
(***************************************************************************)
(* POST /tasks with an idempotency key: IdempotencyService around the      *)
(* steps of TaskCreation.  Slots and index entries of different keys never *)
(* meet, so every request here carries the same key; a request is named by *)
(* the task id its INSERT would get.  The requests are the replicas' and   *)
(* the client's retries, all interleaved.                                  *)
(***************************************************************************)
EXTENDS TaskCreation

VARIABLES slot,         \* Redis key idempotency:<key>
          phase,        \* per request, where TasksService.create stands around creator
          answer        \* per request, its reply: a task id stands for 202

slotVars == <<slot, phase, answer>>

NoSlot == "none"
PENDING_SENTINEL == "__PENDING__"
NoAnswer == "none"

ASSUME IdempotencyAssumption ==
    Tasks \cap {NoSlot, PENDING_SENTINEL, "409", "500"} = {}

Reply(t, a) == answer' = [answer EXCEPT ![t] = a] /\ phase' = [phase EXCEPT ![t] = "done"]

creation_frame == UNCHANGED <<tableVars, brokerVars, creator>>

-----------------------------------------------------------------------------
occupySlot_noSentinel(t) ==
    /\ phase[t] = "occupy"
    /\ IF slot = NoSlot
       THEN slot' = PENDING_SENTINEL /\ phase' = [phase EXCEPT ![t] = "create"]
            /\ UNCHANGED answer
       ELSE Reply(t, slot) /\ UNCHANGED slot
    /\ creation_frame

\* The Lua script, SET NX or GET, and what create makes of its three results.
occupySlot(t) ==
    /\ phase[t] = "occupy"
    /\ \/ /\ slot = NoSlot
          /\ slot' = PENDING_SENTINEL
          /\ phase' = [phase EXCEPT ![t] = "create"]
          /\ UNCHANGED answer
       \/ slot = PENDING_SENTINEL /\ Reply(t, "409") /\ UNCHANGED slot
       \/ slot \in Tasks /\ Reply(t, slot) /\ UNCHANGED slot
    /\ creation_frame

\* The script's reply is lost, whether or not it ran: the call throws, or the
\* client library sends the script again and finds its own sentinel.
OccupyThrows(t) ==
    /\ "redis" \in Faults
    /\ phase[t] = "occupy"
    /\ slot' \in {slot, IF slot = NoSlot THEN PENDING_SENTINEL ELSE slot}
    /\ \E a \in {"409", "500"} : Reply(t, a)
    /\ creation_frame

KeyTaken_notUnique == FALSE

\* tasks_idempotency_key_idx: some row has the key.
KeyTaken == \E u \in Tasks : tasks[u].status # "ABSENT"

\* The unique index rejects the INSERT.
InsertRefused(t) ==
    /\ creator[t] = "insert" /\ KeyTaken
    /\ creator' = [creator EXCEPT ![t] = "failed"]
    /\ UNCHANGED <<tableVars, brokerVars>>

\* INSERT, enqueue and the rollback of a request that holds, or held, the slot.
\* A database error leaves the request alive, so CreatorDies stands here for the
\* INSERT that committed and threw and the DELETE that failed.
Create(t) ==
    /\ phase[t] = "create"
    /\ \/ ~KeyTaken /\ Insert(t)
       \/ InsertRefused(t) \/ InsertThrows(t)
       \/ Enqueue(t) \/ EnqueueThrows(t) \/ Rollback(t)
       \/ "db" \in Faults /\ CreatorDies(t)
    /\ UNCHANGED slotVars

commitResult_beforeEnqueue(t) ==
    /\ phase[t] = "create" /\ creator[t] \in {"enqueue", "created"}
    /\ slot' = t
    /\ UNCHANGED <<phase, answer>>
    /\ creation_frame

\* SET KEEPTTL, whatever the key holds by now, and the 202.
commitResult(t) ==
    /\ phase[t] = "create" /\ creator[t] = "created"
    /\ slot' = t
    /\ Reply(t, t)
    /\ creation_frame

\* The commit fails; the error is logged and the client still gets its 202.
CommitThrows(t) ==
    /\ "redis" \in Faults
    /\ phase[t] = "create" /\ creator[t] = "created"
    /\ Reply(t, t)
    /\ UNCHANGED slot
    /\ creation_frame

\* DEL, whatever the key holds by now, and the error of the failed creation.
releaseSlot(t) ==
    /\ phase[t] = "create" /\ creator[t] = "failed"
    /\ slot' = NoSlot
    /\ Reply(t, "500")
    /\ creation_frame

\* The DEL fails, which is logged.
ReleaseThrows(t) ==
    /\ "redis" \in Faults
    /\ phase[t] = "create" /\ creator[t] = "failed"
    /\ Reply(t, "500")
    /\ UNCHANGED slot
    /\ creation_frame

\* The API process dies: the client gets no reply and nobody resumes.
RequestDies(t) ==
    /\ "crash" \in Faults
    /\ phase[t] = "create"
    /\ phase' = [phase EXCEPT ![t] = "done"]
    /\ UNCHANGED <<slot, answer>>
    /\ creation_frame

\* IDEMPOTENCY_TTL_SECONDS have passed.  Nothing relates the TTL to how long a
\* request hangs between two statements, so the slot may expire at any moment.
Expire ==
    /\ slot # NoSlot
    /\ slot' = NoSlot
    /\ UNCHANGED <<phase, answer>>
    /\ creation_frame

-----------------------------------------------------------------------------
IdempotencyVars == <<tableVars, brokerVars, creator, slotVars>>

IdempotencyInit ==
    /\ TableInit /\ BrokerInit /\ CreationInit
    /\ slot = NoSlot
    /\ phase = [t \in Tasks |-> "occupy"]
    /\ answer = [t \in Tasks |-> NoAnswer]

IdempotencyNext ==
    \/ \E t \in Tasks :
          \/ occupySlot(t) \/ OccupyThrows(t) \/ Create(t)
          \/ commitResult(t) \/ CommitThrows(t)
          \/ releaseSlot(t) \/ ReleaseThrows(t) \/ RequestDies(t)
    \/ Expire

IdempotencySpec == IdempotencyInit /\ [][IdempotencyNext]_IdempotencyVars

-----------------------------------------------------------------------------
(* Every variable of keyed creation has its type: in particular a reply is  *)
(* a task id or a status, never the sentinel occupySlot found in the slot.  *)
IdempotencyType ==
    /\ TableType /\ BrokerType /\ CreationType
    /\ slot \in Tasks \cup {NoSlot, PENDING_SENTINEL}
    /\ phase \in [Tasks -> {"occupy", "create", "done"}]
    /\ answer \in [Tasks -> Tasks \cup {NoAnswer, "409", "500"}]

(* However the requests of one key interleave, fail and outlive their slot, *)
(* all that are answered 202 are given the same task.                       *)
OneTaskPerKey ==
    \A t, u \in Tasks : answer[t] \in Tasks /\ answer[u] \in Tasks => answer[t] = answer[u]

(* A task a 202 names exists and has been enqueued, also when the id comes  *)
(* from a slot another request filled: none is named that is rolled back.   *)
AnsweredTaskRuns ==
    \A t \in Tasks : answer[t] \in Tasks =>
        tasks[answer[t]].status # "ABSENT" /\ job[answer[t]] # "none"
=============================================================================
