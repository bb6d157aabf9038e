-------------------------------- MODULE Broker --------------------------------
(***************************************************************************)
(* What the proxy keeps in Redis: the BullMQ queues dispatch, webhook and  *)
(* cancel behind BullMqAdapter, and the per-task Pub/Sub channels.         *)
(*                                                                         *)
(* BullMQ is external code, modelled from how the adapter and the workers  *)
(* use it: delivery is at least once.  A worker holds a lock on the job it *)
(* runs; when the lock is lost, because the worker died or its event loop  *)
(* hung, the stalled-job check hands the job to another worker, up to      *)
(* MaxStalled times, after which it fails the job.  A handler that throws  *)
(* fails its job, which is run again while it has attempts left.           *)
(***************************************************************************)
EXTENDS TaskTable

CONSTANTS MaxStalled,   \* BullMQ's maxStalledCount (1 by default)
          Attempts,     \* attempts of a webhook or cancel job (3 in the adapter)
          MaxCrashes    \* bound: worker deaths in a behaviour

ASSUME BrokerAssumption ==
    /\ MaxStalled \in Nat
    /\ Attempts \in Nat \ {0}
    /\ MaxCrashes \in Nat

VARIABLES job,          \* queue dispatch: the state of each task's one job
          deliveries,   \* how often that job has been handed to a worker
          notice,       \* queues webhook and cancel: the job enqueued by each call
          published,    \* Pub/Sub: the <<task, seq>> published on channel task:<id>
          crashes       \* worker deaths so far

brokerVars == <<job, deliveries, notice, published, crashes>>

Deliveries == 1..(MaxStalled + 1)

JobStates == {"none", "waiting", "active", "completed", "failed"}

\* The columns WebhookProcessor puts in the body it POSTs.
Body(row) == [status |-> row.status, result |-> row.result, error |-> row.error]

Bodies == [status : TASK_STATUSES \cup {"ABSENT"},
           result : Calls \cup {"null"},
           error  : Calls \cup ErrorCodes \cup {"null"}]

\* A webhook or cancel job: the handler runs that threw, the times it was found
\* stalled, and the bodies its runs have begun to POST, which may arrive late.
Notice == [state  : JobStates,
           tries  : 0..Attempts,
           stalls : 0..MaxStalled,
           bodies : SUBSET Bodies]

NoNotice == [state |-> "none", tries |-> 0, stalls |-> 0, bodies |-> {}]

-----------------------------------------------------------------------------
(* BullMqAdapter.enqueue, per queue *)

enqueueDispatch(t) == job' = [job EXCEPT ![t] = "waiting"]

enqueueNotice(c) == notice' = [notice EXCEPT ![c].state = "waiting"]

publish_zeroBased(t, seqs) == published' = published \cup {<<t, s - 1>> : s \in seqs}

\* redis.client.publish on channel task:<t>.
publish(t, seqs) == published' = published \cup {<<t, s>> : s \in seqs}

(* The queue's side of a dispatch job *)

\* A worker takes the job: its next delivery starts.
take(t) ==
    /\ job[t] = "waiting"
    /\ job' = [job EXCEPT ![t] = "active"]
    /\ deliveries' = [deliveries EXCEPT ![t] = @ + 1]

\* The handler of delivery d returned or threw.  BullMQ records it only if the
\* delivery still holds the job's lock.
settle(t, d, outcome) ==
    job' = IF job[t] = "active" /\ deliveries[t] = d
           THEN [job EXCEPT ![t] = outcome] ELSE job

requeueStalled_offByOne(t) ==
    job' = [job EXCEPT ![t] = IF deliveries[t] < MaxStalled THEN "waiting" ELSE "failed"]

\* The stalled-job check finds an active job whose lock has expired.
requeueStalled(t) ==
    job' = [job EXCEPT ![t] = IF deliveries[t] <= MaxStalled
                              THEN "waiting" ELSE "failed"]

(* The queue's side of a webhook or cancel job *)

retryNotice_offByOne(c) ==
    notice' = [notice EXCEPT ![c].tries = @ + 1,
                             ![c].state = IF notice[c].tries < Attempts
                                          THEN "waiting" ELSE "failed"]

\* The handler of call c's job threw: it runs again while attempts are left.
retryNotice(c) ==
    notice' = [notice EXCEPT ![c].tries = @ + 1,
                             ![c].state = IF notice[c].tries + 1 < Attempts
                                          THEN "waiting" ELSE "failed"]

\* The worker running call c's job lost the job's lock.
requeueNotice(c) ==
    notice' = IF notice[c].stalls < MaxStalled
              THEN [notice EXCEPT ![c].stalls = @ + 1, ![c].state = "waiting"]
              ELSE [notice EXCEPT ![c].state = "failed"]

-----------------------------------------------------------------------------
BrokerInit ==
    /\ job = [t \in Tasks |-> "none"]
    /\ deliveries = [t \in Tasks |-> 0]
    /\ notice = [c \in Calls |-> NoNotice]
    /\ published = {}
    /\ crashes = 0

BrokerType ==
    /\ job \in [Tasks -> JobStates]
    /\ deliveries \in [Tasks -> 0..(MaxStalled + 1)]
    /\ notice \in [Calls -> Notice]
    /\ published \subseteq Tasks \X Nat
    /\ crashes \in 0..MaxCrashes
=============================================================================
