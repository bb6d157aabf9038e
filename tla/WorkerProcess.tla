---------------------------- MODULE WorkerProcess ----------------------------
(***************************************************************************)
(* A worker process with its dispatch consumer: the other consumers differ *)
(* in what their handlers do (Notices, Sweeper, Retention), not in how     *)
(* they start and close.                                                   *)
(***************************************************************************)
EXTENDS NodeProcess

CONSTANTS MaxStalled,   \* BullMQ's maxStalledCount, 1 by default
          MaxRestarts   \* bound: how often workers are replaced

ASSUME WorkerAssumption == MaxStalled \in Nat /\ MaxRestarts \in Nat

VARIABLES consuming,    \* per worker, whether its consumer takes new jobs
          run,          \* per worker, the job its handler has and the next step
          stalls,       \* per request, how often its job was found stalled
          restarts      \* replacements so far

workerVars == <<consuming, run, stalls, restarts>>

Idle == [job |-> "none", pc |-> "idle"]
Holds(w, r) == run[w].job = r
At(w, pc) == run[w].pc = pc /\ Alive(w)
Step(w, pc) == run' = [run EXCEPT ![w].pc = pc]
Drop(w) == run' = [run EXCEPT ![w] = Idle]

-----------------------------------------------------------------------------
\* The processors' onModuleInit: new Worker(...) starts to consume at once.
onModuleInit(w) ==
    /\ phase[w] = "init" /\ ~consuming[w]
    /\ consuming' = [consuming EXCEPT ![w] = TRUE]
    /\ UNCHANGED <<processVars, sharedVars, run, stalls, restarts>>

\* createApplicationContext returns and the hooks are installed.
Ready(w) ==
    /\ phase[w] = "init" /\ consuming[w]
    /\ Enter(w, "up")
    /\ UNCHANGED <<open, sharedVars, workerVars>>

TakeJob(w, r) ==
    /\ Alive(w) /\ consuming[w] /\ run[w] = Idle
    /\ job[r] = "waiting"
    /\ job' = [job EXCEPT ![r] = "active"]
    /\ run' = [run EXCEPT ![w] = [job |-> r, pc |-> "claim"]]
    /\ UNCHANGED <<processVars, rows, faulty, consuming, stalls, restarts>>

updateStatus(r, from, to) ==
    rows' = IF rows[r] = from THEN [rows EXCEPT ![r] = to] ELSE rows

\* process: PENDING -> PROCESSING, or skip.
Claim(w) ==
    /\ At(w, "claim") /\ Has(w, "db")
    /\ LET r == run[w].job IN
       /\ updateStatus(r, "PENDING", "PROCESSING")
       /\ Step(w, IF rows[r] = "PENDING" THEN "post" ELSE "ack")
    /\ UNCHANGED <<processVars, job, faulty, consuming, stalls, restarts>>

\* httpRetry.post ends: within its attempts and timeouts, shutdown or not.
Post(w) ==
    /\ At(w, "post")
    /\ Step(w, "ack") \/ Step(w, "record")
    /\ UNCHANGED <<processVars, sharedVars, consuming, stalls, restarts>>

\* The catch block: PROCESSING -> FAILED.
RecordError(w) ==
    /\ At(w, "record") /\ Has(w, "db")
    /\ updateStatus(run[w].job, "PROCESSING", "FAILED")
    /\ Step(w, "ack")
    /\ UNCHANGED <<processVars, job, faulty, consuming, stalls, restarts>>

\* Either statement throws, done or not: with attempts = 1 the job has failed.
JobFails(w) ==
    /\ At(w, "claim") \/ At(w, "record")
    /\ LET r == run[w].job IN
       /\ Fault(r)
       /\ \/ At(w, "claim") /\ updateStatus(r, "PENDING", "PROCESSING")
          \/ At(w, "record") /\ updateStatus(r, "PROCESSING", "FAILED")
          \/ UNCHANGED rows
       /\ job' = [job EXCEPT ![r] = "failed"]
    /\ Drop(w)
    /\ UNCHANGED <<processVars, consuming, stalls, restarts>>

Acknowledge(w) ==
    /\ At(w, "ack")
    /\ job' = [job EXCEPT ![run[w].job] = "completed"]
    /\ Drop(w)
    /\ UNCHANGED <<processVars, rows, faulty, consuming, stalls, restarts>>

JobStalls_offByOne(r) ==
    /\ job[r] = "active"
    /\ \E w \in Workers : Alive(w) /\ consuming[w]
    /\ \A w \in Workers : Holds(w, r) => ~Alive(w)
    /\ stalls' = [stalls EXCEPT ![r] = @ + 1]
    /\ job' = [job EXCEPT ![r] = IF stalls'[r] < MaxStalled THEN "waiting" ELSE "failed"]
    /\ UNCHANGED <<processVars, rows, faulty, consuming, run, restarts>>

\* The stalled-job check, which every consumer makes: the worker that had the job
\* is gone.
JobStalls(r) ==
    /\ job[r] = "active"
    /\ \E w \in Workers : Alive(w) /\ consuming[w]
    /\ \A w \in Workers : Holds(w, r) => ~Alive(w)
    /\ stalls' = [stalls EXCEPT ![r] = @ + 1]
    /\ job' = [job EXCEPT ![r] = IF stalls[r] < MaxStalled THEN "waiting" ELSE "failed"]
    /\ UNCHANGED <<processVars, rows, faulty, consuming, run, restarts>>

\* onModuleDestroy calls worker.close(): no new job is taken.
CloseBegins(w) ==
    /\ phase[w] = "destroying" /\ consuming[w]
    /\ consuming' = [consuming EXCEPT ![w] = FALSE]
    /\ UNCHANGED <<processVars, sharedVars, run, stalls, restarts>>

Drained_notAwaited(w) == ~consuming[w]

\* await worker.close() has returned: the handler is through.
Drained(w) == ~consuming[w] /\ run[w] = Idle

\* A worker process has no server to close.
Dispose(w) ==
    /\ w \in Workers /\ phase[w] = "disposing"
    /\ Enter(w, "ending")
    /\ UNCHANGED <<open, sharedVars, workerVars>>

\* The orchestrator replaces a pod's process that is over by a new one, which
\* knows nothing of the old.
Restart(w) ==
    /\ ~Alive(w) /\ restarts < MaxRestarts
    /\ restarts' = restarts + 1
    /\ Enter(w, "config")
    /\ consuming' = [consuming EXCEPT ![w] = FALSE]
    /\ Drop(w)
    /\ UNCHANGED <<open, sharedVars, stalls>>

-----------------------------------------------------------------------------
WorkerInit ==
    /\ restarts = 0
    /\ consuming = [w \in Workers |-> FALSE]
    /\ run = [w \in Workers |-> Idle]
    /\ stalls = [r \in Requests |-> 0]

RunStep(w) == Claim(w) \/ Post(w) \/ RecordError(w) \/ JobFails(w) \/ Acknowledge(w)

WorkerNext ==
    \/ \E w \in Workers :
          \/ onModuleInit(w) \/ Ready(w) \/ CloseBegins(w) \/ Dispose(w) \/ RunStep(w) \/ Restart(w)
          \/ \E r \in Requests : TakeJob(w, r)
    \/ \E r \in Requests : JobStalls(r)

WorkerType ==
    /\ consuming \in [Workers -> BOOLEAN] /\ restarts \in 0..MaxRestarts
    /\ stalls \in [Requests -> 0..(MaxStalled + 1)]
    /\ run \in [Workers -> [job : Requests \cup {"none"},
                            pc : {"idle", "claim", "post", "record", "ack"}]]
=============================================================================
