------------------------------ MODULE Deployment ------------------------------
(***************************************************************************)
(* API and worker processes that start, are told to stop and are replaced, *)
(* as in a rolling deployment, over the table and the queue they share.    *)
(***************************************************************************)
EXTENDS ApiProcess, WorkerProcess

deploymentVars == <<processVars, sharedVars, apiVars, workerVars>>

DeploymentInit == ProcessInit /\ ApiInit /\ WorkerInit

\* The destroy hooks of the global modules run after those of the processors.
HooksOf(p) ==
    /\ p \in Workers => Drained(p)
    /\ \/ \E resource \in {"redis", "queue"} : CloseConnection(p, resource)
       \/ DestroyDone(p)

\* What a process does by itself once it is started, or told to stop.
LifeStep(p) ==
    \/ LoadConfig(p) \/ Connect(p) \/ Probe(p)
    \/ HooksOf(p) \/ onApplicationShutdown(p) \/ Exit(p)

DeploymentNext ==
    \/ \E p \in Processes :
          (LifeStep(p) \/ BootFails(p) \/ Sigterm(p) \/ Kill(p)) /\ UNCHANGED <<apiVars, workerVars>>
    \/ ApiNext /\ UNCHANGED workerVars
    \/ WorkerNext /\ UNCHANGED apiVars

DeploymentSpec == DeploymentInit /\ [][DeploymentNext]_deploymentVars

(* Fairness: a process goes on booting and, once told, stopping; a handler  *)
(* reaches its next statement; a consumer takes jobs and the stalled-job    *)
(* check runs.  Nobody need send a request, a client need not leave, and a  *)
(* stream need not end.                                                     *)
DeploymentFairness ==
    /\ \A p \in Processes :
          WF_deploymentVars(LifeStep(p) /\ UNCHANGED <<apiVars, workerVars>>)
    /\ \A a \in Apis :
          WF_deploymentVars((Listen(a) \/ CloseServer(a)) /\ UNCHANGED workerVars)
    /\ \A r \in Requests :
          /\ WF_deploymentVars(HandlerStep(r) /\ UNCHANGED workerVars)
          /\ WF_deploymentVars(JobStalls(r) /\ UNCHANGED apiVars)
          /\ \A w \in Workers : WF_deploymentVars(TakeJob(w, r) /\ UNCHANGED apiVars)
    /\ \A w \in Workers :
          WF_deploymentVars((onModuleInit(w) \/ Ready(w) \/ CloseBegins(w) \/ Dispose(w)
                             \/ RunStep(w)) /\ UNCHANGED apiVars)

FairDeploymentSpec == DeploymentSpec /\ DeploymentFairness

-----------------------------------------------------------------------------
(* Every variable of the deployment has its type.                           *)
DeploymentType == ProcessType /\ ApiType /\ WorkerType

Graceful(p) == phase[p] \in {"ended", "exited"}

(* A worker closes its pool and exits only with empty hands: told to stop,  *)
(* it finishes the job it took, on connections that are still open, and     *)
(* leaves none that the others would have to find stalled.                  *)
WorkerDrains ==
    \A w \in Workers :
        phase[w] \in Stopping \cup {"exited"} /\ open[w] # {"db", "redis", "queue"}
            => run[w] = Idle /\ ~consuming[w]

(* However the connections of a stopping API process are closed under its   *)
(* handlers, a row without a job stays behind only if the process was       *)
(* killed, a statement met an error or the client did not wait for the      *)
(* answer: as long as it waits, the pool outlives the rollback.             *)
NoOrphanRow ==
    \A r \in Requests :
        /\ req[r].at \in Apis /\ Graceful(req[r].at) /\ req[r].conn # "gone"
        /\ r \notin faulty
        => (rows[r] = "ABSENT" <=> job[r] = "none")

(* A client that was told 202 has a row and a job, and one that was told    *)
(* anything else has neither, though row and job are made in two steps and  *)
(* the queue may be closed between them.  Only a 500 after an INSERT, an    *)
(* enqueue or a rollback that met an error may leave a row or a job behind. *)
AnswerIsTrue ==
    \A r \in Requests :
        /\ req[r].reply = "202" => rows[r] # "ABSENT" /\ job[r] # "none"
        /\ req[r].reply \notin {"none", "202"} =>
              \/ rows[r] = "ABSENT" /\ job[r] = "none"
              \/ req[r].reply = "500" /\ kindOf(r) = "create" /\ r \in faulty

(* A request that is over has one log line, which says aborted only if the  *)
(* client left before the answer was given.  One cut off while its answer   *)
(* is being sent has none, nor has one whose body the parser refuses before *)
(* HttpLoggerMiddleware sees it.                                            *)
LoggedAsItEnded ==
    \A r \in Requests :
        /\ Len(req[r].log) <= 1
        /\ req[r].conn = "closed" /\ ~Unparsed(r) => req[r].log = <<"finish">>
        /\ req[r].log = <<"aborted">> => req[r].conn = "gone" /\ req[r].reply = "none"

(* A process that is told to stop exits, unless it is killed first or, an   *)
(* API process, a stream stays open on it, which nothing closes.            *)
SigtermExits ==
    \A p \in Processes :
        phase[p] = "destroying" ~>
            \/ phase[p] \in Over
            \/ \E r \in Requests : req[r].at = p /\ req[r].pc = "stream"

(* A task whose client was told 202 is taken up by a worker, whichever of   *)
(* them stop, are killed or start in the meantime, unless all are gone, its *)
(* job stalls more often than BullMQ allows or the claim meets an error.    *)
AcceptedIsDispatched ==
    \A r \in Requests :
        req[r].reply = "202" ~>
            \/ rows[r] # "PENDING" \/ stalls[r] > MaxStalled \/ r \in faulty
            \/ \A w \in Workers : ~Alive(w)
=============================================================================
