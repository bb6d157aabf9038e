----------------------------- MODULE NodeProcess -----------------------------
(***************************************************************************)
(* The life of an API or a worker process: bootstrap, SIGTERM, the         *)
(* framework's shutdown hooks, exit.  What the processes share is the      *)
(* tasks table and the dispatch queue, here per POST /tasks request.       *)
(*                                                                         *)
(* The order of the hooks is the framework's: all onModuleDestroy, the     *)
(* global modules' last; then the HTTP server is closed; then all          *)
(* onApplicationShutdown; then the process signals itself again and exits. *)
(***************************************************************************)
EXTENDS Naturals, Sequences, FiniteSets

CONSTANTS Apis, Workers,    \* the processes of either kind, one per pod
          Requests,         \* the requests made to the API
          Mishaps           \* what may befall: a boot fails, a process is killed, a
                            \* statement meets an error on a connection that is open

VARIABLES phase,            \* per process, where its life stands
          open,             \* per process, the connections it can use
          rows,             \* per request, the status of the row it inserted
          job,              \* per request, the dispatch job it enqueued
          faulty            \* history: the requests a statement for which met an error

Processes == Apis \cup Workers
sharedVars == <<rows, job, faulty>>
processVars == <<phase, open>>

ASSUME ProcessAssumption ==
    Apis \cap Workers = {} /\ Mishaps \subseteq {"boot", "kill", "error"}

Booting == {"config", "connect", "probe", "init"}
Stopping == {"destroying", "disposing", "ending", "ended"}
Over == {"aborted", "killed", "exited"}
Phases == Booting \cup {"up"} \cup Stopping \cup Over

Alive(p) == phase[p] \notin Over
Enter(p, ph) == phase' = [phase EXCEPT ![p] = ph]
Has(p, resource) == resource \in open[p]

\* Postgres or Redis fails a statement made for r, or its answer is lost.
Fault(r) == "error" \in Mishaps /\ faulty' = faulty \cup {r}

-----------------------------------------------------------------------------
\* EnvSchema.parse accepts the environment, before anything is constructed.
LoadConfig(p) ==
    /\ phase[p] = "config"
    /\ Enter(p, "connect")
    /\ UNCHANGED <<open, sharedVars>>

\* What a process can use once constructed: RedisService's client connects, and
\* reconnects, by itself.
Clients == {"db", "redis"}

\* DrizzleProvider's factory: SELECT 1 on the new pool.
Connect(p) ==
    /\ phase[p] = "connect"
    /\ Enter(p, "probe")
    /\ open' = [open EXCEPT ![p] = Clients]
    /\ UNCHANGED sharedVars

\* BullMqAdapter.onModuleInit: a throw-away client pings Redis.
Probe(p) ==
    /\ phase[p] = "probe"
    /\ Enter(p, "init")
    /\ open' = [open EXCEPT ![p] = @ \cup {"queue"}]
    /\ UNCHANGED sharedVars

\* Any of the three throws, and the bootstrap with it.
BootFails(p) ==
    /\ "boot" \in Mishaps
    /\ phase[p] \in {"config", "connect", "probe"}
    /\ Enter(p, "aborted")
    /\ open' = [open EXCEPT ![p] = {}]
    /\ UNCHANGED sharedVars

\* enableShutdownHooks comes after the context is up in worker.ts, and before
\* listen, which probes Redis, in main.ts.
Unhooked(p) ==
    phase[p] \in {"config", "connect"} \cup (IF p \in Workers THEN {"probe", "init"} ELSE {})

\* SIGTERM starts the hooks or, before there is a handler, ends the process.  An
\* API process still starting up finishes that first.
Sigterm(p) ==
    /\ \/ Unhooked(p) /\ Enter(p, "killed") /\ open' = [open EXCEPT ![p] = {}]
       \/ phase[p] = "up" /\ Enter(p, "destroying") /\ UNCHANGED open
    /\ UNCHANGED sharedVars

\* SIGKILL after terminationGracePeriodSeconds, or the process dies by itself.
Kill(p) ==
    /\ "kill" \in Mishaps
    /\ phase[p] \in {"up"} \cup Stopping
    /\ Enter(p, "killed")
    /\ open' = [open EXCEPT ![p] = {}]
    /\ UNCHANGED sharedVars

\* onModuleDestroy of RedisService (quit) and of BullMqAdapter (close of its queues).
CloseConnection(p, resource) ==
    /\ phase[p] = "destroying" /\ Has(p, resource)
    /\ open' = [open EXCEPT ![p] = @ \ {resource}]
    /\ UNCHANGED <<phase, sharedVars>>

DestroyDone(p) ==
    /\ phase[p] = "destroying" /\ open[p] = {"db"}
    /\ Enter(p, "disposing")
    /\ UNCHANGED <<open, sharedVars>>

\* DrizzleService.onApplicationShutdown: sql.end({ timeout: 0 }).
onApplicationShutdown(p) ==
    /\ phase[p] = "ending"
    /\ Enter(p, "ended")
    /\ open' = [open EXCEPT ![p] = {}]
    /\ UNCHANGED sharedVars

\* The framework signals its own process again, now without a handler.
Exit(p) ==
    /\ phase[p] = "ended"
    /\ Enter(p, "exited")
    /\ UNCHANGED <<open, sharedVars>>

-----------------------------------------------------------------------------
ProcessInit ==
    /\ phase = [p \in Processes |-> "config"]
    /\ open = [p \in Processes |-> {}]
    /\ rows = [r \in Requests |-> "ABSENT"]
    /\ job = [r \in Requests |-> "none"]
    /\ faulty = {}

ProcessType ==
    /\ phase \in [Processes -> Phases]
    /\ open \in [Processes -> SUBSET {"db", "redis", "queue"}]
    /\ rows \in [Requests -> {"ABSENT", "PENDING", "PROCESSING", "FAILED"}]
    /\ job \in [Requests -> {"none", "waiting", "active", "completed", "failed"}]
    /\ faulty \subseteq Requests
=============================================================================
