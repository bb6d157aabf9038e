--------------------------- MODULE DeploymentProofs ---------------------------
(***************************************************************************)
(* Processes that start, stop and are killed under their requests and      *)
(* jobs, for any number of them.  What is proved of a reply or a row rests *)
(* on what a phase says of the connections: while a client waits for its   *)
(* answer the server is not closed, and until it is the pool stays open.   *)
(***************************************************************************)
EXTENDS Deployment, SequenceTheorems, TLAPS

All == {"db", "redis", "queue"}

ReqStates ==
    [pc    : {"new", "run", "rollback", "stream", "ended"},
     at    : Apis \cup {"nowhere"},
     todo  : Seq(All),
     reply : Replies,
     conn  : {"none", "open", "closed", "gone"},
     log   : Seq({"finish", "aborted"})]

\* DeploymentType with all fields of a request.
DType == ProcessType /\ WorkerType
         /\ ask \in [Requests -> [kind : RequestKinds, flaw : Flaws]]
         /\ req \in [Requests -> ReqStates]

\* The connections a process has in each phase.
Fits(ph, conns) ==
    /\ ph = "probe" => conns = Clients
    /\ ph \in {"init", "up"} => conns = All
    /\ ph = "destroying" => "db" \in conns
    /\ ph \in {"disposing", "ending"} => conns = {"db"}
    /\ ph \in {"config", "connect", "ended"} \cup Over => conns = {}

OpenInv == \A p \in Processes : Fits(phase[p], open[p])

\* A worker without all its connections, starting or stopping, has no job.
WorkInv ==
    /\ WorkerDrains
    /\ \A w \in Workers :
          phase[w] \in {"config", "connect", "probe"} => run[w] = Idle /\ ~consuming[w]

\* The job a worker runs has been enqueued.
HoldInv ==
    \A w \in Workers :
        run[w].pc # "idle" => run[w].job \in Requests /\ job[run[w].job] # "none"

\* A job that may still be taken, or found stalled, has not stalled too often, and
\* one that was never enqueued has not stalled at all.
StallInv ==
    \A r \in Requests :
        /\ job[r] = "none" => stalls[r] = 0
        /\ job[r] \in {"waiting", "active"} => stalls[r] <= MaxStalled

\* The phases of a process that has taken requests; the last three come after its
\* server is closed.
Served == {"up", "destroying", "disposing", "killed", "ending", "ended", "exited"}
Closed == {"ending", "ended", "exited"}

\* Where a request's connection, its handler and its process stand together.
Connected(r) ==
    /\ req[r].pc = "new" <=> req[r].conn = "none"
    /\ req[r].pc # "new" => req[r].at \in Apis /\ phase[req[r].at] \in Served
    /\ req[r].conn = "open" => phase[req[r].at] \notin Closed
    /\ req[r].pc # "ended" => req[r].reply = "none" /\ req[r].conn # "closed"
    /\ req[r].pc = "ended" /\ req[r].conn # "gone" => req[r].reply # "none"

\* Its log line, once it has one.
Lined(r) ==
    /\ req[r].conn \in {"none", "open"} => req[r].log = <<>>
    /\ req[r].conn = "closed" => req[r].log = IF Unparsed(r) THEN <<>> ELSE <<"finish">>
    /\ req[r].conn = "gone" =>
          req[r].log = <<>> \/ (req[r].log = <<"aborted">> /\ req[r].reply = "none")

\* All that may be wrong with a creation is found before its first statement.
Asked(r) ==
    kindOf(r) = "create" =>
        ask[r].flaw \in {"none", "syntax", "size", "key", "body", "extra", "host"}

\* What a handler has left to do; a statement that meets an error ends its run.
Handled(r) ==
    /\ req[r].pc \in {"run", "rollback"} /\ kindOf(r) = "create" => ask[r].flaw = "none"
    /\ req[r].pc \in {"new", "run"} => r \notin faulty
    /\ req[r].pc = "rollback" => kindOf(r) = "create"
    /\ req[r].pc = "stream" => kindOf(r) # "create"
    /\ req[r].pc = "run" /\ kindOf(r) = "create" =>
          req[r].todo = <<"db", "queue">> \/ req[r].todo = <<"queue">>

\* What was written for it: nothing, a row that waits for its job, or both.
Clean(r) == rows[r] = "ABSENT" /\ job[r] = "none"
Half(r) == rows[r] = "PENDING" /\ job[r] = "none"
Whole(r) == rows[r] # "ABSENT" /\ job[r] # "none"

\* Told that it failed, by a process that met an error.
Failed(r, reply) == reply = "500" /\ kindOf(r) = "create" /\ r \in faulty

\* A creation's row and job, by where its handler stands and by what it answered.
Made(r) ==
    /\ kindOf(r) # "create" => Clean(r) /\ req[r].reply # "202"
    /\ req[r].pc = "new" => Clean(r)
    /\ req[r].pc = "run" /\ kindOf(r) = "create" =>
          IF req[r].todo = <<"queue">> THEN Half(r) ELSE Clean(r)
    /\ req[r].pc = "rollback" /\ r \notin faulty => Half(r)
    /\ req[r].reply = "202" => Whole(r)
    /\ req[r].reply \notin {"none", "202"} => Clean(r) \/ Failed(r, req[r].reply)

RequestInv(r) == Connected(r) /\ Lined(r) /\ Asked(r) /\ Handled(r) /\ Made(r)

DInv == /\ DType /\ OpenInv /\ WorkInv /\ HoldInv /\ StallInv
        /\ \A r \in Requests : RequestInv(r)

-----------------------------------------------------------------------------
(* The request handlers' data *)

(* A handler runs at least one statement, each on a connection.             *)
LEMMA StatementsAre ==
    ASSUME NEW q \in [kind : RequestKinds, flaw : Flaws]
    PROVE  /\ Statements(q) \in Seq(All)
           /\ q.kind = "create" /\ q.flaw = "none" => Statements(q) = <<"db", "queue">>
<1>1. /\ <<"db">> \in Seq(All) /\ <<"db", "db">> \in Seq(All) /\ <<"db", "queue">> \in Seq(All)
      /\ <<"db", "redis">> \in Seq(All) /\ <<"db", "redis", "queue">> \in Seq(All)
      /\ <<"db", "db", "db", "redis">> \in Seq(All)
      /\ <<"db", "db", "db", "redis", "queue">> \in Seq(All)
  BY DEF All
<1> QED
  BY <1>1 DEF Statements, RequestKinds

(* Every error is answered, and as an error.                                *)
LEMMA ErrorReplies ==
    /\ \A e : resolveException(e) \in Replies \ {"none", "200", "202", "204"}
    /\ resolveException("ServiceUnavailableException") = "503"
    /\ resolveException("Error") = "500"
BY DEF resolveException, Replies

(* Only a creation is answered 202.                                         *)
LEMMA Successes ==
    ASSUME NEW k \in RequestKinds
    PROVE  /\ Success(k) \in Replies \ {"none"}
           /\ Success(k) = "202" <=> k = "create"
BY DEF Success, Replies, RequestKinds

(* A creation's flaws are those its checks find before the first statement. *)
LEMMA CreateChecks ==
    /\ ToSet(Checks("create")) = {"syntax", "size", "key", "body", "extra", "host"}
    /\ Checks("create") \o LateChecks("create") = Checks("create")
<1> DEFINE s == <<"syntax", "size", "key", "body", "extra", "host">>
<1>1. ToSet(s) = {"syntax", "size", "key", "body", "extra", "host"}
  BY DEF ToSet
<1>2. s \in Seq(Flaws)
  BY DEF Flaws
<1>3. s \o <<>> = s
  BY <1>2, ConcatEmptySeq
<1>4. Checks("create") = s /\ LateChecks("create") = <<>>
  BY DEF Checks, LateChecks
<1> HIDE DEF s
<1> QED
  BY <1>1, <1>3, <1>4

-----------------------------------------------------------------------------
(* Steps that leave a request where it stands *)

\* The process of r goes on serving it, or is on its way out without r.
Outlived(r) ==
    req[r].pc # "new" =>
        /\ phase'[req[r].at] \in Served
        /\ open'[req[r].at] \subseteq open[req[r].at]
        /\ req[r].conn = "open" => phase'[req[r].at] \notin Closed

\* Workers touch a row only after its job was enqueued and never delete it.
Respected(r) ==
    /\ Clean(r) => Clean(r)'
    /\ Half(r) => Half(r)'
    /\ Whole(r) => Whole(r)'
    /\ r \in faulty => r \in faulty'
    /\ job[r] = "none" /\ r \notin faulty => r \notin faulty'

(* A request keeps its part of the invariant under the steps of others.     *)
LEMMA Untouched ==
    ASSUME DType, OpenInv, NEW r \in Requests, RequestInv(r),
           req'[r] = req[r], ask' = ask, Outlived(r), Respected(r)
    PROVE  RequestInv(r)'
<1>1. Connected(r)'
  BY DEF RequestInv, Connected, Outlived
<1>2. Lined(r)' /\ Asked(r)'
  BY DEF RequestInv, Lined, Asked, kindOf, Unparsed
<1>3. Handled(r)'
  <2>1. req[r].pc \in {"new", "run"} => job[r] = "none"
    BY DEF RequestInv, Made, Clean, Half
  <2> QED
    BY <2>1 DEF RequestInv, Handled, Respected, kindOf
<1>4. Made(r)'
  BY DEF RequestInv, Made, Failed, Respected, kindOf
<1> QED
  BY <1>1, <1>2, <1>3, <1>4 DEF RequestInv

(* A process enters phase ph with connections c: what its worker or its     *)
(* requests need of that.                                                   *)
LEMMA Moved ==
    ASSUME DInv, NEW p \in Processes, NEW ph \in Phases, NEW c \in SUBSET All,
           phase' = [phase EXCEPT ![p] = ph], open' = [open EXCEPT ![p] = c],
           Fits(ph, c), UNCHANGED <<sharedVars, apiVars>>,
           WorkerType', HoldInv', UNCHANGED stalls,
           \A w \in Workers \ {p} : run'[w] = run[w] /\ consuming'[w] = consuming[w],
           p \in Workers =>
              \/ run'[p] = Idle /\ ~consuming'[p]
              \/ ph \notin {"config", "connect", "probe"}
                 /\ (ph \in Stopping \cup {"exited"} => c = All),
           p \in Apis /\ phase[p] \in Served =>
              /\ ph \in Served /\ c \subseteq open[p]
              /\ ph \in Closed => phase[p] \in Closed \/ Serves(p) = {}
    PROVE  DInv'
<1>0. phase \in [Processes -> Phases] /\ open \in [Processes -> SUBSET All]
  BY DEF DInv, DType, ProcessType, All
<1>1. ProcessType'
  BY <1>0 DEF DInv, DType, ProcessType, sharedVars, All
<1>2. DType'
  BY <1>1 DEF DInv, DType, apiVars
<1>3. OpenInv'
  BY <1>0 DEF DInv, OpenInv
<1>s. StallInv'
  BY DEF DInv, StallInv, sharedVars
<1>4. WorkInv'
  <2> SUFFICES ASSUME NEW w \in Workers
               PROVE  /\ phase'[w] \in Stopping \cup {"exited"} /\ open'[w] # All
                            => run'[w] = Idle /\ ~consuming'[w]
                      /\ phase'[w] \in {"config", "connect", "probe"}
                            => run'[w] = Idle /\ ~consuming'[w]
    BY DEF WorkInv, WorkerDrains, All, Idle
  <2>1. CASE w = p
    BY <1>0, <2>1
  <2>2. CASE w # p
    <3>1. phase'[w] = phase[w] /\ open'[w] = open[w]
      BY <1>0, <2>2 DEF Processes
    <3> QED
      BY <2>2, <3>1 DEF DInv, WorkInv, WorkerDrains, All
  <2> QED
    BY <2>1, <2>2
<1>5. ASSUME NEW r \in Requests PROVE RequestInv(r)'
  <2>1. RequestInv(r) /\ DType /\ OpenInv
    BY DEF DInv
  <2>2. req'[r] = req[r] /\ ask' = ask /\ Respected(r)
    BY DEF apiVars, sharedVars, Respected, Clean, Half, Whole
  <2>3. Outlived(r)
    <3> SUFFICES ASSUME req[r].pc # "new" PROVE
            /\ phase'[req[r].at] \in Served
            /\ open'[req[r].at] \subseteq open[req[r].at]
            /\ req[r].conn = "open" => phase'[req[r].at] \notin Closed
      BY DEF Outlived
    <3>1. /\ req[r].at \in Apis /\ req[r].at \in Processes /\ phase[req[r].at] \in Served
          /\ req[r].conn = "open" => phase[req[r].at] \notin Closed
      BY <2>1 DEF RequestInv, Connected, Processes
    <3>2. CASE req[r].at = p
      <4>1. req[r].conn = "open" => Serves(p) # {}
        BY <3>2 DEF Serves
      <4> QED
        BY <1>0, <3>1, <3>2, <4>1
    <3>3. CASE req[r].at # p
      BY <1>0, <3>1, <3>3
    <3> QED
      BY <3>2, <3>3
  <2> QED
    BY <2>1, <2>2, <2>3, Untouched
<1> QED
  BY <1>2, <1>3, <1>s, <1>4, <1>5 DEF DInv

(* Bootstrap, signals and hooks keep the invariant.                         *)
LEMMA LifeKeeps ==
    ASSUME DInv, NEW p \in Processes,
           LifeStep(p) \/ BootFails(p) \/ Sigterm(p) \/ Kill(p),
           UNCHANGED <<apiVars, workerVars>>
    PROVE  DInv'
<1> USE DEF Enter, Over, Stopping, Clients, Fits, Served, Closed
<1>0. /\ phase \in [Processes -> Phases] /\ open \in [Processes -> SUBSET All]
      /\ Fits(phase[p], open[p])
  BY DEF DInv, DType, ProcessType, OpenInv, All
<1>1. UNCHANGED sharedVars
  BY DEF LifeStep, LoadConfig, Connect, Probe, HooksOf, CloseConnection, DestroyDone,
         onApplicationShutdown, Exit, BootFails, Sigterm, Kill
<1>2. /\ WorkerType' /\ HoldInv' /\ UNCHANGED stalls
      /\ \A w \in Workers : run'[w] = run[w] /\ consuming'[w] = consuming[w]
  BY <1>1 DEF DInv, DType, WorkerType, HoldInv, workerVars, sharedVars
<1>3. p \in Workers /\ phase[p] \in {"config", "connect", "probe"} =>
          run'[p] = Idle /\ ~consuming'[p]
  BY <1>2 DEF DInv, WorkInv
<1>4. p \in Workers /\ phase[p] \in Stopping /\ open[p] # All => run'[p] = Idle /\ ~consuming'[p]
  BY <1>2 DEF DInv, WorkInv, WorkerDrains, All
<1>m. ASSUME NEW ph \in Phases, NEW c \in SUBSET All,
             phase' = [phase EXCEPT ![p] = ph], open' = [open EXCEPT ![p] = c], Fits(ph, c),
             p \in Workers =>
                \/ run'[p] = Idle /\ ~consuming'[p]
                \/ ph \notin {"config", "connect", "probe"}
                   /\ (ph \in Stopping \cup {"exited"} => c = All),
             phase[p] \in Served =>
                ph \in Served /\ c \subseteq open[p] /\ (ph \in Closed => phase[p] \in Closed)
      PROVE  DInv'
  BY <1>1, <1>2, <1>m, Moved
<1>e. ASSUME NEW ph \in {"connect", "aborted", "killed", "ended", "exited"},
             phase' = [phase EXCEPT ![p] = ph], open' = [open EXCEPT ![p] = {}],
             p \in Workers => ph \in {"aborted", "killed"} \/ (run'[p] = Idle /\ ~consuming'[p]),
             phase[p] \in Served => ph \in Served /\ (ph \in Closed => phase[p] \in Closed)
      PROVE  DInv'
  <2>1. {} \in SUBSET All /\ {} \subseteq open[p] /\ ph \in Phases /\ Fits(ph, {})
    BY DEF Phases, Booting
  <2> QED
    BY <1>e, <1>m, <2>1
<1>5. CASE LoadConfig(p)
  <2>1. phase[p] = "config" /\ phase' = [phase EXCEPT ![p] = "connect"]
        /\ open' = [open EXCEPT ![p] = {}]
    BY <1>0, <1>5 DEF LoadConfig
  <2> QED
    BY <1>3, <1>e, <2>1
<1>6. CASE Connect(p)
  <2>1. phase[p] = "connect" /\ phase' = [phase EXCEPT ![p] = "probe"]
        /\ open' = [open EXCEPT ![p] = Clients]
    BY <1>6 DEF Connect
  <2> QED
    BY <1>3, <1>m, <2>1 DEF Phases, Booting, All
<1>7. CASE Probe(p)
  <2>1. phase[p] = "probe" /\ phase' = [phase EXCEPT ![p] = "init"]
        /\ open' = [open EXCEPT ![p] = All]
    BY <1>0, <1>7 DEF Probe, All
  <2> QED
    BY <1>3, <1>m, <2>1 DEF Phases, Booting, All
<1>8. CASE HooksOf(p)
  <2>1. p \in Workers => run'[p] = Idle /\ ~consuming'[p]
    BY <1>2, <1>8 DEF HooksOf, Drained
  <2>2. ASSUME NEW resource \in {"redis", "queue"}, CloseConnection(p, resource) PROVE DInv'
    <3>1. /\ phase[p] = "destroying" /\ phase' = [phase EXCEPT ![p] = "destroying"]
          /\ open' = [open EXCEPT ![p] = open[p] \ {resource}] /\ "db" \in open[p]
      BY <1>0, <2>2 DEF CloseConnection
    <3>2. open[p] \ {resource} \in SUBSET All /\ "db" \in open[p] \ {resource}
      BY <1>0, <3>1 DEF All
    <3> QED
      BY <1>m, <2>1, <3>1, <3>2 DEF Phases
  <2>3. ASSUME DestroyDone(p) PROVE DInv'
    <3>1. /\ phase[p] = "destroying" /\ phase' = [phase EXCEPT ![p] = "disposing"]
          /\ open' = [open EXCEPT ![p] = {"db"}] /\ open[p] = {"db"}
      BY <1>0, <2>3 DEF DestroyDone
    <3> QED
      BY <1>m, <2>1, <3>1 DEF Phases, All
  <2> QED
    BY <1>8, <2>2, <2>3 DEF HooksOf
<1>9. CASE onApplicationShutdown(p)
  <2>1. /\ phase[p] = "ending" /\ phase' = [phase EXCEPT ![p] = "ended"]
        /\ open' = [open EXCEPT ![p] = {}] /\ open[p] # All
    BY <1>0, <1>9 DEF onApplicationShutdown, All
  <2> QED
    BY <1>4, <1>e, <2>1
<1>10. CASE Exit(p)
  <2>1. /\ phase[p] = "ended" /\ phase' = [phase EXCEPT ![p] = "exited"]
        /\ open' = [open EXCEPT ![p] = {}] /\ open[p] # All
    BY <1>0, <1>10 DEF Exit, All
  <2> QED
    BY <1>4, <1>e, <2>1
<1>11. CASE BootFails(p)
  <2>1. /\ phase[p] \in {"config", "connect", "probe"} /\ phase' = [phase EXCEPT ![p] = "aborted"]
        /\ open' = [open EXCEPT ![p] = {}]
    BY <1>11 DEF BootFails
  <2> QED
    BY <1>e, <2>1
<1>12. CASE Sigterm(p)
  <2>1. CASE Unhooked(p) /\ Enter(p, "killed") /\ open' = [open EXCEPT ![p] = {}]
    <3>1. phase[p] \in {"config", "connect", "probe", "init"}
      BY <2>1 DEF Unhooked
    <3> QED
      BY <1>e, <2>1, <3>1
  <2>2. CASE phase[p] = "up" /\ Enter(p, "destroying") /\ UNCHANGED open
    <3>1. open' = [open EXCEPT ![p] = All] /\ open[p] = All
      BY <1>0, <2>2
    <3> QED
      BY <1>m, <2>2, <3>1 DEF Phases, All
  <2> QED
    BY <1>12, <2>1, <2>2 DEF Sigterm
<1>13. CASE Kill(p)
  <2>1. /\ phase[p] \in {"up"} \cup Stopping /\ phase' = [phase EXCEPT ![p] = "killed"]
        /\ open' = [open EXCEPT ![p] = {}]
    BY <1>13 DEF Kill
  <2> QED
    BY <1>e, <2>1
<1> QED
  BY <1>5, <1>6, <1>7, <1>8, <1>9, <1>10, <1>11, <1>12, <1>13 DEF LifeStep

(* So do the server's start and its close, which waits for the clients.     *)
LEMMA ServerKeeps ==
    ASSUME DInv, NEW a \in Apis, Listen(a) \/ CloseServer(a), UNCHANGED workerVars
    PROVE  DInv'
<1>0. /\ a \in Processes /\ a \notin Workers
      /\ open \in [Processes -> SUBSET All] /\ Fits(phase[a], open[a])
  BY ProcessAssumption DEF DInv, DType, ProcessType, OpenInv, Processes, All
<1>1. UNCHANGED <<sharedVars, apiVars>> /\ open' = [open EXCEPT ![a] = open[a]]
  BY <1>0 DEF Listen, CloseServer
<1>2. /\ WorkerType' /\ HoldInv' /\ UNCHANGED stalls
      /\ \A w \in Workers : run'[w] = run[w] /\ consuming'[w] = consuming[w]
  BY <1>1 DEF DInv, DType, WorkerType, HoldInv, workerVars, sharedVars
<1>3. CASE Listen(a)
  <2>1. phase[a] = "init" /\ phase' = [phase EXCEPT ![a] = "up"] /\ open[a] = All
    BY <1>0, <1>3 DEF Listen, Enter, Fits
  <2>2. "up" \in Phases /\ Fits("up", open[a]) /\ phase[a] \notin Served
    BY <2>1 DEF Phases, Fits, Served, Over
  <2> QED
    BY <1>0, <1>1, <1>2, <2>1, <2>2, Moved
<1>4. CASE CloseServer(a)
  <2>1. /\ phase[a] = "disposing" /\ phase' = [phase EXCEPT ![a] = "ending"]
        /\ open[a] = {"db"} /\ Serves(a) = {}
    BY <1>0, <1>4 DEF CloseServer, Enter, Fits
  <2>2. "ending" \in Phases /\ Fits("ending", open[a]) /\ "ending" \in Served
    BY <2>1 DEF Phases, Stopping, Fits, Served, Over
  <2> QED
    BY <1>0, <1>1, <1>2, <2>1, <2>2, Moved
<1> QED
  BY <1>3, <1>4

-----------------------------------------------------------------------------
(* The workers *)

(* A worker gets ready, is disposed of, or is replaced by a new process.    *)
LEMMA WorkerMoves ==
    ASSUME DInv, NEW w \in Workers, Ready(w) \/ Dispose(w) \/ Restart(w), UNCHANGED apiVars
    PROVE  DInv'
<1> USE DEF Enter, Over, Clients, Fits
<1>0. /\ w \in Processes /\ w \notin Apis
      /\ open \in [Processes -> SUBSET All] /\ Fits(phase[w], open[w])
  BY ProcessAssumption DEF DInv, DType, ProcessType, OpenInv, Processes, All
<1>1. UNCHANGED <<sharedVars, apiVars>> /\ open' = [open EXCEPT ![w] = open[w]]
  BY <1>0 DEF Ready, Dispose, Restart
<1>2. ASSUME UNCHANGED workerVars
      PROVE  /\ WorkerType' /\ HoldInv' /\ UNCHANGED stalls
             /\ \A v \in Workers : run'[v] = run[v] /\ consuming'[v] = consuming[v]
  BY <1>1, <1>2 DEF DInv, DType, WorkerType, HoldInv, workerVars, sharedVars
<1>3. CASE Ready(w)
  <2>1. phase' = [phase EXCEPT ![w] = "up"] /\ UNCHANGED workerVars /\ phase[w] = "init"
    BY <1>3 DEF Ready
  <2>2. "up" \in Phases /\ Fits("up", open[w])
    BY <1>0, <2>1 DEF Phases
  <2> QED
    BY <1>0, <1>1, <1>2, <2>1, <2>2, Moved DEF Stopping
<1>4. CASE Dispose(w)
  <2>1. phase' = [phase EXCEPT ![w] = "ending"] /\ UNCHANGED workerVars /\ phase[w] = "disposing"
    BY <1>4 DEF Dispose
  <2>2. "ending" \in Phases /\ Fits("ending", open[w]) /\ open[w] # All
    BY <1>0, <2>1 DEF Phases, Stopping, All
  <2>3. run[w] = Idle /\ ~consuming[w]
    BY <2>1, <2>2 DEF DInv, WorkInv, WorkerDrains, All, Stopping
  <2> QED
    BY <1>0, <1>1, <1>2, <2>1, <2>2, <2>3, Moved
<1>5. CASE Restart(w)
  <2>1. /\ phase' = [phase EXCEPT ![w] = "config"] /\ phase[w] \in Over
        /\ run' = [run EXCEPT ![w] = Idle] /\ consuming' = [consuming EXCEPT ![w] = FALSE]
        /\ restarts < MaxRestarts /\ restarts' = restarts + 1 /\ stalls' = stalls
    BY <1>5 DEF Restart, Alive, Drop
  <2>2. "config" \in Phases /\ Fits("config", open[w])
    BY <1>0, <2>1 DEF Phases, Booting
  <2>3. /\ consuming \in [Workers -> BOOLEAN] /\ restarts \in 0..MaxRestarts
        /\ run \in [Workers -> [job : Requests \cup {"none"},
                                pc : {"idle", "claim", "post", "record", "ack"}]]
        /\ stalls \in [Requests -> 0..(MaxStalled + 1)]
    BY DEF DInv, DType, WorkerType
  <2>4. /\ run'[w] = Idle /\ ~consuming'[w]
        /\ \A v \in Workers \ {w} : run'[v] = run[v] /\ consuming'[v] = consuming[v]
    BY <2>1, <2>3
  <2>5. WorkerType'
    <3>1. restarts' \in 0..MaxRestarts
      BY <2>1, <2>3, WorkerAssumption
    <3>2. run' \in [Workers -> [job : Requests \cup {"none"},
                                pc : {"idle", "claim", "post", "record", "ack"}]]
      BY <2>1, <2>3 DEF Idle
    <3>3. consuming' \in [Workers -> BOOLEAN]
      BY <2>1, <2>3
    <3> QED
      BY <2>1, <2>3, <3>1, <3>2, <3>3 DEF WorkerType
  <2>6. HoldInv'
    <3>1. \A v \in Workers : run'[v].pc # "idle" => run'[v] = run[v]
      BY <2>4 DEF Idle
    <3> QED
      BY <1>1, <3>1 DEF DInv, HoldInv, sharedVars
  <2> QED
    BY <1>0, <1>1, <2>1, <2>2, <2>4, <2>5, <2>6, Moved
<1> QED
  BY <1>3, <1>4, <1>5

\* The types of what the workers' steps change.
RowStates == {"ABSENT", "PENDING", "PROCESSING", "FAILED"}
JobStates == {"none", "waiting", "active", "completed", "failed"}
RunStates == [job : Requests \cup {"none"}, pc : {"idle", "claim", "post", "record", "ack"}]
StallCounts == 0..(MaxStalled + 1)

(* A step between two phases of the processes: what is left to show is what *)
(* the workers themselves rely on.                                          *)
LEMMA Worked ==
    ASSUME DInv, UNCHANGED <<processVars, apiVars, restarts>>,
           consuming' \in [Workers -> BOOLEAN], run' \in [Workers -> RunStates],
           rows' \in [Requests -> RowStates], job' \in [Requests -> JobStates],
           stalls' \in [Requests -> StallCounts], faulty' \subseteq Requests,
           WorkInv', HoldInv', StallInv', \A r \in Requests : Respected(r)
    PROVE  DInv'
<1>1. ProcessType' /\ WorkerType'
  BY DEF DInv, DType, ProcessType, WorkerType, processVars, RowStates, JobStates, RunStates,
         StallCounts
<1>2. DType' /\ OpenInv'
  BY <1>1 DEF DInv, DType, OpenInv, processVars, apiVars
<1>3. ASSUME NEW r \in Requests PROVE RequestInv(r)'
  <2>1. RequestInv(r) /\ DType /\ OpenInv
    BY DEF DInv
  <2>2. req'[r] = req[r] /\ ask' = ask /\ Respected(r)
    BY DEF apiVars
  <2>3. Outlived(r)
    BY <2>1 DEF Outlived, RequestInv, Connected, processVars
  <2> QED
    BY <2>1, <2>2, <2>3, Untouched
<1> QED
  BY <1>2, <1>3 DEF DInv

(* A worker that has a job, or takes one, has all its connections or is     *)
(* dead.                                                                    *)
LEMMA BusyWorker ==
    ASSUME DInv, NEW w \in Workers, Alive(w), run[w] # Idle \/ consuming[w]
    PROVE  /\ phase[w] \notin {"config", "connect", "probe"}
           /\ phase[w] \in Stopping \cup {"exited"} => open[w] = All
BY DEF DInv, WorkInv, WorkerDrains, All

\* What a consumer's step does to a job.
JobMoves(r) ==
    \/ job'[r] = job[r]
    \/ job[r] = "waiting" /\ job'[r] = "active"
    \/ job[r] # "none" /\ job'[r] \in {"completed", "failed"}

(* The consumers' steps.                                                    *)
LEMMA WorkerKeeps ==
    ASSUME DInv, UNCHANGED apiVars, NEW w \in Workers,
           \/ onModuleInit(w) \/ CloseBegins(w) \/ RunStep(w)
           \/ \E r \in Requests : TakeJob(w, r)
    PROVE  DInv'
<1>0. /\ consuming \in [Workers -> BOOLEAN] /\ run \in [Workers -> RunStates]
      /\ rows \in [Requests -> RowStates] /\ job \in [Requests -> JobStates]
      /\ stalls \in [Requests -> StallCounts] /\ faulty \subseteq Requests /\ StallInv
  BY DEF DInv, DType, WorkerType, ProcessType, RunStates, RowStates, JobStates, StallCounts
<1>1. UNCHANGED <<processVars, stalls, restarts>>
  BY DEF onModuleInit, CloseBegins, RunStep, TakeJob, Claim, Post, RecordError, JobFails,
         Acknowledge
<1>2. UNCHANGED <<phase, open>>
  BY <1>1 DEF processVars
<1>3. CASE onModuleInit(w)
  <2>1. /\ phase[w] = "init" /\ consuming' = [consuming EXCEPT ![w] = TRUE]
        /\ UNCHANGED <<rows, job, faulty, run>>
    BY <1>3 DEF onModuleInit, sharedVars
  <2>2. WorkInv'
    BY <1>0, <1>2, <2>1 DEF DInv, WorkInv, WorkerDrains, Stopping
  <2>3. HoldInv' /\ StallInv'
    BY <1>1, <2>1 DEF DInv, HoldInv, StallInv
  <2>4. \A r \in Requests : Respected(r)
    BY <2>1 DEF Respected, Clean, Half, Whole
  <2>5. consuming' \in [Workers -> BOOLEAN]
    BY <1>0, <2>1
  <2> QED
    BY <1>0, <1>1, <2>1, <2>2, <2>3, <2>4, <2>5, Worked
<1>4. CASE CloseBegins(w)
  <2>1. /\ phase[w] = "destroying" /\ consuming' = [consuming EXCEPT ![w] = FALSE]
        /\ UNCHANGED <<rows, job, faulty, run>>
    BY <1>4 DEF CloseBegins, sharedVars
  <2>2. WorkInv'
    BY <1>0, <1>2, <2>1 DEF DInv, WorkInv, WorkerDrains, Stopping
  <2>3. HoldInv' /\ StallInv'
    BY <1>1, <2>1 DEF DInv, HoldInv, StallInv
  <2>4. \A r \in Requests : Respected(r)
    BY <2>1 DEF Respected, Clean, Half, Whole
  <2>5. consuming' \in [Workers -> BOOLEAN]
    BY <1>0, <2>1
  <2> QED
    BY <1>0, <1>1, <2>1, <2>2, <2>3, <2>4, <2>5, Worked
<1>5. ASSUME Alive(w), run[w] # Idle \/ consuming[w], NEW q \in RunStates,
             run' = [run EXCEPT ![w] = q], UNCHANGED consuming,
             q.pc # "idle" => q.job \in Requests /\ job'[q.job] # "none",
             rows' \in [Requests -> RowStates], job' \in [Requests -> JobStates],
             faulty' \subseteq Requests,
             \A r \in Requests : JobMoves(r) /\ Respected(r)
      PROVE  DInv'
  <2>1. run' \in [Workers -> RunStates]
    BY <1>0, <1>5
  <2>2. WorkInv'
    <3>1. /\ phase[w] \notin {"config", "connect", "probe"}
          /\ phase[w] \in Stopping \cup {"exited"} => open[w] = All
      BY <1>5, BusyWorker
    <3>2. \A v \in Workers \ {w} : run'[v] = run[v] /\ consuming'[v] = consuming[v]
      BY <1>0, <1>5
    <3> QED
      BY <1>2, <3>1, <3>2 DEF DInv, WorkInv, WorkerDrains, All
  <2>3. HoldInv'
    <3>1. run'[w] = q /\ \A v \in Workers \ {w} : run'[v] = run[v]
      BY <1>0, <1>5
    <3>2. \A r \in Requests : job[r] # "none" => job'[r] # "none"
      BY <1>5 DEF JobMoves
    <3> QED
      BY <1>5, <3>1, <3>2 DEF DInv, HoldInv
  <2>4. StallInv'
    BY <1>0, <1>1, <1>5 DEF StallInv, JobMoves
  <2> QED
    BY <1>0, <1>1, <1>5, <2>1, <2>2, <2>3, <2>4, Worked
<1>6. ASSUME NEW r \in Requests, TakeJob(w, r) PROVE DInv'
  <2>1. /\ Alive(w) /\ consuming[w] /\ job[r] = "waiting"
        /\ job' = [job EXCEPT ![r] = "active"] /\ UNCHANGED <<rows, faulty, consuming>>
        /\ run' = [run EXCEPT ![w] = [job |-> r, pc |-> "claim"]]
    BY <1>6 DEF TakeJob
  <2>2. [job |-> r, pc |-> "claim"] \in RunStates
    BY DEF RunStates
  <2>3. job' \in [Requests -> JobStates] /\ job'[r] # "none"
        /\ \A x \in Requests : JobMoves(x) /\ (job[x] = "none" <=> job'[x] = "none")
    BY <1>0, <2>1 DEF JobStates, JobMoves
  <2>4. \A x \in Requests : Respected(x)
    BY <2>1, <2>3 DEF Respected, Clean, Half, Whole
  <2> HIDE <1>6
  <2> QED
    BY <1>0, <1>5, <2>1, <2>2, <2>3, <2>4
<1>7. CASE RunStep(w)
  <2> DEFINE r == run[w].job
  <2>1. run[w].pc # "idle" /\ Alive(w) /\ UNCHANGED consuming
    BY <1>7 DEF RunStep, Claim, Post, RecordError, JobFails, Acknowledge, At
  <2>2. r \in Requests /\ job[r] # "none" /\ run[w] # Idle /\ run[w] \in RunStates
    BY <1>0, <2>1 DEF DInv, HoldInv, Idle
  <2>3. ASSUME NEW pc \in {"post", "record", "ack"}, Step(w, pc), UNCHANGED <<job, faulty>>,
               rows' \in [Requests -> RowStates],
               \A x \in Requests : x # r => rows'[x] = rows[x],
               rows[r] = "ABSENT" <=> rows'[r] = "ABSENT"
        PROVE  DInv'
    <3> DEFINE q == [run[w] EXCEPT !.pc = pc]
    <3>1. run' = [run EXCEPT ![w] = q]
      BY <1>0, <2>3 DEF Step
    <3>a. q \in RunStates /\ q.job = r
      BY <2>2 DEF RunStates
    <3> HIDE DEF q
    <3>2. \A x \in Requests : JobMoves(x) /\ Respected(x)
      BY <2>2, <2>3 DEF JobMoves, Respected, Clean, Half, Whole
    <3> QED
      BY <1>0, <1>5, <2>1, <2>2, <2>3, <3>1, <3>a, <3>2
  <2>4. ASSUME NEW from \in RowStates \ {"ABSENT"}, NEW to \in RowStates \ {"ABSENT"},
               updateStatus(r, from, to)
        PROVE  /\ rows' \in [Requests -> RowStates]
               /\ \A x \in Requests : x # r => rows'[x] = rows[x]
               /\ rows[r] = "ABSENT" <=> rows'[r] = "ABSENT"
    BY <1>0, <2>2, <2>4 DEF updateStatus
  <2>5. CASE Claim(w)
    <3>1. /\ updateStatus(r, "PENDING", "PROCESSING") /\ UNCHANGED <<job, faulty>>
          /\ Step(w, IF rows[r] = "PENDING" THEN "post" ELSE "ack")
      BY <2>5 DEF Claim
    <3> QED
      BY <2>3, <2>4, <3>1 DEF RowStates
  <2>6. CASE Post(w)
    BY <1>0, <2>3, <2>6 DEF Post, sharedVars
  <2>7. CASE RecordError(w)
    <3>1. /\ updateStatus(r, "PROCESSING", "FAILED") /\ Step(w, "ack")
          /\ UNCHANGED <<job, faulty>>
      BY <2>7 DEF RecordError
    <3> QED
      BY <2>3, <2>4, <3>1 DEF RowStates
  <2>8. ASSUME NEW how \in {"completed", "failed"}, job' = [job EXCEPT ![r] = how],
               run' = [run EXCEPT ![w] = Idle], faulty' \subseteq faulty \cup {r},
               faulty \subseteq faulty', rows' \in [Requests -> RowStates],
               \A x \in Requests : x # r => rows'[x] = rows[x],
               rows[r] = "ABSENT" <=> rows'[r] = "ABSENT"
        PROVE  DInv'
    <3>1. /\ job' \in [Requests -> JobStates] /\ faulty' \subseteq Requests
          /\ \A x \in Requests : job[x] = "none" <=> job'[x] = "none"
      BY <1>0, <2>2, <2>8 DEF JobStates
    <3>2. Idle \in RunStates /\ Idle.pc = "idle"
      BY DEF Idle, RunStates
    <3>3. \A x \in Requests : JobMoves(x)
      BY <1>0, <2>2, <2>8 DEF JobMoves
    <3>4. \A x \in Requests : Respected(x)
      BY <2>2, <2>8, <3>1 DEF Respected, Clean, Half, Whole
    <3> QED
      BY <1>0, <1>5, <2>1, <2>2, <2>8, <3>1, <3>2, <3>3, <3>4
  <2>9. CASE JobFails(w)
    <3>1. /\ job' = [job EXCEPT ![r] = "failed"] /\ run' = [run EXCEPT ![w] = Idle]
          /\ faulty' = faulty \cup {r}
          /\ \/ updateStatus(r, "PENDING", "PROCESSING") \/ updateStatus(r, "PROCESSING", "FAILED")
             \/ UNCHANGED rows
      BY <2>9 DEF JobFails, Drop, Fault
    <3>2. /\ rows' \in [Requests -> RowStates]
          /\ \A x \in Requests : x # r => rows'[x] = rows[x]
          /\ rows[r] = "ABSENT" <=> rows'[r] = "ABSENT"
      BY <1>0, <2>4, <3>1 DEF RowStates
    <3> QED
      BY <2>8, <3>1, <3>2
  <2>10. CASE Acknowledge(w)
    <3>1. /\ job' = [job EXCEPT ![r] = "completed"] /\ UNCHANGED <<rows, faulty>>
          /\ run' = [run EXCEPT ![w] = Idle]
      BY <2>10 DEF Acknowledge, Drop
    <3> QED
      BY <1>0, <2>8, <3>1
  <2> QED
    BY <1>7, <2>5, <2>6, <2>7, <2>9, <2>10 DEF RunStep
<1> QED
  BY <1>3, <1>4, <1>6, <1>7

(* The stalled-job check.                                                   *)
LEMMA StallKeeps ==
    ASSUME DInv, UNCHANGED apiVars, NEW r \in Requests, JobStalls(r)
    PROVE  DInv'
<1>1. /\ job[r] = "active" /\ stalls' = [stalls EXCEPT ![r] = stalls[r] + 1]
      /\ job' = [job EXCEPT ![r] = IF stalls[r] < MaxStalled THEN "waiting" ELSE "failed"]
      /\ UNCHANGED <<processVars, rows, faulty, consuming, run, restarts>>
  BY DEF JobStalls
<1>2. /\ consuming \in [Workers -> BOOLEAN] /\ run \in [Workers -> RunStates]
      /\ rows \in [Requests -> RowStates] /\ job \in [Requests -> JobStates]
      /\ stalls \in [Requests -> StallCounts] /\ faulty \subseteq Requests /\ StallInv
  BY DEF DInv, DType, WorkerType, ProcessType, RunStates, RowStates, JobStates, StallCounts
<1>3. job' \in [Requests -> JobStates] /\ \A x \in Requests : job[x] = "none" <=> job'[x] = "none"
  BY <1>1, <1>2 DEF JobStates
<1>4. \A x \in Requests : Respected(x)
  BY <1>1, <1>3 DEF Respected, Clean, Half, Whole
<1>5. WorkInv' /\ HoldInv'
  BY <1>1, <1>3 DEF DInv, WorkInv, WorkerDrains, HoldInv, processVars
<1>6. stalls[r] \in 0..MaxStalled
  <2>1. stalls[r] \in 0..(MaxStalled + 1) /\ stalls[r] <= MaxStalled
    BY <1>1, <1>2 DEF StallInv, StallCounts
  <2> QED
    BY <2>1, WorkerAssumption
<1>7. stalls' \in [Requests -> StallCounts]
  <2>1. stalls[r] + 1 \in StallCounts
    BY <1>6, WorkerAssumption DEF StallCounts
  <2> QED
    BY <1>1, <1>2, <2>1
<1>8. StallInv'
  <2> SUFFICES ASSUME NEW x \in Requests
               PROVE  /\ job'[x] = "none" => stalls'[x] = 0
                      /\ job'[x] \in {"waiting", "active"} => stalls'[x] <= MaxStalled
    BY DEF StallInv
  <2>1. CASE x = r
    <3>1. /\ stalls'[r] = stalls[r] + 1
          /\ job'[r] = IF stalls[r] < MaxStalled THEN "waiting" ELSE "failed"
      BY <1>1, <1>2
    <3> QED
      BY <1>6, <2>1, <3>1, WorkerAssumption
  <2>2. CASE x # r
    BY <1>1, <1>2, <2>2 DEF StallInv
  <2> QED
    BY <2>1, <2>2
<1> QED
  BY <1>1, <1>2, <1>3, <1>4, <1>5, <1>7, <1>8, Worked

-----------------------------------------------------------------------------
(* The requests *)

(* A step of one request: what is left to show is that request's own part.  *)
LEMMA Requested ==
    ASSUME DInv, NEW r \in Requests, UNCHANGED <<processVars, ask, workerVars>>,
           req' \in [Requests -> ReqStates], \A q \in Requests \ {r} : req'[q] = req[q],
           rows' \in [Requests -> RowStates], job' \in [Requests -> JobStates],
           faulty \subseteq faulty', faulty' \subseteq faulty \cup {r},
           \A q \in Requests \ {r} : rows'[q] = rows[q] /\ job'[q] = job[q],
           job'[r] = job[r] \/ (job[r] = "none" /\ job'[r] = "waiting"),
           RequestInv(r)'
    PROVE  DInv'
<1>1. DType'
  BY DEF DInv, DType, ProcessType, WorkerType, processVars, workerVars, RowStates, JobStates
<1>2. OpenInv' /\ WorkInv'
  BY DEF DInv, OpenInv, WorkInv, WorkerDrains, processVars, workerVars
<1>3. HoldInv' /\ StallInv'
  <2>1. \A q \in Requests :
            job'[q] = job[q] \/ (q = r /\ job[q] = "none" /\ job'[q] = "waiting")
    OBVIOUS
  <2>2. HoldInv'
    BY <2>1 DEF DInv, HoldInv, workerVars
  <2>3. StallInv'
    BY <2>1, WorkerAssumption DEF DInv, StallInv, workerVars
  <2> QED
    BY <2>2, <2>3
<1>4. ASSUME NEW q \in Requests \ {r} PROVE RequestInv(q)'
  <2>1. RequestInv(q) /\ DType /\ OpenInv
    BY DEF DInv
  <2>2. req'[q] = req[q] /\ ask' = ask /\ Respected(q)
    BY DEF Respected, Clean, Half, Whole
  <2>3. Outlived(q)
    BY <2>1 DEF Outlived, RequestInv, Connected, processVars
  <2> QED
    BY <2>1, <2>2, <2>3, Untouched
<1> QED
  BY <1>1, <1>2, <1>3, <1>4 DEF DInv

(* res.end(), and a handler that goes on.                                   *)
LEMMA EndsIs ==
    ASSUME DType, NEW r \in Requests, NEW reply \in Replies, Ends(r, reply)
    PROVE  /\ req' \in [Requests -> ReqStates] /\ \A q \in Requests \ {r} : req'[q] = req[q]
           /\ req'[r].pc = "ended" /\ req'[r].at = req[r].at
           /\ req'[r].conn = req[r].conn /\ req'[r].log = req[r].log
           /\ req'[r].reply = IF req[r].conn = "open" THEN reply ELSE req[r].reply
<1>1. req \in [Requests -> ReqStates] /\ req[r] \in ReqStates
  BY DEF DType
<1> DEFINE q == [req[r] EXCEPT !.pc = "ended", !.todo = <<>>,
                               !.reply = IF req[r].conn = "open" THEN reply ELSE req[r].reply]
<1>2. req' = [req EXCEPT ![r] = q]
  BY <1>1 DEF Ends
<1>3. <<>> \in Seq(All)
  OBVIOUS
<1>4. /\ q \in ReqStates /\ q.pc = "ended" /\ q.at = req[r].at /\ q.conn = req[r].conn
      /\ q.log = req[r].log /\ q.reply = IF req[r].conn = "open" THEN reply ELSE req[r].reply
  BY <1>1, <1>3 DEF ReqStates
<1> HIDE DEF q
<1> QED
  BY <1>1, <1>2, <1>4

(* A handler that goes on to another statement, or to its stream.           *)
LEMMA GoesIs ==
    ASSUME DType, NEW r \in Requests, NEW pc \in {"run", "rollback", "stream"},
           NEW todo \in Seq(All), Goes(r, pc, todo)
    PROVE  /\ req' \in [Requests -> ReqStates] /\ \A q \in Requests \ {r} : req'[q] = req[q]
           /\ req'[r].pc = pc /\ req'[r].todo = todo /\ req'[r].at = req[r].at
           /\ req'[r].conn = req[r].conn /\ req'[r].log = req[r].log
           /\ req'[r].reply = req[r].reply
<1>1. req \in [Requests -> ReqStates] /\ req[r] \in ReqStates
  BY DEF DType
<1> DEFINE q == [req[r] EXCEPT !.pc = pc, !.todo = todo]
<1>2. req' = [req EXCEPT ![r] = q]
  BY <1>1 DEF Goes
<1>3. /\ q \in ReqStates /\ q.pc = pc /\ q.todo = todo /\ q.at = req[r].at
      /\ q.conn = req[r].conn /\ q.log = req[r].log /\ q.reply = req[r].reply
  BY <1>1 DEF ReqStates
<1> HIDE DEF q
<1> QED
  BY <1>1, <1>2, <1>3

(* An answer keeps the request's part if it tells what was written, or that *)
(* an error was met.                                                        *)
LEMMA Answered ==
    ASSUME DInv, NEW r \in Requests, req[r].pc \in {"run", "rollback", "stream"},
           NEW reply \in Replies \ {"none"}, Ends(r, reply), UNCHANGED <<processVars, ask>>,
           kindOf(r) # "create" => Clean(r)' /\ reply # "202",
           kindOf(r) = "create" /\ req[r].conn = "open" =>
              IF reply = "202" THEN Whole(r)'
              ELSE Clean(r)' \/ (reply = "500" /\ r \in faulty')
    PROVE  RequestInv(r)'
<1>0. RequestInv(r)
  BY DEF DInv
<1>1. /\ req'[r].pc = "ended" /\ req'[r].at = req[r].at
      /\ req'[r].conn = req[r].conn /\ req'[r].log = req[r].log
      /\ req'[r].reply = IF req[r].conn = "open" THEN reply ELSE req[r].reply
  BY EndsIs DEF DInv
<1>2. req[r].conn \in {"open", "gone"} /\ req[r].reply = "none"
  <2>1. req[r].conn \in {"none", "open", "closed", "gone"}
    BY DEF DInv, DType, ReqStates
  <2> QED
    BY <1>0, <2>1 DEF RequestInv, Connected
<1>3. Connected(r)'
  BY <1>0, <1>1, <1>2 DEF RequestInv, Connected, processVars
<1>4. Lined(r)' /\ Asked(r)'
  BY <1>0, <1>1, <1>2 DEF RequestInv, Lined, Asked, kindOf, Unparsed
<1>5. Handled(r)'
  BY <1>1 DEF Handled
<1>6. Made(r)'
  BY <1>1, <1>2 DEF Made, Failed, kindOf, Clean, Whole
<1> QED
  BY <1>3, <1>4, <1>5, <1>6 DEF RequestInv

(* A handler that goes on leaves its connection and its answer alone.       *)
LEMMA GoneOn ==
    ASSUME DInv, NEW r \in Requests, req[r].pc = "run",
           NEW pc \in {"run", "rollback", "stream"}, NEW todo \in Seq(All),
           Goes(r, pc, todo), UNCHANGED <<processVars, ask>>, Handled(r)', Made(r)'
    PROVE  RequestInv(r)'
<1>0. RequestInv(r)
  BY DEF DInv
<1>1. /\ req'[r].pc = pc /\ req'[r].at = req[r].at /\ req'[r].reply = req[r].reply
      /\ req'[r].conn = req[r].conn /\ req'[r].log = req[r].log
  BY GoesIs DEF DInv
<1>2. Connected(r)'
  BY <1>0, <1>1 DEF RequestInv, Connected, processVars
<1>3. Lined(r)' /\ Asked(r)'
  BY <1>0, <1>1 DEF RequestInv, Lined, Asked, kindOf, Unparsed
<1> QED
  BY <1>2, <1>3 DEF RequestInv

(* The middleware, guards and pipes refuse a request or hand it on.         *)
LEMMA ArriveKeeps ==
    ASSUME DInv, UNCHANGED workerVars, NEW r \in Requests, NEW a \in Apis, Arrive(r, a)
    PROVE  DInv'
<1>0. /\ RequestInv(r) /\ req \in [Requests -> ReqStates] /\ req[r] \in ReqStates
      /\ ask[r] \in [kind : RequestKinds, flaw : Flaws]
      /\ rows \in [Requests -> RowStates] /\ job \in [Requests -> JobStates]
  BY DEF DInv, DType, ProcessType, RowStates, JobStates
<1>1. /\ req[r].pc = "new" /\ phase[a] \in {"up", "destroying"}
      /\ UNCHANGED <<processVars, sharedVars, ask>>
  BY DEF Arrive
<1>2. /\ req[r].reply = "none" /\ req[r].log = <<>> /\ Clean(r) /\ Clean(r)'
      /\ rows' = rows /\ job' = job /\ faulty' = faulty /\ r \notin faulty
  BY <1>0, <1>1 DEF RequestInv, Connected, Lined, Handled, Made, Clean, sharedVars
<1>3. ASSUME NEW q \in ReqStates, req' = [req EXCEPT ![r] = q],
             q.at = a, q.conn = "open", q.log = <<>>, q.pc \in {"run", "ended"},
             q.pc = "run" => q.reply = "none",
             q.pc = "ended" => q.reply \notin {"none", "202"},
             Handled(r)',
             q.pc = "run" /\ kindOf(r) = "create" => q.todo # <<"queue">>
      PROVE  DInv'
  <2>1. req'[r] = q /\ req' \in [Requests -> ReqStates] /\ \A x \in Requests \ {r} : req'[x] = req[x]
    BY <1>0, <1>3
  <2>2. Connected(r)'
    BY <1>1, <1>3, <2>1 DEF Connected, Served, Closed, processVars
  <2>3. Lined(r)' /\ Asked(r)'
    BY <1>0, <1>1, <1>3, <2>1 DEF RequestInv, Lined, Asked, kindOf
  <2>4. Made(r)'
    BY <1>1, <1>2, <1>3, <2>1 DEF Made, kindOf
  <2>5. RequestInv(r)'
    BY <1>3, <2>2, <2>3, <2>4 DEF RequestInv
  <2> QED
    BY <1>0, <1>1, <1>2, <2>1, <2>5, Requested
<1>4. CASE ask[r].flaw \in ToSet(Checks(kindOf(r)))
  <2> DEFINE reply == resolveException(Thrown(ask[r].flaw))
             q == [req[r] EXCEPT !.pc = "ended", !.at = a, !.conn = "open", !.reply = reply]
  <2>1. req' = [req EXCEPT ![r] = q]
    BY <1>0, <1>4 DEF Arrive
  <2>2. reply \in Replies /\ reply \notin {"none", "202"}
    BY ErrorReplies
  <2> HIDE DEF reply
  <2>4. /\ q \in ReqStates /\ q.pc = "ended" /\ q.at = a /\ q.conn = "open"
        /\ q.reply = reply /\ q.log = req[r].log
    BY <1>0, <2>2 DEF ReqStates
  <2> HIDE DEF q
  <2>5. req'[r] = q
    BY <1>0, <2>1
  <2>6. Handled(r)'
    BY <2>4, <2>5 DEF Handled
  <2> QED
    BY <1>2, <1>3, <2>1, <2>2, <2>4, <2>6
<1>5. CASE ask[r].flaw \notin ToSet(Checks(kindOf(r)))
  <2> DEFINE todo == Statements(ask[r])
             q == [req[r] EXCEPT !.pc = "run", !.at = a, !.conn = "open", !.todo = todo]
  <2>1. req' = [req EXCEPT ![r] = q]
    BY <1>0, <1>5 DEF Arrive
  <2>2. kindOf(r) = "create" => ask[r].flaw = "none"
    BY <1>0, <1>5, CreateChecks DEF RequestInv, Asked
  <2>4. todo \in Seq(All) /\ (kindOf(r) = "create" => todo = <<"db", "queue">>)
    BY <1>0, <2>2, StatementsAre DEF kindOf
  <2> HIDE DEF todo
  <2>5. /\ q \in ReqStates /\ q.pc = "run" /\ q.at = a /\ q.conn = "open"
        /\ q.reply = req[r].reply /\ q.log = req[r].log /\ q.todo = todo
    BY <1>0, <2>4 DEF ReqStates
  <2> HIDE DEF q
  <2>6. req'[r] = q
    BY <1>0, <2>1
  <2>7. Handled(r)'
    BY <1>1, <1>2, <2>2, <2>4, <2>5, <2>6 DEF Handled, kindOf
  <2>8. <<"db", "queue">> # <<"queue">>
    OBVIOUS
  <2> QED
    BY <1>2, <1>3, <2>1, <2>4, <2>5, <2>7, <2>8
<1> QED
  BY <1>4, <1>5

(* What a running handler's request tells of itself.                        *)
LEMMA RunningIs ==
    ASSUME DInv, NEW r \in Requests, req[r].pc \in {"run", "rollback", "stream"}
    PROVE  /\ RequestInv(r) /\ req[r] \in ReqStates /\ ask[r] \in [kind : RequestKinds, flaw : Flaws]
           /\ rows \in [Requests -> RowStates] /\ job \in [Requests -> JobStates]
           /\ open \in [Processes -> SUBSET All] /\ req[r].at \in Processes
           /\ kindOf(r) # "create" => Clean(r)
<1>1. RequestInv(r) /\ req[r].at \in Processes
  BY DEF DInv, RequestInv, Connected, Processes
<1> QED
  BY <1>1 DEF DInv, DType, ProcessType, RequestInv, Made, RowStates, JobStates, All

(* An answer that leaves the shared state alone.                            *)
LEMMA Replied ==
    ASSUME DInv, UNCHANGED <<processVars, sharedVars, ask, workerVars>>, NEW r \in Requests,
           req[r].pc \in {"run", "rollback", "stream"},
           NEW reply \in Replies \ {"none", "202"}, Ends(r, reply),
           kindOf(r) = "create" /\ req[r].conn = "open" => Clean(r)
    PROVE  DInv'
<1>1. /\ rows \in [Requests -> RowStates] /\ job \in [Requests -> JobStates]
      /\ kindOf(r) # "create" => Clean(r)
  BY RunningIs
<1>2. (Clean(r) => Clean(r)') /\ rows' = rows /\ job' = job /\ faulty' = faulty
  BY DEF Clean, sharedVars
<1>3. RequestInv(r)'
  BY <1>1, <1>2, Answered
<1>4. req' \in [Requests -> ReqStates] /\ \A q \in Requests \ {r} : req'[q] = req[q]
  BY EndsIs DEF DInv
<1> QED
  BY <1>1, <1>2, <1>3, <1>4, Requested

(* A statement runs: the row is inserted, then the job is added.            *)
LEMMA StatementKeeps ==
    ASSUME DInv, UNCHANGED workerVars, NEW r \in Requests, Statement(r)
    PROVE  DInv'
<1> DEFINE todo == req[r].todo
<1>0. req[r].pc = "run" /\ todo # <<>> /\ ask[r].flaw # "id" /\ UNCHANGED <<processVars, ask>>
  BY DEF Statement, Todo, Unreadable
<1>1. /\ RequestInv(r) /\ req[r] \in ReqStates /\ ask[r] \in [kind : RequestKinds, flaw : Flaws]
      /\ rows \in [Requests -> RowStates] /\ job \in [Requests -> JobStates]
      /\ kindOf(r) # "create" => Clean(r)
  BY <1>0, RunningIs
<1>2. todo \in Seq(All) /\ Tail(todo) \in Seq(All) /\ <<>> \in Seq(All)
  BY <1>0, <1>1 DEF ReqStates
<1>3. kindOf(r) = "create" =>
          /\ ask[r].flaw = "none"
          /\ (todo = <<"db", "queue">> /\ Clean(r)) \/ (todo = <<"queue">> /\ Half(r))
  <2>1. <<"db", "queue">> # <<"queue">>
    OBVIOUS
  <2> QED
    BY <1>0, <1>1, <2>1 DEF RequestInv, Handled, Made
<1>4. CASE Refused(r)
  <2>1. Ends(r, resolveException(Thrown(ask[r].flaw))) /\ UNCHANGED sharedVars
    BY <1>4 DEF Statement, Throws
  <2>2. kindOf(r) # "create"
    BY <1>3, <1>4 DEF Refused
  <2>3. resolveException(Thrown(ask[r].flaw)) \in Replies \ {"none", "202"}
    BY ErrorReplies
  <2> QED
    BY <1>0, <2>1, <2>2, <2>3, Replied
<1>5. CASE ~Refused(r)
  <2>1. Effect(r, Head(todo)) /\ faulty' = faulty /\ r \notin faulty
    BY <1>0, <1>1, <1>5 DEF Statement, Todo, RequestInv, Handled
  <2>2. \/ Len(todo) > 1 /\ Goes(r, "run", Tail(todo))
        \/ Len(todo) = 1 /\ kindOf(r) = "stream" /\ Goes(r, "stream", <<>>)
        \/ Len(todo) = 1 /\ kindOf(r) # "stream" /\ Ends(r, Success(kindOf(r)))
        \/ Len(todo) > 1 /\ kindOf(r) = "stream" /\ Goes(r, "stream", <<>>)
    <3>1. Len(todo) \in Nat \ {0}
      BY <1>0, <1>2, EmptySeq
    <3>2. Len(todo) > 1 \/ Len(todo) = 1
      <4>1. \A n \in Nat \ {0} : n > 1 \/ n = 1
        OBVIOUS
      <4> QED
        BY <3>1, <4>1
    <3> QED
      BY <1>5, <3>2 DEF Statement, Todo
  <2>3. kindOf(r) # "create" => rows' = rows /\ job' = job /\ Clean(r)'
    BY <1>1, <2>1 DEF Effect, Clean
  <2>4. /\ rows' \in [Requests -> RowStates] /\ job' \in [Requests -> JobStates]
        /\ \A q \in Requests \ {r} : rows'[q] = rows[q] /\ job'[q] = job[q]
        /\ job'[r] = job[r] \/ (job[r] = "none" /\ job'[r] = "waiting")
    BY <1>1, <1>3, <2>1 DEF Effect, RowStates, JobStates, Clean, Half
  <2>5. kindOf(r) = "create" /\ todo = <<"db", "queue">> => Half(r)' /\ Tail(todo) = <<"queue">>
    BY <1>1, <1>3, <2>1 DEF Effect, Half, Clean
  <2>6. kindOf(r) = "create" /\ todo = <<"queue">> => Whole(r)'
    BY <1>1, <1>3, <2>1 DEF Effect, Half, Whole
  <2>7. CASE Len(todo) > 1 /\ Goes(r, "run", Tail(todo))
    <3>1. /\ req' \in [Requests -> ReqStates] /\ \A q \in Requests \ {r} : req'[q] = req[q]
          /\ req'[r].pc = "run" /\ req'[r].todo = Tail(todo) /\ req'[r].reply = "none"
      BY <1>0, <1>1, <1>2, <2>7, GoesIs DEF DInv, RequestInv, Connected
    <3>2. kindOf(r) = "create" => Half(r)' /\ Tail(todo) = <<"queue">>
      <4>1. todo # <<"queue">>
        <5>1. Len(<<"queue">>) = 1 /\ ~(1 > 1)
          OBVIOUS
        <5> QED
          BY <2>7, <5>1, Zenon
      <4> QED
        BY <1>3, <2>5, <4>1
    <3>3. Handled(r)'
      BY <1>0, <1>1, <2>1, <3>1, <3>2 DEF RequestInv, Handled, kindOf
    <3>4. Made(r)'
      BY <1>0, <2>3, <3>1, <3>2 DEF Made, kindOf
    <3>5. RequestInv(r)'
      BY <1>0, <1>2, <2>7, <3>3, <3>4, GoneOn
    <3> QED
      BY <1>0, <2>1, <2>4, <3>1, <3>5, Requested
  <2>8. CASE kindOf(r) = "stream" /\ Goes(r, "stream", <<>>)
    <3>1. /\ req' \in [Requests -> ReqStates] /\ \A q \in Requests \ {r} : req'[q] = req[q]
          /\ req'[r].pc = "stream" /\ req'[r].reply = "none"
      BY <1>0, <1>1, <1>2, <2>8, GoesIs DEF DInv, RequestInv, Connected
    <3>2. Handled(r)' /\ Made(r)'
      BY <1>0, <2>3, <2>8, <3>1 DEF Handled, Made, kindOf
    <3>3. RequestInv(r)'
      BY <1>0, <1>2, <2>8, <3>2, GoneOn
    <3> QED
      BY <1>0, <2>1, <2>4, <3>1, <3>3, Requested
  <2>9. CASE Len(todo) = 1 /\ Ends(r, Success(kindOf(r)))
    <3>1. /\ Success(kindOf(r)) \in Replies \ {"none"}
          /\ Success(kindOf(r)) = "202" <=> kindOf(r) = "create"
      BY <1>1, Successes DEF kindOf
    <3>2. kindOf(r) = "create" => Whole(r)'
      BY <1>3, <2>6, <2>9
    <3>3. RequestInv(r)'
      BY <1>0, <2>3, <2>9, <3>1, <3>2, Answered
    <3>4. req' \in [Requests -> ReqStates] /\ \A q \in Requests \ {r} : req'[q] = req[q]
      BY <2>9, <3>1, EndsIs DEF DInv
    <3> QED
      BY <1>0, <2>1, <2>4, <3>3, <3>4, Requested
  <2> QED
    BY <2>2, <2>7, <2>8, <2>9
<1> QED
  BY <1>4, <1>5

(* A statement fails: a creation without its job goes on to roll back.      *)
LEMMA ThrowKeeps ==
    ASSUME DInv, UNCHANGED workerVars, NEW r \in Requests, StatementThrows(r)
    PROVE  DInv'
<1>0. req[r].pc = "run" /\ req[r].todo # <<>> /\ UNCHANGED <<processVars, ask>> /\ Caught(r)
  BY DEF StatementThrows, Todo
<1>1. /\ RequestInv(r) /\ req[r] \in ReqStates /\ ask[r] \in [kind : RequestKinds, flaw : Flaws]
      /\ rows \in [Requests -> RowStates] /\ job \in [Requests -> JobStates]
      /\ kindOf(r) # "create" => Clean(r)
  BY <1>0, RunningIs
<1>2. kindOf(r) = "create" =>
          /\ ask[r].flaw = "none"
          /\ (req[r].todo = <<"db", "queue">> /\ Clean(r)) \/ (req[r].todo = <<"queue">> /\ Half(r))
  <2>1. <<"db", "queue">> # <<"queue">>
    OBVIOUS
  <2> QED
    BY <1>0, <1>1, <2>1 DEF RequestInv, Handled, Made
<1>3. /\ rows' \in [Requests -> RowStates] /\ job' \in [Requests -> JobStates]
      /\ \A q \in Requests \ {r} : rows'[q] = rows[q] /\ job'[q] = job[q]
      /\ job'[r] = job[r] \/ (job[r] = "none" /\ job'[r] = "waiting")
      /\ faulty \subseteq faulty' /\ faulty' \subseteq faulty \cup {r}
      /\ (rows' = rows /\ job' = job) \/ (r \in faulty' /\ Effect(r, Head(req[r].todo)))
  <2>1. (rows' = rows /\ job' = job /\ faulty' = faulty)
        \/ (faulty' = faulty \cup {r}
            /\ (Effect(r, Head(req[r].todo)) \/ (rows' = rows /\ job' = job)))
    BY DEF StatementThrows, Todo, sharedVars, Fault
  <2>2. CASE rows' = rows /\ job' = job
    BY <1>1, <2>1, <2>2
  <2>3. CASE Effect(r, Head(req[r].todo)) /\ faulty' = faulty \cup {r}
    BY <1>1, <1>2, <2>3 DEF Effect, RowStates, JobStates, Clean, Half
  <2> QED
    BY <2>1, <2>2, <2>3
<1>4. /\ kindOf(r) # "create" => Clean(r)'
      /\ r \notin faulty' => (Clean(r) => Clean(r)') /\ (Half(r) => Half(r)')
  <2>1. kindOf(r) # "create" => rows' = rows /\ job' = job
    BY <1>3 DEF Effect
  <2>2. r \notin faulty' => rows' = rows /\ job' = job
    BY <1>3
  <2> QED
    BY <1>1, <2>1, <2>2 DEF Clean, Half
<1>5. ASSUME NEW reply \in {"500", "503"}, Ends(r, reply), kindOf(r) = "create" => reply = "500",
             kindOf(r) = "create" => req[r].todo = <<"db", "queue">>
      PROVE  DInv'
  <2>1. reply \in Replies /\ reply \notin {"none", "202"}
    BY <1>5 DEF Replies
  <2>2. kindOf(r) = "create" => Clean(r)' \/ (reply = "500" /\ r \in faulty')
    <3>1. <<"db", "queue">> # <<"queue">>
      OBVIOUS
    <3> QED
      BY <1>2, <1>4, <1>5, <3>1
  <2>3. RequestInv(r)'
    BY <1>0, <1>4, <1>5, <2>1, <2>2, Answered
  <2>4. req' \in [Requests -> ReqStates] /\ \A q \in Requests \ {r} : req'[q] = req[q]
    BY <1>5, <2>1, EndsIs DEF DInv
  <2> QED
    BY <1>0, <1>3, <2>3, <2>4, Requested
<1>6. CASE kindOf(r) = "create" /\ Head(req[r].todo) = "queue" /\ Goes(r, "rollback", <<>>)
  <2>0. <<>> \in Seq(All)
    OBVIOUS
  <2>1. /\ req' \in [Requests -> ReqStates] /\ \A q \in Requests \ {r} : req'[q] = req[q]
        /\ req'[r].pc = "rollback" /\ req'[r].at = req[r].at /\ req'[r].reply = "none"
    BY <1>0, <1>1, <1>6, <2>0, GoesIs DEF DInv, RequestInv, Connected
  <2>2. r \notin faulty' => Half(r)'
    <3>1. Head(<<"db", "queue">>) # "queue"
      OBVIOUS
    <3> QED
      BY <1>2, <1>4, <1>6, <3>1
  <2>3. Handled(r)' /\ Made(r)'
    BY <1>0, <1>2, <1>6, <2>1, <2>2 DEF Handled, Made, kindOf
  <2>4. RequestInv(r)'
    BY <1>0, <1>6, <2>0, <2>3, GoneOn
  <2> QED
    BY <1>0, <1>3, <2>1, <2>4, Requested
<1>7. CASE kindOf(r) = "ready" /\ Throws(r, "ServiceUnavailableException")
  BY <1>5, <1>7, ErrorReplies DEF Throws
<1>8. CASE ~(kindOf(r) = "create" /\ Head(req[r].todo) = "queue") /\ Throws(r, "Error")
  <2>1. kindOf(r) = "create" => req[r].todo = <<"db", "queue">>
    <3>1. Head(<<"queue">>) = "queue"
      OBVIOUS
    <3> QED
      BY <1>2, <1>8, <3>1
  <2> QED
    BY <1>5, <1>8, <2>1, ErrorReplies DEF Throws
<1> QED
  BY <1>0, <1>6, <1>7, <1>8 DEF Caught, Todo

(* The rollback finds the pool open if the client still waits, and then     *)
(* leaves a row or a job behind only if a statement met an error.           *)
LEMMA RollbackKeeps ==
    ASSUME DInv, UNCHANGED workerVars, NEW r \in Requests, Rollback(r)
    PROVE  DInv'
<1>0. /\ req[r].pc = "rollback" /\ Alive(req[r].at) /\ UNCHANGED <<processVars, job, ask>>
      /\ Ends(r, "500")
      /\ \/ deleteById(r) /\ faulty' = faulty
         \/ "db" \notin open[req[r].at] /\ rows' = rows /\ faulty' = faulty
         \/ (deleteById(r) \/ rows' = rows) /\ faulty' = faulty \cup {r}
  BY ErrorReplies DEF Rollback, Running, Throws, Fault, Has
<1>1. /\ RequestInv(r) /\ req[r] \in ReqStates
      /\ rows \in [Requests -> RowStates] /\ job \in [Requests -> JobStates]
      /\ open \in [Processes -> SUBSET All] /\ req[r].at \in Processes
  BY <1>0, RunningIs
<1>2. /\ kindOf(r) = "create" /\ (r \notin faulty => Half(r))
      /\ phase[req[r].at] \in Served
      /\ req[r].conn = "open" => phase[req[r].at] \notin Closed
  BY <1>0, <1>1 DEF RequestInv, Handled, Made, Connected
<1>3. req[r].conn = "open" => "db" \in open[req[r].at]
  <2>1. Fits(phase[req[r].at], open[req[r].at])
    BY <1>1 DEF DInv, OpenInv
  <2> QED
    BY <1>0, <1>2, <2>1 DEF Fits, Served, Closed, Alive, Over, All
<1>4. req[r].conn = "open" => Clean(r)' \/ r \in faulty'
  BY <1>0, <1>1, <1>2, <1>3 DEF deleteById, Clean, Half
<1>5. /\ rows' \in [Requests -> RowStates]
      /\ \A q \in Requests \ {r} : rows'[q] = rows[q] /\ job'[q] = job[q]
      /\ faulty \subseteq faulty' /\ faulty' \subseteq faulty \cup {r}
  BY <1>0, <1>1 DEF deleteById, RowStates
<1>6. "500" \in Replies /\ "500" \notin {"none", "202"}
  BY DEF Replies
<1>7. RequestInv(r)'
  BY <1>0, <1>2, <1>4, <1>6, Answered
<1>8. req' \in [Requests -> ReqStates] /\ \A q \in Requests \ {r} : req'[q] = req[q]
  BY <1>0, <1>6, EndsIs DEF DInv
<1> QED
  BY <1>0, <1>1, <1>5, <1>7, <1>8, Requested

(* A check that times out, a stream that ends.                              *)
LEMMA EndKeeps ==
    ASSUME DInv, UNCHANGED workerVars, NEW r \in Requests, CheckTimesOut(r) \/ StreamEnds(r)
    PROVE  DInv'
<1>1. CASE CheckTimesOut(r)
  <2>1. /\ req[r].pc = "run" /\ kindOf(r) = "ready" /\ UNCHANGED <<processVars, sharedVars, ask>>
        /\ Ends(r, resolveException("ServiceUnavailableException"))
    BY <1>1 DEF CheckTimesOut, Throws
  <2>2. Ends(r, "503") /\ "503" \in Replies \ {"none", "202"}
    BY <2>1, ErrorReplies DEF Replies
  <2> QED
    BY <2>1, <2>2, Replied
<1>2. CASE StreamEnds(r)
  <2>1. /\ req[r].pc = "stream" /\ Ends(r, "200") /\ "200" \in Replies \ {"none", "202"}
        /\ UNCHANGED <<processVars, sharedVars, ask>>
    BY <1>2 DEF StreamEnds, Replies
  <2>2. kindOf(r) # "create"
    BY <2>1 DEF DInv, RequestInv, Handled
  <2> QED
    BY <2>1, <2>2, Replied
<1> QED
  BY <1>1, <1>2

(* The reply has been sent, or the client has left.                         *)
LEMMA LeaveKeeps ==
    ASSUME DInv, UNCHANGED workerVars, NEW r \in Requests, Finish(r) \/ ClientLeaves(r)
    PROVE  DInv'
<1>0. /\ RequestInv(r) /\ req \in [Requests -> ReqStates] /\ req[r] \in ReqStates
      /\ rows \in [Requests -> RowStates] /\ job \in [Requests -> JobStates]
  BY DEF DInv, DType, ProcessType, RowStates, JobStates
<1>1. req[r].conn = "open" /\ UNCHANGED <<processVars, sharedVars, ask>>
  BY DEF Finish, ClientLeaves
<1>2. req[r].log = <<>> /\ req[r].pc # "new" /\ phase[req[r].at] \in Served
  BY <1>0, <1>1 DEF RequestInv, Connected, Lined
<1>3. Append(<<>>, "finish") = <<"finish">> /\ Append(<<>>, "aborted") = <<"aborted">>
  OBVIOUS
<1>4. /\ <<"finish">> \in Seq({"finish", "aborted"}) /\ <<"aborted">> \in Seq({"finish", "aborted"})
      /\ <<>> \in Seq({"finish", "aborted"})
  OBVIOUS
<1>5. ASSUME NEW q \in ReqStates, req' = [req EXCEPT ![r] = q],
             q.at = req[r].at, q.todo = req[r].todo, q.reply = req[r].reply,
             q.pc = req[r].pc \/ (req[r].pc = "stream" /\ q.pc = "ended" /\ q.conn = "gone"),
             \/ q.conn = "closed" /\ q.log = (IF Unparsed(r) THEN <<>> ELSE <<"finish">>)
                /\ req[r].pc = "ended"
             \/ q.conn = "gone" /\ q.log = <<>> /\ req[r].pc = "ended"
             \/ q.conn = "gone" /\ q.log = <<"aborted">> /\ req[r].pc # "ended"
      PROVE  DInv'
  <2>1. req'[r] = q /\ req' \in [Requests -> ReqStates] /\ \A x \in Requests \ {r} : req'[x] = req[x]
    BY <1>0, <1>5
  <2>2. Connected(r)'
    BY <1>0, <1>1, <1>2, <1>5, <2>1 DEF RequestInv, Connected, processVars
  <2>3. Lined(r)' /\ Asked(r)'
    BY <1>0, <1>1, <1>5, <2>1 DEF RequestInv, Connected, Lined, Asked, kindOf, Unparsed
  <2>4. Handled(r)'
    BY <1>0, <1>1, <1>5, <2>1 DEF RequestInv, Handled, kindOf, sharedVars
  <2>5. Made(r)'
    BY <1>0, <1>1, <1>2, <1>5, <2>1
       DEF RequestInv, Made, Failed, kindOf, Clean, Half, Whole, sharedVars
  <2>6. RequestInv(r)'
    BY <2>2, <2>3, <2>4, <2>5 DEF RequestInv
  <2> QED
    BY <1>0, <1>1, <2>1, <2>6, Requested DEF sharedVars
<1>6. CASE Finish(r)
  <2> DEFINE log == IF Unparsed(r) THEN <<>> ELSE <<"finish">>
             q == [req[r] EXCEPT !.conn = "closed", !.log = log]
  <2>1. req[r].pc = "ended" /\ req' = [req EXCEPT ![r] = q]
    BY <1>0, <1>2, <1>3, <1>6 DEF Finish
  <2>2. log \in Seq({"finish", "aborted"})
    BY <1>4
  <2>3. /\ q \in ReqStates /\ q.at = req[r].at /\ q.todo = req[r].todo /\ q.reply = req[r].reply
        /\ q.pc = req[r].pc /\ q.conn = "closed" /\ q.log = log
    BY <1>0, <2>2 DEF ReqStates
  <2> HIDE DEF q
  <2> QED
    BY <1>5, <2>1, <2>3
<1>7. CASE ClientLeaves(r)
  <2> DEFINE log == IF req[r].pc = "ended" THEN <<>> ELSE <<"aborted">>
             pc == IF req[r].pc = "stream" THEN "ended" ELSE req[r].pc
             q == [req[r] EXCEPT !.conn = "gone", !.log = log, !.pc = pc]
  <2>1. log \in Seq({"finish", "aborted"}) /\ pc \in {"run", "rollback", "ended"}
    BY <1>0, <1>2, <1>4 DEF ReqStates
  <2>2. req' = [req EXCEPT ![r] = q]
    BY <1>0, <1>2, <1>3, <1>7 DEF ClientLeaves, Leaves
  <2>3. /\ q \in ReqStates /\ q.at = req[r].at /\ q.todo = req[r].todo /\ q.reply = req[r].reply
        /\ q.pc = pc /\ q.conn = "gone" /\ q.log = log
    BY <1>0, <2>1 DEF ReqStates
  <2> HIDE DEF q
  <2> QED
    BY <1>5, <2>2, <2>3
<1> QED
  BY <1>6, <1>7

-----------------------------------------------------------------------------
(* The deployment *)

(* Nothing has been asked of the first processes, which have just started.  *)
LEMMA DInvInitially ==
    ASSUME DeploymentInit
    PROVE  DInv
<1> USE DEF DeploymentInit, ProcessInit, ApiInit, WorkerInit
<1>1. DType
  <2>1. ProcessType
    BY DEF ProcessType, Phases, Booting
  <2>2. WorkerType
    BY WorkerAssumption DEF WorkerType, Idle
  <2>3. <<>> \in Seq(All) /\ <<>> \in Seq({"finish", "aborted"})
    OBVIOUS
  <2>4. req \in [Requests -> ReqStates]
    BY <2>3 DEF ReqStates, Replies
  <2> QED
    BY <2>1, <2>2, <2>4 DEF DType
<1>2. OpenInv
  BY DEF OpenInv, Fits, Over
<1>3. WorkInv /\ HoldInv /\ StallInv
  BY DEF WorkInv, WorkerDrains, HoldInv, StallInv, Idle, Processes
<1>4. ASSUME NEW r \in Requests PROVE RequestInv(r)
  <2>1. /\ req[r].pc = "new" /\ req[r].reply = "none" /\ req[r].conn = "none" /\ req[r].log = <<>>
        /\ Clean(r)
    BY DEF Clean
  <2>2. Connected(r) /\ Lined(r) /\ Handled(r) /\ Made(r)
    BY <2>1 DEF Connected, Lined, Handled, Made
  <2>3. Asked(r)
    <3>1. ask[r].flaw \in {"none"} \cup ToSet(Checks(ask[r].kind) \o LateChecks(ask[r].kind))
                          \cup (IF ask[r].kind \in {"result", "progress"} THEN {"id"} ELSE {})
      OBVIOUS
    <3> QED
      BY <3>1, CreateChecks DEF Asked, kindOf
  <2> QED
    BY <2>2, <2>3 DEF RequestInv
<1> QED
  BY <1>1, <1>2, <1>3, <1>4 DEF DInv

(* Every step of a process, a request or a worker keeps the invariant.      *)
LEMMA DInvKept ==
    ASSUME DInv, [DeploymentNext]_deploymentVars
    PROVE  DInv'
<1>1. CASE \E p \in Processes :
              (LifeStep(p) \/ BootFails(p) \/ Sigterm(p) \/ Kill(p)) /\ UNCHANGED <<apiVars, workerVars>>
  BY <1>1, LifeKeeps
<1>2. CASE ApiNext /\ UNCHANGED workerVars
  BY <1>2, ServerKeeps, ArriveKeeps, StatementKeeps, ThrowKeeps, RollbackKeeps, EndKeeps, LeaveKeeps
     DEF ApiNext, HandlerStep
<1>3. CASE WorkerNext /\ UNCHANGED apiVars
  BY <1>3, WorkerMoves, WorkerKeeps, StallKeeps DEF WorkerNext
<1>4. CASE UNCHANGED deploymentVars
  BY <1>4 DEF deploymentVars, processVars, sharedVars, apiVars, workerVars, DInv, DType,
     ProcessType, WorkerType, OpenInv, WorkInv, WorkerDrains, HoldInv, StallInv, RequestInv,
     Connected, Lined, Asked, Handled, Made, Failed, Clean, Half, Whole, kindOf, Unparsed
<1> QED
  BY <1>1, <1>2, <1>3, <1>4 DEF DeploymentNext

(* Phases, connections, requests, rows and jobs fit together at every       *)
(* moment of a rolling deployment: the invariant the other theorems rest on. *)
THEOREM DeploymentInvariant == DeploymentSpec => []DInv
BY DInvInitially, DInvKept, PTL DEF DeploymentSpec

(* Whatever is started, stopped, killed, asked or abandoned, the variables  *)
(* of the processes, of their requests and of their jobs keep their types.  *)
THEOREM DeploymentTypeCorrect == DeploymentSpec => []DeploymentType
<1>1. DInv => DeploymentType
  BY DEF DInv, DType, DeploymentType, ApiType, ReqStates
<1> QED
  BY <1>1, DeploymentInvariant, PTL

(* The destroy hooks of the processors come first: no worker, of any        *)
(* number, closes a connection or exits with a job in its hands, and none   *)
(* takes a job it has no connections for.                                   *)
THEOREM WorkersDrain == DeploymentSpec => []WorkerDrains
<1>1. DInv => WorkerDrains
  BY DEF DInv, WorkInv
<1> QED
  BY <1>1, DeploymentInvariant, PTL

(* While the client waits, the server is not closed, and until it is, the   *)
(* pool is there for the rollback: a process that exits by itself and met   *)
(* no error leaves no row without a job.                                    *)
THEOREM GracefulLeavesNoOrphan == DeploymentSpec => []NoOrphanRow
<1>1. ASSUME DInv PROVE NoOrphanRow
  <2> SUFFICES ASSUME NEW r \in Requests, req[r].at \in Apis, Graceful(req[r].at),
                      req[r].conn # "gone", r \notin faulty
               PROVE  rows[r] = "ABSENT" <=> job[r] = "none"
    BY DEF NoOrphanRow
  <2>1. RequestInv(r) /\ req[r].conn \in {"none", "open", "closed", "gone"}
    BY <1>1 DEF DInv, DType, ReqStates
  <2>2. req[r].conn = "none" \/ req[r].conn = "closed"
    BY <2>1 DEF RequestInv, Connected, Graceful, Closed
  <2> QED
    BY <2>1, <2>2 DEF RequestInv, Connected, Made, Failed, Clean, Whole
<1> QED
  BY <1>1, DeploymentInvariant, PTL

(* The answer a client gets agrees with what was written, wherever the      *)
(* handler was when the connections of its process began to close and       *)
(* though any statement, done or not, may throw: what remains after another *)
(* answer than 202 remains after a 500 for an error that was met.           *)
THEOREM AnswersAreTrue == DeploymentSpec => []AnswerIsTrue
<1>1. DInv => AnswerIsTrue
  BY DEF DInv, RequestInv, Made, Failed, Clean, Whole, AnswerIsTrue
<1> QED
  BY <1>1, DeploymentInvariant, PTL

(* HttpLoggerMiddleware logs a request at most once and as it ended, though *)
(* its finish and close listeners run in either order of events.            *)
THEOREM LoggedOnceAsEnded == DeploymentSpec => []LoggedAsItEnded
<1>1. ASSUME DInv PROVE LoggedAsItEnded
  <2>1. Len(<<>>) = 0 /\ Len(<<"finish">>) = 1 /\ Len(<<"aborted">>) = 1
        /\ <<"aborted">> # <<>> /\ <<"aborted">> # <<"finish">>
    OBVIOUS
  <2> SUFFICES ASSUME NEW r \in Requests
               PROVE  /\ Len(req[r].log) <= 1
                      /\ req[r].conn = "closed" /\ ~Unparsed(r) => req[r].log = <<"finish">>
                      /\ req[r].log = <<"aborted">> => req[r].conn = "gone" /\ req[r].reply = "none"
    BY DEF LoggedAsItEnded
  <2>2. Lined(r) /\ req[r].conn \in {"none", "open", "closed", "gone"}
    BY <1>1 DEF DInv, DType, ReqStates, RequestInv
  <2>3. req[r].log = <<>> \/ req[r].log = <<"finish">> \/ req[r].log = <<"aborted">>
    BY <2>2 DEF Lined
  <2>4. Len(req[r].log) <= 1
    <3>1. Len(req[r].log) = 0 \/ Len(req[r].log) = 1
      BY <2>1, <2>3, Zenon
    <3>2. 0 <= 1 /\ 1 <= 1
      OBVIOUS
    <3> QED
      BY <3>1, <3>2, Zenon
  <2> QED
    BY <2>1, <2>2, <2>4 DEF Lined
<1> QED
  BY <1>1, DeploymentInvariant, PTL
=============================================================================
