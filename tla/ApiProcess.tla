------------------------------ MODULE ApiProcess ------------------------------
(***************************************************************************)
(* Requests in an API process: middleware, guards, pipes, the handler's    *)
(* statements one by one, the exception filter, the reply and its log      *)
(* line, while the process may be shutting down and the client may leave.  *)
(*                                                                         *)
(* A handler is the sequence of the connections that the statements of its *)
(* longest path need; what they do to tasks and events is in ApiCalls and  *)
(* TaskCreation, what a creation with an idempotency key does besides, in  *)
(* Idempotency.  A request is what it asks for and what is wrong with it.  *)
(***************************************************************************)
EXTENDS NodeProcess, SequencesExt

VARIABLES ask,          \* per request, its kind and its flaw: chosen once
          req           \* per request, where it stands

apiVars == <<ask, req>>

RequestKinds == {"create", "status", "cancel", "result", "progress", "stream", "ready"}

\* syntax, size: a body that is no JSON, or too large; token: no bearer token; key:
\* the wrong key or token; id: not a UUID; body: against the schema; extra: unknown
\* fields; host: no Host header; row: no such task; state: a task whose state
\* forbids the call.
Flaws == {"none", "syntax", "size", "token", "key", "id", "body", "extra", "host",
          "row", "state"}

\* The checks that run before a handler's first statement, in order: the body
\* parser, guards, then the parameters' pipes.  CallbackAuthGuard only extracts a
\* token.
Checks(kind) ==
    CASE kind = "create" -> <<"syntax", "size", "key", "body", "extra", "host">>
      [] kind \in {"status", "cancel", "stream"} -> <<"key", "id">>
      [] kind \in {"result", "progress"} -> <<"syntax", "size", "token">>
      [] OTHER -> <<>>

\* What the body parser refuses: the framework runs it before any middleware.
Unparsed(r) == ask[r].flaw \in {"syntax", "size"}

\* What CallbackAuthGuard and the pipes check once the row is read.  A schema
\* without strict(), such as SubmitResult's union, lets unknown fields pass.
LateChecks(kind) ==
    CASE kind = "result"   -> <<"row", "key", "state", "body">>
      [] kind = "progress" -> <<"row", "key", "state", "body", "extra">>
      [] kind = "cancel"   -> <<"row", "state">>
      [] kind \in {"status", "stream"} -> <<"row">>
      [] OTHER             -> <<>>

\* The connections the handler's statements need, in order.  One that is refused
\* for what it reads gets no further than that: a cancel reads a second time.
Statements(q) ==
    CASE q.flaw # "none" /\ q.kind = "cancel" -> <<"db", "db">>
      [] q.flaw # "none"     -> <<"db">>
      [] q.kind = "create"   -> <<"db", "queue">>
      [] q.kind \in {"status", "stream"} -> <<"db">>
      [] q.kind = "cancel"   -> <<"db", "redis", "queue">>
      [] q.kind = "result"   -> <<"db", "db", "db", "redis", "queue">>
      [] q.kind = "progress" -> <<"db", "db", "db", "redis">>
      [] q.kind = "ready"    -> <<"db", "redis">>

\* What a failed check throws.
Thrown(flaw) ==
    CASE flaw \in {"key", "token"} -> "UnauthorizedException"
      [] flaw \in {"syntax", "id"} -> "BadRequestException"
      [] flaw = "size" -> "Error"
      [] flaw = "host" -> "InternalServerErrorException"
      [] flaw = "row" -> "NotFoundException"
      [] flaw = "state" -> "ConflictException"
      [] flaw \in {"body", "extra"} -> "ZodError"

resolveException_rethrows(e) == IF e = "Error" THEN e ELSE "400"

resolveException(e) ==
    CASE e = "UnauthorizedException" -> "401"
      [] e = "BadRequestException"   -> "400"
      [] e = "NotFoundException"     -> "404"
      [] e = "ConflictException"     -> "409"
      [] e = "ZodError"              -> "400"
      [] e = "ServiceUnavailableException" -> "503"
      [] OTHER                       -> "500"

Success(kind) ==
    CASE kind = "create" -> "202"
      [] kind \in {"cancel", "result", "progress"} -> "204"
      [] OTHER -> "200"

Replies == {"none", "200", "202", "204", "400", "401", "404", "409", "500", "503"}

kindOf(r) == ask[r].kind
Todo(r) == req[r].todo

\* A handler that has its process still under it.
Running(r) == req[r].pc \in {"run", "rollback"} /\ Alive(req[r].at)
Goes(r, pc, todo) == req' = [req EXCEPT ![r].pc = pc, ![r].todo = todo]

\* res.end(): the reply is on its way, if somebody is there to get it.
Ends(r, reply) ==
    req' = [req EXCEPT ![r].pc = "ended", ![r].todo = <<>>,
                       ![r].reply = IF req[r].conn = "open" THEN reply ELSE @]
Throws(r, e) == Ends(r, resolveException(e))

-----------------------------------------------------------------------------
Listen(a) ==
    /\ a \in Apis /\ phase[a] = "init"
    /\ Enter(a, "up")
    /\ UNCHANGED <<open, sharedVars, apiVars>>

\* A request comes in: the server listens until it is closed, after the destroy
\* hooks.  RequestIdMiddleware, HttpLoggerMiddleware, ApiKeyGuard and the pipes
\* are synchronous.
Arrive(r, a) ==
    /\ req[r].pc = "new" /\ a \in Apis /\ phase[a] \in {"up", "destroying"}
    /\ req' = [req EXCEPT ![r] =
          IF ask[r].flaw \in ToSet(Checks(kindOf(r)))
          THEN [@ EXCEPT !.pc = "ended", !.at = a, !.conn = "open",
                         !.reply = resolveException(Thrown(ask[r].flaw))]
          ELSE [@ EXCEPT !.pc = "run", !.at = a, !.conn = "open",
                         !.todo = Statements(ask[r])]]
    /\ UNCHANGED <<processVars, sharedVars, ask>>

\* A statement's effect on the shared state.
Effect(r, resource) ==
    /\ rows' = IF kindOf(r) = "create" /\ resource = "db"
               THEN [rows EXCEPT ![r] = "PENDING"] ELSE rows
    /\ job' = IF kindOf(r) = "create" /\ resource = "queue"
              THEN [job EXCEPT ![r] = "waiting"] ELSE job

\* The check of what was read fails, after the last statement.
Refused(r) == ask[r].flaw # "none" /\ Len(Todo(r)) = 1

\* Postgres cannot read the id CallbackAuthGuard looks up before any pipe saw it.
Unreadable(r) == ask[r].flaw = "id"

\* The next statement runs.  Whether a queue that was closed still adds a job is
\* the queue library's affair.
Statement(r) ==
    /\ Running(r) /\ req[r].pc = "run" /\ Todo(r) # <<>>
    /\ Has(req[r].at, Head(Todo(r))) \/ Head(Todo(r)) = "queue"
    /\ ~Unreadable(r)
    /\ IF Refused(r) THEN Throws(r, Thrown(ask[r].flaw)) /\ UNCHANGED sharedVars
       ELSE /\ Effect(r, Head(Todo(r)))
            /\ UNCHANGED faulty
            /\ CASE Len(Todo(r)) > 1        -> Goes(r, "run", Tail(Todo(r)))
                 [] kindOf(r) = "stream"    -> Goes(r, "stream", <<>>)
                 [] OTHER                   -> Ends(r, Success(kindOf(r)))
    /\ UNCHANGED <<processVars, ask>>

StatementThrows_noRollback(r) ==
    /\ Running(r) /\ req[r].pc = "run" /\ Todo(r) # <<>>
    /\ ~Has(req[r].at, Head(Todo(r)))
    /\ Throws(r, "Error")
    /\ UNCHANGED <<processVars, sharedVars, ask>>

\* What becomes of a statement's error: a creation that cannot enqueue rolls back,
\* a readiness check reports.
Caught(r) ==
    CASE kindOf(r) = "create" /\ Head(Todo(r)) = "queue" -> Goes(r, "rollback", <<>>)
      [] kindOf(r) = "ready" -> Throws(r, "ServiceUnavailableException")
      [] OTHER               -> Throws(r, "Error")

\* The connection is closed or the id unreadable, and the statement throws; or it
\* meets an error (a broken connection, the unique index of the keys, an event
\* whose seq another writer took), done or not.
StatementThrows(r) ==
    /\ Running(r) /\ req[r].pc = "run" /\ Todo(r) # <<>>
    /\ \/ /\ ~Has(req[r].at, Head(Todo(r))) \/ Unreadable(r)
          /\ UNCHANGED sharedVars
       \/ /\ Has(req[r].at, Head(Todo(r))) /\ Fault(r)
          /\ Effect(r, Head(Todo(r))) \/ UNCHANGED <<rows, job>>
    /\ Caught(r)
    /\ UNCHANGED <<processVars, ask>>

deleteById(r) == rows' = [rows EXCEPT ![r] = "ABSENT"]

\* A health check is not answered within its two seconds.
CheckTimesOut(r) ==
    /\ Running(r) /\ req[r].pc = "run" /\ kindOf(r) = "ready"
    /\ Throws(r, "ServiceUnavailableException")
    /\ UNCHANGED <<processVars, sharedVars, ask>>

\* deleteById, whatever the row's status; its own failure is logged, and the
\* enqueue's error thrown.
Rollback(r) ==
    /\ Running(r) /\ req[r].pc = "rollback"
    /\ \/ Has(req[r].at, "db") /\ deleteById(r) /\ UNCHANGED faulty
       \/ ~Has(req[r].at, "db") /\ UNCHANGED <<rows, faulty>>
       \/ /\ Has(req[r].at, "db") /\ Fault(r)
          /\ deleteById(r) \/ UNCHANGED rows
    /\ Throws(r, "Error")
    /\ UNCHANGED <<processVars, job, ask>>

\* The terminal event completes the observable.
StreamEnds(r) ==
    /\ req[r].pc = "stream" /\ Alive(req[r].at)
    /\ Ends(r, "200")
    /\ UNCHANGED <<processVars, sharedVars, ask>>

\* 'finish': all of the reply was sent, and HttpLoggerMiddleware, if it saw the
\* request, logs it.
Finish(r) ==
    /\ req[r].pc = "ended" /\ req[r].conn = "open" /\ Alive(req[r].at)
    /\ req' = [req EXCEPT ![r].conn = "closed",
                          ![r].log = IF Unparsed(r) THEN @ ELSE Append(@, "finish")]
    /\ UNCHANGED <<processVars, sharedVars, ask>>

Leaves_evenEnded(r) == [req[r] EXCEPT !.conn = "gone", !.log = Append(@, "aborted"),
                                      !.pc = IF @ = "stream" THEN "ended" ELSE @]

\* 'close' before 'finish': logged as aborted unless res.end() was called.  It
\* tears a stream down and stops no other handler.
Leaves(r) == [req[r] EXCEPT !.conn = "gone",
                            !.log = IF req[r].pc = "ended" THEN @ ELSE Append(@, "aborted"),
                            !.pc = IF @ = "stream" THEN "ended" ELSE @]

ClientLeaves(r) ==
    /\ req[r].conn = "open" /\ Alive(req[r].at)
    /\ req' = [req EXCEPT ![r] = Leaves(r)]
    /\ UNCHANGED <<processVars, sharedVars, ask>>

CloseServer_atOnce(a) ==
    /\ a \in Apis /\ phase[a] = "disposing"
    /\ Enter(a, "ending")
    /\ UNCHANGED <<open, sharedVars, apiVars>>

Serves_abortedToo(a) == {r \in Requests : req[r].at = a /\ req[r].conn # "closed"}

Serves(a) == {r \in Requests : req[r].at = a /\ req[r].conn = "open"}

\* httpServer.close() calls back once no connection is open.
CloseServer(a) ==
    /\ a \in Apis /\ phase[a] = "disposing"
    /\ Serves(a) = {}
    /\ Enter(a, "ending")
    /\ UNCHANGED <<open, sharedVars, apiVars>>

-----------------------------------------------------------------------------
ApiInit ==
    /\ ask \in [Requests -> {q \in [kind : RequestKinds, flaw : Flaws] :
                  q.flaw \in {"none"} \cup ToSet(Checks(q.kind) \o LateChecks(q.kind))
                             \cup (IF q.kind \in {"result", "progress"} THEN {"id"} ELSE {})}]
    /\ req = [r \in Requests |-> [pc |-> "new", at |-> "nowhere", todo |-> <<>>,
                                  reply |-> "none", conn |-> "none", log |-> <<>>]]

HandlerStep(r) == Statement(r) \/ StatementThrows(r) \/ Rollback(r) \/ Finish(r)

ApiNext ==
    \/ \E a \in Apis : Listen(a) \/ CloseServer(a)
    \/ \E r \in Requests :
          \/ \E a \in Apis : Arrive(r, a)
          \/ HandlerStep(r) \/ CheckTimesOut(r) \/ StreamEnds(r) \/ ClientLeaves(r)

ApiType ==
    /\ ask \in [Requests -> [kind : RequestKinds, flaw : Flaws]]
    /\ \A r \in Requests :
          /\ req[r].pc \in {"new", "run", "rollback", "stream", "ended"}
          /\ req[r].at \in Apis \cup {"nowhere"}
          /\ req[r].reply \in Replies
          /\ req[r].conn \in {"none", "open", "closed", "gone"}
=============================================================================
