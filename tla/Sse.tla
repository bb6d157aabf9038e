--------------------------------- MODULE Sse ---------------------------------
(***************************************************************************)
(* GET /tasks/:id/stream: SseService.stream for one client that reconnects *)
(* with Last-Event-ID, over the task's EventFeed.  Every connection has    *)
(* its own Redis client and closure, so one client stands for all.         *)
(*                                                                         *)
(* A callback of the Node process is not interrupted: while history and    *)
(* buffer are replayed ("replaying", "draining") no message is handled,    *)
(* but other processes go on, so each iteration of those loops is a step.  *)
(*                                                                         *)
(* The position a client resumes from is the id of the last message it     *)
(* read.  SseService numbers its events but neither the ping nor an error; *)
(* NestJS's SseStream gives a message without an id one of its own.        *)
(***************************************************************************)
EXTENDS EventFeed

CONSTANTS MAX_LIVE_BUFFER_SIZE, \* 500 in the code
          Glitches,     \* what the environment may do; see below
          MaxEvents,    \* bound: events of the task
          MaxWire,      \* bound: messages on their way to the subscriber
          MaxDrops,     \* bound: connections, of client or publisher, that break
          MaxBeats      \* bound: heartbeats the client reads

\* "subscribe": SUBSCRIBE reaches Redis after the history query ran (nothing
\*   awaits it); "overtake": of two handlers, the one that logged later publishes
\*   first; "duplicate": the Redis client resends a PUBLISH whose reply was lost.
ASSUME SseAssumption ==
    /\ MAX_LIVE_BUFFER_SIZE \in Nat /\ MaxEvents \in Nat
    /\ MaxWire \in Nat /\ MaxDrops \in Nat /\ MaxBeats \in Nat
    /\ Glitches \subseteq {"subscribe", "overtake", "duplicate"}

VARIABLES conn,         \* where the connection's callbacks stand
          subscribed,   \* the channel subscription is in effect at Redis
          wire,         \* messages pushed to subClient and not yet handled
          history,      \* rows of the history query not yet replayed
          afterSeq, highestHistorySeq, liveBuffer,  \* of stream's closure
          pipe,         \* seqs sent over the connection and not yet received
          received,     \* seqs received over it
          drops         \* connections broken so far

VARIABLES lastSeen,     \* the id EventSource sends as Last-Event-ID
          counter,      \* lastEventId of the connection's SseStream
          beats         \* heartbeats read so far

\* History variables, read only by the properties.
VARIABLES seen,         \* the seqs of all events the client has received
          foreign,      \* the highest id of SseStream's the client has read
          queried,      \* how long the log was when the history query ran
          unheard,      \* logged after the query, published before SUBSCRIBE
          overtaken     \* logged after the query, a later one published first

idVars == <<lastSeen, counter, beats, seen, foreign>>
raceVars == <<queried, unheard, overtaken>>
sseVars == <<conn, subscribed, wire, history, afterSeq, highestHistorySeq, liveBuffer,
             pipe, received, drops, idVars, raceVars>>
streamVars == <<feedVars, sseVars>>

Phases == {"closed", "querying", "fetched", "replaying", "draining", "live"}
Loaded == {"fetched", "replaying", "draining", "live"}
Seqs == 1..MaxEvents

-----------------------------------------------------------------------------
(* Closing: complete, error or the client's unsubscribe run the teardown. *)

Teardown ==
    /\ conn' = "closed" /\ subscribed' = FALSE
    /\ wire' = <<>> /\ history' = <<>> /\ liveBuffer' = <<>>

\* subscriber.next: the event leaves for the client and is the highest so far.
Send(s) == pipe' = Append(pipe, s) /\ highestHistorySeq' = s

KeepOpen == UNCHANGED <<conn, subscribed>>

(* The client *)

\* The client connects, having read all that its last connection brought:
\* subscribe and query are under way.
Open ==
    /\ conn = "closed" /\ pipe = <<>>
    /\ conn' = "querying" /\ subscribed' = FALSE
    /\ afterSeq' = lastSeen /\ highestHistorySeq' = lastSeen
    /\ received' = <<>> /\ counter' = 0
    /\ UNCHANGED <<feedVars, wire, history, liveBuffer, pipe, drops,
                   lastSeen, beats, seen, foreign, raceVars>>

\* The client reads the next event, which has its seq for an id (toMessageEvent).
ClientReceives ==
    /\ pipe # <<>>
    /\ received' = Append(received, Head(pipe))
    /\ pipe' = Tail(pipe)
    /\ lastSeen' = Head(pipe) /\ seen' = seen \cup {Head(pipe)}
    /\ UNCHANGED <<feedVars, conn, subscribed, wire, history, afterSeq, highestHistorySeq,
                   liveBuffer, drops, counter, beats, foreign, raceVars>>

(* SseStream.writeMessage *)

\* The client reads a message that had no id of its own.
ReadsNumbered(id) ==
    /\ lastSeen' = id
    /\ foreign' = IF id > foreign THEN id ELSE foreign

\* writeMessage stores the id it assigns in the message, and HEARTBEAT_EVENT is
\* one object for the whole process: it keeps the id of the process's first ping,
\* the first its stream assigned.
HEARTBEAT_EVENT == [type |-> "ping", id |-> 1]

\* The timer fires, which interrupts no callback, and the client reads the ping,
\* after all that was sent before.  The stream's counter moves if this is the
\* process's first.
Ping ==
    /\ conn \in {"querying", "fetched", "live"} /\ pipe = <<>>
    /\ beats < MaxBeats
    /\ beats' = beats + 1
    /\ ReadsNumbered(HEARTBEAT_EVENT.id)
    /\ counter' \in {counter, HEARTBEAT_EVENT.id}
    /\ UNCHANGED <<feedVars, conn, subscribed, wire, history, afterSeq, highestHistorySeq,
                   liveBuffer, pipe, received, drops, seen, raceVars>>

\* subscriber.error: SseStream tells the client in a message it numbers, which
\* the end of the response may overtake.
ErrorMessage ==
    /\ UNCHANGED <<lastSeen, foreign>> \/ ReadsNumbered(counter + 1)
    /\ UNCHANGED <<counter, beats, seen>>

\* The client leaves, the network fails, the query rejects, SUBSCRIBE fails or
\* subClient reports an error: what is on its way to the client is lost.
ConnectionBreaks ==
    /\ conn # "closed" \/ pipe # <<>>
    /\ drops < MaxDrops
    /\ Teardown
    /\ ErrorMessage
    /\ pipe' = <<>> /\ received' = <<>>
    /\ drops' = drops + 1
    /\ UNCHANGED <<feedVars, afterSeq, highestHistorySeq, raceVars>>

(* Redis and Postgres *)

\* SUBSCRIBE takes effect.
Subscribe ==
    /\ conn # "closed" /\ ~subscribed
    /\ subscribed' = TRUE
    /\ UNCHANGED <<feedVars, conn, wire, history, afterSeq, highestHistorySeq, liveBuffer,
                   pipe, received, drops, idVars, raceVars>>

Rows_inclusive == [i \in 1..(Len(log) - afterSeq + 1) |-> afterSeq + i - 1]
Rows_skipsOne == [i \in 1..(Len(log) - afterSeq - 1) |-> afterSeq + i + 1]

\* findEventsSince(taskId, afterSeq): seq > afterSeq, ordered by seq.
Rows == [i \in 1..(Len(log) - afterSeq) |-> afterSeq + i]

\* The query runs; its rows are on their way to the callback.
Query ==
    /\ conn = "querying"
    /\ subscribed \/ "subscribe" \in Glitches
    /\ history' = Rows
    /\ conn' = "fetched"
    /\ queried' = Len(log)
    /\ UNCHANGED <<feedVars, subscribed, wire, afterSeq, highestHistorySeq, liveBuffer,
                   pipe, received, drops, idVars, unheard, overtaken>>

(* The writers of EventFeed *)

Writes(type) ==
    /\ Len(log) < MaxEvents
    /\ LogEvent(type)
    /\ UNCHANGED sseVars

\* The publish reaches the streams subscribed at that moment, and no other.  A
\* second one of the same event follows a broken connection of the publisher.
Publishes(s) ==
    /\ PublishEvent(s)
    /\ IF s \in published
       THEN "duplicate" \in Glitches /\ drops < MaxDrops /\ drops' = drops + 1
       ELSE UNCHANGED drops
    /\ "overtake" \in Glitches \/ \A r \in 1..(s - 1) : r \in published
    /\ Len(wire) < MaxWire
    /\ wire' = IF subscribed THEN Append(wire, s) ELSE wire
    /\ unheard' = IF conn \in Loaded /\ ~subscribed /\ s > queried
                  THEN unheard \cup {s} ELSE unheard
    /\ overtaken' = IF conn \in Loaded
                    THEN overtaken \cup {r \in (queried + 1)..(s - 1) : r \notin published}
                    ELSE overtaken
    /\ UNCHANGED <<conn, subscribed, history, afterSeq, highestHistorySeq, liveBuffer,
                   pipe, received, idVars, queried>>

-----------------------------------------------------------------------------
(* The callback of the history query *)

\* The callback starts.
Replay ==
    /\ conn = "fetched"
    /\ conn' = "replaying"
    /\ UNCHANGED <<feedVars, subscribed, wire, history, afterSeq, highestHistorySeq,
                   liveBuffer, pipe, received, drops, idVars, raceVars>>

\* One row of the history; a terminal one completes the stream.
ReplayRow ==
    /\ conn = "replaying" /\ history # <<>>
    /\ Send(Head(history))
    /\ IF Ends(Head(history)) THEN Teardown
       ELSE history' = Tail(history) /\ KeepOpen /\ UNCHANGED <<wire, liveBuffer>>
    /\ UNCHANGED <<feedVars, afterSeq, received, drops, idVars, raceVars>>

ReplayDone_dropsBuffer ==
    /\ conn = "replaying" /\ history = <<>>
    /\ conn' = "draining" /\ liveBuffer' = <<>>
    /\ UNCHANGED <<feedVars, subscribed, wire, history, afterSeq, highestHistorySeq,
                   pipe, received, drops, idVars, raceVars>>

\* historyLoaded = true.
ReplayDone ==
    /\ conn = "replaying" /\ history = <<>>
    /\ conn' = "draining"
    /\ UNCHANGED <<feedVars, subscribed, wire, history, afterSeq, highestHistorySeq,
                   liveBuffer, pipe, received, drops, idVars, raceVars>>

DrainOne_noCompletion ==
    /\ conn = "draining" /\ liveBuffer # <<>>
    /\ IF Head(liveBuffer) > highestHistorySeq
       THEN Send(Head(liveBuffer)) ELSE UNCHANGED <<pipe, highestHistorySeq>>
    /\ liveBuffer' = Tail(liveBuffer)
    /\ KeepOpen
    /\ UNCHANGED <<feedVars, wire, history, afterSeq, received, drops, idVars, raceVars>>

\* One buffered message: skipped if the history had it, and completing the
\* stream if it is terminal.
DrainOne ==
    /\ conn = "draining" /\ liveBuffer # <<>>
    /\ IF Head(liveBuffer) > highestHistorySeq
       THEN /\ Send(Head(liveBuffer))
            /\ IF Ends(Head(liveBuffer)) THEN Teardown
               ELSE liveBuffer' = Tail(liveBuffer) /\ KeepOpen /\ UNCHANGED <<wire, history>>
       ELSE liveBuffer' = Tail(liveBuffer) /\ KeepOpen
            /\ UNCHANGED <<wire, history, pipe, highestHistorySeq>>
    /\ UNCHANGED <<feedVars, afterSeq, received, drops, idVars, raceVars>>

\* The callback returns.
DrainDone ==
    /\ conn = "draining" /\ liveBuffer = <<>>
    /\ conn' = "live"
    /\ UNCHANGED <<feedVars, subscribed, wire, history, afterSeq, highestHistorySeq,
                   liveBuffer, pipe, received, drops, idVars, raceVars>>

(* The 'message' callback *)

BufferMessage_offByOne ==
    /\ conn \in {"querying", "fetched"} /\ wire # <<>>
    /\ Len(liveBuffer) <= MAX_LIVE_BUFFER_SIZE
    /\ liveBuffer' = Append(liveBuffer, Head(wire)) /\ wire' = Tail(wire)
    /\ KeepOpen
    /\ UNCHANGED <<feedVars, history, afterSeq, highestHistorySeq, pipe, received, drops,
                   idVars, raceVars>>

\* Before the history is loaded a message is buffered.
BufferMessage ==
    /\ conn \in {"querying", "fetched"} /\ wire # <<>>
    /\ Len(liveBuffer) < MAX_LIVE_BUFFER_SIZE
    /\ liveBuffer' = Append(liveBuffer, Head(wire)) /\ wire' = Tail(wire)
    /\ KeepOpen
    /\ UNCHANGED <<feedVars, history, afterSeq, highestHistorySeq, pipe, received, drops,
                   idVars, raceVars>>

\* The buffer is full: the stream ends with an error.
BufferOverflows ==
    /\ conn \in {"querying", "fetched"} /\ wire # <<>>
    /\ Len(liveBuffer) >= MAX_LIVE_BUFFER_SIZE
    /\ Teardown
    /\ ErrorMessage
    /\ UNCHANGED <<feedVars, afterSeq, highestHistorySeq, pipe, received, drops, raceVars>>

\* Live, a message is forwarded if it is newer than all before.
LiveMessage ==
    /\ conn = "live" /\ wire # <<>>
    /\ IF Head(wire) > highestHistorySeq
       THEN /\ Send(Head(wire))
            /\ IF Ends(Head(wire)) THEN Teardown
               ELSE wire' = Tail(wire) /\ KeepOpen /\ UNCHANGED <<history, liveBuffer>>
       ELSE wire' = Tail(wire) /\ KeepOpen
            /\ UNCHANGED <<history, liveBuffer, pipe, highestHistorySeq>>
    /\ UNCHANGED <<feedVars, afterSeq, received, drops, idVars, raceVars>>

-----------------------------------------------------------------------------
SseInit ==
    /\ FeedInit
    /\ conn = "closed" /\ subscribed = FALSE
    /\ wire = <<>> /\ history = <<>> /\ liveBuffer = <<>>
    /\ afterSeq = 0 /\ highestHistorySeq = 0
    /\ pipe = <<>> /\ received = <<>> /\ drops = 0
    /\ lastSeen = 0 /\ counter = 0 /\ beats = 0
    /\ seen = {} /\ foreign = 0 /\ queried = 0 /\ unheard = {} /\ overtaken = {}

\* What goes on by itself once a connection is open.
StreamStep ==
    \/ Query \/ Replay \/ ReplayRow \/ ReplayDone \/ DrainOne \/ DrainDone
    \/ BufferMessage \/ BufferOverflows \/ LiveMessage

SseNext ==
    \/ Open \/ ClientReceives \/ Ping \/ ConnectionBreaks \/ Subscribe \/ StreamStep
    \/ \E type \in EventTypes : Writes(type)
    \/ \E s \in DOMAIN log : Publishes(s)

SseSpec == SseInit /\ [][SseNext]_streamVars

(* Fairness: the server's callbacks, the query and SUBSCRIBE take place, and *)
(* a client that is interested keeps reading and reconnects.  A publisher    *)
(* may die before it publishes what it logged.                               *)
SseFairness ==
    /\ WF_streamVars(Open) /\ WF_streamVars(ClientReceives)
    /\ WF_streamVars(Subscribe) /\ WF_streamVars(StreamStep)

FairSseSpec == SseSpec /\ SseFairness

-----------------------------------------------------------------------------
(* Every variable of the stream has its type, and the buffer never holds    *)
(* more than MAX_LIVE_BUFFER_SIZE messages.                                 *)
SseType ==
    /\ log \in Seq(EventTypes) /\ published \subseteq Nat
    /\ conn \in Phases /\ subscribed \in BOOLEAN
    /\ wire \in Seq(Nat) /\ history \in Seq(Nat) /\ liveBuffer \in Seq(Nat)
    /\ Len(liveBuffer) <= MAX_LIVE_BUFFER_SIZE
    /\ afterSeq \in Nat /\ highestHistorySeq \in Nat
    /\ pipe \in Seq(Nat) /\ received \in Seq(Nat)
    /\ drops \in 0..MaxDrops /\ beats \in 0..MaxBeats
    /\ lastSeen \in Nat /\ counter \in 0..1 /\ foreign \in 0..2
    /\ seen \subseteq Nat /\ queried \in Nat
    /\ unheard \subseteq Nat /\ overtaken \subseteq Nat

\* What SseService has sent over the connection.
Sent == received \o pipe

(* Over one connection a client is sent no event twice, none out of order   *)
(* and none that it said it has, whatever the order of publishes, history,  *)
(* buffer and live messages.                                                *)
InOrder ==
    /\ \A i \in DOMAIN Sent : afterSeq < Sent[i]
    /\ \A i, j \in DOMAIN Sent : i < j => Sent[i] < Sent[j]

(* A stream that has sent the task's terminal event is closed.              *)
EndsWithTheEnd == conn # "closed" => \A i \in DOMAIN pipe : ~Ends(pipe[i])

\* The two races that cost a connection an event: it is not among the rows of the
\* history query and its message came before SUBSCRIBE or after a later one's.
LostInARace(s) == s > queried /\ s \in unheard \cup overtaken

(* Whatever lies between the position a client gave and an event it is sent *)
(* is sent to it as well, unless it was logged after the history query and  *)
(* lost in one of the two races: the replay of history and buffer, repeated *)
(* messages and the buffer's limit leave nothing else out.                  *)
GapsExplained ==
    \A i \in DOMAIN Sent : \A s \in (afterSeq + 1)..(Sent[i] - 1) :
        (\E j \in DOMAIN Sent : Sent[j] = s) \/ LostInARace(s)

(* An event that is in the log when a connection asks for the events after  *)
(* a lower position reaches the client, however often connections break and *)
(* buffers overflow from then on; only an id of SseStream's may stand for   *)
(* the events up to it.                                                     *)
HistoryArrives ==
    \A s \in Seqs :
        conn = "querying" /\ afterSeq < s /\ s \in DOMAIN log
            ~> s \in seen \/ s <= foreign

(* A published event reaches the client, at once or in the history of a     *)
(* later connection, unless it is lost in one of the two races or hidden by *)
(* an id of SseStream's.                                                    *)
PublishedArrives ==
    \A s \in Seqs :
        s \in published ~> s \in seen \cup unheard \cup overtaken \/ s <= foreign

(* Every published event reaches a client that keeps reconnecting with the  *)
(* id it read last (StreamController).                                      *)
EveryEventArrives == \A s \in Seqs : s \in published ~> s \in seen

(* A stream goes on until the task's end is reached (SseService.stream).    *)
(* One opened by a client that already has the terminal event never closes. *)
StreamCloses == Ended /\ conn # "closed" ~> conn = "closed"
=============================================================================
