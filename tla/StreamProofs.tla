---------------------------- MODULE StreamProofs ----------------------------
(***************************************************************************)
(* The SSE stream, for every number of events, every buffer size and every *)
(* behaviour of Redis.  highestHistorySeq bounds all that was sent over    *)
(* the connection, the rows still to be replayed lie above it, and every   *)
(* other source is compared with it before it is sent.                     *)
(***************************************************************************)
EXTENDS Sse, SequenceTheorems, TLAPS

Increasing(s) == \A i, j \in 1..Len(s) : i < j => s[i] < s[j]
Within(s) == \A i \in 1..Len(s) : afterSeq < s[i] /\ s[i] <= highestHistorySeq

\* What is on its way or received, in order.
SentInv ==
    /\ Increasing(received) /\ Increasing(pipe)
    /\ \A i \in 1..Len(received), j \in 1..Len(pipe) : received[i] < pipe[j]

\* It lies between the client's position and highestHistorySeq.
HighestInv ==
    /\ afterSeq <= highestHistorySeq
    /\ Within(received) /\ Within(pipe)

\* The rows to replay are new and in order.
HistoryInv ==
    /\ Increasing(history)
    /\ conn \notin {"fetched", "replaying"} => history = <<>>
    /\ \A i \in 1..Len(history) : highestHistorySeq < history[i]
    /\ conn = "querying" => highestHistorySeq = afterSeq

\* Whatever is in transit has been logged.
Logged(s) == \A i \in 1..Len(s) : s[i] \in 1..Len(log)
LoggedInv == Logged(wire) /\ Logged(history) /\ Logged(liveBuffer) /\ Logged(pipe)

\* The ids the client has read.
IdsType ==
    /\ lastSeen \in Nat /\ counter \in 0..1 /\ beats \in 0..MaxBeats
    /\ seen \subseteq Nat /\ foreign \in 0..2

SInv == SseType /\ SentInv /\ HighestInv /\ HistoryInv /\ LoggedInv /\ EndsWithTheEnd

-----------------------------------------------------------------------------
(* Sequences of numbers *)

LEMMA AppendIs ==
    ASSUME NEW S, NEW s \in Seq(S), NEW x \in S
    PROVE  /\ Append(s, x) \in Seq(S) /\ Len(Append(s, x)) = Len(s) + 1
           /\ \A i \in 1..Len(s) : Append(s, x)[i] = s[i]
           /\ Append(s, x)[Len(s) + 1] = x
OBVIOUS

LEMMA AppendCases ==
    ASSUME NEW S, NEW s \in Seq(S), NEW x \in S, NEW i \in 1..Len(Append(s, x))
    PROVE  (i \in 1..Len(s) /\ Append(s, x)[i] = s[i]) \/ Append(s, x)[i] = x
<1>1. Len(s) \in Nat
  OBVIOUS
<1> QED
  BY <1>1, AppendIs

\* Appending keeps the elements within bounds.
LEMMA AppendWithin ==
    ASSUME NEW s \in Seq(Nat), NEW n \in Nat, NEW x \in 1..n, \A i \in 1..Len(s) : s[i] \in 1..n
    PROVE  Append(s, x) \in Seq(Nat) /\ \A i \in 1..Len(Append(s, x)) : Append(s, x)[i] \in 1..n
<1>1. x \in Nat
  OBVIOUS
<1>2. Append(s, x) \in Seq(Nat)
  BY <1>1, AppendIs
<1>3. ASSUME NEW i \in 1..Len(Append(s, x)) PROVE Append(s, x)[i] \in 1..n
  <2>1. (i \in 1..Len(s) /\ Append(s, x)[i] = s[i]) \/ Append(s, x)[i] = x
    BY <1>1, AppendCases
  <2> QED
    BY <2>1
<1> QED
  BY <1>2, <1>3

LEMMA IntervalIs ==
    ASSUME NEW n \in Int, NEW h \in Nat, NEW s, s = [i \in 1..n |-> h + i]
    PROVE  /\ s \in Seq(Nat)
           /\ \A i \in 1..Len(s) : i \in 1..n /\ s[i] = h + i
<1>1. CASE n >= 0
  <2>1. n \in Nat /\ \A i \in 1..n : h + i \in Nat
    BY <1>1
  <2>2. s \in [1..n -> Nat]
    BY <2>1
  <2>3. s \in Seq(Nat) /\ Len(s) = n
    BY <2>1, <2>2
  <2> QED
    BY <2>3
<1>2. CASE n < 0
  <2>1. 1..n = {}
    BY <1>2
  <2>2. s = <<>>
    BY <2>1
  <2>3. s \in Seq(Nat) /\ Len(s) = 0
    <3>1. <<>> \in Seq(Nat) /\ Len(<<>>) = 0
      OBVIOUS
    <3> QED
      BY <2>2, <3>1, Zenon
  <2>4. 1..0 = {}
    OBVIOUS
  <2> QED
    BY <2>3, <2>4
<1>3. n >= 0 \/ n < 0
  OBVIOUS
<1> QED
  BY <1>1, <1>2, <1>3

LEMMA TailIs ==
    ASSUME NEW S, NEW s \in Seq(S), s # <<>>
    PROVE  /\ Head(s) \in S /\ Head(s) = s[1] /\ 1 \in 1..Len(s)
           /\ Tail(s) \in Seq(S) /\ Len(Tail(s)) = Len(s) - 1
           /\ \A i \in 1..Len(Tail(s)) : Tail(s)[i] = s[i + 1] /\ i + 1 \in 1..Len(s)
OBVIOUS

\* A larger last element keeps a sequence increasing.
LEMMA AppendIncreasing ==
    ASSUME NEW s \in Seq(Nat), NEW x \in Nat, Increasing(s), \A i \in 1..Len(s) : s[i] < x
    PROVE  Increasing(Append(s, x))
<1> DEFINE t == Append(s, x)
<1>1. Len(s) \in Nat /\ Len(t) = Len(s) + 1
  BY AppendIs
<1>2. /\ \A i \in 1..Len(s) : t[i] = s[i]
      /\ t[Len(s) + 1] = x
  BY AppendIs
<1> SUFFICES ASSUME NEW i \in 1..Len(t), NEW j \in 1..Len(t), i < j
             PROVE  t[i] < t[j]
  BY DEF Increasing
<1> HIDE DEF t
<1>3. i \in 1..Len(s)
  BY <1>1
<1>4. CASE j \in 1..Len(s)
  <2>1. s[i] < s[j]
    BY <1>3, <1>4 DEF Increasing
  <2> QED
    BY <2>1, <1>2, <1>3, <1>4
<1>5. CASE j = Len(s) + 1
  <2>1. t[j] = x /\ t[i] = s[i]
    BY <1>2, <1>3, <1>5
  <2> QED
    BY <2>1, <1>3
<1> QED
  BY <1>1, <1>4, <1>5

LEMMA TailIncreasing ==
    ASSUME NEW s \in Seq(Nat), s # <<>>, Increasing(s)
    PROVE  Increasing(Tail(s)) /\ \A i \in 1..Len(Tail(s)) : Head(s) < Tail(s)[i]
<1>1. Len(s) \in Nat /\ \A i \in 1..Len(s) : s[i] \in Nat
  OBVIOUS
<1> QED
  BY <1>1, TailIs DEF Increasing

-----------------------------------------------------------------------------
\* The typed facts the proofs below use, without the Boolean variable.
LEMMA Types ==
    ASSUME SInv
    PROVE  /\ log \in Seq(EventTypes) /\ Len(log) \in Nat
           /\ highestHistorySeq \in Nat /\ afterSeq \in Nat
           /\ \A s \in {wire, history, liveBuffer, pipe, received} :
                 s \in Seq(Nat) /\ Len(s) \in Nat /\ \A i \in 1..Len(s) : s[i] \in Nat
<1>1. /\ log \in Seq(EventTypes) /\ highestHistorySeq \in Nat /\ afterSeq \in Nat
      /\ wire \in Seq(Nat) /\ history \in Seq(Nat) /\ liveBuffer \in Seq(Nat)
      /\ pipe \in Seq(Nat) /\ received \in Seq(Nat)
  BY DEF SInv, SseType
<1>2. \A s \in Seq(Nat) : Len(s) \in Nat /\ \A i \in 1..Len(s) : s[i] \in Nat
  OBVIOUS
<1> QED
  BY <1>1, <1>2

LEMMA StreamInit == SseInit => SInv
<1> SUFFICES ASSUME SseInit PROVE SInv
  OBVIOUS
<1> USE DEF SseInit, FeedInit
<1>0. subscribed \in BOOLEAN
  OBVIOUS
<1>1. SseType
  BY <1>0, SseAssumption DEF SseType, Phases
<1>2. SentInv /\ HighestInv /\ HistoryInv /\ LoggedInv /\ EndsWithTheEnd
  BY DEF SentInv, HighestInv, HistoryInv, LoggedInv, Logged, EndsWithTheEnd, Increasing, Within
<1> QED
  BY <1>1, <1>2 DEF SInv

(* subscriber.next of a logged event above highestHistorySeq keeps what was *)
(* sent in order and bounded.                                               *)
LEMMA SendKeeps ==
    ASSUME SInv, conn # "closed", NEW x \in 1..Len(log), highestHistorySeq < x,
           Send(x), UNCHANGED <<log, received, afterSeq>>
    PROVE  /\ pipe' \in Seq(Nat) /\ highestHistorySeq' \in Nat
           /\ SentInv' /\ HighestInv'
           /\ \A i \in 1..Len(pipe') : pipe'[i] \in 1..Len(log)
           /\ ~Ends(x) => \A i \in 1..Len(pipe') : ~Ends(pipe'[i])
<1> DEFINE h == highestHistorySeq
<1>t. /\ pipe \in Seq(Nat) /\ received \in Seq(Nat) /\ h \in Nat /\ x \in Nat /\ afterSeq \in Nat
      /\ Len(pipe) \in Nat /\ Len(received) \in Nat /\ Len(log) \in Nat
      /\ \A i \in 1..Len(pipe) : pipe[i] \in Nat
      /\ \A i \in 1..Len(received) : received[i] \in Nat
  BY Types
<1>s. pipe' = Append(pipe, x) /\ h' = x /\ received' = received
  BY DEF Send
<1>1. /\ pipe' \in Seq(Nat) /\ Len(pipe') = Len(pipe) + 1
      /\ \A i \in 1..Len(pipe) : pipe'[i] = pipe[i]
      /\ pipe'[Len(pipe) + 1] = x
  BY <1>t, <1>s, AppendIs
<1>a. ASSUME NEW j \in 1..Len(pipe')
      PROVE  (j \in 1..Len(pipe) /\ pipe'[j] = pipe[j]) \/ pipe'[j] = x
  BY <1>1, <1>t
<1>2. afterSeq <= h /\ Within(received) /\ Within(pipe)
  BY DEF SInv, HighestInv
<1>3. HighestInv'
  <2>1. afterSeq < x /\ x <= x /\ h <= x
    BY <1>2, <1>t
  <2>2. Within(received)'
    BY <2>1, <1>2, <1>s, <1>t DEF Within
  <2>3. Within(pipe)'
    <3> SUFFICES ASSUME NEW j \in 1..Len(pipe') PROVE afterSeq < pipe'[j] /\ pipe'[j] <= x
      BY <1>s DEF Within
    <3>1. (j \in 1..Len(pipe) /\ pipe'[j] = pipe[j]) \/ pipe'[j] = x
      BY <1>a
    <3> QED
      BY <2>1, <3>1, <1>2, <1>t DEF Within
  <2> QED
    BY <2>1, <2>2, <2>3, <1>s, <1>t DEF HighestInv
<1>4. Increasing(pipe')
  <2>1. \A i \in 1..Len(pipe) : pipe[i] < x
    BY <1>2, <1>t DEF Within
  <2> QED
    BY <2>1, <1>s, <1>t, AppendIncreasing DEF SInv, SentInv
<1>5. \A i \in 1..Len(received), j \in 1..Len(pipe') : received[i] < pipe'[j]
  <2>1. \A i \in 1..Len(received) : received[i] < x
    BY <1>2, <1>t DEF Within
  <2>2. \A i \in 1..Len(received), j \in 1..Len(pipe) : received[i] < pipe[j]
    BY DEF SInv, SentInv
  <2> QED
    BY <1>a, <2>1, <2>2
<1>6. SentInv'
  BY <1>4, <1>5, <1>s DEF SInv, SentInv, Increasing
<1>7. \A i \in 1..Len(pipe') : pipe'[i] \in 1..Len(log)
  BY <1>a, <1>t DEF SInv, LoggedInv, Logged
<1>8. ASSUME ~Ends(x) PROVE \A i \in 1..Len(pipe') : ~Ends(pipe'[i])
  <2>1. \A i \in 1..Len(pipe) : ~Ends(pipe[i])
    BY <1>t DEF SInv, EndsWithTheEnd
  <2> QED
    BY <2>1, <1>a, <1>8
<1> QED
  BY <1>1, <1>3, <1>6, <1>7, <1>8, <1>s, <1>t

(* Closing keeps the invariant if what was sent is in order.                *)
LEMMA TeardownKeeps ==
    ASSUME SInv, Teardown, SentInv', HighestInv', UNCHANGED feedVars,
           UNCHANGED <<afterSeq, raceVars>>, IdsType',
           received' \in Seq(Nat), pipe' \in Seq(Nat), highestHistorySeq' \in Nat,
           drops' \in 0..MaxDrops,
           \A i \in 1..Len(pipe') : pipe'[i] \in 1..Len(log)
    PROVE  SInv'
<1> USE DEF Teardown, feedVars
<1>0. subscribed' \in BOOLEAN
  OBVIOUS
<1>1. SseType'
  BY <1>0, SseAssumption DEF SInv, SseType, Phases, IdsType, raceVars
<1>2. HistoryInv' /\ EndsWithTheEnd'
  BY DEF HistoryInv, EndsWithTheEnd, Increasing
<1>3. LoggedInv'
  BY DEF LoggedInv, Logged
<1> QED
  BY <1>1, <1>2, <1>3 DEF SInv

(* A step that sends nothing and leaves history's rows alone keeps the      *)
(* invariant if what it moves between wire and buffer has been logged.      *)
LEMMA QuietKeeps ==
    ASSUME SInv, conn' \in Phases, conn = "closed" => conn' = "closed",
           conn' = "querying" => conn = "querying",
           subscribed' \in BOOLEAN,
           conn' \in {"fetched", "replaying"} \/ history = <<>>,
           UNCHANGED <<log, history, afterSeq, highestHistorySeq, pipe, received>>,
           published' \subseteq Nat, drops' \in 0..MaxDrops, IdsType',
           queried' = queried, unheard' \subseteq Nat, overtaken' \subseteq Nat,
           wire' \in Seq(Nat), liveBuffer' \in Seq(Nat),
           Len(liveBuffer') <= MAX_LIVE_BUFFER_SIZE,
           \A i \in 1..Len(wire') : wire'[i] \in 1..Len(log),
           \A i \in 1..Len(liveBuffer') : liveBuffer'[i] \in 1..Len(log)
    PROVE  SInv'
<1>1. SseType'
  BY DEF SInv, SseType, IdsType
<1>2. SentInv' /\ HighestInv' /\ HistoryInv' /\ EndsWithTheEnd'
  BY DEF SInv, SentInv, HighestInv, HistoryInv, EndsWithTheEnd, Increasing, Within, Ends
<1>3. LoggedInv'
  BY DEF SInv, LoggedInv, Logged
<1> QED
  BY <1>1, <1>2, <1>3 DEF SInv

\* A message leaves the wire for the buffer, or is dropped from either.
LEMMA TailLogged ==
    ASSUME NEW s \in Seq(Nat), s # <<>>, NEW n, \A i \in 1..Len(s) : s[i] \in 1..n
    PROVE  Head(s) \in 1..n /\ \A i \in 1..Len(Tail(s)) : Tail(s)[i] \in 1..n
BY TailIs

(* The client's steps. *)
LEMMA OpenKeeps == ASSUME SInv, Open PROVE SInv'
<1> USE Types DEF Open, feedVars, raceVars
<1>1. lastSeen \in Nat /\ history = <<>> /\ received' = <<>> /\ pipe' = <<>>
  BY DEF SInv, SseType, HistoryInv
<1>2. subscribed' \in BOOLEAN
  OBVIOUS
<1>3. SseType'
  BY <1>1, <1>2 DEF SInv, SseType, Phases
<1>4. SentInv' /\ LoggedInv'
  BY <1>1 DEF SInv, SentInv, LoggedInv, Logged, Increasing
<1>5. HighestInv' /\ HistoryInv' /\ EndsWithTheEnd'
  BY <1>1 DEF HighestInv, HistoryInv, EndsWithTheEnd, Within, Increasing
<1> QED
  BY <1>3, <1>4, <1>5 DEF SInv

(* A heartbeat moves the client's position and nothing of the stream.       *)
LEMMA PingKeeps == ASSUME SInv, Ping PROVE SInv'
<1> USE DEF Ping, feedVars, raceVars, ReadsNumbered, HEARTBEAT_EVENT
<1>1. IdsType'
  BY SseAssumption DEF SInv, SseType, IdsType
<1>2. SseType'
  BY <1>1 DEF SInv, SseType, IdsType
<1>3. SentInv' /\ HighestInv' /\ HistoryInv' /\ LoggedInv' /\ EndsWithTheEnd'
  BY DEF SInv, SentInv, HighestInv, HistoryInv, LoggedInv, EndsWithTheEnd,
         Increasing, Within, Logged, Ends
<1> QED
  BY <1>2, <1>3 DEF SInv

(* So does the message of an error.                                         *)
LEMMA ErrorIds == ASSUME SInv, ErrorMessage PROVE IdsType'
BY DEF SInv, SseType, IdsType, ErrorMessage, ReadsNumbered

LEMMA ReceiveKeeps == ASSUME SInv, ClientReceives PROVE SInv'
<1> USE Types DEF ClientReceives, feedVars, raceVars
<1>t. pipe \in Seq(Nat) /\ received \in Seq(Nat) /\ pipe # <<>>
  BY Types
<1>h. Head(pipe) \in Nat /\ Head(pipe) = pipe[1] /\ 1 \in 1..Len(pipe)
  BY <1>t, TailIs
<1>1. received' = Append(received, Head(pipe)) /\ pipe' = Tail(pipe)
  OBVIOUS
<1>2. /\ received' \in Seq(Nat) /\ Len(received') = Len(received) + 1
      /\ \A i \in 1..Len(received) : received'[i] = received[i]
      /\ received'[Len(received) + 1] = pipe[1]
  BY <1>t, <1>h, <1>1, AppendIs
<1>3. ASSUME NEW i \in 1..Len(received')
      PROVE  (i \in 1..Len(received) /\ received'[i] = received[i]) \/ received'[i] = pipe[1]
  BY <1>2
<1>4. /\ pipe' \in Seq(Nat)
      /\ \A i \in 1..Len(pipe') : pipe'[i] = pipe[i + 1] /\ i + 1 \in 1..Len(pipe)
  BY <1>t, <1>1, TailIs
<1>5. SseType'
  BY <1>2, <1>4, <1>h DEF SInv, SseType
<1>6. SentInv'
  <2>1. Increasing(received')
    <3>1. \A i \in 1..Len(received) : received[i] < Head(pipe)
      BY <1>h DEF SInv, SentInv
    <3> QED
      BY <3>1, <1>1, <1>t, <1>h, AppendIncreasing DEF SInv, SentInv
  <2>2. Increasing(pipe') /\ \A j \in 1..Len(pipe') : pipe[1] < pipe'[j]
    BY <1>1, <1>t, <1>h, TailIncreasing DEF SInv, SentInv
  <2>3. \A i \in 1..Len(received), j \in 1..Len(pipe') : received[i] < pipe'[j]
    BY <1>4 DEF SInv, SentInv
  <2> QED
    BY <1>3, <2>1, <2>2, <2>3 DEF SentInv, Increasing
<1>7. HighestInv'
  <2>1. afterSeq <= highestHistorySeq /\ Within(received) /\ Within(pipe)
    BY DEF SInv, HighestInv
  <2>2. Within(received)'
    BY <2>1, <1>h, <1>3 DEF Within
  <2>3. Within(pipe)'
    BY <2>1, <1>4 DEF Within
  <2> QED
    BY <2>1, <2>2, <2>3 DEF HighestInv
<1>8. HistoryInv'
  BY DEF SInv, HistoryInv, Increasing
<1>9. LoggedInv'
  <2>1. \A i \in 1..Len(pipe') : pipe'[i] \in 1..Len(log)
    BY <1>4 DEF SInv, LoggedInv, Logged
  <2> QED
    BY <2>1 DEF SInv, LoggedInv, Logged
<1>10. EndsWithTheEnd'
  BY <1>4 DEF SInv, EndsWithTheEnd, Ends
<1> QED
  BY <1>5, <1>6, <1>7, <1>8, <1>9, <1>10 DEF SInv

LEMMA BreakKeeps == ASSUME SInv, ConnectionBreaks PROVE SInv'
<1> USE DEF ConnectionBreaks
<1>1. SentInv' /\ HighestInv'
  BY DEF SInv, SentInv, HighestInv, Within, Increasing
<1>2. drops' \in 0..MaxDrops /\ received' \in Seq(Nat) /\ pipe' \in Seq(Nat)
  BY SseAssumption DEF SInv, SseType
<1>3. IdsType'
  BY ErrorIds
<1> QED
  BY <1>1, <1>2, <1>3, Types, TeardownKeeps

-----------------------------------------------------------------------------
(* Postgres, Redis and the writers. *)
LEMMA SubscribeKeeps == ASSUME SInv, Subscribe PROVE SInv'
<1> USE DEF Subscribe, feedVars, idVars, raceVars
<1>1. subscribed' \in BOOLEAN
  OBVIOUS
<1>2. IdsType'
  BY DEF SInv, SseType, IdsType
<1> QED
  BY <1>1, <1>2, QuietKeeps DEF SInv, SseType, HistoryInv, LoggedInv, Logged

(* The rows of findEventsSince are in order and above afterSeq.             *)
LEMMA QueryKeeps == ASSUME SInv, Query PROVE SInv'
<1> USE Types DEF Query, feedVars
<1> DEFINE n == Len(log) - afterSeq
<1>1. n \in Int /\ history' = [i \in 1..n |-> afterSeq + i]
  BY DEF Rows
<1>2. history' \in Seq(Nat)
  BY <1>1, IntervalIs
<1>3. \A i \in 1..Len(history') : i \in 1..n /\ history'[i] = afterSeq + i
  BY <1>1, IntervalIs
<1>q. highestHistorySeq = afterSeq
  BY DEF SInv, HistoryInv
<1>4. SseType'
  BY <1>2 DEF SInv, SseType, Phases, idVars
<1>5. SentInv' /\ EndsWithTheEnd' /\ HighestInv'
  BY DEF SInv, SentInv, EndsWithTheEnd, HighestInv, Increasing, Within, Ends
<1>6. HistoryInv'
  BY <1>3, <1>q DEF HistoryInv, Increasing
<1>7. LoggedInv'
  <2>1. \A i \in 1..Len(history') : history'[i] \in 1..Len(log)
    BY <1>3
  <2> QED
    BY <2>1 DEF SInv, LoggedInv, Logged
<1> QED
  BY <1>4, <1>5, <1>6, <1>7 DEF SInv

(* A new row changes nothing about the events that are under way.           *)
LEMMA WriteKeeps == ASSUME SInv, NEW type \in EventTypes, Writes(type) PROVE SInv'
<1> USE Types DEF Writes, LogEvent, sseVars, idVars, raceVars
<1>1. /\ log' \in Seq(EventTypes) /\ Len(log') = Len(log) + 1
      /\ \A i \in 1..Len(log) : log'[i] = log[i] /\ i \in 1..Len(log')
  BY AppendIs
<1>2. SseType'
  BY <1>1 DEF SInv, SseType
<1>3. SentInv' /\ HighestInv' /\ HistoryInv'
  BY DEF SInv, SentInv, HighestInv, HistoryInv, Increasing, Within
<1>4. LoggedInv'
  BY <1>1 DEF SInv, LoggedInv, Logged
<1>5. EndsWithTheEnd'
  BY <1>1 DEF SInv, EndsWithTheEnd, Ends, LoggedInv, Logged
<1> QED
  BY <1>2, <1>3, <1>4, <1>5 DEF SInv

LEMMA PublishKeeps == ASSUME SInv, NEW s \in DOMAIN log, Publishes(s) PROVE SInv'
<1> USE Types DEF Publishes, PublishEvent
<1>1. s \in 1..Len(log) /\ s \in Nat
  OBVIOUS
<1>2. wire' \in Seq(Nat) /\ \A i \in 1..Len(wire') : wire'[i] \in 1..Len(log)
  <2>1. CASE wire' = wire
    BY <2>1 DEF SInv, LoggedInv, Logged
  <2>2. CASE wire' = Append(wire, s)
    <3>1. wire \in Seq(Nat) /\ Len(log) \in Nat /\ \A i \in 1..Len(wire) : wire[i] \in 1..Len(log)
      BY DEF SInv, LoggedInv, Logged
    <3> HIDE Types DEF Publishes, PublishEvent
    <3>2. /\ Append(wire, s) \in Seq(Nat)
          /\ \A i \in 1..Len(Append(wire, s)) : Append(wire, s)[i] \in 1..Len(log)
      BY <1>1, <3>1, AppendWithin
    <3> QED
      BY <2>2, <3>2
  <2> QED
    BY <2>1, <2>2
<1>3. drops' \in 0..MaxDrops
  BY SseAssumption DEF SInv, SseType
<1>4. published' \subseteq Nat
  BY <1>1 DEF SInv, SseType
<1>5. unheard' \subseteq Nat /\ overtaken' \subseteq Nat
  <2>1. unheard \subseteq Nat /\ overtaken \subseteq Nat /\ queried \in Nat
    BY DEF SInv, SseType
  <2>2. unheard' \subseteq unheard \cup {s}
    OBVIOUS
  <2>3. \A r \in overtaken' : r \in overtaken \/ r \in (queried + 1)..(s - 1)
    OBVIOUS
  <2> HIDE Types DEF Publishes, PublishEvent
  <2>4. \A r \in (queried + 1)..(s - 1) : r \in Nat
    BY <1>1, <2>1
  <2> QED
    BY <1>1, <2>1, <2>2, <2>3, <2>4
<1>6. IdsType'
  BY DEF SInv, SseType, IdsType, idVars
<1> QED
  BY <1>2, <1>3, <1>4, <1>5, <1>6, QuietKeeps DEF SInv, SseType, HistoryInv, LoggedInv, Logged

-----------------------------------------------------------------------------
(* The callbacks that send nothing. *)
LEMMA CallbackKeeps ==
    ASSUME SInv, Replay \/ ReplayDone \/ DrainDone \/ BufferMessage \/ BufferOverflows
    PROVE  SInv'
<1> USE Types DEF feedVars, raceVars
<1>i. ASSUME UNCHANGED idVars PROVE IdsType'
  BY <1>i DEF SInv, SseType, IdsType, idVars
<1>1. CASE Replay \/ ReplayDone \/ DrainDone
  BY <1>1, <1>i, QuietKeeps
  DEF Replay, ReplayDone, DrainDone, SInv, SseType, HistoryInv, LoggedInv, Logged, Phases
<1>2. CASE BufferMessage
  <2> USE <1>2 DEF BufferMessage, KeepOpen
  <2>t. wire \in Seq(Nat) /\ wire # <<>> /\ liveBuffer \in Seq(Nat)
    BY Types
  <2>1. /\ Head(wire) \in 1..Len(log) /\ Head(wire) \in Nat
        /\ wire' \in Seq(Nat) /\ \A i \in 1..Len(wire') : wire'[i] \in 1..Len(log)
    BY <2>t, TailIs, TailLogged DEF SInv, LoggedInv, Logged
  <2>2. /\ liveBuffer' \in Seq(Nat) /\ Len(liveBuffer') = Len(liveBuffer) + 1
        /\ \A i \in 1..Len(liveBuffer') :
              (i \in 1..Len(liveBuffer) /\ liveBuffer'[i] = liveBuffer[i])
                \/ liveBuffer'[i] = Head(wire)
    <3>1. liveBuffer' = Append(liveBuffer, Head(wire)) /\ Len(liveBuffer) \in Nat
      OBVIOUS
    <3> HIDE <1>2, Types DEF BufferMessage
    <3> QED
      BY <2>t, <2>1, <3>1, AppendIs
  <2>3. \A i \in 1..Len(liveBuffer') : liveBuffer'[i] \in 1..Len(log)
    BY <2>1, <2>2 DEF SInv, LoggedInv, Logged
  <2>4. Len(liveBuffer') <= MAX_LIVE_BUFFER_SIZE
    BY <2>2, SseAssumption
  <2> QED
    BY <1>i, <2>1, <2>2, <2>3, <2>4, QuietKeeps DEF SInv, SseType, HistoryInv
<1>3. CASE BufferOverflows
  <2> USE <1>3 DEF BufferOverflows
  <2>1. SentInv' /\ HighestInv'
    BY DEF SInv, SentInv, HighestInv, Increasing, Within
  <2> QED
    BY <2>1, ErrorIds, TeardownKeeps DEF SInv, SseType, LoggedInv, Logged
<1> QED
  BY <1>1, <1>2, <1>3

(* A send that leaves the connection open keeps the invariant if the event  *)
(* is not terminal and the rows still to be replayed are newer.             *)
LEMMA SendOpenKeeps ==
    ASSUME SInv, conn # "closed", NEW x \in 1..Len(log), highestHistorySeq < x, ~Ends(x),
           Send(x), conn # "querying",
           UNCHANGED <<feedVars, afterSeq, received, drops, conn, subscribed, idVars, raceVars>>,
           wire' \in Seq(Nat), history' \in Seq(Nat), liveBuffer' \in Seq(Nat),
           Len(liveBuffer') <= MAX_LIVE_BUFFER_SIZE,
           \A i \in 1..Len(wire') : wire'[i] \in 1..Len(log),
           \A i \in 1..Len(history') : history'[i] \in 1..Len(log),
           \A i \in 1..Len(liveBuffer') : liveBuffer'[i] \in 1..Len(log),
           Increasing(history'), \A i \in 1..Len(history') : x < history'[i],
           conn \notin {"fetched", "replaying"} => history' = <<>>
    PROVE  SInv'
<1> USE DEF feedVars
<1>0. /\ pipe' \in Seq(Nat) /\ highestHistorySeq' \in Nat /\ SentInv' /\ HighestInv'
      /\ \A i \in 1..Len(pipe') : pipe'[i] \in 1..Len(log) /\ ~Ends(pipe'[i])
  BY SendKeeps
<1>1. SseType'
  BY <1>0 DEF SInv, SseType, idVars, raceVars
<1>2. HighestInv'
  BY <1>0
<1>3. HistoryInv'
  BY DEF HistoryInv, Send, Increasing
<1>4. LoggedInv'
  BY <1>0 DEF LoggedInv, Logged
<1>5. EndsWithTheEnd'
  <2>1. DOMAIN pipe' = 1..Len(pipe')
    BY <1>0
  <2>2. ASSUME NEW i \in DOMAIN pipe' PROVE ~Ends(pipe[i])'
    BY <1>0, <2>1 DEF Ends
  <2> QED
    BY <2>2 DEF EndsWithTheEnd
<1> QED
  BY <1>0, <1>1, <1>2, <1>3, <1>4, <1>5 DEF SInv

LEMMA SendClosedKeeps ==
    ASSUME SInv, conn # "closed", NEW x \in 1..Len(log), highestHistorySeq < x,
           Send(x), Teardown, UNCHANGED <<feedVars, afterSeq, received, drops, idVars, raceVars>>
    PROVE  SInv'
<1> USE DEF feedVars
<1>1. /\ pipe' \in Seq(Nat) /\ highestHistorySeq' \in Nat /\ SentInv' /\ HighestInv'
      /\ \A i \in 1..Len(pipe') : pipe'[i] \in 1..Len(log)
  BY SendKeeps
<1>2. received' \in Seq(Nat) /\ drops' \in 0..MaxDrops
  BY DEF SInv, SseType
<1>3. IdsType'
  BY DEF SInv, SseType, IdsType, idVars
<1> QED
  BY <1>1, <1>2, <1>3, TeardownKeeps

(* The callbacks that send. *)
LEMMA SendingKeeps ==
    ASSUME SInv, ReplayRow \/ DrainOne \/ LiveMessage PROVE SInv'
<1> USE Types DEF feedVars, KeepOpen
<1>l. /\ \A i \in 1..Len(wire) : wire[i] \in 1..Len(log)
      /\ \A i \in 1..Len(history) : history[i] \in 1..Len(log)
      /\ \A i \in 1..Len(liveBuffer) : liveBuffer[i] \in 1..Len(log)
      /\ Len(liveBuffer) <= MAX_LIVE_BUFFER_SIZE
  BY DEF SInv, LoggedInv, Logged, SseType
<1>h. Increasing(history) /\ (conn \notin {"fetched", "replaying"} => history = <<>>)
      /\ \A i \in 1..Len(history) : highestHistorySeq < history[i]
  BY DEF SInv, HistoryInv
<1>k. conn \in Phases /\ subscribed \in BOOLEAN /\ published \subseteq Nat /\ drops \in 0..MaxDrops
  BY DEF SInv, SseType
<1>i. ASSUME UNCHANGED <<idVars, raceVars>>
      PROVE  IdsType' /\ queried' = queried /\ unheard' \subseteq Nat /\ overtaken' \subseteq Nat
  BY <1>i DEF SInv, SseType, IdsType, idVars, raceVars
<1>1. CASE ReplayRow
  <2> USE <1>1 DEF ReplayRow
  <2>t. history \in Seq(Nat) /\ history # <<>>
    BY Types
  <2>1. /\ Head(history) \in 1..Len(log) /\ highestHistorySeq < Head(history)
        /\ Tail(history) \in Seq(Nat)
        /\ \A i \in 1..Len(Tail(history)) : Tail(history)[i] \in 1..Len(log)
        /\ Increasing(Tail(history))
        /\ \A i \in 1..Len(Tail(history)) : Head(history) < Tail(history)[i]
    BY <2>t, <1>l, <1>h, TailIs, TailLogged, TailIncreasing
  <2>2. CASE Ends(Head(history))
    BY <2>1, <2>2, SendClosedKeeps
  <2>3. CASE ~Ends(Head(history))
    BY <2>1, <2>3, <1>l, SendOpenKeeps
  <2> QED
    BY <2>2, <2>3
<1>2. CASE DrainOne
  <2> USE <1>2 DEF DrainOne
  <2>t. liveBuffer \in Seq(Nat) /\ liveBuffer # <<>> /\ history = <<>>
    BY Types, <1>h
  <2>1. /\ Head(liveBuffer) \in 1..Len(log)
        /\ Tail(liveBuffer) \in Seq(Nat) /\ Len(Tail(liveBuffer)) <= MAX_LIVE_BUFFER_SIZE
        /\ \A i \in 1..Len(Tail(liveBuffer)) : Tail(liveBuffer)[i] \in 1..Len(log)
    BY <2>t, <1>l, TailIs, TailLogged, SseAssumption
  <2>2. CASE Head(liveBuffer) > highestHistorySeq /\ Ends(Head(liveBuffer))
    BY <2>1, <2>2, SendClosedKeeps
  <2>3. CASE Head(liveBuffer) > highestHistorySeq /\ ~Ends(Head(liveBuffer))
    <3>1. /\ UNCHANGED <<conn, subscribed, log, published, afterSeq, received, drops, idVars, raceVars>>
          /\ Send(Head(liveBuffer)) /\ history' = <<>> /\ liveBuffer' = Tail(liveBuffer) /\ wire' = wire
      BY <2>3, <2>t
    <3>2. /\ history' \in Seq(Nat) /\ Increasing(history')
          /\ \A i \in 1..Len(history') :
                history'[i] \in 1..Len(log) /\ Head(liveBuffer) < history'[i]
      BY <3>1 DEF Increasing
    <3>3. /\ wire' \in Seq(Nat) /\ liveBuffer' \in Seq(Nat)
          /\ Len(liveBuffer') <= MAX_LIVE_BUFFER_SIZE
          /\ \A i \in 1..Len(wire') : wire'[i] \in 1..Len(log)
          /\ \A i \in 1..Len(liveBuffer') : liveBuffer'[i] \in 1..Len(log)
      BY <3>1, <2>1, <1>l
    <3>4. conn # "closed" /\ conn # "querying" /\ highestHistorySeq < Head(liveBuffer)
      BY <2>1, <2>3
    <3> QED
      BY <3>1, <3>2, <3>3, <3>4, <2>1, <2>3, SendOpenKeeps
  <2>4. CASE ~(Head(liveBuffer) > highestHistorySeq)
    <3>1. /\ UNCHANGED <<conn, subscribed, log, published, history, afterSeq, highestHistorySeq>>
          /\ UNCHANGED <<idVars, raceVars>>
          /\ UNCHANGED <<pipe, received, drops, wire>>
          /\ liveBuffer' = Tail(liveBuffer)
      BY <2>4
    <3>2. /\ conn' \in Phases /\ (conn = "closed" => conn' = "closed")
          /\ (conn' = "querying" => conn = "querying")
      BY <3>1, <1>k
    <3>3. subscribed' \in BOOLEAN /\ published' \subseteq Nat /\ drops' \in 0..MaxDrops
      BY <3>1, <1>k, Zenon
    <3>4. /\ wire' \in Seq(Nat) /\ liveBuffer' \in Seq(Nat)
          /\ Len(liveBuffer') <= MAX_LIVE_BUFFER_SIZE
          /\ \A i \in 1..Len(wire') : wire'[i] \in 1..Len(log)
          /\ \A i \in 1..Len(liveBuffer') : liveBuffer'[i] \in 1..Len(log)
      BY <3>1, <2>1, <1>l
    <3> QED
      BY <3>1, <3>2, <3>3, <3>4, <1>i, <2>t, QuietKeeps
  <2> QED
    BY <2>2, <2>3, <2>4
<1>3. CASE LiveMessage
  <2> USE <1>3 DEF LiveMessage
  <2>t. wire \in Seq(Nat) /\ wire # <<>> /\ history = <<>>
    BY Types, <1>h
  <2>1. /\ Head(wire) \in 1..Len(log)
        /\ Tail(wire) \in Seq(Nat)
        /\ \A i \in 1..Len(Tail(wire)) : Tail(wire)[i] \in 1..Len(log)
    BY <2>t, <1>l, TailIs, TailLogged
  <2>2. CASE Head(wire) > highestHistorySeq /\ Ends(Head(wire))
    BY <2>1, <2>2, SendClosedKeeps
  <2>3. CASE Head(wire) > highestHistorySeq /\ ~Ends(Head(wire))
    <3>1. /\ UNCHANGED <<conn, subscribed, log, published, afterSeq, received, drops, idVars, raceVars>>
          /\ Send(Head(wire)) /\ history' = <<>> /\ wire' = Tail(wire) /\ liveBuffer' = liveBuffer
      BY <2>3, <2>t
    <3>2. /\ history' \in Seq(Nat) /\ Increasing(history')
          /\ \A i \in 1..Len(history') :
                history'[i] \in 1..Len(log) /\ Head(wire) < history'[i]
      BY <3>1 DEF Increasing
    <3>3. /\ wire' \in Seq(Nat) /\ liveBuffer' \in Seq(Nat)
          /\ Len(liveBuffer') <= MAX_LIVE_BUFFER_SIZE
          /\ \A i \in 1..Len(wire') : wire'[i] \in 1..Len(log)
          /\ \A i \in 1..Len(liveBuffer') : liveBuffer'[i] \in 1..Len(log)
      BY <3>1, <2>1, <1>l
    <3>4. conn # "closed" /\ conn # "querying" /\ highestHistorySeq < Head(wire)
      BY <2>1, <2>3
    <3> QED
      BY <3>1, <3>2, <3>3, <3>4, <2>1, <2>3, SendOpenKeeps
  <2>4. CASE ~(Head(wire) > highestHistorySeq)
    <3>1. /\ UNCHANGED <<conn, subscribed, log, published, history, afterSeq, highestHistorySeq>>
          /\ UNCHANGED <<idVars, raceVars>>
          /\ UNCHANGED <<pipe, received, drops, liveBuffer>>
          /\ wire' = Tail(wire)
      BY <2>4
    <3>2. /\ conn' \in Phases /\ (conn = "closed" => conn' = "closed")
          /\ (conn' = "querying" => conn = "querying")
      BY <3>1, <1>k
    <3>3. subscribed' \in BOOLEAN /\ published' \subseteq Nat /\ drops' \in 0..MaxDrops
      BY <3>1, <1>k, Zenon
    <3>4. /\ wire' \in Seq(Nat) /\ liveBuffer' \in Seq(Nat)
          /\ Len(liveBuffer') <= MAX_LIVE_BUFFER_SIZE
          /\ \A i \in 1..Len(wire') : wire'[i] \in 1..Len(log)
          /\ \A i \in 1..Len(liveBuffer') : liveBuffer'[i] \in 1..Len(log)
      BY <3>1, <2>1, <1>l
    <3> QED
      BY <3>1, <3>2, <3>3, <3>4, <1>i, <2>t, QuietKeeps
  <2> QED
    BY <2>2, <2>3, <2>4
<1> QED
  BY <1>1, <1>2, <1>3

-----------------------------------------------------------------------------
(* The invariant is inductive. *)
LEMMA StreamSteps == SInv /\ [SseNext]_streamVars => SInv'
<1> SUFFICES ASSUME SInv, [SseNext]_streamVars PROVE SInv'
  OBVIOUS
<1>1. CASE UNCHANGED streamVars
  <2> USE <1>1 DEF streamVars, sseVars, feedVars, idVars, raceVars
  <2>1. SseType'
    BY DEF SInv, SseType
  <2>2. SentInv' /\ HighestInv' /\ HistoryInv' /\ LoggedInv' /\ EndsWithTheEnd'
    BY DEF SInv, SentInv, HighestInv, HistoryInv, LoggedInv, EndsWithTheEnd,
           Increasing, Within, Logged, Ends
  <2> QED
    BY <2>1, <2>2 DEF SInv
<1>2. CASE StreamStep
  BY <1>2, QueryKeeps, CallbackKeeps, SendingKeeps DEF StreamStep
<1> QED
  BY <1>1, <1>2, OpenKeeps, ReceiveKeeps, PingKeeps, BreakKeeps, SubscribeKeeps, WriteKeeps,
     PublishKeeps DEF SseNext

LEMMA StreamInvariant == SseSpec => []SInv
BY StreamInit, StreamSteps, PTL DEF SseSpec

(* SseService's variables keep their types, and liveBuffer never outgrows   *)
(* MAX_LIVE_BUFFER_SIZE, however slow the history query is.                 *)
THEOREM StreamTypeCorrect == SseSpec => []SseType
<1>1. SInv => SseType
  BY DEF SInv
<1> QED
  BY <1>1, StreamInvariant, PTL

(* A connection of the stream sends no event twice, none out of order and   *)
(* none up to the position the client gave, even when SUBSCRIBE is late and *)
(* publishes overtake each other or are repeated.                           *)
THEOREM StreamInOrder == SseSpec => []InOrder
<1>1. ASSUME SInv PROVE InOrder
  <2>t. received \in Seq(Nat) /\ pipe \in Seq(Nat)
        /\ Len(received) \in Nat /\ Len(pipe) \in Nat
    BY <1>1, Types
  <2>1. /\ DOMAIN Sent = 1..(Len(received) + Len(pipe))
        /\ \A i \in 1..(Len(received) + Len(pipe)) :
              Sent[i] = IF i <= Len(received) THEN received[i] ELSE pipe[i - Len(received)]
    BY <2>t DEF Sent
  <2>0. ASSUME NEW i \in DOMAIN Sent PROVE afterSeq < Sent[i]
    <3>1. Within(received) /\ Within(pipe)
      BY <1>1 DEF SInv, HighestInv
    <3>2. CASE i <= Len(received)
      BY <2>t, <2>1, <3>1, <3>2 DEF Within
    <3>3. CASE ~(i <= Len(received))
      <4>1. i - Len(received) \in 1..Len(pipe)
        BY <2>t, <2>1, <3>3
      <4> QED
        BY <2>1, <3>1, <3>3, <4>1 DEF Within
    <3> QED
      BY <3>2, <3>3
  <2>2. SUFFICES ASSUME NEW i \in DOMAIN Sent, NEW j \in DOMAIN Sent, i < j
                 PROVE  Sent[i] < Sent[j]
    BY <2>0 DEF InOrder
  <2>3. CASE j <= Len(received)
    <3>1. i \in 1..Len(received) /\ j \in 1..Len(received)
      BY <2>t, <2>1, <2>2, <2>3
    <3> QED
      <4>1. Sent[i] = received[i] /\ Sent[j] = received[j]
        BY <3>1, <2>1, <2>t
      <4>2. received[i] < received[j]
        BY <3>1, <2>2, <1>1 DEF SInv, SentInv, Increasing
      <4> QED
        BY <4>1, <4>2
  <2>4. CASE i <= Len(received) /\ j > Len(received)
    <3>1. i \in 1..Len(received) /\ j - Len(received) \in 1..Len(pipe)
      BY <2>t, <2>1, <2>2, <2>4
    <3> QED
      <4>1. Sent[i] = received[i] /\ Sent[j] = pipe[j - Len(received)]
        BY <3>1, <2>1, <2>2, <2>4, <2>t
      <4>2. received[i] < pipe[j - Len(received)]
        BY <3>1, <1>1 DEF SInv, SentInv
      <4> QED
        BY <4>1, <4>2
  <2>5. CASE i > Len(received)
    <3>1. /\ i - Len(received) \in 1..Len(pipe) /\ j - Len(received) \in 1..Len(pipe)
          /\ i - Len(received) < j - Len(received) /\ j > Len(received)
      BY <2>t, <2>1, <2>2, <2>5
    <3> QED
      <4>1. Sent[i] = pipe[i - Len(received)] /\ Sent[j] = pipe[j - Len(received)]
        BY <3>1, <2>1, <2>2, <2>5, <2>t
      <4>2. pipe[i - Len(received)] < pipe[j - Len(received)]
        BY <3>1, <1>1 DEF SInv, SentInv, Increasing
      <4> QED
        BY <4>1, <4>2
  <2> QED
    BY <2>1, <2>2, <2>3, <2>4, <2>5, <2>t
<1> QED
  BY <1>1, StreamInvariant, PTL

(* No stream stays open after it has sent the task's terminal event.        *)
THEOREM StreamEndsWithTheEnd == SseSpec => []EndsWithTheEnd
<1>1. SInv => EndsWithTheEnd
  BY DEF SInv
<1> QED
  BY <1>1, StreamInvariant, PTL


-----------------------------------------------------------------------------
(* Gaps.  A message may run ahead of an event that is not behind it only if *)
(* the event is excused: it is among the rows of the history query, or was  *)
(* published before SUBSCRIBE or overtaken.                                 *)

\* What the subscription has brought and is not sent, in order.
Coming == liveBuffer \o wire

Excused == (1..queried) \cup unheard \cup overtaken

\* Whatever is below a number of s is excused, at most top or precedes it.
Ordered(s, top, Z) ==
    \A k \in 1..Len(s) : \A x \in 1..(s[k] - 1) :
        x \in Z \/ x <= top \/ \E j \in 1..(k - 1) : s[j] = x

\* Whatever is in P is excused, at most top or in s.
Arriving(P, s, top, Z) ==
    \A p \in P : p \in Z \/ p <= top \/ \E j \in 1..Len(s) : s[j] = p

IsSent(s) ==
    (\E i \in 1..Len(received) : received[i] = s) \/ (\E j \in 1..Len(pipe) : pipe[j] = s)

SpanInv ==
    conn # "closed" \/ received # <<>> \/ pipe # <<>> =>
        \A s \in (afterSeq + 1)..highestHistorySeq : IsSent(s) \/ LostInARace(s)

PublishedInv == published \subseteq 1..Len(log)

LiveInv == conn = "live" => liveBuffer = <<>>

QueriedInv ==
    conn \in Loaded =>
        /\ \A i \in 1..Len(history) : history[i] = highestHistorySeq + i
        /\ queried <= highestHistorySeq + Len(history)
        /\ Ordered(Coming, highestHistorySeq, Excused)
        /\ Arriving(published, Coming, highestHistorySeq, Excused)

GapInv == SpanInv /\ PublishedInv /\ LiveInv /\ QueriedInv

(* More excuses and a higher top excuse more.                               *)
LEMMA OrderedMore ==
    ASSUME NEW s \in Seq(Nat), NEW top \in Nat, NEW new \in Nat, top <= new,
           NEW Z \in SUBSET Nat, NEW Y \in SUBSET Nat, Z \subseteq Y, NEW P \in SUBSET Nat,
           Ordered(s, top, Z), Arriving(P, s, top, Z)
    PROVE  Ordered(s, new, Y) /\ Arriving(P, s, new, Y)
<1>1. ASSUME NEW k \in 1..Len(s), NEW x \in 1..(s[k] - 1)
      PROVE  x \in Y \/ x <= new \/ \E j \in 1..(k - 1) : s[j] = x
  <2>1. x \in Z \/ x <= top \/ \E j \in 1..(k - 1) : s[j] = x
    BY DEF Ordered
  <2>2. x \in Int
    OBVIOUS
  <2> QED
    BY <2>1, <2>2
<1>2. ASSUME NEW p \in P PROVE p \in Y \/ p <= new \/ \E j \in 1..Len(s) : s[j] = p
  BY DEF Arriving
<1> QED
  BY <1>1, <1>2 DEF Ordered, Arriving

(* The first message is taken off: it is behind the new top.                *)
LEMMA OrderedTail ==
    ASSUME NEW s \in Seq(Nat), s # <<>>, NEW top \in Nat, NEW Z \in SUBSET Nat,
           NEW P \in SUBSET Nat, Ordered(s, top, Z), Arriving(P, s, top, Z),
           NEW new \in Nat, top <= new, s[1] <= new
    PROVE  Ordered(Tail(s), new, Z) /\ Arriving(P, Tail(s), new, Z)
<1>1. /\ Len(s) \in Nat /\ \A i \in 1..Len(s) : s[i] \in Nat
      /\ Len(Tail(s)) = Len(s) - 1 /\ 1 \in 1..Len(s)
      /\ \A i \in 1..Len(Tail(s)) : Tail(s)[i] = s[i + 1] /\ i + 1 \in 1..Len(s)
  BY TailIs
<1>2. ASSUME NEW k \in 1..Len(Tail(s)), NEW x \in 1..(Tail(s)[k] - 1)
      PROVE  x \in Z \/ x <= new \/ \E j \in 1..(k - 1) : Tail(s)[j] = x
  <2>1. x \in 1..(s[k + 1] - 1) /\ k + 1 \in 1..Len(s) /\ (k + 1) - 1 = k /\ x \in Int
    BY <1>1
  <2>2. x \in Z \/ x <= top \/ \E j \in 1..k : s[j] = x
    BY <2>1 DEF Ordered
  <2>3. ASSUME NEW j \in 1..k, s[j] = x
        PROVE  x <= new \/ \E i \in 1..(k - 1) : Tail(s)[i] = x
    <3>1. CASE j = 1
      BY <2>3, <3>1
    <3>2. CASE j # 1
      <4>1. j - 1 \in 1..(k - 1) /\ j - 1 \in 1..Len(Tail(s)) /\ (j - 1) + 1 = j
        BY <1>1, <3>2
      <4>2. Tail(s)[j - 1] = s[j]
        BY <1>1, <4>1
      <4> QED
        BY <2>3, <4>1, <4>2
    <3> QED
      BY <3>1, <3>2
  <2> QED
    BY <2>1, <2>2, <2>3
<1>3. ASSUME NEW p \in P
      PROVE  p \in Z \/ p <= new \/ \E k \in 1..Len(Tail(s)) : Tail(s)[k] = p
  <2>1. p \in Z \/ p <= top \/ \E j \in 1..Len(s) : s[j] = p
    BY DEF Arriving
  <2>2. ASSUME NEW j \in 1..Len(s), s[j] = p
        PROVE  p <= new \/ \E k \in 1..Len(Tail(s)) : Tail(s)[k] = p
    <3>1. CASE j = 1
      BY <2>2, <3>1
    <3>2. CASE j # 1
      <4>1. j - 1 \in 1..Len(Tail(s)) /\ (j - 1) + 1 = j
        BY <1>1, <3>2
      <4>2. Tail(s)[j - 1] = s[j]
        BY <1>1, <4>1
      <4> QED
        BY <2>2, <4>1, <4>2
    <3> QED
      BY <3>1, <3>2
  <2> QED
    BY <2>1, <2>2
<1> QED
  BY <1>2, <1>3 DEF Ordered, Arriving

(* A publish comes after all that was published before it.                  *)
LEMMA OrderedAppend ==
    ASSUME NEW s \in Seq(Nat), NEW top \in Nat, NEW x \in Nat, NEW P \in SUBSET Nat,
           NEW Z \in SUBSET Nat,
           Ordered(s, top, Z), Arriving(P, s, top, Z), \A r \in 1..(x - 1) : r \in P \/ r \in Z
    PROVE  Ordered(Append(s, x), top, Z) /\ Arriving(P \cup {x}, Append(s, x), top, Z)
<1> DEFINE t == Append(s, x)
<1>1. /\ Len(s) \in Nat /\ \A i \in 1..Len(s) : s[i] \in Nat
      /\ Len(t) = Len(s) + 1 /\ \A i \in 1..Len(s) : t[i] = s[i]
      /\ t[Len(s) + 1] = x
  BY AppendIs
<1> HIDE DEF t
<1>2. ASSUME NEW k \in 1..Len(t), NEW y \in 1..(t[k] - 1)
      PROVE  y \in Z \/ y <= top \/ \E j \in 1..(k - 1) : t[j] = y
  <2>1. CASE k \in 1..Len(s)
    <3>1. y \in Z \/ y <= top \/ \E j \in 1..(k - 1) : s[j] = y
      BY <1>1, <2>1 DEF Ordered
    <3>2. \A j \in 1..(k - 1) : t[j] = s[j]
      BY <1>1, <2>1
    <3> QED
      BY <3>1, <3>2
  <2>2. CASE k = Len(s) + 1
    <3>1. y \in 1..(x - 1) /\ k - 1 = Len(s)
      BY <1>1, <2>2
    <3>2. CASE y \in Z
      BY <3>2
    <3>3. CASE y \in P
      <4>1. y \in Z \/ y <= top \/ \E j \in 1..Len(s) : s[j] = y
        BY <3>3 DEF Arriving
      <4> QED
        BY <1>1, <3>1, <4>1
    <3> QED
      BY <3>1, <3>2, <3>3
  <2> QED
    BY <1>1, <2>1, <2>2
<1>3. ASSUME NEW p \in P \cup {x} PROVE p \in Z \/ p <= top \/ \E j \in 1..Len(t) : t[j] = p
  <2>1. CASE p = x
    <3>1. Len(s) + 1 \in 1..Len(t)
      BY <1>1
    <3> QED
      BY <1>1, <2>1, <3>1
  <2>2. CASE p \in P
    <3>1. p \in Z \/ p <= top \/ \E j \in 1..Len(s) : s[j] = p
      BY <2>2 DEF Arriving
    <3>2. \A j \in 1..Len(s) : j \in 1..Len(t)
      BY <1>1
    <3> QED
      BY <1>1, <3>1, <3>2
  <2> QED
    BY <2>1, <2>2
<1> QED
  BY <1>2, <1>3 DEF Ordered, Arriving, t

(* Moving messages from the wire to the buffer, or off it.                  *)
LEMMA ConcatMoves ==
    ASSUME NEW a \in Seq(Nat), NEW b \in Seq(Nat)
    PROVE  /\ a \o b \in Seq(Nat)
           /\ \A x \in Nat : a \o Append(b, x) = Append(a \o b, x)
           /\ a # <<>> => Tail(a) \o b = Tail(a \o b) /\ a \o b # <<>> /\ (a \o b)[1] = Head(a)
           /\ b # <<>> => Append(a, Head(b)) \o Tail(b) = a \o b
           /\ <<>> \o b = b
<1>1. /\ a \o b \in Seq(Nat) /\ <<>> \o b = b /\ Len(a \o b) = Len(a) + Len(b)
      /\ \A i \in 1..(Len(a) + Len(b)) :
            (a \o b)[i] = IF i <= Len(a) THEN a[i] ELSE b[i - Len(a)]
  BY ConcatProperties, ConcatEmptySeq
<1>2. ASSUME NEW x \in Nat PROVE a \o Append(b, x) = Append(a \o b, x)
  <2>1. Append(b, x) = b \o <<x>> /\ Append(a \o b, x) = (a \o b) \o <<x>>
    BY <1>1, AppendIsConcat
  <2>2. <<x>> \in Seq(Nat)
    OBVIOUS
  <2> QED
    BY <2>1, <2>2, ConcatAssociative
<1>3. ASSUME NEW s \in Seq(Nat), s # <<>> PROVE s = <<Head(s)>> \o Tail(s) /\ <<Head(s)>> \in Seq(Nat)
  <2>1. /\ Head(s) \in Nat /\ Head(s) = s[1] /\ 1 \in 1..Len(s) /\ Len(s) \in Nat
        /\ Tail(s) \in Seq(Nat) /\ Len(Tail(s)) = Len(s) - 1
        /\ \A i \in 1..Len(Tail(s)) : Tail(s)[i] = s[i + 1]
    BY <1>3, TailIs
  <2>2. <<Head(s)>> \in Seq(Nat) /\ Len(<<Head(s)>>) = 1 /\ <<Head(s)>>[1] = Head(s)
    BY <2>1
  <2> DEFINE t == <<Head(s)>> \o Tail(s)
  <2>3. /\ t \in Seq(Nat) /\ Len(t) = 1 + Len(Tail(s))
        /\ \A i \in 1..(1 + Len(Tail(s))) : t[i] = IF i <= 1 THEN <<Head(s)>>[i] ELSE Tail(s)[i - 1]
    BY <2>1, <2>2, ConcatProperties
  <2> HIDE DEF t
  <2>4. Len(t) = Len(s)
    BY <2>1, <2>3
  <2>5. ASSUME NEW i \in 1..Len(s) PROVE t[i] = s[i]
    <3>1. CASE i = 1
      BY <2>1, <2>2, <2>3, <3>1
    <3>2. CASE i # 1
      <4>1. i - 1 \in 1..Len(Tail(s)) /\ ~(i <= 1) /\ i \in 1..(1 + Len(Tail(s))) /\ (i - 1) + 1 = i
        BY <2>1, <3>2
      <4> QED
        BY <2>1, <2>3, <4>1
    <3> QED
      BY <3>1, <3>2
  <2>6. t = s
    BY <2>3, <2>4, <2>5, SeqEqual
  <2> QED
    BY <2>2, <2>6 DEF t
<1>4. ASSUME a # <<>>
      PROVE  Tail(a) \o b = Tail(a \o b) /\ a \o b # <<>> /\ (a \o b)[1] = Head(a)
  <2>1. /\ 1 \in 1..Len(a) /\ Head(a) = a[1] /\ Tail(a) \in Seq(Nat) /\ Len(a) \in Nat /\ Len(b) \in Nat
        /\ Len(Tail(a)) = Len(a) - 1 /\ \A i \in 1..Len(Tail(a)) : Tail(a)[i] = a[i + 1]
    BY <1>4, TailIs
  <2>2. a \o b # <<>>
    <3>1. Len(a \o b) # 0 /\ Len(<<>>) = 0
      BY <1>1, <2>1
    <3> QED
      BY <3>1, Zenon
  <2>3. (a \o b)[1] = Head(a)
    BY <1>1, <2>1
  <2> DEFINE l == Tail(a) \o b
             r == Tail(a \o b)
  <2>4. /\ r \in Seq(Nat) /\ Len(r) = (Len(a) + Len(b)) - 1
        /\ \A i \in 1..Len(r) : r[i] = (a \o b)[i + 1]
    BY <1>1, <2>2, TailIs
  <2>5. /\ l \in Seq(Nat) /\ Len(l) = Len(Tail(a)) + Len(b)
        /\ \A i \in 1..(Len(Tail(a)) + Len(b)) :
              l[i] = IF i <= Len(Tail(a)) THEN Tail(a)[i] ELSE b[i - Len(Tail(a))]
    BY <2>1, ConcatProperties
  <2> HIDE DEF l, r
  <2>6. Len(l) = Len(r)
    BY <2>1, <2>4, <2>5
  <2>7. ASSUME NEW i \in 1..Len(l) PROVE l[i] = r[i]
    <3>1. i + 1 \in 1..(Len(a) + Len(b)) /\ i \in 1..Len(r) /\ i \in 1..(Len(Tail(a)) + Len(b))
      BY <2>1, <2>4, <2>5
    <3>2. CASE i <= Len(Tail(a))
      <4>1. i + 1 <= Len(a) /\ i \in 1..Len(Tail(a))
        BY <2>1, <3>2
      <4> QED
        BY <1>1, <2>1, <2>4, <2>5, <3>1, <3>2, <4>1
    <3>3. CASE ~(i <= Len(Tail(a)))
      <4>1. ~(i + 1 <= Len(a)) /\ (i + 1) - Len(a) = i - Len(Tail(a))
        BY <2>1, <3>3
      <4> QED
        BY <1>1, <2>4, <2>5, <3>1, <3>3, <4>1
    <3> QED
      BY <3>2, <3>3
  <2>8. l = r
    BY <2>4, <2>5, <2>6, <2>7, SeqEqual
  <2> QED
    BY <2>2, <2>3, <2>8 DEF l, r
<1>5. ASSUME b # <<>> PROVE Append(a, Head(b)) \o Tail(b) = a \o b
  <2>1. b = <<Head(b)>> \o Tail(b) /\ <<Head(b)>> \in Seq(Nat) /\ Head(b) \in Nat /\ Tail(b) \in Seq(Nat)
    BY <1>3, <1>5, TailIs
  <2>2. Append(a, Head(b)) = a \o <<Head(b)>>
    BY <2>1, AppendIsConcat
  <2>3. (a \o <<Head(b)>>) \o Tail(b) = a \o (<<Head(b)>> \o Tail(b))
    BY <2>1, ConcatAssociative
  <2> QED
    BY <2>1, <2>2, <2>3
<1> QED
  BY <1>1, <1>2, <1>4, <1>5

(* What the lemmas below know of a state.                                   *)
LEMMA GapFacts ==
    ASSUME SInv
    PROVE  /\ Len(log) \in Nat /\ highestHistorySeq \in Nat /\ afterSeq \in Nat
           /\ published \in SUBSET Nat /\ queried \in Nat /\ Excused \in SUBSET Nat
           /\ wire \in Seq(Nat) /\ liveBuffer \in Seq(Nat) /\ history \in Seq(Nat)
           /\ pipe \in Seq(Nat) /\ received \in Seq(Nat)
           /\ Len(history) \in Nat /\ Len(pipe) \in Nat /\ Len(received) \in Nat
           /\ Coming \in Seq(Nat)
           /\ \A i \in 1..Len(Coming) : Coming[i] \in 1..Len(log)
<1>1. /\ Len(log) \in Nat /\ highestHistorySeq \in Nat /\ afterSeq \in Nat
      /\ wire \in Seq(Nat) /\ liveBuffer \in Seq(Nat) /\ history \in Seq(Nat)
      /\ pipe \in Seq(Nat) /\ received \in Seq(Nat)
      /\ Len(history) \in Nat /\ Len(pipe) \in Nat /\ Len(received) \in Nat
      /\ Len(wire) \in Nat /\ Len(liveBuffer) \in Nat
  BY Types
<1>2. published \in SUBSET Nat /\ queried \in Nat
      /\ unheard \in SUBSET Nat /\ overtaken \in SUBSET Nat
  BY DEF SInv, SseType
<1>3. /\ Coming \in Seq(Nat) /\ Len(Coming) = Len(liveBuffer) + Len(wire)
      /\ \A i \in 1..(Len(liveBuffer) + Len(wire)) :
            Coming[i] = IF i <= Len(liveBuffer) THEN liveBuffer[i] ELSE wire[i - Len(liveBuffer)]
  BY <1>1, ConcatProperties DEF Coming
<1>4. ASSUME NEW i \in 1..Len(Coming) PROVE Coming[i] \in 1..Len(log)
  <2>1. \/ i \in 1..Len(liveBuffer) /\ i <= Len(liveBuffer)
        \/ i - Len(liveBuffer) \in 1..Len(wire) /\ ~(i <= Len(liveBuffer))
    BY <1>1, <1>3
  <2> QED
    BY <1>3, <2>1 DEF SInv, LoggedInv, Logged
<1>5. Excused \in SUBSET Nat
  <2>1. 1..queried \in SUBSET Nat
    BY <1>2
  <2> QED
    BY <1>2, <2>1 DEF Excused
<1> QED
  BY <1>1, <1>2, <1>3, <1>4, <1>5

(* A step that leaves the messages and the excuses alone.                   *)
LEMMA QueriedSame ==
    ASSUME QueriedInv, conn' \in Loaded => conn \in Loaded, Coming' = Coming,
           UNCHANGED <<published, history, highestHistorySeq>>,
           UNCHANGED <<queried, unheard, overtaken>>
    PROVE  QueriedInv'
<1>1. Excused' = Excused
  BY DEF Excused
<1> QED
  BY <1>1 DEF QueriedInv, Ordered, Arriving

(* A closed stream has nothing under way.                                   *)
LEMMA GapClosed ==
    ASSUME GapInv, Teardown, UNCHANGED feedVars, SpanInv'
    PROVE  GapInv'
BY DEF Teardown, feedVars, GapInv, PublishedInv, LiveInv, QueriedInv, Loaded

(* An event is sent, and those it passes over are lost in a race.           *)
LEMMA GapSend ==
    ASSUME SInv, GapInv, conn # "closed", NEW x \in 1..Len(log), highestHistorySeq < x,
           \A s \in (highestHistorySeq + 1)..(x - 1) : LostInARace(s),
           Send(x), UNCHANGED <<received, afterSeq, raceVars>>
    PROVE  SpanInv'
<1>0. /\ pipe \in Seq(Nat) /\ Len(pipe) \in Nat /\ x \in Nat /\ afterSeq \in Nat
      /\ highestHistorySeq \in Nat
  BY GapFacts
<1>1. pipe' = Append(pipe, x) /\ highestHistorySeq' = x
  BY DEF Send
<1>2. /\ Len(pipe') = Len(pipe) + 1 /\ \A i \in 1..Len(pipe) : pipe'[i] = pipe[i]
      /\ pipe'[Len(pipe) + 1] = x
  BY <1>0, <1>1, AppendIs
<1>3. \A s : IsSent(s) => IsSent(s)'
  <2>1. \A j \in 1..Len(pipe) : j \in 1..Len(pipe')
    BY <1>0, <1>2
  <2> QED
    BY <1>2, <2>1 DEF IsSent
<1>4. IsSent(x)'
  <2>1. Len(pipe) + 1 \in 1..Len(pipe')
    BY <1>0, <1>2
  <2> QED
    BY <1>2, <2>1 DEF IsSent
<1>5. \A s : LostInARace(s) => LostInARace(s)'
  BY DEF LostInARace, raceVars
<1>6. ASSUME NEW s \in (afterSeq + 1)..x PROVE IsSent(s)' \/ LostInARace(s)'
  <2>1. \/ s \in (afterSeq + 1)..highestHistorySeq
        \/ s \in (highestHistorySeq + 1)..(x - 1)
        \/ s = x
    BY <1>0
  <2>2. CASE s \in (afterSeq + 1)..highestHistorySeq
    BY <1>3, <1>5, <2>2 DEF GapInv, SpanInv
  <2>3. CASE s \in (highestHistorySeq + 1)..(x - 1)
    BY <1>5, <2>3
  <2>4. CASE s = x
    BY <1>4, <2>4
  <2> QED
    BY <2>1, <2>2, <2>3, <2>4
<1>7. afterSeq' = afterSeq
  OBVIOUS
<1> QED
  BY <1>1, <1>6, <1>7 DEF SpanInv

(* The client's steps.                                                      *)
LEMMA GapClient ==
    ASSUME SInv, GapInv, Open \/ ClientReceives \/ Ping \/ ConnectionBreaks
    PROVE  GapInv'
<1>0. /\ pipe \in Seq(Nat) /\ received \in Seq(Nat) /\ Len(received) \in Nat /\ Len(pipe) \in Nat
      /\ afterSeq \in Nat /\ highestHistorySeq \in Nat /\ lastSeen \in Nat
  BY GapFacts DEF SInv, SseType
<1>1. CASE Open
  <2>1. /\ conn' = "querying" /\ afterSeq' = lastSeen /\ highestHistorySeq' = lastSeen
        /\ UNCHANGED <<log, published>>
    BY <1>1 DEF Open, feedVars
  <2>2. (afterSeq' + 1)..highestHistorySeq' = {}
    BY <1>0, <2>1
  <2>3. SpanInv'
    BY <2>2 DEF SpanInv
  <2> QED
    BY <2>1, <2>3 DEF GapInv, PublishedInv, LiveInv, QueriedInv, Loaded
<1>2. CASE ClientReceives
  <2>1. /\ pipe # <<>> /\ received' = Append(received, Head(pipe)) /\ pipe' = Tail(pipe)
        /\ UNCHANGED <<log, published, conn, wire, history, afterSeq, highestHistorySeq, liveBuffer>>
        /\ UNCHANGED <<queried, unheard, overtaken>>
    BY <1>2 DEF ClientReceives, feedVars, raceVars
  <2>2. /\ 1 \in 1..Len(pipe) /\ Head(pipe) \in Nat /\ Head(pipe) = pipe[1]
        /\ Len(Tail(pipe)) = Len(pipe) - 1
        /\ \A i \in 1..Len(Tail(pipe)) : Tail(pipe)[i] = pipe[i + 1]
    BY <1>0, <2>1, TailIs
  <2>3. /\ Len(received') = Len(received) + 1
        /\ \A i \in 1..Len(received) : received'[i] = received[i]
        /\ received'[Len(received) + 1] = pipe[1]
    BY <1>0, <2>1, <2>2, AppendIs
  <2>4. ASSUME NEW s, IsSent(s) PROVE IsSent(s)'
    <3>1. ASSUME NEW i \in 1..Len(received), received[i] = s PROVE IsSent(s)'
      <4>1. i \in 1..Len(received')
        BY <1>0, <2>3
      <4> QED
        BY <2>3, <3>1, <4>1 DEF IsSent
    <3>2. ASSUME NEW j \in 1..Len(pipe), pipe[j] = s PROVE IsSent(s)'
      <4>1. CASE j = 1
        <5>1. Len(received) + 1 \in 1..Len(received')
          BY <1>0, <2>3
        <5> QED
          BY <2>3, <3>2, <4>1, <5>1 DEF IsSent
      <4>2. CASE j # 1
        <5>1. j - 1 \in 1..Len(pipe') /\ (j - 1) + 1 = j
          BY <1>0, <2>1, <2>2, <4>2
        <5>2. pipe'[j - 1] = s
          BY <2>1, <2>2, <3>2, <5>1
        <5> QED
          BY <5>1, <5>2 DEF IsSent
      <4> QED
        BY <4>1, <4>2
    <3> QED
      BY <2>4, <3>1, <3>2 DEF IsSent
  <2>5. SpanInv'
    BY <2>1, <2>4 DEF GapInv, SpanInv, LostInARace
  <2>6. QueriedInv'
    BY <2>1, QueriedSame DEF GapInv, Coming
  <2> QED
    BY <2>1, <2>5, <2>6 DEF GapInv, PublishedInv, LiveInv
<1>3. CASE Ping
  <2>1. /\ UNCHANGED <<log, published, conn, wire, history, afterSeq, highestHistorySeq, liveBuffer>>
        /\ UNCHANGED <<pipe, received, queried, unheard, overtaken>>
    BY <1>3 DEF Ping, feedVars, raceVars
  <2>2. QueriedInv'
    BY <2>1, QueriedSame DEF GapInv, Coming
  <2> QED
    BY <2>1, <2>2 DEF GapInv, SpanInv, IsSent, LostInARace, PublishedInv, LiveInv
<1>4. CASE ConnectionBreaks
  <2>1. Teardown /\ UNCHANGED feedVars /\ pipe' = <<>> /\ received' = <<>>
    BY <1>4 DEF ConnectionBreaks
  <2>2. SpanInv'
    BY <2>1 DEF SpanInv, Teardown
  <2> QED
    BY <2>1, <2>2, GapClosed
<1> QED
  BY <1>1, <1>2, <1>3, <1>4

(* SUBSCRIBE and a new row.                                                 *)
LEMMA GapOutside ==
    ASSUME SInv, GapInv, Subscribe \/ \E type \in EventTypes : Writes(type)
    PROVE  GapInv'
<1>1. CASE Subscribe
  BY <1>1 DEF Subscribe, feedVars, raceVars, GapInv, SpanInv, IsSent, LostInARace, PublishedInv,
              LiveInv, QueriedInv, Coming, Excused, Ordered, Arriving
<1>2. ASSUME NEW type \in EventTypes, Writes(type) PROVE GapInv'
  <2>1. /\ UNCHANGED <<published, conn, wire, history, afterSeq, highestHistorySeq, liveBuffer, pipe, received>>
        /\ UNCHANGED <<queried, unheard, overtaken>>
    BY <1>2 DEF Writes, LogEvent, sseVars, raceVars
  <2>2. log \in Seq(EventTypes) /\ log' = Append(log, type)
    BY <1>2, Types DEF Writes, LogEvent
  <2>3. Len(log) \in Nat /\ Len(log') = Len(log) + 1
    BY <2>2
  <2>4. 1..Len(log) \subseteq 1..Len(log')
    BY <2>3
  <2>5. PublishedInv'
    BY <2>1, <2>4 DEF GapInv, PublishedInv
  <2>6. SpanInv' /\ LiveInv' /\ QueriedInv'
    BY <2>1 DEF GapInv, SpanInv, IsSent, LostInARace, LiveInv, QueriedInv, Coming, Excused, Ordered, Arriving
  <2> QED
    BY <2>5, <2>6 DEF GapInv
<1> QED
  BY <1>1, <1>2

(* A publish: whatever it overtakes is excused from then on, and if nobody  *)
(* listens it is excused itself.                                            *)
LEMMA GapPublish ==
    ASSUME SInv, GapInv, NEW s \in DOMAIN log, Publishes(s)
    PROVE  GapInv'
<1>0. /\ Len(log) \in Nat /\ highestHistorySeq \in Nat /\ published \in SUBSET Nat
      /\ wire \in Seq(Nat) /\ liveBuffer \in Seq(Nat) /\ Coming \in Seq(Nat)
      /\ queried \in Nat /\ Excused \in SUBSET Nat
      /\ s \in 1..Len(log) /\ s \in Nat
  <2>1. log \in Seq(EventTypes)
    BY Types
  <2> QED
    BY <2>1, GapFacts
<1>1. /\ published' = published \cup {s}
      /\ wire' = IF subscribed THEN Append(wire, s) ELSE wire
      /\ UNCHANGED <<log, conn, subscribed, history, highestHistorySeq, liveBuffer>>
      /\ UNCHANGED <<pipe, received, afterSeq, queried>>
      /\ unheard' = IF conn \in Loaded /\ ~subscribed /\ s > queried
                    THEN unheard \cup {s} ELSE unheard
      /\ overtaken' = IF conn \in Loaded
                      THEN overtaken \cup {r \in (queried + 1)..(s - 1) : r \notin published}
                      ELSE overtaken
  BY DEF Publishes, PublishEvent
<1>2. unheard \subseteq unheard' /\ overtaken \subseteq overtaken'
  BY <1>1
<1>3. PublishedInv' /\ LiveInv'
  BY <1>0, <1>1 DEF GapInv, PublishedInv, LiveInv
<1>4. SpanInv'
  <2>1. \A r : LostInARace(r) => LostInARace(r)'
    BY <1>1, <1>2 DEF LostInARace
  <2> QED
    BY <1>1, <2>1 DEF GapInv, SpanInv, IsSent
<1>5. ASSUME conn \in Loaded PROVE QueriedInv'
  <2> DEFINE Y == Excused'
             h == highestHistorySeq
  <2>1. Y \in SUBSET Nat /\ Excused \subseteq Y
    <3>1. Y = (1..queried) \cup unheard' \cup overtaken'
      BY <1>1 DEF Excused
    <3>2. Excused \subseteq Y
      BY <1>2, <3>1 DEF Excused
    <3>3. unheard \in SUBSET Nat /\ overtaken \in SUBSET Nat
      BY DEF SInv, SseType
    <3>4. (queried + 1)..(s - 1) \in SUBSET Nat /\ 1..queried \in SUBSET Nat
      BY <1>0
    <3>5. overtaken' \in SUBSET Nat /\ unheard' \in SUBSET Nat
      BY <1>0, <1>1, <3>3, <3>4
    <3> QED
      BY <3>1, <3>2, <3>4, <3>5
  <2>2. ASSUME NEW r \in 1..(s - 1) PROVE r \in published \/ r \in Y
    <3>1. CASE r <= queried
      <4>1. r \in 1..queried
        BY <1>0, <3>1
      <4> QED
        BY <1>1, <4>1 DEF Excused
    <3>2. CASE ~(r <= queried) /\ r \notin published
      <4>1. r \in (queried + 1)..(s - 1)
        BY <1>0, <3>2
      <4>2. r \in overtaken'
        BY <1>1, <1>5, <3>2, <4>1
      <4> QED
        BY <4>2 DEF Excused
    <3> QED
      BY <3>1, <3>2
  <2>3. ~subscribed => s \in Y
    <3> SUFFICES ASSUME ~subscribed PROVE s \in Y
      OBVIOUS
    <3>1. CASE s > queried
      BY <1>1, <1>5, <3>1 DEF Excused
    <3>2. CASE ~(s > queried)
      <4>1. s \in 1..queried
        BY <1>0, <3>2
      <4> QED
        BY <1>1, <4>1 DEF Excused
    <3> QED
      BY <3>1, <3>2
  <2>4. /\ \A i \in 1..Len(history) : history[i] = h + i
        /\ queried <= h + Len(history)
        /\ Ordered(Coming, h, Excused) /\ Arriving(published, Coming, h, Excused)
    BY <1>5 DEF GapInv, QueriedInv
  <2> HIDE DEF Y
  <2>5. Ordered(Coming, h, Y) /\ Arriving(published, Coming, h, Y)
    <3>1. h <= h
      BY <1>0
    <3> QED
      BY <1>0, <2>1, <2>4, <3>1, OrderedMore
  <2>6. Ordered(Coming', h, Y) /\ Arriving(published \cup {s}, Coming', h, Y)
    <3>1. CASE subscribed
      <4>1. Coming' = Append(Coming, s)
        BY <1>0, <1>1, <3>1, ConcatMoves DEF Coming
      <4> QED
        BY <1>0, <2>1, <2>2, <2>5, <4>1, OrderedAppend
    <3>2. CASE ~subscribed
      <4>1. Coming' = Coming
        BY <1>1, <3>2 DEF Coming
      <4> QED
        BY <2>3, <2>5, <3>2, <4>1 DEF Arriving
    <3> QED
      BY <3>1, <3>2
  <2>7. Y = Excused'
    BY DEF Y
  <2> QED
    BY <1>1, <2>4, <2>6, <2>7 DEF QueriedInv, Ordered, Arriving
<1>6. conn \notin Loaded => QueriedInv'
  BY <1>1 DEF QueriedInv
<1> QED
  BY <1>3, <1>4, <1>5, <1>6 DEF GapInv

(* The history query: all that was published, and all that is coming, is    *)
(* among its rows.                                                          *)
LEMMA GapQuery ==
    ASSUME SInv, GapInv, Query
    PROVE  GapInv'
<1>0. /\ Len(log) \in Nat /\ highestHistorySeq \in Nat /\ published \in SUBSET Nat
      /\ Coming \in Seq(Nat) /\ \A i \in 1..Len(Coming) : Coming[i] \in 1..Len(log)
  BY GapFacts
<1>1. /\ conn = "querying" /\ history' = Rows /\ conn' = "fetched" /\ queried' = Len(log)
      /\ UNCHANGED <<log, published, wire, afterSeq, highestHistorySeq, liveBuffer>>
      /\ UNCHANGED <<pipe, received, unheard, overtaken>>
  BY DEF Query, feedVars
<1>2. highestHistorySeq = afterSeq
  BY <1>1 DEF SInv, HistoryInv
<1>3. PublishedInv' /\ LiveInv'
  BY <1>1 DEF GapInv, PublishedInv, LiveInv
<1>4. SpanInv'
  <2>1. (afterSeq' + 1)..highestHistorySeq' = {}
    BY <1>0, <1>1, <1>2
  <2> QED
    BY <2>1 DEF SpanInv
<1>5. QueriedInv'
  <2> DEFINE n == Len(log) - highestHistorySeq
             h == highestHistorySeq
  <2>1. n \in Int /\ history' = [i \in 1..n |-> h + i]
    BY <1>0, <1>1, <1>2 DEF Rows
  <2>2. history' \in Seq(Nat) /\ \A i \in 1..Len(history') : history'[i] = h + i
    <3> DEFINE rows == history'
    <3>1. n \in Int /\ h \in Nat /\ rows = [i \in 1..n |-> h + i]
      BY <1>0, <2>1
    <3> HIDE DEF n, h, rows
    <3>2. rows \in Seq(Nat) /\ \A i \in 1..Len(rows) : i \in 1..n /\ rows[i] = h + i
      BY <3>1, IntervalIs
    <3> QED
      BY <3>2 DEF rows
  <2>3. Len(log) <= h + Len(history')
    <3>0. Len(history') \in Nat
      BY <2>2
    <3>1. CASE n >= 0
      <4>1. n \in Nat /\ \A i \in 1..n : h + i \in Nat
        BY <1>0, <3>1
      <4>2. history' \in [1..n -> Nat]
        BY <2>1, <4>1
      <4>3. Len(history') = n
        BY <4>1, <4>2
      <4> QED
        BY <1>0, <4>3
    <3>2. CASE n < 0
      BY <1>0, <3>0, <3>2
    <3> QED
      BY <1>0, <3>1, <3>2
  <2>4. 1..Len(log) \subseteq Excused'
    BY <1>1 DEF Excused
  <2>5. Ordered(Coming, h, Excused')
    <3> SUFFICES ASSUME NEW k \in 1..Len(Coming), NEW x \in 1..(Coming[k] - 1)
                 PROVE  x \in 1..Len(log)
      BY <2>4 DEF Ordered
    <3> QED
      BY <1>0
  <2>6. Arriving(published, Coming, h, Excused')
    BY <2>4 DEF GapInv, PublishedInv, Arriving
  <2>7. Coming' = Coming /\ h' = h /\ published' = published /\ queried' = Len(log)
    BY <1>1 DEF Coming
  <2> QED
    BY <2>2, <2>3, <2>5, <2>6, <2>7 DEF QueriedInv, Ordered, Arriving
<1> QED
  BY <1>3, <1>4, <1>5 DEF GapInv

(* The callbacks that send nothing.                                         *)
LEMMA GapCallback ==
    ASSUME SInv, GapInv, Replay \/ ReplayDone \/ DrainDone \/ BufferMessage \/ BufferOverflows
    PROVE  GapInv'
<1>0. wire \in Seq(Nat) /\ liveBuffer \in Seq(Nat)
  BY GapFacts
<1>1. CASE Replay \/ ReplayDone \/ DrainDone
  <2>1. /\ conn \in Loaded /\ conn' \in Loaded /\ (conn' = "live" => liveBuffer = <<>>)
        /\ UNCHANGED <<log, published, wire, history, afterSeq, highestHistorySeq, liveBuffer>>
        /\ UNCHANGED <<pipe, received, queried, unheard, overtaken>>
    BY <1>1 DEF Replay, ReplayDone, DrainDone, Loaded, feedVars, raceVars
  <2>2. conn # "closed"
    BY <2>1 DEF Loaded
  <2>3. QueriedInv'
    BY <2>1, QueriedSame DEF GapInv, Coming
  <2>4. SpanInv' /\ PublishedInv' /\ LiveInv'
    BY <2>1, <2>2 DEF GapInv, SpanInv, IsSent, LostInARace, PublishedInv, LiveInv
  <2> QED
    BY <2>3, <2>4 DEF GapInv
<1>2. CASE BufferMessage
  <2>1. /\ conn \in {"querying", "fetched"} /\ wire # <<>>
        /\ liveBuffer' = Append(liveBuffer, Head(wire)) /\ wire' = Tail(wire)
        /\ UNCHANGED <<log, published, conn, history, afterSeq, highestHistorySeq>>
        /\ UNCHANGED <<pipe, received, queried, unheard, overtaken>>
    BY <1>2 DEF BufferMessage, KeepOpen, feedVars, raceVars
  <2>2. Coming' = Coming
    BY <1>0, <2>1, ConcatMoves DEF Coming
  <2>3. QueriedInv'
    BY <2>1, <2>2, QueriedSame DEF GapInv
  <2>4. SpanInv' /\ PublishedInv' /\ LiveInv'
    BY <2>1 DEF GapInv, SpanInv, IsSent, LostInARace, PublishedInv, LiveInv
  <2> QED
    BY <2>3, <2>4 DEF GapInv
<1>3. CASE BufferOverflows
  <2>1. /\ Teardown /\ UNCHANGED feedVars /\ conn # "closed"
        /\ UNCHANGED <<pipe, received, afterSeq, highestHistorySeq, queried, unheard, overtaken>>
    BY <1>3 DEF BufferOverflows, raceVars
  <2>2. SpanInv'
    BY <2>1 DEF GapInv, SpanInv, IsSent, LostInARace
  <2> QED
    BY <2>1, <2>2, GapClosed
<1> QED
  BY <1>1, <1>2, <1>3

(* A message is taken, from the buffer or the wire.  If it is sent, what it *)
(* passes over was lost in a race.                                          *)
LEMMA GapTaken ==
    ASSUME SInv, GapInv, conn \in {"draining", "live"}, history = <<>>, Coming # <<>>,
           NEW x \in 1..Len(log), x = Coming[1],
           UNCHANGED <<feedVars, received, afterSeq, raceVars>>,
           \/ highestHistorySeq < x /\ Send(x) /\ Teardown
           \/ /\ \/ highestHistorySeq < x /\ Send(x)
                 \/ x <= highestHistorySeq /\ UNCHANGED <<pipe, highestHistorySeq>>
              /\ Coming' = Tail(Coming) /\ UNCHANGED <<conn, history>>
              /\ conn = "live" => liveBuffer' = <<>>
    PROVE  GapInv'
<1> DEFINE h == highestHistorySeq
<1>0. /\ h \in Nat /\ published \in SUBSET Nat /\ Coming \in Seq(Nat) /\ x \in Nat
      /\ queried \in Nat /\ Excused \in SUBSET Nat
      /\ 1 \in 1..Len(Coming) /\ conn # "closed" /\ conn \in Loaded
  <2>1. 1 \in 1..Len(Coming)
    BY GapFacts, TailIs
  <2> QED
    BY <2>1, GapFacts DEF Loaded
<1>1. Len(history) = 0
  <2>1. Len(<<>>) = 0
    OBVIOUS
  <2> QED
    BY <2>1, Zenon
<1>2. /\ Ordered(Coming, h, Excused) /\ Arriving(published, Coming, h, Excused)
      /\ queried <= h + Len(history)
  BY <1>0 DEF GapInv, QueriedInv
<1>3. queried <= h
  BY <1>0, <1>1, <1>2
<1>4. ASSUME NEW s \in (h + 1)..(x - 1) PROVE LostInARace(s)
  <2>1. s \in 1..(Coming[1] - 1) /\ ~(s <= h) /\ s > queried /\ s \notin 1..queried
    BY <1>0, <1>3
  <2>2. 1..(1 - 1) = {}
    OBVIOUS
  <2>3. s \in Excused
    BY <1>0, <1>2, <2>1, <2>2 DEF Ordered
  <2> QED
    BY <2>1, <2>3 DEF Excused, LostInARace
<1>5. h < x /\ Send(x) => SpanInv'
  BY <1>0, <1>4, GapSend
<1>6. CASE h < x /\ Send(x) /\ Teardown
  BY <1>5, <1>6, GapClosed
<1>7. CASE /\ (h < x /\ Send(x)) \/ (x <= h /\ UNCHANGED <<pipe, highestHistorySeq>>)
           /\ Coming' = Tail(Coming) /\ UNCHANGED <<conn, history>>
           /\ conn = "live" => liveBuffer' = <<>>
  <2>1. SpanInv' /\ h' \in Nat /\ h <= h' /\ x <= h'
    <3>1. CASE h < x /\ Send(x)
      <4>1. h' = x
        BY <3>1 DEF Send
      <4> QED
        BY <1>0, <1>5, <3>1, <4>1
    <3>2. CASE x <= h /\ UNCHANGED <<pipe, highestHistorySeq>>
      <4>1. h' = h
        BY <3>2
      <4>2. SpanInv'
        BY <1>0, <3>2 DEF GapInv, SpanInv, IsSent, LostInARace, raceVars
      <4> QED
        BY <1>0, <3>2, <4>1, <4>2
    <3> QED
      BY <1>7, <3>1, <3>2
  <2>2. PublishedInv' /\ LiveInv'
    BY <1>7 DEF GapInv, PublishedInv, LiveInv, feedVars
  <2>3. Ordered(Tail(Coming), h', Excused) /\ Arriving(published, Tail(Coming), h', Excused)
    BY <1>0, <1>2, <2>1, OrderedTail
  <2>4. Excused' = Excused /\ queried' = queried /\ published' = published
    BY DEF Excused, raceVars, feedVars
  <2>5. history' = <<>> /\ Len(history') = 0
    BY <1>1, <1>7, Zenon
  <2>6. queried' <= h' + Len(history')
    <3>1. \A q, a, b \in Nat : q <= a /\ a <= b => q <= b + 0
      OBVIOUS
    <3> QED
      BY <1>0, <1>3, <2>1, <2>4, <2>5, <3>1, Zenon
  <2>7. \A i \in 1..Len(history') : history'[i] = h' + i
    BY <2>5
  <2>8. Coming' = Tail(Coming)
    BY <1>7
  <2>9. QueriedInv'
    <3>1. Ordered(Coming', h', Excused') /\ Arriving(published', Coming', h', Excused')
      BY <2>3, <2>4, <2>8, Zenon
    <3>2. (Ordered(Coming, h, Excused) /\ Arriving(published, Coming, h, Excused))'
      BY <3>1, Zenon DEF Ordered, Arriving
    <3> QED
      BY <2>6, <2>7, <3>2, Zenon DEF QueriedInv
  <2> QED
    BY <2>1, <2>2, <2>9 DEF GapInv
<1> QED
  BY <1>6, <1>7

(* The callbacks that send.                                                 *)
LEMMA GapSending ==
    ASSUME SInv, GapInv, ReplayRow \/ DrainOne \/ LiveMessage
    PROVE  GapInv'
<1>0. /\ Len(log) \in Nat /\ highestHistorySeq \in Nat /\ published \in SUBSET Nat
      /\ queried \in Nat /\ Excused \in SUBSET Nat /\ Coming \in Seq(Nat)
      /\ wire \in Seq(Nat) /\ liveBuffer \in Seq(Nat) /\ history \in Seq(Nat) /\ Len(history) \in Nat
  BY GapFacts
<1>h. conn \in {"draining", "live"} => history = <<>>
  BY DEF SInv, HistoryInv
<1>1. CASE ReplayRow
  <2>1. /\ conn = "replaying" /\ conn \in Loaded /\ history # <<>> /\ Send(Head(history))
        /\ UNCHANGED <<feedVars, received, afterSeq, raceVars>>
    BY <1>1 DEF ReplayRow, Loaded
  <2>2. /\ 1 \in 1..Len(history) /\ Head(history) = history[1] /\ Len(Tail(history)) = Len(history) - 1
        /\ \A i \in 1..Len(Tail(history)) : Tail(history)[i] = history[i + 1] /\ i + 1 \in 1..Len(history)
    BY <1>0, <2>1, TailIs
  <2>3. /\ \A i \in 1..Len(history) : history[i] = highestHistorySeq + i
        /\ queried <= highestHistorySeq + Len(history)
        /\ Ordered(Coming, highestHistorySeq, Excused)
        /\ Arriving(published, Coming, highestHistorySeq, Excused)
    BY <2>1 DEF GapInv, QueriedInv
  <2>4. Head(history) = highestHistorySeq + 1 /\ Head(history) \in 1..Len(log)
    BY <2>2, <2>3 DEF SInv, LoggedInv, Logged
  <2>5. highestHistorySeq' = highestHistorySeq + 1
    BY <2>1, <2>4 DEF Send
  <2>6. SpanInv'
    <3>1. (highestHistorySeq + 1)..(Head(history) - 1) = {} /\ highestHistorySeq < Head(history)
      BY <1>0, <2>4
    <3> QED
      BY <2>1, <2>4, <3>1, GapSend
  <2>7. CASE Ends(Head(history))
    <3>1. Teardown
      BY <1>1, <2>7 DEF ReplayRow
    <3> QED
      BY <2>1, <2>6, <3>1, GapClosed
  <2>8. CASE ~Ends(Head(history))
    <3>1. /\ history' = Tail(history)
          /\ UNCHANGED <<log, published, conn, wire, liveBuffer, queried, unheard, overtaken>>
      BY <1>1, <2>8 DEF ReplayRow, KeepOpen, feedVars, raceVars
    <3>2. queried' <= highestHistorySeq' + Len(history')
      <4>1. Len(history') = Len(history) - 1 /\ queried' = queried
        BY <2>2, <3>1
      <4> QED
        BY <1>0, <2>3, <2>5, <4>1
    <3>3. ASSUME NEW i \in 1..Len(history') PROVE history'[i] = highestHistorySeq' + i
      <4>1. history'[i] = highestHistorySeq + (i + 1)
        BY <2>2, <2>3, <3>1
      <4>2. i \in Nat
        BY <1>0, <2>2, <3>1
      <4> QED
        BY <1>0, <2>5, <4>1, <4>2
    <3>4. Ordered(Coming, highestHistorySeq', Excused) /\ Arriving(published, Coming, highestHistorySeq', Excused)
      <4> DEFINE new == highestHistorySeq'
      <4>1. new \in Nat /\ highestHistorySeq <= new
        BY <1>0, <2>5
      <4> HIDE DEF new
      <4>2. Ordered(Coming, new, Excused) /\ Arriving(published, Coming, new, Excused)
        BY <1>0, <2>3, <4>1, OrderedMore
      <4> QED
        BY <4>2 DEF new
    <3>5. Coming' = Coming /\ Excused' = Excused /\ published' = published
      BY <3>1 DEF Coming, Excused
    <3>6. QueriedInv'
      BY <3>2, <3>3, <3>4, <3>5 DEF QueriedInv, Ordered, Arriving
    <3>7. PublishedInv' /\ LiveInv'
      BY <3>1 DEF GapInv, PublishedInv, LiveInv
    <3> QED
      BY <2>6, <3>6, <3>7 DEF GapInv
  <2> QED
    BY <2>7, <2>8
<1>2. CASE DrainOne
  <2> DEFINE x == Head(liveBuffer)
  <2>1. /\ conn = "draining" /\ liveBuffer # <<>> /\ history = <<>>
        /\ UNCHANGED <<feedVars, received, afterSeq, raceVars>>
    BY <1>2, <1>h DEF DrainOne
  <2>2. Coming # <<>> /\ Coming[1] = x /\ Tail(liveBuffer) \o wire = Tail(Coming)
    BY <1>0, <2>1, ConcatMoves DEF Coming
  <2>3. x \in 1..Len(log)
    BY <1>0, <2>1, TailIs DEF SInv, LoggedInv, Logged
  <2>4. \/ highestHistorySeq < x /\ Send(x) /\ Teardown
        \/ /\ (highestHistorySeq < x /\ Send(x)) \/ (x <= highestHistorySeq /\ UNCHANGED <<pipe, highestHistorySeq>>)
           /\ liveBuffer' = Tail(liveBuffer) /\ UNCHANGED <<conn, history, wire>>
    <3>1. CASE x > highestHistorySeq
      <4>1. highestHistorySeq < x
        BY <1>0, <2>3, <3>1
      <4> QED
        BY <1>2, <3>1, <4>1 DEF DrainOne, KeepOpen
    <3>2. CASE ~(x > highestHistorySeq)
      <4>1. x <= highestHistorySeq
        BY <1>0, <2>3, <3>2
      <4> QED
        BY <1>2, <3>2, <4>1 DEF DrainOne, KeepOpen
    <3> QED
      BY <3>1, <3>2
  <2>5. liveBuffer' = Tail(liveBuffer) /\ wire' = wire => Coming' = Tail(Coming)
    BY <2>2 DEF Coming
  <2> HIDE DEF x
  <2> QED
    BY <2>1, <2>2, <2>3, <2>4, <2>5, GapTaken
<1>3. CASE LiveMessage
  <2> DEFINE x == Head(wire)
  <2>1. /\ conn = "live" /\ wire # <<>> /\ history = <<>>
        /\ UNCHANGED <<feedVars, received, afterSeq, raceVars>>
    BY <1>3, <1>h DEF LiveMessage
  <2>2. liveBuffer = <<>>
    BY <2>1 DEF GapInv, LiveInv
  <2>3. Coming = wire
    BY <1>0, <2>2, ConcatMoves DEF Coming
  <2>4. x \in 1..Len(log) /\ x = Coming[1] /\ Coming # <<>> /\ Tail(wire) \in Seq(Nat)
    BY <1>0, <2>1, <2>3, TailIs DEF SInv, LoggedInv, Logged
  <2>5. \/ highestHistorySeq < x /\ Send(x) /\ Teardown
        \/ /\ (highestHistorySeq < x /\ Send(x)) \/ (x <= highestHistorySeq /\ UNCHANGED <<pipe, highestHistorySeq>>)
           /\ wire' = Tail(wire) /\ UNCHANGED <<conn, history, liveBuffer>>
    <3>1. CASE x > highestHistorySeq
      <4>1. highestHistorySeq < x
        BY <1>0, <2>4, <3>1
      <4> QED
        BY <1>3, <3>1, <4>1 DEF LiveMessage, KeepOpen
    <3>2. CASE ~(x > highestHistorySeq)
      <4>1. x <= highestHistorySeq
        BY <1>0, <2>4, <3>2
      <4> QED
        BY <1>3, <3>2, <4>1 DEF LiveMessage, KeepOpen
    <3> QED
      BY <3>1, <3>2
  <2>6. wire' = Tail(wire) /\ liveBuffer' = liveBuffer => Coming' = Tail(Coming)
    BY <2>2, <2>3, <2>4, ConcatMoves DEF Coming
  <2> HIDE DEF x
  <2> QED
    BY <2>1, <2>2, <2>4, <2>5, <2>6, GapTaken
<1> QED
  BY <1>1, <1>2, <1>3

(* Whatever lies between the position a client gave and an event the stream *)
(* sends is sent too, or was logged after the history query and published   *)
(* before SUBSCRIBE took effect or after a later event: SseService leaves   *)
(* out nothing else, for every order of query, publishes, buffering,        *)
(* overflow and repeated messages.                                          *)
THEOREM StreamGapsExplained == SseSpec => []GapsExplained
<1>1. SseInit => SInv /\ GapInv
  <2> SUFFICES ASSUME SseInit PROVE GapInv
    BY StreamInit
  <2>1. SpanInv /\ PublishedInv /\ LiveInv /\ QueriedInv
    BY DEF SseInit, FeedInit, SpanInv, PublishedInv, LiveInv, QueriedInv, Loaded
  <2> QED
    BY <2>1 DEF GapInv
<1>2. SInv /\ GapInv /\ [SseNext]_streamVars => (SInv /\ GapInv)'
  <2> SUFFICES ASSUME SInv, GapInv, [SseNext]_streamVars PROVE GapInv'
    BY StreamSteps
  <2>1. CASE UNCHANGED streamVars
    <3>1. /\ UNCHANGED <<log, published, conn, wire, history, afterSeq, highestHistorySeq, liveBuffer>>
          /\ UNCHANGED <<pipe, received, queried, unheard, overtaken>>
      BY <2>1 DEF streamVars, sseVars, feedVars, raceVars
    <3>2. QueriedInv'
      BY <3>1, QueriedSame DEF GapInv, Coming
    <3> QED
      BY <3>1, <3>2 DEF GapInv, SpanInv, IsSent, LostInARace, PublishedInv, LiveInv
  <2>2. CASE StreamStep
    BY <2>2, GapQuery, GapCallback, GapSending DEF StreamStep
  <2> QED
    BY <2>1, <2>2, GapClient, GapOutside, GapPublish DEF SseNext
<1>3. SInv /\ GapInv => GapsExplained
  <2> SUFFICES ASSUME SInv, GapInv,
                      NEW i \in DOMAIN Sent, NEW s \in (afterSeq + 1)..(Sent[i] - 1)
               PROVE  (\E j \in DOMAIN Sent : Sent[j] = s) \/ LostInARace(s)
    BY DEF GapsExplained
  <2>1. /\ received \in Seq(Nat) /\ pipe \in Seq(Nat) /\ Len(received) \in Nat /\ Len(pipe) \in Nat
        /\ afterSeq \in Nat /\ highestHistorySeq \in Nat
    BY GapFacts
  <2>2. /\ DOMAIN Sent = 1..(Len(received) + Len(pipe))
        /\ \A k \in 1..(Len(received) + Len(pipe)) :
              Sent[k] = IF k <= Len(received) THEN received[k] ELSE pipe[k - Len(received)]
    BY <2>1 DEF Sent
  <2>3. Sent[i] \in Nat /\ Sent[i] <= highestHistorySeq /\ (received # <<>> \/ pipe # <<>>)
    <3>1. CASE i <= Len(received)
      <4>1. i \in 1..Len(received) /\ received # <<>>
        BY <2>1, <2>2, <3>1
      <4> QED
        BY <2>1, <2>2, <3>1, <4>1 DEF SInv, HighestInv, Within
    <3>2. CASE ~(i <= Len(received))
      <4>1. i - Len(received) \in 1..Len(pipe) /\ pipe # <<>>
        BY <2>1, <2>2, <3>2
      <4> QED
        BY <2>1, <2>2, <3>2, <4>1 DEF SInv, HighestInv, Within
    <3> QED
      BY <3>1, <3>2
  <2>4. s \in (afterSeq + 1)..highestHistorySeq
    BY <2>1, <2>3
  <2>5. IsSent(s) \/ LostInARace(s)
    BY <2>3, <2>4 DEF GapInv, SpanInv
  <2>6. ASSUME NEW j \in 1..Len(received), received[j] = s PROVE \E k \in DOMAIN Sent : Sent[k] = s
    <3>1. j \in DOMAIN Sent /\ j <= Len(received)
      BY <2>1, <2>2
    <3>2. Sent[j] = s
      BY <2>2, <2>6, <3>1
    <3> QED
      BY <3>1, <3>2
  <2>7. ASSUME NEW j \in 1..Len(pipe), pipe[j] = s PROVE \E k \in DOMAIN Sent : Sent[k] = s
    <3>1. /\ Len(received) + j \in DOMAIN Sent /\ ~(Len(received) + j <= Len(received))
          /\ (Len(received) + j) - Len(received) = j
      BY <2>1, <2>2
    <3>2. Sent[Len(received) + j] = s
      BY <2>2, <2>7, <3>1
    <3> QED
      BY <3>1, <3>2
  <2> QED
    BY <2>5, <2>6, <2>7 DEF IsSent
<1> QED
  BY <1>1, <1>2, <1>3, PTL DEF SseSpec
=============================================================================
