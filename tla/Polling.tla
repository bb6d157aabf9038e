------------------------------- MODULE Polling -------------------------------
(***************************************************************************)
(* GET /tasks/:id beside the whole proxy and its data retention: a client  *)
(* that polls compares what it reads with what it was told before, by the  *)
(* 202, the poll before, the stream, the webhook or its own cancel.        *)
(*                                                                         *)
(* The handler reads once and changes nothing.  What is on its way to the  *)
(* client when the read takes place counts as told, so that how long       *)
(* request and reply travel makes no difference.                           *)
(***************************************************************************)
EXTENDS Retention

VARIABLE heard          \* per task, what its client's last poll answered

pollingVars == <<allVars, heard>>

\* What a poll is answered now: the row or, if findById finds none, a 404.
getStatus(t) == Body(tasks[t])

\* A client that has its 202 asks.
Poll(t) ==
    /\ creator[t] = "created"
    /\ heard' = [heard EXCEPT ![t] = getStatus(t)]
    /\ UNCHANGED allVars

PollingInit == RetentionInit /\ heard = [t \in Tasks |-> Body(NewRow)]

PollingNext ==
    \/ RetentionNext /\ UNCHANGED heard
    \/ \E t \in Tasks : Poll(t)

PollingSpec == PollingInit /\ [][PollingNext]_pollingVars

\* Fairness as in Retention.
FairPollingSpec ==
    PollingSpec /\ \A r \in Retainers : WF_pollingVars(RetentionStep(r) /\ UNCHANGED heard)

-----------------------------------------------------------------------------
\* What has been said of a task by now.
Told(t) ==
    {heard[t].status}
    \cup {Announces(events[t][m[2]]) : m \in {n \in published : n[1] = t /\ Terminal(t, n[2])}}
    \cup {m[2].status : m \in {n \in delivered : task(n[1]) = t /\ kind(n[1]) \in ResultKinds}}
    \cup {"CANCELLED" : c \in {b \in Calls : task(b) = t /\ kind(b) = "cancel" /\ At(b, "204")}}

\* What a task that had a status may have become.
Later(status) ==
    CASE status = "PENDING"    -> TASK_STATUSES \cup {"ABSENT"}
      [] status = "PROCESSING" -> (TASK_STATUSES \ {"PENDING"}) \cup {"ABSENT"}
      [] OTHER                 -> {status, "ABSENT"}

(* A poll never contradicts what the client was told before: not the last   *)
(* poll, not the end its stream, webhook or cancel announced, though row,   *)
(* event, publish and notice are written one after the other.  A client     *)
(* that has the 202 gets not found only once retention may prune the task.  *)
PollFollowsNews ==
    \A t \in Tasks : creator[t] = "created" =>
        /\ \A status \in Told(t) : getStatus(t).status \in Later(status)
        /\ getStatus(t).status = "ABSENT" => t \in aged

(* Poll and webhook tell of an end in the same words, whichever comes first *)
(* and however late the webhook is.                                         *)
PollMatchesWebhook ==
    \A m \in delivered :
        /\ kind(m[1]) \in ResultKinds
        /\ heard[task(m[1])].status \in TerminalStatuses
        => m[2] = heard[task(m[1])]
=============================================================================
