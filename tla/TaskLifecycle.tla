---------------------------- MODULE TaskLifecycle ----------------------------
(***************************************************************************)
(* What the proxy promises about a task, without processes, queues or      *)
(* tables: a life that only moves forward and a verdict given once.  Tasks *)
(* are independent, and several may move at the same instant.              *)
(***************************************************************************)
CONSTANTS Tasks,
          NoVerdict,    \* the verdict of a task that has none yet
          Verdicts      \* everything a verdict may say, NoVerdict included

VARIABLES status, verdict

Born(t) ==
    /\ status[t] = "UNBORN" /\ status'[t] \in {"PENDING", "REMOVED"}
    /\ verdict'[t] = verdict[t]

Dispatched(t) ==
    /\ status[t] = "PENDING" /\ status'[t] = "PROCESSING"
    /\ verdict'[t] = verdict[t]

\* Only a task that has been dispatched can succeed or fail.
Decided(t) ==
    /\ status[t] = "PROCESSING" /\ status'[t] \in {"COMPLETED", "FAILED"}
    /\ verdict[t] = NoVerdict /\ verdict'[t] \in Verdicts \ {NoVerdict}

Cancelled(t) ==
    /\ status[t] \in {"PENDING", "PROCESSING"} /\ status'[t] = "CANCELLED"
    /\ verdict'[t] = verdict[t]

\* The row is deleted; a task id is never used twice.
Removed(t) ==
    /\ status[t] # "UNBORN" /\ status'[t] = "REMOVED"
    /\ verdict'[t] = NoVerdict

Rests(t) == status'[t] = status[t] /\ verdict'[t] = verdict[t]

Step(t) == Born(t) \/ Dispatched(t) \/ Decided(t) \/ Cancelled(t) \/ Removed(t) \/ Rests(t)

Init ==
    /\ status = [t \in Tasks |-> "UNBORN"]
    /\ verdict = [t \in Tasks |-> NoVerdict]

Next == \A t \in Tasks : Step(t)

Spec == Init /\ [][Next]_<<status, verdict>>
=============================================================================
