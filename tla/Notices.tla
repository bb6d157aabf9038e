-------------------------------- MODULE Notices --------------------------------
(***************************************************************************)
(* WebhookProcessor and CancelProcessor, the workers that tell the client  *)
(* and the executor how a task ended.  Both fetch the row again, POST, and *)
(* swallow what the HTTP client throws.                                    *)
(***************************************************************************)
EXTENDS ApiCalls

VARIABLE delivered      \* <<c, body>>: the receiver of c's notice has got body

notice_frame == UNCHANGED <<tasks, events, job, deliveries, published, request, call>>

-----------------------------------------------------------------------------
\* findById and the start of the POST; a row that is gone ends the job.
Fetch(c) ==
    /\ notice[c].state = "waiting"
    /\ notice' = IF tasks[task(c)].status = "ABSENT"
                 THEN [notice EXCEPT ![c].state = "completed"]
                 ELSE [notice EXCEPT ![c].state = "active",
                                     ![c].bodies = @ \cup {Body(tasks[task(c)])}]
    /\ UNCHANGED <<crashes, delivered>> /\ notice_frame

\* findById throws: it is the one statement outside the try block.
FetchThrows(c) ==
    /\ "db" \in Faults
    /\ notice[c].state = "waiting"
    /\ retryNotice(c)
    /\ UNCHANGED <<crashes, delivered>> /\ notice_frame

\* The receiver gets a body: of this attempt or of an earlier one, again or late.
Receive(c, body) ==
    /\ body \in notice[c].bodies
    /\ delivered' = delivered \cup {<<c, body>>}
    /\ UNCHANGED <<notice, crashes>> /\ notice_frame

\* httpRetry.post returned, or threw an error the catch block swallows.
Finish(c) ==
    /\ notice[c].state = "active"
    /\ notice' = [notice EXCEPT ![c].state = "completed"]
    /\ UNCHANGED <<crashes, delivered>> /\ notice_frame

\* The worker dies or hangs in the middle of the job.
NoticeStalls(c) ==
    /\ notice[c].state = "active"
    /\ \/ crashes < MaxCrashes /\ crashes' = crashes + 1
       \/ "stall" \in Faults /\ UNCHANGED crashes
    /\ requeueNotice(c)
    /\ UNCHANGED delivered /\ notice_frame

NoticesInit == delivered = {}

NoticesNext ==
    \E c \in Calls :
        \/ Fetch(c) \/ FetchThrows(c) \/ Finish(c) \/ NoticeStalls(c)
        \/ \E body \in notice[c].bodies : Receive(c, body)

NoticesType == delivered \subseteq Calls \X Bodies
=============================================================================
