------------------------------ MODULE HttpRetry ------------------------------
(***************************************************************************)
(* HttpRetryService.post, the client all three workers POST with.  One     *)
(* call of post is modelled; what each attempt brings is the receiver's    *)
(* and the network's choice.                                               *)
(***************************************************************************)
EXTENDS Integers, Sequences, FiniteSetsExt

CONSTANTS AttemptOptions,   \* the attempts the workers ask for: 3, 5 and 2
          baseDelayMs, maxDelayMs,
          Jitters,          \* what jitter() may return (0..199 in the code)
          OtherStatuses,    \* statuses that may come and are not retried
          NetworkCodes      \* codes of RETRYABLE_NETWORK_CODES that may come

VARIABLES attempts,         \* opts.attempts of this call
          attempt,          \* the loop variable
          answers,          \* what the attempts so far brought, in order
          lastStatusCode,   \* the last status, or none
          pc,               \* where post stands, or how it ended
          error,            \* the fields of the error thrown
          waited            \* milliseconds slept so far

retryVars == <<attempts, attempt, answers, lastStatusCode, pc, error, waited>>

RETRYABLE_STATUS_CODES == {"429", "500", "502", "503", "504"}
Undefined == "undefined"
OK == "202"

ASSUME RetryAssumption ==
    /\ AttemptOptions \subseteq Nat \ {0}
    /\ baseDelayMs \in Nat /\ maxDelayMs \in Nat /\ Jitters \subseteq Nat
    /\ OtherStatuses \cap (RETRYABLE_STATUS_CODES \cup NetworkCodes \cup {OK, "TimeoutError"}) = {}
    /\ NetworkCodes \cap {OK, "TimeoutError"} = {}

\* getStatusCode: the status of an answer that is an HTTP response.
Statuses == RETRYABLE_STATUS_CODES \cup OtherStatuses
getStatusCode(a) == IF a \in Statuses THEN a ELSE Undefined

\* rxjs's timeout throws an error without a code; so do malformed URLs and the like.
Failures == Statuses \cup NetworkCodes \cup {"TimeoutError"}

computeDelay(n, j) == Min({baseDelayMs * 2 ^ n + j, maxDelayMs})

Throws(name, tried, status) ==
    pc' = name /\ error' = [attempts |-> tried, status |-> status]

-----------------------------------------------------------------------------
\* The request returns with a 2xx.
Returns ==
    /\ pc = "post"
    /\ answers' = Append(answers, OK)
    /\ pc' = "returned"
    /\ UNCHANGED <<attempts, attempt, lastStatusCode, error, waited>>

\* A status no retry can change, or an error that is neither a status nor a
\* known network code: post throws at once.
FailsFast(a) ==
    /\ pc = "post"
    /\ answers' = Append(answers, a)
    /\ \/ /\ a \in Statuses \ RETRYABLE_STATUS_CODES
          /\ lastStatusCode' = a
          /\ Throws("NonRetryableError", attempt + 1, a)
       \/ /\ a \notin Statuses \cup NetworkCodes
          /\ Throws("DispatchFailedError", attempt + 1, Undefined)
          /\ UNCHANGED lastStatusCode
    /\ UNCHANGED <<attempts, attempt, waited>>

isLastAttempt_offByOne == attempt = attempts

isLastAttempt == attempt = attempts - 1

\* A transient failure: the loop sleeps, or breaks and throws.
Transient(a) ==
    /\ pc = "post"
    /\ a \in RETRYABLE_STATUS_CODES \cup NetworkCodes
    /\ answers' = Append(answers, a)
    /\ lastStatusCode' = IF a \in Statuses THEN getStatusCode(a) ELSE lastStatusCode
    /\ IF isLastAttempt
       THEN Throws("DispatchFailedError", attempts, lastStatusCode')
       ELSE pc' = "sleep" /\ UNCHANGED error
    /\ UNCHANGED <<attempts, attempt, waited>>

sleep(j) ==
    /\ pc = "sleep"
    /\ waited' = waited + computeDelay(attempt, j)
    /\ attempt' = attempt + 1
    /\ pc' = "post"
    /\ UNCHANGED <<attempts, answers, lastStatusCode, error>>

-----------------------------------------------------------------------------
RetryInit ==
    /\ attempts \in AttemptOptions
    /\ attempt = 0 /\ answers = <<>> /\ waited = 0
    /\ lastStatusCode = Undefined
    /\ pc = "post"
    /\ error = [attempts |-> 0, status |-> Undefined]

RetryNext ==
    \/ Returns
    \/ \E a \in Failures : FailsFast(a) \/ Transient(a)
    \/ \E j \in Jitters : sleep(j)

RetrySpec == RetryInit /\ [][RetryNext]_retryVars

-----------------------------------------------------------------------------
Done == pc \notin {"post", "sleep"}
Last == answers[Len(answers)]

(* What post must make of the answers, by definition rather than by loop:   *)
(* every answer before the last was transient; the last decides, and when   *)
(* it was transient too, all attempts were used.  The error reports how     *)
(* many requests were made and the last status that came; one thrown for a  *)
(* timeout reports no status, even if earlier answers had one.  Sleeping    *)
(* never costs more than maxDelayMs an attempt, jitter included, and there  *)
(* is no sleep after the last.                                              *)
RetriesAsSpecified ==
    LET transient(a) == a \in RETRYABLE_STATUS_CODES \cup NetworkCodes
        withStatus == {i \in DOMAIN answers : answers[i] \in Statuses}
    IN /\ Len(answers) <= attempts
       /\ waited <= attempt * maxDelayMs /\ attempt < attempts
       /\ \A i \in 1..(Len(answers) - 1) : transient(answers[i])
       /\ Done =>
          CASE Last = OK -> pc = "returned"
            [] Last \in OtherStatuses -> pc = "NonRetryableError" /\ error.status = Last
            [] Last = "TimeoutError" ->
                 /\ pc = "DispatchFailedError"
                 /\ error.attempts = Len(answers) /\ error.status = Undefined
            [] OTHER ->
                 /\ pc = "DispatchFailedError"
                 /\ Len(answers) = attempts /\ error.attempts = attempts
                 /\ error.status = IF withStatus = {} THEN Undefined
                                   ELSE answers[Max(withStatus)]
=============================================================================
