--------------------------- MODULE HttpRetryProofs ---------------------------
(***************************************************************************)
(* HttpRetryService.post, for any number of attempts and any delays: the   *)
(* loop does what RetriesAsSpecified says of the answers as a whole.       *)
(***************************************************************************)
EXTENDS HttpRetry, SequenceTheorems, TLAPS

Answers == Failures \cup {OK}
TransientOnes == RETRYABLE_STATUS_CODES \cup NetworkCodes

\* The last of the answers s that had a status had v; none had one if v is undefined.
LastStatusIs(s, v) ==
    \/ v = Undefined /\ \A i \in 1..Len(s) : s[i] \notin Statuses
    \/ \E i \in 1..Len(s) :
          s[i] \in Statuses /\ v = s[i] /\ \A k \in 1..Len(s) : s[k] \in Statuses => k <= i

RetryType ==
    /\ attempts \in Nat /\ attempt \in Nat /\ attempt < attempts
    /\ answers \in Seq(Answers)
    /\ waited \in Int /\ waited <= attempt * maxDelayMs
    /\ pc \in {"post", "sleep", "returned", "NonRetryableError", "DispatchFailedError"}

\* Before an answer comes every earlier one was transient; before a sleep this one too.
LoopInv ==
    /\ pc = "post" => Len(answers) = attempt
    /\ pc # "post" => Len(answers) = attempt + 1
    /\ pc = "sleep" => attempt + 1 < attempts
    /\ pc \in {"post", "sleep"} =>
          /\ \A i \in 1..Len(answers) : answers[i] \in TransientOnes
          /\ LastStatusIs(answers, lastStatusCode)

\* How post ended, by its last answer.
EndInv ==
    Done =>
        /\ \A i \in 1..attempt : answers[i] \in TransientOnes
        /\ \/ answers[attempt + 1] = OK /\ pc = "returned"
           \/ /\ answers[attempt + 1] \in OtherStatuses
              /\ pc = "NonRetryableError" /\ error.status = answers[attempt + 1]
           \/ /\ answers[attempt + 1] = "TimeoutError"
              /\ pc = "DispatchFailedError"
              /\ error.attempts = attempt + 1 /\ error.status = Undefined
           \/ /\ answers[attempt + 1] \in TransientOnes
              /\ pc = "DispatchFailedError" /\ attempt + 1 = attempts
              /\ error.attempts = attempts /\ LastStatusIs(answers, error.status)

RInv == RetryType /\ LoopInv /\ EndInv

-----------------------------------------------------------------------------
(* One more answer.                                                         *)
LEMMA AnswerIs ==
    ASSUME NEW s \in Seq(Answers), NEW a \in Answers
    PROVE  /\ Append(s, a) \in Seq(Answers) /\ Len(s) \in Nat /\ Len(Append(s, a)) = Len(s) + 1
           /\ \A i \in 1..Len(s) : Append(s, a)[i] = s[i]
           /\ Append(s, a)[Len(s) + 1] = a
BY AppendProperties, LenProperties

(* Its status is the last one, if it has one.                               *)
LEMMA LastStatusNext ==
    ASSUME NEW s \in Seq(Answers), NEW a \in Answers, NEW v, LastStatusIs(s, v)
    PROVE  LastStatusIs(Append(s, a), IF a \in Statuses THEN a ELSE v)
<1> DEFINE t == Append(s, a)
<1>1. /\ Len(s) \in Nat /\ Len(t) = Len(s) + 1 /\ \A i \in 1..Len(s) : t[i] = s[i]
      /\ t[Len(s) + 1] = a
  BY AnswerIs
<1> HIDE DEF t
<1>2. \A i \in 1..Len(t) : i \in 1..Len(s) \/ i = Len(s) + 1
  BY <1>1
<1>3. CASE a \in Statuses
  <2>1. Len(s) + 1 \in 1..Len(t) /\ \A k \in 1..Len(t) : k <= Len(s) + 1
    BY <1>1
  <2>2. LastStatusIs(t, a)
    BY <1>1, <1>3, <2>1 DEF LastStatusIs
  <2> QED
    BY <1>3, <2>2 DEF t
<1>4. CASE a \notin Statuses
  <2>1. LastStatusIs(t, v)
    <3>1. CASE v = Undefined /\ \A i \in 1..Len(s) : s[i] \notin Statuses
      <4>1. \A i \in 1..Len(t) : t[i] \notin Statuses
        BY <1>1, <1>2, <1>4, <3>1
      <4> QED
        BY <3>1, <4>1 DEF LastStatusIs
    <3>2. ASSUME NEW i \in 1..Len(s), s[i] \in Statuses, v = s[i],
                 \A k \in 1..Len(s) : s[k] \in Statuses => k <= i
          PROVE  LastStatusIs(t, v)
      <4>1. i \in 1..Len(t) /\ t[i] \in Statuses /\ v = t[i]
        BY <1>1, <3>2
      <4>2. ASSUME NEW k \in 1..Len(t), t[k] \in Statuses PROVE k <= i
        <5>1. k \in 1..Len(s)
          BY <1>1, <1>2, <1>4, <4>2
        <5> QED
          BY <1>1, <3>2, <4>2, <5>1
      <4> QED
        BY <4>1, <4>2 DEF LastStatusIs
    <3> QED
      BY <3>1, <3>2 DEF LastStatusIs
  <2> QED
    BY <1>4, <2>1 DEF t
<1> QED
  BY <1>3, <1>4

(* It is the status at the largest index, as the specification has it.      *)
LEMMA LastStatusIsMax ==
    ASSUME NEW s \in Seq(Answers), NEW v, LastStatusIs(s, v)
    PROVE  LET withStatus == {i \in DOMAIN s : s[i] \in Statuses}
           IN  v = IF withStatus = {} THEN Undefined ELSE s[Max(withStatus)]
<1> DEFINE W == {i \in DOMAIN s : s[i] \in Statuses}
<1>1. DOMAIN s = 1..Len(s) /\ Len(s) \in Nat
  BY LenProperties
<1>2. CASE v = Undefined /\ \A i \in 1..Len(s) : s[i] \notin Statuses
  <2>1. W = {}
    BY <1>1, <1>2
  <2> QED
    BY <1>2, <2>1
<1>3. ASSUME NEW i \in 1..Len(s), s[i] \in Statuses, v = s[i],
             \A k \in 1..Len(s) : s[k] \in Statuses => k <= i
      PROVE  v = s[Max(W)] /\ W # {}
  <2>1. i \in W /\ W \subseteq Int /\ \A y \in W : i >= y
    <3>1. i \in W
      BY <1>1, <1>3
    <3>2. \A y \in W : y \in 1..Len(s) /\ y <= i
      BY <1>1, <1>3
    <3>3. \A y \in 1..Len(s) : y \in Int /\ (y <= i => i >= y)
      BY <1>1
    <3> QED
      BY <3>1, <3>2, <3>3
  <2> HIDE DEF W
  <2>2. Max(W) = i
    <3>1. Max(W) \in W /\ \A y \in W : Max(W) >= y
      BY <2>1, Zenon DEF Max
    <3>2. i >= Max(W) /\ Max(W) >= i /\ Max(W) \in Int /\ i \in Int
      BY <2>1, <3>1, Zenon
    <3> QED
      BY <3>2
  <2> QED
    BY <1>3, <2>1, <2>2
<1> QED
  BY <1>2, <1>3 DEF LastStatusIs

(* A sleep is no longer than maxDelayMs.                                    *)
LEMMA DelayIsBounded ==
    ASSUME NEW n \in Nat, NEW j \in Jitters
    PROVE  computeDelay(n, j) \in Int /\ computeDelay(n, j) <= maxDelayMs
<1>1. baseDelayMs * 2 ^ n + j \in Int /\ maxDelayMs \in Int
  <2>1. 2 ^ n \in Int
    BY SMT
  <2>2. baseDelayMs * 2 ^ n \in Int /\ j \in Int
    BY <2>1, RetryAssumption
  <2> QED
    BY <2>2, RetryAssumption
<1>2. \A x, y \in Int : Min({x, y}) \in Int /\ Min({x, y}) <= y
  BY DEF Min
<1> QED
  BY <1>1, <1>2 DEF computeDelay

(* Nothing has been asked for yet.                                          *)
LEMMA RetryInitially == RetryInit => RInv
<1> SUFFICES ASSUME RetryInit PROVE RInv
  OBVIOUS
<1> USE DEF RetryInit
<1>1. attempts \in Nat /\ attempts # 0 /\ 0 < attempts /\ maxDelayMs \in Nat
  BY RetryAssumption
<1>2. <<>> \in Seq(Answers) /\ Len(<<>>) = 0
  OBVIOUS
<1>3. RetryType
  BY <1>1, <1>2 DEF RetryType
<1>4. LoopInv
  BY <1>2 DEF LoopInv, LastStatusIs
<1>5. EndInv
  BY DEF EndInv, Done
<1> QED
  BY <1>3, <1>4, <1>5 DEF RInv

(* The last answer ends the call.                                           *)
LEMMA Finishes ==
    ASSUME RInv, pc = "post", NEW a \in Answers, answers' = Append(answers, a),
           UNCHANGED <<attempts, attempt, waited>>,
           pc' \in {"returned", "NonRetryableError", "DispatchFailedError"},
           \/ a = OK /\ pc' = "returned"
           \/ a \in OtherStatuses /\ pc' = "NonRetryableError" /\ error'.status = a
           \/ a = "TimeoutError" /\ pc' = "DispatchFailedError"
              /\ error'.attempts = attempt + 1 /\ error'.status = Undefined
           \/ /\ a \in TransientOnes /\ pc' = "DispatchFailedError" /\ attempt + 1 = attempts
              /\ error'.attempts = attempts /\ LastStatusIs(answers', error'.status)
    PROVE  RInv'
<1>1. answers \in Seq(Answers) /\ attempt \in Nat /\ Len(answers) = attempt
  BY DEF RInv, RetryType, LoopInv
<1>2. /\ answers' \in Seq(Answers) /\ Len(answers') = attempt + 1
      /\ \A i \in 1..attempt : answers'[i] = answers[i]
      /\ answers'[attempt + 1] = a
  BY <1>1, AnswerIs
<1>3. RetryType'
  BY <1>2 DEF RInv, RetryType
<1>4. LoopInv'
  BY <1>2 DEF LoopInv
<1>5. EndInv'
  <2>1. \A i \in 1..attempt : answers'[i] \in TransientOnes
    BY <1>1, <1>2 DEF RInv, LoopInv
  <2> QED
    BY <1>2, <2>1 DEF EndInv, LastStatusIs
<1> QED
  BY <1>3, <1>4, <1>5 DEF RInv

(* Every step of the loop keeps the invariant.                              *)
LEMMA RetryKept ==
    ASSUME RInv, [RetryNext]_retryVars
    PROVE  RInv'
<1>0. /\ answers \in Seq(Answers) /\ attempt \in Nat /\ attempts \in Nat /\ attempt < attempts
      /\ waited \in Int /\ waited <= attempt * maxDelayMs
  BY DEF RInv, RetryType
<1>1. CASE Returns
  <2>1. OK \in Answers
    BY DEF Answers
  <2> QED
    BY <1>1, <2>1, Finishes DEF Returns
<1>2. ASSUME NEW a \in Failures, FailsFast(a) PROVE RInv'
  <2>1. a \in Answers
    BY DEF Answers
  <2>2. CASE a \in Statuses \ RETRYABLE_STATUS_CODES /\ Throws("NonRetryableError", attempt + 1, a)
    <3>1. a \in OtherStatuses /\ pc' = "NonRetryableError" /\ error'.status = a
      BY <2>2 DEF Throws, Statuses
    <3> QED
      BY <1>2, <2>1, <3>1, Finishes DEF FailsFast
  <2>3. CASE a \notin Statuses \cup NetworkCodes /\ Throws("DispatchFailedError", attempt + 1, Undefined)
    <3>1. a = "TimeoutError" /\ pc' = "DispatchFailedError"
          /\ error'.attempts = attempt + 1 /\ error'.status = Undefined
      BY <2>3 DEF Throws, Failures
    <3> QED
      BY <1>2, <2>1, <3>1, Finishes DEF FailsFast
  <2> QED
    BY <1>2, <2>2, <2>3 DEF FailsFast
<1>3. ASSUME NEW a \in Failures, Transient(a) PROVE RInv'
  <2>1. a \in Answers /\ a \in TransientOnes /\ pc = "post" /\ answers' = Append(answers, a)
        /\ UNCHANGED <<attempts, attempt, waited>>
    BY <1>3 DEF Answers, Transient, TransientOnes
  <2>2. LastStatusIs(answers', lastStatusCode')
    <3>1. lastStatusCode' = IF a \in Statuses THEN a ELSE lastStatusCode
      BY <1>3 DEF Transient, getStatusCode
    <3>2. LastStatusIs(answers, lastStatusCode)
      BY <2>1 DEF RInv, LoopInv
    <3> QED
      BY <1>0, <2>1, <3>1, <3>2, LastStatusNext
  <2>3. CASE isLastAttempt
    <3>1. /\ pc' = "DispatchFailedError" /\ error'.attempts = attempts
          /\ error'.status = lastStatusCode' /\ attempt + 1 = attempts
      BY <1>0, <1>3, <2>3 DEF Transient, Throws, isLastAttempt
    <3> QED
      BY <2>1, <2>2, <3>1, Finishes
  <2>4. CASE ~isLastAttempt
    <3>1. pc' = "sleep" /\ attempt + 1 < attempts
      BY <1>0, <1>3, <2>4 DEF Transient, isLastAttempt
    <3>2. /\ answers' \in Seq(Answers) /\ Len(answers) = attempt /\ Len(answers') = attempt + 1
          /\ \A i \in 1..attempt : answers'[i] = answers[i]
          /\ answers'[attempt + 1] = a
      BY <1>0, <2>1, AnswerIs DEF RInv, LoopInv
    <3>3. \A i \in 1..Len(answers') : answers'[i] \in TransientOnes
      <4>1. \A i \in 1..Len(answers') : i \in 1..attempt \/ i = attempt + 1
        BY <1>0, <3>2
      <4>2. \A i \in 1..attempt : answers[i] \in TransientOnes
        BY <2>1, <3>2 DEF RInv, LoopInv
      <4> QED
        BY <2>1, <3>2, <4>1, <4>2
    <3>4. RetryType'
      BY <2>1, <3>1, <3>2 DEF RInv, RetryType
    <3>5. LoopInv' /\ EndInv'
      BY <2>1, <2>2, <3>1, <3>2, <3>3 DEF LoopInv, EndInv, Done, LastStatusIs
    <3> QED
      BY <3>4, <3>5 DEF RInv
  <2> QED
    BY <2>3, <2>4
<1>4. ASSUME NEW j \in Jitters, sleep(j) PROVE RInv'
  <2>1. /\ pc = "sleep" /\ pc' = "post" /\ attempt' = attempt + 1
        /\ waited' = waited + computeDelay(attempt, j)
        /\ UNCHANGED <<attempts, answers, lastStatusCode>>
    BY <1>4 DEF sleep
  <2>2. waited' \in Int /\ waited' <= (attempt + 1) * maxDelayMs
    <3> DEFINE d == computeDelay(attempt, j)
    <3>1. d \in Int /\ d <= maxDelayMs /\ maxDelayMs \in Nat
      BY <1>0, DelayIsBounded, RetryAssumption
    <3> HIDE DEF d
    <3>2. (attempt + 1) * maxDelayMs = attempt * maxDelayMs + maxDelayMs /\ attempt * maxDelayMs \in Int
      BY <1>0, <3>1
    <3>3. waited + d \in Int /\ waited + d <= attempt * maxDelayMs + maxDelayMs
      BY <1>0, <3>1, <3>2
    <3> QED
      BY <2>1, <3>2, <3>3 DEF d
  <2>3. attempt + 1 < attempts /\ Len(answers) = attempt + 1
    BY <2>1 DEF RInv, LoopInv
  <2>4. RetryType'
    BY <1>0, <2>1, <2>2, <2>3 DEF RetryType
  <2>5. LoopInv' /\ EndInv'
    BY <2>1, <2>3 DEF RInv, LoopInv, EndInv, Done, LastStatusIs
  <2> QED
    BY <2>4, <2>5 DEF RInv
<1>5. CASE UNCHANGED retryVars
  BY <1>5 DEF retryVars, RInv, RetryType, LoopInv, EndInv, Done, LastStatusIs
<1> QED
  BY <1>1, <1>2, <1>3, <1>4, <1>5 DEF RetryNext

(* Whatever the receiver and the network answer, post retries what is       *)
(* transient and nothing else, uses exactly its attempts, reports the last  *)
(* status that came and never sleeps longer than maxDelayMs an attempt.     *)
THEOREM PostRetriesAsSpecified == RetrySpec => []RetriesAsSpecified
<1>1. ASSUME RInv PROVE RetriesAsSpecified
  <2>0. /\ attempts \in Nat /\ attempt \in Nat /\ attempt < attempts /\ answers \in Seq(Answers)
        /\ waited <= attempt * maxDelayMs /\ Len(answers) \in Nat
        /\ Len(answers) = attempt \/ Len(answers) = attempt + 1
        /\ Done => Len(answers) = attempt + 1
    BY <1>1, LenProperties DEF RInv, RetryType, LoopInv, Done
  <2>1. Len(answers) <= attempts /\ waited <= attempt * maxDelayMs /\ attempt < attempts
    BY <2>0
  <2>2. \A i \in 1..(Len(answers) - 1) : answers[i] \in TransientOnes
    <3>1. CASE Done
      BY <1>1, <2>0, <3>1 DEF RInv, EndInv
    <3>2. CASE ~Done
      BY <1>1, <2>0, <3>2 DEF RInv, LoopInv, Done
    <3> QED
      BY <3>1, <3>2
  <2> DEFINE W == {i \in DOMAIN answers : answers[i] \in Statuses}
  <2>3. ASSUME Done
        PROVE  \/ Last = OK /\ pc = "returned"
               \/ Last \in OtherStatuses /\ pc = "NonRetryableError" /\ error.status = Last
               \/ Last = "TimeoutError" /\ pc = "DispatchFailedError"
                  /\ error.attempts = Len(answers) /\ error.status = Undefined
               \/ /\ Last \in TransientOnes /\ pc = "DispatchFailedError"
                  /\ Len(answers) = attempts /\ error.attempts = attempts
                  /\ error.status = IF W = {} THEN Undefined ELSE answers[Max(W)]
    <3>1. Len(answers) = attempt + 1 /\ Last = answers[attempt + 1]
      BY <2>0, <2>3 DEF Last
    <3>2. LastStatusIs(answers, error.status) =>
              error.status = IF W = {} THEN Undefined ELSE answers[Max(W)]
      BY <2>0, LastStatusIsMax
    <3> HIDE DEF W
    <3> QED
      BY <1>1, <2>3, <3>1, <3>2 DEF RInv, EndInv
  <2>4. /\ OK \notin OtherStatuses /\ OK \notin TransientOnes /\ OK # "TimeoutError"
        /\ "TimeoutError" \notin OtherStatuses /\ "TimeoutError" \notin TransientOnes
        /\ OtherStatuses \cap TransientOnes = {}
    BY RetryAssumption DEF TransientOnes, RETRYABLE_STATUS_CODES, OK
  <2>5. Done =>
          CASE Last = OK -> pc = "returned"
            [] Last \in OtherStatuses -> pc = "NonRetryableError" /\ error.status = Last
            [] Last = "TimeoutError" ->
                 /\ pc = "DispatchFailedError"
                 /\ error.attempts = Len(answers) /\ error.status = Undefined
            [] OTHER ->
                 /\ pc = "DispatchFailedError"
                 /\ Len(answers) = attempts /\ error.attempts = attempts
                 /\ error.status = IF W = {} THEN Undefined ELSE answers[Max(W)]
    <3> HIDE DEF W
    <3> QED
      BY <2>3, <2>4
  <2> QED
    BY <2>1, <2>2, <2>5 DEF RetriesAsSpecified, TransientOnes
<1> QED
  BY <1>1, RetryInitially, RetryKept, PTL DEF RetrySpec
=============================================================================
