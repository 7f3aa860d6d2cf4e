--------------------------- MODULE GraphCollection ---------------------------
(***************************************************************************)
(* BaseCollector.collect for one Graph endpoint: attempts that each walk   *)
(* the pages of the collection from the first one (Paginator.run), a token *)
(* asked of the provider for every request (GraphTransport.get), and the   *)
(* retry policy between the attempts.  The Graph service answers, throttles*)
(* and fails as it likes, and the collection may change its size between   *)
(* two attempts.                                                           *)
(***************************************************************************)
EXTENDS TokenProvider, Sequences

CONSTANTS
    MaxPages,         \* bound on the pages the service has
    RequestTimeout,   \* how long a Graph request can take
    MaxRetries,       \* RetryPolicy.max_retries
    BaseDelay,        \* RetryPolicy.base_delay_seconds
    MaxDelay,         \* RetryPolicy.max_delay_seconds
    MaxRetryAfter,    \* RetryPolicy.max_retry_after_seconds
    RetryAfters       \* Retry-After headers: absent, a date, or an integer

ASSUME CollectionAssumption ==
    /\ MaxPages \in Nat \ {0}
    /\ {RequestTimeout, MaxRetries, BaseDelay, MaxDelay, MaxRetryAfter}
            \subseteq Nat
    /\ RetryAfters \subseteq [form : {"absent", "date", "integer"},
                              value : Int]

(* How the service must be sized for the refresh skew to do its work.      *)
ASSUME SkewAssumption ==
    /\ TokenTimeout + RequestTimeout <= RefreshSkew
    /\ \A lifetime \in Lifetimes : lifetime > TokenTimeout + RequestTimeout

(* How an attempt can end, and the classification the framework gives it:  *)
(* by the status 401, 403, 429 or any other that is not 2xx, by the lack   *)
(* of an answer, or by a 200 that is not a page of the collection.         *)
Classification ==
    [complete     |-> "PASS",
     unauthorized |-> "AUTH_FAILURE",
     forbidden    |-> "PERMISSION_REQUIRED",
     throttled    |-> "THROTTLED",
     serverError  |-> "API_ERROR",
     otherStatus  |-> "API_ERROR",
     malformed    |-> "API_ERROR",
     network      |-> "NETWORK_ERROR"]

Endings == {"complete", "unauthorized", "forbidden", "throttled",
            "serverError", "otherStatus", "malformed", "network"}

NoHeader == [form |-> "absent", value |-> 0]

VARIABLES
    pc,           \* where collect() stands
    size,         \* pages the service has during this attempt
    gathered,     \* items of this attempt, each page as <<attempt, page>>
    history,      \* how every attempt so far ended
    retryAfter,   \* the last attempt's Retry-After header
    slept,        \* total time spent in RetryPolicy.wait
    outcome       \* the CollectorRun that collect() returns

vars == <<now, cached, token, pc, size, gathered, history, retryAfter, slept,
          outcome>>

Attempts == Len(history)
NoOutcome == [status |-> "none", evidence |-> "none", records |-> <<>>]

(* The provider may have been used before: its token is anywhere in its    *)
(* life.                                                                   *)
Init ==
    /\ now = 0
    /\ \/ cached = NoToken
       \/ \E lifetime \in Lifetimes, latency \in 0..TokenTimeout :
            \E left \in latency..lifetime :
                cached = Token(left, left - latency)
    /\ token = NoToken
    /\ pc = "request"
    /\ size \in 1..MaxPages
    /\ gathered = <<>>
    /\ history = <<>>
    /\ retryAfter = NoHeader
    /\ slept = 0
    /\ outcome = NoOutcome

-----------------------------------------------------------------------------
attempt == <<size, history, retryAfter, slept, outcome>>

(* GraphTransport.get asks for the token of each request.                  *)
GetToken ==
    /\ pc = "request"
    /\ pc' = "sending"
    /\ ReuseToken \/ AcquireToken
    /\ UNCHANGED <<gathered, attempt>>

(* The AuthError of the callback is nobody's to catch inside collect().    *)
FailToken ==
    /\ pc = "request"
    /\ pc' = "raised"
    /\ FailToAcquireToken
    /\ UNCHANGED <<gathered, attempt>>

(* The request takes its time and is answered.                             *)
Answered ==
    /\ pc = "sending"
    /\ \E latency \in 0..RequestTimeout : now' = now + latency
    /\ UNCHANGED <<cached, token>>

NextPage == <<Attempts + 1, Len(gathered) + 1>>

ReceivePage ==
    /\ Answered
    /\ Len(gathered) + 1 < size
    /\ gathered' = Append(gathered, NextPage)
    /\ pc' = "request"
    /\ UNCHANGED attempt

EndAttempt(ending, header) ==
    /\ history' = Append(history, ending)
    /\ retryAfter' = header
    /\ pc' = "decide"
    /\ UNCHANGED <<size, slept, outcome>>

ReceiveLastPage ==
    /\ Answered
    /\ Len(gathered) + 1 = size
    /\ gathered' = Append(gathered, NextPage)
    /\ EndAttempt("complete", NoHeader)

(* A status that is not 2xx, with or without a Retry-After header.         *)
ReceiveHttpError ==
    /\ Answered
    /\ \E ending \in {"unauthorized", "forbidden", "throttled", "serverError",
                      "otherStatus"}, h \in RetryAfters :
          EndAttempt(ending, h)
    /\ UNCHANGED gathered

LoseConnection ==
    /\ Answered
    /\ EndAttempt("network", NoHeader)
    /\ UNCHANGED gathered

(* A 200 that is not a page of the collection; what is wrong with it may   *)
(* be its next link alone, and then its items have been taken already.     *)
ReceiveMalformedPage ==
    /\ Answered
    /\ EndAttempt("malformed", NoHeader)
    /\ gathered' \in {gathered, Append(gathered, NextPage)}

(* A body that breaks off raises what neither transport nor paginator      *)
(* catches.                                                                *)
LoseBody ==
    /\ Answered
    /\ pc' = "raised"
    /\ UNCHANGED <<gathered, attempt>>

-----------------------------------------------------------------------------
(* RetryPolicy *)

(* The status behind an API_ERROR is not looked at.                        *)
Retryable(classification) ==
    classification \in {"THROTTLED", "API_ERROR", "NETWORK_ERROR"}

(* Mutant: every failure is worth another attempt. *)
WillRetryAnything(classification) ==
    classification # "PASS" /\ Attempts - 1 < MaxRetries

WillRetry(classification) ==
    Retryable(classification) /\ Attempts - 1 < MaxRetries

AtMost(n, cap) == IF n > cap THEN cap ELSE n

Backoff(retries) == AtMost(BaseDelay * 2^retries, MaxDelay)

(* Mutant: the Retry-After header is obeyed to the letter. *)
DelayUncapped(classification, header) ==
    IF classification = "THROTTLED" /\ header.form = "integer"
    THEN header.value
    ELSE Backoff(Attempts - 1)

Delay(classification, header) ==
    IF classification = "THROTTLED" /\ header.form # "absent"
    THEN IF header.form = "integer" THEN AtMost(header.value, MaxRetryAfter)
         ELSE BaseDelay
    ELSE Backoff(Attempts - 1)

LastClassification == Classification[history[Attempts]]

(* Mutant: the retry resumes after the pages that did arrive. *)
RetryWithState ==
    /\ pc = "decide"
    /\ WillRetry(LastClassification)
    /\ LET delay == Delay(LastClassification, retryAfter)
           pause == IF delay > 0 THEN delay ELSE 0
       IN now' = now + pause /\ slept' = slept + pause
    /\ size' \in 1..MaxPages
    /\ pc' = "request"
    /\ UNCHANGED <<cached, token, gathered, history, retryAfter, outcome>>

(* wait() sleeps when there is anything to sleep for; the next attempt     *)
(* starts from the first page of whatever the collection is by then.       *)
Retry ==
    /\ pc = "decide"
    /\ WillRetry(LastClassification)
    /\ LET delay == Delay(LastClassification, retryAfter)
           pause == IF delay > 0 THEN delay ELSE 0
       IN now' = now + pause /\ slept' = slept + pause
    /\ size' \in 1..MaxPages
    /\ gathered' = <<>>
    /\ pc' = "request"
    /\ UNCHANGED <<cached, token, history, retryAfter, outcome>>

(* final_status of the recovery evidence. *)
Evidence(passed) ==
    IF passed THEN IF Attempts > 1 THEN "RECOVERED" ELSE "PASS"
    ELSE IF Attempts > 1 THEN "FAILED_RETRY_EXHAUSTED"
    ELSE "FAILED_PERMANENT"

(* Mutant: only a PASS leaves the loop. *)
FinishPassed ==
    /\ pc = "decide"
    /\ LastClassification = "PASS"
    /\ outcome' = [status |-> "PASS", evidence |-> Evidence(TRUE),
                   records |-> gathered]
    /\ pc' = "done"
    /\ UNCHANGED <<now, cached, token, size, gathered, history, retryAfter,
                   slept>>

(* The last attempt is the one that is reported. *)
Finish ==
    LET passed == LastClassification = "PASS" IN
    /\ pc = "decide"
    /\ ~WillRetry(LastClassification)
    /\ outcome' = [status |-> IF passed THEN "PASS" ELSE "ERROR",
                   evidence |-> Evidence(passed),
                   records |-> gathered]
    /\ pc' = "done"
    /\ UNCHANGED <<now, cached, token, size, gathered, history, retryAfter,
                   slept>>

Next ==
    \/ GetToken \/ FailToken
    \/ ReceivePage \/ ReceiveLastPage \/ ReceiveHttpError
    \/ LoseConnection \/ ReceiveMalformedPage \/ LoseBody
    \/ Retry \/ Finish

Spec == Init /\ [][Next]_vars

(* Requests time out and sleeps end.                                       *)
FairSpec == Spec /\ WF_vars(Next)

-----------------------------------------------------------------------------
(* Properties *)

TypeOK ==
    /\ TokenTypeOK
    /\ pc \in {"request", "sending", "decide", "done", "raised"}
    /\ size \in 1..MaxPages
    /\ gathered \in Seq((1..(MaxRetries + 1)) \X (1..MaxPages))
    /\ history \in Seq(Endings)
    /\ retryAfter \in RetryAfters \cup {NoHeader}
    /\ slept \in Nat
    /\ outcome.status \in {"none", "PASS", "ERROR"}

(* A PASS hands over the whole collection as its last attempt found it:    *)
(* every page once, in order, none left over from an attempt that failed.  *)
PassIsComplete ==
    outcome.status = "PASS" =>
        outcome.records = [p \in 1..size |-> <<Attempts, p>>]

(* The attempts that were followed by another one, or by the error of its  *)
(* request.                                                                *)
Retries == IF pc \in {"decide", "done"} THEN Attempts - 1 ELSE Attempts

(* No more attempts than the budget allows, none after a 401 or a 403, and *)
(* none after success; and a failure is reported only when it was a 401 or *)
(* a 403, or the budget is spent: whatever else went wrong, a 404 or a     *)
(* malformed page included, is tried to the end of the budget.  That only  *)
(* the server's own errors (5xx) are, as errors.py and the framework's     *)
(* document say, is not true of the code, nor stated here.                 *)
BudgetIsKept ==
    /\ Attempts <= MaxRetries + 1
    /\ \A n \in 1..Retries :
          history[n] \notin {"complete", "unauthorized", "forbidden"}
    /\ outcome.status = "ERROR" =>
          \/ history[Attempts] \in {"unauthorized", "forbidden"}
          \/ Attempts = MaxRetries + 1

(* No endpoint keeps its run asleep for longer than its retries can cost,  *)
(* whatever the service writes into Retry-After.                           *)
WaitIsBounded ==
    \E longest \in {MaxRetryAfter, MaxDelay, BaseDelay} :
        slept <= MaxRetries * longest

(* No request reaches the service with a token that has died, although the *)
(* provider believes that its tokens live longer than they do: a 401 never *)
(* comes from the cache.                                                   *)
TokenOutlivesRequest ==
    pc = "sending" => now + RequestTimeout < token.diesAt

(* collect() comes to an end: it returns or it raises. *)
CollectionEnds == <>(pc \in {"done", "raised"})

=============================================================================
