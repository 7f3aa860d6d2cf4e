------------------------ MODULE GraphCollectionProofs ------------------------
(***************************************************************************)
(* Proofs about GraphCollection for any number of pages and retries, any   *)
(* delays and Retry-After headers, and any token lifetimes and timeouts    *)
(* that SkewAssumption admits.                                             *)
(***************************************************************************)
EXTENDS GraphCollection, TLAPS

-----------------------------------------------------------------------------
(* The inductive invariant *)

Walking == {"request", "sending"}

(* What is_retryable lets through, told by how the attempt ended, and what *)
(* it does not, a success aside.                                           *)
Repeatable == Endings \ {"complete", "unauthorized", "forbidden"}
Denied == {"unauthorized", "forbidden"}

(* The provider overestimates a token's life by at most the token timeout. *)
TokenInv ==
    /\ cached.expiresAt <= cached.diesAt + TokenTimeout
    /\ TokenOutlivesRequest

(* While an attempt walks the pages, it has those before the next one, all *)
(* its own, and the attempts before it may be repeated.                    *)
WalkInv ==
    pc \in Walking =>
        /\ Attempts <= MaxRetries
        /\ Len(gathered) < size
        /\ \A p \in 1..Len(gathered) : gathered[p] = <<Attempts + 1, p>>
        /\ \A n \in 1..Attempts : history[n] \in Repeatable

(* Once an attempt is over, a PASS has all the pages. *)
DecideInv ==
    pc \in {"decide", "done"} =>
        /\ 1 <= Attempts /\ Attempts <= MaxRetries + 1
        /\ \A n \in 1..(Attempts - 1) : history[n] \in Repeatable
        /\ history[Attempts] = "complete" =>
              /\ Len(gathered) = size
              /\ \A p \in 1..size : gathered[p] = <<Attempts, p>>

OutcomeInv ==
    /\ pc = "done" =>
        /\ outcome.records = gathered
        /\ outcome.status = "PASS" => history[Attempts] = "complete"
        /\ outcome.status = "ERROR" =>
              history[Attempts] \in Denied \/ Attempts = MaxRetries + 1
    /\ pc # "done" => outcome = NoOutcome
    /\ pc = "raised" =>
        Attempts <= MaxRetries /\ \A n \in 1..Attempts : history[n] \in Repeatable

(* The longest a single wait can be. *)
Longest ==
    IF MaxDelay <= MaxRetryAfter /\ BaseDelay <= MaxRetryAfter
    THEN MaxRetryAfter
    ELSE IF BaseDelay <= MaxDelay THEN MaxDelay ELSE BaseDelay

(* Every retry has waited at most once. *)
WaitInv == slept <= Retries * Longest

Inv == TypeOK /\ TokenInv /\ WalkInv /\ DecideInv /\ OutcomeInv /\ WaitInv

LEMMA Constants ==
    /\ MaxPages \in Nat /\ MaxPages > 0 /\ MaxRetries \in Nat
    /\ RequestTimeout \in Nat /\ TokenTimeout \in Nat /\ RefreshSkew \in Nat
    /\ BaseDelay \in Nat /\ MaxDelay \in Nat /\ MaxRetryAfter \in Nat
BY CollectionAssumption, TokenAssumption

LEMMA LongestIsLongest ==
    /\ Longest \in Nat
    /\ Longest \in {MaxRetryAfter, MaxDelay, BaseDelay}
    /\ MaxRetryAfter <= Longest /\ MaxDelay <= Longest /\ BaseDelay <= Longest
BY Constants DEF Longest

(* is_retryable sees the classification only, and tells exactly the        *)
(* success and the two denials from the rest.                              *)
LEMMA RetryableEndings ==
    ASSUME NEW ending \in Endings
    PROVE  /\ Retryable(Classification[ending]) <=> ending \in Repeatable
           /\ Classification[ending] = "PASS" <=> ending = "complete"
BY DEF Endings, Classification, Retryable, Repeatable

-----------------------------------------------------------------------------
LEMMA InitInv == Init => Inv
<1> SUFFICES ASSUME Init PROVE Inv
  OBVIOUS
<1>1. TokenTypeOK /\ TokenInv
  <2>1. now = 0 /\ token = NoToken /\ pc = "request"
    BY DEF Init
  <2>2. /\ cached \in [expiresAt : Nat, diesAt : Nat]
        /\ cached.expiresAt <= cached.diesAt + TokenTimeout
    <3>1. CASE cached = NoToken
      BY <3>1, Constants DEF NoToken, Token
    <3>2. CASE \E lifetime \in Lifetimes, latency \in 0..TokenTimeout :
                  \E left \in latency..lifetime :
                      cached = Token(left, left - latency)
      <4>1. PICK lifetime \in Lifetimes, latency \in 0..TokenTimeout :
                  \E left \in latency..lifetime :
                      cached = Token(left, left - latency)
        BY <3>2
      <4>2. PICK left \in latency..lifetime :
                  cached = Token(left, left - latency)
        BY <4>1
      <4>3. left \in Nat /\ left - latency \in Nat
        BY Constants, TokenAssumption
      <4> QED BY <4>2, <4>3, Constants DEF Token
    <3> QED BY <3>1, <3>2 DEF Init
  <2> QED BY <2>1, <2>2 DEF TokenTypeOK, TokenInv, TokenOutlivesRequest,
                            NoToken, Token
<1>2. TypeOK
  BY <1>1 DEF Init, TypeOK, NoOutcome
<1>3. WalkInv /\ DecideInv /\ OutcomeInv
  BY Constants DEF Init, WalkInv, DecideInv, OutcomeInv, Walking, Attempts
<1>4. WaitInv
  BY LongestIsLongest DEF Init, WaitInv, Retries, Attempts
<1> QED BY <1>1, <1>2, <1>3, <1>4 DEF Inv

-----------------------------------------------------------------------------
(* The token *)

(* What get_token returns survives the request it is used for. *)
LEMMA TokenIsGood ==
    ASSUME TokenTypeOK, TokenInv, ReuseToken \/ AcquireToken
    PROVE  /\ TokenTypeOK'
           /\ cached'.expiresAt <= cached'.diesAt + TokenTimeout
           /\ now' + RequestTimeout < token'.diesAt
<1>0. TokenTimeout + RequestTimeout <= RefreshSkew
  BY SkewAssumption
<1>1. CASE ReuseToken
  BY <1>0, <1>1, Constants DEF ReuseToken, Reusable, TokenTypeOK, TokenInv
<1>2. CASE AcquireToken
  <2>1. PICK latency \in 0..TokenTimeout :
            \E issued \in 0..latency, lifetime \in Lifetimes :
                /\ now' = now + latency
                /\ cached' = Token(now' + lifetime, now + issued + lifetime)
                /\ token' = cached'
    BY <1>2 DEF AcquireToken
  <2>2. PICK issued \in 0..latency, lifetime \in Lifetimes :
                /\ now' = now + latency
                /\ cached' = Token(now' + lifetime, now + issued + lifetime)
                /\ token' = cached'
    BY <2>1
  <2>3. /\ lifetime \in Nat /\ lifetime > TokenTimeout + RequestTimeout
        /\ latency \in Nat /\ latency <= TokenTimeout
        /\ issued \in Nat
        /\ now \in Nat
    BY Constants, TokenAssumption, SkewAssumption DEF TokenTypeOK
  <2> QED BY <2>2, <2>3, Constants DEF TokenTypeOK, Token
<1> QED BY <1>1, <1>2

(* A failed acquisition leaves nothing behind. *)
LEMMA NoTokenIsGood ==
    ASSUME TokenTypeOK, TokenInv, FailToAcquireToken
    PROVE  /\ TokenTypeOK'
           /\ cached'.expiresAt <= cached'.diesAt + TokenTimeout
BY Constants DEF FailToAcquireToken, TokenTypeOK, NoToken, Token

(* A request takes time and leaves the token alone. *)
LEMMA AnsweredToken ==
    ASSUME TokenTypeOK, Answered
    PROVE  TokenTypeOK' /\ cached' = cached
BY Constants DEF Answered, TokenTypeOK

-----------------------------------------------------------------------------
(* The steps *)

LEMMA GetTokenStep == Inv /\ GetToken => Inv'
<1> SUFFICES ASSUME Inv, GetToken PROVE Inv'
  OBVIOUS
<1> USE DEF attempt
<1>1. /\ TokenTypeOK'
      /\ cached'.expiresAt <= cached'.diesAt + TokenTimeout
      /\ now' + RequestTimeout < token'.diesAt
  BY TokenIsGood DEF Inv, TypeOK, GetToken
<1>2. TokenInv'
  BY <1>1 DEF TokenInv, TokenOutlivesRequest
<1>3. TypeOK'
  BY <1>1 DEF Inv, TypeOK, GetToken
<1>4. WalkInv' /\ DecideInv' /\ OutcomeInv' /\ WaitInv'
  BY DEF Inv, GetToken, WalkInv, Walking, DecideInv, OutcomeInv, WaitInv,
         Retries, Longest, Attempts
<1> QED BY <1>2, <1>3, <1>4 DEF Inv

LEMMA FailTokenStep == Inv /\ FailToken => Inv'
<1> SUFFICES ASSUME Inv, FailToken PROVE Inv'
  OBVIOUS
<1> USE DEF attempt
<1>1. /\ TokenTypeOK'
      /\ cached'.expiresAt <= cached'.diesAt + TokenTimeout
  BY NoTokenIsGood DEF Inv, TypeOK, FailToken
<1>2. TokenInv'
  BY <1>1 DEF TokenInv, TokenOutlivesRequest, FailToken
<1>3. TypeOK'
  BY <1>1 DEF Inv, TypeOK, FailToken
<1>4. WalkInv' /\ DecideInv' /\ OutcomeInv' /\ WaitInv'
  BY DEF Inv, FailToken, WalkInv, Walking, DecideInv, OutcomeInv, WaitInv,
         Retries, Longest, Attempts
<1> QED BY <1>2, <1>3, <1>4 DEF Inv

LEMMA LoseBodyStep == Inv /\ LoseBody => Inv'
<1> SUFFICES ASSUME Inv, LoseBody PROVE Inv'
  OBVIOUS
<1> USE DEF attempt
<1>1. TokenTypeOK' /\ cached' = cached
  BY AnsweredToken DEF Inv, TypeOK, LoseBody
<1>2. TokenInv'
  BY <1>1 DEF Inv, TokenInv, TokenOutlivesRequest, LoseBody
<1>3. TypeOK'
  BY <1>1 DEF Inv, TypeOK, LoseBody
<1>4. WalkInv' /\ DecideInv' /\ OutcomeInv' /\ WaitInv'
  BY DEF Inv, LoseBody, Answered, WalkInv, Walking, DecideInv, OutcomeInv,
         WaitInv, Retries, Longest, Attempts
<1> QED BY <1>2, <1>3, <1>4 DEF Inv

(* One more page of the attempt under way. *)
LEMMA AppendPage ==
    ASSUME Inv, pc \in Walking, gathered' = Append(gathered, NextPage)
    PROVE  /\ gathered' \in Seq((1..(MaxRetries + 1)) \X (1..MaxPages))
           /\ Len(gathered') = Len(gathered) + 1
           /\ \A p \in 1..Len(gathered') : gathered'[p] = <<Attempts + 1, p>>
<1>1. /\ gathered \in Seq((1..(MaxRetries + 1)) \X (1..MaxPages))
      /\ Attempts \in Nat /\ Attempts <= MaxRetries
      /\ Len(gathered) \in Nat /\ Len(gathered) < size
      /\ size \in 1..MaxPages
      /\ \A p \in 1..Len(gathered) : gathered[p] = <<Attempts + 1, p>>
  BY DEF Inv, TypeOK, WalkInv, Attempts
<1>2. NextPage \in (1..(MaxRetries + 1)) \X (1..MaxPages)
  BY <1>1, Constants DEF NextPage
<1> QED BY <1>1, <1>2 DEF NextPage

LEMMA ReceivePageStep == Inv /\ ReceivePage => Inv'
<1> SUFFICES ASSUME Inv, ReceivePage PROVE Inv'
  OBVIOUS
<1> USE DEF attempt
<1>0. /\ pc = "sending" /\ pc \in Walking /\ pc' = "request"
      /\ gathered' = Append(gathered, NextPage)
      /\ Len(gathered) + 1 < size
      /\ UNCHANGED <<size, history, retryAfter, slept, outcome>>
  BY DEF ReceivePage, Answered, Walking
<1>1. TokenTypeOK' /\ cached' = cached
  BY AnsweredToken DEF Inv, TypeOK, ReceivePage
<1>2. TokenInv'
  BY <1>0, <1>1 DEF Inv, TokenInv, TokenOutlivesRequest
<1>3. TypeOK'
  BY <1>0, <1>1, AppendPage DEF Inv, TypeOK
<1>4. WalkInv'
  <2>1. /\ Len(gathered') < size'
        /\ \A p \in 1..Len(gathered') : gathered'[p] = <<Attempts + 1, p>>
    BY <1>0, AppendPage
  <2> QED BY <1>0, <2>1 DEF Inv, WalkInv, Walking, Attempts
<1>5. DecideInv' /\ OutcomeInv' /\ WaitInv'
  BY <1>0 DEF Inv, DecideInv, OutcomeInv, WaitInv, Retries, Longest, Attempts
<1> QED BY <1>2, <1>3, <1>4, <1>5 DEF Inv

(* However an attempt ends, it is added to the history; a complete *)
(* one must have brought the last page.                                   *)
LEMMA EndAttemptStep ==
    ASSUME Inv, Answered,
           NEW c \in Endings,
           NEW h \in RetryAfters \cup {NoHeader},
           EndAttempt(c, h),
           gathered' \in {gathered, Append(gathered, NextPage)},
           c = "complete" => /\ gathered' = Append(gathered, NextPage)
                         /\ Len(gathered) + 1 = size
    PROVE  Inv'
<1>0. /\ pc = "sending" /\ pc \in Walking /\ pc' = "decide"
      /\ history' = Append(history, c) /\ retryAfter' = h
      /\ UNCHANGED <<size, slept, outcome>>
  BY DEF EndAttempt, Answered, Walking
<1>1. TokenTypeOK' /\ cached' = cached
  BY AnsweredToken DEF Inv, TypeOK
<1>2. TokenInv'
  BY <1>0, <1>1 DEF Inv, TokenInv, TokenOutlivesRequest
<1>3. history \in Seq(Endings)
  BY DEF Inv, TypeOK
<1>4. /\ history' \in Seq(Endings)
      /\ Attempts \in Nat /\ Attempts' = Attempts + 1
      /\ history'[Attempts'] = c
      /\ \A n \in 1..Attempts : history'[n] = history[n]
  BY <1>0, <1>3 DEF Attempts
<1>5. TypeOK'
  BY <1>0, <1>1, <1>4, AppendPage DEF Inv, TypeOK
<1>6. DecideInv'
  <2>1. /\ Attempts <= MaxRetries
        /\ \A n \in 1..Attempts : history[n] \in Repeatable
    BY <1>0 DEF Inv, WalkInv
  <2>2. 1 <= Attempts' /\ Attempts' <= MaxRetries + 1
    BY <1>4, <2>1, Constants
  <2>3. \A n \in 1..(Attempts' - 1) : history'[n] \in Repeatable
    BY <1>4, <2>1
  <2>4. ASSUME history'[Attempts'] = "complete"
        PROVE  /\ Len(gathered') = size'
               /\ \A p \in 1..size' : gathered'[p] = <<Attempts', p>>
    BY <1>0, <1>4, <2>4, AppendPage
  <2> QED BY <2>2, <2>3, <2>4 DEF DecideInv
<1>7. WalkInv' /\ OutcomeInv'
  BY <1>0 DEF Inv, WalkInv, Walking, OutcomeInv
<1>8. WaitInv'
  <2>1. Retries' = Retries
    BY <1>0, <1>4 DEF Retries
  <2> QED BY <1>0, <2>1 DEF Inv, WaitInv, Longest
<1> QED BY <1>2, <1>5, <1>6, <1>7, <1>8 DEF Inv

-----------------------------------------------------------------------------
(* Between attempts *)

(* A single wait is no longer than the longest of the policy's limits.     *)
LEMMA DelayIsBounded ==
    ASSUME Inv, pc = "decide", NEW c, NEW h \in RetryAfters \cup {NoHeader}
    PROVE  Delay(c, h) \in Int /\ Delay(c, h) <= Longest
<1>1. h.value \in Int
  BY CollectionAssumption DEF NoHeader
<1>2. Attempts - 1 \in Nat
  BY DEF Inv, TypeOK, DecideInv, Attempts
<1>3. 2^(Attempts - 1) \in Int
  BY <1>2
<1>4. BaseDelay * 2^(Attempts - 1) \in Int
  BY <1>3, Constants
<1>5. /\ Backoff(Attempts - 1) \in Int
      /\ Backoff(Attempts - 1) <= MaxDelay
  BY <1>4, Constants DEF Backoff, AtMost
<1>6. AtMost(h.value, MaxRetryAfter) \in Int
      /\ AtMost(h.value, MaxRetryAfter) <= MaxRetryAfter
  BY <1>1, Constants DEF AtMost
<1> QED BY <1>5, <1>6, LongestIsLongest, Constants DEF Delay

LEMMA RetryStep == Inv /\ Retry => Inv'
<1> SUFFICES ASSUME Inv, Retry PROVE Inv'
  OBVIOUS
<1> DEFINE delay == Delay(LastClassification, retryAfter)
           pause == IF delay > 0 THEN delay ELSE 0
<1>0. /\ pc = "decide" /\ pc' = "request" /\ gathered' = <<>>
      /\ WillRetry(LastClassification)
      /\ now' = now + pause /\ slept' = slept + pause
      /\ size' \in 1..MaxPages
      /\ UNCHANGED <<cached, token, history, retryAfter, outcome>>
  BY DEF Retry
<1>1. pause \in Nat /\ pause <= Longest
  <2>1. delay \in Int /\ delay <= Longest
    BY <1>0, DelayIsBounded DEF Inv, TypeOK
  <2> QED BY <2>1, LongestIsLongest
<1> HIDE DEF pause
<1>2. TokenInv'
  BY <1>0 DEF Inv, TokenInv, TokenOutlivesRequest
<1>3. now' \in Nat /\ slept' \in Nat
  BY <1>0, <1>1 DEF Inv, TypeOK, TokenTypeOK
<1>4. TypeOK'
  BY <1>0, <1>3 DEF Inv, TypeOK, TokenTypeOK
<1>5. /\ Attempts \in Nat /\ 1 <= Attempts
      /\ \A n \in 1..(Attempts - 1) : history[n] \in Repeatable
  BY <1>0 DEF Inv, TypeOK, DecideInv, Attempts
<1>6. history[Attempts] \in Repeatable /\ Attempts <= MaxRetries
  <2>1. history[Attempts] \in Endings
    BY <1>5 DEF Inv, TypeOK, Attempts
  <2> QED BY <1>0, <1>5, <2>1, RetryableEndings, Constants
          DEF WillRetry, LastClassification
<1>7. \A n \in 1..Attempts : history[n] \in Repeatable
  BY <1>5, <1>6
<1>8. WalkInv'
  BY <1>0, <1>6, <1>7 DEF WalkInv, Attempts
<1>9. DecideInv' /\ OutcomeInv'
  BY <1>0 DEF Inv, DecideInv, OutcomeInv
<1>10. WaitInv'
  <2>1. slept <= (Attempts - 1) * Longest
    BY <1>0 DEF Inv, WaitInv, Retries
  <2>2. Retries' = Attempts /\ Longest' = Longest
    BY <1>0 DEF Retries, Attempts, Longest
  <2>3. (Attempts - 1) * Longest + Longest = Attempts * Longest
    BY <1>5, LongestIsLongest
  <2>4. slept + pause <= Attempts * Longest
    <3>1. (Attempts - 1) * Longest \in Int /\ slept \in Int
      BY <1>5, LongestIsLongest DEF Inv, TypeOK
    <3> QED BY <1>1, <2>1, <2>3, <3>1, LongestIsLongest
  <2> QED BY <1>0, <2>2, <2>4 DEF WaitInv
<1> QED BY <1>2, <1>4, <1>8, <1>9, <1>10 DEF Inv

LEMMA FinishStep == Inv /\ Finish => Inv'
<1> SUFFICES ASSUME Inv, Finish PROVE Inv'
  OBVIOUS
<1>0. /\ pc = "decide" /\ pc' = "done"
      /\ ~WillRetry(LastClassification)
      /\ outcome'.records = gathered
      /\ outcome'.status = IF LastClassification = "PASS" THEN "PASS"
                           ELSE "ERROR"
      /\ UNCHANGED <<now, cached, token, size, gathered, history, retryAfter,
                     slept>>
  BY DEF Finish
<1>1. TokenInv' /\ TypeOK'
  BY <1>0 DEF Inv, TokenInv, TokenOutlivesRequest, TypeOK, TokenTypeOK
<1>2. WalkInv' /\ DecideInv'
  BY <1>0 DEF Inv, WalkInv, Walking, DecideInv, Attempts
<1>3. history[Attempts] \in Endings /\ Attempts <= MaxRetries + 1
      /\ Attempts \in Nat
  BY <1>0 DEF Inv, TypeOK, DecideInv, Attempts
<1>4. ASSUME outcome'.status = "ERROR"
      PROVE  history[Attempts] \in Denied \/ Attempts = MaxRetries + 1
  <2>1. /\ history[Attempts] # "complete"
        /\ ~(history[Attempts] \in Repeatable /\ Attempts - 1 < MaxRetries)
    BY <1>0, <1>3, <1>4, RetryableEndings DEF WillRetry, LastClassification
  <2> QED BY <1>3, <2>1, Constants DEF Repeatable, Denied
<1>5. ASSUME outcome'.status = "PASS" PROVE history[Attempts] = "complete"
  BY <1>0, <1>3, <1>5, RetryableEndings DEF LastClassification
<1>6. OutcomeInv'
  BY <1>0, <1>4, <1>5 DEF OutcomeInv, Attempts
<1>7. WaitInv'
  BY <1>0 DEF Inv, WaitInv, Retries, Attempts, Longest
<1> QED BY <1>1, <1>2, <1>6, <1>7 DEF Inv

-----------------------------------------------------------------------------
LEMMA StutterStep == Inv /\ UNCHANGED vars => Inv'
BY DEF vars, Inv, TypeOK, TokenTypeOK, TokenInv, TokenOutlivesRequest,
       WalkInv, Walking, DecideInv, OutcomeInv, WaitInv, Retries, Longest,
       Attempts

LEMMA StepInv == Inv /\ [Next]_vars => Inv'
<1> SUFFICES ASSUME Inv, [Next]_vars PROVE Inv'
  OBVIOUS
<1>1. CASE ReceiveLastPage
  BY <1>1, EndAttemptStep DEF ReceiveLastPage, Endings
<1>2. CASE ReceiveHttpError
  <2>1. PICK ending \in {"unauthorized", "forbidden", "throttled",
                         "serverError", "otherStatus"},
             h \in RetryAfters : EndAttempt(ending, h)
    BY <1>2 DEF ReceiveHttpError
  <2> QED BY <1>2, <2>1, EndAttemptStep DEF ReceiveHttpError, Endings
<1>3. CASE LoseConnection
  BY <1>3, EndAttemptStep DEF LoseConnection, Endings
<1>4. CASE ReceiveMalformedPage
  BY <1>4, EndAttemptStep DEF ReceiveMalformedPage, Endings
<1> QED BY <1>1, <1>2, <1>3, <1>4, GetTokenStep, FailTokenStep, LoseBodyStep,
           ReceivePageStep, RetryStep, FinishStep, StutterStep DEF Next

LEMMA Invariance == Spec => []Inv
BY InitInv, StepInv, PTL DEF Spec

-----------------------------------------------------------------------------
(* The theorems *)

(* The variables keep their types.                                         *)
THEOREM TypeCorrect == Spec => []TypeOK
<1>1. Inv => TypeOK
  BY DEF Inv
<1> QED BY <1>1, Invariance, PTL

(* A PASS hands over every page of its last attempt, in order and once.    *)
THEOREM CompletePass == Spec => []PassIsComplete
<1>1. Inv => PassIsComplete
  <2> SUFFICES ASSUME Inv, outcome.status = "PASS"
               PROVE  outcome.records = [p \in 1..size |-> <<Attempts, p>>]
    BY DEF PassIsComplete
  <2>1. pc = "done"
    BY DEF Inv, OutcomeInv, NoOutcome
  <2>2. /\ outcome.records = gathered
        /\ Len(gathered) = size
        /\ \A p \in 1..size : gathered[p] = <<Attempts, p>>
    BY <2>1 DEF Inv, OutcomeInv, DecideInv
  <2>3. gathered \in Seq((1..(MaxRetries + 1)) \X (1..MaxPages))
    BY DEF Inv, TypeOK
  <2> QED BY <2>2, <2>3
<1> QED BY <1>1, Invariance, PTL

(* At most MaxRetries retries, never after a 401 or a 403 or a success;    *)
(* and no failure but these two is reported before the budget is spent.    *)
THEOREM KeptBudget == Spec => []BudgetIsKept
<1>1. Inv => BudgetIsKept
  <2> SUFFICES ASSUME Inv PROVE BudgetIsKept
    OBVIOUS
  <2>1. pc \in {"request", "sending", "decide", "done", "raised"}
    BY DEF Inv, TypeOK
  <2>2. Attempts \in Nat
    BY DEF Inv, TypeOK, Attempts
  <2>3. /\ Attempts <= MaxRetries + 1
        /\ \A n \in 1..Retries : history[n] \in Repeatable
    BY <2>1, <2>2, Constants
       DEF Inv, WalkInv, Walking, DecideInv, OutcomeInv, Retries
  <2>4. outcome.status = "ERROR" =>
            history[Attempts] \in Denied \/ Attempts = MaxRetries + 1
    BY DEF Inv, OutcomeInv, NoOutcome
  <2> QED BY <2>3, <2>4 DEF BudgetIsKept, Repeatable, Denied
<1> QED BY <1>1, Invariance, PTL

(* The waits of one collection are bounded whatever the service asks for.  *)
THEOREM BoundedWait == Spec => []WaitIsBounded
<1>1. Inv => WaitIsBounded
  <2> SUFFICES ASSUME Inv PROVE WaitIsBounded
    OBVIOUS
  <2>1. slept <= Retries * Longest /\ slept \in Nat
    BY DEF Inv, TypeOK, WaitInv
  <2>2. Retries \in Int /\ Retries <= MaxRetries
    <3>1. pc \in {"request", "sending", "decide", "done", "raised"}
      BY DEF Inv, TypeOK
    <3>2. Attempts \in Nat
      BY DEF Inv, TypeOK, Attempts
    <3> QED BY <3>1, <3>2, Constants
            DEF Inv, Retries, WalkInv, Walking, DecideInv, OutcomeInv
  <2>3. Retries * Longest <= MaxRetries * Longest
    BY <2>2, LongestIsLongest, Constants
  <2>4. slept <= MaxRetries * Longest
    <3>1. Retries * Longest \in Int /\ MaxRetries * Longest \in Int
      BY <2>2, LongestIsLongest, Constants
    <3> QED BY <2>1, <2>3, <3>1
  <2> QED BY <2>4, LongestIsLongest DEF WaitIsBounded
<1> QED BY <1>1, Invariance, PTL

(* Every request carries a token that is still alive when it arrives.      *)
THEOREM LiveToken == Spec => []TokenOutlivesRequest
<1>1. Inv => TokenOutlivesRequest
  BY DEF Inv, TokenInv
<1> QED BY <1>1, Invariance, PTL

=============================================================================
