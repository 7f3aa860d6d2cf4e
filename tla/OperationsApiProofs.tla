------------------------- MODULE OperationsApiProofs -------------------------
(***************************************************************************)
(* Proofs about OperationsApi for any requests, tenants, collections and   *)
(* any TTL: no answer is staler than the cache promises, what it says of a *)
(* workload is what one stored report says, and its counts add up.         *)
(***************************************************************************)
EXTENDS OperationsApi, FiniteSetTheorems, TLAPS

-----------------------------------------------------------------------------
(* The inductive invariant *)

Pending == {"arrived", "waiting", "loading"}
States == Pending \cup {"idle", "answered", "refused", "failed", "dropped"}

Whole(r) ==
    r = [state |-> r.state, tenant |-> r.tenant, route |-> r.route,
         arrived |-> r.arrived, now |-> r.now, since |-> r.since,
         reads |-> r.reads, answer |-> r.answer]

Timely(r) ==
    /\ r.answer.since \in Nat
    /\ r.answer.since >= r.arrived \/ r.answer.since > r.arrived - TTL

(* The moments of a request come in the order in which it goes through     *)
(* them: it arrives, reads the clock, and loads.                           *)
OrderInv(r) ==
    /\ r.state \in Pending => r.tenant \in Tenants /\ r.route \in Routes
    /\ r.state = "waiting" => r.route = "kpi"
    /\ (r.state \in Pending /\ r.route = "kpi" /\ r.state # "arrived") =>
            r.arrived <= r.now /\ r.now <= clock
    /\ (r.state = "loading" /\ r.route = "kpi") => r.now <= r.since
    /\ r.state = "loading" => r.arrived <= r.since
    /\ r.state \in Pending => r.arrived <= clock
    /\ r.state = "answered" => Timely(r)

RequestInv(q) ==
    /\ Whole(request[q])
    /\ request[q].state \in States
    /\ request[q].arrived \in Nat /\ request[q].now \in Nat /\ request[q].since \in Nat
    /\ OrderInv(request[q])

(* An entry is stamped no later than the load of its value began.          *)
Sound(entry) ==
    entry # NoEntry =>
        entry.at \in Nat /\ entry.value.since \in Nat /\ entry.at <= entry.value.since

CacheInv ==
    /\ cache = [t \in Tenants |-> cache[t]]
    /\ \A t \in Tenants : Sound(cache[t])

Inv ==
    /\ clock \in Nat
    /\ request = [q \in Requests |-> request[q]]
    /\ \A q \in Requests : RequestInv(q)
    /\ CacheInv

-----------------------------------------------------------------------------
LEMMA TTLIsNat == TTL \in Nat
BY OperationsAssumption DEF OperationsAssumption

LEMMA WithoutInv ==
    ASSUME NEW outcome \in {"idle", "refused", "failed", "dropped"}
    PROVE  /\ Whole(Without(outcome))
           /\ Without(outcome).state \in States
           /\ Without(outcome).arrived \in Nat
           /\ Without(outcome).now \in Nat
           /\ Without(outcome).since \in Nat
           /\ OrderInv(Without(outcome))
           /\ OrderInv(Without(outcome))'
BY DEF Without, Whole, States, Pending, OrderInv

LEMMA InitInv == Init => Inv
<1> SUFFICES ASSUME Init PROVE Inv
    OBVIOUS
<1>1. clock \in Nat /\ request = [q \in Requests |-> request[q]]
    BY DEF Init
<1>2. \A q \in Requests : RequestInv(q)
    BY WithoutInv DEF Init, RequestInv
<1>3. CacheInv
    BY DEF Init, CacheInv, Sound
<1> QED  BY <1>1, <1>2, <1>3 DEF Inv

(* What the clock and the tables do without the API touches no request.    *)
LEMMA ElsewhereInv ==
    ASSUME Inv, clock' \in Nat, clock <= clock',
           request' = request, cache' = cache
    PROVE  Inv'
<1>1. ASSUME NEW q \in Requests PROVE RequestInv(q)'
    BY DEF Inv, RequestInv, OrderInv, Pending, Timely, Whole
<1>2. CacheInv'
    BY DEF Inv, CacheInv
<1> QED  BY <1>1, <1>2 DEF Inv

(* A step of one request: the invariant is to be shown of it alone.        *)
LEMMA OneRequestInv ==
    ASSUME Inv, NEW q \in Requests, clock' = clock,
           request' = [request EXCEPT ![q] = request'[q]],
           RequestInv(q)', CacheInv'
    PROVE  Inv'
<1>1. ASSUME NEW s \in Requests PROVE RequestInv(s)'
    <2>1. CASE s = q
        BY <2>1
    <2>2. CASE s # q
        <3>1. request'[s] = request[s]
            BY <2>2 DEF Inv
        <3> QED  BY <3>1 DEF Inv, RequestInv, OrderInv, Timely
    <2> QED  BY <2>1, <2>2
<1>2. request' = [s \in Requests |-> request'[s]]
    BY DEF Inv
<1> QED  BY <1>1, <1>2 DEF Inv

-----------------------------------------------------------------------------
LEMMA TickInv == Inv /\ Tick => Inv'
<1> SUFFICES ASSUME Inv, Tick PROVE Inv'
    OBVIOUS
<1>1. clock' \in Nat /\ clock <= clock' /\ request' = request /\ cache' = cache
    BY DEF Inv, Tick
<1> QED  BY <1>1, ElsewhereInv

LEMMA CollectorInv == Inv /\ CollectorStep => Inv'
<1> SUFFICES ASSUME Inv, CollectorStep PROVE Inv'
    OBVIOUS
<1>1. clock' = clock /\ request' = request /\ cache' = cache
    BY DEF CollectorStep, PublishReport, BeginRun, Download, DeleteOlder,
           StoreReport, FailRun, CollectUsers
<1>2. clock' \in Nat /\ clock <= clock'
    BY <1>1 DEF Inv
<1> QED  BY <1>1, <1>2, ElsewhereInv

LEMMA CacheUnchanged == Inv /\ cache' = cache => CacheInv'
BY DEF Inv, CacheInv

(* A step that leaves the request with an outcome and no answer. *)
LEMMA EndsInv ==
    ASSUME Inv, NEW q \in Requests, clock' = clock, cache' = cache,
           NEW outcome \in {"refused", "failed", "dropped"},
           request' = [request EXCEPT ![q] = Without(outcome)]
    PROVE  Inv'
<1>1. request'[q] = Without(outcome)
    BY DEF Inv
<1>2. RequestInv(q)'
    BY <1>1, WithoutInv DEF RequestInv
<1> QED  BY <1>1, <1>2, CacheUnchanged, OneRequestInv

(* Updates of several fields at once, spelled out for the provers.         *)
Moved(r, state, arrived, now, since) ==
    [state |-> state, tenant |-> r.tenant, route |-> r.route,
     arrived |-> arrived, now |-> now, since |-> since,
     reads |-> r.reads, answer |-> r.answer]

LEMMA StateAndNow ==
    ASSUME NEW r, Whole(r), NEW state, NEW now
    PROVE  [r EXCEPT !.state = state, !.now = now]
               = Moved(r, state, r.arrived, now, r.since)
<1>1. PICK m : m = [r EXCEPT !.state = state]
    OBVIOUS
<1>2. m = Moved(r, state, r.arrived, r.now, r.since)
    BY <1>1 DEF Whole, Moved
<1>3. [m EXCEPT !.now = now] = Moved(r, state, r.arrived, now, r.since)
    BY <1>2 DEF Moved
<1> QED  BY <1>1, <1>3

LEMMA StateAndSince ==
    ASSUME NEW r, Whole(r), NEW state, NEW since
    PROVE  [r EXCEPT !.state = state, !.since = since]
               = Moved(r, state, r.arrived, r.now, since)
<1>1. PICK m : m = [r EXCEPT !.state = state]
    OBVIOUS
<1>2. m = Moved(r, state, r.arrived, r.now, r.since)
    BY <1>1 DEF Whole, Moved
<1>3. [m EXCEPT !.since = since] = Moved(r, state, r.arrived, r.now, since)
    BY <1>2 DEF Moved
<1> QED  BY <1>1, <1>3

Arrived(r, state, tenant, route, arrived) ==
    [state |-> state, tenant |-> tenant, route |-> route,
     arrived |-> arrived, now |-> r.now, since |-> r.since,
     reads |-> r.reads, answer |-> r.answer]

LEMMA StateToArrived ==
    ASSUME NEW r, Whole(r), NEW state, NEW tenant, NEW route, NEW arrived
    PROVE  [r EXCEPT !.state = state, !.tenant = tenant, !.route = route,
                     !.arrived = arrived]
               = Arrived(r, state, tenant, route, arrived)
<1>1. PICK m : m = [r EXCEPT !.state = state]
    OBVIOUS
<1>2. PICK n : n = [m EXCEPT !.tenant = tenant]
    OBVIOUS
<1>3. PICK o : o = [n EXCEPT !.route = route]
    OBVIOUS
<1>4. m = Moved(r, state, r.arrived, r.now, r.since)
    BY <1>1 DEF Whole, Moved
<1>5. n = [Moved(r, state, r.arrived, r.now, r.since) EXCEPT !.tenant = tenant]
    BY <1>2, <1>4
<1>6. n = [state |-> state, tenant |-> tenant, route |-> r.route,
           arrived |-> r.arrived, now |-> r.now, since |-> r.since,
           reads |-> r.reads, answer |-> r.answer]
    BY <1>5 DEF Moved
<1>7. o = [state |-> state, tenant |-> tenant, route |-> route,
           arrived |-> r.arrived, now |-> r.now, since |-> r.since,
           reads |-> r.reads, answer |-> r.answer]
    BY <1>3, <1>6
<1>8. [o EXCEPT !.arrived = arrived] = Arrived(r, state, tenant, route, arrived)
    BY <1>7 DEF Arrived
<1> QED  BY <1>1, <1>2, <1>3, <1>8

LEMMA ArriveSteps ==
    ASSUME Inv, NEW q \in Requests, Arrive(q)
    PROVE  \E tenant \in Tenants, route \in Routes :
               request'[q] = Arrived(request[q], "arrived", tenant, route, clock)
<1>1. PICK tenant \in Tenants, route \in Routes :
          request' = [request EXCEPT ![q].state = "arrived", ![q].tenant = tenant,
                                     ![q].route = route, ![q].arrived = clock]
    BY DEF Arrive
<1>2. request'[q] = Arrived(request[q], "arrived", tenant, route, clock)
    <2>1. request'[q] = [request[q] EXCEPT !.state = "arrived", !.tenant = tenant,
                                           !.route = route, !.arrived = clock]
        BY <1>1 DEF Inv
    <2> DEFINE old == request[q]
    <2>2. Whole(old)
        BY DEF Inv, RequestInv
    <2> HIDE DEF old
    <2>3. \A tn, rt, at :
              [old EXCEPT !.state = "arrived", !.tenant = tn, !.route = rt,
                          !.arrived = at]
                  = Arrived(old, "arrived", tn, rt, at)
        BY <2>2, StateToArrived, ZenonT(30)
    <2>4. [old EXCEPT !.state = "arrived", !.tenant = tenant,
                      !.route = route, !.arrived = clock]
              = Arrived(old, "arrived", tenant, route, clock)
        BY <2>3, ZenonT(30)
    <2> QED  BY <2>1, <2>4, ZenonT(30) DEF old
<1> QED  BY <1>2

LEMMA ArriveInv ==
    ASSUME Inv, NEW q \in Requests, Arrive(q) PROVE Inv'
<1>2. PICK tenant \in Tenants, route \in Routes :
          request'[q] = Arrived(request[q], "arrived", tenant, route, clock)
    BY ArriveSteps
<1>3. request' = [request EXCEPT ![q] = request'[q]]
    BY DEF Inv, Arrive
<1>4. clock' = clock /\ cache' = cache
    BY DEF Arrive
<1>5. RequestInv(q)'
    BY <1>2, <1>4 DEF Inv, RequestInv, Whole, OrderInv, States, Pending, Arrived
<1> QED  BY <1>3, <1>4, <1>5, CacheUnchanged, OneRequestInv

LEMMA ReadClockSteps ==
    ASSUME Inv, NEW q \in Requests, ReadClock(q)
    PROVE  request'[q] = Moved(request[q], "waiting", request[q].arrived, clock,
                               request[q].since)
<1>1. request'[q] = [request[q] EXCEPT !.state = "waiting", !.now = clock]
    BY DEF Inv, ReadClock
<1> QED  BY <1>1, StateAndNow DEF Inv, RequestInv

LEMMA ReadClockInv ==
    ASSUME Inv, NEW q \in Requests, ReadClock(q) PROVE Inv'
<1>1. request'[q] = Moved(request[q], "waiting", request[q].arrived, clock,
                          request[q].since)
    BY ReadClockSteps
<1>2. request' = [request EXCEPT ![q] = request'[q]]
    BY DEF Inv, ReadClock
<1>3. clock' = clock /\ cache' = cache
    BY DEF ReadClock
<1>4. RequestInv(q)'
    BY <1>1, <1>3 DEF Inv, RequestInv, Whole, OrderInv, States, Pending, ReadClock, Moved
<1> QED  BY <1>2, <1>3, <1>4, CacheUnchanged, OneRequestInv

(* Whichever way a load begins, its moment is the present.                 *)
LEMMA LoadSteps ==
    ASSUME Inv, NEW q \in Requests, Miss(q) \/ LoadService(q)
    PROVE  request'[q] = Moved(request[q], "loading", request[q].arrived,
                               request[q].now, clock)
<1>1. request'[q] = [request[q] EXCEPT !.state = "loading", !.since = clock]
    BY DEF Inv, Miss, LoadService
<1> QED  BY <1>1, StateAndSince DEF Inv, RequestInv

LEMMA LoadBegins ==
    ASSUME Inv, NEW q \in Requests, Miss(q) \/ LoadService(q) PROVE Inv'
<1>1. /\ request' = [request EXCEPT ![q].state = "loading", ![q].since = clock]
      /\ clock' = clock /\ cache' = cache
      /\ \/ request[q].state = "waiting"
         \/ request[q].state = "arrived" /\ request[q].route = "correlation"
    BY DEF Miss, LoadService
<1>2. request'[q] = Moved(request[q], "loading", request[q].arrived,
                          request[q].now, clock)
    BY LoadSteps
<1>3. request' = [request EXCEPT ![q] = request'[q]]
    BY <1>1 DEF Inv
<1>4. RequestInv(q)'
    BY <1>1, <1>2 DEF Inv, RequestInv, Whole, OrderInv, States, Pending, Moved
<1> QED  BY <1>1, <1>3, <1>4, CacheUnchanged, OneRequestInv

WithReads(r, reads) ==
    [state |-> r.state, tenant |-> r.tenant, route |-> r.route,
     arrived |-> r.arrived, now |-> r.now, since |-> r.since,
     reads |-> reads, answer |-> r.answer]

LEMMA QuerySteps ==
    ASSUME Inv, NEW q \in Requests, NEW reads,
           request' = [request EXCEPT ![q].reads = reads]
    PROVE  request'[q] = WithReads(request[q], reads)
BY DEF Inv, RequestInv, Whole, WithReads

LEMMA QueryInv ==
    ASSUME Inv, NEW q \in Requests, Query(q) PROVE Inv'
<1>1. PICK reads :
          request' = [request EXCEPT ![q].reads = reads]
    BY DEF Query
<1>2. request'[q] = WithReads(request[q], reads)
    BY <1>1, QuerySteps
<1>3. request' = [request EXCEPT ![q] = request'[q]]
    BY <1>1 DEF Inv, RequestInv, Whole
<1>4. clock' = clock /\ cache' = cache /\ request[q].state = "loading"
    BY DEF Query
<1>5. RequestInv(q)'
    BY <1>2, <1>4 DEF Inv, RequestInv, Whole, OrderInv, States, Pending, WithReads
<1> QED  BY <1>3, <1>4, <1>5, CacheUnchanged, OneRequestInv

(* A request that leaves with an answer that is timely for it.             *)
LEMMA AnsweredInv ==
    ASSUME Inv, NEW q \in Requests, clock' = clock, CacheInv', NEW answer,
           request' = [request EXCEPT ![q] = With(q, answer)],
           answer.since \in Nat,
           \/ answer.since >= request[q].arrived
           \/ answer.since > request[q].arrived - TTL
    PROVE  Inv'
<1>1. request'[q] = [state |-> "answered", tenant |-> request[q].tenant,
                     route |-> "none", arrived |-> request[q].arrived,
                     now |-> 0, since |-> 0, reads |-> <<>>, answer |-> answer]
    BY DEF Inv, With
<1>2. request' = [request EXCEPT ![q] = request'[q]]
    BY <1>1 DEF Inv, With
<1>3. RequestInv(q)'
    BY <1>1 DEF Inv, RequestInv, Whole, OrderInv, Timely, States, Pending
<1> QED  BY <1>2, <1>3, OneRequestInv

(* A fresh entry is less than one TTL older than the request, and its      *)
(* value is no older than the entry.                                       *)
LEMMA HitInv ==
    ASSUME Inv, NEW q \in Requests, Hit(q) PROVE Inv'
<1> DEFINE entry == cache[request[q].tenant]
<1>1. /\ request[q].tenant \in Tenants
      /\ request[q].arrived <= request[q].now
      /\ request[q].arrived \in Nat /\ request[q].now \in Nat
    BY DEF Inv, RequestInv, OrderInv, Pending, Hit
<1>2. entry # NoEntry /\ request[q].now - entry.at < TTL
    BY DEF Hit, IsFresh
<1>3. entry.at \in Nat /\ entry.value.since \in Nat /\ entry.at <= entry.value.since
    BY <1>1, <1>2 DEF Inv, CacheInv, Sound
<1>4. entry.value.since > request[q].arrived - TTL
    BY <1>1, <1>2, <1>3, TTLIsNat
<1>5. clock' = clock /\ CacheInv'
    BY CacheUnchanged DEF Hit
<1>6. request' = [request EXCEPT ![q] = With(q, entry.value)]
    BY DEF Hit
<1> HIDE DEF entry
<1> QED  BY <1>3, <1>4, <1>5, <1>6, AnsweredInv

LEMMA AnswerInv ==
    ASSUME Inv, NEW q \in Requests, Answer(q) PROVE Inv'
<1>1. /\ request[q].tenant \in Tenants
      /\ request[q].arrived <= request[q].since
      /\ request[q].route = "kpi" => request[q].now <= request[q].since
      /\ request[q].now \in Nat /\ request[q].since \in Nat
    BY DEF Inv, RequestInv, OrderInv, Pending, Answer
<1>2. Seen(q).since = request[q].since
    BY DEF Seen
<1>3. CacheInv'
    <2>1. CASE request[q].route = "kpi"
        <3>1. cache' = [cache EXCEPT ![request[q].tenant] = Entry(q)]
            BY <2>1 DEF Answer
        <3>2. Sound(Entry(q))
            BY <1>1, <1>2, <2>1 DEF Sound, Entry
        <3> QED  BY <3>1, <3>2 DEF Inv, CacheInv, Sound
    <2>2. CASE request[q].route # "kpi"
        BY <2>2, CacheUnchanged DEF Answer
    <2> QED  BY <2>1, <2>2
<1>4. clock' = clock
    BY DEF Answer
<1>5. request' = [request EXCEPT ![q] = With(q, Seen(q))]
    BY DEF Answer
<1> QED  BY <1>1, <1>2, <1>3, <1>4, <1>5, AnsweredInv

LEMMA HandleInv ==
    ASSUME Inv, NEW q \in Requests, Handle(q) PROVE Inv'
<1>1. CASE Refuse(q)
    BY <1>1, EndsInv DEF Refuse
<1>2. CASE Drop(q)
    BY <1>2, EndsInv DEF Drop
<1>3. CASE LoadFails(q)
    BY <1>3, EndsInv DEF LoadFails
<1>4. CASE ReadClock(q) \/ Hit(q) \/ Miss(q) \/ LoadService(q) \/ Query(q) \/ Answer(q)
    BY <1>4, ReadClockInv, HitInv, LoadBegins, QueryInv, AnswerInv
<1> QED  BY <1>1, <1>2, <1>3, <1>4 DEF Handle

LEMMA StutterInv == Inv /\ UNCHANGED vars => Inv'
<1> SUFFICES ASSUME Inv, UNCHANGED vars PROVE Inv'
    OBVIOUS
<1>1. clock' = clock /\ request' = request /\ cache' = cache
    BY DEF vars
<1> QED  BY <1>1, ElsewhereInv DEF Inv

LEMMA Invariance == Spec => []Inv
<1>1. Inv /\ [Next]_vars => Inv'
    BY TickInv, CollectorInv, ArriveInv, HandleInv, StutterInv DEF Next
<1> QED  BY InitInv, <1>1, PTL DEF Spec

-----------------------------------------------------------------------------
LEMMA InvFresh == Inv => FreshOnArrival
BY DEF Inv, RequestInv, OrderInv, Timely, FreshOnArrival, Answered

(* However many requests wait for the lock, and however long, no answer    *)
(* rests on rows read a TTL or more before its request arrived             *)
(* (_cached_telemetry).                                                    *)
THEOREM FreshAnswers == Spec => []FreshOnArrival
BY Invariance, InvFresh, PTL

-----------------------------------------------------------------------------
(* The reports behind an answer.  The second inductive invariant follows   *)
(* the rows from the run that stored them to the answer that shows them.   *)

Downloaded == {"downloaded", "storing", "stored"}

(* A run has its place in the order of beginnings once it begins, and a    *)
(* report once it has downloaded one.                                      *)
RunInv ==
    /\ run = [r \in Runs |-> run[r]]
    /\ \A r \in Runs : run[r] = [state |-> run[r].state, report |-> run[r].report,
                                 alone |-> run[r].alone, older |-> run[r].older]
    /\ published \in [Workloads -> Nat]
    /\ \A w \in Workloads : published[w] <= Len(Report[w])
    /\ \A r \in Runs :
          run[r].state \in Downloaded => run[r].report \in 1..published[WorkloadOf[r]]
    /\ order \in Seq(Runs)
    /\ \A i, j \in 1..Len(order) : order[i] = order[j] => i = j
    /\ \A r \in Runs : run[r].state # "idle" <=> \E i \in 1..Len(order) : order[i] = r

StoredBy(r, w) == WorkloadOf[r] = w /\ run[r].state = "stored"

(* Every row of a table is a row of the report of a run that stored it.    *)
TableInv ==
    /\ table = [w \in Workloads |-> table[w]]
    /\ \A w \in Workloads : \A x \in table[w] :
          \E r \in Runs : StoredBy(r, w) /\ x \in RowsOf(r)

(* While a run no other has overlapped is under way nobody else is, the    *)
(* others began before or have ended; its DELETE takes the whole table,    *)
(* unless its report has no rows.                                          *)
AloneInv ==
    \A r \in Runs :
        run[r].alone =>
            /\ \A s \in Runs \ {r} :
                  /\ WorkloadOf[s] = WorkloadOf[r]
                  /\ run[s].state \in UnderWay /\ run[r].state # "idle"
                  => /\ run[r].state \notin UnderWay
                     /\ Position(order, r) < Position(order, s)
            /\ run[r].state \in {"downloaded", "storing"} =>
                  \A x \in table[WorkloadOf[r]] : x.refresh <= run[r].report
            /\ run[r].state = "storing" /\ RowsOf(r) # {} =>
                  run[r].older = table[WorkloadOf[r]]

(* A report without rows replaces nothing.                                 *)
EmptyInv ==
    \A r \in Runs :
        run[r].state = "storing" /\ RowsOf(r) = {} => run[r].older = {}

(* Rows that are all from one stored report of w, or no rows.              *)
FromOneReport(rows, w) ==
    rows = {} \/ \E r \in Runs : StoredBy(r, w) /\ rows \subseteq RowsOf(r)

(* What an answer, or the value of a cache entry, rests on.                *)
Honest(answer) ==
    /\ answer.users \subseteq Users
    /\ \A w \in Workloads : FromOneReport(answer.rows[w], w)

(* What a load has read so far, and what it answers.                       *)
ReadsInv(reads) ==
    /\ Len(reads) \in 0..5
    /\ reads = [i \in 1..Len(reads) |-> reads[i]]
    /\ 1 <= Len(reads) => reads[1] \subseteq Users
    /\ \A i \in 3..5 :
          i <= Len(reads) => FromOneReport(reads[i], Statements[i])

RestsInv(q) ==
    /\ request[q].state \in {"idle", "arrived", "waiting"} => request[q].reads = <<>>
    /\ request[q].state = "loading" => ReadsInv(request[q].reads)
    /\ request[q].state = "answered" =>
          Honest(request[q].answer) /\ request[q].answer.tenant = request[q].tenant

CacheRestsInv ==
    \A t \in Tenants :
        cache[t] # NoEntry => Honest(cache[t].value) /\ cache[t].value.tenant = t

ShownInv == \A r \in Runs : ShowsUntilReplaced(r)

(* The tables, and all that was read from them.                            *)
CollectionInv == RunInv /\ TableInv /\ AloneInv /\ EmptyInv /\ ShownInv

ReportInv ==
    /\ CollectionInv
    /\ users \subseteq Users
    /\ (\A q \in Requests : RestsInv(q)) /\ CacheRestsInv

-----------------------------------------------------------------------------
(* Places in the order of beginnings *)

LEMMA PositionIs ==
    ASSUME NEW s, NEW x, NEW i \in DOMAIN s, s[i] = x,
           \A j \in DOMAIN s : s[j] = x => j = i
    PROVE  Position(s, x) = i
BY DEF Position

(* Each run that has begun has a place of its own.                         *)
LEMMA Places ==
    ASSUME RunInv, NEW r \in Runs, run[r].state # "idle"
    PROVE  Position(order, r) \in 1..Len(order) /\ order[Position(order, r)] = r
<1>1. PICK i \in 1..Len(order) : order[i] = r
    BY DEF RunInv
<1>2. DOMAIN order = 1..Len(order)
    BY DEF RunInv
<1>3. \A j \in DOMAIN order : order[j] = r => j = i
    BY <1>1, <1>2 DEF RunInv
<1>4. Position(order, r) = i
    BY <1>1, <1>2, <1>3, PositionIs
<1> QED  BY <1>1, <1>4

LEMMA PlacesKept ==
    ASSUME RunInv, NEW r \in Runs, run[r].state = "idle", order' = Append(order, r)
    PROVE  /\ Position(order', r) = Len(order) + 1
           /\ \A s \in Runs : run[s].state # "idle" =>
                 Position(order', s) = Position(order, s)
<1>1. /\ order' \in Seq(Runs) /\ Len(order') = Len(order) + 1 /\ Len(order) \in Nat
      /\ DOMAIN order' = 1..(Len(order) + 1)
      /\ \A i \in 1..Len(order) : order'[i] = order[i]
      /\ order'[Len(order) + 1] = r
    BY DEF RunInv
<1>2. \A i \in 1..Len(order) : order[i] # r
    BY DEF RunInv
<1>3. Position(order', r) = Len(order) + 1
    <2>1. \A j \in DOMAIN order' : order'[j] = r => j = Len(order) + 1
        BY <1>1, <1>2
    <2>2. Len(order) + 1 \in DOMAIN order'
        BY <1>1
    <2> QED  BY <1>1, <2>1, <2>2, PositionIs
<1>4. ASSUME NEW s \in Runs, run[s].state # "idle"
      PROVE  Position(order', s) = Position(order, s)
    <2>1. Position(order, s) \in 1..Len(order) /\ order[Position(order, s)] = s
        BY <1>4, Places
    <2>2. \A j \in DOMAIN order' : order'[j] = s => j = Position(order, s)
        BY <1>1, <2>1 DEF RunInv
    <2>3. Position(order, s) \in DOMAIN order' /\ order'[Position(order, s)] = s
        BY <1>1, <2>1
    <2> QED  BY <2>2, <2>3, PositionIs
<1> QED  BY <1>3, <1>4

-----------------------------------------------------------------------------
(* How a step of a collection changes its run *)

Run(state, report, alone, older) ==
    [state |-> state, report |-> report, alone |-> alone, older |-> older]

LEMMA ReportUpdate ==
    ASSUME NEW x, x = Run(x.state, x.report, x.alone, x.older), NEW state, NEW value
    PROVE  [x EXCEPT !.state = state, !.report = value] = Run(state, value, x.alone, x.older)
<1>1. PICK m : m = [x EXCEPT !.state = state]
    OBVIOUS
<1>2. m = Run(state, x.report, x.alone, x.older)
    BY <1>1 DEF Run
<1>3. [m EXCEPT !.report = value] = Run(state, value, x.alone, x.older)
    BY <1>2 DEF Run
<1> QED  BY <1>1, <1>3

LEMMA AloneUpdate ==
    ASSUME NEW x, x = Run(x.state, x.report, x.alone, x.older), NEW state, NEW value
    PROVE  [x EXCEPT !.state = state, !.alone = value] = Run(state, x.report, value, x.older)
<1>1. PICK m : m = [x EXCEPT !.state = state]
    OBVIOUS
<1>2. m = Run(state, x.report, x.alone, x.older)
    BY <1>1 DEF Run
<1>3. [m EXCEPT !.alone = value] = Run(state, x.report, value, x.older)
    BY <1>2 DEF Run
<1> QED  BY <1>1, <1>3

LEMMA OlderUpdate ==
    ASSUME NEW x, x = Run(x.state, x.report, x.alone, x.older), NEW state, NEW value
    PROVE  [x EXCEPT !.state = state, !.older = value] = Run(state, x.report, x.alone, value)
<1>1. PICK m : m = [x EXCEPT !.state = state]
    OBVIOUS
<1>2. m = Run(state, x.report, x.alone, x.older)
    BY <1>1 DEF Run
<1>3. [m EXCEPT !.older = value] = Run(state, x.report, x.alone, value)
    BY <1>2 DEF Run
<1> QED  BY <1>1, <1>3

LEMMA WholeRun ==
    ASSUME RunInv, NEW r \in Runs
    PROVE  run[r] = Run(run[r].state, run[r].report, run[r].alone, run[r].older)
BY DEF RunInv, Run

(* What is stored stays stored, as it was.                                 *)
StoredStays ==
    \A r \in Runs : run[r].state = "stored" =>
        run'[r].state = "stored" /\ RowsOf(r)' = RowsOf(r)

LEMMA OneReportStays ==
    ASSUME StoredStays, NEW rows, NEW w, FromOneReport(rows, w)
    PROVE  FromOneReport(rows, w)'
BY DEF StoredStays, FromOneReport, StoredBy

LEMMA TablesStay ==
    ASSUME TableInv, StoredStays, table' = table
    PROVE  TableInv'
BY DEF TableInv, StoredStays, StoredBy

-----------------------------------------------------------------------------
LEMMA DownloadSteps ==
    ASSUME RunInv, NEW r \in Runs, Download(r)
    PROVE  run' = [run EXCEPT ![r] = Run("downloaded", published[WorkloadOf[r]],
                                         run[r].alone, run[r].older)]
<1> DEFINE p == published[WorkloadOf[r]]
<1>1. run' = [run EXCEPT ![r] = [run[r] EXCEPT !.state = "downloaded", !.report = p]]
    BY DEF Download, RunInv
<1>2. [run[r] EXCEPT !.state = "downloaded", !.report = p]
          = Run("downloaded", p, run[r].alone, run[r].older)
    BY WholeRun, ReportUpdate
<1> QED  BY <1>1, <1>2

LEMMA DeleteSteps ==
    ASSUME RunInv, NEW r \in Runs, DeleteOlder(r)
    PROVE  run' = [run EXCEPT ![r] = Run("storing", run[r].report, run[r].alone,
                                         Replaced(r))]
<1> DEFINE old == Replaced(r)
<1>1. run' = [run EXCEPT ![r] = [run[r] EXCEPT !.state = "storing", !.older = old]]
    BY DEF DeleteOlder, RunInv
<1>2. \A value : [run[r] EXCEPT !.state = "storing", !.older = value]
                     = Run("storing", run[r].report, run[r].alone, value)
    BY WholeRun, OlderUpdate
<1>3. [run[r] EXCEPT !.state = "storing", !.older = old]
          = Run("storing", run[r].report, run[r].alone, old)
    BY <1>2
<1> QED  BY <1>1, <1>3

LEMMA EndSteps ==
    ASSUME RunInv, NEW r \in Runs, NEW state,
           run' = [run EXCEPT ![r].state = state, ![r].older = {}]
    PROVE  run' = [run EXCEPT ![r] = Run(state, run[r].report, run[r].alone, {})]
<1>1. run' = [run EXCEPT ![r] = [run[r] EXCEPT !.state = state, !.older = {}]]
    BY DEF RunInv
<1>2. \A value : [run[r] EXCEPT !.state = state, !.older = value]
                     = Run(state, run[r].report, run[r].alone, value)
    BY WholeRun, OlderUpdate
<1>3. [run[r] EXCEPT !.state = state, !.older = {}]
          = Run(state, run[r].report, run[r].alone, {})
    BY <1>2
<1> QED  BY <1>1, <1>3

-----------------------------------------------------------------------------
(* The collections *)

(* As long as nothing is stored, what is shown stays.                      *)
LEMMA ShownStays ==
    ASSUME ShownInv, StoredStays, table' = table,
           \A r \in Runs : run'[r].state = "stored" =>
               /\ run[r].state = "stored"
               /\ run'[r].alone => run[r].alone
               /\ Position(order', r) = Position(order, r)
    PROVE  ShownInv'
BY DEF ShownInv, ShowsUntilReplaced, StoredStays

LEMMA BeginRunInv ==
    ASSUME CollectionInv, NEW r \in Runs, BeginRun(r)
    PROVE  CollectionInv' /\ StoredStays
<1> USE DEF CollectionInv
<1> DEFINE others == {s \in Runs : run[s].state \in UnderWay
                                   /\ WorkloadOf[s] = WorkloadOf[r]}
<1>1. /\ run[r].state = "idle" /\ order' = Append(order, r)
      /\ UNCHANGED <<published, table>>
    BY DEF BeginRun
<1>2. run'[r] = Run("begun", run[r].report, others = {}, run[r].older)
    <2>1. run'[r] = [run[r] EXCEPT !.state = "begun", !.alone = others = {}]
        BY DEF BeginRun
    <2>2. \A value : [run[r] EXCEPT !.state = "begun", !.alone = value]
                         = Run("begun", run[r].report, value, run[r].older)
        BY WholeRun, AloneUpdate
    <2> QED  BY <2>1, <2>2
<1>3. ASSUME NEW s \in Runs \ {r}
      PROVE  /\ run'[s].state = run[s].state /\ run'[s].report = run[s].report
             /\ run'[s].older = run[s].older
             /\ run'[s].alone => run[s].alone /\ s \notin others
             /\ run'[s] = [state |-> run'[s].state, report |-> run'[s].report,
                          alone |-> run'[s].alone, older |-> run'[s].older]
    <2>1. run'[s] = IF s \in others THEN [run[s] EXCEPT !.alone = FALSE] ELSE run[s]
        BY DEF BeginRun
    <2>2. run[s] = Run(run[s].state, run[s].report, run[s].alone, run[s].older)
        BY WholeRun
    <2>3. CASE s \in others
        <3>1. run'[s] = Run(run[s].state, run[s].report, FALSE, run[s].older)
            BY <2>1, <2>2, <2>3 DEF Run
        <3> QED  BY <3>1 DEF Run
    <2>4. CASE s \notin others
        BY <2>1, <2>2, <2>4 DEF Run
    <2> QED  BY <2>3, <2>4
<1>4. /\ run'[r].state = "begun" /\ (run'[r].alone <=> others = {})
      /\ run'[r] = [state |-> run'[r].state, report |-> run'[r].report,
                    alone |-> run'[r].alone, older |-> run'[r].older]
      /\ \A s \in Runs \ {r} :
            /\ run'[s].state = run[s].state /\ run'[s].report = run[s].report
            /\ run'[s].older = run[s].older
            /\ run'[s].alone => run[s].alone /\ s \notin others
    <2>1. /\ run'[r].state = "begun" /\ (run'[r].alone <=> others = {})
          /\ run'[r] = [state |-> run'[r].state, report |-> run'[r].report,
                        alone |-> run'[r].alone, older |-> run'[r].older]
        <3>1. PICK nobody : nobody = (others = {})
            OBVIOUS
        <3>2. run'[r] = Run("begun", run[r].report, nobody, run[r].older)
            BY <1>2, <3>1
        <3>3. /\ run'[r].state = "begun" /\ run'[r].alone = nobody
              /\ run'[r].report = run[r].report /\ run'[r].older = run[r].older
            BY <3>2 DEF Run
        <3>4. run'[r].alone <=> others = {}
            BY <3>1, <3>3
        <3>5. run'[r] = [state |-> run'[r].state, report |-> run'[r].report,
                        alone |-> run'[r].alone, older |-> run'[r].older]
            BY <3>2, <3>3 DEF Run
        <3> QED  BY <3>3, <3>4, <3>5
    <2> QED  BY <2>1, <1>3
<1>5. /\ Position(order', r) = Len(order) + 1
      /\ \A s \in Runs : run[s].state # "idle" =>
             Position(order', s) = Position(order, s)
    BY <1>1, PlacesKept
<1>6. \A s \in Runs : run[s].state # "idle" => s # r /\ RowsOf(s)' = RowsOf(s)
    BY <1>1, <1>4, <1>5 DEF RowsOf
<1>7. RunInv'
    <2>1. /\ order' \in Seq(Runs)
          /\ \A j, k \in 1..Len(order') : order'[j] = order'[k] => j = k
          /\ \A s \in Runs : (\E j \in 1..Len(order') : order'[j] = s)
                                 <=> s = r \/ \E j \in 1..Len(order) : order[j] = s
        BY <1>1 DEF RunInv
    <2>2. run' = [s \in Runs |-> run'[s]]
        BY DEF BeginRun
    <2>3. \A s \in Runs : run'[s] = [state |-> run'[s].state, report |-> run'[s].report,
                                     alone |-> run'[s].alone, older |-> run'[s].older]
        BY <1>4, <1>3
    <2>4. \A s \in Runs :
              run'[s].state \in Downloaded => run'[s].report \in 1..published[WorkloadOf[s]]
        <3>1. \A s \in Runs : run[s].state \in Downloaded =>
                  run[s].report \in 1..published[WorkloadOf[s]]
            BY DEF RunInv
        <3>2. run'[r].state \notin Downloaded
            BY <1>4 DEF Downloaded
        <3> QED  BY <1>4, <3>1, <3>2
    <2>5. \A s \in Runs : run'[s].state # "idle" <=> \E j \in 1..Len(order') : order'[j] = s
        <3>1. \A s \in Runs : run[s].state # "idle" <=> \E j \in 1..Len(order) : order[j] = s
            BY DEF RunInv
        <3> QED  BY <1>4, <2>1, <3>1
    <2> QED  BY <1>1, <2>1, <2>2, <2>3, <2>4, <2>5 DEF RunInv
<1>8. StoredStays
    BY <1>1, <1>4, <1>6 DEF StoredStays
<1>9. TableInv'
    BY <1>1, <1>8, TablesStay
<1>10. AloneInv'
    <2> SUFFICES ASSUME NEW a \in Runs, run'[a].alone
                 PROVE  /\ \A s \in Runs \ {a} :
                              /\ WorkloadOf[s] = WorkloadOf[a]
                              /\ run'[s].state \in UnderWay /\ run'[a].state # "idle"
                              => /\ run'[a].state \notin UnderWay
                                 /\ Position(order', a) < Position(order', s)
                        /\ run'[a].state \in {"downloaded", "storing"} =>
                              \A x \in table[WorkloadOf[a]] : x.refresh <= run'[a].report
                        /\ run'[a].state = "storing" /\ RowsOf(a)' # {} =>
                              run'[a].older = table[WorkloadOf[a]]
        BY <1>1 DEF AloneInv
    <2>1. CASE a = r
        <3>1. others = {} /\ run'[a].state = "begun"
            BY <1>4, <2>1
        <3> QED  BY <1>4, <2>1, <3>1
    <2>2. CASE a # r
        <3>1. run[a].alone /\ a \notin others /\ run'[a].state = run[a].state
              /\ run'[a].report = run[a].report /\ run'[a].older = run[a].older
            BY <1>4, <2>2
        <3>2. ASSUME NEW s \in Runs \ {a}, WorkloadOf[s] = WorkloadOf[a],
                     run'[s].state \in UnderWay, run'[a].state # "idle"
              PROVE  /\ run'[a].state \notin UnderWay
                     /\ Position(order', a) < Position(order', s)
            <4>1. CASE s = r
                <5>1. run[a].state \notin UnderWay
                    BY <3>1, <3>2, <4>1
                <5>2. Position(order, a) \in 1..Len(order) /\ Len(order) \in Nat
                    BY <3>1, <3>2, Places DEF RunInv
                <5> QED  BY <1>5, <3>1, <3>2, <4>1, <5>1, <5>2
            <4>2. CASE s # r
                <5>1. run[s].state \in UnderWay /\ run[s].state # "idle"
                    BY <1>4, <3>2, <4>2 DEF UnderWay
                <5> QED  BY <1>5, <3>1, <3>2, <5>1 DEF AloneInv
            <4> QED  BY <4>1, <4>2
        <3>3. /\ run[a].state \in {"downloaded", "storing"} =>
                    \A x \in table[WorkloadOf[a]] : x.refresh <= run[a].report
              /\ run[a].state = "storing" /\ RowsOf(a) # {} =>
                    run[a].older = table[WorkloadOf[a]]
            BY <3>1 DEF AloneInv
        <3>4. run[a].state = "storing" => RowsOf(a)' = RowsOf(a)
            BY <1>6
        <3> QED  BY <3>1, <3>2, <3>3, <3>4
    <2> QED  BY <2>1, <2>2
<1>11. ShownInv'
    <2>1. \A s \in Runs : run'[s].state = "stored" =>
              /\ run[s].state = "stored"
              /\ run'[s].alone => run[s].alone
              /\ Position(order', s) = Position(order, s)
        BY <1>4, <1>5
    <2> QED  BY <1>1, <1>8, <2>1, ShownStays
<1>12. EmptyInv'
    <2>1. \A s \in Runs : run'[s].state = "storing" =>
              /\ run[s].state = "storing" /\ run'[s].older = run[s].older
              /\ RowsOf(s)' = RowsOf(s)
        BY <1>4, <1>6
    <2> QED  BY <2>1 DEF EmptyInv
<1> QED  BY <1>7, <1>8, <1>9, <1>10, <1>11, <1>12

(* A step of a run under way that stores nothing.                          *)
LEMMA MovesInv ==
    ASSUME CollectionInv, NEW r \in Runs, NEW state, NEW report, NEW older,
           run' = [run EXCEPT ![r] = Run(state, report, run[r].alone, older)],
           run[r].state \in UnderWay, state \in {"downloaded", "storing", "failed"},
           state \in Downloaded => report \in 1..published[WorkloadOf[r]],
           UNCHANGED <<order, published, table>>,
           run[r].alone /\ state \in {"downloaded", "storing"} =>
               \A x \in table[WorkloadOf[r]] : x.refresh <= report,
           run[r].alone /\ state = "storing" /\ RowsOf(r)' # {} =>
               older = table[WorkloadOf[r]],
           state = "storing" /\ RowsOf(r)' = {} => older = {}
    PROVE  CollectionInv' /\ StoredStays
<1> USE DEF CollectionInv
<1>1. /\ RunInv' /\ run'[r] = Run(state, report, run[r].alone, older)
      /\ \A s \in Runs \ {r} : run'[s] = run[s] /\ RowsOf(s)' = RowsOf(s)
    <2>1. /\ run'[r] = Run(state, report, run[r].alone, older)
          /\ \A s \in Runs \ {r} : run'[s] = run[s]
        BY DEF RunInv
    <2>2. \A s \in Runs \ {r} : RowsOf(s)' = RowsOf(s)
        BY <2>1 DEF RowsOf
    <2>3. RunInv'
        BY <2>1 DEF RunInv, Run, UnderWay
    <2> QED  BY <2>1, <2>2, <2>3
<1>2. StoredStays
    BY <1>1 DEF StoredStays, UnderWay
<1>3. TableInv'
    BY <1>2, TablesStay
<1>4. AloneInv'
    <2>1. run'[r].alone = run[r].alone /\ run'[r].state = state
          /\ run'[r].report = report /\ run'[r].older = older
        BY <1>1 DEF Run
    <2>2. \A s \in Runs : run'[s].state \in UnderWay => run[s].state \in UnderWay
        BY <1>1
    <2>3. \A s \in Runs : run'[s].state # "idle" => run[s].state # "idle"
        BY <1>1 DEF UnderWay
    <2>4. ASSUME NEW a \in Runs, run'[a].alone, NEW s \in Runs \ {a},
                 WorkloadOf[s] = WorkloadOf[a], run'[s].state \in UnderWay,
                 run'[a].state # "idle"
          PROVE  /\ run'[a].state \notin UnderWay
                 /\ Position(order', a) < Position(order', s)
        <3>1. run[a].alone
            BY <1>1, <2>1, <2>4
        <3> QED  BY <2>2, <2>3, <2>4, <3>1 DEF AloneInv
    <2>5. ASSUME NEW a \in Runs, run'[a].alone
          PROVE  /\ run'[a].state \in {"downloaded", "storing"} =>
                       \A x \in table[WorkloadOf[a]] : x.refresh <= run'[a].report
                 /\ run'[a].state = "storing" /\ RowsOf(a)' # {} =>
                       run'[a].older = table[WorkloadOf[a]]
        <3>1. CASE a = r
            BY <2>1, <2>5, <3>1
        <3>2. CASE a # r
            <4>1. run'[a] = run[a] /\ RowsOf(a)' = RowsOf(a)
                BY <1>1, <3>2
            <4> QED  BY <2>5, <4>1 DEF AloneInv
        <3> QED  BY <3>1, <3>2
    <2> QED  BY <2>4, <2>5 DEF AloneInv
<1>5. ShownInv'
    <2>1. \A s \in Runs : run'[s].state = "stored" =>
              run[s].state = "stored" /\ run'[s].alone = run[s].alone
        BY <1>1 DEF Run
    <2> QED  BY <1>2, <2>1, ShownStays
<1>6. EmptyInv'
    <2>1. run'[r].state = state /\ run'[r].older = older
        BY <1>1 DEF Run
    <2>2. ASSUME NEW a \in Runs, run'[a].state = "storing", RowsOf(a)' = {}
          PROVE  run'[a].older = {}
        <3>1. CASE a = r
            BY <2>1, <2>2, <3>1
        <3>2. CASE a # r
            BY <1>1, <2>2, <3>2 DEF EmptyInv
        <3> QED  BY <3>1, <3>2
    <2> QED  BY <2>2 DEF EmptyInv
<1> QED  BY <1>1, <1>2, <1>3, <1>4, <1>5, <1>6

(* A row is of a report that was published before.                         *)
LEMMA RowsArePublished ==
    ASSUME RunInv, TableInv, NEW w \in Workloads, NEW x \in table[w]
    PROVE  x.refresh <= published[w]
<1>1. PICK r \in Runs : StoredBy(r, w) /\ x \in RowsOf(r)
    BY DEF TableInv
<1>2. x.refresh = run[r].report
    BY <1>1 DEF RowsOf
<1>3. run[r].report \in 1..published[w]
    BY <1>1 DEF RunInv, StoredBy, Downloaded
<1> QED  BY <1>2, <1>3

LEMMA WorkloadOfRun == ASSUME NEW r \in Runs PROVE WorkloadOf[r] \in Workloads
BY OperationsAssumption

LEMMA DownloadInv ==
    ASSUME CollectionInv, NEW r \in Runs, Download(r)
    PROVE  CollectionInv' /\ StoredStays
<1> USE DEF CollectionInv
<1>1. /\ run[r].state \in UnderWay /\ published[WorkloadOf[r]] > 0
      /\ UNCHANGED <<order, published, table>>
    BY DEF Download, UnderWay
<1>2. published[WorkloadOf[r]] \in 1..published[WorkloadOf[r]]
    BY <1>1, WorkloadOfRun DEF RunInv
<1>3. \A x \in table[WorkloadOf[r]] : x.refresh <= published[WorkloadOf[r]]
    BY RowsArePublished, WorkloadOfRun
<1> QED  BY <1>1, <1>2, <1>3, DownloadSteps, MovesInv

LEMMA DeleteOlderInv ==
    ASSUME CollectionInv, NEW r \in Runs, DeleteOlder(r)
    PROVE  CollectionInv' /\ StoredStays
<1> USE DEF CollectionInv
<1> DEFINE old == Replaced(r)
<1>1. /\ run[r].state = "downloaded" /\ run[r].state \in UnderWay
      /\ UNCHANGED <<order, published, table>>
    BY DEF DeleteOlder, UnderWay
<1>2. run[r].report \in 1..published[WorkloadOf[r]]
    BY <1>1 DEF RunInv, Downloaded
<1>3. run[r].alone => \A x \in table[WorkloadOf[r]] : x.refresh <= run[r].report
    BY <1>1 DEF AloneInv
<1>4. run' = [run EXCEPT ![r] = Run("storing", run[r].report, run[r].alone, old)]
    BY DeleteSteps
<1>5. RowsOf(r)' = RowsOf(r)
    <2>1. run'[r].report = run[r].report
        BY <1>4 DEF RunInv, Run
    <2> QED  BY <1>1, <2>1 DEF RowsOf
<1>6. run[r].alone /\ RowsOf(r)' # {} => old = table[WorkloadOf[r]]
    BY <1>3, <1>5 DEF Replaced
<1>7. RowsOf(r)' = {} => old = {}
    BY <1>5 DEF Replaced
<1> HIDE DEF old
<1> QED  BY <1>1, <1>2, <1>3, <1>4, <1>6, <1>7, MovesInv

LEMMA FailRunInv ==
    ASSUME CollectionInv, NEW r \in Runs, FailRun(r)
    PROVE  CollectionInv' /\ StoredStays
<1> USE DEF CollectionInv
<1>1. /\ run[r].state \in UnderWay
      /\ run' = [run EXCEPT ![r].state = "failed", ![r].older = {}]
      /\ UNCHANGED <<order, published, table>>
    BY DEF FailRun
<1>2. run' = [run EXCEPT ![r] = Run("failed", run[r].report, run[r].alone, {})]
    BY <1>1, EndSteps
<1> QED  BY <1>1, <1>2, MovesInv DEF Downloaded

LEMMA PublishInv ==
    ASSUME CollectionInv, NEW w \in Workloads, PublishReport(w)
    PROVE  CollectionInv' /\ StoredStays
<1> USE DEF CollectionInv
<1>1. /\ published[w] < Len(Report[w])
      /\ published' = [published EXCEPT ![w] = @ + 1]
      /\ UNCHANGED <<run, order, table>>
    BY DEF PublishReport
<1>2. \A v \in Workloads : published'[v] \in Nat /\ published[v] <= published'[v]
                           /\ published'[v] <= Len(Report[v])
    <2>1. \A v \in Workloads : Len(Report[v]) \in Nat
        BY DataAssumption
    <2> QED  BY <1>1, <2>1 DEF RunInv
<1>3. RunInv'
    <2>1. \A r \in Runs : run[r].state \in Downloaded =>
              run[r].report \in 1..published'[WorkloadOf[r]]
        BY <1>2, WorkloadOfRun DEF RunInv
    <2> QED  BY <1>1, <1>2, <2>1 DEF RunInv
<1>4. StoredStays
    BY <1>1 DEF StoredStays, RowsOf
<1>5. TableInv' /\ AloneInv' /\ EmptyInv' /\ ShownInv'
    BY <1>1, <1>4, TablesStay, ShownStays DEF AloneInv, EmptyInv, RowsOf
<1> QED  BY <1>3, <1>4, <1>5

(* A report alone in its table is the newest generation of it.             *)
LEMMA GenerationOfOneReport ==
    ASSUME RunInv, NEW r \in Runs, run[r].state # "idle"
    PROVE  Generation(RowsOf(r)) = RowsOf(r)
<1>1. \A x \in RowsOf(r) : x.observed = Position(order, r)
    BY DEF RowsOf
<1>2. Position(order, r) \in Nat
    BY Places DEF RunInv
<1>3. \A x, y \in RowsOf(r) : y.observed <= x.observed
    BY <1>1, <1>2
<1> QED  BY <1>3 DEF Generation

LEMMA StoreReportInv ==
    ASSUME CollectionInv, NEW r \in Runs, StoreReport(r)
    PROVE  CollectionInv' /\ StoredStays
<1> USE DEF CollectionInv
<1> DEFINE w == WorkloadOf[r]
           kept == table[w] \ run[r].older
           newer == {x.key : x \in {y \in kept : y.refresh > run[r].report}}
           written == {x \in RowsOf(r) : x.key \notin newer}
           after == written \cup {x \in kept : \A y \in written : y.key # x.key}
<1>1. /\ run[r].state = "storing"
      /\ table' = [table EXCEPT ![w] = after]
      /\ run' = [run EXCEPT ![r].state = "stored", ![r].older = {}]
      /\ UNCHANGED <<order, published>>
    BY DEF StoreReport
<1>2. after \subseteq RowsOf(r) \cup table[w]
    OBVIOUS
<1>3. /\ run[r].older = table[w] => after = RowsOf(r)
      /\ RowsOf(r) = {} /\ run[r].older = {} => after = table[w]
    OBVIOUS
<1> HIDE DEF after
<1>4. /\ run'[r] = Run("stored", run[r].report, run[r].alone, {})
      /\ \A s \in Runs \ {r} : run'[s] = run[s]
      /\ run' = [s \in Runs |-> run'[s]]
    <2>1. run' = [run EXCEPT ![r] = Run("stored", run[r].report, run[r].alone, {})]
        BY <1>1, EndSteps
    <2> QED  BY <2>1 DEF RunInv
<1>5. /\ run'[r].state = "stored" /\ run'[r].report = run[r].report
      /\ run'[r].alone = run[r].alone
    BY <1>4 DEF Run
<1>6. ASSUME NEW s \in Runs PROVE RowsOf(s)' = RowsOf(s)
    <2>1. run'[s].report = run[s].report /\ order' = order
        BY <1>1, <1>4, <1>5
    <2> QED  BY <2>1 DEF RowsOf
<1>7. RunInv'
    <2>1. \A s \in Runs : /\ run'[s] = Run(run'[s].state, run'[s].report, run'[s].alone, run'[s].older)
                          /\ run'[s].report = run[s].report
                          /\ (run'[s].state \in Downloaded) = (run[s].state \in Downloaded)
                          /\ (run'[s].state # "idle") = (run[s].state # "idle")
        <3>1. run[r].state = "storing"
            BY <1>1
        <3>2. /\ run'[r] = Run(run'[r].state, run'[r].report, run'[r].alone, run'[r].older)
              /\ run'[r].report = run[r].report
              /\ (run'[r].state \in Downloaded) = (run[r].state \in Downloaded)
              /\ (run'[r].state # "idle") = (run[r].state # "idle")
            BY <1>4, <3>1 DEF Run, Downloaded
        <3>3. ASSUME NEW s \in Runs \ {r}
              PROVE  /\ run'[s] = Run(run'[s].state, run'[s].report, run'[s].alone, run'[s].older)
                     /\ run'[s].report = run[s].report
                     /\ (run'[s].state \in Downloaded) = (run[s].state \in Downloaded)
                     /\ (run'[s].state # "idle") = (run[s].state # "idle")
            BY <1>4, <3>3 DEF RunInv, Run
        <3> QED  BY <3>2, <3>3
    <2> QED  BY <1>1, <1>4, <2>1 DEF RunInv, Run
<1>8. StoredStays
    BY <1>1, <1>4, <1>6 DEF StoredStays
<1>9. /\ w \in Workloads /\ table'[w] = after
      /\ \A v \in Workloads \ {w} : table'[v] = table[v]
      /\ table' = [v \in Workloads |-> table'[v]]
    BY <1>1, WorkloadOfRun DEF TableInv
<1>10. TableInv'
    <2>1. ASSUME NEW v \in Workloads, NEW x \in table'[v]
          PROVE  \E s \in Runs : StoredBy(s, v)' /\ x \in RowsOf(s)'
        <3>1. CASE x \in table[v]
            <4>1. PICK s \in Runs : StoredBy(s, v) /\ x \in RowsOf(s)
                BY <2>1, <3>1 DEF TableInv
            <4> QED  BY <1>8, <4>1 DEF StoredStays, StoredBy
        <3>2. CASE x \notin table[v]
            <4>1. v = w /\ x \in RowsOf(r)
                BY <1>2, <1>9, <2>1, <3>2
            <4> QED  BY <1>5, <1>6, <4>1 DEF StoredBy
        <3> QED  BY <3>1, <3>2
    <2> QED  BY <1>9, <2>1 DEF TableInv
<1>11. \A s \in Runs : run'[s].state \in UnderWay => s # r /\ run[s].state \in UnderWay
    BY <1>4, <1>5 DEF UnderWay
(* Nobody that is alone has begun before r, or been under way with r.      *)
<1>12. ASSUME NEW a \in Runs \ {r}, run[a].alone, run[a].state # "idle",
              WorkloadOf[a] = w
       PROVE  run[a].state \notin UnderWay /\ Position(order, a) < Position(order, r)
    <2>1. run[r].state \in UnderWay
        BY <1>1 DEF UnderWay
    <2> QED  BY <1>12, <2>1 DEF AloneInv
<1>13. AloneInv'
    <2>1. ASSUME NEW a \in Runs, run'[a].alone, NEW s \in Runs \ {a},
                 WorkloadOf[s] = WorkloadOf[a], run'[s].state \in UnderWay,
                 run'[a].state # "idle"
          PROVE  /\ run'[a].state \notin UnderWay
                 /\ Position(order', a) < Position(order', s)
        <3>1. run[a].alone /\ run[a].state # "idle" /\ run[s].state \in UnderWay
            BY <1>1, <1>4, <1>5, <1>11, <2>1
        <3>2. run[a].state \notin UnderWay /\ Position(order, a) < Position(order, s)
            BY <2>1, <3>1 DEF AloneInv
        <3> QED  BY <1>1, <1>11, <3>2
    <2>2. ASSUME NEW a \in Runs, run'[a].alone
          PROVE  /\ run'[a].state \in {"downloaded", "storing"} =>
                       \A x \in table'[WorkloadOf[a]] : x.refresh <= run'[a].report
                 /\ run'[a].state = "storing" /\ RowsOf(a)' # {} =>
                       run'[a].older = table'[WorkloadOf[a]]
        <3>1. CASE a = r
            BY <1>5, <3>1
        <3>2. CASE a # r /\ WorkloadOf[a] = w
            BY <1>4, <1>12, <2>2, <3>2 DEF UnderWay
        <3>3. CASE a # r /\ WorkloadOf[a] # w
            BY <1>4, <1>6, <1>9, <2>2, <3>3, WorkloadOfRun DEF AloneInv
        <3> QED  BY <3>1, <3>2, <3>3
    <2> QED  BY <2>1, <2>2 DEF AloneInv
<1>14. EmptyInv'
    <2>1. \A s \in Runs : run'[s].state = "storing" => run'[s] = run[s]
        BY <1>4, <1>5
    <2> QED  BY <1>6, <2>1 DEF EmptyInv
(* What is shown of a workload whose table this step left as it was.       *)
<1>15. ASSUME NEW a \in Runs \ {r}, run'[a].state = "stored", run'[a].alone,
              RowsOf(a)' # {}, table'[WorkloadOf[a]] = table[WorkloadOf[a]],
              \A s \in Runs :
                 (/\ run'[s].state = "stored" /\ WorkloadOf[s] = WorkloadOf[a]
                  /\ RowsOf(s)' # {})
                 => Position(order', s) <= Position(order', a)
       PROVE  Generation(table'[WorkloadOf[a]]) = RowsOf(a)'
    <2>1. run[a].state = "stored" /\ run[a].alone /\ RowsOf(a) # {}
        BY <1>4, <1>6, <1>15
    <2>2. ASSUME NEW s \in Runs, run[s].state = "stored", WorkloadOf[s] = WorkloadOf[a],
                 RowsOf(s) # {}
          PROVE  Position(order, s) <= Position(order, a)
        BY <1>1, <1>8, <1>15, <2>2 DEF StoredStays
    <2>3. Generation(table[WorkloadOf[a]]) = RowsOf(a)
        BY <2>1, <2>2 DEF ShownInv, ShowsUntilReplaced
    <2> QED  BY <1>6, <1>15, <2>3
<1>16. ShownInv'
    <2> SUFFICES ASSUME NEW a \in Runs, run'[a].state = "stored", run'[a].alone,
                        RowsOf(a)' # {},
                        \A s \in Runs :
                           (/\ run'[s].state = "stored" /\ WorkloadOf[s] = WorkloadOf[a]
                            /\ RowsOf(s)' # {})
                           => Position(order', s) <= Position(order', a)
                 PROVE  Generation(table'[WorkloadOf[a]]) = RowsOf(a)'
        BY DEF ShownInv, ShowsUntilReplaced
    <2>1. CASE a = r
        <3>1. run[r].older = table[w]
            BY <1>1, <1>5, <1>6, <2>1 DEF AloneInv
        <3>2. after = RowsOf(r)
            BY <1>3, <3>1
        <3>3. Generation(after) = RowsOf(r)
            BY <1>1, <3>2, GenerationOfOneReport
        <3> QED  BY <1>6, <1>9, <2>1, <3>3
    <2>2. CASE a # r /\ WorkloadOf[a] = w /\ RowsOf(r) # {}
        <3>1. Position(order, a) < Position(order, r)
            BY <1>4, <1>12, <2>2
        <3>2. Position(order, r) <= Position(order, a)
            BY <1>1, <1>5, <1>6, <2>2
        <3>3. Position(order, r) \in Nat /\ Position(order, a) \in Nat
            BY <1>1, <1>4, <2>2, Places DEF RunInv
        <3> QED  BY <3>1, <3>2, <3>3
    <2>3. CASE a # r /\ WorkloadOf[a] = w /\ RowsOf(r) = {}
        <3>1. run[r].older = {}
            BY <1>1, <2>3 DEF EmptyInv
        <3>2. table'[WorkloadOf[a]] = table[WorkloadOf[a]]
            BY <1>3, <1>9, <2>3, <3>1
        <3> QED  BY <1>15, <2>3, <3>2
    <2>4. CASE a # r /\ WorkloadOf[a] # w
        <3>1. table'[WorkloadOf[a]] = table[WorkloadOf[a]]
            BY <1>9, <2>4, WorkloadOfRun
        <3> QED  BY <1>15, <2>4, <3>1
    <2> QED  BY <2>1, <2>2, <2>3, <2>4
<1> QED  BY <1>7, <1>8, <1>10, <1>13, <1>14, <1>16

(* Every step of the collectors keeps the tables in order.                 *)
LEMMA CollectionStepInv ==
    ASSUME CollectionInv, users \subseteq Users, CollectorStep
    PROVE  CollectionInv' /\ StoredStays /\ users' \subseteq Users
           /\ request' = request /\ cache' = cache
<1>1. ASSUME CollectUsers
      PROVE  CollectionInv' /\ StoredStays /\ users' \subseteq Users
    <2>1. UNCHANGED <<run, order, published, table>> /\ users' \subseteq Users
        BY <1>1 DEF CollectUsers
    <2>2. StoredStays
        BY <2>1 DEF StoredStays, RowsOf
    <2>3. RunInv' /\ AloneInv' /\ EmptyInv'
        BY <2>1 DEF CollectionInv, RunInv, AloneInv, EmptyInv, RowsOf
    <2>4. TableInv' /\ ShownInv'
        BY <2>1, <2>2, TablesStay, ShownStays DEF CollectionInv
    <2> QED  BY <2>1, <2>2, <2>3, <2>4 DEF CollectionInv
<1>2. ASSUME ~CollectUsers
      PROVE  CollectionInv' /\ StoredStays /\ users' = users
    <2>1. CollectionInv' /\ StoredStays
        BY <1>2, PublishInv, BeginRunInv, DownloadInv, DeleteOlderInv, StoreReportInv,
           FailRunInv DEF CollectorStep
    <2>2. users' = users
        BY <1>2 DEF CollectorStep, PublishReport, BeginRun, Download, DeleteOlder,
           StoreReport, FailRun
    <2> QED  BY <2>1, <2>2
<1>3. request' = request /\ cache' = cache
    BY DEF CollectorStep, PublishReport, BeginRun, Download, DeleteOlder,
           StoreReport, FailRun, CollectUsers
<1> QED  BY <1>1, <1>2, <1>3

-----------------------------------------------------------------------------
(* What the requests read of the tables *)

(* The tables a request reads keep still while it does.                    *)
LEMMA TablesUntouched ==
    ASSUME CollectionInv, UNCHANGED stores
    PROVE  CollectionInv' /\ StoredStays
<1>1. UNCHANGED <<run, order, published, table>>
    BY DEF stores
<1>2. StoredStays
    BY <1>1 DEF StoredStays, RowsOf
<1>3. RunInv' /\ AloneInv' /\ EmptyInv'
    BY <1>1 DEF CollectionInv, RunInv, AloneInv, EmptyInv, RowsOf
<1>4. TableInv' /\ ShownInv'
    BY <1>1, <1>2, TablesStay, ShownStays DEF CollectionInv
<1> QED  BY <1>2, <1>3, <1>4 DEF CollectionInv

LEMMA HonestStays ==
    ASSUME StoredStays, NEW answer, Honest(answer)
    PROVE  Honest(answer)'
BY OneReportStays DEF Honest

LEMMA ReadsStay ==
    ASSUME StoredStays, NEW reads, ReadsInv(reads)
    PROVE  ReadsInv(reads)'
BY OneReportStays DEF ReadsInv

(* Whatever is stored meanwhile, what a request or the cache holds stays   *)
(* as honest as it was.                                                    *)
LEMMA RestsStay ==
    ASSUME StoredStays, NEW q \in Requests, RestsInv(q), request'[q] = request[q]
    PROVE  RestsInv(q)'
<1>1. PICK r : r = request[q]
    OBVIOUS
<1>2. r.state = "loading" => ReadsInv(r.reads)'
    BY <1>1, ReadsStay DEF RestsInv
<1>3. r.state = "answered" => Honest(r.answer)'
    BY <1>1, HonestStays DEF RestsInv
<1>4. request'[q] = r
    BY <1>1
<1> QED  BY <1>1, <1>2, <1>3, <1>4 DEF RestsInv

LEMMA CacheStays ==
    ASSUME StoredStays, CacheRestsInv, cache' = cache
    PROVE  CacheRestsInv'
BY HonestStays DEF CacheRestsInv

LEMMA OneRequestRests ==
    ASSUME Inv, ReportInv, NEW q \in Requests, UNCHANGED stores,
           request' = [request EXCEPT ![q] = request'[q]],
           RestsInv(q)', CacheRestsInv'
    PROVE  ReportInv'
<1>1. CollectionInv' /\ StoredStays /\ users' \subseteq Users
    BY TablesUntouched DEF ReportInv, stores
<1>2. ASSUME NEW s \in Requests PROVE RestsInv(s)'
    <2>1. CASE s = q
        BY <2>1
    <2>2. CASE s # q
        <3>1. request'[s] = request[s]
            BY <2>2 DEF Inv
        <3> QED  BY <1>1, <3>1, RestsStay DEF ReportInv
    <2> QED  BY <2>1, <2>2
<1> QED  BY <1>1, <1>2 DEF ReportInv

(* The newest generation of a table is of one report: its rows share the   *)
(* moment their run began, and no two runs began at the same.              *)
LEMMA GenerationIsOne ==
    ASSUME RunInv, TableInv, NEW w \in Workloads
    PROVE  FromOneReport(Generation(table[w]), w)
<1>1. CASE Generation(table[w]) = {}
    BY <1>1 DEF FromOneReport
<1>2. CASE Generation(table[w]) # {}
    <2>1. PICK x \in Generation(table[w]) : TRUE
        BY <1>2
    <2>2. PICK r \in Runs : StoredBy(r, w) /\ x \in RowsOf(r)
        BY <2>1 DEF TableInv, Generation
    <2>3. ASSUME NEW y \in Generation(table[w]) PROVE y \in RowsOf(r)
        <3>1. PICK s \in Runs : StoredBy(s, w) /\ y \in RowsOf(s)
            BY <2>3 DEF TableInv, Generation
        <3>2. x.observed = Position(order, r) /\ y.observed = Position(order, s)
            BY <2>2, <3>1 DEF RowsOf
        <3>3. /\ Position(order, r) \in 1..Len(order) /\ order[Position(order, r)] = r
              /\ Position(order, s) \in 1..Len(order) /\ order[Position(order, s)] = s
            BY <2>2, <3>1, Places DEF StoredBy
        <3>4. x.observed <= y.observed /\ y.observed <= x.observed
            BY <2>1, <2>3 DEF Generation
        <3>5. r = s
            BY <3>2, <3>3, <3>4 DEF RunInv
        <3> QED  BY <3>1, <3>5
    <2> QED  BY <2>2, <2>3 DEF FromOneReport
<1> QED  BY <1>1, <1>2

-----------------------------------------------------------------------------
LEMMA InitReport == Init => ReportInv
<1> SUFFICES ASSUME Init PROVE ReportInv
    OBVIOUS
<1>1. RunInv
    <2>1. /\ run = [r \in Runs |-> run[r]]
          /\ \A r \in Runs : run[r] = [state |-> "idle", report |-> 0, alone |-> TRUE,
                                       older |-> {}]
        BY DEF Init
    <2>2. ASSUME NEW w \in Workloads
          PROVE  published[w] \in Nat /\ published[w] <= Len(Report[w])
        <3>1. published[w] = IF Report[w] = <<>> THEN 0 ELSE 1
            BY DEF Init
        <3>2. PICK S : Report[w] \in Seq(S)
            BY DataAssumption
        <3>3. Len(Report[w]) \in Nat /\ (Report[w] # <<>> => 1 <= Len(Report[w]))
            BY <3>2
        <3> QED  BY <3>1, <3>3
    <2>3. published \in [Workloads -> Nat]
        BY <2>2 DEF Init
    <2>4. order \in Seq(Runs) /\ Len(order) = 0
        BY DEF Init
    <2> QED  BY <2>1, <2>2, <2>3, <2>4 DEF RunInv, Downloaded
<1>2. TableInv
    BY DEF Init, TableInv
<1>3. AloneInv
    BY DEF Init, AloneInv, UnderWay
<1>8. EmptyInv
    BY DEF Init, EmptyInv
<1>4. ShownInv
    BY DEF Init, ShownInv, ShowsUntilReplaced
<1>5. users \subseteq Users
    BY OperationsAssumption DEF Init
<1>6. \A q \in Requests : RestsInv(q)
    BY DEF Init, RestsInv, Without
<1>7. CacheRestsInv
    BY DEF Init, CacheRestsInv
<1> QED  BY <1>1, <1>2, <1>3, <1>4, <1>5, <1>6, <1>7, <1>8 DEF ReportInv, CollectionInv

LEMMA TickReport ==
    ASSUME ReportInv, UNCHANGED <<stores, cache, request>>
    PROVE  ReportInv'
<1>1. CollectionInv' /\ StoredStays /\ users' \subseteq Users
    BY TablesUntouched DEF ReportInv, stores
<1>2. \A q \in Requests : RestsInv(q)'
    BY <1>1, RestsStay DEF ReportInv
<1> QED  BY <1>1, <1>2, CacheStays DEF ReportInv

LEMMA CollectorReport ==
    ASSUME ReportInv, CollectorStep
    PROVE  ReportInv'
<1>1. /\ CollectionInv' /\ StoredStays /\ users' \subseteq Users
      /\ request' = request /\ cache' = cache
    BY CollectionStepInv DEF ReportInv
<1>2. \A q \in Requests : RestsInv(q)'
    BY <1>1, RestsStay DEF ReportInv
<1> QED  BY <1>1, <1>2, CacheStays DEF ReportInv

(* A step that reads nothing and answers nothing. *)
LEMMA NothingRead ==
    ASSUME Inv, ReportInv, NEW q \in Requests, UNCHANGED <<stores, cache>>,
           request' = [request EXCEPT ![q] = request'[q]],
           request'[q].state \in States \ {"answered"}, request'[q].reads = <<>>
    PROVE  ReportInv'
<1>1. CacheRestsInv'
    BY TablesUntouched, CacheStays DEF ReportInv
<1>2. RestsInv(q)'
    BY DEF RestsInv, ReadsInv
<1> QED  BY <1>1, <1>2, OneRequestRests

LEMMA ArriveReport ==
    ASSUME Inv, ReportInv, NEW q \in Requests, Arrive(q) PROVE ReportInv'
<1>1. PICK tenant \in Tenants, route \in Routes :
          request'[q] = Arrived(request[q], "arrived", tenant, route, clock)
    BY ArriveSteps
<1>2. /\ request[q].state = "idle" /\ UNCHANGED <<stores, cache>>
      /\ request' = [request EXCEPT ![q] = request'[q]]
    BY DEF Inv, Arrive
<1>3. request'[q].state = "arrived" /\ request'[q].reads = request[q].reads
    BY <1>1 DEF Arrived
<1>4. request[q].reads = <<>>
    BY <1>2 DEF ReportInv, RestsInv
<1> QED  BY <1>2, <1>3, <1>4, NothingRead DEF States, Pending

LEMMA ReadClockReport ==
    ASSUME Inv, ReportInv, NEW q \in Requests, ReadClock(q) PROVE ReportInv'
<1>1. /\ request[q].state = "arrived" /\ UNCHANGED <<stores, cache>>
      /\ request' = [request EXCEPT ![q] = request'[q]]
    BY DEF Inv, ReadClock
<1>2. request'[q].state = "waiting" /\ request'[q].reads = request[q].reads
    <2>1. request'[q] = Moved(request[q], "waiting", request[q].arrived, clock,
                              request[q].since)
        BY ReadClockSteps
    <2> QED  BY <2>1 DEF Moved
<1>3. request[q].reads = <<>>
    BY <1>1 DEF ReportInv, RestsInv
<1> QED  BY <1>1, <1>2, <1>3, NothingRead DEF States, Pending

LEMMA LoadReport ==
    ASSUME Inv, ReportInv, NEW q \in Requests, Miss(q) \/ LoadService(q)
    PROVE  ReportInv'
<1>1. /\ request[q].state \in {"waiting", "arrived"} /\ UNCHANGED <<stores, cache>>
      /\ request' = [request EXCEPT ![q] = request'[q]]
    BY DEF Inv, Miss, LoadService
<1>2. request'[q].state = "loading" /\ request'[q].reads = request[q].reads
    <2>1. request'[q] = Moved(request[q], "loading", request[q].arrived,
                              request[q].now, clock)
        BY LoadSteps
    <2> QED  BY <2>1 DEF Moved
<1>3. request[q].reads = <<>>
    BY <1>1 DEF ReportInv, RestsInv
<1> QED  BY <1>1, <1>2, <1>3, NothingRead DEF States, Pending

LEMMA EndsReport ==
    ASSUME Inv, ReportInv, NEW q \in Requests, Refuse(q) \/ Drop(q) \/ LoadFails(q)
    PROVE  ReportInv'
<1>1. PICK outcome \in {"refused", "dropped", "failed"} :
          request' = [request EXCEPT ![q] = Without(outcome)]
    BY DEF Refuse, Drop, LoadFails
<1>2. request'[q] = Without(outcome)
    BY <1>1 DEF Inv
<1>3. request'[q].state \in States \ {"answered"} /\ request'[q].reads = <<>>
    BY <1>2 DEF Without, States, Pending
<1>4. UNCHANGED <<stores, cache>>
    BY DEF Refuse, Drop, LoadFails
<1> QED  BY <1>1, <1>2, <1>3, <1>4, NothingRead

(* Every statement returns users, or rows of one report.                   *)
LEMMA ReadIsHonest ==
    ASSUME ReportInv, NEW tenant, NEW i \in 1..5
    PROVE  /\ i = 1 => Read(tenant, Statements[i]) \subseteq Users
           /\ i \in 3..5 => FromOneReport(Read(tenant, Statements[i]), Statements[i])
<1>1. CASE tenant \notin Collected
    BY <1>1 DEF Read, FromOneReport
<1>2. CASE tenant \in Collected
    <2>1. CASE i = 1
        <3>1. Read(tenant, "users") = users
            BY <1>2 DEF Read, Workloads
        <3> QED  BY <2>1, <3>1 DEF Statements, ReportInv
    <2>2. CASE i \in 3..5
        <3>1. Statements[i] \in Workloads
            BY <2>2 DEF Statements, Workloads
        <3>2. \A w \in Workloads : Read(tenant, w) = Generation(table[w])
            BY <1>2 DEF Read, Workloads
        <3> QED  BY <2>2, <3>1, <3>2, GenerationIsOne DEF ReportInv, CollectionInv
    <2> QED  BY <2>1, <2>2
<1> QED  BY <1>1, <1>2

LEMMA QueryReport ==
    ASSUME Inv, ReportInv, NEW q \in Requests, Query(q) PROVE ReportInv'
<1> DEFINE reads == request[q].reads
           next == Len(reads) + 1
           what == Read(request[q].tenant, Statements[next])
<1>1. /\ request[q].state = "loading" /\ next <= 5 /\ UNCHANGED <<stores, cache>>
      /\ request' = [request EXCEPT ![q].reads = Append(reads, what)]
    BY DEF Query, Statements
<1>2. ReadsInv(reads)
    BY <1>1 DEF ReportInv, RestsInv
<1>3. next \in 1..5
    BY <1>1, <1>2 DEF ReadsInv
<1>4. /\ next = 1 => what \subseteq Users
      /\ next \in 3..5 => FromOneReport(what, Statements[next])
    BY <1>3, ReadIsHonest
<1>5. /\ Len(Append(reads, what)) = next
      /\ \A i \in 1..Len(reads) : Append(reads, what)[i] = reads[i]
      /\ Append(reads, what)[next] = what
      /\ Append(reads, what) = [i \in 1..next |-> Append(reads, what)[i]]
    <2>1. PICK n \in 0..5 : n = Len(reads)
        BY <1>2 DEF ReadsInv
    <2>2. reads = [i \in 1..n |-> reads[i]]
        BY <1>2, <2>1 DEF ReadsInv
    <2>3. PICK S : S = {reads[i] : i \in 1..n} \cup {what}
        OBVIOUS
    <2>4. reads \in Seq(S)
        BY <2>2, <2>3
    <2>5. what \in S /\ next = n + 1
        BY <2>1, <2>3
    <2> HIDE DEF reads, what, next
    <2>6. PICK longer : longer = Append(reads, what)
        OBVIOUS
    <2>7. longer \in Seq(S) /\ Len(longer) = next
        BY <2>1, <2>4, <2>5, <2>6
    <2>8. (\A i \in 1..n : longer[i] = reads[i]) /\ longer[next] = what
        BY <2>1, <2>4, <2>5, <2>6
    <2>9. longer = [i \in 1..next |-> longer[i]]
        BY <2>7
    <2> QED  BY <2>1, <2>6, <2>7, <2>8, <2>9
<1> HIDE DEF what
<1>6. ReadsInv(Append(reads, what))
    BY <1>2, <1>3, <1>4, <1>5 DEF ReadsInv
<1>7. PICK new : new = Append(reads, what)
    OBVIOUS
<1>8. request'[q] = WithReads(request[q], new)
    BY <1>1, <1>7, QuerySteps
<1>9. request' = [request EXCEPT ![q] = request'[q]]
    BY <1>1 DEF Inv, RequestInv, Whole
<1>10. StoredStays /\ CacheRestsInv'
    BY <1>1, TablesUntouched, CacheStays DEF ReportInv
<1>11. ReadsInv(new)'
    <2>1. ReadsInv(new)
        BY <1>6, <1>7
    <2> QED  BY <1>10, <2>1, ReadsStay
<1>12. RestsInv(q)'
    <2>1. PICK r : r = WithReads(request[q], new)
        OBVIOUS
    <2>2. r.state = "loading" /\ r.reads = new
        BY <1>1, <2>1 DEF WithReads
    <2>3. request'[q] = r
        BY <1>8, <2>1
    <2> HIDE DEF reads, next
    <2> QED  BY <1>11, <2>2, <2>3 DEF RestsInv
<1> QED  BY <1>1, <1>9, <1>10, <1>12, OneRequestRests

(* A request answered with what is honest of its tenant.                   *)
LEMMA AnsweredReport ==
    ASSUME Inv, ReportInv, NEW q \in Requests, UNCHANGED stores, CacheRestsInv',
           NEW answer, Honest(answer), answer.tenant = request[q].tenant,
           request' = [request EXCEPT ![q] = With(q, answer)]
    PROVE  ReportInv'
<1>1. request'[q] = With(q, answer)
    BY DEF Inv
<1>2. Honest(answer)'
    BY TablesUntouched, HonestStays DEF ReportInv
<1>3. RestsInv(q)'
    BY <1>1, <1>2 DEF RestsInv, With
<1> QED  BY <1>1, <1>3, OneRequestRests

LEMMA HitReport ==
    ASSUME Inv, ReportInv, NEW q \in Requests, Hit(q) PROVE ReportInv'
<1> DEFINE entry == cache[request[q].tenant]
<1>1. request[q].tenant \in Tenants
    BY DEF Inv, RequestInv, OrderInv, Pending, Hit
<1>2. Honest(entry.value) /\ entry.value.tenant = request[q].tenant
    BY <1>1 DEF ReportInv, CacheRestsInv, Hit, IsFresh
<1>3. UNCHANGED <<stores, cache>> /\ request' = [request EXCEPT ![q] = With(q, entry.value)]
    BY DEF Hit
<1>4. CacheRestsInv'
    BY <1>3, TablesUntouched, CacheStays DEF ReportInv
<1>5. PICK answer : answer = entry.value
    OBVIOUS
<1> HIDE DEF entry
<1> QED  BY <1>2, <1>3, <1>4, <1>5, AnsweredReport

LEMMA AnswerReport ==
    ASSUME Inv, ReportInv, NEW q \in Requests, Answer(q) PROVE ReportInv'
<1> DEFINE reads == request[q].reads
<1>1. /\ request[q].state = "loading" /\ Len(reads) = 5 /\ UNCHANGED stores
      /\ request' = [request EXCEPT ![q] = With(q, Seen(q))]
    BY DEF Answer, Statements
<1>2. /\ ReadsInv(reads) /\ request[q].tenant \in Tenants
    BY <1>1 DEF Inv, RequestInv, OrderInv, Pending, ReportInv, RestsInv
<1>3. \A i \in 3..5 : Position(Statements, Statements[i]) = i
    <2>1. DOMAIN Statements = 1..5
        BY DEF Statements
    <2>2. \A i \in 3..5 : \A j \in 1..5 : Statements[j] = Statements[i] => j = i
        BY DEF Statements
    <2>3. ASSUME NEW i \in 3..5 PROVE Position(Statements, Statements[i]) = i
        BY <2>1, <2>2, PositionIs
    <2> QED  BY <2>3
<1>4. \A w \in Workloads : \E i \in 3..5 : w = Statements[i]
    BY DEF Workloads, Statements
<1>5. Honest(Seen(q)) /\ Seen(q).tenant = request[q].tenant
    <2>1. /\ Seen(q).tenant = request[q].tenant /\ Seen(q).users = reads[1]
          /\ \A w \in Workloads : Seen(q).rows[w] = reads[Position(Statements, w)]
        BY DEF Seen
    <2>2. ASSUME NEW w \in Workloads PROVE FromOneReport(Seen(q).rows[w], w)
        <3>1. PICK i \in 3..5 : w = Statements[i]
            BY <1>4
        <3>2. Seen(q).rows[w] = reads[i]
            BY <1>3, <2>1, <3>1
        <3>3. FromOneReport(reads[i], w)
            BY <1>1, <1>2, <3>1 DEF ReadsInv
        <3> QED  BY <3>2, <3>3
    <2>3. reads[1] \subseteq Users
        BY <1>1, <1>2 DEF ReadsInv
    <2> QED  BY <2>1, <2>2, <2>3 DEF Honest
<1>6. PICK answer : answer = Seen(q)
    OBVIOUS
<1>7. StoredStays /\ Honest(answer)'
    BY <1>1, <1>5, <1>6, TablesUntouched, HonestStays DEF ReportInv
<1>8. CacheRestsInv'
    <2>1. CASE request[q].route = "kpi"
        <3>1. cache' = [cache EXCEPT ![request[q].tenant] = Entry(q)]
            BY <2>1 DEF Answer
        <3>2. Entry(q).value = answer
            BY <1>6 DEF Entry
        <3>3. PICK entry : entry = Entry(q)
            OBVIOUS
        <3>4. ASSUME NEW t \in Tenants, cache'[t] # NoEntry
              PROVE  Honest(cache[t].value)' /\ cache'[t].value.tenant = t
            <4>1. CASE t = request[q].tenant
                <5>1. cache'[t] = entry /\ entry.value = answer
                    BY <3>1, <3>2, <3>3, <4>1 DEF Inv, CacheInv
                <5> QED  BY <1>5, <1>6, <1>7, <4>1, <5>1
            <4>2. CASE t # request[q].tenant
                <5>1. PICK old : old = cache[t]
                    OBVIOUS
                <5>2. cache'[t] = old
                    BY <3>1, <4>2, <5>1 DEF Inv, CacheInv
                <5>3. Honest(old.value) /\ old.value.tenant = t
                    BY <3>4, <5>1, <5>2 DEF ReportInv, CacheRestsInv
                <5> QED  BY <1>7, <5>2, <5>3, HonestStays
            <4> QED  BY <4>1, <4>2
        <3> QED  BY <3>4 DEF CacheRestsInv
    <2>2. CASE request[q].route # "kpi"
        <3>1. cache' = cache
            BY <2>2 DEF Answer
        <3> QED  BY <1>7, <3>1, CacheStays DEF ReportInv
    <2> QED  BY <2>1, <2>2
<1> QED  BY <1>1, <1>5, <1>6, <1>8, AnsweredReport

LEMMA StutterReport ==
    ASSUME ReportInv, UNCHANGED vars
    PROVE  ReportInv'
BY TickReport DEF vars, stores

LEMMA ReportInvariance == Spec => []ReportInv
<1>1. Inv /\ ReportInv /\ [Next]_vars => ReportInv'
    <2> SUFFICES ASSUME Inv, ReportInv, [Next]_vars PROVE ReportInv'
        OBVIOUS
    <2>1. CASE Tick
        BY <2>1, TickReport DEF Tick
    <2>2. CASE CollectorStep
        BY <2>2, CollectorReport
    <2>3. ASSUME NEW q \in Requests, Arrive(q) \/ Handle(q) PROVE ReportInv'
        BY <2>3, ArriveReport, ReadClockReport, LoadReport, EndsReport, QueryReport,
           HitReport, AnswerReport DEF Handle
    <2>4. CASE UNCHANGED vars
        BY <2>4, StutterReport
    <2> QED  BY <2>1, <2>2, <2>3, <2>4 DEF Next
<1> QED  BY <1>1, InitReport, Invariance, PTL DEF Spec

-----------------------------------------------------------------------------
(* What an answer says of a user *)

(* A report has one row per key, and finitely many.                        *)
Tidy(rows) ==
    /\ \A x, y \in rows : x.key = y.key => x = y
    /\ \E keys : IsFiniteSet(keys) /\ \A x \in rows : x.key \in keys

LEMMA ReportsAreTidy ==
    ASSUME RunInv, NEW r \in Runs, run[r].state = "stored"
    PROVE  Tidy(RowsOf(r))
<1> DEFINE w == WorkloadOf[r]
           report == Report[w][run[r].report]
<1>1. IsFiniteSet(DOMAIN report)
    <2>1. w \in Workloads
        BY WorkloadOfRun
    <2>2. run[r].report \in 1..published[w] /\ published[w] \in Nat
          /\ published[w] <= Len(Report[w])
        BY <2>1 DEF RunInv, Downloaded
    <2>3. PICK S : Report[w] \in Seq(S)
        BY <2>1, DataAssumption
    <2>4. run[r].report \in DOMAIN Report[w]
        BY <2>2, <2>3
    <2> QED  BY <2>1, <2>4, DataAssumption
<1>2. RowsOf(r) = {[key |-> k, shape |-> report[k], refresh |-> run[r].report,
                    observed |-> Position(order, r)] : k \in DOMAIN report}
    BY DEF RowsOf
<1> HIDE DEF report
<1>3. \A x \in RowsOf(r) : x.key \in DOMAIN report
    BY <1>2
<1>4. \A x, y \in RowsOf(r) : x.key = y.key => x = y
    BY <1>2
<1> QED  BY <1>1, <1>3, <1>4 DEF Tidy

LEMMA HonestRowsAreTidy ==
    ASSUME RunInv, NEW rows, NEW w, FromOneReport(rows, w)
    PROVE  Tidy(rows)
<1>1. CASE rows = {}
    BY <1>1, FS_EmptySet DEF Tidy
<1>2. ASSUME NEW r \in Runs, StoredBy(r, w), rows \subseteq RowsOf(r)
      PROVE  Tidy(rows)
    BY <1>2, ReportsAreTidy DEF Tidy, StoredBy
<1> QED  BY <1>1, <1>2 DEF FromOneReport

Shapes(rows, user) == {row.shape : row \in RowsOfUser(rows, user)}

LEMMA StatusByShapes ==
    ASSUME NEW rows, NEW user
    PROVE  /\ WorkloadStatus(rows, user) \in {"ACTIVE", "INACTIVE", "UNKNOWN"}
           /\ WorkloadStatus(rows, user) = "ACTIVE" <=> "dated" \in Shapes(rows, user)
           /\ Shapes(rows, user) = {} => WorkloadStatus(rows, user) = "UNKNOWN"
<1>1. WorkloadStatus(rows, user) =
          CASE "dated" \in Shapes(rows, user) -> "ACTIVE"
            [] "dated" \notin Shapes(rows, user)
               /\ Shapes(rows, user) \cap {"deleted", "undated"} # {} -> "INACTIVE"
            [] OTHER -> "UNKNOWN"
    BY DEF WorkloadStatus, Shapes
<1>2. PICK shapes : shapes = Shapes(rows, user)
    OBVIOUS
<1> QED  BY <1>1, <1>2

(* Rows of one report say of a user what the whole report says, or that    *)
(* nothing is known.                                                       *)
LEMMA StatusOfPart ==
    ASSUME NEW all, NEW rows, rows \subseteq all, Tidy(all), NEW user
    PROVE  WorkloadStatus(rows, user) \in {WorkloadStatus(all, user), "UNKNOWN"}
<1>1. CASE \E x \in rows : x.key = user
    <2>1. RowsOfUser(rows, user) = RowsOfUser(all, user)
        BY <1>1 DEF Tidy, RowsOfUser
    <2> QED  BY <2>1 DEF WorkloadStatus
<1>2. CASE \A x \in rows : x.key # user
    <2>1. Shapes(rows, user) = {}
        BY <1>2 DEF Shapes, RowsOfUser
    <2> QED  BY <2>1, StatusByShapes
<1> QED  BY <1>1, <1>2

LEMMA HonestStatesOneReport ==
    ASSUME RunInv, NEW answer, Honest(answer), NEW w \in Workloads
    PROVE  StatesOneReport(answer, w)
<1> DEFINE rows == answer.rows[w]
<1>1. FromOneReport(rows, w)
    BY DEF Honest
<1> HIDE DEF rows
<1>2. CASE rows = {}
    <2>1. \A u : Shapes(rows, u) = {}
        BY <1>2 DEF Shapes, RowsOfUser
    <2>2. \A u : WorkloadStatus(rows, u) = "UNKNOWN"
        BY <2>1, StatusByShapes
    <2> QED  BY <2>2 DEF StatesOneReport, rows
<1>3. ASSUME NEW r \in Runs, StoredBy(r, w), rows \subseteq RowsOf(r)
      PROVE  StatesOneReport(answer, w)
    <2>1. \A u : WorkloadStatus(rows, u) \in {WorkloadStatus(RowsOf(r), u), "UNKNOWN"}
        BY <1>3, ReportsAreTidy, StatusOfPart DEF StoredBy
    <2> QED  BY <1>3, <2>1 DEF StatesOneReport, StoredBy, rows
<1> QED  BY <1>1, <1>2, <1>3 DEF FromOneReport

LEMMA InvOneReport == ReportInv => AnswersRestOnOneReport
<1> SUFFICES ASSUME ReportInv PROVE AnswersRestOnOneReport
    OBVIOUS
<1>1. ASSUME NEW q \in Answered
      PROVE  /\ request[q].answer.tenant = request[q].tenant
             /\ \A w \in Workloads : StatesOneReport(request[q].answer, w)
    <2>1. Honest(request[q].answer) /\ request[q].answer.tenant = request[q].tenant
        BY <1>1 DEF Answered, ReportInv, RestsInv
    <2> QED  BY <2>1, HonestStatesOneReport DEF ReportInv, CollectionInv
<1>2. \A r \in Runs : ShowsUntilReplaced(r)
    BY DEF ReportInv, CollectionInv, ShownInv
<1> QED  BY <1>1, <1>2 DEF AnswersRestOnOneReport

(* Whatever collections overlap, fail or end out of order, there is for    *)
(* each workload of an answer one stored report of the tenant, and every   *)
(* user's status is what that report says or UNKNOWN; a collection nothing *)
(* overlapped shows in full until another report with rows is stored       *)
(* (OperationsAnalyticsQueryService.__init__, write_report_rows).          *)
THEOREM AnswersOfOneReport == Spec => []AnswersRestOnOneReport
BY ReportInvariance, InvOneReport, PTL

-----------------------------------------------------------------------------
(* Counting users *)

LEMMA CountOfPart ==
    ASSUME NEW S, IsFiniteSet(S), NEW A, A \subseteq S
    PROVE  /\ IsFiniteSet(A)
           /\ Cardinality(A) \in Nat /\ Cardinality(S) \in Nat
           /\ Cardinality(A) <= Cardinality(S)
<1>1. IsFiniteSet(A) /\ Cardinality(A) <= Cardinality(S)
    BY FS_Subset
<1> QED  BY <1>1, FS_CardinalityType

(* Two parts of a set that have nothing in common.                         *)
LEMMA CountOfTwo ==
    ASSUME NEW S, IsFiniteSet(S), NEW A, NEW B, A \subseteq S, B \subseteq S,
           A \cap B = {}
    PROVE  /\ Cardinality(A \cup B) = Cardinality(A) + Cardinality(B)
           /\ Cardinality(A) + Cardinality(B) <= Cardinality(S)
<1>1. /\ IsFiniteSet(A) /\ IsFiniteSet(B)
      /\ Cardinality(A) \in Nat /\ Cardinality(B) \in Nat
    BY CountOfPart
<1>2. Cardinality(A \cup B) = Cardinality(A) + Cardinality(B) - Cardinality({})
    BY <1>1, FS_Union
<1>3. Cardinality(A \cup B) = Cardinality(A) + Cardinality(B)
    BY <1>1, <1>2, FS_EmptySet
<1>4. A \cup B \subseteq S
    OBVIOUS
<1>5. Cardinality(A \cup B) <= Cardinality(S)
    BY <1>4, CountOfPart
<1> QED  BY <1>3, <1>5

LEMMA CountOfThree ==
    ASSUME NEW S, IsFiniteSet(S), NEW A, NEW B, NEW C,
           A \subseteq S, B \subseteq S, C \subseteq S,
           A \cap B = {}, A \cap C = {}, B \cap C = {}
    PROVE  /\ Cardinality((A \cup B) \cup C)
                  = Cardinality(A) + Cardinality(B) + Cardinality(C)
           /\ Cardinality(A) + Cardinality(B) + Cardinality(C) <= Cardinality(S)
<1>1. Cardinality(A \cup B) = Cardinality(A) + Cardinality(B)
    BY CountOfTwo
<1>2. A \cup B \subseteq S /\ (A \cup B) \cap C = {}
    OBVIOUS
<1> DEFINE D == A \cup B
<1>3. /\ Cardinality(D \cup C) = Cardinality(D) + Cardinality(C)
      /\ Cardinality(D) + Cardinality(C) <= Cardinality(S)
    <2>1. D \subseteq S /\ D \cap C = {}
        BY <1>2
    <2> HIDE DEF D
    <2> QED  BY <2>1, CountOfTwo
<1> QED  BY <1>1, <1>3

(* An answer whose users are finitely many and whose tables are tidy.      *)
TidyAnswer(seen) ==
    IsFiniteSet(seen.users) /\ \A w \in Workloads : Tidy(seen.rows[w])

LEMMA CorrelationOf ==
    ASSUME NEW seen
    PROVE  /\ DOMAIN CrossWorkload(seen) = seen.users
           /\ \A u \in seen.users : \A w \in Workloads :
                 CrossWorkload(seen)[u][w] = WorkloadStatus(seen.rows[w], u)
           /\ \A w \in Workloads : \A s :
                 UsersWith(CrossWorkload(seen), w, s)
                     = {u \in seen.users : WorkloadStatus(seen.rows[w], u) = s}
BY DEF CrossWorkload, UsersWith

(* Each user has one status, and one that is known only if a row matches.  *)
CountWith(seen, w, status) == Cardinality(UsersWith(CrossWorkload(seen), w, status))
KeysOf(rows) == {r.key : r \in rows}

LEMMA StatusCounts ==
    ASSUME NEW seen, TidyAnswer(seen), NEW w \in Workloads
    PROVE  /\ CountWith(seen, w, "ACTIVE") + CountWith(seen, w, "INACTIVE")
                  + CountWith(seen, w, "UNKNOWN") = Cardinality(seen.users)
           /\ CountWith(seen, w, "ACTIVE") + CountWith(seen, w, "INACTIVE")
                  <= Cardinality(KeysOf(seen.rows[w]) \cap Directory(seen.users))
           /\ Cardinality(KeysOf(seen.rows[w]) \cap Directory(seen.users))
                  + Cardinality(Directory(seen.users) \ KeysOf(seen.rows[w]))
                      <= Cardinality(seen.users)
           /\ Cardinality(Directory(seen.users) \ KeysOf(seen.rows[w]))
                  <= CountWith(seen, w, "UNKNOWN")
<1>0. PICK active, inactive, unknown, keys :
          /\ active = UsersWith(CrossWorkload(seen), w, "ACTIVE")
          /\ inactive = UsersWith(CrossWorkload(seen), w, "INACTIVE")
          /\ unknown = UsersWith(CrossWorkload(seen), w, "UNKNOWN")
          /\ keys = KeysOf(seen.rows[w])
    OBVIOUS
<1> DEFINE status(u) == WorkloadStatus(seen.rows[w], u)
<1>1. /\ active = {u \in seen.users : status(u) = "ACTIVE"}
      /\ inactive = {u \in seen.users : status(u) = "INACTIVE"}
      /\ unknown = {u \in seen.users : status(u) = "UNKNOWN"}
    BY <1>0, CorrelationOf
<1>2. \A u : status(u) \in {"ACTIVE", "INACTIVE", "UNKNOWN"}
    BY StatusByShapes
<1>3. \A u : u \notin keys \/ u \in Nameless => status(u) = "UNKNOWN"
    <2>1. \A u : u \notin keys \/ u \in Nameless => Shapes(seen.rows[w], u) = {}
        BY <1>0 DEF Shapes, RowsOfUser, KeysOf
    <2> QED  BY <2>1, StatusByShapes
<1> HIDE DEF status
<1>4. /\ active \subseteq seen.users /\ inactive \subseteq seen.users
      /\ unknown \subseteq seen.users
      /\ active \cap inactive = {} /\ active \cap unknown = {} /\ inactive \cap unknown = {}
      /\ (active \cup inactive) \cup unknown = seen.users
    BY <1>1, <1>2
<1>5. IsFiniteSet(seen.users)
    BY DEF TidyAnswer
<1>6. Cardinality(active) + Cardinality(inactive) + Cardinality(unknown)
          = Cardinality(seen.users)
    BY <1>4, <1>5, CountOfThree
<1> DEFINE A == keys \cap Directory(seen.users)
           B == Directory(seen.users) \ keys
<1>7. /\ active \subseteq A /\ inactive \subseteq A /\ B \subseteq unknown
      /\ A \subseteq seen.users /\ B \subseteq seen.users /\ A \cap B = {}
    BY <1>1, <1>3 DEF Directory
<1> HIDE DEF A, B
<1>8. IsFiniteSet(A) /\ IsFiniteSet(unknown)
    BY <1>4, <1>5, <1>7, CountOfPart
<1>9. Cardinality(active) + Cardinality(inactive) <= Cardinality(A)
    BY <1>4, <1>7, <1>8, CountOfTwo
<1>10. Cardinality(A) + Cardinality(B) <= Cardinality(seen.users)
    BY <1>5, <1>7, CountOfTwo
<1>11. Cardinality(B) <= Cardinality(unknown)
    BY <1>7, <1>8, CountOfPart
<1> QED  BY <1>0, <1>6, <1>9, <1>10, <1>11 DEF CountWith, A, B

(* A user is active in one number of workloads, and in none if inactive in *)
(* all of them.                                                            *)
LEMMA ActivityCounts ==
    ASSUME NEW seen, TidyAnswer(seen),
           NEW exactly,
           exactly = [n \in 1..3 |-> Cardinality(ActiveIn(CrossWorkload(seen), n))],
           NEW inactive,
           inactive = {u \in seen.users :
                          \A w \in Workloads : CrossWorkload(seen)[u][w] = "INACTIVE"},
           NEW unknown,
           unknown = {u \in seen.users :
                         \E w \in Workloads : CrossWorkload(seen)[u][w] = "UNKNOWN"}
    PROVE  /\ SumOf3(exactly) + Cardinality(inactive) <= Cardinality(seen.users)
           /\ Cardinality(inactive) + Cardinality(unknown) <= Cardinality(seen.users)
<1>1. PICK correlation : correlation = CrossWorkload(seen)
    OBVIOUS
<1> DEFINE activity(u) == Cardinality({w \in Workloads : correlation[u][w] = "ACTIVE"})
           among(n) == ActiveIn(correlation, n)
<1>2. \A n : among(n) = {u \in seen.users : activity(u) = n}
    BY <1>1, CorrelationOf DEF ActiveIn
<1>3. \A u \in inactive : activity(u) = 0
    <2>1. ASSUME NEW u \in inactive PROVE activity(u) = 0
        <3>1. {w \in Workloads : correlation[u][w] = "ACTIVE"} = {}
            BY <1>1, <2>1
        <3> QED  BY <3>1, FS_EmptySet
    <2> QED  BY <2>1
<1>4. exactly[1] = Cardinality(among(1)) /\ exactly[2] = Cardinality(among(2))
      /\ exactly[3] = Cardinality(among(3))
    BY <1>1
<1> HIDE DEF activity, among
<1>5. /\ among(1) \subseteq seen.users /\ among(2) \subseteq seen.users
      /\ among(3) \subseteq seen.users /\ inactive \subseteq seen.users
      /\ among(1) \cap among(2) = {} /\ among(1) \cap among(3) = {}
      /\ among(2) \cap among(3) = {}
      /\ inactive \cap ((among(1) \cup among(2)) \cup among(3)) = {}
    BY <1>2, <1>3
<1>6. IsFiniteSet(seen.users)
    BY DEF TidyAnswer
<1>7. PICK active : active = (among(1) \cup among(2)) \cup among(3)
    OBVIOUS
<1>8. Cardinality(active)
          = Cardinality(among(1)) + Cardinality(among(2)) + Cardinality(among(3))
    BY <1>5, <1>6, <1>7, CountOfThree
<1>9. Cardinality(active) + Cardinality(inactive) <= Cardinality(seen.users)
    <2>1. active \subseteq seen.users /\ active \cap inactive = {}
        BY <1>5, <1>7
    <2> QED  BY <1>5, <1>6, <2>1, CountOfTwo
<1>10. Cardinality(inactive) + Cardinality(unknown) <= Cardinality(seen.users)
    <2>1. unknown \subseteq seen.users /\ inactive \cap unknown = {}
        OBVIOUS
    <2> QED  BY <1>5, <1>6, <2>1, CountOfTwo
<1> QED  BY <1>4, <1>8, <1>9, <1>10 DEF SumOf3

(* Accounts that have been active and accounts that never were are told    *)
(* apart, and every user shown as active is among the former.              *)
LEMMA AdoptionCounts ==
    ASSUME NEW seen, TidyAnswer(seen), NEW w \in Workloads,
           NEW adoption, adoption = Adoption(seen.rows[w])
    PROVE  /\ adoption.active + adoption.inactive = adoption.applicable
           /\ Cardinality(UsersWith(CrossWorkload(seen), w, "ACTIVE")) <= adoption.active
<1> DEFINE with(shapes) == {r.key : r \in {x \in seen.rows[w] : x.shape \in shapes}}
<1>1. /\ adoption.active = Cardinality(with({"dated"}))
      /\ adoption.inactive = Cardinality(with({"undated"}))
      /\ adoption.applicable = Cardinality(with({"dated", "undated"}))
    BY DEF Adoption
<1>2. /\ \A x, y \in seen.rows[w] : x.key = y.key => x = y
      /\ \E keys : IsFiniteSet(keys) /\ \A x \in seen.rows[w] : x.key \in keys
    BY DEF TidyAnswer, Tidy
<1>3. PICK keys : IsFiniteSet(keys) /\ \A x \in seen.rows[w] : x.key \in keys
    BY <1>2
<1>4. /\ with({"dated"}) \subseteq keys /\ with({"undated"}) \subseteq keys
      /\ with({"dated"}) \cup with({"undated"}) = with({"dated", "undated"})
    BY <1>3
<1>5. with({"dated"}) \cap with({"undated"}) = {}
    BY <1>2
<1>6. UsersWith(CrossWorkload(seen), w, "ACTIVE") \subseteq with({"dated"})
    <2>1. ASSUME NEW u \in UsersWith(CrossWorkload(seen), w, "ACTIVE")
          PROVE  u \in with({"dated"})
        <3>1. WorkloadStatus(seen.rows[w], u) = "ACTIVE"
            BY <2>1, CorrelationOf
        <3>2. "dated" \in Shapes(seen.rows[w], u)
            BY <3>1, StatusByShapes
        <3> QED  BY <3>2 DEF Shapes, RowsOfUser
    <2> QED  BY <2>1
<1> HIDE DEF with
<1>7. IsFiniteSet(with({"dated"}))
    BY <1>3, <1>4, CountOfPart
<1>8. Cardinality(UsersWith(CrossWorkload(seen), w, "ACTIVE"))
          <= Cardinality(with({"dated"}))
    BY <1>6, <1>7, CountOfPart
<1>9. Cardinality(with({"dated"})) + Cardinality(with({"undated"}))
          = Cardinality(with({"dated", "undated"}))
    BY <1>3, <1>4, <1>5, CountOfTwo
<1> QED  BY <1>1, <1>8, <1>9

LEMMA LicenseCounts ==
    ASSUME NEW seen, IsFiniteSet(seen.users)
    PROVE  /\ LicensedUsers(seen) + (Cardinality(seen.users) - LicensedUsers(seen))
                  = Cardinality(seen.users)
           /\ Cardinality(seen.users) - LicensedUsers(seen) >= 0
<1>1. PICK n : n = LicensedUsers(seen)
    OBVIOUS
<1>2. seen.users \cap seen.assigned \subseteq seen.users
    OBVIOUS
<1>3. n \in Nat /\ n <= Cardinality(seen.users) /\ Cardinality(seen.users) \in Nat
    BY <1>1, <1>2, CountOfPart DEF LicensedUsers
<1> QED  BY <1>1, <1>3

LEMMA HonestIsTidy ==
    ASSUME RunInv, NEW answer, Honest(answer)
    PROVE  TidyAnswer(answer)
<1>1. IsFiniteSet(answer.users)
    BY DataAssumption, FS_Subset DEF Honest
<1> QED  BY <1>1, HonestRowsAreTidy DEF Honest, TidyAnswer

LEMMA InvCounts == ReportInv => CountsAgree
<1> SUFFICES ASSUME ReportInv, NEW q \in Answered
             PROVE  LET kpi == StandardKpi(request[q].answer)
                    IN /\ kpi.licensed + kpi.unlicensed = kpi.total
                       /\ kpi.unlicensed >= 0
                       /\ \A w \in Workloads :
                             /\ kpi.status[w].ACTIVE + kpi.status[w].INACTIVE
                                    + kpi.status[w].UNKNOWN = kpi.total
                             /\ kpi.status[w].ACTIVE + kpi.status[w].INACTIVE
                                    <= kpi.joins[w].matched
                             /\ kpi.joins[w].matched + kpi.joins[w].unmatched_directory
                                    <= kpi.total
                             /\ kpi.joins[w].unmatched_directory
                                    <= kpi.status[w].UNKNOWN
                       /\ SumOf3(kpi.exactly) + kpi.inactive_all <= kpi.total
                       /\ kpi.inactive_all + kpi.unknown_any <= kpi.total
                       /\ kpi.adoption.active + kpi.adoption.inactive
                              = kpi.adoption.applicable
                       /\ kpi.status["exchange"].ACTIVE <= kpi.adoption.active
    BY DEF CountsAgree
<1>1. PICK seen : seen = request[q].answer
    OBVIOUS
<1>2. TidyAnswer(seen)
    BY <1>1, HonestIsTidy DEF ReportInv, CollectionInv, RestsInv, Answered
<1>3. PICK kpi : kpi = StandardKpi(seen)
    OBVIOUS
<1> DEFINE correlation == CrossWorkload(seen)
<1>4. /\ kpi.total = Cardinality(seen.users)
      /\ kpi.licensed = LicensedUsers(seen)
      /\ kpi.unlicensed = Cardinality(seen.users) - LicensedUsers(seen)
      /\ kpi.adoption = Adoption(seen.rows["exchange"])
    BY <1>3 DEF StandardKpi
<1>5. /\ kpi.exactly = [n \in 1..3 |-> Cardinality(ActiveIn(correlation, n))]
      /\ kpi.inactive_all = Cardinality({u \in seen.users :
             \A w \in Workloads : correlation[u][w] = "INACTIVE"})
      /\ kpi.unknown_any = Cardinality({u \in seen.users :
             \E w \in Workloads : correlation[u][w] = "UNKNOWN"})
    BY <1>3 DEF StandardKpi
<1>6. \A w \in Workloads :
          /\ kpi.status[w].ACTIVE = CountWith(seen, w, "ACTIVE")
          /\ kpi.status[w].INACTIVE = CountWith(seen, w, "INACTIVE")
          /\ kpi.status[w].UNKNOWN = CountWith(seen, w, "UNKNOWN")
    BY <1>3 DEF StandardKpi, CountWith
<1>7. \A w \in Workloads :
          /\ kpi.joins[w].matched
                 = Cardinality(KeysOf(seen.rows[w]) \cap Directory(seen.users))
          /\ kpi.joins[w].unmatched_directory
                 = Cardinality(Directory(seen.users) \ KeysOf(seen.rows[w]))
    BY <1>3 DEF StandardKpi, IdentityJoin, KeysOf
<1> HIDE DEF correlation
<1>8. kpi.licensed + kpi.unlicensed = kpi.total /\ kpi.unlicensed >= 0
    BY <1>2, <1>4, LicenseCounts DEF TidyAnswer
<1>9. ASSUME NEW w \in Workloads
      PROVE  /\ kpi.status[w].ACTIVE + kpi.status[w].INACTIVE
                    + kpi.status[w].UNKNOWN = kpi.total
             /\ kpi.status[w].ACTIVE + kpi.status[w].INACTIVE <= kpi.joins[w].matched
             /\ kpi.joins[w].matched + kpi.joins[w].unmatched_directory <= kpi.total
             /\ kpi.joins[w].unmatched_directory <= kpi.status[w].UNKNOWN
    BY <1>2, <1>4, <1>6, <1>7, StatusCounts
<1>10. /\ SumOf3(kpi.exactly) + kpi.inactive_all <= kpi.total
       /\ kpi.inactive_all + kpi.unknown_any <= kpi.total
    BY <1>2, <1>4, <1>5, ActivityCounts DEF correlation
<1>11. /\ kpi.adoption.active + kpi.adoption.inactive = kpi.adoption.applicable
       /\ kpi.status["exchange"].ACTIVE <= kpi.adoption.active
    <2>1. "exchange" \in Workloads
        BY DEF Workloads
    <2> QED  BY <1>2, <1>4, <1>6, <2>1, AdoptionCounts DEF CountWith
<1> QED  BY <1>1, <1>3, <1>8, <1>9, <1>10, <1>11

(* Whenever the tables of a load were read, in each workload the active,   *)
(* inactive and unknown users are all users it read, and the active and    *)
(* inactive ones are among the matched; no more are licensed than it read; *)
(* and the adoption counts, of report rows rather than users, add up to    *)
(* their own total (standard_kpi_summary, identity_join_quality).          *)
THEOREM CountsAddUp == Spec => []CountsAgree
BY ReportInvariance, InvCounts, PTL

=============================================================================
