---------------------------- MODULE OperationsApi ----------------------------
(***************************************************************************)
(* The operations API answers requests from threads of its own while       *)
(* collectors keep writing the tables it reads.  The KPI summary goes      *)
(* through a cache guarded by one lock that is held during the queries;    *)
(* the cross-workload correlation is computed anew for every request.      *)
(* Every statement of a load sees what was committed when it started.      *)
(***************************************************************************)
EXTENDS OperationsAnalytics, Sequences

CONSTANTS
    Requests,     \* requests of the operations user interface
    Runs,         \* usage-report collections
    WorkloadOf,   \* WorkloadOf[r]: the report run r collects
    Report,       \* Report[w]: what Microsoft publishes, report after report;
                  \* a report maps the keys of its rows to their shapes
    Users,        \* directory users
    Collected,    \* tenants whose data is collected
    Tenants,
    TTL,          \* TELEMETRY_CACHE_TTL_SECONDS
    Plans         \* bound: what takes part in one behaviour, as a record of
                  \* its requests, runs, last time, users to begin with and
                  \* later changes of users and licenses

ASSUME OperationsAssumption ==
    /\ WorkloadOf \in [Runs -> Workloads]
    /\ Collected \subseteq Tenants
    /\ TTL \in Nat
    /\ Plans \subseteq [requests : SUBSET Requests, runs : SUBSET Runs,
                        clock : Nat, users : SUBSET Users, changes : Nat]
ASSUME DataAssumption ==
    /\ IsFiniteSet(Users)
    /\ \A w \in Workloads :
          /\ Report[w] \in Seq({Report[w][i] : i \in DOMAIN Report[w]})
          /\ \A i \in DOMAIN Report[w] : IsFiniteSet(DOMAIN Report[w][i])

VARIABLES
    plan,      \* what takes part
    changes,   \* changes of the directory so far
    clock,     \* time.monotonic
    published, \* published[w]: how many reports of w are out
    run,       \* run[r]: a usage-report collection
    order,     \* runs that have begun, by started_at
    storing,   \* runs inside their transaction, by their DELETE
    table,     \* table[w]: current usage rows of the collected tenants
    users,     \* rows of core."user"
    assigned,  \* users with a license assignment
    lock,      \* holder of _TELEMETRY_CACHE_LOCK, or Free
    cache,     \* _TELEMETRY_CACHE: per tenant, NoEntry or [at, value]
    request    \* request[q]

stores == <<plan, changes, published, run, order, storing, table, users, assigned>>
vars == <<plan, changes, clock, published, run, order, storing, table, users, assigned,
          lock, cache, request>>

Free == "free"
NoEntry == <<>>
NoAnswer == <<>>
Routes == {"kpi", "correlation"}

Position(s, x) == CHOOSE i \in DOMAIN s : s[i] = x
UnderWay == {"begun", "downloaded", "storing"}

Without(outcome) ==
    [state |-> outcome, tenant |-> "none", route |-> "none", arrived |-> 0,
     now |-> 0, since |-> 0, reads |-> <<>>, answer |-> NoAnswer]

Init ==
    /\ plan \in Plans
    /\ changes = 0
    /\ clock = 0
    /\ published = [w \in Workloads |-> IF Report[w] = <<>> THEN 0 ELSE 1]
    /\ run = [r \in Runs |-> [state |-> "idle", report |-> 0, alone |-> TRUE,
                              older |-> {}]]
    /\ order = <<>>
    /\ storing = <<>>
    /\ table = [w \in Workloads |-> {}]
    /\ users = plan.users
    /\ assigned = {}
    /\ lock = Free
    /\ cache = [t \in Tenants |-> NoEntry]
    /\ request = [q \in Requests |-> Without("idle")]

Tick ==
    /\ clock < plan.clock
    /\ clock' = clock + 1
    /\ UNCHANGED <<stores, lock, cache, request>>

-----------------------------------------------------------------------------
(* The collectors.                                                         *)

PublishReport(w) ==
    /\ published[w] < Len(Report[w])
    /\ published' = [published EXCEPT ![w] = @ + 1]
    /\ UNCHANGED <<plan, changes, clock, run, order, storing, table, users, assigned,
                   lock, cache, request>>

(* The rows of a run carry its started_at. *)
BeginRun(r) ==
    LET others == {s \in Runs : run[s].state \in UnderWay
                                /\ WorkloadOf[s] = WorkloadOf[r]}
    IN /\ run[r].state = "idle" /\ r \in plan.runs
       /\ order' = Append(order, r)
       /\ run' = [s \in Runs |->
                     IF s = r THEN [run[r] EXCEPT !.state = "begun",
                                                  !.alone = others = {}]
                     ELSE IF s \in others THEN [run[s] EXCEPT !.alone = FALSE]
                     ELSE run[s]]
       /\ UNCHANGED <<plan, changes, clock, published, storing, table, users, assigned,
                      lock, cache, request>>

Download(r) ==
    /\ run[r].state = "begun"
    /\ published[WorkloadOf[r]] > 0
    /\ run' = [run EXCEPT ![r].state = "downloaded",
                          ![r].report = published[WorkloadOf[r]]]
    /\ UNCHANGED <<plan, changes, clock, published, order, storing, table, users, assigned,
                   lock, cache, request>>

RowsOf(r) ==
    LET report == Report[WorkloadOf[r]][run[r].report]
    IN {[key |-> k, shape |-> report[k], refresh |-> run[r].report,
         observed |-> Position(order, r)] : k \in DOMAIN report}

(* Mutant: a report without rows empties the table. *)
ReplacedByNothing(r) ==
    {x \in table[WorkloadOf[r]] : x.refresh <= run[r].report}

(* The rows a report replaces; write_report_rows returns at once, and      *)
(* deletes nothing, for a report without rows.  The refresh date of a row  *)
(* is the place of its report.                                             *)
Replaced(r) ==
    {x \in table[WorkloadOf[r]] : RowsOf(r) # {} /\ x.refresh <= run[r].report}

(* The DELETE of write_report_rows sees the rows committed by now.         *)
DeleteOlder(r) ==
    /\ run[r].state = "downloaded"
    /\ run' = [run EXCEPT ![r].state = "storing", ![r].older = Replaced(r)]
    /\ storing' = Append(storing, r)
    /\ UNCHANGED <<plan, changes, clock, published, order, table, users, assigned,
                   lock, cache, request>>

(* A row a transaction has deleted makes every later one wait for it. *)
Waits(r) ==
    \E i \in 1..(Position(storing, r) - 1) :
        /\ WorkloadOf[storing[i]] = WorkloadOf[r]
        /\ run[storing[i]].older \cap run[r].older # {}

(* The upserts, and COMMIT: a row of a newer report stays. *)
StoreReport(r) ==
    LET w == WorkloadOf[r]
        kept == table[w] \ run[r].older
        newer == {x.key : x \in {y \in kept : y.refresh > run[r].report}}
        written == {x \in RowsOf(r) : x.key \notin newer}
    IN /\ run[r].state = "storing"
       /\ ~Waits(r)
       /\ table' = [table EXCEPT ![w] =
             written \cup {x \in kept : \A y \in written : y.key # x.key}]
       /\ run' = [run EXCEPT ![r].state = "stored", ![r].older = {}]
       /\ storing' = SelectSeq(storing, LAMBDA s : s # r)
       /\ UNCHANGED <<plan, changes, clock, published, order, users, assigned,
                      lock, cache, request>>

FailRun(r) ==
    /\ run[r].state \in UnderWay
    /\ run' = [run EXCEPT ![r].state = "failed", ![r].older = {}]
    /\ storing' = SelectSeq(storing, LAMBDA s : s # r)
    /\ UNCHANGED <<plan, changes, clock, published, order, table, users, assigned,
                   lock, cache, request>>

(* The directory collector upserts the users it sees and, when Graph shows *)
(* their licenses, replaces all assignments of the tenant; no row of       *)
(* core."user" is ever deleted.                                            *)
CollectUsers ==
    \E seen \in SUBSET Users : \E licensed \in SUBSET seen :
        /\ seen # {}
        /\ changes < plan.changes
        /\ changes' = changes + 1
        /\ users' = users \cup seen
        /\ assigned' \in {assigned, licensed}
        /\ <<users', assigned'>> # <<users, assigned>>
        /\ UNCHANGED <<plan, clock, published, run, order, storing, table,
                       lock, cache, request>>

CollectorStep ==
    \/ \E w \in Workloads : PublishReport(w)
    \/ \E r \in Runs : \/ BeginRun(r) \/ Download(r) \/ DeleteOlder(r)
                       \/ StoreReport(r) \/ FailRun(r)
    \/ CollectUsers

-----------------------------------------------------------------------------
(* The API.                                                                *)

Arrive(q) ==
    \E tenant \in Tenants, route \in Routes :
        /\ request[q].state = "idle" /\ q \in plan.requests
        /\ request' = [request EXCEPT ![q].state = "arrived",
                          ![q].tenant = tenant, ![q].route = route,
                          ![q].arrived = clock]
        /\ UNCHANGED <<clock, stores, lock, cache>>

(* 401: no valid API key. *)
Refuse(q) ==
    /\ request[q].state = "arrived"
    /\ request' = [request EXCEPT ![q] = Without("refused")]
    /\ UNCHANGED <<clock, stores, lock, cache>>

(* The session lookup is outside the try: its error closes the connection. *)
Drop(q) ==
    /\ request[q].state = "arrived"
    /\ request' = [request EXCEPT ![q] = Without("dropped")]
    /\ UNCHANGED <<clock, stores, lock, cache>>

(* The cached route reads the clock before it asks for the lock. *)
ReadClock(q) ==
    /\ request[q].state = "arrived"
    /\ request[q].route = "kpi"
    /\ request' = [request EXCEPT ![q].state = "waiting", ![q].now = clock]
    /\ UNCHANGED <<clock, stores, lock, cache>>

IsFresh(entry, now) == entry # NoEntry /\ now - entry.at < TTL

With(q, value) ==
    [state |-> "answered", tenant |-> request[q].tenant, route |-> "none",
     arrived |-> request[q].arrived, now |-> 0, since |-> 0, reads |-> <<>>,
     answer |-> value]

(* Under the lock, a fresh entry is the answer. *)
Hit(q) ==
    LET entry == cache[request[q].tenant]
    IN /\ request[q].state = "waiting"
       /\ lock = Free
       /\ IsFresh(entry, request[q].now)
       /\ request' = [request EXCEPT ![q] = With(q, entry.value)]
       /\ UNCHANGED <<clock, stores, lock, cache>>

(* Otherwise the loader runs, and the lock stays taken. *)
Miss(q) ==
    /\ request[q].state = "waiting"
    /\ lock = Free
    /\ ~IsFresh(cache[request[q].tenant], request[q].now)
    /\ lock' = q
    /\ request' = [request EXCEPT ![q].state = "loading", ![q].since = clock]
    /\ UNCHANGED <<clock, stores, cache>>

LoadService(q) ==
    /\ request[q].state = "arrived"
    /\ request[q].route = "correlation"
    /\ request' = [request EXCEPT ![q].state = "loading", ![q].since = clock]
    /\ UNCHANGED <<clock, stores, lock, cache>>

(* The statements of from_connection, in order. *)
Statements == <<"users", "assigned", "exchange", "onedrive", "sharepoint">>

Read(tenant, statement) ==
    CASE tenant \notin Collected -> {}
      [] tenant \in Collected /\ statement = "users" -> users
      [] tenant \in Collected /\ statement = "assigned" -> assigned
      [] tenant \in Collected /\ statement \in Workloads ->
            Generation(table[statement])

Query(q) ==
    LET next == Len(request[q].reads) + 1
    IN /\ request[q].state = "loading"
       /\ next <= Len(Statements)
       /\ request' = [request EXCEPT ![q].reads =
                         Append(@, Read(request[q].tenant, Statements[next]))]
       /\ UNCHANGED <<clock, stores, lock, cache>>

(* Mutant: the lock is only given back after a successful load. *)
LockStaysTaken(q) == lock

(* The with statement: the lock is given back however the loader ends. *)
Released(q) == IF lock = q THEN Free ELSE lock

LoadFails(q) ==
    /\ request[q].state = "loading"
    /\ request' = [request EXCEPT ![q] = Without("failed")]
    /\ lock' = Released(q)
    /\ UNCHANGED <<clock, stores, cache>>

Seen(q) ==
    LET reads == request[q].reads
    IN [tenant |-> request[q].tenant, since |-> request[q].since,
        users |-> reads[1], assigned |-> reads[2],
        rows |-> [w \in Workloads |-> reads[Position(Statements, w)]]]

(* Mutant: the entry is as old as its store, not as its first read. *)
EntryStampedLate(q) == [at |-> clock, value |-> Seen(q)]

(* The entry is stamped with the clock as read before the lock. *)
Entry(q) == [at |-> request[q].now, value |-> Seen(q)]

(* The answer is what is computed from the reads, here the reads. *)
Answer(q) ==
    /\ request[q].state = "loading"
    /\ Len(request[q].reads) = Len(Statements)
    /\ request' = [request EXCEPT ![q] = With(q, Seen(q))]
    /\ cache' = IF request[q].route = "kpi"
                THEN [cache EXCEPT ![request[q].tenant] = Entry(q)] ELSE cache
    /\ lock' = IF lock = q THEN Free ELSE lock
    /\ UNCHANGED <<clock, stores>>

Handle(q) ==
    \/ Refuse(q) \/ Drop(q) \/ ReadClock(q) \/ Hit(q) \/ Miss(q)
    \/ LoadService(q) \/ Query(q) \/ LoadFails(q) \/ Answer(q)

Next ==
    \/ Tick \/ CollectorStep
    \/ \E q \in Requests : Arrive(q) \/ Handle(q)

(* The thread of a request that arrived runs on; its statements end.       *)
Spec == Init /\ [][Next]_vars /\ \A q \in Requests : WF_vars(Handle(q))

-----------------------------------------------------------------------------
(* Properties.                                                             *)

Answered == {q \in Requests : request[q].state = "answered"}

(* However long a request waited for the lock, and whoever filled the      *)
(* cache, its answer rests on rows read later than one TTL before it       *)
(* arrived (_cached_telemetry).                                            *)
FreshOnArrival ==
    \A q \in Answered :
        LET since == request[q].answer.since
        IN since >= request[q].arrived \/ since > request[q].arrived - TTL

(* What an answer says of each user in a workload is what one stored       *)
(* report of the tenant says, or that it does not know: never a mixture of *)
(* reports.                                                                *)
StatesOneReport(answer, w) ==
    \/ \A u \in answer.users : WorkloadStatus(answer.rows[w], u) = "UNKNOWN"
    \/ \E r \in Runs :
          /\ WorkloadOf[r] = w /\ run[r].state = "stored"
          /\ \A u \in answer.users :
                WorkloadStatus(answer.rows[w], u)
                    \in {WorkloadStatus(RowsOf(r), u), "UNKNOWN"}

(* A run no other run of its report overlapped with shows in full until    *)
(* another one is stored; a report without rows shows as nothing and       *)
(* replaces nothing.                                                       *)
ShowsUntilReplaced(r) ==
    (/\ run[r].state = "stored" /\ run[r].alone /\ RowsOf(r) # {}
     /\ \A s \in Runs :
           (/\ run[s].state = "stored" /\ WorkloadOf[s] = WorkloadOf[r]
            /\ RowsOf(s) # {})
           => Position(order, s) <= Position(order, r))
        => Generation(table[WorkloadOf[r]]) = RowsOf(r)

(* The status of a user in a workload comes from one stored report of the  *)
(* tenant of the request, whatever runs overlap, fail or end out of order  *)
(* (OperationsAnalyticsQueryService.__init__, write_report_rows).          *)
AnswersRestOnOneReport ==
    /\ \A q \in Answered :
          /\ request[q].answer.tenant = request[q].tenant
          /\ \A w \in Workloads : StatesOneReport(request[q].answer, w)
    /\ \A r \in Runs : ShowsUntilReplaced(r)

SumOf3(f) == f[1] + f[2] + f[3]

(* The tables of a load are read at different moments; still the counts of *)
(* users in the KPI summary are of the users it read and do not contradict *)
(* each other, users without a name included (standard_kpi_summary,        *)
(* identity_join_quality).  The adoption counts are of report rows.        *)
CountsAgree ==
    \A q \in Answered :
        LET kpi == StandardKpi(request[q].answer)
        IN /\ kpi.licensed + kpi.unlicensed = kpi.total
           /\ kpi.unlicensed >= 0
           /\ \A w \in Workloads :
                 /\ kpi.status[w].ACTIVE + kpi.status[w].INACTIVE
                        + kpi.status[w].UNKNOWN = kpi.total
                 /\ kpi.status[w].ACTIVE + kpi.status[w].INACTIVE
                        <= kpi.joins[w].matched
                 /\ kpi.joins[w].matched + kpi.joins[w].unmatched_directory
                        <= kpi.total
                 /\ kpi.joins[w].unmatched_directory <= kpi.status[w].UNKNOWN
           /\ SumOf3(kpi.exactly) + kpi.inactive_all <= kpi.total
           /\ kpi.inactive_all + kpi.unknown_any <= kpi.total
           /\ kpi.adoption.active + kpi.adoption.inactive = kpi.adoption.applicable
           /\ kpi.status["exchange"].ACTIVE <= kpi.adoption.active

(* Every request is answered, refused, failed with 503 or dropped, however *)
(* many wait for the lock and whatever the load of the one that holds it   *)
(* comes to.                                                               *)
EveryRequestAnswered ==
    \A q \in Requests :
        (request[q].state = "arrived") ~>
            (request[q].state \in {"answered", "refused", "failed", "dropped"})

=============================================================================
