------------------------- MODULE OperationsAnalytics -------------------------
(***************************************************************************)
(* What the operations analytics compute from the rows they were handed:   *)
(* the newest generation of a usage table, the status of every directory   *)
(* user in every workload, and the counts of the KPI summary.              *)
(***************************************************************************)
EXTENDS Integers, FiniteSets

CONSTANT Nameless   \* directory users without a readable user principal name

(* The usage tables the cross-workload status rests on, one per workload.  *)
Workloads == {"exchange", "onedrive", "sharepoint"}

(* What a stored report row says of its user: active on a date, present    *)
(* and never active, deleted, or without a usable deletion flag.           *)
RowShapes == {"dated", "undated", "deleted", "unflagged"}

(* Mutant: the rows of every generation still in the table. *)
EveryGeneration(table) == table

(* The rows with the newest observed_at of the tenant. *)
Generation(table) ==
    {row \in table : \A other \in table : other.observed <= row.observed}

(* _directory_key: the users a row can be joined with, by their name. *)
Directory(users) == users \ Nameless

RowsOfUser(rows, user) == {r \in rows : user \notin Nameless /\ r.key = user}

(* The status of a directory user by the rows of one workload. *)
WorkloadStatus(rows, user) ==
    LET shapes == {row.shape : row \in RowsOfUser(rows, user)}
    IN CASE "dated" \in shapes -> "ACTIVE"
         [] "dated" \notin shapes /\ shapes \cap {"deleted", "undated"} # {} -> "INACTIVE"
         [] OTHER -> "UNKNOWN"

(* cross_workload_user_status: one entry per directory user. *)
CrossWorkload(seen) ==
    [user \in seen.users |->
        [w \in Workloads |-> WorkloadStatus(seen.rows[w], user)]]

UsersWith(correlation, w, status) ==
    {u \in DOMAIN correlation : correlation[u][w] = status}
ActiveIn(correlation, n) ==
    {u \in DOMAIN correlation :
        Cardinality({w \in Workloads : correlation[u][w] = "ACTIVE"}) = n}

-----------------------------------------------------------------------------
(* Mutant: the licensed users are counted over the assignments. *)
LicensedByAssignments(seen) == Cardinality(seen.assigned)

LicensedUsers(seen) == Cardinality(seen.users \cap seen.assigned)

(* exchange_adoption and its like: rows of accounts that are not deleted.  *)
Adoption(rows) ==
    LET with(shapes) == Cardinality({r.key : r \in {x \in rows : x.shape \in shapes}})
    IN [active |-> with({"dated"}), inactive |-> with({"undated"}),
        applicable |-> with({"dated", "undated"})]

(* identity_join_quality of one table *)
IdentityJoin(users, rows) ==
    LET keys == {r.key : r \in rows}
    IN [matched |-> Cardinality(keys \cap Directory(users)),
        unmatched_directory |-> Cardinality(Directory(users) \ keys),
        unmatched_workload |-> Cardinality(keys \ Directory(users))]

StandardKpi(seen) ==
    LET correlation == CrossWorkload(seen)
        allIn(status) == {u \in seen.users : \A w \in Workloads : correlation[u][w] = status}
    IN [total |-> Cardinality(seen.users),
        licensed |-> LicensedUsers(seen),
        unlicensed |-> Cardinality(seen.users) - LicensedUsers(seen),
        status |-> [w \in Workloads |->
                       [s \in {"ACTIVE", "INACTIVE", "UNKNOWN"} |->
                           Cardinality(UsersWith(correlation, w, s))]],
        exactly |-> [n \in 1..3 |-> Cardinality(ActiveIn(correlation, n))],
        inactive_all |-> Cardinality(allIn("INACTIVE")),
        unknown_any |-> Cardinality({u \in seen.users :
                            \E w \in Workloads : correlation[u][w] = "UNKNOWN"}),
        adoption |-> Adoption(seen.rows["exchange"]),
        joins |-> [w \in Workloads |-> IdentityJoin(seen.users, seen.rows[w])]]

=============================================================================
