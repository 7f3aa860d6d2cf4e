---------------------------- MODULE RecordStore ----------------------------
(***************************************************************************)
(* The statements of the record writers, under runs that overlap.  A run   *)
(* fetches its source, and later stores what it fetched in one READ        *)
(* COMMITTED transaction; between the two, other runs of the same endpoint *)
(* fetch and commit.  One table is modelled at a time, in one of the modes *)
(* the writers know.                                                       *)
(***************************************************************************)
EXTENDS Integers, FiniteSets

CONSTANTS
    Runs,         \* runs of the endpoint
    Objects,      \* source objects of one tenant
    Contents,     \* what the source can say of an object
    Licenses,     \* Licenses[c]: SKUs assigned to a user of content c
    Unstated,     \* contents that leave the license property out
    KnownSkus,    \* rows of core.subscribed_sku
    Modes,        \* the modes to examine
    MaxChanges    \* bound: changes of the source

AllModes == {"current", "snapshot", "history", "event", "users", "usage"}

ASSUME ModesAssumption == Modes \subseteq AllModes
ASSUME UnstatedAssumption == Unstated \subseteq Contents
ASSUME MaxChangesAssumption == MaxChanges \in Nat

VARIABLES
    mode,        \* the mode of the table, fixed
    source,      \* source[o]: content and time of last change, or Absent
    clock,       \* counts the changes of the source
    pc,          \* pc[r]: "new", "fetched", "open", "committed", "failed"
    fetched,     \* fetched[r][o]: what the run read
    stamp,       \* stamp[r]: when it read it; of a usage report, its date
    doomed,      \* doomed[r]: rows its DELETE saw when the transaction began
    current,     \* current[o]: row of the current table, or Absent
    companion,   \* rows of the snapshot, history or event table
    assigned,    \* rows of core.user_license_assignment
    \* what follows is only observed
    last,        \* the run that committed last
    overlapped   \* runs that were not alone between fetch and commit

vars == <<mode, source, clock, pc, fetched, stamp, doomed, current, companion,
          assigned, last, overlapped>>

Absent == [content |-> "absent", modified |-> 0]
NoRow == [content |-> "absent", modified |-> 0, stamp |-> 0, by |-> "none"]
Nobody == "none"

Version == [content : Contents, modified : 0..MaxChanges]
CurrentRow == [content : Contents, modified : 0..MaxChanges,
               stamp : 0..MaxChanges, by : Runs]

(* What distinguishes one companion row of an object from another. *)
Identities(m) ==
    CASE m = "snapshot" -> Runs
      [] m = "history" -> [modified : 0..MaxChanges,
                           lifecycle : Contents \cup {"any"}]
      [] m = "usage" -> 0..MaxChanges
      [] OTHER -> {"event"}

TypeOK ==
    /\ mode \in Modes
    /\ source \in [Objects -> Version \cup {Absent}]
    /\ clock \in 0..MaxChanges
    /\ pc \in [Runs -> {"new", "fetched", "open", "committed", "failed"}]
    /\ fetched \in [Runs -> [Objects -> Version \cup {Absent}]]
    /\ stamp \in [Runs -> 0..MaxChanges]
    /\ doomed \in [Runs -> SUBSET (Objects \X Runs)]
    /\ current \in [Objects -> CurrentRow \cup {NoRow}]
    /\ companion \subseteq
          [key : [object : Objects, of : Identities(mode)], content : Contents]
    /\ assigned \subseteq [user : Objects, sku : KnownSkus, by : Runs]
    /\ last \in Runs \cup {Nobody}
    /\ overlapped \subseteq Runs

Init ==
    /\ mode \in Modes
    /\ source = [o \in Objects |-> Absent]
    /\ clock = 0
    /\ pc = [r \in Runs |-> "new"]
    /\ fetched = [r \in Runs |-> [o \in Objects |-> Absent]]
    /\ stamp = [r \in Runs |-> 0]
    /\ doomed = [r \in Runs |-> {}]
    /\ current = [o \in Objects |-> NoRow]
    /\ companion = {}
    /\ assigned = {}
    /\ last = Nobody
    /\ overlapped = {}

-----------------------------------------------------------------------------
Active == {r \in Runs : pc[r] \in {"fetched", "open"}}
Present(r) == {o \in Objects : fetched[r][o] # Absent}

(* The tenant changes: an object appears, changes or goes; the source may  *)
(* or may not date the change (lastModifiedDateTime).                      *)
Change(o) ==
    /\ clock < MaxChanges
    /\ clock' = clock + 1
    /\ \/ source' = [source EXCEPT ![o] = Absent]
       \/ \E c \in Contents, dated \in BOOLEAN :
             source' = [source EXCEPT ![o] =
                 [content |-> c, modified |-> IF dated THEN clock + 1 ELSE 0]]
    /\ UNCHANGED <<mode, pc, fetched, stamp, doomed, current, companion,
                   assigned, last, overlapped>>

Fetch(r) ==
    /\ pc[r] = "new"
    /\ pc' = [pc EXCEPT ![r] = "fetched"]
    /\ fetched' = [fetched EXCEPT ![r] = source]
    /\ stamp' = [stamp EXCEPT ![r] = clock]
    /\ overlapped' = IF Active = {} THEN overlapped
                     ELSE overlapped \cup Active \cup {r}
    /\ UNCHANGED <<mode, source, clock, doomed, current, companion, assigned,
                   last>>

(* Graph states the license property of every user or the set is not       *)
(* touched: users whose property is missing make it unavailable.           *)
LicensesAvailable(r) ==
    \A o \in Present(r) : fetched[r][o].content \notin Unstated

(* Mutant: the set is extended, never replaced. *)
SeenByNoDelete(r) == {}

(* write_report_rows and write_users_with_assignments begin with a DELETE, *)
(* which takes the committed rows it sees; an empty batch returns before.  *)
SeenByDelete(r) ==
    CASE mode = "usage" /\ Present(r) # {} ->
            {<<o, current[o].by>> :
                o \in {x \in Objects : current[x] # NoRow
                                       /\ current[x].stamp <= stamp[r]}}
      [] mode = "users" /\ Present(r) # {} /\ LicensesAvailable(r) ->
            {<<a.user, a.by>> : a \in assigned}
      [] OTHER -> {}

BeginTransaction(r) ==
    /\ pc[r] = "fetched"
    /\ pc' = [pc EXCEPT ![r] = "open"]
    /\ doomed' = [doomed EXCEPT ![r] = SeenByDelete(r)]
    /\ UNCHANGED <<mode, source, clock, fetched, stamp, current, companion,
                   assigned, last, overlapped>>

RowOf(r, o) ==
    [content |-> fetched[r][o].content, modified |-> fetched[r][o].modified,
     stamp |-> stamp[r], by |-> r]

(* write_current_record, and the current half of the snapshot and history  *)
(* writers: an upsert without a condition that could hold a row back (the  *)
(* columns compared by the history writer include the observation time).   *)
UpsertCurrent(r) ==
    [o \in Objects |-> IF o \in Present(r) THEN RowOf(r, o) ELSE current[o]]

(* Mutant: the upsert has lost its condition on the refresh date. *)
ReplaceUsageUnguarded(r) ==
    [o \in Objects |->
        IF o \in Present(r) THEN RowOf(r, o)
        ELSE IF <<o, current[o].by>> \in doomed[r] THEN NoRow
        ELSE current[o]]

(* write_report_rows: the upsert leaves a row of a later report alone.     *)
ReplaceUsage(r) ==
    LET kept == [o \in Objects |->
                    IF <<o, current[o].by>> \in doomed[r] THEN NoRow
                    ELSE current[o]]
    IN [o \in Objects |->
           IF /\ o \in Present(r)
              /\ kept[o] = NoRow \/ kept[o].stamp <= stamp[r]
           THEN RowOf(r, o) ELSE kept[o]]

(* compute_version_identity *)
VersionIdentity(v) ==
    IF v.modified # 0 THEN [modified |-> v.modified, lifecycle |-> "any"]
    ELSE [modified |-> 0, lifecycle |-> v.content]

(* Mutant: the snapshot's conflict target has lost the collection run. *)
CompanionKeyWithoutRun(r, o) ==
    [object |-> o,
     of |-> CASE mode = "history" -> VersionIdentity(fetched[r][o])
              [] mode = "usage" -> stamp[r]
              [] OTHER -> "event"]

CompanionKey(r, o) ==
    [object |-> o,
     of |-> CASE mode = "snapshot" -> r
              [] mode = "history" -> VersionIdentity(fetched[r][o])
              [] mode = "usage" -> stamp[r]
              [] OTHER -> "event"]

(* Mutant: ON CONFLICT DO UPDATE. *)
OverwriteCompanions(r) ==
    {c \in companion : \A o \in Present(r) : c.key # CompanionKey(r, o)}
        \cup {[key |-> CompanionKey(r, o), content |-> fetched[r][o].content] :
                 o \in Present(r)}

(* ON CONFLICT DO NOTHING: a row whose key is taken is not written. *)
AppendCompanions(r) ==
    companion \cup
        {[key |-> CompanionKey(r, o), content |-> fetched[r][o].content] :
            o \in {x \in Present(r) :
                      \A c \in companion : c.key # CompanionKey(r, x)}}

(* The licenses of the batch that join a known SKU. *)
Granted(r) ==
    {g \in Present(r) \X KnownSkus : g[2] \in Licenses[fetched[r][g[1]].content]}

(* write_users_with_assignments: what the DELETE saw goes, the licenses of *)
(* the batch that join a known SKU come, and take over an equal row.       *)
ReplaceLicenses(r) ==
    {a \in assigned : /\ <<a.user, a.by>> \notin doomed[r]
                      /\ <<a.user, a.sku>> \notin Granted(r)}
        \cup {[user |-> g[1], sku |-> g[2], by |-> r] : g \in Granted(r)}

Commit(r) ==
    /\ pc[r] = "open"
    /\ pc' = [pc EXCEPT ![r] = "committed"]
    /\ last' = r
    /\ current' = CASE mode = "event" -> current
                    [] mode = "usage" -> ReplaceUsage(r)
                    [] OTHER -> UpsertCurrent(r)
    /\ companion' = IF mode \in {"snapshot", "history", "event", "usage"}
                    THEN AppendCompanions(r) ELSE companion
    /\ assigned' = IF mode = "users" /\ LicensesAvailable(r)
                   THEN ReplaceLicenses(r) ELSE assigned
    /\ UNCHANGED <<mode, source, clock, fetched, stamp, doomed, overlapped>>

(* A statement fails, the process dies: the transaction is rolled back.    *)
Fail(r) ==
    /\ pc[r] \in {"fetched", "open"}
    /\ pc' = [pc EXCEPT ![r] = "failed"]
    /\ UNCHANGED <<mode, source, clock, fetched, stamp, doomed, current,
                   companion, assigned, last, overlapped>>

Next ==
    \/ \E o \in Objects : Change(o)
    \/ \E r \in Runs : Fetch(r) \/ BeginTransaction(r) \/ Commit(r) \/ Fail(r)

Spec == Init /\ [][Next]_vars

-----------------------------------------------------------------------------
(* Properties *)

(* Every current row of a table that has a companion can be traced: the    *)
(* run it names has a snapshot of it, its version is in the history, its   *)
(* report date is among the snapshots of its entity, whatever order        *)
(* overlapping runs committed in, and whichever run wrote the companion.   *)
(* Users and current-only records have none.                               *)
CurrentIsBacked ==
    \A o \in Objects :
        current[o] # NoRow =>
            CASE mode = "snapshot" ->
                    [key |-> [object |-> o, of |-> current[o].by],
                     content |-> current[o].content] \in companion
              [] mode = "history" ->
                    \E c \in companion :
                        c.key = [object |-> o,
                                 of |-> VersionIdentity(current[o])]
              [] mode = "usage" ->
                    \E c \in companion :
                        c.key = [object |-> o, of |-> current[o].stamp]
              [] OTHER -> TRUE

(* What a snapshot, history or event table holds stays as first written:   *)
(* no later run, however it overlaps, rewrites or removes evidence.        *)
EvidenceIsAppendOnly == [][companion \subseteq companion']_vars

(* Of the objects it fetched, a run that was alone from fetch to commit    *)
(* leaves the rows it saw; a usage report, and the licenses when Graph     *)
(* shows all of them, replace whatever else was there (write_report_rows,  *)
(* write_users_with_assignments).  Rows of objects it did not fetch stay   *)
(* in the other tables, and only an overlap can leave older data on top.   *)
AloneLeavesItsOwn ==
    (last # Nobody /\ last \notin overlapped) =>
        /\ mode # "event" =>
              \A o \in Present(last) :
                  /\ current[o].content = fetched[last][o].content
                  /\ current[o].by = last
        /\ (mode = "usage" /\ Present(last) # {}) =>
              \A o \in Objects \ Present(last) : current[o] = NoRow
        /\ (mode = "users" /\ Present(last) # {} /\ LicensesAvailable(last)) =>
              {<<a.user, a.sku>> : a \in assigned}
                  = {g \in Present(last) \X KnownSkus :
                        g[2] \in Licenses[fetched[last][g[1]].content]}

(* As long as an entity stays in the usage table, its report date never    *)
(* goes back, even when an older report is stored after a newer one.       *)
UsageNeverRegresses ==
    [][ \A o \in Objects :
           (mode = "usage" /\ current[o] # NoRow /\ current'[o] # NoRow)
               => current[o].stamp <= current'[o].stamp ]_vars

=============================================================================
