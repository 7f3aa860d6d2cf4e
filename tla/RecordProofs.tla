---------------------------- MODULE RecordProofs ----------------------------
(***************************************************************************)
(* Proofs about the rows of an endpoint.  First RecordStore, for any       *)
(* number of runs, objects, contents and changes of the source, and any    *)
(* licenses: every current row can be traced, evidence is never rewritten, *)
(* a report date never goes back, and only an overlap can leave older data *)
(* on top.  Then RecordPipeline, for any number of endpoints and records:  *)
(* a batch is stored whole or not at all, with the retention class of its  *)
(* own endpoint, and outside the known gaps no writer refuses it.          *)
(***************************************************************************)
EXTENDS RecordStore, RecordPipeline, TLAPS

-----------------------------------------------------------------------------
(* The inductive invariant *)

ShapeInv ==
    /\ mode \in AllModes
    /\ clock \in Nat
    /\ pc \in [Runs -> {"new", "fetched", "open", "committed", "failed"}]
    /\ fetched = [r \in Runs |-> fetched[r]]
    /\ stamp \in [Runs -> Nat]
    /\ doomed = [r \in Runs |-> doomed[r]]
    /\ current = [o \in Objects |-> current[o]]
    /\ last # Nobody => last \in Runs /\ pc[last] = "committed"

(* Runs that are under way together have both been noticed.  A run that    *)
(* nobody overlapped finds nothing newer than what it fetched itself.      *)
OverlapInv ==
    \A r, s \in Runs :
        r # s /\ r \in Active /\ r \notin overlapped =>
            /\ s \notin Active
            /\ pc[s] = "committed" => stamp[s] <= stamp[r]

StampInv == \A r \in Runs : stamp[r] <= clock

(* A current row has the stamp of the committed run it names.              *)
RowInv ==
    \A o \in Objects :
        current[o] # NoRow =>
            /\ current[o].by \in Runs
            /\ pc[current[o].by] = "committed"
            /\ current[o].stamp = stamp[current[o].by]

(* A run has one snapshot of an object, and none before it commits.        *)
SnapshotInv ==
    mode = "snapshot" =>
        \A c \in companion : \A r \in Runs :
            c.key.of = r => pc[r] = "committed"

(* What the DELETE of a usage report took came from runs that had          *)
(* committed a report no later than the one now being stored.              *)
DoomedInv ==
    \A r \in Runs :
        /\ pc[r] \in {"new", "fetched"} => doomed[r] = {}
        /\ mode = "usage" =>
              \A o \in Objects, s \in Runs :
                  <<o, s>> \in doomed[r] => pc[s] = "committed" /\ stamp[s] <= stamp[r]

(* The DELETE of a run that nobody overlaps takes every assignment.        *)
LicenseInv ==
    \A r \in Runs :
        /\ mode = "users" /\ pc[r] = "open" /\ r \notin overlapped
        /\ Present(r) # {} /\ LicensesAvailable(r)
        => \A a \in assigned : <<a.user, a.by>> \in doomed[r]

(* And of a usage report every row.                                        *)
UsageInv ==
    \A r \in Runs :
        /\ mode = "usage" /\ pc[r] = "open" /\ r \notin overlapped
        /\ Present(r) # {}
        => \A o \in Objects :
              current[o] # NoRow => <<o, current[o].by>> \in doomed[r]

Inv ==
    /\ ShapeInv /\ OverlapInv /\ StampInv /\ RowInv /\ SnapshotInv
    /\ DoomedInv /\ LicenseInv /\ UsageInv
    /\ CurrentIsBacked /\ AloneLeavesItsOwn

-----------------------------------------------------------------------------
LEMMA InitInv == Init => Inv
<1> SUFFICES ASSUME Init PROVE Inv
  OBVIOUS
<1>1. ShapeInv
  BY ModesAssumption DEF Init, ShapeInv
<1>2. OverlapInv /\ StampInv /\ RowInv /\ SnapshotInv /\ DoomedInv /\ LicenseInv
      /\ UsageInv
  BY DEF Init, OverlapInv, Active, StampInv, RowInv, SnapshotInv, DoomedInv, LicenseInv,
         UsageInv
<1>3. CurrentIsBacked /\ AloneLeavesItsOwn
  BY DEF Init, CurrentIsBacked, AloneLeavesItsOwn
<1> QED BY <1>1, <1>2, <1>3 DEF Inv

(* Both properties speak of the tables and of the run that committed last, *)
(* and survive whatever leaves these alone.                                *)
tables == <<mode, current, companion, assigned, last>>

LEMMA TablesUntouched ==
    ASSUME Inv, UNCHANGED tables, overlapped \subseteq overlapped',
           last # Nobody => fetched'[last] = fetched[last]
    PROVE  CurrentIsBacked' /\ AloneLeavesItsOwn'
<1>1. CurrentIsBacked'
  BY DEF Inv, tables, CurrentIsBacked, VersionIdentity
<1>2. AloneLeavesItsOwn'
  BY DEF Inv, tables, AloneLeavesItsOwn, Present, LicensesAvailable
<1> QED BY <1>1, <1>2

LEMMA ChangeInv == ASSUME Inv, NEW o \in Objects, Change(o) PROVE Inv'
<1>1. /\ clock' = clock + 1
      /\ UNCHANGED <<mode, pc, fetched, stamp, doomed, current, companion,
                     assigned, last, overlapped>>
  BY DEF Change
<1>2. ShapeInv' /\ StampInv'
  BY <1>1 DEF Inv, ShapeInv, StampInv
<1>3. OverlapInv' /\ RowInv' /\ SnapshotInv' /\ DoomedInv' /\ LicenseInv' /\ UsageInv'
  BY <1>1 DEF Inv, OverlapInv, Active, RowInv, SnapshotInv, DoomedInv, LicenseInv,
              UsageInv, Present, LicensesAvailable
<1>4. CurrentIsBacked' /\ AloneLeavesItsOwn'
  BY <1>1, TablesUntouched DEF tables
<1> QED BY <1>2, <1>3, <1>4 DEF Inv

(* What is committed was stamped before, and whoever is under way is noted. *)
LEMMA FetchInv == ASSUME Inv, NEW r \in Runs, Fetch(r) PROVE Inv'
<1>1. /\ pc[r] = "new" /\ pc' = [pc EXCEPT ![r] = "fetched"]
      /\ fetched' = [fetched EXCEPT ![r] = source]
      /\ stamp' = [stamp EXCEPT ![r] = clock]
      /\ UNCHANGED <<mode, clock, doomed, current, companion, assigned, last>>
  BY DEF Fetch
<1>2. /\ overlapped \subseteq overlapped'
      /\ Active # {} => Active \cup {r} \subseteq overlapped'
  BY DEF Fetch
<1>3. \A s \in Runs \ {r} : pc'[s] = pc[s] /\ stamp'[s] = stamp[s]
                             /\ fetched'[s] = fetched[s]
  BY <1>1 DEF Inv, ShapeInv
<1>4. pc'[r] = "fetched" /\ stamp'[r] = clock
  BY <1>1 DEF Inv, ShapeInv
<1>5. ShapeInv' /\ StampInv'
  BY <1>1, <1>3, <1>4 DEF Inv, ShapeInv, StampInv
<1>6. OverlapInv'
  BY <1>1, <1>2, <1>3, <1>4 DEF Inv, ShapeInv, StampInv, OverlapInv, Active
<1>7. RowInv' /\ SnapshotInv'
  BY <1>1, <1>3 DEF Inv, RowInv, SnapshotInv
<1>8. DoomedInv'
  BY <1>1, <1>3 DEF Inv, DoomedInv
<1>9. LicenseInv' /\ UsageInv'
  BY <1>1, <1>2, <1>3, <1>4 DEF Inv, LicenseInv, UsageInv, Present, LicensesAvailable
<1>10. CurrentIsBacked' /\ AloneLeavesItsOwn'
  <2>1. last # Nobody => fetched'[last] = fetched[last]
    BY <1>1, <1>3 DEF Inv, ShapeInv
  <2> QED BY <1>1, <1>2, <2>1, TablesUntouched DEF tables
<1> QED BY <1>5, <1>6, <1>7, <1>8, <1>9, <1>10 DEF Inv

LEMMA BeginTransactionInv ==
    ASSUME Inv, NEW r \in Runs, BeginTransaction(r) PROVE Inv'
<1>1. /\ pc[r] = "fetched" /\ pc' = [pc EXCEPT ![r] = "open"]
      /\ doomed' = [doomed EXCEPT ![r] = SeenByDelete(r)]
      /\ UNCHANGED <<mode, clock, fetched, stamp, current, companion, assigned,
                     last, overlapped>>
  BY DEF BeginTransaction
<1>2. \A s \in Runs \ {r} : pc'[s] = pc[s] /\ doomed'[s] = doomed[s]
  BY <1>1 DEF Inv, ShapeInv
<1>3. pc'[r] = "open" /\ doomed'[r] = SeenByDelete(r)
  BY <1>1 DEF Inv, ShapeInv
<1>4. ShapeInv' /\ StampInv'
  BY <1>1, <1>2, <1>3 DEF Inv, ShapeInv, StampInv
<1>5. OverlapInv'
  BY <1>1, <1>2, <1>3 DEF Inv, OverlapInv, Active
<1>6. RowInv' /\ SnapshotInv'
  BY <1>1, <1>2 DEF Inv, RowInv, SnapshotInv
<1>7. DoomedInv'
  <2>1. ASSUME mode = "usage", NEW o \in Objects, NEW s \in Runs,
               <<o, s>> \in SeenByDelete(r)
        PROVE  pc[s] = "committed" /\ stamp[s] <= stamp[r]
    <3>1. /\ current[o] # NoRow /\ current[o].by = s
          /\ current[o].stamp <= stamp[r]
      BY <2>1 DEF SeenByDelete
    <3> QED BY <3>1 DEF Inv, RowInv
  <2> QED BY <1>1, <1>2, <1>3, <2>1 DEF Inv, DoomedInv
<1>8. LicenseInv'
  <2>1. mode = "users" /\ Present(r) # {} /\ LicensesAvailable(r) =>
            \A a \in assigned : <<a.user, a.by>> \in SeenByDelete(r)
    BY DEF SeenByDelete
  <2> QED BY <1>1, <1>2, <1>3, <2>1 DEF Inv, LicenseInv, Present, LicensesAvailable
<1>9. UsageInv'
  <2>1. ASSUME mode = "usage", r \notin overlapped, Present(r) # {},
               NEW o \in Objects, current[o] # NoRow
        PROVE  <<o, current[o].by>> \in SeenByDelete(r)
    <3>1. /\ current[o].by \in Runs /\ pc[current[o].by] = "committed"
          /\ current[o].stamp = stamp[current[o].by]
      BY <2>1 DEF Inv, RowInv
    <3>2. current[o].stamp <= stamp[r]
      BY <1>1, <2>1, <3>1 DEF Inv, OverlapInv, Active
    <3> QED BY <2>1, <3>2 DEF SeenByDelete
  <2>2. ASSUME NEW s \in Runs, mode = "usage", pc'[s] = "open", s \notin overlapped,
               Present(s) # {}, NEW o \in Objects, current[o] # NoRow
        PROVE  <<o, current[o].by>> \in doomed'[s]
    <3>1. CASE s = r
      BY <1>3, <2>1, <2>2, <3>1
    <3>2. CASE s # r
      BY <1>2, <2>2, <3>2 DEF Inv, UsageInv
    <3> QED BY <3>1, <3>2
  <2>3. \A s \in Runs : Present(s)' = Present(s)
    BY <1>1 DEF Present
  <2> QED BY <1>1, <2>2, <2>3 DEF UsageInv
<1>10. CurrentIsBacked' /\ AloneLeavesItsOwn'
  BY <1>1, TablesUntouched DEF tables
<1> QED BY <1>4, <1>5, <1>6, <1>7, <1>8, <1>9, <1>10 DEF Inv

LEMMA FailInv == ASSUME Inv, NEW r \in Runs, Fail(r) PROVE Inv'
<1>1. /\ pc[r] \in {"fetched", "open"} /\ pc' = [pc EXCEPT ![r] = "failed"]
      /\ UNCHANGED <<mode, clock, fetched, stamp, doomed, current, companion,
                     assigned, last, overlapped>>
  BY DEF Fail
<1>2. (\A s \in Runs \ {r} : pc'[s] = pc[s]) /\ pc'[r] = "failed"
  BY <1>1 DEF Inv, ShapeInv
<1>3. ShapeInv' /\ StampInv'
  BY <1>1, <1>2 DEF Inv, ShapeInv, StampInv
<1>4. OverlapInv'
  BY <1>1, <1>2 DEF Inv, OverlapInv, Active
<1>5. RowInv' /\ SnapshotInv' /\ DoomedInv'
  BY <1>1, <1>2 DEF Inv, RowInv, SnapshotInv, DoomedInv
<1>6. LicenseInv' /\ UsageInv'
  BY <1>1, <1>2 DEF Inv, LicenseInv, UsageInv, Present, LicensesAvailable
<1>7. CurrentIsBacked' /\ AloneLeavesItsOwn'
  BY <1>1, TablesUntouched DEF tables
<1> QED BY <1>3, <1>4, <1>5, <1>6, <1>7 DEF Inv

-----------------------------------------------------------------------------
(* The statements of a commit *)

(* A current row is the run's own, the one before, or gone.                *)
LEMMA CurrentAfterCommit ==
    ASSUME Inv, NEW r \in Runs, Commit(r), NEW o \in Objects
    PROVE  /\ current'[o] \in {RowOf(r, o), current[o], NoRow}
           /\ mode \notin {"event", "usage"} =>
                 current'[o] = IF o \in Present(r) THEN RowOf(r, o) ELSE current[o]
<1>1. /\ mode = "event" => current' = current
      /\ mode = "usage" => current' = ReplaceUsage(r)
      /\ mode \notin {"event", "usage"} => current' = UpsertCurrent(r)
  BY DEF Commit
<1>2. CASE mode = "event"
  BY <1>1, <1>2
<1>3. CASE mode = "usage"
  BY <1>1, <1>3 DEF ReplaceUsage
<1>4. CASE mode \notin {"event", "usage"}
  BY <1>1, <1>4 DEF UpsertCurrent
<1> QED BY <1>2, <1>3, <1>4

(* A usage row that is already there keeps its place unless the report     *)
(* stored is at least as late, or its DELETE took the row.                 *)
LEMMA UsageAfterCommit ==
    ASSUME Inv, NEW r \in Runs, Commit(r), NEW o \in Objects, mode = "usage"
    PROVE  \/ /\ o \in Present(r)
              /\ current'[o] = RowOf(r, o)
              /\ current[o] = NoRow \/ current[o].stamp <= stamp[r]
           \/ /\ current'[o] = current[o]
              /\ o \in Present(r) => current[o] # NoRow /\ ~(current[o].stamp <= stamp[r])
           \/ current'[o] = NoRow /\ o \notin Present(r)
<1>1. current' = ReplaceUsage(r)
  BY DEF Commit
<1>2. CASE <<o, current[o].by>> \in doomed[r] /\ current[o] # NoRow
  <2>1. current[o].stamp <= stamp[r]
    BY <1>2 DEF Inv, RowInv, DoomedInv
  <2> QED BY <1>1, <1>2, <2>1 DEF ReplaceUsage
<1>3. CASE current[o] = NoRow
  BY <1>1, <1>3 DEF ReplaceUsage
<1>4. CASE <<o, current[o].by>> \notin doomed[r] /\ current[o] # NoRow
  BY <1>1, <1>4 DEF ReplaceUsage
<1> QED BY <1>2, <1>3, <1>4

(* Whatever the mode, the companions after a commit hold those before it,  *)
(* and in the modes that keep them a row for every object stored.          *)
LEMMA CompanionsAfterCommit ==
    ASSUME NEW r \in Runs, Commit(r)
    PROVE  /\ companion \subseteq companion'
           /\ mode \in {"snapshot", "history", "event", "usage"} =>
                 \A o \in Present(r) : \E c \in companion' : c.key = CompanionKey(r, o)
           /\ \A c \in companion' \ companion :
                 \E o \in Present(r) : c.key = CompanionKey(r, o)
<1>1. companion' = IF mode \in {"snapshot", "history", "event", "usage"}
                   THEN AppendCompanions(r) ELSE companion
  BY DEF Commit
<1>2. CASE mode \in {"snapshot", "history", "event", "usage"}
  <2>1. companion' = AppendCompanions(r)
    BY <1>1, <1>2
  <2>2. ASSUME NEW o \in Present(r)
        PROVE  \E c \in AppendCompanions(r) : c.key = CompanionKey(r, o)
    <3> DEFINE new == [key |-> CompanionKey(r, o), content |-> fetched[r][o].content]
    <3>1. CASE \A c \in companion : c.key # CompanionKey(r, o)
      <4>1. new \in AppendCompanions(r)
        BY <3>1 DEF AppendCompanions
      <4> QED BY <4>1
    <3>2. CASE \E c \in companion : c.key = CompanionKey(r, o)
      BY <3>2 DEF AppendCompanions
    <3> QED BY <3>1, <3>2
  <2>3. \A c \in AppendCompanions(r) \ companion :
           \E o \in Present(r) : c.key = CompanionKey(r, o)
    BY DEF AppendCompanions
  <2>4. companion \subseteq AppendCompanions(r)
    BY DEF AppendCompanions
  <2> QED BY <2>1, <2>2, <2>3, <2>4
<1>3. CASE mode \notin {"snapshot", "history", "event", "usage"}
  BY <1>1, <1>3
<1> QED BY <1>2, <1>3

LEMMA BackedAfterCommit ==
    ASSUME Inv, NEW r \in Runs, Commit(r)
    PROVE  CurrentIsBacked'
<1>1. pc[r] = "open" /\ UNCHANGED <<mode, fetched, stamp>>
  BY DEF Commit
<1>2. ASSUME NEW o \in Objects, current'[o] # NoRow, mode = "snapshot"
      PROVE  [key |-> [object |-> o, of |-> current'[o].by],
              content |-> current'[o].content] \in companion'
  <2>1. CASE o \in Present(r)
    <3> DEFINE row == [key |-> [object |-> o, of |-> r],
                       content |-> fetched[r][o].content]
    <3>1. current'[o] = RowOf(r, o)
      BY <1>2, <2>1, CurrentAfterCommit
    <3>2. current'[o].by = r /\ current'[o].content = fetched[r][o].content
      BY <3>1 DEF RowOf
    <3>3. CompanionKey(r, o) = [object |-> o, of |-> r]
      BY <1>2 DEF CompanionKey
    <3>4. \A c \in companion : c.key # CompanionKey(r, o)
      BY <1>1, <1>2, <3>3 DEF Inv, SnapshotInv
    <3>5. row \in AppendCompanions(r)
      BY <2>1, <3>3, <3>4 DEF AppendCompanions
    <3>6. companion' = AppendCompanions(r)
      BY <1>2 DEF Commit
    <3> QED BY <3>2, <3>5, <3>6
  <2>2. CASE o \notin Present(r)
    <3>1. current'[o] = current[o]
      BY <1>2, <2>2, CurrentAfterCommit
    <3> QED BY <1>2, <3>1, CompanionsAfterCommit DEF Inv, CurrentIsBacked
  <2> QED BY <2>1, <2>2
<1>3. ASSUME NEW o \in Objects, current'[o] # NoRow, mode = "history"
      PROVE  \E c \in companion' :
                c.key = [object |-> o, of |-> VersionIdentity(current'[o])]
  <2>1. CASE o \in Present(r)
    <3>1. current'[o] = RowOf(r, o)
      BY <1>3, <2>1, CurrentAfterCommit
    <3>2. VersionIdentity(current'[o]) = VersionIdentity(fetched[r][o])
      BY <3>1 DEF RowOf, VersionIdentity
    <3>3. CompanionKey(r, o) = [object |-> o, of |-> VersionIdentity(current'[o])]
      BY <1>3, <3>2 DEF CompanionKey
    <3> QED BY <1>3, <2>1, <3>3, CompanionsAfterCommit
  <2>2. CASE o \notin Present(r)
    <3>1. current'[o] = current[o]
      BY <1>3, <2>2, CurrentAfterCommit
    <3> QED BY <1>3, <3>1, CompanionsAfterCommit DEF Inv, CurrentIsBacked
  <2> QED BY <2>1, <2>2
<1>4. ASSUME NEW o \in Objects, current'[o] # NoRow, mode = "usage"
      PROVE  \E c \in companion' : c.key = [object |-> o, of |-> current'[o].stamp]
  <2>1. CASE o \in Present(r) /\ current'[o] = RowOf(r, o)
    <3>1. CompanionKey(r, o) = [object |-> o, of |-> current'[o].stamp]
      BY <1>4, <2>1 DEF CompanionKey, RowOf
    <3> QED BY <1>4, <2>1, <3>1, CompanionsAfterCommit
  <2>2. CASE current'[o] = current[o]
    BY <1>4, <2>2, CompanionsAfterCommit DEF Inv, CurrentIsBacked
  <2> QED BY <1>4, <2>1, <2>2, UsageAfterCommit
<1> QED BY <1>1, <1>2, <1>3, <1>4 DEF CurrentIsBacked

LEMMA AloneAfterCommit ==
    ASSUME Inv, NEW r \in Runs, Commit(r)
    PROVE  AloneLeavesItsOwn'
<1>1. /\ pc[r] = "open" /\ last' = r
      /\ UNCHANGED <<mode, fetched, stamp, overlapped>>
  BY DEF Commit
<1> SUFFICES ASSUME r \notin overlapped
             PROVE  AloneLeavesItsOwn'
  BY <1>1 DEF AloneLeavesItsOwn
<1>2. ASSUME mode # "event", NEW o \in Present(r)
      PROVE  current'[o] = RowOf(r, o)
  <2>1. o \in Objects
    BY DEF Present
  <2>2. CASE mode # "usage"
    BY <1>2, <2>1, <2>2, CurrentAfterCommit
  <2>3. CASE mode = "usage"
    <3>1. ASSUME current[o] # NoRow PROVE current[o].stamp <= stamp[r]
      <4>1. /\ current[o].by \in Runs /\ pc[current[o].by] = "committed"
            /\ current[o].stamp = stamp[current[o].by]
        BY <2>1, <3>1 DEF Inv, RowInv
      <4> QED BY <1>1, <4>1 DEF Inv, OverlapInv, Active
    <3>2. current'[o] # current[o] \/ current[o] = NoRow => current'[o] = RowOf(r, o)
      BY <2>1, <2>3, <3>1, UsageAfterCommit
    <3> QED BY <2>1, <2>3, <3>1, <3>2, UsageAfterCommit
  <2> QED BY <2>2, <2>3
<1>3. ASSUME mode = "users", Present(r) # {}, LicensesAvailable(r)
      PROVE  {<<a.user, a.sku>> : a \in assigned'} = Granted(r)
  <2>1. \A a \in assigned : <<a.user, a.by>> \in doomed[r]
    BY <1>1, <1>3 DEF Inv, LicenseInv
  <2>2. assigned' = {[user |-> g[1], sku |-> g[2], by |-> r] : g \in Granted(r)}
    <3>1. assigned' = ReplaceLicenses(r)
      BY <1>3 DEF Commit
    <3> QED BY <2>1, <3>1 DEF ReplaceLicenses
  <2>3. \A g \in Granted(r) : g = <<g[1], g[2]>>
    BY DEF Granted
  <2>4. \A g \in Granted(r) : <<g[1], g[2]>> \in {<<a.user, a.sku>> : a \in assigned'}
    <3> SUFFICES ASSUME NEW g \in Granted(r)
                 PROVE  \E a \in assigned' : <<g[1], g[2]>> = <<a.user, a.sku>>
      OBVIOUS
    <3>1. [user |-> g[1], sku |-> g[2], by |-> r] \in assigned'
      BY <2>2
    <3> QED BY <3>1
  <2>5. \A a \in assigned' : <<a.user, a.sku>> \in Granted(r)
    <3> SUFFICES ASSUME NEW a \in assigned' PROVE <<a.user, a.sku>> \in Granted(r)
      OBVIOUS
    <3>1. PICK g \in Granted(r) : a = [user |-> g[1], sku |-> g[2], by |-> r]
      BY <2>2
    <3> QED BY <2>3, <3>1
  <2> QED BY <2>3, <2>4, <2>5
<1>4. Present(r)' = Present(r) /\ LicensesAvailable(r)' = LicensesAvailable(r)
  BY <1>1 DEF Present, LicensesAvailable
<1>5. ASSUME mode # "event", NEW o \in Present(r)
      PROVE  current'[o].content = fetched[r][o].content /\ current'[o].by = r
  <2>1. current'[o] = RowOf(r, o)
    BY <1>2, <1>5
  <2> QED BY <2>1 DEF RowOf
<1>6. ASSUME mode = "usage", Present(r) # {}, NEW o \in Objects \ Present(r)
      PROVE  current'[o] = NoRow
  <2>1. current[o] # NoRow => <<o, current[o].by>> \in doomed[r]
    BY <1>1, <1>6 DEF Inv, UsageInv
  <2>2. current' = ReplaceUsage(r)
    BY <1>6 DEF Commit
  <2> QED BY <1>6, <2>1, <2>2 DEF ReplaceUsage
<1> QED BY <1>1, <1>3, <1>4, <1>5, <1>6 DEF AloneLeavesItsOwn, Granted

LEMMA CommitInv == ASSUME Inv, NEW r \in Runs, Commit(r) PROVE Inv'
<1>1. /\ pc[r] = "open" /\ pc' = [pc EXCEPT ![r] = "committed"] /\ last' = r
      /\ UNCHANGED <<mode, clock, fetched, stamp, doomed, overlapped>>
  BY DEF Commit
<1>2. (\A s \in Runs \ {r} : pc'[s] = pc[s]) /\ pc'[r] = "committed"
  BY <1>1 DEF Inv, ShapeInv
<1>3. ShapeInv' /\ StampInv'
  <2>1. current' = [o \in Objects |-> current'[o]]
    BY DEF Commit, ReplaceUsage, UpsertCurrent, Inv, ShapeInv
  <2> QED BY <1>1, <1>2, <2>1 DEF Inv, ShapeInv, StampInv
<1>4. OverlapInv'
  BY <1>1, <1>2 DEF Inv, OverlapInv, Active
<1>5. RowInv'
  <2> SUFFICES ASSUME NEW o \in Objects, current'[o] # NoRow
               PROVE  /\ current'[o].by \in Runs
                      /\ pc'[current'[o].by] = "committed"
                      /\ current'[o].stamp = stamp[current'[o].by]
    BY <1>1 DEF RowInv
  <2>1. CASE current'[o] = RowOf(r, o)
    BY <1>2, <2>1 DEF RowOf
  <2>2. CASE current'[o] = current[o]
    BY <1>1, <1>2, <2>2 DEF Inv, RowInv
  <2> QED BY <2>1, <2>2, CurrentAfterCommit
<1>6. SnapshotInv'
  <2> SUFFICES ASSUME mode = "snapshot", NEW c \in companion', NEW s \in Runs,
                      c.key.of = s
               PROVE  pc'[s] = "committed"
    BY <1>1 DEF SnapshotInv
  <2>1. CASE c \in companion
    BY <1>2, <2>1 DEF Inv, SnapshotInv
  <2>2. CASE c \notin companion
    <3>1. PICK o \in Present(r) : c.key = CompanionKey(r, o)
      BY <2>2, CompanionsAfterCommit
    <3>2. c.key.of = r
      BY <3>1 DEF CompanionKey
    <3> QED BY <1>2, <3>2
  <2> QED BY <2>1, <2>2
<1>7. DoomedInv'
  BY <1>1, <1>2 DEF Inv, DoomedInv
<1>8. LicenseInv' /\ UsageInv'
  <2>1. ASSUME NEW s \in Runs, pc'[s] = "open", s \notin overlapped PROVE FALSE
    BY <1>1, <1>2, <2>1 DEF Inv, OverlapInv, Active
  <2> QED BY <1>1, <2>1 DEF LicenseInv, UsageInv
<1> QED BY <1>3, <1>4, <1>5, <1>6, <1>7, <1>8, BackedAfterCommit, AloneAfterCommit
     DEF Inv

LEMMA StutterInv == ASSUME Inv, UNCHANGED vars PROVE Inv'
<1>1. ShapeInv' /\ OverlapInv' /\ StampInv' /\ RowInv' /\ SnapshotInv' /\ DoomedInv'
  BY DEF Inv, vars, ShapeInv, OverlapInv, Active, StampInv, RowInv, SnapshotInv, DoomedInv
<1>2. LicenseInv' /\ UsageInv'
  BY DEF Inv, vars, LicenseInv, UsageInv, Present, LicensesAvailable
<1>3. CurrentIsBacked' /\ AloneLeavesItsOwn'
  BY TablesUntouched DEF vars, tables
<1> QED BY <1>1, <1>2, <1>3 DEF Inv

(* Every reachable state satisfies the invariant the results rest on.      *)
THEOREM Invariance == Spec => []Inv
<1>1. Inv /\ [Next]_vars => Inv'
  <2> SUFFICES ASSUME Inv, [Next]_vars PROVE Inv'
    OBVIOUS
  <2>1. ASSUME NEW o \in Objects, Change(o) PROVE Inv'
    BY <2>1, ChangeInv
  <2>2. ASSUME NEW r \in Runs, Fetch(r) PROVE Inv'
    BY <2>2, FetchInv
  <2>3. ASSUME NEW r \in Runs, BeginTransaction(r) PROVE Inv'
    BY <2>3, BeginTransactionInv
  <2>4. ASSUME NEW r \in Runs, Commit(r) PROVE Inv'
    BY <2>4, CommitInv
  <2>5. ASSUME NEW r \in Runs, Fail(r) PROVE Inv'
    BY <2>5, FailInv
  <2>6. ASSUME UNCHANGED vars PROVE Inv'
    BY <2>6, StutterInv
  <2> QED BY <2>1, <2>2, <2>3, <2>4, <2>5, <2>6 DEF Next
<1> QED BY InitInv, <1>1, PTL DEF Spec

-----------------------------------------------------------------------------
(* Results *)

(* Whatever order overlapping runs commit in, a current row written with a *)
(* snapshot, a version or a dated snapshot has such a row of its object in *)
(* the companion table: its own run's snapshot, or a version or dated      *)
(* snapshot of the same identity that some run committed                   *)
(* (src/collectors/persistence/core.py).  Nothing is said of users and of  *)
(* current-only and event records, which have no companion or no current   *)
(* row.                                                                    *)
THEOREM RowsAreTraced == Spec => []CurrentIsBacked
<1>1. Inv => CurrentIsBacked
  BY DEF Inv
<1> QED BY Invariance, <1>1, PTL

(* After the commit of a run that no other overlapped, every object it     *)
(* fetched has the row it fetched; a usage table holds no other row, and   *)
(* the license table holds the licenses it fetched if it could replace     *)
(* them.  Rows of objects it did not fetch stay in the other tables        *)
(* (write_report_rows, write_users_with_assignments).                      *)
THEOREM NoOverlapNoLoss == Spec => []AloneLeavesItsOwn
<1>1. Inv => AloneLeavesItsOwn
  BY DEF Inv
<1> QED BY Invariance, <1>1, PTL

(* ON CONFLICT DO NOTHING: no step of any run removes or rewrites a row of *)
(* a snapshot, history or event table.                                     *)
THEOREM EvidenceStays == Spec => EvidenceIsAppendOnly
<1>1. [Next]_vars => [companion \subseteq companion']_vars
  <2> SUFFICES ASSUME Next PROVE companion \subseteq companion'
    BY DEF vars
  <2>1. ASSUME NEW r \in Runs, Commit(r) PROVE companion \subseteq companion'
    BY <2>1, CompanionsAfterCommit
  <2> QED BY <2>1 DEF Next, Change, Fetch, BeginTransaction, Fail
<1> QED BY <1>1, PTL DEF Spec, EvidenceIsAppendOnly

(* The guarded upsert and the dated DELETE of write_report_rows together:  *)
(* the refresh date of an entity that stays in the table never goes back.  *)
THEOREM ReportDatesAdvance == Spec => UsageNeverRegresses
<1> DEFINE Advance == \A o \in Objects :
                         (mode = "usage" /\ current[o] # NoRow /\ current'[o] # NoRow)
                             => current[o].stamp <= current'[o].stamp
<1>1. Inv /\ [Next]_vars => [Advance]_vars
  <2> SUFFICES ASSUME Inv, Next, NEW o \in Objects, mode = "usage",
                      current[o] # NoRow, current'[o] # NoRow
               PROVE  current[o].stamp <= current'[o].stamp
    BY DEF vars
  <2>1. current[o].stamp \in Nat
    BY DEF Inv, RowInv, ShapeInv
  <2>2. ASSUME NEW r \in Runs, Commit(r)
        PROVE  current[o].stamp <= current'[o].stamp
    <3>1. CASE current'[o] = RowOf(r, o) /\ current[o].stamp <= stamp[r]
      BY <3>1 DEF RowOf
    <3>2. CASE current'[o] = current[o]
      BY <2>1, <3>2
    <3> QED BY <2>2, <3>1, <3>2, UsageAfterCommit
  <2>3. CASE current' = current
    BY <2>1, <2>3
  <2> QED BY <2>2, <2>3 DEF Next, Change, Fetch, BeginTransaction, Fail
<1> QED BY Invariance, <1>1, PTL DEF Spec, UsageNeverRegresses

-----------------------------------------------------------------------------
(* RecordPipeline, how the rows of one run come about: for any number of   *)
(* endpoints, records and rows of reports.                                 *)

Entries == [endpoint : Endpoints \cup Reports,
            records : Seq(Shapes \cup ReportShapes), result : Results]

(* An endpoint under way is the last of the log.  What is not a usage      *)
(* report went through the registry, which completed its lineage.          *)
StageInv ==
    /\ stage \in {"collecting", "normalizing", "parsing", "writing"}
    /\ log \in Seq(Entries)
    /\ normalized \in Nat
    /\ stage # "collecting" =>
          /\ Len(log) > 0 /\ log[Len(log)].result = "running"
          /\ normalized <= Len(log[Len(log)].records)
    /\ stage = "parsing" => log[Len(log)].endpoint \in AllReports
    /\ stage = "writing" => normalized = Len(log[Len(log)].records)

LineageInv ==
    stage # "collecting" /\ Endpoint \notin AllReports =>
        /\ retention = Registered(Endpoint)
        /\ \A i \in 1..normalized : Adapts(Endpoint, Records[i])

(* All rows of the batch, written or still to be written.                  *)
RowsOfBatch ==
    {Row(p, Kinds(Endpoint)[k]) : p \in DOMAIN Records, k \in DOMAIN Kinds(Endpoint)}

WritingInv ==
    stage = "writing" =>
        /\ pending \in Seq(RowsOfBatch)
        /\ transaction \cup {pending[i] : i \in 1..Len(pending)} = RowsOfBatch

(* Rows are stored of endpoints that passed, and of no other.              *)
StoredInv ==
    \A row \in stored : row.batch \in 1..Len(log) /\ log[row.batch].result = "PASS"

PipelineInv ==
    /\ StageInv /\ LineageInv /\ WritingInv /\ StoredInv
    /\ BatchIsAtomic /\ RetentionIsRegistered /\ ContractKept

(* Endpoints by the table of the writer that knows them. *)
TableIds == {"G01-004", "G01-011", "G01-013", "G01-015", "G01-019"}

CurrentIds == {"G01-001", "G01-002", "G01-003", "G01-007", "G01-008", "G01-009",
               "G01-010", "G01-012", "G01-020", "G01-018"}

-----------------------------------------------------------------------------
(* The tables of adapters and writers, which the source keeps apart *)

LEMMA CurrentDomain ==
    /\ DOMAIN CurrentTables = CurrentIds
    /\ \A e \in {"G01-001", "G01-002", "G01-003", "G01-007"} :
          CurrentTables[e] = CurrentDirectoryColumns[e]
    /\ \A e \in {"G01-008", "G01-009", "G01-010", "G01-012", "G01-020"} :
          CurrentTables[e] = CurrentObjectColumns[e]
    /\ CurrentTables["G01-018"] = ReferenceColumns["G01-018"]
<1>1. /\ DOMAIN CurrentDirectoryColumns = {"G01-001", "G01-002", "G01-003", "G01-007"}
      /\ DOMAIN CurrentObjectColumns
            = {"G01-008", "G01-009", "G01-010", "G01-012", "G01-020"}
      /\ DOMAIN ReferenceColumns = {"G01-018"}
    BY DEF CurrentDirectoryColumns, CurrentObjectColumns, ReferenceColumns,
           ReferenceIds
<1> QED  BY <1>1 DEF CurrentTables, CurrentIds

LEMMA KindsOfEndpoint ==
    ASSUME NEW e
    PROVE  /\ e \in CurrentIds => RowKinds(e) = <<"current">>
           /\ e \in EventIds => RowKinds(e) = <<"event">>
           /\ e \in HistoryIds => RowKinds(e) = <<"current", "history">>
           /\ e \in TableIds => RowKinds(e) = <<"current", "snapshot">>
BY DEF RowKinds, PersistenceMode, SnapshotIds, HistoryIds, EventIds,
       ReferenceIds, CurrentIds, TableIds

LEMMA RequiredOfEndpoint ==
    ASSUME NEW e, NEW k
    PROVE  /\ e \in CurrentIds => Required(e, k) = CurrentTables[e]
           /\ e \in EventIds => Required(e, k) = EventColumns[e]
<1>1. DOMAIN SnapshotCurrentColumns = TableIds
    BY DEF SnapshotCurrentColumns, TableIds
<1> QED  BY CurrentDomain, <1>1 DEF Required, CurrentIds, EventIds,
                                    HistoryIds, TableIds

LEMMA RequiredOfTables ==
    ASSUME NEW e \in TableIds
    PROVE  /\ Required(e, "current") = Current(SnapshotCurrentColumns[e])
           /\ Required(e, "snapshot") = Versioned({"snapshot_at"} \cup SnapshotColumns(e))
<1>1. DOMAIN SnapshotCurrentColumns = TableIds
    BY DEF SnapshotCurrentColumns, TableIds
<1> QED  BY CurrentDomain, <1>1 DEF Required, CurrentIds, EventIds,
                                    HistoryIds, TableIds

LEMMA RequiredOfHistory ==
    ASSUME NEW e \in HistoryIds
    PROVE  /\ Required(e, "current") = Current(HistoryTable[e])
           /\ Required(e, "history")
                 = Versioned({"version_identity", "observed_at", "collected_at"}
                                 \cup HistoryTable[e])
<1>1. DOMAIN SnapshotCurrentColumns = TableIds
    BY DEF SnapshotCurrentColumns, TableIds
<1> QED  BY CurrentDomain, <1>1 DEF Required, CurrentIds, EventIds,
                                    HistoryIds, TableIds

(* Every column a writer requires is one the adapter produces, by adapter  *)
(* family and table.                                                       *)
LEMMA DirectoryAccepted ==
    ASSUME NEW e \in DirectoryIds \cap CurrentIds
    PROVE  CurrentTables[e] \subseteq DirectoryColumns(e, "current")
<1> USE CurrentDomain DEF DirectoryColumns, DirectoryIds, DirectoryRow,
                          Current, Keyed, LineageColumns
<1>1. CASE e = "G01-001"
    BY <1>1 DEF CurrentDirectoryColumns, UsersRow
<1>2. CASE e = "G01-002"
    BY <1>2 DEF CurrentDirectoryColumns, GroupsRow
<1>3. CASE e = "G01-003"
    BY <1>3 DEF CurrentDirectoryColumns, OrganizationRow
<1>7. CASE e = "G01-007"
    BY <1>7 DEF CurrentDirectoryColumns, ApplicationsRow
<1>8. CASE e = "G01-008"
    BY <1>8 DEF CurrentObjectColumns, ServicePrincipalsRow
<1>9. CASE e = "G01-009"
    BY <1>9 DEF CurrentObjectColumns, DevicesRow
<1>10. CASE e = "G01-010"
    BY <1>10 DEF CurrentObjectColumns, AdministrativeUnitsRow
<1>18. CASE e = "G01-018"
    BY <1>18 DEF ReferenceColumns, ReferenceIds, RoleDefinitionsRow
<1> QED  BY <1>1, <1>2, <1>3, <1>7, <1>8, <1>9, <1>10, <1>18 DEF CurrentIds

LEMMA DirectorySnapshotsAccepted ==
    ASSUME NEW e \in {"G01-004", "G01-019"}
    PROVE  /\ Current(SnapshotCurrentColumns[e]) \subseteq DirectoryColumns(e, "current")
           /\ Versioned({"snapshot_at"} \cup SnapshotColumns(e))
                  \subseteq DirectoryColumns(e, "snapshot")
<1> USE DEF DirectoryColumns, DirectoryIds, DirectoryRow,
            SnapshotCurrentColumns, SnapshotColumns,
            Current, Versioned, Keyed, LineageColumns
<1>1. CASE e = "G01-004"
    BY <1>1 DEF SubscribedSkusRow, SubscribedSkusSnapshotRow
<1>2. CASE e = "G01-019"
    BY <1>2 DEF RoleAssignmentsRow
<1> QED  BY <1>1, <1>2

LEMMA ServiceCurrentAccepted ==
    ASSUME NEW e \in {"G01-012", "G01-020"}, NEW c, c # "none"
    PROVE  CurrentTables[e]
               \subseteq ServiceColumns(e, "current", c)
<1> USE CurrentDomain DEF ServiceColumns, EnvelopeColumns, ObservationColumns, ServiceIds,
                          ServiceRow,
                          CurrentObjectColumns, Current, Keyed,
                          LineageColumns
<1>1. CASE e = "G01-012"
    BY <1>1 DEF NamedLocationsRow
<1>2. CASE e = "G01-020"
    BY <1>2 DEF SharePointSettingsRow
<1> QED  BY <1>1, <1>2

LEMMA ServiceSnapshotsAccepted ==
    ASSUME NEW e \in {"G01-011", "G01-013", "G01-015"}, NEW c, c # "none"
    PROVE  /\ Current(SnapshotCurrentColumns[e])
                  \subseteq ServiceColumns(e, "current", c)
           /\ Versioned({"snapshot_at"} \cup SnapshotColumns(e))
                  \subseteq ServiceColumns(e, "snapshot", c)
<1> USE DEF ServiceColumns, EnvelopeColumns, ObservationColumns, ServiceIds, ServiceRow,
            SnapshotCurrentColumns,
            SnapshotColumns, Current, Versioned, Keyed, LineageColumns
<1>1. CASE e = "G01-011"
    BY <1>1 DEF ConditionalAccessRow
<1>2. CASE e = "G01-013"
    BY <1>2 DEF RiskyUsersRow
<1>3. CASE e = "G01-015"
    BY <1>3 DEF HealthOverviewRow
<1> QED  BY <1>1, <1>2, <1>3

LEMMA HistoryAccepted ==
    ASSUME NEW e \in HistoryIds, NEW c, c # "none"
    PROVE  /\ Current(HistoryTable[e])
                  \subseteq ServiceColumns(e, "current", c)
           /\ Versioned({"version_identity", "observed_at", "collected_at"} \cup HistoryTable[e])
                  \subseteq ServiceColumns(e, "history", c)
<1> USE DEF ServiceColumns, EnvelopeColumns, ObservationColumns, ServiceIds, ServiceRow,
            HistoryIds, HistoryTable,
            Current, Versioned, Keyed, LineageColumns
<1>1. CASE e = "G01-016"
    BY <1>1 DEF HealthIssuesRow, HealthIssueColumns
<1>2. CASE e = "G01-017"
    BY <1>2 DEF UpdateMessagesRow, UpdateMessageColumns
<1> QED  BY <1>1, <1>2

LEMMA EventsAccepted ==
    /\ EventColumns["SP-A01"] \subseteq SharePointAuditRow
    /\ \A c : c # "none" =>
          EventColumns["G01-006"] \subseteq ServiceColumns("G01-006", "event", c)
<1>1. EventColumns["SP-A01"] = SharePointAuditColumns
    BY DEF EventColumns, EventIds
<1>2. EventColumns["G01-006"] = SigninRequired
    BY DEF EventColumns, EventIds
<1>3. SharePointAuditColumns = SharePointAuditRow
    BY DEF SharePointAuditColumns, SharePointAuditRow
<1>4. ASSUME NEW c, c # "none"
      PROVE  SigninRequired \subseteq ServiceColumns("G01-006", "event", c)
    BY <1>4 DEF ServiceColumns, SigninRequired, Keyed, EnvelopeColumns, LineageColumns,
                ServiceRow, ServiceIds,
                SignInRow, DirectoryAuditRow
<1> QED  BY <1>1, <1>2, <1>3, <1>4

(* Outside the known gaps the writers accept what the adapters make. *)
LEMMA ContractHolds ==
    ASSUME NEW e \in ExpectedEndpointIds \ (ContractGaps \cup CsvIds)
    PROVE  Acceptable(e, Registered(e))
<1> DEFINE c == RowRetention(e, Registered(e))
<1>1. SupportedIds = CurrentIds \cup EventIds \cup HistoryIds \cup TableIds
    <2>1. DOMAIN SnapshotCurrentColumns = TableIds /\ DOMAIN EventColumns = EventIds
          /\ DOMAIN HistoryTable = HistoryIds
        BY DEF SnapshotCurrentColumns, EventColumns, HistoryTable, TableIds
    <2> QED  BY <2>1, CurrentDomain DEF SupportedIds
<1>2. c # "none"
    <2>1. e \notin AllReports
        BY DEF ExpectedEndpointIds, DirectoryIds, ServiceIds,
               AuditContentIds, Batch2Ids, CsvIds,
               AllReports, UserReports, StrictReports, SiteReports
    <2> QED  BY <2>1 DEF RowRetention, Registered, AdapterRetention
<1> HIDE DEF c
<1>3. CASE e \in DirectoryIds
    <2>1. \A k : Produced(e, k, c) = DirectoryColumns(e, k)
        BY <1>3 DEF Produced, DirectoryIds, ServiceIds, AuditContentIds
    <2>2. CASE e \in CurrentIds
        <3>1. RowKinds(e) = <<"current">> /\ Required(e, "current") = CurrentTables[e]
            BY <2>2, KindsOfEndpoint, RequiredOfEndpoint
        <3> QED  BY <1>1, <1>3, <2>1, <2>2, <3>1,
                    DirectoryAccepted DEF Acceptable, c
    <2>3. CASE e \in {"G01-004", "G01-019"}
        <3>1. /\ RowKinds(e) = <<"current", "snapshot">>
              /\ Required(e, "current") = Current(SnapshotCurrentColumns[e])
              /\ Required(e, "snapshot") = Versioned({"snapshot_at"} \cup SnapshotColumns(e))
            <4>1. e \in TableIds
                BY <2>3 DEF TableIds
            <4> QED  BY <4>1, KindsOfEndpoint, RequiredOfTables
        <3>2. /\ Required(e, "current") \subseteq Produced(e, "current", c)
              /\ Required(e, "snapshot") \subseteq Produced(e, "snapshot", c)
            BY <2>1, <2>3, <3>1, DirectorySnapshotsAccepted
        <3>3. e \in SupportedIds
            BY <1>1, <2>3 DEF TableIds
        <3> QED  BY <3>1, <3>2, <3>3 DEF Acceptable, c
    <2> QED  BY <1>3, <2>2, <2>3 DEF DirectoryIds, CurrentIds
<1>4. CASE e \in ServiceIds
    <2>1. \A k : Produced(e, k, c)
                    = ServiceColumns(e, k, c)
        BY <1>4 DEF Produced, DirectoryIds, ServiceIds, AuditContentIds
    <2>2. CASE e \in {"G01-012", "G01-020"}
        <3>1. RowKinds(e) = <<"current">> /\ Required(e, "current") = CurrentTables[e]
            BY <2>2, KindsOfEndpoint, RequiredOfEndpoint DEF CurrentIds
        <3>2. e \in SupportedIds
            BY <1>1, <2>2 DEF CurrentIds
        <3> QED  BY <1>2, <2>1, <2>2, <3>1, <3>2,
                    ServiceCurrentAccepted DEF Acceptable, c
    <2>3. CASE e \in {"G01-011", "G01-013", "G01-015"}
        <3>1. /\ RowKinds(e) = <<"current", "snapshot">>
              /\ Required(e, "current") = Current(SnapshotCurrentColumns[e])
              /\ Required(e, "snapshot") = Versioned({"snapshot_at"} \cup SnapshotColumns(e))
            <4>1. e \in TableIds
                BY <2>3 DEF TableIds
            <4> QED  BY <4>1, KindsOfEndpoint, RequiredOfTables
        <3>2. /\ Required(e, "current") \subseteq Produced(e, "current", c)
              /\ Required(e, "snapshot") \subseteq Produced(e, "snapshot", c)
            <4>1. /\ Current(SnapshotCurrentColumns[e])
                        \subseteq ServiceColumns(e, "current", c)
                  /\ Versioned({"snapshot_at"} \cup SnapshotColumns(e))
                        \subseteq ServiceColumns(e, "snapshot", c)
                BY <1>2, <2>3, ServiceSnapshotsAccepted
            <4> QED  BY <2>1, <3>1, <4>1
        <3>3. e \in SupportedIds
            BY <1>1, <2>3 DEF TableIds
        <3> QED  BY <3>1, <3>2, <3>3 DEF Acceptable, c
    <2>4. CASE e \in HistoryIds
        <3>1. /\ RowKinds(e) = <<"current", "history">>
              /\ Required(e, "current") = Current(HistoryTable[e])
              /\ Required(e, "history")
                    = Versioned({"version_identity", "observed_at", "collected_at"}
                                    \cup HistoryTable[e])
            BY <2>4, KindsOfEndpoint, RequiredOfHistory
        <3>2. /\ Required(e, "current") \subseteq Produced(e, "current", c)
              /\ Required(e, "history") \subseteq Produced(e, "history", c)
            BY <1>2, <2>1, <2>4, <3>1, HistoryAccepted
        <3>3. e \in SupportedIds
            BY <1>1, <2>4
        <3> QED  BY <3>1, <3>2, <3>3 DEF Acceptable, c
    <2>5. CASE e = "G01-006"
        <3>1. RowKinds(e) = <<"event">> /\ Required(e, "event") = EventColumns["G01-006"]
            BY <2>5, KindsOfEndpoint, RequiredOfEndpoint DEF EventIds
        <3>2. e \in SupportedIds
            BY <1>1, <2>5 DEF EventIds
        <3> QED  BY <1>2, <2>1, <2>5, <3>1, <3>2, EventsAccepted DEF Acceptable, c
    <2> QED  BY <1>4, <2>2, <2>3, <2>4, <2>5 DEF ServiceIds, HistoryIds,
                                                 ContractGaps
<1>5. CASE e \in AuditContentIds
    <2>1. \A k : Produced(e, k, c) = SharePointAuditRow
        BY <1>5 DEF Produced, ServiceIds, DirectoryIds, AuditContentIds
    <2>2. RowKinds(e) = <<"event">> /\ Required(e, "event") = EventColumns["SP-A01"]
        BY <1>5, KindsOfEndpoint, RequiredOfEndpoint DEF EventIds,
                                                         AuditContentIds
    <2>3. e \in SupportedIds
        BY <1>1, <1>5 DEF EventIds, AuditContentIds
    <2> QED  BY <2>1, <2>2, <2>3, EventsAccepted DEF Acceptable, c
<1> QED  BY <1>3, <1>4, <1>5 DEF ExpectedEndpointIds, ContractGaps

(* A directory adapter names the class its endpoint is registered with. *)
LEMMA RetentionOfRow ==
    ASSUME NEW e, e \notin AllReports
    PROVE  RowRetention(e, Registered(e)) = Registered(e)
<1>1. Registered(e) # "none"
    BY DEF Registered
<1>2. e \in DirectoryIds => AdapterRetention(e) = Registered(e)
    BY DEF DirectoryIds, AdapterRetention, Registered, LongIds,
           StandardIds, Batch2Ids, CsvIds
<1> QED  BY <1>1, <1>2 DEF RowRetention

-----------------------------------------------------------------------------
(* The invariant holds at the start and after every action *)

LEMMA PipelineStart == PipelineInit => PipelineInv
<1> SUFFICES ASSUME PipelineInit PROVE PipelineInv
    OBVIOUS
<1>1. StageInv /\ LineageInv /\ WritingInv /\ StoredInv
    BY DEF PipelineInit, StageInv, LineageInv, WritingInv, StoredInv
<1>2. BatchIsAtomic /\ RetentionIsRegistered /\ ContractKept
    BY DEF PipelineInit, BatchIsAtomic, RetentionIsRegistered, ContractKept, batch
<1> QED  BY <1>1, <1>2 DEF PipelineInv

(* A record has one row or two. *)
LEMMA KindsOf ==
    ASSUME NEW e
    PROVE  /\ Len(Kinds(e)) \in {1, 2}
           /\ DOMAIN Kinds(e) = 1..Len(Kinds(e))
<1>1. Kinds(e) \in {<<"current", "snapshot">>, <<"current", "history">>, <<"event">>,
                    <<"current">>}
    BY DEF Kinds, RowKinds
<1> QED  BY <1>1

(* The statements of the transaction are the rows of the records in turn.  *)
LEMMA BatchRowsAll ==
    ASSUME StageInv, Len(log) > 0
    PROVE  /\ BatchRows \in Seq(RowsOfBatch)
           /\ {BatchRows[i] : i \in 1..Len(BatchRows)} = RowsOfBatch
<1> DEFINE R == RowsPerRecord
           N == Len(Records)
           K == Kinds(Endpoint)
<1>1. R \in {1, 2} /\ DOMAIN K = 1..R
    BY KindsOf DEF RowsPerRecord
<1>2. N \in Nat /\ DOMAIN Records = 1..N
    BY DEF StageInv, Entries, Records, batch
<1>3. BatchRows = [i \in 1..(R * N) |-> Row(1 + ((i - 1) \div R), K[1 + ((i - 1) % R)])]
    BY DEF BatchRows
<1>4. RowsOfBatch = {Row(p, K[k]) : p \in 1..N, k \in 1..R}
    BY <1>1, <1>2 DEF RowsOfBatch
<1> HIDE DEF R, N, K
<1>5. \A i \in 1..(R * N) : 1 + ((i - 1) \div R) \in 1..N /\ 1 + ((i - 1) % R) \in 1..R
    <2>1. CASE R = 1
        BY <1>2, <2>1
    <2>2. CASE R = 2
        BY <1>2, <2>2
    <2> QED  BY <1>1, <2>1, <2>2
<1>6. ASSUME NEW p \in 1..N, NEW k \in 1..R
      PROVE  \E i \in 1..(R * N) : p = 1 + ((i - 1) \div R) /\ k = 1 + ((i - 1) % R)
    <2>1. CASE R = 1
        BY <1>2, <1>6, <2>1
    <2>2. CASE R = 2
        <3>1. 2 * (p - 1) + k \in 1..(R * N)
            BY <1>2, <1>6, <2>2
        <3>2. p = 1 + ((2 * (p - 1) + k - 1) \div R) /\ k = 1 + ((2 * (p - 1) + k - 1) % R)
            BY <1>2, <1>6, <2>2
        <3> QED  BY <3>1, <3>2
    <2> QED  BY <1>1, <2>1, <2>2
<1>7. R * N \in Nat
    BY <1>1, <1>2
<1>8. BatchRows \in Seq(RowsOfBatch) /\ Len(BatchRows) = R * N
    <2>1. \A i \in 1..(R * N) : BatchRows[i] \in RowsOfBatch
        BY <1>3, <1>4, <1>5
    <2>2. BatchRows \in [1..(R * N) -> RowsOfBatch]
        BY <1>3, <2>1
    <2> QED  BY <1>7, <2>2
<1>9. ASSUME NEW row \in RowsOfBatch
      PROVE  \E i \in 1..(R * N) : row = BatchRows[i]
    <2>1. PICK p \in 1..N, k \in 1..R : row = Row(p, K[k])
        BY <1>4, <1>9
    <2>2. PICK i \in 1..(R * N) : p = 1 + ((i - 1) \div R) /\ k = 1 + ((i - 1) % R)
        BY <1>6
    <2> QED  BY <1>3, <2>1, <2>2
<1>10. \A i \in 1..(R * N) : BatchRows[i] \in RowsOfBatch
    BY <1>3, <1>4, <1>5
<1>11. {BatchRows[i] : i \in 1..(R * N)} = RowsOfBatch
    BY <1>9, <1>10
<1> QED  BY <1>8, <1>11

(* BatchIsAtomic for one endpoint of the run. *)
Atomic(entry, rows) ==
    IF entry.result = "PASS"
    THEN {<<row.position, row.kind>> : row \in rows}
            = {<<p, Kinds(entry.endpoint)[k]>> :
                  p \in DOMAIN entry.records, k \in DOMAIN Kinds(entry.endpoint)}
    ELSE rows = {}

LEMMA AtomicBatches ==
    BatchIsAtomic <=> \A b \in 1..Len(log) : Atomic(log[b], StoredOf(b))
BY DEF BatchIsAtomic, Atomic, batch

LEMMA AtomicBatchesNext ==
    BatchIsAtomic' <=> \A b \in 1..Len(log') : Atomic(log'[b], StoredOf(b)')
BY DEF BatchIsAtomic, Atomic, batch

(* The runtime turns to the next endpoint. *)
LEMMA TakeInv ==
    ASSUME PipelineInv, NEW entry \in Entries, NEW class,
           stage = "collecting",
           entry.result = "running",
           log' = Append(log, entry),
           \/ stage' = "normalizing" /\ class = Registered(entry.endpoint)
           \/ stage' = "parsing" /\ entry.endpoint \in AllReports,
           retention' = class, normalized' = 0,
           UNCHANGED <<pending, transaction, stored>>
    PROVE  PipelineInv'
<1> USE DEF PipelineInv
<1>1. /\ log \in Seq(Entries) /\ log' \in Seq(Entries)
      /\ Len(log) \in Nat
      /\ Len(log') = Len(log) + 1
      /\ log'[Len(log')] = entry
      /\ \A b \in 1..Len(log) : log'[b] = log[b]
    BY DEF StageInv
<1>2. Len(entry.records) \in Nat
    BY DEF Entries
<1>3. StageInv'
    BY <1>1, <1>2 DEF StageInv
<1>4. LineageInv'
    BY <1>1 DEF LineageInv, Endpoint, Records, batch
<1>5. WritingInv'
    BY DEF WritingInv
<1>6. StoredInv'
    BY <1>1 DEF StoredInv
<1>7. BatchIsAtomic'
    <2>1. \A b \in 1..Len(log) : StoredOf(b)' = StoredOf(b)
        BY DEF StoredOf
    <2>2. ASSUME NEW b, b = Len(log) + 1
          PROVE  StoredOf(b)' = {}
        BY <1>1, <2>2 DEF StoredOf, StoredInv
    <2>3. Atomic(entry, {})
        BY DEF Atomic
    <2>4. ASSUME NEW b \in 1..Len(log') PROVE Atomic(log'[b], StoredOf(b)')
        <3>1. CASE b \in 1..Len(log)
            BY <1>1, <2>1, <3>1, AtomicBatches
        <3>2. CASE b = Len(log) + 1
            BY <1>1, <2>2, <2>3, <3>2
        <3> QED  BY <1>1, <3>1, <3>2
    <2> QED  BY <2>4, AtomicBatchesNext
<1>8. RetentionIsRegistered'
    BY <1>1 DEF RetentionIsRegistered, StoredInv
<1>9. ContractKept'
    BY <1>1 DEF ContractKept, batch
<1> QED  BY <1>3, <1>4, <1>5, <1>6, <1>7, <1>8, <1>9

LEMMA TakeEndpointInv ==
    ASSUME PipelineInv, NEW e \in Endpoints, NEW n, n \in Nat,
           NEW records \in [1..n -> ShapesOf(e)],
           TakeEndpoint(e, records)
    PROVE  PipelineInv'
<1> DEFINE entry == [endpoint |-> e, records |-> records, result |-> "running"]
<1>1. entry \in Entries
    <2>1. records \in Seq(Shapes \cup ReportShapes)
        BY DEF ShapesOf
    <2> QED  BY <2>1 DEF Entries, Results
<1>2. /\ stage = "collecting" /\ stage' = "normalizing" /\ log' = Append(log, entry)
      /\ retention' = Registered(entry.endpoint) /\ normalized' = 0
      /\ UNCHANGED <<pending, transaction, stored>>
    BY DEF TakeEndpoint, WithDefault, RunLineage
<1>3. entry.result = "running"
    OBVIOUS
<1> HIDE DEF entry
<1> QED  BY <1>1, <1>2, <1>3, TakeInv

LEMMA TakeReportInv ==
    ASSUME PipelineInv, NEW k \in Reports, NEW n, n \in Nat,
           NEW rows \in [1..n -> ReportShapes],
           TakeReport(k, rows)
    PROVE  PipelineInv'
<1> DEFINE entry == [endpoint |-> k, records |-> rows, result |-> "running"]
<1>1. entry \in Entries
    <2>1. rows \in Seq(Shapes \cup ReportShapes)
        OBVIOUS
    <2> QED  BY <2>1 DEF Entries, Results
<1>2. /\ stage = "collecting" /\ stage' = "parsing" /\ log' = Append(log, entry)
      /\ retention' = "none" /\ normalized' = 0
      /\ UNCHANGED <<pending, transaction, stored>>
    BY DEF TakeReport
<1>3. entry.result = "running" /\ entry.endpoint \in AllReports
    BY ReportsAssumption
<1> HIDE DEF entry
<1> QED  BY <1>1, <1>2, <1>3, TakeInv

(* What touches neither the log nor the tables keeps what is said of them. *)
LEMMA NothingStored ==
    ASSUME UNCHANGED <<log, stored>>
    PROVE  /\ BatchIsAtomic => BatchIsAtomic'
           /\ RetentionIsRegistered => RetentionIsRegistered'
           /\ ContractKept => ContractKept'
           /\ StoredInv => StoredInv'
<1>1. \A b : StoredOf(b)' = StoredOf(b)
    BY DEF StoredOf
<1>2. BatchIsAtomic => BatchIsAtomic'
    BY <1>1, AtomicBatches, AtomicBatchesNext
<1> QED  BY <1>2 DEF RetentionIsRegistered, ContractKept, StoredInv, batch

(* One more record is adapted, or one more row of a report is read. *)
LEMMA AdvanceInv ==
    ASSUME PipelineInv, stage \in {"normalizing", "parsing"},
           normalized < Len(Records),
           stage = "normalizing" => Adapts(Endpoint, Records[normalized + 1]),
           normalized' = normalized + 1,
           UNCHANGED <<stage, log, retention, pending, transaction, stored>>
    PROVE  PipelineInv'
<1> USE DEF PipelineInv
<1>1. StageInv'
    <2>1. Len(Records) \in Nat /\ normalized \in Nat
        BY DEF StageInv, Entries, Records, batch
    <2> QED  BY <2>1 DEF StageInv, Records, batch
<1>2. LineageInv'
    <2>1. normalized \in Nat /\ (stage = "parsing" => Endpoint \in AllReports)
        BY DEF StageInv, Endpoint, batch
    <2>2. Endpoint' = Endpoint /\ Records' = Records
        BY DEF Endpoint, Records, batch
    <2> QED  BY <2>1, <2>2 DEF LineageInv
<1>3. WritingInv' /\ StoredInv'
    BY DEF WritingInv, StoredInv
<1>4. BatchIsAtomic' /\ RetentionIsRegistered' /\ ContractKept'
    BY NothingStored
<1> QED  BY <1>1, <1>2, <1>3, <1>4

(* The endpoint under way ends with a result. *)
LEMMA FinishedLog ==
    ASSUME StageInv, stage # "collecting", NEW result \in Results, Finish(result)
    PROVE  /\ Len(log) \in Nat /\ Len(log) > 0
           /\ log' \in Seq(Entries) /\ Len(log') = Len(log)
           /\ \A b \in 1..Len(log) : b # Len(log) => log'[b] = log[b]
           /\ log'[Len(log)].endpoint = Endpoint
           /\ log'[Len(log)].records = Records
           /\ log'[Len(log)].result = result
<1>1. log \in Seq(Entries) /\ Len(log) \in Nat /\ Len(log) > 0
    BY DEF StageInv
<1>2. PICK entry \in Entries : entry = log[Len(log)]
    BY <1>1
<1>3. log' = [log EXCEPT ![Len(log)] = [entry EXCEPT !.result = result]]
    BY <1>1, <1>2 DEF Finish, batch
<1>4. [entry EXCEPT !.result = result] \in Entries
    BY <1>2 DEF Entries
<1> QED  BY <1>1, <1>2, <1>3, <1>4 DEF Entries, Endpoint, Records, batch

(* An endpoint that ends without success has stored nothing. *)
LEMMA RefusalInv ==
    ASSUME PipelineInv, stage # "collecting",
           NEW result \in Results \ {"PASS"}, Finish(result),
           result = "REFUSED" => Endpoint \in ContractGaps,
           UNCHANGED <<normalized, stored>>
    PROVE  PipelineInv'
<1> USE DEF PipelineInv
<1>1. /\ Len(log) \in Nat /\ Len(log) > 0
      /\ log' \in Seq(Entries) /\ Len(log') = Len(log)
      /\ \A b \in 1..Len(log) : b # Len(log) => log'[b] = log[b]
      /\ log'[Len(log)].endpoint = Endpoint
      /\ log'[Len(log)].result = result
    BY FinishedLog
<1>2. stage' = "collecting"
    BY DEF Finish
<1>3. log[Len(log)].result = "running"
    BY DEF StageInv
<1>4. StageInv' /\ LineageInv' /\ WritingInv'
    BY <1>1, <1>2 DEF StageInv, LineageInv, WritingInv
<1>5. \A row \in stored : row.batch \in 1..Len(log) /\ row.batch # Len(log)
    BY <1>3 DEF StoredInv
<1>6. StoredInv' /\ RetentionIsRegistered'
    BY <1>1, <1>5 DEF StoredInv, RetentionIsRegistered
<1>7. ContractKept'
    BY <1>1 DEF ContractKept, batch
<1>8. BatchIsAtomic'
    <2>1. \A b : StoredOf(b)' = StoredOf(b)
        BY DEF StoredOf
    <2>2. ASSUME NEW b \in 1..Len(log') PROVE Atomic(log'[b], StoredOf(b)')
        <3>1. CASE b # Len(log)
            BY <1>1, <2>1, <3>1, AtomicBatches
        <3>2. CASE b = Len(log)
            <4>1. StoredOf(b) = {}
                BY <1>5, <3>2 DEF StoredOf
            <4>2. log'[b].result # "PASS"
                BY <1>1, <3>2
            <4> QED  BY <2>1, <4>1, <4>2 DEF Atomic
        <3> QED  BY <3>1, <3>2
    <2> QED  BY <2>2, AtomicBatchesNext
<1> QED  BY <1>4, <1>6, <1>7, <1>8

LEMMA OpenInv == ASSUME PipelineInv, OpenTransaction PROVE PipelineInv'
<1> USE DEF PipelineInv
<1>1. /\ stage \in {"normalizing", "parsing"} /\ stage' = "writing"
      /\ normalized = Len(Records)
      /\ pending' = BatchRows /\ transaction' = {}
      /\ UNCHANGED <<log, retention, normalized, stored>>
    BY DEF OpenTransaction
<1>2. Len(log) > 0
    BY <1>1 DEF StageInv
<1>3. BatchRows \in Seq(RowsOfBatch)
      /\ {BatchRows[i] : i \in 1..Len(BatchRows)} = RowsOfBatch
    BY <1>2, BatchRowsAll
<1>4. StageInv'
    BY <1>1 DEF StageInv, Records, batch
<1>5. LineageInv'
    BY <1>1 DEF LineageInv, Endpoint, Records, batch
<1>6. RowsOfBatch' = RowsOfBatch
    BY <1>1 DEF RowsOfBatch, Row, Records, Endpoint, batch
<1>7. WritingInv'
    BY <1>1, <1>3, <1>6 DEF WritingInv
<1> QED  BY <1>1, <1>4, <1>5, <1>7, NothingStored

LEMMA WriteRowInv == ASSUME PipelineInv, WriteRow PROVE PipelineInv'
<1> USE DEF PipelineInv
<1>1. /\ stage = "writing" /\ pending # <<>>
      /\ transaction' = transaction \cup {Head(pending)}
      /\ pending' = Tail(pending)
      /\ UNCHANGED <<stage, log, retention, normalized, stored>>
    BY DEF WriteRow
<1>2. RowsOfBatch' = RowsOfBatch
    BY <1>1 DEF RowsOfBatch, Row, Records, Endpoint, batch
<1>3. pending \in Seq(RowsOfBatch)
      /\ transaction \cup {pending[i] : i \in 1..Len(pending)} = RowsOfBatch
    BY <1>1 DEF WritingInv
<1>4. /\ Len(pending) \in Nat /\ Len(pending) > 0
      /\ pending' \in Seq(RowsOfBatch)
      /\ Len(pending') = Len(pending) - 1
      /\ Head(pending) = pending[1]
      /\ \A i \in 1..Len(pending') : pending'[i] = pending[i + 1]
    BY <1>1, <1>3
<1>5. {pending[i] : i \in 1..Len(pending)}
        = {Head(pending)} \cup {pending'[i] : i \in 1..Len(pending')}
    <2>1. ASSUME NEW i \in 1..Len(pending), i # 1
          PROVE  i - 1 \in 1..Len(pending') /\ pending'[i - 1] = pending[i]
        BY <1>4, <2>1
    <2>2. ASSUME NEW i \in 1..Len(pending')
          PROVE  \E j \in 1..Len(pending) : pending'[i] = pending[j]
        BY <1>4, <2>2
    <2>3. ASSUME NEW i \in 1..Len(pending), pending[i] # Head(pending)
          PROVE  \E j \in 1..Len(pending') : pending[i] = pending'[j]
        BY <1>4, <2>1, <2>3
    <2>4. \E i \in 1..Len(pending) : Head(pending) = pending[i]
        BY <1>4
    <2>5. ASSUME NEW x
          PROVE  x \in {pending[i] : i \in 1..Len(pending)}
                   <=> x = Head(pending) \/ x \in {pending'[i] : i \in 1..Len(pending')}
        BY <2>2, <2>3, <2>4
    <2> QED  BY <2>5
<1>6. WritingInv'
    BY <1>1, <1>2, <1>3, <1>4, <1>5 DEF WritingInv
<1>7. StageInv' /\ LineageInv'
    BY <1>1 DEF StageInv, LineageInv, Endpoint, Records, batch
<1> QED  BY <1>1, <1>6, <1>7, NothingStored

(* A writer refuses only what is among the known gaps: the CSV endpoint,   *)
(* which no writer knows either, has no record that was adapted.           *)
LEMMA RefuseRowInv == ASSUME PipelineInv, RefuseRow PROVE PipelineInv'
<1> USE DEF PipelineInv
<1>1. /\ stage = "writing" /\ pending # <<>> /\ ~Acceptable(Endpoint, retention)
      /\ Finish("REFUSED") /\ UNCHANGED <<retention, normalized, stored>>
    BY DEF RefuseRow
<1>2. Endpoint \notin AllReports
    BY <1>1 DEF Acceptable
<1>3. Endpoint \in ExpectedEndpointIds
    <2>1. log[Len(log)] \in Entries
        BY <1>1 DEF StageInv
    <2> QED  BY <1>2, <2>1, EndpointsAssumption, ReportsAssumption DEF Entries, Endpoint, batch
<1>4. retention = Registered(Endpoint)
    BY <1>1, <1>2 DEF LineageInv
<1>5. Endpoint \notin CsvIds
    <2>1. Len(Records) \in Nat /\ DOMAIN Records = 1..Len(Records)
        BY <1>1 DEF StageInv, Entries, Records, batch
    <2>2. normalized = Len(Records)
        BY <1>1 DEF StageInv, Records, batch
    <2>3. pending[1] \in RowsOfBatch
        BY <1>1 DEF WritingInv
    <2>4. Len(Records) # 0
        BY <2>1, <2>3 DEF RowsOfBatch
    <2>5. Adapts(Endpoint, Records[1])
        BY <1>1, <1>2, <2>1, <2>2, <2>4 DEF LineageInv
    <2> QED  BY <2>5 DEF Adapts, CsvIds, AuditContentIds, Batch2Ids
<1>6. Endpoint \in ContractGaps
    BY <1>1, <1>3, <1>4, <1>5, ContractHolds
<1> QED  BY <1>1, <1>6, RefusalInv DEF Results

(* The commit stores the rows of the batch, all of them and no other.      *)
LEMMA StoreBatchInv == ASSUME PipelineInv, CommitBatch PROVE PipelineInv'
<1> USE DEF PipelineInv
<1>1. /\ stage = "writing" /\ pending = <<>> /\ Finish("PASS")
      /\ stored' = stored \cup transaction
      /\ UNCHANGED <<retention, normalized, pending>>
    BY DEF CommitBatch
<1>2. /\ Len(log) \in Nat /\ Len(log) > 0
      /\ log' \in Seq(Entries) /\ Len(log') = Len(log)
      /\ \A b \in 1..Len(log) : b # Len(log) => log'[b] = log[b]
      /\ log'[Len(log)].endpoint = Endpoint
      /\ log'[Len(log)].records = Records
      /\ log'[Len(log)].result = "PASS"
    BY <1>1, FinishedLog DEF Results
<1>3. stage' = "collecting"
    BY <1>1 DEF Finish
<1>4. log[Len(log)].result = "running"
    BY <1>1 DEF StageInv
<1>5. transaction = RowsOfBatch
    <2>1. transaction \cup {pending[i] : i \in 1..Len(pending)} = RowsOfBatch
        BY <1>1 DEF WritingInv
    <2>2. 1..Len(pending) = {}
        BY <1>1
    <2> QED  BY <2>1, <2>2
<1>6. \A row \in transaction :
         row.batch = Len(log) /\ row.retention = RowRetention(Endpoint, retention)
    BY <1>5 DEF RowsOfBatch, Row, batch
<1>7. \A row \in stored : row.batch \in 1..Len(log) /\ row.batch # Len(log)
    BY <1>4 DEF StoredInv
<1>8. StageInv' /\ LineageInv' /\ WritingInv'
    BY <1>1, <1>2, <1>3 DEF StageInv, LineageInv, WritingInv
<1>9. StoredInv'
    BY <1>1, <1>2, <1>6, <1>7 DEF StoredInv
<1>10. RetentionIsRegistered'
    <2>1. Endpoint \notin AllReports =>
             RowRetention(Endpoint, retention) = Registered(Endpoint)
        BY <1>1, RetentionOfRow DEF LineageInv
    <2> QED  BY <1>1, <1>2, <1>6, <1>7, <2>1 DEF RetentionIsRegistered
<1>11. ContractKept'
    BY <1>2 DEF ContractKept, batch
<1>12. BatchIsAtomic'
    <2>1. \A b : b # Len(log) => StoredOf(b)' = StoredOf(b)
        BY <1>1, <1>6 DEF StoredOf
    <2>2. ASSUME NEW b, b = Len(log) PROVE StoredOf(b)' = RowsOfBatch
        BY <1>1, <1>5, <1>6, <1>7, <2>2 DEF StoredOf
    <2>3. {<<row.position, row.kind>> : row \in RowsOfBatch}
            = {<<p, Kinds(Endpoint)[k]>> :
                  p \in DOMAIN Records, k \in DOMAIN Kinds(Endpoint)}
        <3>1. \A p, kind : /\ Row(p, kind).position = p
                           /\ Row(p, kind).kind = kind
            BY DEF Row
        <3>2. ASSUME NEW row \in RowsOfBatch
              PROVE  \E p \in DOMAIN Records, k \in DOMAIN Kinds(Endpoint) :
                        <<row.position, row.kind>> = <<p, Kinds(Endpoint)[k]>>
            BY <3>1 DEF RowsOfBatch
        <3>3. ASSUME NEW p \in DOMAIN Records, NEW k \in DOMAIN Kinds(Endpoint)
              PROVE  \E row \in RowsOfBatch :
                        <<row.position, row.kind>> = <<p, Kinds(Endpoint)[k]>>
            <4>1. Row(p, Kinds(Endpoint)[k]) \in RowsOfBatch
                BY DEF RowsOfBatch
            <4> QED  BY <3>1, <4>1
        <3>4. {<<row.position, row.kind>> : row \in RowsOfBatch}
                \subseteq {<<p, Kinds(Endpoint)[k]>> :
                              p \in DOMAIN Records, k \in DOMAIN Kinds(Endpoint)}
            BY <3>2
        <3>5. {<<p, Kinds(Endpoint)[k]>> :
                  p \in DOMAIN Records, k \in DOMAIN Kinds(Endpoint)}
                \subseteq {<<row.position, row.kind>> : row \in RowsOfBatch}
            BY <3>3
        <3> QED  BY <3>4, <3>5
    <2>4. ASSUME NEW b \in 1..Len(log') PROVE Atomic(log'[b], StoredOf(b)')
        <3>1. CASE b # Len(log)
            BY <1>2, <2>1, <3>1, AtomicBatches
        <3>2. CASE b = Len(log)
            BY <1>2, <2>2, <2>3, <3>2 DEF Atomic
        <3> QED  BY <3>1, <3>2
    <2> QED  BY <2>4, AtomicBatchesNext
<1> QED  BY <1>8, <1>9, <1>10, <1>11, <1>12

LEMMA PipelineStutter == ASSUME PipelineInv, UNCHANGED pipelineVars PROVE PipelineInv'
<1> USE DEF PipelineInv, pipelineVars
<1>1. RowsOfBatch' = RowsOfBatch
    BY DEF RowsOfBatch, Row, Records, Endpoint, batch
<1>2. StageInv' /\ LineageInv' /\ WritingInv'
    BY <1>1 DEF StageInv, LineageInv, WritingInv, Endpoint, Records, batch
<1> QED  BY <1>2, NothingStored

(* The inductive invariant of RecordPipeline. *)
THEOREM PipelineInvariance == PipelineSpec => []PipelineInv
<1>1. ASSUME PipelineInv, [PipelineNext]_pipelineVars PROVE PipelineInv'
    <2>1. CASE \E e \in Endpoints, n \in 0..RecordsLeft :
                 \E records \in [1..n -> ShapesOf(e)] : TakeEndpoint(e, records)
        <3>1. PICK e \in Endpoints, n \in 0..RecordsLeft :
                 \E records \in [1..n -> ShapesOf(e)] : TakeEndpoint(e, records)
            BY <2>1
        <3>2. PICK records \in [1..n -> ShapesOf(e)] : TakeEndpoint(e, records)
            BY <3>1
        <3>3. n \in Nat
            OBVIOUS
        <3> QED  BY <1>1, <3>2, <3>3, TakeEndpointInv
    <2>2. CASE \E k \in Reports, n \in 0..RecordsLeft :
                 \E rows \in [1..n -> ReportShapes] : TakeReport(k, rows)
        <3>1. PICK k \in Reports, n \in 0..RecordsLeft :
                 \E rows \in [1..n -> ReportShapes] : TakeReport(k, rows)
            BY <2>2
        <3>2. PICK rows \in [1..n -> ReportShapes] : TakeReport(k, rows)
            BY <3>1
        <3>3. n \in Nat
            OBVIOUS
        <3> QED  BY <1>1, <3>2, <3>3, TakeReportInv
    <2>3. CASE ReadRow
        BY <1>1, <2>3, AdvanceInv DEF ReadRow
    <2>4. CASE RefuseReport
        <3>1. \E f \in DownloadFailures \cup {"REPORT_SCHEMA_INVALID", "SCHEMA_CONTRACT_FAILURE",
                                               "ENTITY_IDENTITY_UNAVAILABLE"} : Finish(f)
            BY <2>4 DEF RefuseReport
        <3> QED  BY <1>1, <2>4, <3>1, RefusalInv DEF RefuseReport, Results,
                                                     DownloadFailures
    <2>5. CASE RefuseDuplicate
        BY <1>1, <2>5, RefusalInv DEF RefuseDuplicate, Results
    <2>6. CASE NormalizeRecord
        BY <1>1, <2>6, AdvanceInv DEF NormalizeRecord
    <2>7. CASE RefuseBatch
        BY <1>1, <2>7, RefusalInv DEF RefuseBatch, Results
    <2>8. CASE FailStatement
        BY <1>1, <2>8, RefusalInv DEF FailStatement, Results
    <2> QED
        BY <1>1, <2>1, <2>2, <2>3, <2>4, <2>5, <2>6, <2>7, <2>8, OpenInv,
           WriteRowInv, RefuseRowInv, StoreBatchInv, PipelineStutter DEF PipelineNext
<1> QED  BY <1>1, PipelineStart, PTL DEF PipelineSpec

(* CollectionWriter.write: an endpoint that passes has stored every row of *)
(* every record, one that does not pass has stored none.                   *)
THEOREM AtomicBatch == PipelineSpec => []BatchIsAtomic
<1>1. PipelineInv => BatchIsAtomic
    BY DEF PipelineInv
<1> QED  BY <1>1, PipelineInvariance, PTL

(* normalize_records: a stored row carries the retention class its own     *)
(* endpoint is registered with.                                            *)
THEOREM OwnRetention == PipelineSpec => []RetentionIsRegistered
<1>1. PipelineInv => RetentionIsRegistered
    BY DEF PipelineInv
<1> QED  BY <1>1, PipelineInvariance, PTL

(* dispatch_persistence: outside the known gaps the writer never refuses   *)
(* what the adapters made.                                                 *)
THEOREM WriterAgrees == PipelineSpec => []ContractKept
<1>1. PipelineInv => ContractKept
    BY DEF PipelineInv
<1> QED  BY <1>1, PipelineInvariance, PTL

=============================================================================
