--------------------------- MODULE AuditCheckpoint ---------------------------
(***************************************************************************)
(* The incremental collection of Management Activity content for OneDrive  *)
(* and SharePoint: a run reads the durable checkpoint, lists the content   *)
(* of the windows from a little before it up to the time the run began,    *)
(* commits the batch, and advances the checkpoint in a transaction of its  *)
(* own.  Content becomes visible in the listing some time after the moment *)
(* it is filed under; runs overlap, fail and are killed anywhere.          *)
(***************************************************************************)
EXTENDS Integers

CONSTANTS
    Runs,        \* runs of one collector for one tenant
    Content,     \* audit content that may come into being
    Overlap,     \* DEFAULT_OVERLAP
    Lookback,    \* DEFAULT_INITIAL_LOOKBACK
    MaxWindow,   \* DEFAULT_MAX_WINDOW
    MaxRun,      \* how long a run can take (the scheduler kills it then)
    MaxLag,      \* how late the service lists content
    MaxTime      \* bound on the clock

(* The first line of the collector's checks, and what the service and the  *)
(* scheduler must keep to for the overlap to be enough.                    *)
ASSUME BoundsAssumption ==
    /\ {Overlap, Lookback, MaxWindow, MaxRun, MaxLag, MaxTime} \subseteq Nat
    /\ Overlap <= MaxWindow
    /\ 0 < Lookback /\ Lookback <= MaxWindow
    /\ MaxLag <= Overlap
    /\ MaxRun + MaxLag <= Lookback

VARIABLES
    now,         \* the clock
    created,     \* created[c]: the time content c is filed under, 0 before
    visible,     \* the content the listing shows
    pc,          \* pc[r]: where the run stands
    end,         \* end[r]: target_end, the time the run began
    start,       \* start[r]: effective_start
    cursor,      \* cursor[r]: the windows before it have been fetched
    fetched,     \* fetched[r]: content collected so far
    stored,      \* the committed audit events
    checkpoint,  \* control.collector_checkpoint.checkpoint_at
    floor        \* observed: where the first run to advance had started

service == <<created, visible>>
run == <<pc, end, start, cursor, fetched>>
database == <<stored, checkpoint, floor>>
vars == <<now, service, run, database>>

NoCheckpoint == 0

Active == {"begun", "fetching", "persisting", "advancing"}

Init ==
    /\ now = Lookback + Overlap + 1
    /\ created = [c \in Content |-> 0]
    /\ visible = {}
    /\ pc = [r \in Runs |-> "new"]
    /\ end = [r \in Runs |-> 0]
    /\ start = [r \in Runs |-> 0]
    /\ cursor = [r \in Runs |-> 0]
    /\ fetched = [r \in Runs |-> {}]
    /\ stored = {}
    /\ checkpoint = NoCheckpoint
    /\ floor = 0

-----------------------------------------------------------------------------
(* The service and the clock *)

Publish(c) ==
    /\ created[c] = 0
    /\ created' = [created EXCEPT ![c] = now]
    /\ UNCHANGED <<now, visible, run, database>>

Appear(c) ==
    /\ created[c] > 0 /\ c \notin visible
    /\ visible' = visible \cup {c}
    /\ UNCHANGED <<now, created, run, database>>

(* Time passes unless a lag or a run would exceed its limit. *)
Tick ==
    /\ now < MaxTime
    /\ \A c \in Content : created[c] > 0 /\ c \notin visible
            => now < created[c] + MaxLag
    /\ \A r \in Runs : pc[r] \in Active => now < end[r] + MaxRun
    /\ now' = now + 1
    /\ UNCHANGED <<service, run, database>>

-----------------------------------------------------------------------------
(* The collector *)

Begin(r) ==
    /\ pc[r] = "new"
    /\ pc' = [pc EXCEPT ![r] = "begun"]
    /\ end' = [end EXCEPT ![r] = now]
    /\ UNCHANGED <<now, service, start, cursor, fetched, database>>

(* Mutant: the overlap is not subtracted. *)
EffectiveStartAtCheckpoint(r) ==
    IF checkpoint = NoCheckpoint THEN end[r] - Lookback ELSE checkpoint

EffectiveStart(r) ==
    IF checkpoint = NoCheckpoint THEN end[r] - Lookback
    ELSE checkpoint - Overlap

(* A checkpoint another run advanced since may leave an empty window, and  *)
(* that is an error.                                                       *)
ReadCheckpoint(r) ==
    /\ pc[r] = "begun"
    /\ pc' = [pc EXCEPT ![r] =
                IF EffectiveStart(r) < end[r] THEN "fetching" ELSE "failed"]
    /\ start' = [start EXCEPT ![r] = EffectiveStart(r)]
    /\ cursor' = [cursor EXCEPT ![r] = EffectiveStart(r)]
    /\ UNCHANGED <<now, service, end, fetched, database>>

Earlier(a, b) == IF a < b THEN a ELSE b

(* The end of the next bounded window. *)
WindowEnd(r) == Earlier(cursor[r] + MaxWindow, end[r])

FetchWindow(r) ==
    LET finish == WindowEnd(r) IN
    /\ pc[r] = "fetching"
    /\ cursor[r] < end[r]
    /\ fetched' = [fetched EXCEPT ![r] = @ \cup
                    {c \in visible : cursor[r] <= created[c]
                                        /\ created[c] < finish}]
    /\ cursor' = [cursor EXCEPT ![r] = finish]
    /\ pc' = [pc EXCEPT ![r] = IF finish < end[r] THEN "fetching"
                               ELSE "persisting"]
    /\ UNCHANGED <<now, service, end, start, database>>

(* One transaction; what is stored already stays as it is. *)
Persist(r) ==
    /\ pc[r] = "persisting"
    /\ stored' = stored \cup fetched[r]
    /\ pc' = [pc EXCEPT ![r] = "advancing"]
    /\ UNCHANGED <<now, service, end, start, cursor, fetched, checkpoint,
                   floor>>

(* Mutant: the upsert has lost its WHERE clause. *)
AdvanceUnconditionally(r) ==
    /\ pc[r] = "advancing"
    /\ checkpoint' = end[r]
    /\ floor' = IF checkpoint = NoCheckpoint THEN start[r] ELSE floor
    /\ pc' = [pc EXCEPT ![r] = "done"]
    /\ UNCHANGED <<now, service, end, start, cursor, fetched, stored>>

(* The upsert moves a checkpoint forward only. *)
Advance(r) ==
    /\ pc[r] = "advancing"
    /\ checkpoint' = IF checkpoint < end[r] THEN end[r] ELSE checkpoint
    /\ floor' = IF checkpoint = NoCheckpoint THEN start[r] ELSE floor
    /\ pc' = [pc EXCEPT ![r] = "done"]
    /\ UNCHANGED <<now, service, end, start, cursor, fetched, stored>>

(* The run raises (the subscription, a page, a blob, a record, the batch   *)
(* or the checkpoint fails) or is killed; an open transaction rolls back.  *)
Fail(r) ==
    /\ pc[r] \in Active
    /\ pc' = [pc EXCEPT ![r] = "failed"]
    /\ UNCHANGED <<now, service, end, start, cursor, fetched, database>>

Next ==
    \/ Tick
    \/ \E c \in Content : Publish(c) \/ Appear(c)
    \/ \E r \in Runs :
        \/ Begin(r) \/ ReadCheckpoint(r) \/ FetchWindow(r)
        \/ Persist(r) \/ Advance(r) \/ Fail(r)

Spec == Init /\ [][Next]_vars

-----------------------------------------------------------------------------
(* Properties *)

TypeOK ==
    /\ now \in Nat
    /\ created \in [Content -> Nat]
    /\ visible \subseteq Content
    /\ pc \in [Runs -> Active \cup {"new", "done", "failed"}]
    /\ end \in [Runs -> Nat]
    /\ start \in [Runs -> Nat]
    /\ cursor \in [Runs -> Nat]
    /\ fetched \in [Runs -> SUBSET Content]
    /\ stored \subseteq Content
    /\ checkpoint \in Nat
    /\ floor \in Nat
    /\ \A r \in Runs :
        pc[r] \in Active \ {"begun"} => start[r] <= cursor[r]
                                            /\ cursor[r] <= end[r]

(* Once there is a checkpoint, all content filed between the start of the  *)
(* first successful run and the checkpoint is stored, save what is recent  *)
(* enough to be listed late, and that the next run reads again: whatever   *)
(* runs overlapped, failed, were killed between the batch and the          *)
(* checkpoint, or advanced out of order.                                   *)
NoGap ==
    checkpoint # NoCheckpoint =>
        \A c \in Content :
            floor <= created[c] /\ created[c] > 0
                /\ created[c] < checkpoint - MaxLag => c \in stored

(* A slower, older run never moves the checkpoint back. *)
CheckpointNeverRegresses == [][checkpoint' >= checkpoint]_vars

=============================================================================
