------------------------ MODULE AuditCheckpointProofs ------------------------
(***************************************************************************)
(* Proofs about AuditCheckpoint for any number of runs and any content,    *)
(* and for any overlap, lookback, window, lag and length of a run that     *)
(* BoundsAssumption admits: the checkpoint leaves no gap behind it and     *)
(* never goes back.                                                        *)
(***************************************************************************)
EXTENDS AuditCheckpoint, TLAPS

-----------------------------------------------------------------------------
(* The inductive invariant *)

Epoch == Lookback + Overlap + 1

Reading == {"fetching", "persisting", "advancing"}

(* Nothing in the tables or in a run lies ahead of the clock. *)
ClockInv ==
    /\ Epoch <= now
    /\ checkpoint # NoCheckpoint => Epoch <= checkpoint /\ checkpoint <= now
    /\ \A c \in Content : created[c] <= now
    /\ \A r \in Runs : pc[r] # "new" => Epoch <= end[r] /\ end[r] <= now

(* The limits that Tick respects. *)
LimitInv ==
    /\ \A c \in Content :
        created[c] > 0 /\ c \notin visible => now <= created[c] + MaxLag
    /\ \A r \in Runs : pc[r] \in Active => now <= end[r] + MaxRun

(* A run that has read the checkpoint starts early enough for whatever the *)
(* checkpoint has become meanwhile; a run that found none starts its       *)
(* lookback before its end.                                                *)
StartInv(r) ==
    pc[r] \in Reading =>
        IF checkpoint = NoCheckpoint THEN start[r] = end[r] - Lookback
        ELSE start[r] <= checkpoint - MaxLag

(* All content of the windows fetched so far has been fetched, but for     *)
(* what may be listed late.                                                *)
FetchedInv(r) ==
    /\ pc[r] \in Reading =>
        \A c \in Content :
            created[c] > 0 /\ start[r] <= created[c]
                /\ created[c] < cursor[r] /\ created[c] + MaxLag < end[r]
                => c \in fetched[r]
    /\ pc[r] \in {"persisting", "advancing"} => cursor[r] = end[r]
    /\ pc[r] = "advancing" => fetched[r] \subseteq stored

RunInv(r) == StartInv(r) /\ FetchedInv(r)

Inv ==
    /\ TypeOK
    /\ ClockInv
    /\ LimitInv
    /\ \A r \in Runs : RunInv(r)
    /\ NoGap

-----------------------------------------------------------------------------
LEMMA InitInv == Init => Inv
<1> SUFFICES ASSUME Init PROVE Inv
  OBVIOUS
<1>1. TypeOK
  BY BoundsAssumption DEF Init, TypeOK, Active, NoCheckpoint
<1>2. ClockInv
  BY BoundsAssumption DEF Init, ClockInv, Epoch, NoCheckpoint
<1>3. LimitInv
  BY DEF Init, LimitInv, Active
<1>4. ASSUME NEW r \in Runs PROVE RunInv(r)
  BY DEF Init, RunInv, StartInv, FetchedInv, Reading
<1>5. NoGap
  BY DEF Init, NoGap
<1> QED BY <1>1, <1>2, <1>3, <1>4, <1>5 DEF Inv

-----------------------------------------------------------------------------
(* Type correctness is preserved *)

(* The first window starts after the clock's origin and before its end.    *)
LEMMA EffectiveStartType ==
    ASSUME Inv, NEW r \in Runs, pc[r] = "begun"
    PROVE  EffectiveStart(r) \in Nat
<1>1. end[r] \in Nat /\ Epoch <= end[r] /\ checkpoint \in Nat
  BY DEF Inv, TypeOK, ClockInv
<1>2. checkpoint # NoCheckpoint => Epoch <= checkpoint
  BY DEF Inv, ClockInv
<1>3. Lookback \in Nat /\ Overlap \in Nat
  BY BoundsAssumption
<1> QED BY <1>1, <1>2, <1>3 DEF EffectiveStart, Epoch

(* A window ends after it begins and not after the run's end. *)
LEMMA WindowEndBounds ==
    ASSUME Inv, NEW r \in Runs, pc[r] = "fetching", cursor[r] < end[r]
    PROVE  /\ WindowEnd(r) \in Nat
           /\ cursor[r] < WindowEnd(r)
           /\ WindowEnd(r) <= end[r]
<1>1. cursor[r] \in Nat /\ end[r] \in Nat
  BY DEF Inv, TypeOK
<1>2. MaxWindow \in Nat /\ 0 < MaxWindow
  BY BoundsAssumption
<1> QED BY <1>1, <1>2 DEF WindowEnd, Earlier

LEMMA TypeStep == Inv /\ [Next]_vars => TypeOK'
<1> SUFFICES ASSUME Inv, [Next]_vars PROVE TypeOK'
  OBVIOUS
<1> USE DEF TypeOK, service, run, database
<1>0. TypeOK
  BY DEF Inv
<1>1. CASE UNCHANGED vars
  BY <1>0, <1>1 DEF vars
<1>2. CASE Tick
  BY <1>0, <1>2 DEF Tick
<1>3. ASSUME NEW c \in Content, Publish(c) PROVE TypeOK'
  BY <1>0, <1>3 DEF Publish
<1>4. ASSUME NEW c \in Content, Appear(c) PROVE TypeOK'
  BY <1>0, <1>4 DEF Appear
<1>5. ASSUME NEW r \in Runs, Begin(r) PROVE TypeOK'
  BY <1>0, <1>5 DEF Begin, Active
<1>6. ASSUME NEW r \in Runs, ReadCheckpoint(r) PROVE TypeOK'
  <2>1. EffectiveStart(r) \in Nat
    BY <1>6, EffectiveStartType DEF ReadCheckpoint
  <2> QED BY <1>0, <1>6, <2>1 DEF ReadCheckpoint, Active
<1>7. ASSUME NEW r \in Runs, FetchWindow(r) PROVE TypeOK'
  <2>1. /\ WindowEnd(r) \in Nat
        /\ cursor[r] < WindowEnd(r)
        /\ WindowEnd(r) <= end[r]
    BY <1>7, WindowEndBounds DEF FetchWindow
  <2>2. visible \subseteq Content
    BY <1>0
  <2>3. fetched' \in [Runs -> SUBSET Content]
    BY <1>0, <1>7, <2>2 DEF FetchWindow
  <2>4. /\ pc' \in [Runs -> Active \cup {"new", "done", "failed"}]
        /\ cursor' \in [Runs -> Nat]
    BY <1>0, <1>7, <2>1 DEF FetchWindow, Active
  <2>5. ASSUME NEW q \in Runs, pc'[q] \in Active \ {"begun"}
        PROVE  start'[q] <= cursor'[q] /\ cursor'[q] <= end'[q]
    BY <1>0, <1>7, <2>1, <2>5 DEF FetchWindow, Active
  <2> QED BY <1>0, <1>7, <2>3, <2>4, <2>5 DEF FetchWindow
<1>8. ASSUME NEW r \in Runs, Persist(r) PROVE TypeOK'
  BY <1>0, <1>8 DEF Persist, Active
<1>9. ASSUME NEW r \in Runs, Advance(r) PROVE TypeOK'
  BY <1>0, <1>9 DEF Advance, Active
<1>10. ASSUME NEW r \in Runs, Fail(r) PROVE TypeOK'
  BY <1>0, <1>10 DEF Fail, Active
<1> QED BY <1>1, <1>2, <1>3, <1>4, <1>5, <1>6, <1>7, <1>8, <1>9, <1>10
        DEF Next

-----------------------------------------------------------------------------
(* The clock and its limits *)

LEMMA ClockStep == Inv /\ [Next]_vars => ClockInv'
<1> SUFFICES ASSUME Inv, [Next]_vars PROVE ClockInv'
  OBVIOUS
<1> USE DEF ClockInv, service, run, database
<1>0. /\ TypeOK /\ ClockInv /\ Epoch \in Nat
      /\ Epoch' = Epoch
  BY BoundsAssumption DEF Inv, Epoch
<1>1. CASE UNCHANGED vars
  BY <1>0, <1>1 DEF vars
<1>2. CASE Tick
  BY <1>0, <1>2 DEF Tick, TypeOK
<1>3. ASSUME NEW c \in Content, Publish(c) PROVE ClockInv'
  BY <1>0, <1>3 DEF Publish, TypeOK
<1>4. ASSUME NEW c \in Content, Appear(c) PROVE ClockInv'
  BY <1>0, <1>4 DEF Appear
<1>5. ASSUME NEW r \in Runs, Begin(r) PROVE ClockInv'
  BY <1>0, <1>5 DEF Begin, TypeOK
<1>6. ASSUME NEW r \in Runs, ReadCheckpoint(r) PROVE ClockInv'
  BY <1>0, <1>6 DEF ReadCheckpoint, TypeOK
<1>7. ASSUME NEW r \in Runs, FetchWindow(r) PROVE ClockInv'
  BY <1>0, <1>7 DEF FetchWindow, TypeOK
<1>8. ASSUME NEW r \in Runs, Persist(r) PROVE ClockInv'
  BY <1>0, <1>8 DEF Persist, TypeOK
<1>9. ASSUME NEW r \in Runs, Advance(r) PROVE ClockInv'
  BY <1>0, <1>9 DEF Advance, TypeOK
<1>10. ASSUME NEW r \in Runs, Fail(r) PROVE ClockInv'
  BY <1>0, <1>10 DEF Fail, TypeOK, Active
<1> QED BY <1>1, <1>2, <1>3, <1>4, <1>5, <1>6, <1>7, <1>8, <1>9, <1>10
        DEF Next

LEMMA LimitStep == Inv /\ [Next]_vars => LimitInv'
<1> SUFFICES ASSUME Inv, [Next]_vars PROVE LimitInv'
  OBVIOUS
<1> USE DEF LimitInv, service, run, database
<1>0. TypeOK /\ LimitInv /\ MaxLag \in Nat /\ MaxRun \in Nat
  BY BoundsAssumption DEF Inv
<1>1. CASE UNCHANGED vars
  BY <1>0, <1>1 DEF vars
<1>2. CASE Tick
  BY <1>0, <1>2 DEF Tick, TypeOK
<1>3. ASSUME NEW c \in Content, Publish(c) PROVE LimitInv'
  BY <1>0, <1>3 DEF Publish, TypeOK
<1>4. ASSUME NEW c \in Content, Appear(c) PROVE LimitInv'
  BY <1>0, <1>4 DEF Appear
<1>5. ASSUME NEW r \in Runs, Begin(r) PROVE LimitInv'
  BY <1>0, <1>5 DEF Begin, TypeOK
<1>6. ASSUME NEW r \in Runs, ReadCheckpoint(r) PROVE LimitInv'
  BY <1>0, <1>6 DEF ReadCheckpoint, TypeOK, Active
<1>7. ASSUME NEW r \in Runs, FetchWindow(r) PROVE LimitInv'
  BY <1>0, <1>7 DEF FetchWindow, TypeOK, Active
<1>8. ASSUME NEW r \in Runs, Persist(r) PROVE LimitInv'
  BY <1>0, <1>8 DEF Persist, TypeOK, Active
<1>9. ASSUME NEW r \in Runs, Advance(r) PROVE LimitInv'
  BY <1>0, <1>9 DEF Advance, TypeOK, Active
<1>10. ASSUME NEW r \in Runs, Fail(r) PROVE LimitInv'
  BY <1>0, <1>10 DEF Fail, TypeOK, Active
<1> QED BY <1>1, <1>2, <1>3, <1>4, <1>5, <1>6, <1>7, <1>8, <1>9, <1>10
        DEF Next

-----------------------------------------------------------------------------
(* What the runs know *)

(* A reader that found a checkpoint starts an overlap before it.           *)
LEMMA ReadCheckpointStart ==
    ASSUME Inv, NEW r \in Runs, ReadCheckpoint(r)
    PROVE  StartInv(r)'
<1>1. /\ TypeOK /\ pc[r] = "begun" /\ checkpoint' = checkpoint
      /\ end' = end
      /\ start'[r] = EffectiveStart(r)
  BY DEF Inv, TypeOK, ReadCheckpoint, database
<1>2. checkpoint \in Nat /\ end[r] \in Nat
  BY <1>1 DEF TypeOK
<1>3. /\ Overlap \in Nat /\ MaxLag \in Nat /\ Lookback \in Nat
      /\ MaxLag <= Overlap
  BY BoundsAssumption
<1> QED BY <1>1, <1>2, <1>3 DEF StartInv, EffectiveStart, NoCheckpoint

(* The first advance of the checkpoint comes soon enough after the others  *)
(* found none for their lookback to reach behind it.                       *)
LEMMA AdvanceStart ==
    ASSUME Inv, NEW r \in Runs, Advance(r), NEW q \in Runs
    PROVE  StartInv(q)'
<1>1. /\ TypeOK /\ ClockInv /\ LimitInv /\ StartInv(q)
      /\ pc[r] = "advancing"
      /\ checkpoint' = IF checkpoint < end[r] THEN end[r] ELSE checkpoint
      /\ start' = start /\ end' = end
      /\ pc'[q] \in Reading => pc[q] \in Reading
  BY DEF Inv, RunInv, Advance, TypeOK, Reading
<1>2. /\ checkpoint \in Nat /\ end[r] \in Nat /\ end[q] \in Nat
      /\ start[q] \in Nat /\ now \in Nat
      /\ Lookback \in Nat /\ MaxRun \in Nat /\ MaxLag \in Nat
      /\ MaxRun + MaxLag <= Lookback
  BY <1>1, BoundsAssumption DEF TypeOK
<1>3. now <= end[r] + MaxRun
  BY <1>1 DEF LimitInv, Active
<1>4. Epoch \in Nat /\ 0 < Epoch /\ Epoch <= end[r]
  BY <1>1, BoundsAssumption DEF ClockInv, Epoch
<1>5. CASE pc[q] \in Reading /\ checkpoint = NoCheckpoint
  <2>1. end[q] <= now
    BY <1>1, <1>5 DEF ClockInv, Reading
  <2>2. start[q] = end[q] - Lookback
    BY <1>1, <1>5 DEF StartInv
  <2>3. checkpoint' = end[r] /\ checkpoint' # NoCheckpoint
    BY <1>1, <1>2, <1>4, <1>5 DEF NoCheckpoint
  <2>4. start[q] <= checkpoint' - MaxLag
    BY <1>2, <1>3, <2>1, <2>2, <2>3
  <2> QED BY <1>1, <2>3, <2>4 DEF StartInv
<1>6. CASE pc[q] \in Reading /\ checkpoint # NoCheckpoint
  <2>1. start[q] <= checkpoint - MaxLag
    BY <1>1, <1>6 DEF StartInv
  <2>2. checkpoint <= checkpoint' /\ checkpoint' \in Nat
    BY <1>1, <1>2
  <2>3. checkpoint' # NoCheckpoint
    BY <1>2, <1>6, <2>2 DEF NoCheckpoint
  <2>4. start[q] <= checkpoint' - MaxLag
    BY <1>2, <2>1, <2>2
  <2> QED BY <1>1, <2>3, <2>4 DEF StartInv
<1>7. CASE pc[q] \notin Reading
  BY <1>1, <1>7 DEF StartInv
<1> QED BY <1>5, <1>6, <1>7

LEMMA StartStep ==
    ASSUME Inv, [Next]_vars, NEW q \in Runs PROVE StartInv(q)'
<1> USE DEF service, run, database
<1>0. TypeOK /\ StartInv(q)
  BY DEF Inv, RunInv
<1>1. CASE UNCHANGED vars
  BY <1>0, <1>1 DEF vars, StartInv
<1>2. CASE Tick
  BY <1>0, <1>2 DEF Tick, StartInv
<1>3. ASSUME NEW c \in Content, Publish(c) \/ Appear(c) PROVE StartInv(q)'
  BY <1>0, <1>3 DEF Publish, Appear, StartInv
<1>4. ASSUME NEW r \in Runs, Begin(r) PROVE StartInv(q)'
  BY <1>0, <1>4 DEF Begin, StartInv, TypeOK, Reading
<1>5. ASSUME NEW r \in Runs, ReadCheckpoint(r) PROVE StartInv(q)'
  <2>1. CASE q = r
    BY <1>5, <2>1, ReadCheckpointStart
  <2>2. CASE q # r
    BY <1>0, <1>5, <2>2 DEF ReadCheckpoint, StartInv, TypeOK
  <2> QED BY <2>1, <2>2
<1>6. ASSUME NEW r \in Runs, FetchWindow(r) PROVE StartInv(q)'
  BY <1>0, <1>6 DEF FetchWindow, StartInv, TypeOK, Reading
<1>7. ASSUME NEW r \in Runs, Persist(r) PROVE StartInv(q)'
  BY <1>0, <1>7 DEF Persist, StartInv, TypeOK, Reading
<1>8. ASSUME NEW r \in Runs, Advance(r) PROVE StartInv(q)'
  BY <1>8, AdvanceStart
<1>9. ASSUME NEW r \in Runs, Fail(r) PROVE StartInv(q)'
  BY <1>0, <1>9 DEF Fail, StartInv, TypeOK, Reading
<1> QED BY <1>1, <1>2, <1>3, <1>4, <1>5, <1>6, <1>7, <1>8, <1>9 DEF Next

(* Content in a window that is old enough is visible when the window is    *)
(* fetched, for the run's end is in the past.                              *)
LEMMA FetchWindowFetches ==
    ASSUME Inv, NEW r \in Runs, FetchWindow(r)
    PROVE  FetchedInv(r)'
<1>1. /\ TypeOK /\ ClockInv /\ LimitInv /\ FetchedInv(r)
      /\ pc[r] = "fetching" /\ cursor[r] < end[r]
      /\ cursor'[r] = WindowEnd(r)
      /\ pc'[r] = IF WindowEnd(r) < end[r] THEN "fetching" ELSE "persisting"
      /\ start' = start /\ end' = end /\ created' = created
      /\ fetched'[r] = fetched[r] \cup
                {c \in visible : cursor[r] <= created[c]
                                        /\ created[c] < WindowEnd(r)}
  BY DEF Inv, RunInv, FetchWindow, TypeOK, service
<1>2. /\ WindowEnd(r) \in Nat /\ WindowEnd(r) <= end[r]
      /\ cursor[r] \in Nat /\ end[r] \in Nat /\ now \in Nat
      /\ MaxLag \in Nat
  BY <1>1, WindowEndBounds, BoundsAssumption DEF TypeOK
<1>3. end[r] <= now
  BY <1>1 DEF ClockInv
<1>4. ASSUME NEW c \in Content, created[c] > 0, start[r] <= created[c],
             created[c] < WindowEnd(r), created[c] + MaxLag < end[r]
      PROVE  c \in fetched'[r]
  <2>1. created[c] \in Nat
    BY <1>1 DEF TypeOK
  <2>2. CASE created[c] < cursor[r]
    BY <1>1, <1>4, <2>2 DEF FetchedInv, Reading
  <2>3. CASE cursor[r] <= created[c]
    <3>1. c \in visible
      BY <1>1, <1>2, <1>3, <1>4, <2>1 DEF LimitInv
    <3> QED BY <1>1, <1>4, <2>3, <3>1
  <2> QED BY <1>2, <2>1, <2>2, <2>3
<1>5. pc'[r] = "persisting" => cursor'[r] = end'[r]
  BY <1>1, <1>2
<1> QED BY <1>1, <1>4, <1>5 DEF FetchedInv, Reading

LEMMA FetchedStep ==
    ASSUME Inv, [Next]_vars, NEW q \in Runs PROVE FetchedInv(q)'
<1> USE DEF service, run, database
<1>0. TypeOK /\ ClockInv /\ FetchedInv(q) /\ MaxLag \in Nat
  BY BoundsAssumption DEF Inv, RunInv
<1>1. CASE UNCHANGED vars
  BY <1>0, <1>1 DEF vars, FetchedInv
<1>2. CASE Tick
  BY <1>0, <1>2 DEF Tick, FetchedInv
<1>3. ASSUME NEW c \in Content, Publish(c) PROVE FetchedInv(q)'
  <2>1. pc[q] \in Reading => end[q] <= now
    BY <1>0 DEF ClockInv, Reading
  <2>2. /\ created'[c] = now
        /\ \A d \in Content : d # c => created'[d] = created[d]
        /\ now \in Nat /\ end[q] \in Nat
    BY <1>0, <1>3 DEF Publish, TypeOK
  <2> QED BY <1>0, <1>3, <2>1, <2>2 DEF Publish, FetchedInv
<1>4. ASSUME NEW c \in Content, Appear(c) PROVE FetchedInv(q)'
  BY <1>0, <1>4 DEF Appear, FetchedInv
<1>5. ASSUME NEW r \in Runs, Begin(r) PROVE FetchedInv(q)'
  BY <1>0, <1>5 DEF Begin, FetchedInv, TypeOK, Reading
<1>6. ASSUME NEW r \in Runs, ReadCheckpoint(r) PROVE FetchedInv(q)'
  <2>1. CASE q = r
    <3>1. /\ cursor'[q] = start'[q]
          /\ start'[q] \in Nat
          /\ pc'[q] \in {"fetching", "failed"}
          /\ created' = created
      BY <1>0, <1>6, <2>1, EffectiveStartType DEF ReadCheckpoint, TypeOK
    <3>2. \A c \in Content : created[c] \in Nat
      BY <1>0 DEF TypeOK
    <3> QED BY <3>1, <3>2 DEF FetchedInv
  <2>2. CASE q # r
    BY <1>0, <1>6, <2>2 DEF ReadCheckpoint, FetchedInv, TypeOK
  <2> QED BY <2>1, <2>2
<1>7. ASSUME NEW r \in Runs, FetchWindow(r) PROVE FetchedInv(q)'
  <2>1. CASE q = r
    BY <1>7, <2>1, FetchWindowFetches
  <2>2. CASE q # r
    BY <1>0, <1>7, <2>2 DEF FetchWindow, FetchedInv, TypeOK
  <2> QED BY <2>1, <2>2
<1>8. ASSUME NEW r \in Runs, Persist(r) PROVE FetchedInv(q)'
  BY <1>0, <1>8 DEF Persist, FetchedInv, TypeOK, Reading
<1>9. ASSUME NEW r \in Runs, Advance(r) \/ Fail(r) PROVE FetchedInv(q)'
  BY <1>0, <1>9 DEF Advance, Fail, FetchedInv, TypeOK, Reading
<1> QED BY <1>1, <1>2, <1>3, <1>4, <1>5, <1>6, <1>7, <1>8, <1>9 DEF Next

-----------------------------------------------------------------------------
(* No gap *)

(* Where the checkpoint advances to, the run's own windows reach back to   *)
(* what was stored before.                                                 *)
LEMMA AdvanceLeavesNoGap ==
    ASSUME Inv, NEW r \in Runs, Advance(r)
    PROVE  NoGap'
<1>1. /\ TypeOK /\ NoGap /\ StartInv(r) /\ FetchedInv(r)
      /\ pc[r] = "advancing"
      /\ checkpoint' = IF checkpoint < end[r] THEN end[r] ELSE checkpoint
      /\ floor' = IF checkpoint = NoCheckpoint THEN start[r] ELSE floor
      /\ created' = created /\ stored' = stored
  BY DEF Inv, RunInv, Advance, service
<1>2. /\ checkpoint \in Nat /\ end[r] \in Nat /\ start[r] \in Nat
      /\ floor \in Nat /\ MaxLag \in Nat
  BY <1>1, BoundsAssumption DEF TypeOK
<1>3. cursor[r] = end[r] /\ fetched[r] \subseteq stored
  BY <1>1 DEF FetchedInv
<1>4. ASSUME NEW c \in Content, created[c] > 0, start[r] <= created[c],
             created[c] < end[r] - MaxLag
      PROVE  c \in stored
  <2>1. created[c] \in Nat
    BY <1>1 DEF TypeOK
  <2>2. created[c] < cursor[r] /\ created[c] + MaxLag < end[r]
    BY <1>2, <1>3, <1>4, <2>1
  <2> QED BY <1>1, <1>3, <1>4, <2>2 DEF FetchedInv, Reading
<1>5. ASSUME NEW c \in Content, floor' <= created[c], created[c] > 0,
             created[c] < checkpoint' - MaxLag
      PROVE  c \in stored
  <2>1. created[c] \in Nat
    BY <1>1 DEF TypeOK
  <2>2. CASE checkpoint = NoCheckpoint
    <3>1. checkpoint' = end[r]
      BY <1>1, <1>2, <1>5, <2>1, <2>2 DEF NoCheckpoint
    <3>2. floor' = start[r]
      BY <1>1, <2>2
    <3> QED BY <1>4, <1>5, <3>1, <3>2
  <2>3. CASE checkpoint # NoCheckpoint /\ created[c] < checkpoint - MaxLag
    BY <1>1, <1>5, <2>3 DEF NoGap
  <2>4. CASE checkpoint # NoCheckpoint /\ checkpoint - MaxLag <= created[c]
    <3>1. start[r] <= checkpoint - MaxLag
      BY <1>1, <2>4 DEF StartInv, Reading
    <3>2. start[r] <= created[c]
      BY <1>2, <2>1, <2>4, <3>1
    <3>3. checkpoint' = end[r]
      BY <1>1, <1>2, <1>5, <2>1, <2>4
    <3> QED BY <1>4, <1>5, <3>2, <3>3
  <2> QED BY <1>2, <2>1, <2>2, <2>3, <2>4
<1> QED BY <1>1, <1>5 DEF NoGap

LEMMA GapStep == Inv /\ [Next]_vars => NoGap'
<1> SUFFICES ASSUME Inv, [Next]_vars PROVE NoGap'
  OBVIOUS
<1> USE DEF service, run, database
<1>0. TypeOK /\ ClockInv /\ NoGap
  BY DEF Inv
<1>1. CASE UNCHANGED vars
  BY <1>0, <1>1 DEF vars, NoGap
<1>2. CASE Tick
  BY <1>0, <1>2 DEF Tick, NoGap
<1>3. ASSUME NEW c \in Content, Publish(c) PROVE NoGap'
  <2>1. /\ created'[c] = now
        /\ \A d \in Content : d # c => created'[d] = created[d]
        /\ checkpoint' = checkpoint /\ floor' = floor /\ stored' = stored
    BY <1>0, <1>3 DEF Publish, TypeOK
  <2>2. /\ checkpoint # NoCheckpoint => ~(now < checkpoint - MaxLag)
    BY <1>0, BoundsAssumption DEF ClockInv, TypeOK
  <2> QED BY <1>0, <2>1, <2>2 DEF NoGap
<1>4. ASSUME NEW c \in Content, Appear(c) PROVE NoGap'
  BY <1>0, <1>4 DEF Appear, NoGap
<1>5. ASSUME NEW r \in Runs,
             Begin(r) \/ ReadCheckpoint(r) \/ FetchWindow(r) \/ Fail(r)
      PROVE  NoGap'
  BY <1>0, <1>5 DEF Begin, ReadCheckpoint, FetchWindow, Fail, NoGap
<1>6. ASSUME NEW r \in Runs, Persist(r) PROVE NoGap'
  BY <1>0, <1>6 DEF Persist, NoGap
<1>7. ASSUME NEW r \in Runs, Advance(r) PROVE NoGap'
  BY <1>7, AdvanceLeavesNoGap
<1> QED BY <1>1, <1>2, <1>3, <1>4, <1>5, <1>6, <1>7 DEF Next

-----------------------------------------------------------------------------
(* The theorems *)

LEMMA StepInv == Inv /\ [Next]_vars => Inv'
<1> SUFFICES ASSUME Inv, [Next]_vars PROVE Inv'
  OBVIOUS
<1>1. TypeOK' /\ ClockInv' /\ LimitInv' /\ NoGap'
  BY TypeStep, ClockStep, LimitStep, GapStep
<1>2. \A q \in Runs : StartInv(q)' /\ FetchedInv(q)'
  BY StartStep, FetchedStep
<1> QED BY <1>1, <1>2 DEF Inv, RunInv

LEMMA Invariance == Spec => []Inv
BY InitInv, StepInv, PTL DEF Spec

(* The variables keep their types, and the windows a run has fetched never *)
(* leave the span between its start and its end.                           *)
THEOREM TypeCorrect == Spec => []TypeOK
<1>1. Inv => TypeOK
  BY DEF Inv
<1> QED BY <1>1, Invariance, PTL

(* The checkpoint leaves no gap behind it, for any number of overlapping   *)
(* runs: the overlap covers the lag of the listing and the lookback covers *)
(* a slow first run.                                                       *)
THEOREM CheckpointLeavesNoGap == Spec => []NoGap
<1>1. Inv => NoGap
  BY DEF Inv
<1> QED BY <1>1, Invariance, PTL

(* No step of any run moves the checkpoint back.                           *)
THEOREM MonotoneCheckpoint == Spec => CheckpointNeverRegresses
<1>1. Inv /\ [Next]_vars => [checkpoint' >= checkpoint]_vars
  <2>0. ASSUME Inv, checkpoint' = checkpoint
        PROVE  checkpoint' >= checkpoint
    BY <2>0 DEF Inv, TypeOK
  <2> SUFFICES ASSUME Inv, Next, checkpoint' # checkpoint
               PROVE  checkpoint' >= checkpoint
    BY <2>0
  <2>1. PICK r \in Runs : Advance(r)
    BY DEF Next, vars, service, run, database, Tick, Publish, Appear, Begin,
           ReadCheckpoint, FetchWindow, Persist, Fail
  <2>2. checkpoint \in Nat /\ end[r] \in Nat
    BY DEF Inv, TypeOK
  <2> QED BY <2>1, <2>2 DEF Advance
<1> QED BY <1>1, Invariance, PTL DEF Spec, CheckpointNeverRegresses

=============================================================================
