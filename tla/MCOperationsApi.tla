--------------------------- MODULE MCOperationsApi ---------------------------
EXTENDS OperationsApi, TLC

CONSTANTS q1, q2, r1, r2, r3, u1, u2, u3, t1, t2

MCRequests == {q1, q2}
MCRuns == {r1, r2, r3}
MCWorkloadOf == r1 :> "exchange" @@ r2 :> "exchange" @@ r3 :> "onedrive"

(* The second report no longer mentions one user and has a stranger; the   *)
(* third has no rows.                                                      *)
MCReport ==
    [exchange |-> << u1 :> "dated" @@ u2 :> "undated",
                     u2 :> "dated" @@ "stranger" :> "deleted",
                     <<>> >>,
     onedrive |-> << u1 :> "deleted" @@ u2 :> "unflagged" >>,
     sharepoint |-> <<>>]
MCUsers == {u1, u2, u3}
MCNameless == {u3}
MCCollected == {t1}
MCTenants == {t1, t2}

(* Two requests meet at the lock, as time passes or while users change;    *)
(* or one request reads while a run and a change of users overlap, or two  *)
(* runs of two reports or of one.                                          *)
MCPlans ==
    {[requests |-> {q1, q2}, runs |-> {}, clock |-> 2, users |-> {u1}, changes |-> 0],
     [requests |-> {q1, q2}, runs |-> {}, clock |-> 0, users |-> {u1}, changes |-> 1],
     [requests |-> {q1}, runs |-> {r1}, clock |-> 0, users |-> {u1}, changes |-> 1],
     [requests |-> {q1}, runs |-> {r1, r3}, clock |-> 0, users |-> {u1, u2}, changes |-> 0],
     [requests |-> {q1}, runs |-> {r1, r2}, clock |-> 0, users |-> {u1, u2, u3}, changes |-> 0]}

=============================================================================
