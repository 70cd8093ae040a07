----------------------------- MODULE MCGovernor -----------------------------
(* Small instances of Governor for TLC.                                    *)
EXTENDS Governor

CONSTANTS a, b, t1, t2, t3, i1, i2

(* Two tasks on two models, three tasks with two on the first, and both    *)
(* tasks on the first.                                                     *)
Apart == t1 :> a @@ t2 :> b
Crowded == t1 :> a @@ t2 :> a @@ t3 :> b
Together == t1 :> a @@ t2 :> a

(* The awaits with nothing half done behind them.                          *)
CleanAwaits == {"admitting", "drain", "wait", "run"}

(* Footprints against a threshold of 4.                                    *)
BothHeavy == a :> 4 @@ b :> 5
OneHeavy == a :> 4 @@ b :> 2

=============================================================================
