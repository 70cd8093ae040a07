----------------------------- MODULE MCPullJobs -----------------------------
(* PullJobs for TLC.                                                       *)
EXTENDS PullJobs, TLC

CONSTANTS r1, r2, c1, c2

Plan(clients, models, starts, stops, resumes, forgets, mishaps) ==
    [clients |-> clients, models |-> models, starts |-> starts, stops |-> stops,
     resumes |-> resumes, forgets |-> forgets, mishaps |-> mishaps]

(* Two clients stop one pull, with a mishap; stop and restart it, with a   *)
(* mishap or forgetting it; pull one model twice, with a stop or a mishap, *)
(* or forgetting the first pull; pull two models.  One client has a model  *)
(* pulled again after a stop and a mishap, and stops a pull twice.         *)
Plans == {Plan({c1, c2}, {r1}, 1, 2, 0, 0, 1), Plan({c1, c2}, {r1}, 1, 1, 1, 0, 1),
          Plan({c1, c2}, {r1}, 1, 1, 1, 1, 0), Plan({c1, c2}, {r1}, 2, 1, 0, 0, 0),
          Plan({c1, c2}, {r1}, 2, 0, 0, 1, 1), Plan({c1, c2}, {r1, r2}, 2, 0, 0, 0, 0),
          Plan({c1}, {r1}, 2, 1, 0, 0, 1), Plan({c1}, {r1}, 1, 2, 1, 0, 0)}

OneCancel == {Plan({c1}, {r1}, 1, 1, 0, 0, 0)}
=============================================================================
