------------------------ MODULE MCSidecarSupervisor ------------------------
(* SidecarSupervisor for TLC.                                              *)
EXTENDS SidecarSupervisor, TLC

(* Two requests and a mishap.                                              *)
TwoRequests == {[requests |-> 2, stops |-> 0, mishaps |-> 1]}

(* Two requests, or one with a shutdown and a mishap.                      *)
OverRestarts == {[requests |-> 2, stops |-> 0, mishaps |-> 0],
                 [requests |-> 1, stops |-> 1, mishaps |-> 1]}

Interchangeable == Permutations(Sessions)
=============================================================================
