--------------------------- MODULE MCJobScheduler ---------------------------
(* Small instances of JobScheduler for TLC.                                *)
EXTENDS JobScheduler

CONSTANTS c1, c2, s1, s2

=============================================================================
