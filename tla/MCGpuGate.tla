----------------------------- MODULE MCGpuGate -----------------------------
(* GpuGate for TLC: three callers, a producer that shares and one that     *)
(* does not.                                                               *)
EXTENDS GpuGate

CONSTANTS r1, r2, r3, genA, loadA

=============================================================================
