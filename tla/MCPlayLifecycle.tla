--------------------------- MODULE MCPlayLifecycle ---------------------------
(* TLC instances of PlayLifecycle; a configuration picks the faults.       *)
EXTENDS PlayLifecycle

CONSTANTS r1, r2, s1
=============================================================================
