------------------------------ MODULE MCRegistry ------------------------------
(* TLC instances of Registry.                                              *)
EXTENDS Registry

CONSTANTS a1
=============================================================================
