------------------------------- MODULE MCRelease -------------------------------
(* TLC instances of Release: two managers, and releases 1 (former name), 2. *)
EXTENDS Release

CONSTANTS a, b

Switches == {"repair", "update"}
MCCommands ==
  [m \in Manager |->
     IF m = a THEN Switches \cup {"install", "rollback", "import", "catalog_rollback", "uninstall"}
     ELSE Switches]
MCSwitches == [m \in Manager |-> Switches]
=============================================================================
