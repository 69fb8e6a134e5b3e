------------------------------ MODULE PlayPromise ------------------------------
(***************************************************************************)
(* What a client may rely on when the broker says that a Studio is in Edit *)
(* with no Play transition open: Studio is not playing.  The broker may    *)
(* lose track (claim "none", a broker or a session that is gone), but it   *)
(* says "edit" again only over a Studio that has stopped, and a test is    *)
(* launched only while it does not say so.                                 *)
(***************************************************************************)
VARIABLES
  claim,    \* what the broker says: "edit", "unsettled" or "none"
  studio    \* "edit" or "play"

vars == <<claim, studio>>

Init == claim = "edit" /\ studio = "edit"

Open   == claim = "edit" /\ claim' = "unsettled" /\ UNCHANGED studio
Launch == claim # "edit" /\ studio = "edit" /\ studio' = "play" /\ UNCHANGED claim
Return == studio = "play" /\ studio' = "edit" /\ UNCHANGED claim
Settle == claim # "edit" /\ studio = "edit" /\ claim' = "edit" /\ UNCHANGED studio
Lose   == claim # "none" /\ claim' = "none" /\ UNCHANGED studio

Next == Open \/ Launch \/ Return \/ Settle \/ Lose

Spec == Init /\ [][Next]_vars
===============================================================================
