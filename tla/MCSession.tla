------------------------------ MODULE MCSession ------------------------------
(* Instances of Session for TLC: which operations compete for the session. *)
EXTENDS Session, TLC

(* Two edits, two recoveries, two cleanups, a state read, a write and a    *)
(* Play switch; an instance takes some of them.                            *)
CONSTANTS e1, e2, r1, r2, c1, c2, s1, w1, p1

MCKind ==
  [o \in Op |-> CASE o \in {e1, e2} -> "multi"
                  [] o \in {r1, r2} -> "recover"
                  [] o \in {c1, c2} -> "cleanup"
                  [] o = s1 -> "state"
                  [] o = w1 -> "write"
                  [] o = p1 -> "play"]
=============================================================================
