----------------------------- MODULE MCTransaction -----------------------------
(* TLC instance of Transaction: one transaction that edits two scripts and *)
(* creates two, and one that edits the first of those scripts.             *)
EXTENDS Transaction

MCTargets == [t1 |-> <<"A", "B", "C", "D">>, t2 |-> <<"A">>]
=============================================================================
