----------------------------- MODULE MCPersist -----------------------------
(***************************************************************************)
(* Persistence for TLC.  A leaf and an internode; leaves share one bucket. *)
(***************************************************************************)
EXTENDS Persistence

TwoSizes == [n \in Nodes |-> IF n = "n1" THEN 1 ELSE 2]
OneBucket == [l \in Leaves |-> 0]

\* What a thread inserts bears its name.
OwnKey == [t \in Recoverers |-> t]
=============================================================================
