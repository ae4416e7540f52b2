---------------------------- MODULE DurableLeaf ----------------------------
(***************************************************************************)
(* What Durable Masstree promises of one leaf: a map from slots to values  *)
(* that only the operation in progress changes, of which a checkpoint is   *)
(* taken at every epoch boundary, between operations, and which falls back *)
(* to the last checkpoint, whole, when the machine fails.                  *)
(***************************************************************************)
CONSTANTS Slots,   \* the slots of the leaf
          Vals,    \* the values a slot can hold
          Absent   \* what a slot without a key maps to

VARIABLES live,      \* what the operations see
          committed, \* the checkpoint
          op         \* the operation in progress: kind, slot, value

vars == <<live, committed, op>>

Contents == [Slots -> Vals \cup {Absent}]

Init == live \in Contents /\ committed = live /\ op.kind = "none"

\* An operation begins or ends.
Request == UNCHANGED <<live, committed>>

\* A put takes effect: a new key in a slot, or a new value for it.
Put ==
  /\ op.kind \in {"insert", "update", "layer", "rearrange"}
  /\ live' = [live EXCEPT ![op.slot] = op.val]
  /\ UNCHANGED <<committed, op>>

\* A remove takes effect.
Remove ==
  /\ op.kind = "remove"
  /\ live' = [live EXCEPT ![op.slot] = Absent]
  /\ UNCHANGED <<committed, op>>

\* A split moves the keys of S to another leaf; the put that caused it may
\* still be to come.
Split(S) ==
  /\ op.kind = "split"
  /\ live' = [s \in Slots |-> IF s \in S THEN Absent ELSE live[s]]
  /\ UNCHANGED committed

\* The epoch boundary.
Checkpoint ==
  /\ op.kind = "none"
  /\ committed' = live
  /\ UNCHANGED <<live, op>>

\* A failure: back to the checkpoint, the operation is lost.
Fail ==
  /\ live' = committed
  /\ op'.kind = "none"
  /\ UNCHANGED committed

Next ==
  \/ Request
  \/ Put
  \/ Remove
  \/ \E S \in SUBSET Slots : Split(S)
  \/ Checkpoint
  \/ Fail

Spec == Init /\ [][Next]_vars
=============================================================================
