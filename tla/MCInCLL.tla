------------------------------ MODULE MCInCLL ------------------------------
(* InCLL for TLC: two interchangeable values, and a bound on the operations *)
(* that lock the leaf.                                                      *)
EXTENDS InCLL, TLC

CONSTANTS v1, v2, MaxLocks

VARIABLE nops  \* operations that have locked the leaf

MCVals == {v1, v2}
MCSymmetry == Permutations(MCVals)

MCInit == Init /\ nops = 0

\* No failure is explored in the last epoch, so no write-back is either.
Counted ==
  /\ nops' = IF pc = "lock" /\ pc' # "lock" THEN nops + 1 ELSE nops
  /\ nops' <= MaxLocks
  /\ globalepoch = MaxEpoch => UNCHANGED memory

\* What undo_incll relies on, granted.
MCAssumedSpec == MCInit /\ [][AssumedNext /\ Counted]_<<vars, nops>>

\* The code as it is, in epochs that fit the log words.
MCSpec == MCInit /\ [][Next /\ EpochFits' /\ Counted]_<<vars, nops>>

\* The code as it is, one line log in use at a time.
MCLongSpec == MCInit /\ [][Next /\ OneLineActive' /\ Counted]_<<vars, nops>>

\* What undo_incll relies on, granted, with layers whose roots split in this epoch.
MCRootSpec ==
  MCInit /\ [][(AssumedNext \/ \E p \in Slots, v \in Vals : RefreshRoot(p, v)) /\ Counted]_<<vars, nops>>
=============================================================================
