------------------------- MODULE Persistence_proofs -------------------------
(***************************************************************************)
(* What the components promise, each in its own part of Persistence, for   *)
(* every value of the constants that their assumptions allow.              *)
(***************************************************************************)
EXTENDS Persistence, TLAPS

\* Each part keeps its component's inductive invariant.
PartInv ==
  /\ part = "log" => Manual!LogInv
  /\ part = "lazy" => Lazy!Inv
  /\ part = "ptr" => Ptr!PtrInv
  /\ part = "rcu" => Rcu!Inv

\* A behaviour starts in one component, as that component does.
LEMMA PartInit == ASSUME InitLog \/ InitLazy \/ InitPtr \/ InitRcu PROVE PartInv
<1>1. CASE InitLog
  <2>1. Manual!LogInv  BY <1>1, PersistAssumption, Manual!InitInv DEF InitLog, Manual!LogInv, Manual!Inv
  <2>. QED  BY <1>1, <2>1 DEF InitLog, PartInv
<1>2. CASE InitLazy
  <2>1. Lazy!Inv  BY <1>2, PersistAssumption, Lazy!InitInv DEF InitLazy
  <2>. QED  BY <1>2, <2>1 DEF InitLazy, PartInv
<1>3. CASE InitPtr
  <2>1. Ptr!PtrInv  BY <1>3, PersistAssumption, Ptr!InitInv DEF InitPtr
  <2>. QED  BY <1>3, <2>1 DEF InitPtr, PartInv
<1>4. CASE InitRcu
  <2>1. Rcu!Inv  BY <1>4, PersistAssumption, Rcu!InitInv DEF InitRcu
  <2>. QED  BY <1>4, <2>1 DEF InitRcu, PartInv
<1>. QED  BY <1>1, <1>2, <1>3, <1>4

\* A step is one of the component that runs, or changes nothing of it.
LEMMA PartNext ==
  ASSUME PartInv, [NextLog \/ NextLazy \/ NextPtr \/ NextRcu]_vars
  PROVE  PartInv'
<1>1. CASE NextLog
  <2>1. Manual!LogInv'
    BY <1>1, PersistAssumption, Manual!NextInv DEF NextLog, PartInv
  <2>. QED  BY <1>1, <2>1 DEF NextLog, PartInv
<1>2. CASE NextLazy
  <2>1. Lazy!Inv'
    BY <1>2, PersistAssumption, Lazy!NextInv DEF NextLazy, PartInv
  <2>. QED  BY <1>2, <2>1 DEF NextLazy, PartInv
<1>3. CASE NextPtr
  <2>1. Ptr!PtrInv'
    BY <1>3, PersistAssumption, Ptr!NextInv DEF NextPtr, PartInv
  <2>. QED  BY <1>3, <2>1 DEF NextPtr, PartInv
<1>4. CASE NextRcu
  <2>1. Rcu!Inv'
    BY <1>4, PersistAssumption, Rcu!NextInv DEF NextRcu, PartInv
  <2>. QED  BY <1>4, <2>1 DEF NextRcu, PartInv
<1>5. CASE UNCHANGED vars
  <2>1. part = "log" => Manual!LogInv'
    BY <1>5, PersistAssumption, Manual!NextInv DEF PartInv, vars, logVars, Manual!vars
  <2>2. part = "lazy" => Lazy!Inv'
    BY <1>5, PersistAssumption, Lazy!NextInv DEF PartInv, vars, lazyVars, Lazy!vars
  <2>3. part = "ptr" => Ptr!PtrInv'
    BY <1>5, PersistAssumption, Ptr!NextInv DEF PartInv, vars, ptrVars, Ptr!vars
  <2>4. part = "rcu" => Rcu!Inv'
    BY <1>5, PersistAssumption, Rcu!NextInv DEF PartInv, vars, rcuVars, Rcu!vars
  <2>. QED  BY <1>5, <2>1, <2>2, <2>3, <2>4 DEF PartInv, vars
<1>. QED  BY <1>1, <1>2, <1>3, <1>4, <1>5

\* Every state of a behaviour satisfies the invariant of its part.
LEMMA Invariance == Spec => []PartInv
<1>1. (InitLog \/ InitLazy \/ InitPtr \/ InitRcu) => PartInv  BY PartInit
<1>2. PartInv /\ [NextLog \/ NextLazy \/ NextPtr \/ NextRcu]_vars => PartInv'  BY PartNext
<1>. QED  BY <1>1, <1>2, PTL DEF Spec

-----------------------------------------------------------------------------
\* Node logs, leaves in recovery, PPP words and limbo lists keep their types:
\* no curr leaves its buffer, no head_ passes its tail_.
THEOREM PersistTypeCorrect == Spec => []TypeOK
<1>1. Manual!LogInv => Manual!TypeOK  BY DEF Manual!LogInv
<1>2. Lazy!Inv => Lazy!TypeOK  BY DEF Lazy!Inv
<1>3. Ptr!PtrInv => Ptr!TypeOK  BY DEF Ptr!PtrInv
<1>4. Rcu!Inv => Rcu!TypeOK  BY DEF Rcu!Inv
<1>5. PartInv => TypeOK  BY <1>1, <1>2, <1>3, <1>4 DEF PartInv, TypeOK
<1>. QED  BY <1>5, Invariance, PTL

\* undo (incll_pextlog.hh) brings every node back to the last flush, however
\* often the buffers wrapped and wherever undo itself was cut short, in every
\* behaviour in which no record has overrun one still needed, replaced one of
\* another size or left one of the lap before behind it, and no failure came
\* before the logs were truncated or after undo and before a flush.
THEOREM PersistUndoRestores == Spec => []UndoRestores
<1>1. PartInv => UndoRestores  BY PersistAssumption, Manual!InvUndoRestores DEF PartInv, UndoRestores
<1>. QED  BY <1>1, Invariance, PTL

\* While threads recover leaves, a get that went through lazy_recovery returns
\* the keys of the checkpoint and none of the failed epoch.
THEOREM PersistReadsRecovered == Spec => []ReadsRecovered
<1>1. PartInv => ReadsRecovered  BY DEF PartInv, Lazy!Inv, ReadsRecovered
<1>. QED  BY <1>1, Invariance, PTL

\* PPP::read returns what PPP::write wrote or, after a failure, the pointer of
\* the last boundary, for any epochs and pointers, in every behaviour in which
\* the words stored decode to their epochs and no failure came before a write
\* that the failure before it had undone was written again.
THEOREM PersistReadsValue == Spec => []ReadsValue
<1>1. PartInv => ReadsValue  BY PersistAssumption, Ptr!InvReads DEF PartInv, ReadsValue
<1>. QED  BY <1>1, Invariance, PTL

\* A PPP recovers to the last boundary wherever the machine stops, also between
\* the two stores of a write, in the same behaviours.
THEOREM PersistPtrRecoverable == Spec => []PtrRecoverable
<1>1. PartInv => PtrRecoverable  BY PersistAssumption, Ptr!InvRecoverable DEF PartInv, PtrRecoverable
<1>. QED  BY <1>1, Invariance, PTL

\* The assertions of push_back, refill_rcu and first_epoch (kvthread.hh) hold in
\* every interleaving of retirements, loops that clean and failures.
THEOREM PersistGroupsInOrder == Spec => []GroupsInOrder
<1>1. PartInv => GroupsInOrder  BY DEF PartInv, Rcu!Inv, GroupsInOrder
<1>. QED  BY <1>1, Invariance, PTL

\* clean_until frees nothing a thread may still read, and nothing is free twice.
THEOREM PersistNoEarlyReuse == Spec => []NoEarlyReuse
<1>1. PartInv => NoEarlyReuse  BY Rcu!InvNoEarlyReuse DEF PartInv, NoEarlyReuse
<1>. QED  BY <1>1, Invariance, PTL

\* Nothing the last checkpoint needs is handed out before the next one, by the
\* pools or by a bump pointer that a failure moves back.
THEOREM PersistCheckpointKept == Spec => []CheckpointKept
<1>1. PartInv => CheckpointKept  BY Rcu!InvCheckpointKept DEF PartInv, CheckpointKept
<1>. QED  BY <1>1, Invariance, PTL
=============================================================================
