------------------------ MODULE PersistentPtr_proofs ------------------------
(***************************************************************************)
(* PPP recovers: for any pointers and epochs, as long as every word stored *)
(* decodes to its epoch and every failure finds the pointer recovered from *)
(* the one before, the pointer reads as it was last written and, wherever  *)
(* the machine stops, also between the two stores of a write, as it was at *)
(* the last boundary.                                                      *)
(***************************************************************************)
EXTENDS PersistentPtr, TLAPS

\* What the log word is good for.  A word that was cut short, or written in
\* this epoch, has the pointer of the last boundary in its log; any other
\* reads as it did then.
LogsCommitted(w) ==
  IF Crashed(w) \/ Decoded(w) = globalepoch
    THEN w.nextLog.ptr = committed
    ELSE read(w, failedepoch, currexec) = committed

\* A word that was not cut short is of no later epoch.
EpochOf(w) == ~Crashed(w) => Decoded(w) <= globalepoch

\* Failures are of earlier epochs.
Epochs ==
  /\ failedepoch < globalepoch /\ currexec <= globalepoch

\* A write that has stored its log word: next will agree with the log, which
\* is of this epoch.
Storing ==
  storing # Idle =>
    /\ storing[1].valid = word.nextLog.valid
    /\ Crashed(word) \/ Decoded(word) = globalepoch

\* Between writes the pointer is what this epoch wrote or, if it wrote
\* nothing, what it was at the boundary.
Value ==
  storing = Idle =>
    value = IF ~Crashed(word) /\ Decoded(word) = globalepoch THEN word.next.ptr ELSE committed

Inv ==
  /\ Epochs
  /\ EpochOf(word) /\ EpochOf(nword)
  /\ LogsCommitted(word) /\ LogsCommitted(nword)
  /\ Storing /\ Value

\* Inductive: the types always, the rest until something slips.
PtrInv == TypeOK /\ (slips = {} => Inv)

-----------------------------------------------------------------------------
\* What a word decodes to is a number.
LEMMA DecodedNat == ASSUME PtrAssumption, NEW w \in Words PROVE Decoded(w) \in Nat
<1>1. w.next.epoch \in Nat  BY DEF PtrAssumption, Words, NextWords
<1>2. OrBit(w.next.epoch, RegionBit) \in Nat  BY <1>1 DEF PtrAssumption, OrBit
<1>. QED  BY <1>1, <1>2 DEF Decoded

\* Zeroed memory satisfies the invariant.
LEMMA InitInv == ASSUME PtrAssumption, Init PROVE PtrInv
<1>1. word \in Words /\ nword \in Words
  BY DEF Init, Words, NextWords, LogWords, PtrAssumption
<1>2. /\ ~Crashed(word) /\ Decoded(word) = 0 /\ nword = word
      /\ word.next.ptr = Null /\ word.nextLog.ptr = Null
  BY DEF Init, Crashed, Decoded
<1>3. TypeOK
  BY <1>1 DEF Init, TypeOK, PtrAssumption, Idle
<1>4. Inv
  BY <1>2 DEF Init, Inv, Epochs, EpochOf, LogsCommitted, Storing, Value, read, Idle, PtrAssumption
<1>. QED  BY <1>3, <1>4 DEF PtrInv

\* The two halves of an epoch fit their fields.
LEMMA Halves ==
  ASSUME PtrAssumption, TypeOK
  PROVE  Low \in 0..EpochRange - 1 /\ High \in 0..EpochRange - 1
  BY DEF PtrAssumption, TypeOK, Low, High

\* The first store of PPP::write, in its four cases, keeps the types.
LEMMA WriteLogType == ASSUME PtrAssumption, TypeOK, NEW p \in Pointers, WriteLog(p) PROVE TypeOK'
<1>1. /\ Low \in 0..EpochRange - 1 /\ High \in 0..EpochRange - 1 /\ word \in Words
      /\ word.next \in NextWords /\ word.nextLog \in LogWords
  BY Halves DEF TypeOK, Words
<1>2. /\ word.nextLog.valid \in {0, 1} /\ 1 - word.nextLog.valid \in {0, 1}
      /\ word.nextLog.ptr \in Pointers /\ word.next.ptr \in Pointers
  BY <1>1 DEF NextWords, LogWords
<1>3. \A v \in {0, 1} : NewNext(p, v) \in NextWords
  BY <1>1 DEF NewNext, NextWords
<1>4. [word.next EXCEPT !.ptr = p] \in NextWords
  BY <1>1 DEF NextWords
<1>5. \A q \in Pointers, v \in {0, 1} : [epoch |-> High, ptr |-> q, valid |-> v] \in LogWords
  BY <1>1 DEF LogWords
<1>6. /\ [word EXCEPT !.nextLog.epoch = High] \in Words
      /\ [word EXCEPT !.nextLog.epoch = High, !.nextLog.valid = 1 - @] \in Words
      /\ [word EXCEPT !.nextLog = LogOf(word, p)] \in Words
  BY <1>1, <1>2, <1>5 DEF Words, LogWords, LogOf
<1>7. word' \in Words /\ \E n \in NextWords : storing' = <<n>>
  BY <1>1, <1>2, <1>3, <1>4, <1>6 DEF WriteLog
<1>. QED  BY <1>7 DEF WriteLog, TypeOK, epochs

\* Every step keeps the types.
LEMMA TypeNext == ASSUME PtrAssumption, TypeOK, [Next]_vars PROVE TypeOK'
<1>1. CASE UNCHANGED vars  BY <1>1 DEF vars, TypeOK
<1>2. ASSUME NEW p \in Pointers, WriteLog(p) PROVE TypeOK'  BY <1>2, WriteLogType
<1>3. CASE WriteNext
  <2>1. PICK n \in NextWords : storing = <<n>>
    BY <1>3 DEF WriteNext, TypeOK
  <2>2. word' \in Words /\ value' \in Pointers
    BY <1>3, <2>1 DEF WriteNext, TypeOK, Words, NextWords
  <2>3. slips' \in SUBSET SlipKinds
    BY <1>3 DEF WriteNext, TypeOK, SlipKinds
  <2>. QED  BY <1>3, <2>2, <2>3 DEF WriteNext, TypeOK, epochs
<1>4. CASE Evict  BY <1>4 DEF Evict, TypeOK, epochs
<1>5. CASE Boundary  BY <1>5 DEF Boundary, TypeOK, PtrAssumption
<1>6. CASE Crash
  <2>1. slips' \in SUBSET SlipKinds
    BY <1>6 DEF Crash, TypeOK, SlipKinds
  <2>. QED  BY <1>6, <2>1 DEF Crash, TypeOK, PtrAssumption
<1>7. CASE Rest  BY <1>1, <1>7 DEF Rest
<1>. QED  BY <1>1, <1>2, <1>3, <1>4, <1>5, <1>6, <1>7 DEF Next

\* The first store of PPP::write, in its four cases.
LEMMA WriteLogInv ==
  ASSUME PtrAssumption, TypeOK, Inv, NEW p \in Pointers, WriteLog(p)
  PROVE  Inv'
<1>. USE DEF Idle
<1>1. word \in Words /\ globalepoch \in Nat /\ failedepoch \in Nat /\ Decoded(word) \in Nat
  BY DecodedNat DEF TypeOK, PtrAssumption
<1>2. /\ UNCHANGED <<nword, globalepoch, failedepoch, currexec, value, committed>>
      /\ storing = Idle
  BY DEF WriteLog, epochs
<1>3. EpochOf(nword)' /\ LogsCommitted(nword)' /\ Epochs'
  BY <1>2 DEF Inv, EpochOf, LogsCommitted, Epochs, read, Crashed, OfFailedEpoch, Decoded
<1>4. CASE /\ Crashed(word) /\ storing' = <<NewNext(p, word.nextLog.valid)>>
           /\ word' = [word EXCEPT !.nextLog.epoch = High]
  <2>1. /\ word'.next = word.next /\ word'.nextLog.ptr = word.nextLog.ptr
        /\ word'.nextLog.valid = word.nextLog.valid
    BY <1>1, <1>4 DEF Words, LogWords
  <2>2. Crashed(word)' /\ word.nextLog.ptr = committed
    BY <1>4, <2>1 DEF Inv, LogsCommitted, Crashed
  <2>. QED
    BY <1>2, <1>3, <1>4, <2>1, <2>2 DEF Inv, EpochOf, LogsCommitted, Storing, Value, NewNext
<1>5. CASE /\ ~Crashed(word) /\ OfFailedEpoch(word, failedepoch, currexec)
           /\ word' = [word EXCEPT !.nextLog.epoch = High, !.nextLog.valid = 1 - @]
           /\ storing' = <<NewNext(p, 1 - word.nextLog.valid)>>
  <2>1. 1 - word.nextLog.valid # word.nextLog.valid
    BY <1>1 DEF Words, LogWords
  <2>2. /\ word'.next = word.next /\ word'.nextLog.ptr = word.nextLog.ptr
        /\ word'.nextLog.valid = 1 - word.nextLog.valid
    BY <1>1, <1>5 DEF Words, LogWords
  <2>3. word.nextLog.ptr = committed
    BY <1>1, <1>5 DEF Inv, LogsCommitted, Epochs, read, OfFailedEpoch
  <2>4. Crashed(word)'
    BY <1>5, <2>1, <2>2 DEF Crashed
  <2>. QED
    BY <1>2, <1>3, <1>5, <2>2, <2>3, <2>4 DEF Inv, EpochOf, LogsCommitted, Storing, Value, NewNext
<1>6. CASE /\ ~Crashed(word) /\ ~OfFailedEpoch(word, failedepoch, currexec)
           /\ Decoded(word) = globalepoch
           /\ storing' = <<[word.next EXCEPT !.ptr = p]>>
           /\ UNCHANGED word
  <2>1. [word.next EXCEPT !.ptr = p].valid = word.nextLog.valid
    BY <1>1, <1>6 DEF Words, NextWords, Crashed
  <2>2. EpochOf(word)' /\ LogsCommitted(word)'
    BY <1>2, <1>6 DEF Inv, EpochOf, LogsCommitted, read, Crashed, OfFailedEpoch, Decoded
  <2>3. Storing' /\ Value'
    BY <1>2, <1>6, <2>1 DEF Storing, Value, Decoded
  <2>. QED  BY <1>3, <2>2, <2>3 DEF Inv
<1>7. CASE /\ ~Crashed(word) /\ ~OfFailedEpoch(word, failedepoch, currexec)
           /\ Decoded(word) # globalepoch
           /\ word' = [word EXCEPT !.nextLog = LogOf(word, p)]
           /\ storing' = <<NewNext(p, 1 - word.nextLog.valid)>>
  <2>1. 1 - word.nextLog.valid # word.nextLog.valid
    BY <1>1 DEF Words, LogWords
  <2>2. /\ word'.next = word.next /\ word'.nextLog.ptr = word.next.ptr
        /\ word'.nextLog.valid = 1 - word.nextLog.valid
    BY <1>1, <1>7 DEF Words, LogOf
  <2>3. word.next.ptr = committed
    BY <1>7 DEF Inv, LogsCommitted, read
  <2>4. Crashed(word)'
    BY <1>7, <2>1, <2>2 DEF Crashed
  <2>. QED
    BY <1>2, <1>3, <1>7, <2>2, <2>3, <2>4 DEF Inv, EpochOf, LogsCommitted, Storing, Value, NewNext
<1>. QED  BY <1>4, <1>5, <1>6, <1>7 DEF WriteLog

\* The second store of PPP::write makes the two words agree.
LEMMA WriteNextInv == ASSUME PtrAssumption, TypeOK, Inv, WriteNext, slips' = {} PROVE Inv'
<1>1. PICK n \in NextWords : storing = <<n>>
  BY DEF WriteNext, TypeOK
<1>2. /\ word' = [next |-> n, nextLog |-> word.nextLog]
      /\ value' = n.ptr /\ storing' = Idle
      /\ UNCHANGED <<nword, globalepoch, failedepoch, currexec, committed>>
  BY <1>1 DEF WriteNext, TypeOK, Words, epochs
<1>3. n.valid = word.nextLog.valid /\ word.nextLog.ptr = committed
  BY <1>1 DEF WriteNext, Inv, Storing, LogsCommitted
<1>4. Decoded(word)' = globalepoch'
  BY <1>2 DEF WriteNext, Decoded
<1>5. ~Crashed(word)'
  BY <1>2, <1>3 DEF Crashed
<1>6. globalepoch \in Nat
  BY DEF TypeOK, PtrAssumption
<1>7. EpochOf(word)' /\ LogsCommitted(word)' /\ Storing' /\ Value'
  BY <1>2, <1>3, <1>4, <1>5, <1>6 DEF EpochOf, LogsCommitted, Storing, Value
<1>8. EpochOf(nword)' /\ LogsCommitted(nword)' /\ Epochs'
  BY <1>2 DEF Inv, EpochOf, LogsCommitted, Epochs, read, Crashed, OfFailedEpoch, Decoded
<1>. QED  BY <1>7, <1>8 DEF Inv

\* A write-back: whatever the cache holds is recoverable.
LEMMA EvictInv == ASSUME PtrAssumption, Inv, Evict PROVE Inv'
  BY DEF Evict, Inv, Epochs, EpochOf, LogsCommitted, Storing, Value, read, Crashed,
     OfFailedEpoch, Decoded, epochs

\* An epoch boundary commits the pointer's value.
LEMMA BoundaryInv == ASSUME PtrAssumption, TypeOK, Inv, Boundary PROVE Inv'
<1>1. /\ UNCHANGED <<word, storing, failedepoch, currexec, value>> /\ storing = Idle
      /\ nword' = word /\ globalepoch' = globalepoch + 1 /\ committed' = value
  BY DEF Boundary
<1>2. /\ Decoded(word) \in Nat /\ globalepoch \in Nat /\ failedepoch \in Nat /\ currexec \in Nat
      /\ ~Crashed(word) => Decoded(word) <= globalepoch
  BY DecodedNat DEF Inv, TypeOK, EpochOf, PtrAssumption
<1>3. Epochs'
  BY <1>1, <1>2 DEF Inv, Epochs
<1>4. IF Crashed(word) THEN word.nextLog.ptr = value
      ELSE read(word, failedepoch, currexec) = value
  <2>1. CASE Crashed(word)
    BY <1>1, <2>1 DEF Inv, Value, LogsCommitted
  <2>2. CASE ~Crashed(word) /\ Decoded(word) = globalepoch
    BY <1>1, <1>2, <2>2 DEF Inv, Value, Epochs, read, OfFailedEpoch
  <2>3. CASE ~Crashed(word) /\ Decoded(word) # globalepoch
    BY <1>1, <2>3 DEF Inv, Value, LogsCommitted
  <2>. QED  BY <2>1, <2>2, <2>3
<1>5. Crashed(word)' = Crashed(word) /\ Decoded(word)' = Decoded(word)
  BY <1>1 DEF Crashed, Decoded
<1>6. ~Crashed(word) => Decoded(word) # globalepoch + 1 /\ Decoded(word) <= globalepoch + 1
  BY <1>2
<1>7. read(word, failedepoch, currexec)' = read(word, failedepoch, currexec)
  BY <1>1 DEF read, Crashed, OfFailedEpoch, Decoded
<1>8. EpochOf(word)' /\ LogsCommitted(word)' /\ Value'
  BY <1>1, <1>4, <1>5, <1>6, <1>7 DEF EpochOf, LogsCommitted, Value
<1>9. EpochOf(nword)' /\ LogsCommitted(nword)' /\ Storing'
  <2>1. nword' = word'  BY <1>1
  <2>. QED  BY <1>1, <1>8, <2>1 DEF EpochOf, LogsCommitted, Storing, read, Crashed, OfFailedEpoch, Decoded
<1>. QED  BY <1>3, <1>8, <1>9 DEF Inv

\* What the memory holds recovers to the last boundary.
LEMMA InvRecovers ==
  ASSUME PtrAssumption, TypeOK, Inv, Settled
  PROVE  read(nword, globalepoch, globalepoch + 1) = committed
<1>1. /\ Decoded(nword) \in Nat /\ globalepoch \in Nat
      /\ ~Crashed(nword) => Decoded(nword) <= globalepoch
  BY DecodedNat DEF Inv, TypeOK, EpochOf, PtrAssumption
<1>2. CASE Crashed(nword)
  BY <1>2 DEF Inv, LogsCommitted, read
<1>3. CASE ~Crashed(nword) /\ Decoded(nword) = globalepoch
  BY <1>1, <1>3 DEF Inv, LogsCommitted, read, OfFailedEpoch
<1>4. CASE ~Crashed(nword) /\ Decoded(nword) # globalepoch
  BY <1>4 DEF Inv, LogsCommitted, read, Settled, OfFailedEpoch
<1>. QED  BY <1>2, <1>3, <1>4

\* A failure and init_exist: the pointer is what the log makes of it.
LEMMA CrashInv == ASSUME PtrAssumption, TypeOK, Inv, Crash, slips' = {} PROVE Inv'
<1>1. /\ Settled
      /\ word' = nword /\ storing' = Idle /\ failedepoch' = globalepoch
      /\ globalepoch' = globalepoch + 1 /\ currexec' = globalepoch + 1
      /\ value' = committed /\ UNCHANGED <<nword, committed>>
  BY DEF Crash
<1>2. /\ Decoded(nword) \in Nat /\ globalepoch \in Nat
      /\ ~Crashed(nword) => Decoded(nword) <= globalepoch
  BY DecodedNat DEF Inv, TypeOK, EpochOf, PtrAssumption
<1>3. Epochs'
  BY <1>1, <1>2 DEF Epochs
<1>4. read(nword, globalepoch, globalepoch + 1) = committed
  BY <1>1, InvRecovers
<1>5. /\ Crashed(nword)' = Crashed(nword) /\ Decoded(nword)' = Decoded(nword)
      /\ read(nword, failedepoch, currexec)' = read(nword, globalepoch, globalepoch + 1)
  BY <1>1 DEF read, Crashed, OfFailedEpoch, Decoded
<1>6. ~Crashed(nword) => Decoded(nword) # globalepoch + 1 /\ Decoded(nword) <= globalepoch + 1
  BY <1>2
<1>7. Crashed(nword) => nword.nextLog.ptr = committed
  BY DEF Inv, LogsCommitted
<1>8. EpochOf(nword)' /\ LogsCommitted(nword)'
  BY <1>1, <1>4, <1>5, <1>6, <1>7 DEF EpochOf, LogsCommitted
<1>9. word' = nword' /\ (~Crashed(nword) => Decoded(nword)' # globalepoch')
  BY <1>1, <1>5, <1>6
<1>10. EpochOf(word)' /\ LogsCommitted(word)' /\ Storing' /\ Value'
  BY <1>1, <1>5, <1>8, <1>9 DEF EpochOf, LogsCommitted, Storing, Value, read, Crashed, OfFailedEpoch, Decoded
<1>. QED  BY <1>3, <1>8, <1>10 DEF Inv

\* What has slipped stays slipped.
LEMMA SlipsStay == ASSUME [Next]_vars, slips' = {} PROVE slips = {}
  BY DEF Next, vars, WriteLog, WriteNext, Evict, Boundary, Crash, Rest

\* Every step keeps the invariant.
LEMMA NextInv == ASSUME PtrAssumption, PtrInv, [Next]_vars PROVE PtrInv'
<1>1. TypeOK'  BY TypeNext DEF PtrInv
<1>2. SUFFICES ASSUME slips' = {} PROVE Inv'  BY <1>1 DEF PtrInv
<1>3. TypeOK /\ Inv  BY <1>2, SlipsStay DEF PtrInv
<1>4. CASE UNCHANGED vars
  BY <1>3, <1>4 DEF vars, Inv, Epochs, EpochOf, LogsCommitted, Storing, Value, read, Crashed,
     OfFailedEpoch, Decoded
<1>5. ASSUME NEW p \in Pointers, WriteLog(p) PROVE Inv'
  BY <1>3, <1>5, WriteLogInv
<1>6. CASE WriteNext  BY <1>2, <1>3, <1>6, WriteNextInv
<1>7. CASE Evict  BY <1>3, <1>7, EvictInv
<1>8. CASE Boundary  BY <1>3, <1>8, BoundaryInv
<1>9. CASE Crash  BY <1>2, <1>3, <1>9, CrashInv
<1>10. CASE Rest  BY <1>4, <1>10 DEF Rest
<1>. QED  BY <1>4, <1>5, <1>6, <1>7, <1>8, <1>9, <1>10 DEF Next

\* Between writes the cache's word reads as the last value.
LEMMA InvReads == ASSUME PtrAssumption, PtrInv PROVE ReadsValue
<1>1. SUFFICES ASSUME slips = {}, storing = Idle PROVE read(word, failedepoch, currexec) = value
  BY DEF ReadsValue, Reads
<1>2. TypeOK /\ Inv  BY <1>1 DEF PtrInv
<1>3. CASE ~Crashed(word) /\ Decoded(word) = globalepoch
  BY <1>1, <1>2, <1>3 DEF Inv, Value, Epochs, read, OfFailedEpoch, TypeOK, PtrAssumption
<1>4. CASE Crashed(word)
  BY <1>1, <1>2, <1>4 DEF Inv, Value, LogsCommitted, read
<1>5. CASE ~Crashed(word) /\ Decoded(word) # globalepoch
  BY <1>1, <1>2, <1>5 DEF Inv, Value, LogsCommitted
<1>. QED  BY <1>3, <1>4, <1>5

\* And the memory's word recovers.
LEMMA InvRecoverable == ASSUME PtrAssumption, PtrInv PROVE PtrRecoverable
  BY InvRecovers DEF PtrInv, PtrRecoverable, Recovers

\* The two words and the epochs keep their types: the halves of an epoch fit
\* their fields whatever the epoch, the validity stays a bit.
THEOREM PtrTypeCorrect == ASSUME PtrAssumption PROVE Spec => []TypeOK
<1>1. Init => PtrInv  BY InitInv
<1>2. PtrInv /\ [Next]_vars => PtrInv'  BY NextInv
<1>3. PtrInv => TypeOK  BY DEF PtrInv
<1>. QED  BY <1>1, <1>2, <1>3, PTL DEF Spec

\* PPP::read returns what PPP::write wrote or, after a failure, the pointer
\* of the last boundary, while every word stored decodes to its epoch and no
\* failure is forgotten.
THEOREM PtrReadsValue == ASSUME PtrAssumption PROVE Spec => []ReadsValue
<1>1. Init => PtrInv  BY InitInv
<1>2. PtrInv /\ [Next]_vars => PtrInv'  BY NextInv
<1>3. PtrInv => ReadsValue  BY InvReads
<1>. QED  BY <1>1, <1>2, <1>3, PTL DEF Spec

\* A PPP recovers to the last boundary wherever the machine stops, under the
\* same conditions.
THEOREM PtrRecovers == ASSUME PtrAssumption PROVE Spec => []PtrRecoverable
<1>1. Init => PtrInv  BY InitInv
<1>2. PtrInv /\ [Next]_vars => PtrInv'  BY NextInv
<1>3. PtrInv => PtrRecoverable  BY InvRecoverable
<1>. QED  BY <1>1, <1>2, <1>3, PTL DEF Spec
=============================================================================
