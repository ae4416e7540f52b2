--------------------------- MODULE PersistentPtr ---------------------------
(***************************************************************************)
(* PPP (kvthread_persistent.hh): a pointer in non-volatile memory that     *)
(* carries its own undo log.  It is two words of one cache line, next and  *)
(* nextLog; each has a pointer, a validity bit and half of the epoch of    *)
(* the last logged write.  The free lists of the allocator are made of     *)
(* them.                                                                   *)
(*                                                                         *)
(* read and write decode the epoch from the half in next and, where they   *)
(* want the other half, from eight bits of the pointer in nextLog: zero    *)
(* for a null pointer, one bit for a pointer into the data region, which   *)
(* starts at 1 << 45.  The result is compared with epochs of 64 bits.  The *)
(* history variable slips tells whether a write stored a word that does    *)
(* not decode to its epoch, or a failure found a word that still relied on *)
(* the failed epoch of the last one.                                       *)
(***************************************************************************)
EXTENDS Integers

CONSTANTS Pointers,   \* the values a pointer takes
          Null,       \* the null pointer, one of them
          EpochRange, \* epochs that a word's field can tell apart (2^16)
          RegionBit,  \* what a pointer into the data region decodes to (2^13)
          StartEpoch, \* the epoch the program starts in
          MaxEpoch    \* bound: the last epoch

\* What the proofs assume of the constants.  MaxEpoch may exceed EpochRange, and
\* mttest starts at timestamp() >> GL_FREQ, which does.
PtrAssumption ==
  /\ Null \in Pointers
  /\ EpochRange \in Nat \ {0} /\ RegionBit \in Nat \ {0}
  /\ StartEpoch \in Nat \ {0} /\ MaxEpoch \in Nat /\ StartEpoch <= MaxEpoch

VARIABLES
  word,         \* the two words as the cache has them
  nword,        \* and as the memory has them
  storing,      \* what write still has to store to next, if anything
  globalepoch, failedepoch, currexec,
  value,        \* history: the pointer last written, or restored
  committed,    \* history: its value at the last boundary
  slips         \* history: what has happened that recovery relies on not to

epochs == <<globalepoch, failedepoch, currexec>>
vars == <<word, nword, storing, globalepoch, failedepoch, currexec, value, committed, slips>>

NextWords == [epoch : 0..EpochRange - 1, ptr : Pointers, valid : {0, 1}]
LogWords == [epoch : 0..EpochRange - 1, ptr : Pointers, valid : {0, 1}]
Words == [next : NextWords, nextLog : LogWords]
Idle == <<>>
SlipKinds == {"epoch", "failure"}

TypeOK ==
  /\ word \in Words /\ nword \in Words
  /\ storing = Idle \/ \E n \in NextWords : storing = <<n>>
  /\ globalepoch \in StartEpoch..MaxEpoch /\ failedepoch \in 0..MaxEpoch /\ currexec \in 0..MaxEpoch
  /\ value \in Pointers /\ committed \in Pointers /\ slips \in SUBSET SlipKinds

\* Zeroed memory: the first epoch is that of a program without a data file.
Init ==
  /\ word = [next |-> [epoch |-> 0, ptr |-> Null, valid |-> 0],
             nextLog |-> [epoch |-> 0, ptr |-> Null, valid |-> 0]]
  /\ nword = word /\ storing = Idle
  /\ globalepoch = StartEpoch /\ failedepoch = 0 /\ currexec = 0
  /\ value = Null /\ committed = Null /\ slips = {}

Crashed(w) == w.next.valid # w.nextLog.valid

\* Bitwise or with one bit.
OrBit(x, bit) == IF (x \div bit) % 2 = 1 THEN x ELSE x + bit

\* n >> 48 | ((nl >> 32) & 0xFF00)
Decoded(w) == IF w.nextLog.ptr = Null THEN w.next.epoch ELSE OrBit(w.next.epoch, RegionBit)

\* epoch < currexec and not epoch_is_valid(epoch)
OfFailedEpoch(w, fe, exec) == Decoded(w) < exec /\ Decoded(w) = fe

\* Fault: a write that was cut short is not noticed.
ReadAnyNext(w, fe, exec) == IF OfFailedEpoch(w, fe, exec) THEN w.nextLog.ptr ELSE w.next.ptr

\* read: next, or its log if the write was cut short or undone by a failure.
read(w, fe, exec) ==
  IF Crashed(w) \/ OfFailedEpoch(w, fe, exec) THEN w.nextLog.ptr ELSE w.next.ptr

\* elow and ehigh: the halves of the epoch.
Low == globalepoch % EpochRange
High == (globalepoch \div EpochRange) % EpochRange

NewNext(p, v) == [epoch |-> Low, ptr |-> p, valid |-> v]

\* Fault: the pointer logged is the new one.
LogWrong(w, p) == [epoch |-> High, ptr |-> p, valid |-> 1 - w.nextLog.valid]

\* Fault: the validity is counted up instead of flipped.
LogCounted(w, p) == [epoch |-> High, ptr |-> w.next.ptr, valid |-> 1 + w.nextLog.valid]

\* The log word of a write that logs: the old pointer and a flipped validity.
LogOf(w, p) == [epoch |-> High, ptr |-> w.next.ptr, valid |-> 1 - w.nextLog.valid]

\* The first store of write.
WriteLog(p) ==
  /\ storing = Idle
  /\ LET w == word
     IN \/ \* previously crashed: keep the log
           /\ Crashed(w)
           /\ word' = [w EXCEPT !.nextLog.epoch = High]
           /\ storing' = <<NewNext(p, w.nextLog.valid)>>
        \/ \* next is of the failed epoch: keep the log's pointer
           /\ ~Crashed(w) /\ OfFailedEpoch(w, failedepoch, currexec)
           /\ word' = [w EXCEPT !.nextLog.epoch = High, !.nextLog.valid = 1 - @]
           /\ storing' = <<NewNext(p, 1 - w.nextLog.valid)>>
        \/ \* logged in this epoch
           /\ ~Crashed(w) /\ ~OfFailedEpoch(w, failedepoch, currexec)
           /\ Decoded(w) = globalepoch
           /\ storing' = <<[w.next EXCEPT !.ptr = p]>>
           /\ UNCHANGED word
        \/ \* the first write of the epoch, as decoded, logs next
           /\ ~Crashed(w) /\ ~OfFailedEpoch(w, failedepoch, currexec)
           /\ Decoded(w) # globalepoch
           /\ word' = [w EXCEPT !.nextLog = LogOf(w, p)]
           /\ storing' = <<NewNext(p, 1 - w.nextLog.valid)>>
  /\ UNCHANGED <<nword, epochs, value, committed, slips>>

\* The second store.
WriteNext ==
  /\ storing # Idle
  /\ word' = [word EXCEPT !.next = storing[1]]
  /\ value' = storing[1].ptr
  /\ storing' = Idle
  /\ slips' = slips \cup IF Decoded(word') = globalepoch THEN {} ELSE {"epoch"}
  /\ UNCHANGED <<nword, epochs, committed>>

\* The cache writes the line back.
Evict ==
  /\ nword # word
  /\ nword' = word
  /\ UNCHANGED <<word, storing, epochs, value, committed, slips>>

\* An epoch boundary.
Boundary ==
  /\ storing = Idle /\ globalepoch < MaxEpoch
  /\ nword' = word
  /\ globalepoch' = globalepoch + 1
  /\ committed' = value
  /\ UNCHANGED <<word, storing, failedepoch, currexec, value, slips>>

\* A word that still relies on the last failure's epoch was not written since.
Settled == Crashed(nword) \/ ~OfFailedEpoch(nword, failedepoch, currexec)

\* A failure and init_exist.  Only the last failed epoch is remembered.
Crash ==
  /\ globalepoch < MaxEpoch
  /\ word' = nword /\ storing' = Idle
  /\ failedepoch' = globalepoch
  /\ globalepoch' = globalepoch + 1 /\ currexec' = globalepoch'
  /\ value' = committed
  /\ slips' = slips \cup IF Settled THEN {} ELSE {"failure"}
  /\ UNCHANGED <<nword, committed>>

\* The bound on epochs is reached and no write is under way.
Rest == globalepoch = MaxEpoch /\ UNCHANGED vars

Next == (\E p \in Pointers : WriteLog(p)) \/ WriteNext \/ Evict \/ Boundary \/ Crash \/ Rest
Spec == Init /\ [][Next]_vars

-----------------------------------------------------------------------------
\* Between writes read returns what was last written or, after a failure,
\* what the pointer was at the last boundary.
Reads == storing = Idle => read(word, failedepoch, currexec) = value

\* If the machine stops now, also between the two stores of a write, the
\* pointer will read as it did at the last boundary.
Recovers == Settled => read(nword, globalepoch, globalepoch + 1) = committed

\* Both are so as long as every word stored decodes to its epoch and every
\* failure finds the pointer recovered from the one before.
ReadsValue == slips = {} => Reads
PtrRecoverable == slips = {} => Recovers

\* What is written reads back at once (operator=: assert(read()==n)).
ReadsBack ==
  storing # Idle =>
    read([word EXCEPT !.next = storing[1]], failedepoch, currexec) = storing[1].ptr
=============================================================================
