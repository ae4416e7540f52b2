------------------------------- MODULE InCLL -------------------------------
(***************************************************************************)
(* One leaf of Durable Masstree, its in-cache-line logs and its entry in   *)
(* the external node log (masstree_struct.hh, class leaf), across epochs,  *)
(* cache evictions and failures.                                           *)
(*                                                                         *)
(* The leaf lives in non-volatile memory, behind the cache. Three of its   *)
(* cache lines matter:                                                     *)
(*   - the header line: permutation_, its log perm_cl0 / cl0_idx, and      *)
(*     loggedepoch, not_logged and the lock bit of the version;            *)
(*   - value line 1: the log word lv_cl1 and lv_[0 .. KEY_MID-1];          *)
(*   - value line 2: lv_[KEY_MID .. KEY_LW-1] and the log word lv_cl2.     *)
(* The processor may write a line back at any time, whole, so the memory   *)
(* copy (nhdr, nlv, ncl) holds, line by line, some past value of the       *)
(* cached one (hdr, lv, cl).  Stores to one line reach memory in program   *)
(* order; lines are written back in any order.                             *)
(*                                                                         *)
(* Abstractions: the permutation is the set of its occupied slots (the     *)
(* order of the keys is Permuter's business); a slot's ikey0_, keylenx_    *)
(* and lv_ words are one value, being assigned together while the slot is  *)
(* free; the epoch boundary (GlobalFlush) is one step; one thread operates *)
(* on the leaf at a time (LazyRecovery is about several).                  *)
(***************************************************************************)
EXTENDS Integers, Sequences

CONSTANTS KEY_LW,    \* slots of a leaf (incll_configs.hh: 14)
          KEY_MID,   \* slots of its first value line (incll_configs.hh: 7)
          EpochMask, \* lv_cl1 / lv_cl2 keep the epoch modulo this (2^7)
          Vals,      \* values
          Absent,    \* not a value: what an empty slot reads as
          MaxEpoch   \* bound: epochs explored

ASSUME LeafAssumption ==
  /\ KEY_LW \in Nat /\ KEY_MID \in Nat
  /\ 0 < KEY_MID /\ KEY_MID < KEY_LW /\ KEY_LW <= 2 * KEY_MID
  /\ EpochMask \in Nat /\ EpochMask > 2
  /\ MaxEpoch \in Nat
  /\ Vals # {} /\ Absent \notin Vals

VARIABLES
  hdr,    \* the header line, as the cache has it
  lv,     \* lv_[], as the cache has it
  cl,     \* cl[1] is lv_cl1, cl[2] is lv_cl2, as the cache has them
  nhdr, nlv, ncl,   \* the same, as the memory has them
  extlog, \* this leaf's images in the node log since the last checkpoint
  globalepoch, failedepoch,
  pc,     \* where the operation in progress is; "down" after a failure
  op,     \* the operation in progress: kind, slot, value
  committed, \* history: what the last epoch boundary saved
  settled    \* history: no undo of an earlier failure is still owed

cache == <<hdr, lv, cl>>
memory == <<nhdr, nlv, ncl>>
epochs == <<globalepoch, failedepoch>>
ghosts == <<committed, settled>>
vars == <<hdr, lv, cl, nhdr, nlv, ncl, extlog, globalepoch, failedepoch, pc, op,
          committed, settled>>

-----------------------------------------------------------------------------
(* Slots, lines, images *)

Slots == 0 .. KEY_LW - 1
Lines == {1, 2}
InvalidIdx == KEY_MID          \* leaf::invalid_idx, 7: one past a line's last
ClIdx == 0 .. KEY_MID

\* Fault: the first slot of line 2 is logged in line 1.
LineOfLate(p) == IF p <= KEY_MID THEN 1 ELSE 2

\* save_cl1_2_update: which line holds slot p, and at which place of it.
LineOf(p) == IF p < KEY_MID THEN 1 ELSE 2

IdxOf(p) == IF p < KEY_MID THEN p ELSE p - KEY_MID

\* recover_lv writes lv[p], recover_lv2 lv[p + KEY_MID].
SlotOf(x, i) == IF x = 1 THEN i ELSE i + KEY_MID

Header == [permutation : SUBSET Slots, perm_cl0 : SUBSET Slots,
           cl0_idx : {0, InvalidIdx}, loggedepoch : Nat,
           not_logged : BOOLEAN, locked : BOOLEAN]
LvLog == [idx : ClIdx, lv : Vals, ep : Nat]
Image == [hdr : Header, lv : [Slots -> Vals], cl : [Lines -> LvLog]]

CacheImage == [hdr |-> hdr, lv |-> lv, cl |-> cl]
MemoryImage == [hdr |-> nhdr, lv |-> nlv, cl |-> ncl]

\* What a reader finds in a leaf image.
Content(img) ==
  [s \in Slots |-> IF s \in img.hdr.permutation THEN img.lv[s] ELSE Absent]

\* invalidate_cls: all three logs are marked unused.
Invalidated(c) == [x \in Lines |-> [c[x] EXCEPT !.idx = InvalidIdx]]

\* update_epochs(e) on the log words; the word keeps the epoch's low bits.
Stamped(c, e) == [x \in Lines |-> [c[x] EXCEPT !.ep = e % EpochMask]]

-----------------------------------------------------------------------------
(* undo_incll *)

Cl0Hit(img, fe) == img.hdr.loggedepoch = fe /\ img.hdr.cl0_idx # InvalidIdx
LvHit(img, x, fe) == img.cl[x].ep = fe /\ img.cl[x].idx # InvalidIdx
AnyHit(img, fe) == Cl0Hit(img, fe) \/ LvHit(img, 1, fe) \/ LvHit(img, 2, fe)

\* Fault: recover_lv puts the whole log word back, index and epoch included.
LvRecoveredUnmasked(img, x) ==
  [img EXCEPT !.lv = [img.lv EXCEPT ![SlotOf(x, img.cl[x].idx)] = img.cl[x]]]

\* recover_cl1 / recover_cl2
LvRecovered(img, x) ==
  [img EXCEPT !.lv = [img.lv EXCEPT ![SlotOf(x, img.cl[x].idx)] = img.cl[x].lv]]

\* The first log that carries the failed epoch is put back; the other two
\* are not looked at.
undo_incll(img, fe) ==
  IF Cl0Hit(img, fe)
    THEN [img EXCEPT !.hdr = [img.hdr EXCEPT !.permutation = img.hdr.perm_cl0]]
  ELSE IF LvHit(img, 1, fe) THEN LvRecovered(img, 1)
  ELSE IF LvHit(img, 2, fe) THEN LvRecovered(img, 2)
  ELSE img

\* lazy_recovery: every access to a leaf that may be older than the failure
\* undoes it first.
lazily(img, fe) == IF img.hdr.loggedepoch <= fe THEN undo_incll(img, fe) ELSE img

\* leaf::reset_state on an image that PExtNodeLogger::undo copied back.
fix_all(img) == [img EXCEPT !.hdr = [img.hdr EXCEPT !.locked = FALSE]]

\* PExtNodeLogger::undo: the records are copied back oldest first, so the
\* last one stays.
undo(img, log) == IF log = <<>> THEN img ELSE fix_all(log[Len(log)])

\* What the leaf would hold if the machine failed now and came back.
Recovered == Content(undo_incll(undo(MemoryImage, extlog), globalepoch))

\* What the program reads from the leaf now, through a recovery still owed.
Visible ==
  IF pc = "down" THEN Content(lazily(undo(CacheImage, extlog), failedepoch))
                 ELSE Content(lazily(CacheImage, failedepoch))

-----------------------------------------------------------------------------
\* No operation in progress.
NoOp == [kind |-> "none", slot |-> 0, val |-> Absent]

(* Initial state: a leaf built in epoch 1, no log in use, then the boundary *)
(* to epoch 2.                                                              *)

Init ==
  /\ \E P \in SUBSET Slots :
       hdr = [permutation |-> P, perm_cl0 |-> {}, cl0_idx |-> InvalidIdx,
              loggedepoch |-> 1, not_logged |-> FALSE, locked |-> FALSE]
  /\ \E v \in Vals :
       /\ lv = [s \in Slots |-> v]
       /\ cl = [x \in Lines |-> [idx |-> InvalidIdx, lv |-> v, ep |-> 1 % EpochMask]]
  /\ op = NoOp
  /\ nhdr = hdr /\ nlv = lv /\ ncl = cl
  /\ extlog = <<>>
  /\ globalepoch = 2 /\ failedepoch = 0
  /\ pc = "idle"
  /\ committed = Content(CacheImage)
  /\ settled = TRUE

-----------------------------------------------------------------------------
(* Finding the leaf: find_unlocked and find_locked *)

\* log_persistent is called before these; save_cl0_insert before an insert,
\* save_cl1_2_update before an update.
LoggedKinds == {"remove", "layer", "split", "rearrange"}

\* What a put or a remove can turn out to be to this leaf.  A row is always
\* new, so a put changes the slot's value.  "rearrange" is make_split's way
\* out when the free slot is slot 0, which holds the leaf's lower bound;
\* "miss" is a remove of a key that is not here.
Applicable ==
  LET P == hdr.permutation
      Fresh(kinds, S) == {o \in [kind : kinds, slot : S, val : Vals] : o.val # lv[o.slot]}
  IN [kind : {"insert"}, slot : Slots \ P, val : Vals]
     \cup [kind : {"rearrange"}, slot : Slots \ (P \cup {0}), val : Vals]
     \cup Fresh({"update", "layer"}, P)
     \cup [kind : {"remove"}, slot : P, val : {Absent}]
     \cup [kind : IF Slots \ {0} \subseteq P THEN {"split", "miss"} ELSE {"miss"},
            slot : {0}, val : {Absent}]

Kinds == LoggedKinds \cup {"insert", "update", "miss"}

\* Fault: a leaf last logged in the failed epoch itself is not recovered.
FindLate(kind) ==
  /\ pc = "idle"
  /\ IF hdr.loggedepoch < failedepoch /\ AnyHit(CacheImage, failedepoch)
       THEN pc' = "undo" /\ op' = [NoOp EXCEPT !.kind = kind]
       ELSE IF kind = "get" THEN UNCHANGED <<pc, op>>
       ELSE pc' = "lock" /\ UNCHANGED op
  /\ UNCHANGED <<cache, memory, extlog, epochs, ghosts>>

\* After reach_leaf: lazy_recovery's test, then the recovery or the lock.
\* A get stops here.
Find(kind) ==
  /\ pc = "idle"
  /\ IF hdr.loggedepoch <= failedepoch /\ AnyHit(CacheImage, failedepoch)
       THEN pc' = "undo" /\ op' = [NoOp EXCEPT !.kind = kind]
       ELSE IF kind = "get" THEN UNCHANGED <<pc, op>>
       ELSE pc' = "lock" /\ UNCHANGED op
  /\ UNCHANGED <<cache, memory, extlog, epochs, ghosts>>

\* undo_incll: recover_cl0, recover_cl1 or recover_cl2.
Undo ==
  /\ pc = "undo"
  /\ LET img == undo_incll(CacheImage, failedepoch) IN hdr' = img.hdr /\ lv' = img.lv
  /\ pc' = "final"
  /\ UNCHANGED <<cl, memory, extlog, epochs, op, ghosts>>

\* recover_final: invalidate_cls, update_epochs(globalepoch - 1).
RecoverFinal ==
  /\ pc = "final"
  /\ hdr' = [hdr EXCEPT !.cl0_idx = InvalidIdx, !.loggedepoch = globalepoch - 1]
  /\ cl' = Stamped(Invalidated(cl), globalepoch - 1)
  /\ pc' = IF op.kind = "get" THEN "idle" ELSE "lock"
  /\ op' = NoOp
  /\ UNCHANGED <<lv, memory, extlog, epochs, ghosts>>

\* find_locked takes the node lock; the cursor knows now what it has to do.
Lock(o) ==
  /\ pc = "lock"
  /\ ~hdr.locked
  /\ hdr' = [hdr EXCEPT !.locked = TRUE]
  /\ op' = o
  /\ pc' = IF o.kind = "miss" THEN "unlock" ELSE "save"
  /\ UNCHANGED <<lv, cl, memory, extlog, epochs, ghosts>>

\* The other thing find_locked does under the lock: the slot leads to a layer
\* whose root has split, and the new root is stored in its place.  Nothing is
\* logged.  Next leaves this out: the values it is about are rows.  The
\* header line is the same before and after, so lock and unlock are one step.
RefreshRoot(p, v) ==
  /\ pc = "lock"
  /\ ~hdr.locked
  /\ p \in hdr.permutation /\ v # lv[p]
  /\ lv' = [lv EXCEPT ![p] = v]
  /\ pc' = "idle"
  /\ UNCHANGED <<hdr, cl, memory, extlog, epochs, op, ghosts>>

-----------------------------------------------------------------------------
(* Logging before the change *)

\* save_cl0_insert, first modification of the epoch: the permutation is
\* copied beside itself.
SaveCl0 ==
  /\ pc = "save" /\ op.kind = "insert" /\ hdr.loggedepoch # globalepoch
  /\ hdr' = [hdr EXCEPT !.perm_cl0 = hdr.permutation, !.cl0_idx = 0]
  /\ pc' = "epoch"
  /\ UNCHANGED <<lv, cl, memory, extlog, epochs, op, ghosts>>

\* save_cl1_2_update, first modification of the epoch: the old value goes to
\* the log word of its own line, with its index and the epoch, in one store.
SaveLv ==
  /\ pc = "save" /\ op.kind = "update" /\ hdr.loggedepoch # globalepoch
  /\ cl' = [cl EXCEPT ![LineOf(op.slot)] =
              [idx |-> IdxOf(op.slot), lv |-> lv[op.slot], ep |-> globalepoch % EpochMask]]
  /\ pc' = "epoch"
  /\ UNCHANGED <<hdr, lv, memory, extlog, epochs, op, ghosts>>

\* The rest of both: update_epochs(globalepoch); not_logged = true.
UpdateEpochs ==
  /\ pc = "epoch"
  /\ hdr' = [hdr EXCEPT !.loggedepoch = globalepoch, !.not_logged = TRUE]
  /\ cl' = Stamped(cl, globalepoch)
  /\ pc' = "store"
  /\ UNCHANGED <<lv, memory, extlog, epochs, op, ghosts>>

\* Fault: the leaf is not stamped with the epoch it was recorded in.
RecordAgain ==
  /\ pc = "save"
  /\ hdr.not_logged \/ (op.kind \in LoggedKinds /\ hdr.loggedepoch # globalepoch)
  /\ op.kind \notin LoggedKinds => hdr.loggedepoch = globalepoch
  /\ extlog' = Append(extlog, [hdr |-> [hdr EXCEPT !.not_logged = FALSE],
                               lv |-> lv, cl |-> cl])
  /\ hdr' = [hdr EXCEPT !.not_logged = FALSE, !.cl0_idx = InvalidIdx]
  /\ cl' = Invalidated(cl)
  /\ pc' = "store"
  /\ UNCHANGED <<lv, memory, epochs, op, ghosts>>

\* A later modification of the epoch, or one no line log can undo: the node,
\* line logs included, goes to the node log, which is durable when record
\* returns; then the line logs are marked unused. log_persistent also stamps
\* the leaf.
Record ==
  /\ pc = "save"
  /\ hdr.not_logged \/ (op.kind \in LoggedKinds /\ hdr.loggedepoch # globalepoch)
  /\ op.kind \notin LoggedKinds => hdr.loggedepoch = globalepoch
  /\ extlog' = Append(extlog, [hdr |-> [hdr EXCEPT !.not_logged = FALSE],
                               lv |-> lv, cl |-> cl])
  /\ hdr' = [hdr EXCEPT !.not_logged = FALSE, !.cl0_idx = InvalidIdx,
                        !.loggedepoch = globalepoch]
  /\ cl' = Invalidated(cl)
  /\ pc' = "store"
  /\ UNCHANGED <<lv, memory, epochs, op, ghosts>>

\* Already in the node log since this epoch began.
SaveNothing ==
  /\ pc = "save" /\ hdr.loggedepoch = globalepoch /\ ~hdr.not_logged
  /\ pc' = "store"
  /\ UNCHANGED <<cache, memory, extlog, epochs, op, ghosts>>

-----------------------------------------------------------------------------
(* The change itself *)

\* assign, and the caller's store through lp.value(): the slot is written.
StoreSlot ==
  /\ pc = "store" /\ op.kind \in {"insert", "rearrange", "update", "layer"}
  /\ lv' = [lv EXCEPT ![op.slot] = op.val]
  /\ pc' = IF op.kind \in {"insert", "rearrange"} THEN "publish" ELSE "unlock"
  /\ UNCHANGED <<hdr, cl, memory, extlog, epochs, op, ghosts>>

\* finish_insert: the new permutation makes the slot visible.
Publish ==
  /\ pc = "publish"
  /\ hdr' = [hdr EXCEPT !.permutation = @ \cup {op.slot}]
  /\ pc' = "unlock"
  /\ UNCHANGED <<lv, cl, memory, extlog, epochs, op, ghosts>>

\* finish_remove: the permutation without the slot.
StoreRemove ==
  /\ pc = "store" /\ op.kind = "remove"
  /\ hdr' = [hdr EXCEPT !.permutation = @ \ {op.slot}]
  /\ pc' = "unlock"
  /\ UNCHANGED <<lv, cl, memory, extlog, epochs, op, ghosts>>

\* make_split on the left leaf: keys S stay, the others are in the new
\* sibling; the key being put goes to the sibling or, split_type 0, to a slot
\* this leaf has just freed.
StoreSplit(S) ==
  /\ pc = "store" /\ op.kind = "split"
  /\ S \subseteq hdr.permutation
  /\ hdr' = [hdr EXCEPT !.permutation = S]
  /\ \/ pc' = "unlock" /\ UNCHANGED op
     \/ /\ S # hdr.permutation
        /\ pc' = "store"
        /\ op' \in [kind : {"rearrange"}, slot : Slots \ S, val : Vals]
  /\ UNCHANGED <<lv, cl, memory, extlog, epochs, ghosts>>

\* tcursor::finish
Unlock ==
  /\ pc = "unlock"
  /\ hdr' = [hdr EXCEPT !.locked = FALSE]
  /\ pc' = "idle"
  /\ op' = NoOp
  /\ UNCHANGED <<lv, cl, memory, extlog, epochs, ghosts>>

-----------------------------------------------------------------------------
(* The machine *)

\* The cache writes the header line back.
EvictHeader ==
  /\ pc # "down"
  /\ nhdr' = hdr
  /\ UNCHANGED <<cache, nlv, ncl, extlog, epochs, pc, op, ghosts>>

\* The cache writes value line x back.
EvictLine(x) ==
  /\ pc # "down"
  /\ nlv' = [s \in Slots |-> IF LineOf(s) = x THEN lv[s] ELSE nlv[s]]
  /\ ncl' = [ncl EXCEPT ![x] = cl[x]]
  /\ UNCHANGED <<cache, nhdr, extlog, epochs, pc, op, ghosts>>

\* advance_epoch: with every thread at the barrier the whole cache is
\* flushed, the epoch moves on and the node log is checkpointed.
AdvanceEpoch ==
  /\ pc = "idle"
  /\ globalepoch < MaxEpoch
  /\ nhdr' = hdr /\ nlv' = lv /\ ncl' = cl
  /\ extlog' = <<>>
  /\ globalepoch' = globalepoch + 1
  /\ committed' = Visible
  /\ settled' = (settled \/ ~AnyHit(CacheImage, failedepoch))
  /\ UNCHANGED <<cache, failedepoch, pc, op>>

\* A failure: what is in the cache is gone. write_failed_epoch remembers the
\* epoch that did not end.
Crash ==
  /\ pc # "down"
  /\ globalepoch < MaxEpoch
  /\ hdr' = nhdr /\ lv' = nlv /\ cl' = ncl
  /\ failedepoch' = globalepoch
  /\ pc' = "down"
  /\ op' = NoOp
  /\ settled' = (settled /\ extlog = <<>> /\ ~AnyHit(MemoryImage, globalepoch))
  /\ UNCHANGED <<memory, extlog, globalepoch, committed>>

\* PDataAllocator::init (globalepoch = failedepoch + 1), then the undo of the
\* node log, which leaves last_flush = curr.
Restart ==
  /\ pc = "down"
  /\ LET img == undo(CacheImage, extlog)
     IN hdr' = img.hdr /\ lv' = img.lv /\ cl' = img.cl
  /\ extlog' = <<>>
  /\ globalepoch' = failedepoch + 1
  /\ pc' = "idle"
  /\ UNCHANGED <<memory, failedepoch, op, ghosts>>

Next ==
  \/ \E kind \in {"get", "write"} : Find(kind)
  \/ Undo
  \/ RecoverFinal
  \/ \E o \in Applicable : Lock(o)
  \/ SaveCl0
  \/ SaveLv
  \/ UpdateEpochs
  \/ Record
  \/ SaveNothing
  \/ StoreSlot
  \/ Publish
  \/ StoreRemove
  \/ \E S \in SUBSET Slots : StoreSplit(S)
  \/ Unlock
  \/ EvictHeader
  \/ \E x \in Lines : EvictLine(x)
  \/ AdvanceEpoch
  \/ Crash
  \/ Restart

Spec == Init /\ [][Next]_vars

-----------------------------------------------------------------------------
(* What undo_incll relies on.  The first is its own comment ("assume only   *)
(* one cacheline is active at a given time"), the others are what a single  *)
(* failedepoch and a seven-bit epoch can tell apart.                        *)

OneLineActive ==
  \/ hdr.cl0_idx = InvalidIdx /\ \E x \in Lines : cl[x].idx = InvalidIdx
  \/ \A x \in Lines : cl[x].idx = InvalidIdx

EpochFits == globalepoch < EpochMask

FailsSettled == (pc # "down" /\ pc' = "down") => settled

AssumedNext == Next /\ OneLineActive' /\ EpochFits' /\ FailsSettled

AssumedSpec == Init /\ [][AssumedNext]_vars

-----------------------------------------------------------------------------
(* Properties *)

PCs == {"idle", "undo", "final", "lock", "save", "epoch", "store", "publish",
        "unlock", "down"}

\* Every field of the leaf, in cache, memory and node log, has its type: what
\* a recovery writes to lv_ is a value, at a slot of the leaf.
TypeOK ==
  /\ hdr \in Header /\ nhdr \in Header
  /\ lv \in [Slots -> Vals] /\ nlv \in [Slots -> Vals]
  /\ cl \in [Lines -> LvLog] /\ ncl \in [Lines -> LvLog]
  /\ extlog \in Seq(Image)
  /\ globalepoch \in Nat \ {0} /\ failedepoch \in Nat
  /\ pc \in PCs
  /\ op \in [kind : Kinds \cup {"none", "get", "write"}, slot : Slots,
          val : Vals \cup {Absent}]
  /\ op.kind \in {"insert", "rearrange", "update", "layer"} => op.val \in Vals
  /\ committed \in [Slots -> Vals \cup {Absent}]
  /\ settled \in BOOLEAN

\* However far the cache lines have been written back, a failure now brings
\* the leaf back to what it held at the last epoch boundary.
CrashRecoverable == (pc # "down" /\ settled) => Recovered = committed

\* The leaf goes to the node log at most once per epoch: undo copies records
\* back in log order, so a second one would bring a half-done epoch back.
RecordedOnce == Len(extlog) <= 1

DL == INSTANCE DurableLeaf WITH live <- Visible

\* Operations, evictions, recoveries and failures together implement the
\* map with checkpoints: each put or remove takes effect at one store, a
\* failure falls back to the checkpoint, and neither a line log, a write-back
\* nor a lazy recovery is ever visible.
DurableRefinement == DL!Spec
=============================================================================
