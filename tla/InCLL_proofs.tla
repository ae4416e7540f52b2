--------------------------- MODULE InCLL_proofs ---------------------------
(***************************************************************************)
(* InCLL, proved for every leaf width, every set of values and any number  *)
(* of epochs: under what undo_incll relies on (AssumedSpec), the leaf can  *)
(* be recovered after a failure at any moment, is recorded in the node log *)
(* at most once per epoch, and implements DurableLeaf.                     *)
(***************************************************************************)
EXTENDS InCLL, TLAPS

-----------------------------------------------------------------------------
(* The inductive invariant.  Once the leaf owes no undo to an earlier       *)
(* failure (settled), it is, within an epoch, in one of four situations.    *)

\* No log word or header is stamped with an epoch still to come.
Bounds ==
  /\ globalepoch < EpochMask
  /\ IF pc = "down" THEN failedepoch = globalepoch ELSE failedepoch < globalepoch
  /\ hdr.loggedepoch <= globalepoch /\ nhdr.loggedepoch <= globalepoch
  /\ \A x \in Lines : cl[x].ep <= globalepoch /\ ncl[x].ep <= globalepoch
  /\ \A i \in 1 .. Len(extlog) : extlog[i].hdr.loggedepoch <= globalepoch
  /\ \A i \in 1 .. Len(extlog) :
       \A x \in Lines : extlog[i].cl[x].ep <= globalepoch

\* The node log holds this leaf exactly when the header says so.
LogState ==
  /\ Len(extlog) <= 1
  /\ (pc # "down" /\ (hdr.loggedepoch # globalepoch \/ hdr.not_logged)) => extlog = <<>>
  /\ (pc # "down" /\ hdr.loggedepoch = globalepoch /\ ~hdr.not_logged) => Len(extlog) = 1

\* lazily has nothing to do.
Clean == hdr.loggedepoch <= failedepoch => ~AnyHit(CacheImage, failedepoch)

\* What each place of an operation knows.
PcInv ==
  /\ pc \in {"idle", "lock", "down"} => op.kind = "none"
  /\ pc \in {"lock", "save", "unlock"} => Clean
  /\ pc = "undo" => hdr.loggedepoch <= failedepoch /\ AnyHit(CacheImage, failedepoch)
  /\ pc = "final" =>
       /\ hdr.loggedepoch <= failedepoch
       /\ Content(undo_incll(CacheImage, failedepoch)) = Content(CacheImage)
  /\ pc = "epoch" =>
       /\ hdr.loggedepoch # globalepoch
       /\ hdr.loggedepoch <= failedepoch =>
            /\ \A x \in Lines : ~LvHit(CacheImage, x, failedepoch)
            /\ Cl0Hit(CacheImage, failedepoch) => hdr.permutation = hdr.perm_cl0
       /\ op.kind \in {"insert", "update"}
       /\ op.kind = "insert" =>
            /\ hdr.cl0_idx = 0 /\ hdr.perm_cl0 = hdr.permutation
            /\ op.slot \notin hdr.permutation
       /\ op.kind = "update" =>
            /\ op.slot \in hdr.permutation
            /\ cl[LineOf(op.slot)] =
                 [idx |-> IdxOf(op.slot), lv |-> lv[op.slot], ep |-> globalepoch]
  /\ pc \in {"store", "publish"} => hdr.loggedepoch = globalepoch
  /\ pc = "publish" => op.kind \in {"insert", "rearrange"} /\ lv[op.slot] = op.val
  /\ pc = "save" =>
       /\ op.kind = "insert" => op.slot \notin hdr.permutation
       /\ op.kind = "update" => op.slot \in hdr.permutation

\* Not touched in this epoch: memory still holds the checkpoint.
Untouched ==
  /\ nhdr.permutation = hdr.permutation
  /\ nlv = lv
  /\ Content(CacheImage) = committed
  /\ nhdr.loggedepoch < globalepoch
  /\ \A x \in Lines : LvHit(MemoryImage, x, globalepoch) =>
       /\ LvHit(CacheImage, x, globalepoch)
       /\ ncl[x] = cl[x]
  /\ \A x \in Lines : LvHit(CacheImage, x, globalepoch) =>
       pc = "epoch" /\ op.kind = "update" /\ x = LineOf(op.slot)

\* One insert, or inserts only: the old permutation is beside the new one.
Inserted ==
  /\ hdr.cl0_idx = 0
  /\ \A x \in Lines : cl[x].idx = InvalidIdx
  /\ \A s \in Slots : committed[s] = IF s \in hdr.perm_cl0 THEN lv[s] ELSE Absent
  /\ \A s \in hdr.perm_cl0 : nlv[s] = lv[s]
  /\ \/ nhdr.loggedepoch < globalepoch /\ nhdr.permutation = hdr.perm_cl0
     \/ nhdr.loggedepoch = globalepoch /\ nhdr.cl0_idx = 0
        /\ nhdr.perm_cl0 = hdr.perm_cl0
  /\ \A x \in Lines : ~LvHit(MemoryImage, x, globalepoch)
  /\ pc = "store" => op.kind = "insert" /\ op.slot \notin hdr.perm_cl0

\* One update, of a slot of line x: the old value is in the line's log word.
Updated(x) ==
  LET p == SlotOf(x, cl[x].idx)
  IN /\ cl[x].idx # InvalidIdx /\ cl[x].ep = globalepoch
     /\ p \in Slots /\ LineOf(p) = x
     /\ \A y \in Lines : y # x => cl[y].idx = InvalidIdx
     /\ hdr.cl0_idx = InvalidIdx
     /\ nhdr.permutation = hdr.permutation
     /\ \A s \in Slots : committed[s] =
          IF s \in hdr.permutation THEN IF s = p THEN cl[x].lv ELSE lv[s] ELSE Absent
     /\ \A s \in Slots : s # p => nlv[s] = lv[s]
     /\ ~Cl0Hit(MemoryImage, globalepoch)
     /\ IF LvHit(MemoryImage, x, globalepoch) THEN ncl[x] = cl[x]
                                               ELSE nlv[p] = cl[x].lv
     /\ \A y \in Lines : y # x => ~LvHit(MemoryImage, y, globalepoch)
     /\ pc = "store" => op.kind = "update" /\ op.slot = p
     /\ pc # "publish"

\* In the node log, as the epoch found it once its line logs are undone.
Logged == Content(undo_incll(undo(MemoryImage, extlog), globalepoch)) = committed

Situation ==
  (settled /\ pc # "down") =>
    /\ pc \notin {"undo", "final"}
    /\ pc = "idle" => Clean
    /\ hdr.loggedepoch # globalepoch => Untouched
    /\ (hdr.loggedepoch = globalepoch /\ hdr.not_logged) =>
         Inserted \/ \E x \in Lines : Updated(x)
    /\ (hdr.loggedepoch = globalepoch /\ ~hdr.not_logged) => Logged

\* After a failure that left nothing to undo.
DownInv ==
  pc = "down" =>
    /\ hdr = nhdr /\ lv = nlv /\ cl = ncl
    /\ settled => /\ extlog = <<>>
                  /\ Content(MemoryImage) = committed
                  /\ ~AnyHit(MemoryImage, failedepoch)
    /\ Content(undo_incll(undo(MemoryImage, extlog), failedepoch)) = committed

IInv == TypeOK /\ Bounds /\ LogState /\ PcInv /\ Situation /\ DownInv /\ OneLineActive

-----------------------------------------------------------------------------
(* Images *)

USE DEF Lines, InvalidIdx, ClIdx

\* Every slot has one place in one line, and recover_lv / recover_lv2 find it
\* again.
LEMMA SlotFacts ==
  /\ \A p \in Slots : /\ LineOf(p) \in Lines /\ IdxOf(p) \in ClIdx
                     /\ IdxOf(p) # InvalidIdx
                     /\ SlotOf(LineOf(p), IdxOf(p)) = p
  /\ InvalidIdx \in Nat /\ InvalidIdx # 0
  BY LeafAssumption DEF Slots, LineOf, IdxOf, SlotOf

\* The leaf in the cache and the leaf in memory are leaf images.
LEMMA ImageTypes ==
  ASSUME TypeOK
  PROVE  CacheImage \in Image /\ MemoryImage \in Image
  BY DEF TypeOK, CacheImage, MemoryImage, Image

\* What undo_incll gives back, case by case.
LEMMA UndoCases ==
  ASSUME NEW img \in Image, NEW fe
  PROVE  /\ Cl0Hit(img, fe) =>
              Content(undo_incll(img, fe)) =
                [s \in Slots |-> IF s \in img.hdr.perm_cl0 THEN img.lv[s] ELSE Absent]
         /\ ~AnyHit(img, fe) => undo_incll(img, fe) = img
         /\ \A x \in Lines :
              (~Cl0Hit(img, fe) /\ LvHit(img, x, fe)
                /\ \A y \in Lines : y # x => ~LvHit(img, y, fe)) =>
              Content(undo_incll(img, fe)) =
                [s \in Slots |-> IF s \in img.hdr.permutation
                                 THEN IF s = SlotOf(x, img.cl[x].idx) THEN img.cl[x].lv
                                                                      ELSE img.lv[s]
                                 ELSE Absent]
  <1>1. Cl0Hit(img, fe) =>
              Content(undo_incll(img, fe)) =
                [s \in Slots |-> IF s \in img.hdr.perm_cl0 THEN img.lv[s] ELSE Absent]
    BY DEF Image, Header, Content, undo_incll
  <1>2. ~AnyHit(img, fe) => undo_incll(img, fe) = img
    BY DEF undo_incll, AnyHit
  <1>3. ASSUME NEW x \in Lines, ~Cl0Hit(img, fe), LvHit(img, x, fe),
               \A y \in Lines : y # x => ~LvHit(img, y, fe)
        PROVE  Content(undo_incll(img, fe)) =
                [s \in Slots |-> IF s \in img.hdr.permutation
                                 THEN IF s = SlotOf(x, img.cl[x].idx) THEN img.cl[x].lv
                                                                      ELSE img.lv[s]
                                 ELSE Absent]
    <2>1. undo_incll(img, fe) = LvRecovered(img, x)
      BY <1>3 DEF undo_incll
    <2>2. LvRecovered(img, x).hdr = img.hdr
      BY DEF LvRecovered, Image
    <2>3. LvRecovered(img, x).lv = [img.lv EXCEPT ![SlotOf(x, img.cl[x].idx)] = img.cl[x].lv]
      BY DEF LvRecovered, Image
    <2>4. img.lv \in [Slots -> Vals]
      BY DEF Image
    <2> QED
      BY <2>1, <2>2, <2>3, <2>4 DEF Content
  <1> QED
    BY <1>1, <1>2, <1>3

-----------------------------------------------------------------------------
(* Type correctness *)

\* The constructor builds a well-typed leaf.
LEMMA TypeInit == Init => TypeOK
  <1> SUFFICES ASSUME Init PROVE TypeOK
    OBVIOUS
  <1>1. hdr \in Header
    BY SlotFacts DEF Init, Header
  <1>2. lv \in [Slots -> Vals]
    BY DEF Init
  <1>3. cl \in [Lines -> LvLog]
    BY LeafAssumption, SlotFacts DEF Init, LvLog
  <1>4. op \in [kind : Kinds \cup {"none", "get", "write"}, slot : Slots,
               val : Vals \cup {Absent}]
    BY LeafAssumption DEF Init, NoOp, Slots
  <1>5. committed \in [Slots -> Vals \cup {Absent}]
    BY <1>2 DEF Init, Content, CacheImage
  <1> QED
    BY <1>1, <1>2, <1>3, <1>4, <1>5 DEF Init, TypeOK, PCs, NoOp

\* What a reader finds in an image is a map from slots to values.
LEMMA ContentType ==
  ASSUME NEW img \in Image
  PROVE  Content(img) \in [Slots -> Vals \cup {Absent}]
  BY DEF Content, Image

\* undo_incll gives back a leaf image.
LEMMA UndoType ==
  ASSUME NEW img \in Image, NEW fe
  PROVE  undo_incll(img, fe) \in Image
  BY SlotFacts DEF undo_incll, LvRecovered, Image, Header, LvLog

\* So does the undo of the node log.
LEMMA UndoLogType ==
  ASSUME NEW img \in Image, NEW log \in Seq(Image)
  PROVE  /\ undo(img, log) \in Image
         /\ log = <<>> => undo(img, log) = img
         /\ log # <<>> => /\ undo(img, log).hdr =
                               [log[Len(log)].hdr EXCEPT !.locked = FALSE]
                         /\ undo(img, log).lv = log[Len(log)].lv
                         /\ undo(img, log).cl = log[Len(log)].cl
  <1>1. CASE log = <<>>
    BY <1>1 DEF undo
  <1>2. CASE log # <<>>
    <2>1. log[Len(log)] \in Image
      BY <1>2
    <2> DEFINE last == log[Len(log)]
    <2>2. undo(img, log) = [last EXCEPT !.hdr = [last.hdr EXCEPT !.locked = FALSE]]
      BY <1>2 DEF undo, fix_all
    <2> HIDE DEF last
    <2>3. [last.hdr EXCEPT !.locked = FALSE] \in Header
      BY <2>1 DEF Image, Header, last
    <2> QED
      BY <1>2, <2>1, <2>2, <2>3 DEF Image, last
  <1> QED
    BY <1>1, <1>2

\* invalidate_cls and update_epochs keep the log words well typed; what they
\* change and what they leave.
LEMMA LogTypes ==
  ASSUME NEW c \in [Lines -> LvLog], NEW e \in Nat
  PROVE  /\ Invalidated(c) \in [Lines -> LvLog]
         /\ Stamped(c, e) \in [Lines -> LvLog]
         /\ \A x \in Lines : /\ Invalidated(c)[x].idx = InvalidIdx
                             /\ Invalidated(c)[x].lv = c[x].lv
                             /\ Invalidated(c)[x].ep = c[x].ep
         /\ \A x \in Lines : /\ Stamped(c, e)[x].idx = c[x].idx
                             /\ Stamped(c, e)[x].lv = c[x].lv
                             /\ Stamped(c, e)[x].ep = e % EpochMask
  BY LeafAssumption, SlotFacts DEF Invalidated, Stamped, LvLog

\* Every step keeps the types.
LEMMA TypeNext == TypeOK /\ [Next]_vars => TypeOK'
  <1> SUFFICES ASSUME TypeOK, [Next]_vars PROVE TypeOK'
    OBVIOUS
  <1> USE DEF TypeOK, cache, memory, epochs, ghosts, PCs
  <1>n. /\ NoOp \in [kind : Kinds \cup {"none", "get", "write"}, slot : Slots,
                     val : Vals \cup {Absent}]
        /\ NoOp.kind = "none"
    BY LeafAssumption DEF NoOp, Slots
  <1>v. op.slot \in Slots /\ op.kind \in Kinds \cup {"none", "get", "write"}
    OBVIOUS
  <1>1. ASSUME NEW kind \in {"get", "write"}, Find(kind) PROVE TypeOK'
    BY <1>1, LeafAssumption DEF Find, NoOp, Slots
  <1>2. CASE Undo
    <2>1. undo_incll(CacheImage, failedepoch) \in Image
      BY UndoType, ImageTypes
    <2> QED
      BY <1>2, <2>1 DEF Undo, Image
  <1>3. CASE RecoverFinal
    <2>1. globalepoch - 1 \in Nat
      OBVIOUS
    <2>2. Stamped(Invalidated(cl), globalepoch - 1) \in [Lines -> LvLog]
      BY <2>1, LogTypes
    <2>3. hdr' \in Header
      BY <1>3, <2>1 DEF RecoverFinal, Header
    <2> QED
      BY <1>3, <1>n, <2>2, <2>3 DEF RecoverFinal
  <1>4. ASSUME NEW o \in Applicable, Lock(o) PROVE TypeOK'
    <2>1. hdr.permutation \in SUBSET Slots /\ hdr' \in Header
      BY <1>4 DEF Lock, Header
    <2>2. /\ o \in [kind : Kinds \cup {"none", "get", "write"}, slot : Slots,
                   val : Vals \cup {Absent}]
          /\ o.kind \in {"insert", "rearrange", "update", "layer"} => o.val \in Vals
      BY <2>1, LeafAssumption DEF Applicable, Kinds, LoggedKinds, Slots
    <2> QED
      <3>1. op' = o /\ pc' \in PCs
        BY <1>4 DEF Lock
      <3>2. UNCHANGED <<lv, cl, nhdr, nlv, ncl, extlog, globalepoch, failedepoch,
                        committed, settled>>
        BY <1>4 DEF Lock
      <3>3. op' \in [kind : Kinds \cup {"none", "get", "write"}, slot : Slots,
                    val : Vals \cup {Absent}]
        BY <2>2, <3>1
      <3>4. op'.kind \in {"insert", "rearrange", "update", "layer"} => op'.val \in Vals
        BY <2>2, <3>1
      <3> QED
        BY <2>1, <3>1, <3>2, <3>3, <3>4
  <1>5. CASE SaveCl0
    BY <1>5 DEF SaveCl0, Header
  <1>6. CASE SaveLv
    <2>1. globalepoch % EpochMask \in Nat
      BY LeafAssumption
    <2>2. [idx |-> IdxOf(op.slot), lv |-> lv[op.slot], ep |-> globalepoch % EpochMask]
             \in LvLog
      BY <1>v, <2>1, SlotFacts DEF LvLog
    <2> QED
      BY <1>6, <2>2 DEF SaveLv
  <1>7. CASE UpdateEpochs
    <2>1. hdr' \in Header
      BY <1>7 DEF UpdateEpochs, Header
    <2> QED
      BY <1>7, <2>1, LogTypes DEF UpdateEpochs
  <1>8. CASE Record
    <2>1. hdr' \in Header /\ [hdr EXCEPT !.not_logged = FALSE] \in Header
      BY <1>8 DEF Record, Header
    <2>2. [hdr |-> [hdr EXCEPT !.not_logged = FALSE], lv |-> lv, cl |-> cl] \in Image
      BY <2>1 DEF Image
    <2> QED
      <3>1. extlog' \in Seq(Image)
        BY <1>8, <2>2 DEF Record
      <3>2. cl' \in [Lines -> LvLog]
        BY <1>8, LogTypes DEF Record
      <3> QED
        BY <1>8, <2>1, <3>1, <3>2 DEF Record
  <1>9. CASE SaveNothing
    BY <1>9 DEF SaveNothing
  <1>10. CASE StoreSlot
    <2>1. op.val \in Vals
      BY <1>10 DEF StoreSlot
    <2> QED
      BY <1>10, <2>1 DEF StoreSlot
  <1>11. CASE Publish
    BY <1>11, <1>v DEF Publish, Header
  <1>12. CASE StoreRemove
    BY <1>12 DEF StoreRemove, Header
  <1>13. ASSUME NEW S \in SUBSET Slots, StoreSplit(S) PROVE TypeOK'
    <2>1. hdr' \in Header
      BY <1>13 DEF StoreSplit, Header
    <2>2. /\ op' \in [kind : Kinds \cup {"none", "get", "write"}, slot : Slots,
                     val : Vals \cup {Absent}]
          /\ op'.kind \in {"insert", "rearrange", "update", "layer"} => op'.val \in Vals
      BY <1>13 DEF StoreSplit, Kinds, LoggedKinds
    <2> QED
      <3>1. pc' \in PCs
        BY <1>13 DEF StoreSplit
      <3>2. UNCHANGED <<lv, cl, nhdr, nlv, ncl, extlog, globalepoch, failedepoch,
                        committed, settled>>
        BY <1>13 DEF StoreSplit
      <3> QED
        BY <2>1, <2>2, <3>1, <3>2
  <1>14. CASE Unlock
    BY <1>14, <1>n DEF Unlock, Header
  <1>15. CASE EvictHeader
    BY <1>15 DEF EvictHeader
  <1>16. ASSUME NEW x \in Lines, EvictLine(x) PROVE TypeOK'
    BY <1>16 DEF EvictLine
  <1>17. CASE AdvanceEpoch
    <2>1. Visible \in [Slots -> Vals \cup {Absent}]
      BY ImageTypes, UndoType, UndoLogType, ContentType DEF Visible, lazily
    <2>2. (settled \/ ~AnyHit(CacheImage, failedepoch)) \in BOOLEAN
      OBVIOUS
    <2> QED
      BY <1>17, <2>1, <2>2 DEF AdvanceEpoch
  <1>18. CASE Crash
    <2>1. settled' \in BOOLEAN
      BY <1>18 DEF Crash
    <2> QED
      BY <1>18, <1>n, <2>1 DEF Crash
  <1>19. CASE Restart
    <2>1. undo(CacheImage, extlog) \in Image
      BY ImageTypes, UndoLogType
    <2> QED
      BY <1>19, <2>1 DEF Restart, Image
  <1>20. CASE UNCHANGED vars
    BY <1>20 DEF vars
  <1> QED
    BY <1>1, <1>2, <1>3, <1>4, <1>5, <1>6, <1>7, <1>8, <1>9, <1>10, <1>11, <1>12,
       <1>13, <1>14, <1>15, <1>16, <1>17, <1>18, <1>19, <1>20 DEF Next

-----------------------------------------------------------------------------
(* The epochs *)

\* An epoch below the mask survives the log word's seven bits.
LEMMA ModFits ==
  ASSUME NEW e \in Nat, e < EpochMask
  PROVE  e % EpochMask = e
  BY LeafAssumption

\* No image, in the node log or beside it, is stamped with a later epoch.
LEMMA UndoLogBounds ==
  ASSUME TypeOK, Bounds
  PROVE  /\ undo(CacheImage, extlog).hdr.loggedepoch <= globalepoch
         /\ \A y \in Lines : undo(CacheImage, extlog).cl[y].ep <= globalepoch
  <1>1. CacheImage \in Image /\ extlog \in Seq(Image)
    BY ImageTypes DEF TypeOK
  <1>2. CASE extlog = <<>>
    <2>1. undo(CacheImage, extlog) = CacheImage
      BY <1>1, <1>2, UndoLogType
    <2> QED
      BY <2>1 DEF Bounds, CacheImage
  <1>3. CASE extlog # <<>>
    <2>1. Len(extlog) \in 1 .. Len(extlog) /\ extlog[Len(extlog)] \in Image
      BY <1>1, <1>3
    <2>2. extlog[Len(extlog)].hdr \in Header
      BY <2>1 DEF Image
    <2>3. /\ undo(CacheImage, extlog).hdr = [extlog[Len(extlog)].hdr EXCEPT !.locked = FALSE]
          /\ undo(CacheImage, extlog).cl = extlog[Len(extlog)].cl
      BY <1>1, <1>3, UndoLogType
    <2>4. undo(CacheImage, extlog).hdr.loggedepoch = extlog[Len(extlog)].hdr.loggedepoch
      BY <2>2, <2>3 DEF Header
    <2> QED
      BY <2>1, <2>3, <2>4 DEF Bounds
  <1> QED
    BY <1>2, <1>3

\* In particular not the one Restart copies back.
LEMMA UndoLogFits ==
  TypeOK /\ Bounds => undo(CacheImage, extlog).hdr.loggedepoch <= globalepoch
  BY UndoLogBounds

\* Every step keeps the epochs of the leaf's copies below the global one.
LEMMA BoundsNext == IInv /\ AssumedNext => Bounds'
  <1> SUFFICES ASSUME IInv, AssumedNext PROVE Bounds'
    OBVIOUS
  <1> USE DEF cache, memory, epochs, ghosts
  <1>t. TypeOK /\ TypeOK' /\ Bounds /\ globalepoch' < EpochMask
    BY TypeNext DEF IInv, AssumedNext, EpochFits
  <1>m. globalepoch % EpochMask = globalepoch /\ (globalepoch - 1) % EpochMask = globalepoch - 1
    <2>1. globalepoch \in Nat /\ globalepoch - 1 \in Nat /\ EpochMask \in Nat
      BY <1>t, LeafAssumption DEF TypeOK
    <2>2. globalepoch < EpochMask /\ globalepoch - 1 < EpochMask
      BY <1>t, <2>1 DEF Bounds
    <2> QED
      BY <2>1, <2>2, ModFits
  <1>1. ASSUME NEW kind \in {"get", "write"}, Find(kind) PROVE Bounds'
    BY <1>1, <1>t, <1>m DEF Bounds, TypeOK, Header, LvLog, Find, NoOp
  <1>2. CASE Undo
    <2>1. undo_incll(CacheImage, failedepoch).hdr.loggedepoch = hdr.loggedepoch
      BY <1>t, ImageTypes DEF undo_incll, LvRecovered, Image, Header, CacheImage
    <2> QED
      BY <1>2, <1>t, <2>1 DEF Undo, Bounds, TypeOK
  <1>3. CASE RecoverFinal
    <2>1. \A y \in Lines : cl'[y].ep = globalepoch - 1
      <3>1. globalepoch - 1 \in Nat /\ cl \in [Lines -> LvLog]
        BY <1>t DEF TypeOK
      <3>2. Invalidated(cl) \in [Lines -> LvLog]
        BY <3>1, LogTypes
      <3> QED
        BY <1>3, <1>m, <3>1, <3>2, LogTypes DEF RecoverFinal
    <2>2. hdr'.loggedepoch = globalepoch - 1 /\ globalepoch \in Nat
      BY <1>3, <1>t DEF RecoverFinal, TypeOK, Header
    <2>3. UNCHANGED <<nhdr, ncl, extlog, globalepoch, failedepoch>>
          /\ pc = "final" /\ pc' # "down"
      BY <1>3 DEF RecoverFinal
    <2> QED
      BY <1>t, <2>1, <2>2, <2>3 DEF Bounds
  <1>4. ASSUME NEW o \in Applicable, Lock(o) PROVE Bounds'
    BY <1>4, <1>t, <1>m DEF Bounds, TypeOK, Header, LvLog, Lock
  <1>5. CASE SaveCl0
    BY <1>5, <1>t, <1>m DEF Bounds, TypeOK, Header, LvLog, SaveCl0
  <1>6. CASE SaveLv
    <2>1. \A y \in Lines : cl'[y].ep <= globalepoch
      BY <1>6, <1>t, <1>m, SlotFacts DEF SaveLv, Bounds, TypeOK, LvLog
    <2> QED
      BY <1>6, <1>t, <2>1 DEF SaveLv, Bounds, TypeOK, Header, LvLog
  <1>7. CASE UpdateEpochs
    <2>0. cl \in [Lines -> LvLog] /\ globalepoch \in Nat
      BY <1>t DEF TypeOK
    <2>1. \A y \in Lines : cl'[y].ep = globalepoch
      BY <1>7, <1>m, <2>0, LogTypes DEF UpdateEpochs
    <2> QED
      BY <1>7, <1>t, <2>1, SMTT(20) DEF UpdateEpochs, Bounds, TypeOK, Header, LvLog
  <1>8. CASE Record
    <2>1. \A y \in Lines : cl'[y].ep = cl[y].ep
      BY <1>8, <1>t, LogTypes, ZenonT(30) DEF Record, TypeOK, LvLog
    <2>2. hdr'.loggedepoch = globalepoch
      BY <1>8, <1>t DEF Record, TypeOK, Header
    <2>3. \A i \in 1 .. Len(extlog') :
            /\ extlog'[i].hdr.loggedepoch <= globalepoch
            /\ \A y \in Lines : extlog'[i].cl[y].ep <= globalepoch
      BY <1>8, <1>t DEF Record, Bounds, TypeOK, Header
    <2> QED
      BY <1>8, <1>t, <2>1, <2>2, <2>3 DEF Record, Bounds, TypeOK
  <1>9. CASE SaveNothing
    BY <1>9, <1>t, <1>m DEF Bounds, TypeOK, Header, LvLog, SaveNothing
  <1>10. CASE StoreSlot
    BY <1>10, <1>t, <1>m DEF Bounds, TypeOK, Header, LvLog, StoreSlot
  <1>11. CASE Publish
    BY <1>11, <1>t, <1>m DEF Bounds, TypeOK, Header, LvLog, Publish
  <1>12. CASE StoreRemove
    BY <1>12, <1>t, <1>m DEF Bounds, TypeOK, Header, LvLog, StoreRemove
  <1>13. ASSUME NEW S \in SUBSET Slots, StoreSplit(S) PROVE Bounds'
    BY <1>13, <1>t, <1>m DEF Bounds, TypeOK, Header, LvLog, StoreSplit
  <1>14. CASE Unlock
    BY <1>14, <1>t, <1>m DEF Bounds, TypeOK, Header, LvLog, Unlock
  <1>15. CASE EvictHeader
    BY <1>15, <1>t, <1>m DEF Bounds, TypeOK, Header, LvLog, EvictHeader
  <1>16. ASSUME NEW x \in Lines, EvictLine(x) PROVE Bounds'
    BY <1>16, <1>t, <1>m DEF Bounds, TypeOK, Header, LvLog, EvictLine
  <1>17. CASE AdvanceEpoch
    BY <1>17, <1>t, <1>m DEF Bounds, TypeOK, Header, LvLog, AdvanceEpoch
  <1>18. CASE Crash
    BY <1>18, <1>t, <1>m DEF Bounds, TypeOK, Header, LvLog, Crash
  <1>19. CASE Restart
    <2>2. undo(CacheImage, extlog).hdr.loggedepoch <= globalepoch
          /\ \A y \in Lines : undo(CacheImage, extlog).cl[y].ep <= globalepoch
      BY <1>t, UndoLogBounds
    <2>3. /\ hdr' = undo(CacheImage, extlog).hdr /\ cl' = undo(CacheImage, extlog).cl
          /\ pc = "down" /\ pc' = "idle" /\ extlog' = <<>>
          /\ globalepoch' = failedepoch + 1
          /\ UNCHANGED <<nhdr, ncl, failedepoch>>
      BY <1>19 DEF Restart
    <2>4. /\ globalepoch \in Nat /\ hdr' \in Header /\ nhdr \in Header
          /\ cl' \in [Lines -> LvLog] /\ ncl \in [Lines -> LvLog]
      BY <1>t DEF TypeOK
    <2>5. hdr'.loggedepoch \in Nat /\ nhdr.loggedepoch \in Nat
          /\ \A y \in Lines : cl'[y].ep \in Nat /\ ncl[y].ep \in Nat
      BY <2>4 DEF Header, LvLog
    <2>6. failedepoch = globalepoch
      BY <1>t, <2>3 DEF Bounds
    <2>7. /\ hdr'.loggedepoch <= globalepoch' /\ nhdr'.loggedepoch <= globalepoch'
          /\ \A y \in Lines : cl'[y].ep <= globalepoch' /\ ncl'[y].ep <= globalepoch'
      BY <1>t, <2>2, <2>3, <2>4, <2>5, <2>6 DEF Bounds
    <2> QED
      BY <1>t, <2>3, <2>4, <2>6, <2>7 DEF Bounds
  <1> QED
    BY <1>1, <1>2, <1>3, <1>4, <1>5, <1>6, <1>7, <1>8, <1>9, <1>10, <1>11, <1>12,
       <1>13, <1>14, <1>15, <1>16, <1>17, <1>18, <1>19 DEF AssumedNext, Next

-----------------------------------------------------------------------------
(* The node log *)

\* Every step keeps the node log to at most one record, of this epoch.
LEMMA LogStateNext == IInv /\ AssumedNext => LogState'
  <1> SUFFICES ASSUME IInv, AssumedNext PROVE LogState'
    OBVIOUS
  <1> USE DEF cache, memory, epochs, ghosts
  <1>t. TypeOK /\ Bounds /\ LogState /\ PcInv
    BY DEF IInv
  <1>1. ASSUME NEW kind \in {"get", "write"}, Find(kind) PROVE LogState'
    BY <1>1, <1>t DEF LogState, TypeOK, Header, Find, NoOp
  <1>2. CASE Undo
    <2>1. /\ undo_incll(CacheImage, failedepoch).hdr.loggedepoch = hdr.loggedepoch
          /\ undo_incll(CacheImage, failedepoch).hdr.not_logged = hdr.not_logged
      BY <1>t, ImageTypes DEF undo_incll, LvRecovered, Image, Header, CacheImage
    <2> QED
      BY <1>2, <1>t, <2>1 DEF Undo, LogState
  <1>3. CASE RecoverFinal
    <2>1. hdr.loggedepoch # globalepoch /\ globalepoch - 1 # globalepoch
      BY <1>3, <1>t DEF RecoverFinal, Bounds, PcInv, TypeOK, Header
    <2> QED
      BY <1>3, <1>t, <2>1 DEF RecoverFinal, LogState, TypeOK, Header
  <1>4. ASSUME NEW o \in Applicable, Lock(o) PROVE LogState'
    BY <1>4, <1>t DEF LogState, TypeOK, Header, Lock
  <1>5. CASE SaveCl0
    BY <1>5, <1>t DEF LogState, TypeOK, Header, SaveCl0
  <1>6. CASE SaveLv
    BY <1>6, <1>t DEF LogState, TypeOK, Header, SaveLv
  <1>7. CASE UpdateEpochs
    BY <1>7, <1>t DEF UpdateEpochs, LogState, PcInv, TypeOK, Header
  <1>8. CASE Record
    <2>1. extlog = <<>> /\ pc' # "down"
      BY <1>8, <1>t DEF Record, LogState
    <2>2. Len(extlog') = 1
      BY <1>8, <2>1 DEF Record
    <2>3. hdr'.loggedepoch = globalepoch' /\ ~hdr'.not_logged
      BY <1>8, <1>t DEF Record, TypeOK, Header
    <2> QED
      BY <2>1, <2>2, <2>3 DEF LogState
  <1>9. CASE SaveNothing
    BY <1>9, <1>t DEF LogState, TypeOK, Header, SaveNothing
  <1>10. CASE StoreSlot
    BY <1>10, <1>t DEF LogState, TypeOK, Header, StoreSlot
  <1>11. CASE Publish
    BY <1>11, <1>t DEF LogState, TypeOK, Header, Publish
  <1>12. CASE StoreRemove
    BY <1>12, <1>t DEF LogState, TypeOK, Header, StoreRemove
  <1>13. ASSUME NEW S \in SUBSET Slots, StoreSplit(S) PROVE LogState'
    BY <1>13, <1>t DEF LogState, TypeOK, Header, StoreSplit
  <1>14. CASE Unlock
    BY <1>14, <1>t DEF LogState, TypeOK, Header, Unlock
  <1>15. CASE EvictHeader
    BY <1>15, <1>t DEF LogState, TypeOK, Header, EvictHeader
  <1>16. ASSUME NEW x \in Lines, EvictLine(x) PROVE LogState'
    BY <1>16, <1>t DEF LogState, TypeOK, Header, EvictLine
  <1>17. CASE AdvanceEpoch
    <2>1. hdr'.loggedepoch # globalepoch'
      BY <1>17, <1>t DEF AdvanceEpoch, Bounds, TypeOK, Header
    <2> QED
      BY <1>17, <2>1 DEF AdvanceEpoch, LogState
  <1>18. CASE Crash
    BY <1>18, <1>t DEF LogState, TypeOK, Header, Crash
  <1>19. CASE Restart
    <2>1. undo(CacheImage, extlog).hdr.loggedepoch <= globalepoch
      BY <1>t, UndoLogBounds
    <2>2. hdr'.loggedepoch <= globalepoch /\ globalepoch' = globalepoch + 1
      BY <1>19, <1>t, <2>1 DEF Restart, Bounds
    <2>3. undo(CacheImage, extlog) \in Image
      BY <1>t, ImageTypes, UndoLogType DEF TypeOK
    <2>4. hdr'.loggedepoch \in Nat /\ globalepoch \in Nat
      BY <1>19, <1>t, <2>3 DEF Restart, TypeOK, Image, Header
    <2>5. hdr'.loggedepoch # globalepoch'
      BY <2>2, <2>4
    <2> QED
      BY <1>19, <2>5 DEF Restart, LogState
  <1> QED
    BY <1>1, <1>2, <1>3, <1>4, <1>5, <1>6, <1>7, <1>8, <1>9, <1>10, <1>11, <1>12,
       <1>13, <1>14, <1>15, <1>16, <1>17, <1>18, <1>19 DEF AssumedNext, Next

-----------------------------------------------------------------------------
(* What each place of an operation knows *)

\* Putting a log back twice is putting it back once.
LEMMA UndoTwice ==
  ASSUME NEW img \in Image, NEW fe
  PROVE  Content(undo_incll(undo_incll(img, fe), fe)) = Content(undo_incll(img, fe))
  <1> DEFINE once == undo_incll(img, fe)
  <1>1. once \in Image
    BY UndoType
  <1>2. CASE Cl0Hit(img, fe)
    <2>1. /\ once.hdr.permutation = img.hdr.perm_cl0 /\ once.hdr.perm_cl0 = img.hdr.perm_cl0
          /\ once.lv = img.lv /\ Cl0Hit(once, fe)
      BY <1>2 DEF undo_incll, Image, Header, Cl0Hit
    <2> HIDE DEF once
    <2>2. Content(undo_incll(once, fe)) =
            [s \in Slots |-> IF s \in once.hdr.perm_cl0 THEN once.lv[s] ELSE Absent]
      BY <1>1, <2>1, UndoCases
    <2> QED
      BY <2>1, <2>2 DEF Content, once
  <1>3. ASSUME ~Cl0Hit(img, fe), NEW x \in Lines, once = LvRecovered(img, x),
               x = 2 => ~LvHit(img, 1, fe), LvHit(img, x, fe)
        PROVE  Content(undo_incll(once, fe)) = Content(once)
    <2>1. /\ once.hdr = img.hdr /\ once.cl = img.cl
          /\ once.lv = [img.lv EXCEPT ![SlotOf(x, img.cl[x].idx)] = img.cl[x].lv]
      BY <1>3 DEF LvRecovered, Image
    <2> HIDE DEF once
    <2>2. undo_incll(once, fe) = LvRecovered(once, x)
      BY <1>3, <2>1 DEF undo_incll, Cl0Hit, LvHit
    <2>3. /\ LvRecovered(once, x).hdr = once.hdr
          /\ LvRecovered(once, x).lv = [once.lv EXCEPT ![SlotOf(x, img.cl[x].idx)] = img.cl[x].lv]
      BY <1>1, <2>1 DEF LvRecovered, Image
    <2>4. img.lv \in [Slots -> Vals]
      BY DEF Image
    <2>5. LvRecovered(once, x).lv = once.lv
      BY <2>1, <2>3, <2>4
    <2> QED
      BY <2>2, <2>3, <2>5 DEF Content
  <1>4. CASE ~Cl0Hit(img, fe) /\ LvHit(img, 1, fe)
    BY <1>3, <1>4 DEF undo_incll
  <1>5. CASE ~Cl0Hit(img, fe) /\ ~LvHit(img, 1, fe) /\ LvHit(img, 2, fe)
    BY <1>3, <1>5 DEF undo_incll
  <1>6. CASE ~AnyHit(img, fe)
    BY <1>6, UndoCases
  <1> QED
    BY <1>2, <1>4, <1>5, <1>6 DEF AnyHit

\* Every step keeps what each place of an operation knows.
LEMMA PcInvNext == IInv /\ AssumedNext => PcInv'
  <1> SUFFICES ASSUME IInv, AssumedNext PROVE PcInv'
    OBVIOUS
  <1> USE DEF cache, memory, epochs, ghosts
  <1>t. TypeOK /\ Bounds /\ PcInv
    BY DEF IInv
  <1>e. /\ hdr.loggedepoch \in Nat /\ globalepoch \in Nat /\ failedepoch \in Nat
        /\ pc # "down" => ~(globalepoch <= failedepoch) /\ globalepoch # failedepoch
    BY <1>t DEF TypeOK, Header, Bounds
  <1>1. ASSUME NEW kind \in {"get", "write"}, Find(kind) PROVE PcInv'
    <2>1. CacheImage' = CacheImage /\ UNCHANGED <<hdr, lv, cl, globalepoch, failedepoch>>
      BY <1>1 DEF Find, CacheImage
    <2>2. \/ pc' = "idle"
          \/ pc' = "lock" /\ Clean
          \/ pc' = "undo" /\ hdr.loggedepoch <= failedepoch /\ AnyHit(CacheImage, failedepoch)
      BY <1>1 DEF Find, Clean
    <2> QED
      BY <1>t, <1>1, <2>1, <2>2 DEF Find, PcInv, Clean, AnyHit, Cl0Hit, LvHit
  <1>2. CASE Undo
    <2>1. CacheImage \in Image
      BY <1>t, ImageTypes
    <2> DEFINE img == undo_incll(CacheImage, failedepoch)
    <2>2. img \in Image /\ img.cl = cl /\ img.hdr.loggedepoch = hdr.loggedepoch
      BY <2>1, UndoType DEF undo_incll, LvRecovered, Image, Header, CacheImage
    <2>3. CacheImage' = img
      BY <1>2, <2>2 DEF Undo, CacheImage, Image
    <2>4. Content(undo_incll(img, failedepoch)) = Content(img)
      BY <2>1, UndoTwice
    <2>5. hdr'.loggedepoch <= failedepoch' /\ pc' = "final"
          /\ UNCHANGED failedepoch
      BY <1>2, <1>t, <2>2 DEF Undo, PcInv
    <2>6. Content(undo_incll(CacheImage, failedepoch))' = Content(CacheImage)'
      <3>1. Content(undo_incll(CacheImage', failedepoch')) = Content(CacheImage')
        BY <2>3, <2>4, <2>5
      <3> QED
        BY <3>1 DEF Content, undo_incll, Cl0Hit, LvHit, LvRecovered
    <2> HIDE DEF img
    <2> QED
      BY <2>5, <2>6 DEF PcInv
  <1>3. CASE RecoverFinal
    <2>1. /\ cl \in [Lines -> LvLog] /\ globalepoch - 1 \in Nat
      BY <1>t DEF TypeOK
    <2>2. Invalidated(cl) \in [Lines -> LvLog]
          /\ \A y \in Lines : Invalidated(cl)[y].idx = InvalidIdx
      BY <2>1, LogTypes
    <2>3. \A y \in Lines : cl'[y].idx = InvalidIdx
      <3> DEFINE c == Invalidated(cl)
      <3>1. cl' = Stamped(c, globalepoch - 1)
        BY <1>3 DEF RecoverFinal
      <3>2. c \in [Lines -> LvLog] /\ \A y \in Lines : c[y].idx = InvalidIdx
        BY <2>2
      <3> HIDE DEF c
      <3>3. \A y \in Lines : Stamped(c, globalepoch - 1)[y].idx = c[y].idx
        BY <2>1, <3>2, LogTypes
      <3> QED
        BY <3>1, <3>2, <3>3
    <2>4. hdr'.cl0_idx = InvalidIdx
      BY <1>3, <1>t DEF RecoverFinal, TypeOK, Header
    <2>5. Clean'
      BY <2>3, <2>4 DEF Clean, AnyHit, Cl0Hit, LvHit, CacheImage
    <2> QED
      BY <1>3, <2>5 DEF RecoverFinal, PcInv, NoOp
  <1>4. ASSUME NEW o \in Applicable, Lock(o) PROVE PcInv'
    <2>1. /\ hdr'.permutation = hdr.permutation /\ hdr'.loggedepoch = hdr.loggedepoch
          /\ hdr'.cl0_idx = hdr.cl0_idx
      BY <1>4, <1>t DEF Lock, TypeOK, Header
    <2>2. Clean /\ UNCHANGED <<cl, failedepoch>>
      BY <1>4, <1>t DEF Lock, PcInv
    <2>3. Clean'
      BY <2>1, <2>2 DEF Clean, AnyHit, Cl0Hit, LvHit, CacheImage
    <2>4. /\ o.kind = "insert" => o.slot \notin hdr.permutation
          /\ o.kind = "update" => o.slot \in hdr.permutation
      BY DEF Applicable
    <2> QED
      BY <1>4, <2>1, <2>3, <2>4 DEF Lock, PcInv
  <1>5. CASE SaveCl0
    <2>1. /\ hdr'.permutation = hdr.permutation /\ hdr'.loggedepoch = hdr.loggedepoch
          /\ hdr'.cl0_idx = 0 /\ hdr'.perm_cl0 = hdr.permutation
      BY <1>5, <1>t DEF SaveCl0, TypeOK, Header
    <2>2. Clean /\ op.slot \notin hdr.permutation
      BY <1>5, <1>t DEF SaveCl0, PcInv
    <2>3. /\ pc' = "epoch" /\ op.kind = "insert" /\ hdr.loggedepoch # globalepoch
          /\ UNCHANGED <<cl, op, globalepoch, failedepoch>>
      BY <1>5 DEF SaveCl0
    <2> QED
      BY <2>1, <2>2, <2>3 DEF PcInv, Clean, AnyHit, Cl0Hit, LvHit, CacheImage
  <1>6. CASE SaveLv
    <2>1. Clean /\ op.slot \in hdr.permutation
      BY <1>6, <1>t DEF SaveLv, PcInv
    <2>2. /\ pc' = "epoch" /\ op.kind = "update" /\ hdr.loggedepoch # globalepoch
          /\ UNCHANGED <<hdr, lv, op, globalepoch, failedepoch>>
      BY <1>6 DEF SaveLv
    <2>3. globalepoch % EpochMask = globalepoch /\ LineOf(op.slot) \in Lines
      BY <1>t, ModFits, SlotFacts DEF TypeOK, Bounds
    <2>4. cl'[LineOf(op.slot)] =
             [idx |-> IdxOf(op.slot), lv |-> lv[op.slot], ep |-> globalepoch]
          /\ \A y \in Lines : y # LineOf(op.slot) => cl'[y] = cl[y]
      BY <1>6, <1>t, <2>3 DEF SaveLv, TypeOK
    <2>5. failedepoch # globalepoch
      BY <1>6, <1>e DEF SaveLv
    <2>6. hdr.loggedepoch <= failedepoch =>
            /\ \A y \in Lines : ~LvHit(CacheImage', y, failedepoch)
            /\ ~Cl0Hit(CacheImage', failedepoch)
      BY <2>1, <2>2, <2>4, <2>5 DEF Clean, AnyHit, Cl0Hit, LvHit, CacheImage
    <2> QED
      BY <2>1, <2>2, <2>4, <2>6 DEF PcInv, Cl0Hit, LvHit
  <1>7. CASE UpdateEpochs
    BY <1>7, <1>t DEF UpdateEpochs, PcInv, TypeOK, Header
  <1>8. CASE Record
    BY <1>8, <1>t DEF Record, PcInv, TypeOK, Header
  <1>9. CASE SaveNothing
    BY <1>9 DEF SaveNothing, PcInv
  <1>10. CASE StoreSlot
    <2>1. lv'[op.slot] = op.val /\ op.slot \in Slots
      BY <1>10, <1>t DEF StoreSlot, TypeOK
    <2> QED
      BY <1>10, <1>t, <1>e, <2>1 DEF StoreSlot, PcInv, Clean
  <1>11. CASE Publish
    BY <1>11, <1>t, <1>e DEF PcInv, Clean, TypeOK, Header, Publish
  <1>12. CASE StoreRemove
    BY <1>12, <1>t, <1>e DEF PcInv, Clean, TypeOK, Header, StoreRemove
  <1>13. ASSUME NEW S \in SUBSET Slots, StoreSplit(S) PROVE PcInv'
    BY <1>13, <1>t, <1>e DEF PcInv, Clean, TypeOK, Header, StoreSplit
  <1>14. CASE Unlock
    BY <1>14 DEF Unlock, PcInv, NoOp
  <1>15. CASE EvictHeader
    BY <1>15, <1>t DEF EvictHeader, PcInv, Clean, CacheImage, AnyHit, Cl0Hit, LvHit, Content,
                     undo_incll, LvRecovered
  <1>16. ASSUME NEW x \in Lines, EvictLine(x) PROVE PcInv'
    BY <1>16, <1>t DEF EvictLine, PcInv, Clean, CacheImage, AnyHit, Cl0Hit, LvHit, Content,
                     undo_incll, LvRecovered
  <1>17. CASE AdvanceEpoch
    BY <1>17, <1>t DEF AdvanceEpoch, PcInv
  <1>18. CASE Crash
    BY <1>18 DEF Crash, PcInv, NoOp
  <1>19. CASE Restart
    BY <1>19, <1>t DEF Restart, PcInv
  <1> QED
    BY <1>1, <1>2, <1>3, <1>4, <1>5, <1>6, <1>7, <1>8, <1>9, <1>10, <1>11, <1>12,
       <1>13, <1>14, <1>15, <1>16, <1>17, <1>18, <1>19 DEF AssumedNext, Next

-----------------------------------------------------------------------------
(* From the situation to recovery *)

\* The memory as it is, node log and line logs undone, is the checkpoint.
LEMMA Recoverable ==
  ASSUME IInv, settled, pc # "down"
  PROVE  Recovered = committed
  <1>t. /\ TypeOK /\ Bounds /\ LogState /\ PcInv
        /\ MemoryImage \in Image /\ CacheImage \in Image
        /\ extlog \in Seq(Image)
    BY ImageTypes DEF IInv, TypeOK
  <1>c. committed \in [Slots -> Vals \cup {Absent}] /\ nhdr.loggedepoch \in Nat
        /\ globalepoch \in Nat
    BY <1>t DEF TypeOK, Header
  <1>s. /\ hdr.loggedepoch # globalepoch => Untouched
        /\ (hdr.loggedepoch = globalepoch /\ hdr.not_logged) =>
             Inserted \/ \E x \in Lines : Updated(x)
        /\ (hdr.loggedepoch = globalepoch /\ ~hdr.not_logged) => Logged
    BY DEF IInv, Situation
  <1>l. (hdr.loggedepoch # globalepoch \/ hdr.not_logged) =>
          Recovered = Content(undo_incll(MemoryImage, globalepoch))
    BY <1>t, UndoLogType DEF LogState, Recovered
  <1> DEFINE Old == Content(undo_incll(MemoryImage, globalepoch))
  <1>n. ~AnyHit(MemoryImage, globalepoch) =>
          Old = [s \in Slots |-> IF s \in nhdr.permutation THEN nlv[s] ELSE Absent]
    BY <1>t, UndoCases DEF Content, MemoryImage
  <1>0. Cl0Hit(MemoryImage, globalepoch) =>
          Old = [s \in Slots |-> IF s \in nhdr.perm_cl0 THEN nlv[s] ELSE Absent]
    BY <1>t, UndoCases DEF MemoryImage
  <1>x. ASSUME NEW x \in Lines, ~Cl0Hit(MemoryImage, globalepoch),
               LvHit(MemoryImage, x, globalepoch),
               \A y \in Lines : y # x => ~LvHit(MemoryImage, y, globalepoch)
        PROVE  Old = [s \in Slots |-> IF s \in nhdr.permutation
                                      THEN IF s = SlotOf(x, ncl[x].idx) THEN ncl[x].lv
                                                                        ELSE nlv[s]
                                      ELSE Absent]
    BY <1>t, <1>x, UndoCases DEF MemoryImage
  <1>1. CASE hdr.loggedepoch # globalepoch
    <2> HIDE DEF Old
    <2>u. Untouched /\ ~Cl0Hit(MemoryImage, globalepoch)
      BY <1>1, <1>s, <1>c DEF Untouched, Cl0Hit, MemoryImage
    <2>c. \A s \in Slots : committed[s] = IF s \in nhdr.permutation THEN nlv[s] ELSE Absent
      BY <2>u DEF Untouched, Content, CacheImage
    <2>1. CASE \A y \in Lines : ~LvHit(MemoryImage, y, globalepoch)
      BY <1>1, <1>l, <1>n, <1>c, <2>u, <2>c, <2>1 DEF AnyHit, Old
    <2>2. ASSUME NEW x \in Lines, LvHit(MemoryImage, x, globalepoch)
          PROVE  Recovered = committed
      <3>1. /\ pc = "epoch" /\ op.kind = "update" /\ x = LineOf(op.slot) /\ ncl[x] = cl[x]
            /\ \A y \in Lines : y # x => ~LvHit(MemoryImage, y, globalepoch)
        BY <2>u, <2>2 DEF Untouched
      <3>2. /\ ncl[x] = [idx |-> IdxOf(op.slot), lv |-> lv[op.slot], ep |-> globalepoch]
            /\ op.slot \in Slots /\ nlv = lv
        BY <1>t, <2>u, <3>1 DEF PcInv, TypeOK, Untouched
      <3>3. SlotOf(x, ncl[x].idx) = op.slot /\ ncl[x].lv = nlv[op.slot]
        BY <3>1, <3>2, SlotFacts
      <3>4. Old = [s \in Slots |-> IF s \in nhdr.permutation
                                      THEN IF s = op.slot THEN nlv[op.slot] ELSE nlv[s]
                                      ELSE Absent]
        BY <1>x, <2>u, <2>2, <3>1, <3>3
      <3> QED
        BY <1>1, <1>l, <1>c, <2>c, <3>4 DEF Old
    <2> QED
      BY <2>1, <2>2
  <1>2. CASE hdr.loggedepoch = globalepoch /\ hdr.not_logged /\ Inserted
    <2> HIDE DEF Old
    <2>1. CASE nhdr.loggedepoch < globalepoch
      <3>1. ~AnyHit(MemoryImage, globalepoch) /\ nhdr.permutation = hdr.perm_cl0
        BY <1>2, <1>c, <2>1 DEF Inserted, AnyHit, Cl0Hit, MemoryImage
      <3> QED
        BY <1>2, <1>l, <1>n, <1>c, <3>1 DEF Inserted, Old
    <2>2. CASE ~(nhdr.loggedepoch < globalepoch)
      <3>1. Cl0Hit(MemoryImage, globalepoch) /\ nhdr.perm_cl0 = hdr.perm_cl0
        BY <1>2, <2>2, SlotFacts DEF Inserted, Cl0Hit, MemoryImage
      <3> QED
        BY <1>2, <1>l, <1>0, <1>c, <3>1 DEF Inserted, Old
    <2> QED
      BY <2>1, <2>2
  <1>3. ASSUME hdr.loggedepoch = globalepoch, hdr.not_logged, NEW x \in Lines, Updated(x)
        PROVE  Recovered = committed
    <2> HIDE DEF Old
    <2>1. CASE LvHit(MemoryImage, x, globalepoch)
      BY <1>3, <1>l, <1>x, <1>c, <2>1 DEF Updated, Old
    <2>2. CASE ~LvHit(MemoryImage, x, globalepoch)
      <3>1. ~AnyHit(MemoryImage, globalepoch)
        BY <1>3, <2>2 DEF Updated, AnyHit
      <3> QED
        BY <1>3, <1>l, <1>n, <1>c, <2>2, <3>1 DEF Updated, Old
    <2> QED
      BY <2>1, <2>2
  <1>4. CASE hdr.loggedepoch = globalepoch /\ ~hdr.not_logged
    BY <1>4, <1>s DEF Logged, Recovered
  <1> QED
    BY <1>1, <1>2, <1>3, <1>4, <1>s

\* The leaf as the cache has it, its line logs undone, is the checkpoint too:
\* what record puts in the node log.
LEMMA RecordsCheckpoint ==
  ASSUME IInv, settled, pc = "save", hdr.loggedepoch # globalepoch \/ hdr.not_logged
  PROVE  Content(undo_incll(CacheImage, globalepoch)) = committed
  <1>t. TypeOK /\ CacheImage \in Image /\ committed \in [Slots -> Vals \cup {Absent}]
    BY ImageTypes DEF IInv, TypeOK
  <1>s. /\ hdr.loggedepoch # globalepoch => Untouched
        /\ (hdr.loggedepoch = globalepoch /\ hdr.not_logged) =>
             Inserted \/ \E x \in Lines : Updated(x)
    BY DEF IInv, Situation
  <1>1. CASE hdr.loggedepoch # globalepoch
    <2>1. Untouched /\ ~AnyHit(CacheImage, globalepoch)
      BY <1>1, <1>s DEF Untouched, AnyHit, Cl0Hit, CacheImage
    <2> QED
      BY <1>t, <2>1, UndoCases DEF Untouched
  <1>2. CASE hdr.loggedepoch = globalepoch /\ Inserted
    <2>1. Cl0Hit(CacheImage, globalepoch)
      BY <1>2, SlotFacts DEF Inserted, Cl0Hit, CacheImage
    <2>2. Content(undo_incll(CacheImage, globalepoch)) =
            [s \in Slots |-> IF s \in hdr.perm_cl0 THEN lv[s] ELSE Absent]
      BY <1>t, <2>1, UndoCases DEF CacheImage
    <2> QED
      BY <1>t, <1>2, <2>2 DEF Inserted
  <1>3. ASSUME hdr.loggedepoch = globalepoch, NEW x \in Lines, Updated(x)
        PROVE  Content(undo_incll(CacheImage, globalepoch)) = committed
    <2>1. /\ ~Cl0Hit(CacheImage, globalepoch) /\ LvHit(CacheImage, x, globalepoch)
          /\ \A y \in Lines : y # x => ~LvHit(CacheImage, y, globalepoch)
      BY <1>3 DEF Updated, Cl0Hit, LvHit, CacheImage
    <2>2. Content(undo_incll(CacheImage, globalepoch)) =
            [s \in Slots |-> IF s \in hdr.permutation
                             THEN IF s = SlotOf(x, cl[x].idx) THEN cl[x].lv ELSE lv[s]
                             ELSE Absent]
      BY <1>t, <2>1, UndoCases DEF CacheImage
    <2> QED
      BY <1>t, <1>3, <2>2 DEF Updated
  <1> QED
    BY <1>1, <1>2, <1>3, <1>s

\* A node log that is in use keeps saying the same.
LEMMA LoggedStays ==
  ASSUME TypeOK, LogState, pc # "down", Logged,
         hdr.loggedepoch = globalepoch, ~hdr.not_logged,
         UNCHANGED <<extlog, globalepoch, committed>>
  PROVE  Logged'
  <1>1. Len(extlog) = 1
    BY DEF LogState
  <1>2. Len(<<>>) = 0
    OBVIOUS
  <1>3. extlog # <<>>
    BY <1>1, <1>2
  <1> QED
    BY <1>3 DEF Logged, undo, undo_incll, Cl0Hit, LvHit, LvRecovered, Content

\* A step that leaves the leaf and the memory alone, but for the lock bit.
LEMMA SituationFrame ==
  ASSUME TypeOK, LogState, Situation, settled, pc # "down",
         pc \notin {"epoch", "store"}, pc' \notin {"store", "publish", "undo", "final"},
         pc' = "idle" => Clean,
         UNCHANGED <<lv, cl, nhdr, nlv, ncl, extlog, globalepoch, failedepoch, committed>>,
         hdr'.permutation = hdr.permutation, hdr'.perm_cl0 = hdr.perm_cl0,
         hdr'.cl0_idx = hdr.cl0_idx, hdr'.loggedepoch = hdr.loggedepoch,
         hdr'.not_logged = hdr.not_logged
  PROVE  Situation'
  <1>1. Untouched => Untouched'
    BY DEF Untouched, Content, CacheImage, MemoryImage, LvHit
  <1>2. Inserted => Inserted'
    BY DEF Inserted, MemoryImage, LvHit
  <1>3. ASSUME NEW x \in Lines, Updated(x) PROVE Updated(x)'
    BY <1>3 DEF Updated, MemoryImage, LvHit, Cl0Hit
  <1>4. Clean => Clean'
    BY DEF Clean, AnyHit, Cl0Hit, LvHit, CacheImage
  <1>5. (Logged /\ hdr.loggedepoch = globalepoch /\ ~hdr.not_logged) => Logged'
    BY LoggedStays
  <1> QED
    BY <1>1, <1>2, <1>3, <1>4, <1>5 DEF Situation

\* Every step leaves the leaf in one of the four situations: untouched in this
\* epoch, inserted into, updated in one line, or in the node log.
LEMMA SituationNext == IInv /\ AssumedNext => Situation'
  <1> SUFFICES ASSUME IInv, AssumedNext, settled', pc' # "down"
               PROVE  Situation'
    BY DEF Situation
  <1> USE DEF cache, memory, epochs, ghosts
  <1>t. TypeOK /\ Bounds /\ LogState /\ PcInv /\ Situation /\ DownInv
    BY DEF IInv
  <1>e. /\ hdr.loggedepoch \in Nat /\ globalepoch \in Nat /\ failedepoch \in Nat
        /\ nhdr.loggedepoch \in Nat
        /\ pc # "down" => globalepoch > failedepoch
    BY <1>t DEF TypeOK, Header, Bounds
  <1>u. settled' /\ pc' # "down"
    OBVIOUS
  <1>s. (settled /\ pc # "down") =>
          /\ pc \notin {"undo", "final"}
          /\ pc = "idle" => Clean
          /\ hdr.loggedepoch # globalepoch => Untouched
          /\ (hdr.loggedepoch = globalepoch /\ hdr.not_logged) =>
               Inserted \/ \E y \in Lines : Updated(y)
          /\ (hdr.loggedepoch = globalepoch /\ ~hdr.not_logged) => Logged
    BY <1>t DEF Situation
  <1>1. ASSUME NEW kind \in {"get", "write"}, Find(kind) PROVE Situation'
    <2>1. /\ settled /\ pc # "down"
          /\ UNCHANGED <<lv, cl, nhdr, nlv, ncl, extlog, globalepoch, failedepoch, committed>>
      BY <1>1, <1>u DEF Find
    <2>2. /\ pc \notin {"epoch", "store"}
          /\ pc' \notin {"store", "publish", "undo", "final"}
          /\ pc' = "idle" => Clean
      BY <1>1, <1>t, <1>s, <2>1 DEF Find, Clean, PcInv
    <2>3. /\ hdr'.permutation = hdr.permutation /\ hdr'.perm_cl0 = hdr.perm_cl0
          /\ hdr'.cl0_idx = hdr.cl0_idx /\ hdr'.loggedepoch = hdr.loggedepoch
          /\ hdr'.not_logged = hdr.not_logged
      BY <1>1, <1>t DEF Find, TypeOK, Header
    <2> QED
      BY <1>t, <2>1, <2>2, <2>3, SituationFrame
  <1>2. CASE Undo
    BY <1>2, <1>s, <1>u DEF Undo
  <1>3. CASE RecoverFinal
    BY <1>3, <1>s, <1>u DEF RecoverFinal
  <1>4. ASSUME NEW o \in Applicable, Lock(o) PROVE Situation'
    <2>1. /\ settled /\ pc # "down"
          /\ UNCHANGED <<lv, cl, nhdr, nlv, ncl, extlog, globalepoch, failedepoch, committed>>
      BY <1>4, <1>u DEF Lock
    <2>2. /\ pc \notin {"epoch", "store"}
          /\ pc' \notin {"store", "publish", "undo", "final"}
          /\ pc' = "idle" => Clean
      BY <1>4, <1>t, <1>s, <2>1 DEF Lock, Clean, PcInv
    <2>3. /\ hdr'.permutation = hdr.permutation /\ hdr'.perm_cl0 = hdr.perm_cl0
          /\ hdr'.cl0_idx = hdr.cl0_idx /\ hdr'.loggedepoch = hdr.loggedepoch
          /\ hdr'.not_logged = hdr.not_logged
      BY <1>4, <1>t DEF Lock, TypeOK, Header
    <2> QED
      BY <1>t, <2>1, <2>2, <2>3, SituationFrame
  <1>5. CASE SaveCl0
    <2>1. /\ settled /\ pc = "save" /\ hdr.loggedepoch # globalepoch /\ Untouched
          /\ pc' = "epoch"
          /\ UNCHANGED <<lv, cl, nhdr, nlv, ncl, globalepoch, committed>>
      BY <1>5, <1>s, <1>u DEF SaveCl0
    <2>2. hdr'.permutation = hdr.permutation /\ hdr'.loggedepoch = hdr.loggedepoch
      BY <1>5, <1>t DEF SaveCl0, TypeOK, Header
    <2>3. Untouched'
      BY <2>1, <2>2 DEF Untouched, Content, CacheImage, MemoryImage, LvHit
    <2> QED
      BY <2>1, <2>2, <2>3 DEF Situation
  <1>6. CASE SaveLv
    <2>1. /\ settled /\ pc = "save" /\ hdr.loggedepoch # globalepoch /\ Untouched
          /\ pc' = "epoch" /\ op.kind = "update"
          /\ UNCHANGED <<hdr, lv, nhdr, nlv, ncl, globalepoch, committed, op>>
      BY <1>6, <1>s, <1>u DEF SaveLv
    <2>2. \A y \in Lines : y # LineOf(op.slot) => cl'[y] = cl[y]
      BY <1>6, <1>t DEF SaveLv, TypeOK
    <2>3. Untouched'
      BY <2>1, <2>2 DEF Untouched, Content, CacheImage, MemoryImage, LvHit
    <2> QED
      BY <2>1, <2>3 DEF Situation
  <1>7. CASE UpdateEpochs
    <2>1. /\ settled /\ pc = "epoch" /\ hdr.loggedepoch # globalepoch /\ Untouched
          /\ pc' = "store" /\ op.kind \in {"insert", "update"}
          /\ UNCHANGED <<lv, nhdr, nlv, ncl, globalepoch, committed, op>>
      BY <1>7, <1>t, <1>s, <1>u DEF UpdateEpochs, PcInv
    <2>2. /\ hdr'.permutation = hdr.permutation /\ hdr'.perm_cl0 = hdr.perm_cl0
          /\ hdr'.cl0_idx = hdr.cl0_idx /\ hdr'.loggedepoch = globalepoch
          /\ hdr'.not_logged
      BY <1>7, <1>t DEF UpdateEpochs, TypeOK, Header
    <2>3. \A y \in Lines : /\ cl'[y].idx = cl[y].idx /\ cl'[y].lv = cl[y].lv
                            /\ cl'[y].ep = globalepoch
      <3>1. cl \in [Lines -> LvLog] /\ globalepoch \in Nat /\ globalepoch < EpochMask
        BY <1>t DEF TypeOK, Bounds
      <3> QED
        BY <1>7, <3>1, LogTypes, ModFits DEF UpdateEpochs
    <2>4. op.slot \in Slots /\ \A s \in Slots : committed[s] =
            IF s \in hdr.permutation THEN lv[s] ELSE Absent
      BY <1>t, <2>1 DEF Untouched, Content, CacheImage, TypeOK
    <2>5. OneLineActive'
      BY DEF AssumedNext
    <2>6. CASE op.kind = "insert"
      <3>1. /\ hdr.cl0_idx = 0 /\ hdr.perm_cl0 = hdr.permutation
            /\ op.slot \notin hdr.permutation
        BY <1>t, <2>1, <2>6 DEF PcInv
      <3>2. \A y \in Lines : cl'[y].idx = InvalidIdx
        BY <2>2, <2>5, <3>1, SlotFacts DEF OneLineActive
      <3>3. \A y \in Lines : ~LvHit(MemoryImage, y, globalepoch)'
        BY <2>1, <2>6 DEF Untouched, LvHit, MemoryImage
      <3>4. hdr.perm_cl0 \subseteq Slots
        BY <1>t DEF TypeOK, Header
      <3>5. Inserted'
        BY <2>1, <2>2, <2>4, <2>6, <3>1, <3>2, <3>3, <3>4 DEF Inserted, Untouched
      <3> QED
        BY <2>1, <2>2, <3>5 DEF Situation
    <2>7. CASE op.kind = "update"
      <3>0. PICK x \in Lines : x = LineOf(op.slot)
        BY <2>4, SlotFacts
      <3>1. /\ x \in Lines /\ op.slot \in hdr.permutation
            /\ cl[x] = [idx |-> IdxOf(op.slot), lv |-> lv[op.slot], ep |-> globalepoch]
        BY <1>t, <2>1, <2>4, <2>7, <3>0, SlotFacts DEF PcInv
      <3>2. /\ cl'[x].idx = IdxOf(op.slot) /\ cl'[x].lv = lv[op.slot]
            /\ cl'[x].ep = globalepoch /\ cl'[x].idx # InvalidIdx
            /\ SlotOf(x, cl'[x].idx) = op.slot
        BY <2>3, <2>4, <3>0, <3>1, SlotFacts
      <3>3. /\ \A y \in Lines : y # x => cl'[y].idx = InvalidIdx
            /\ hdr'.cl0_idx = InvalidIdx
        BY <2>5, <3>1, <3>2 DEF OneLineActive
      <3>4. \A y \in Lines : LvHit(MemoryImage, y, globalepoch)' => y = x /\ ncl'[y] = cl[y]
        BY <2>1, <3>0 DEF Untouched, LvHit, MemoryImage
      <3>5. cl'[x] = cl[x]
        <4>1. cl[x] \in LvLog /\ cl'[x] \in LvLog
          <5>1. TypeOK'
            BY <1>t, TypeNext DEF AssumedNext
          <5> QED
            BY <1>t, <3>1, <5>1 DEF TypeOK
        <4> QED
          BY <2>3, <3>1, <3>2, <4>1 DEF LvLog
      <3>6. ~Cl0Hit(MemoryImage, globalepoch)'
        BY <1>e, <2>1 DEF Untouched, Cl0Hit, MemoryImage
      <3>7. /\ nhdr'.permutation = hdr'.permutation /\ nlv' = lv'
            /\ nlv'[op.slot] = cl'[x].lv
        BY <2>1, <2>2, <3>2 DEF Untouched
      <3>8. Updated(x)'
        <4>1. LineOf(op.slot) = x
          BY <3>0
        <4>2. \A s \in Slots : committed'[s] =
                IF s \in hdr'.permutation THEN IF s = op.slot THEN cl'[x].lv ELSE lv'[s]
                                          ELSE Absent
          BY <2>1, <2>2, <2>4, <3>2
        <4>3. IF LvHit(MemoryImage, x, globalepoch)' THEN ncl'[x] = cl'[x]
                                                     ELSE nlv'[op.slot] = cl'[x].lv
          BY <3>1, <3>4, <3>5, <3>7
        <4>4. \A y \in Lines : y # x => ~LvHit(MemoryImage, y, globalepoch)'
          BY <3>4
        <4> QED
          BY <2>1, <2>4, <2>7, <3>2, <3>3, <3>6, <3>7, <4>1, <4>2, <4>3, <4>4
             DEF Updated
      <3>9. /\ settled' /\ pc' = "store" /\ hdr'.loggedepoch = globalepoch' /\ hdr'.not_logged
            /\ \E y \in Lines : Updated(y)'
        BY <2>1, <2>2, <3>1, <3>8
      <3> QED
        BY <3>9 DEF Situation
    <2> QED
      BY <2>1, <2>6, <2>7
  <1>8. CASE Record
    <2>1. /\ settled /\ pc = "save" /\ pc' = "store" /\ UNCHANGED <<globalepoch, committed>>
          /\ hdr.loggedepoch # globalepoch \/ hdr.not_logged
      BY <1>8, <1>u DEF Record
    <2>2. hdr'.loggedepoch = globalepoch /\ ~hdr'.not_logged
      BY <1>8, <1>t DEF Record, TypeOK, Header
    <2> DEFINE img == [hdr |-> [[hdr EXCEPT !.not_logged = FALSE] EXCEPT !.locked = FALSE],
                       lv |-> lv, cl |-> cl]
    <2>3. undo(MemoryImage', extlog') = img
      <3> DEFINE rec == [hdr |-> [hdr EXCEPT !.not_logged = FALSE], lv |-> lv, cl |-> cl]
      <3>1. extlog' = <<rec>>
        <4>1. extlog = <<>>
          BY <1>t, <2>1 DEF LogState
        <4> QED
          BY <1>8, <4>1 DEF Record
      <3>2. fix_all(rec) = img
        BY DEF fix_all
      <3> HIDE DEF rec, img
      <3>3. extlog' # <<>> /\ extlog'[Len(extlog')] = rec
        BY <3>1
      <3> QED
        BY <3>2, <3>3 DEF undo
    <2>4. Content(undo_incll(img, globalepoch)) = Content(undo_incll(CacheImage, globalepoch))
      BY <1>t, ZenonT(30) DEF TypeOK, Header, CacheImage, undo_incll, Cl0Hit, LvHit, LvRecovered, Content
    <2> HIDE DEF img
    <2>5. Content(undo_incll(CacheImage, globalepoch)) = committed
      BY <2>1, RecordsCheckpoint
    <2>6. Content(undo_incll(undo(MemoryImage', extlog'), globalepoch')) = committed'
      BY <2>1, <2>3, <2>4, <2>5
    <2>7. Logged'
      BY <2>6 DEF Logged, undo, fix_all, undo_incll, Cl0Hit, LvHit, LvRecovered, Content
    <2> QED
      BY <2>1, <2>2, <2>7 DEF Situation
  <1>9. CASE SaveNothing
    <2>1. settled /\ pc # "down" /\ UNCHANGED <<extlog, globalepoch, committed>>
      BY <1>9, <1>u DEF SaveNothing
    <2>2. hdr.loggedepoch = globalepoch /\ ~hdr.not_logged /\ hdr' = hdr /\ pc' = "store"
      BY <1>9 DEF SaveNothing
    <2>3. Logged'
      BY <1>t, <1>s, <2>1, <2>2, LoggedStays
    <2> QED
      BY <2>1, <2>2, <2>3 DEF Situation
  <1>10. CASE StoreSlot
    <2>1. /\ settled /\ pc = "store" /\ pc' \in {"publish", "unlock"}
          /\ hdr.loggedepoch = globalepoch
          /\ UNCHANGED <<hdr, cl, nhdr, nlv, ncl, extlog, globalepoch, committed>>
          /\ op.kind = "update" => pc' = "unlock"
      BY <1>10, <1>t, <1>u DEF StoreSlot, PcInv
    <2>2. \A s \in Slots : s # op.slot => lv'[s] = lv[s]
      BY <1>10, <1>t DEF StoreSlot, TypeOK
    <2>3. hdr.perm_cl0 \subseteq Slots
      BY <1>t DEF TypeOK, Header
    <2>4. Inserted => Inserted'
      BY <2>1, <2>2, <2>3 DEF Inserted, LvHit, MemoryImage
    <2>5. ASSUME NEW y \in Lines, Updated(y) PROVE Updated(y)'
      BY <2>1, <2>2, <2>5 DEF Updated, LvHit, Cl0Hit, MemoryImage
    <2>6. (Logged /\ ~hdr.not_logged) => Logged'
      BY <1>t, <2>1, LoggedStays
    <2> QED
      BY <1>s, <2>1, <2>4, <2>5, <2>6 DEF Situation
  <1>11. CASE Publish
    <2>1. /\ settled /\ pc = "publish" /\ pc' = "unlock" /\ hdr.loggedepoch = globalepoch
          /\ UNCHANGED <<lv, cl, nhdr, nlv, ncl, extlog, globalepoch, committed>>
      BY <1>11, <1>t, <1>u DEF Publish, PcInv
    <2>2. /\ hdr'.perm_cl0 = hdr.perm_cl0 /\ hdr'.cl0_idx = hdr.cl0_idx
          /\ hdr'.loggedepoch = hdr.loggedepoch /\ hdr'.not_logged = hdr.not_logged
      BY <1>11, <1>t DEF Publish, TypeOK, Header
    <2>3. Inserted => Inserted'
      BY <2>1, <2>2 DEF Inserted, LvHit, MemoryImage
    <2>4. \A y \in Lines : ~Updated(y)
      BY <2>1 DEF Updated
    <2>5. (Logged /\ ~hdr.not_logged) => Logged'
      BY <1>t, <2>1, LoggedStays
    <2> QED
      BY <1>s, <2>1, <2>2, <2>3, <2>4, <2>5 DEF Situation
  <1>12. CASE StoreRemove
    <2>1. settled /\ pc # "down" /\ UNCHANGED <<extlog, globalepoch, committed>>
      BY <1>12, <1>u DEF StoreRemove
    <2>2. hdr.loggedepoch = globalepoch /\ hdr'.loggedepoch = hdr.loggedepoch
          /\ hdr'.not_logged = hdr.not_logged
      BY <1>12, <1>t DEF StoreRemove, PcInv, TypeOK, Header
    <2>3. ~hdr.not_logged
      BY <1>12, <1>s, <2>1, <2>2 DEF StoreRemove, Inserted, Updated
    <2>4. Logged'
      BY <1>t, <1>s, <2>1, <2>2, <2>3, LoggedStays
    <2>5. pc' \notin {"undo", "final", "idle"}
      BY <1>12 DEF StoreRemove
    <2> QED
      BY <2>1, <2>2, <2>3, <2>4, <2>5 DEF Situation
  <1>13. ASSUME NEW S \in SUBSET Slots, StoreSplit(S) PROVE Situation'
    <2>1. settled /\ pc # "down" /\ UNCHANGED <<extlog, globalepoch, committed>>
      BY <1>13, <1>u DEF StoreSplit
    <2>2. hdr.loggedepoch = globalepoch /\ hdr'.loggedepoch = hdr.loggedepoch
          /\ hdr'.not_logged = hdr.not_logged
      BY <1>13, <1>t DEF StoreSplit, PcInv, TypeOK, Header
    <2>3. ~hdr.not_logged
      BY <1>13, <1>s, <2>1, <2>2 DEF StoreSplit, Inserted, Updated
    <2>4. Logged'
      BY <1>t, <1>s, <2>1, <2>2, <2>3, LoggedStays
    <2>5. pc' \notin {"undo", "final", "idle"}
      BY <1>13 DEF StoreSplit
    <2> QED
      BY <2>1, <2>2, <2>3, <2>4, <2>5 DEF Situation
  <1>14. CASE Unlock
    <2>1. /\ settled /\ pc # "down"
          /\ UNCHANGED <<lv, cl, nhdr, nlv, ncl, extlog, globalepoch, failedepoch, committed>>
      BY <1>14, <1>u DEF Unlock
    <2>2. /\ pc \notin {"epoch", "store"}
          /\ pc' \notin {"store", "publish", "undo", "final"}
          /\ pc' = "idle" => Clean
      BY <1>14, <1>t, <1>s, <2>1 DEF Unlock, Clean, PcInv
    <2>3. /\ hdr'.permutation = hdr.permutation /\ hdr'.perm_cl0 = hdr.perm_cl0
          /\ hdr'.cl0_idx = hdr.cl0_idx /\ hdr'.loggedepoch = hdr.loggedepoch
          /\ hdr'.not_logged = hdr.not_logged
      BY <1>14, <1>t DEF Unlock, TypeOK, Header
    <2> QED
      BY <1>t, <2>1, <2>2, <2>3, SituationFrame
  <1>15. CASE EvictHeader
    <2>1. /\ settled /\ pc # "down" /\ nhdr' = hdr
          /\ UNCHANGED <<hdr, lv, cl, nlv, ncl, extlog, globalepoch, failedepoch, pc, op, committed>>
      BY <1>15, <1>u DEF EvictHeader
    <2>2. (hdr.loggedepoch # globalepoch /\ Untouched) => Untouched'
      <3>1. hdr.loggedepoch # globalepoch => hdr.loggedepoch < globalepoch
        BY <1>t, <1>e DEF Bounds
      <3> QED
        BY <2>1, <3>1 DEF Untouched, Content, CacheImage, MemoryImage, LvHit
    <2>3. (hdr.loggedepoch = globalepoch /\ Inserted) => Inserted'
      BY <2>1 DEF Inserted, LvHit, MemoryImage
    <2>4. ASSUME NEW y \in Lines, Updated(y) PROVE Updated(y)'
      BY <2>1, <2>4 DEF Updated, LvHit, Cl0Hit, MemoryImage
    <2>5. (Logged /\ hdr.loggedepoch = globalepoch /\ ~hdr.not_logged) => Logged'
      BY <1>t, <2>1, LoggedStays
    <2>6. Clean => Clean'
      BY <2>1 DEF Clean, AnyHit, Cl0Hit, LvHit, CacheImage
    <2> QED
      BY <1>s, <2>1, <2>2, <2>3, <2>4, <2>5, <2>6 DEF Situation
  <1>16. ASSUME NEW x \in Lines, EvictLine(x) PROVE Situation'
    <2>1. /\ settled /\ pc # "down"
          /\ UNCHANGED <<hdr, lv, cl, nhdr, extlog, globalepoch, failedepoch, pc, op, committed>>
      BY <1>16, <1>u DEF EvictLine
    <2>2. /\ ncl'[x] = cl[x] /\ \A y \in Lines : y # x => ncl'[y] = ncl[y]
          /\ nlv' = [s \in Slots |-> IF LineOf(s) = x THEN lv[s] ELSE nlv[s]]
          /\ lv \in [Slots -> Vals] /\ hdr.perm_cl0 \subseteq Slots
      BY <1>16, <1>t DEF EvictLine, TypeOK, Header
    <2>3. Untouched => Untouched'
      <3>1. nlv = lv => nlv' = lv
        BY <2>2
      <3> QED
        BY <2>1, <2>2, <3>1 DEF Untouched, Content, CacheImage, MemoryImage, LvHit
    <2>4. Inserted => Inserted'
      BY <2>1, <2>2 DEF Inserted, LvHit, MemoryImage
    <2>5. ASSUME NEW y \in Lines, Updated(y) PROVE Updated(y)'
      BY <2>1, <2>2, <2>5 DEF Updated, LvHit, Cl0Hit, MemoryImage
    <2>6. (Logged /\ hdr.loggedepoch = globalepoch /\ ~hdr.not_logged) => Logged'
      BY <1>t, <2>1, LoggedStays
    <2>7. Clean => Clean'
      BY <2>1 DEF Clean, AnyHit, Cl0Hit, LvHit, CacheImage
    <2> QED
      BY <1>s, <2>1, <2>3, <2>4, <2>5, <2>6, <2>7 DEF Situation
  <1>17. CASE AdvanceEpoch
    <2>1. /\ pc = "idle" /\ pc' = "idle" /\ nhdr' = hdr /\ nlv' = lv /\ ncl' = cl
          /\ globalepoch' = globalepoch + 1 /\ committed' = Visible
          /\ UNCHANGED <<hdr, lv, cl, failedepoch>>
          /\ settled \/ ~AnyHit(CacheImage, failedepoch)
      BY <1>17, <1>u DEF AdvanceEpoch
    <2>2. Clean
      BY <1>s, <2>1 DEF Clean
    <2>3. Visible = Content(CacheImage)
      <3>1. CacheImage \in Image
        BY <1>t, ImageTypes
      <3> QED
        BY <2>1, <2>2, <3>1, UndoCases DEF Visible, lazily, Clean, CacheImage
    <2>4. hdr.loggedepoch < globalepoch + 1 /\ hdr.loggedepoch # globalepoch + 1
      BY <1>t, <1>e DEF Bounds
    <2>5. \A y \in Lines : cl[y].ep # globalepoch + 1
      BY <1>t, <1>e DEF Bounds, TypeOK, LvLog
    <2>6. Untouched'
      <3>1. \A y \in Lines : ~LvHit(CacheImage, y, globalepoch)' /\ ~LvHit(MemoryImage, y, globalepoch)'
        BY <2>1, <2>5 DEF LvHit, CacheImage, MemoryImage
      <3>2. Content(CacheImage)' = committed'
        BY <2>1, <2>3 DEF Content, CacheImage
      <3> QED
        BY <2>1, <2>4, <3>1, <3>2 DEF Untouched
    <2>7. Clean'
      BY <2>1, <2>2 DEF Clean, AnyHit, Cl0Hit, LvHit, CacheImage
    <2> QED
      BY <2>1, <2>4, <2>6, <2>7 DEF Situation
  <1>18. CASE Crash
    BY <1>18, <1>u DEF Crash
  <1>19. CASE Restart
    <2>1. /\ settled /\ pc = "down" /\ pc' = "idle" /\ globalepoch' = failedepoch + 1
          /\ UNCHANGED <<nhdr, nlv, ncl, failedepoch, committed>>
      BY <1>19, <1>u DEF Restart
    <2>2. /\ hdr = nhdr /\ lv = nlv /\ cl = ncl /\ extlog = <<>>
          /\ Content(MemoryImage) = committed /\ ~AnyHit(MemoryImage, failedepoch)
          /\ failedepoch = globalepoch
      BY <1>t, <2>1 DEF DownInv, Bounds
    <2>3. hdr' = hdr /\ lv' = lv /\ cl' = cl
      BY <1>19, <2>2 DEF Restart, undo, CacheImage
    <2>4. hdr.loggedepoch < globalepoch + 1 /\ hdr.loggedepoch # globalepoch + 1
      BY <1>t, <1>e DEF Bounds
    <2>5. \A y \in Lines : cl[y].ep # globalepoch + 1
      BY <1>t, <1>e DEF Bounds, TypeOK, LvLog
    <2>6. Untouched'
      <3>1. \A y \in Lines : ~LvHit(CacheImage, y, globalepoch)' /\ ~LvHit(MemoryImage, y, globalepoch)'
        BY <2>1, <2>2, <2>3, <2>5 DEF LvHit, CacheImage, MemoryImage
      <3>2. Content(CacheImage)' = committed'
        BY <2>1, <2>2, <2>3 DEF Content, CacheImage, MemoryImage
      <3> QED
        BY <2>1, <2>2, <2>3, <2>4, <3>1, <3>2 DEF Untouched
    <2>7. Clean'
      BY <2>1, <2>2, <2>3 DEF Clean, AnyHit, Cl0Hit, LvHit, CacheImage, MemoryImage
    <2> QED
      BY <2>1, <2>2, <2>3, <2>4, <2>6, <2>7 DEF Situation
  <1> QED
    BY <1>1, <1>2, <1>3, <1>4, <1>5, <1>6, <1>7, <1>8, <1>9, <1>10, <1>11, <1>12,
       <1>13, <1>14, <1>15, <1>16, <1>17, <1>18, <1>19 DEF AssumedNext, Next

-----------------------------------------------------------------------------
(* Failures *)

\* After a failure the leaf still reads, its logs undone, as the checkpoint.
LEMMA DownInvNext == IInv /\ AssumedNext => DownInv'
  <1> SUFFICES ASSUME IInv, AssumedNext, pc' = "down" PROVE DownInv'
    BY DEF DownInv
  <1> USE DEF cache, memory, epochs, ghosts
  <1>1. Crash
    BY DEF AssumedNext, Next, Find, Undo, RecoverFinal, Lock, SaveCl0, SaveLv,
           UpdateEpochs, Record, SaveNothing, StoreSlot, Publish, StoreRemove,
           StoreSplit, Unlock, EvictHeader, EvictLine, AdvanceEpoch, Restart
  <1>2. /\ pc # "down" /\ failedepoch' = globalepoch
        /\ hdr' = nhdr /\ lv' = nlv /\ cl' = ncl
        /\ UNCHANGED <<nhdr, nlv, ncl, extlog, committed>>
        /\ settled' => extlog = <<>> /\ ~AnyHit(MemoryImage, globalepoch)
    BY <1>1 DEF Crash
  <1>3. settled
    BY <1>2 DEF AssumedNext, FailsSettled
  <1>4. Content(undo_incll(undo(MemoryImage, extlog), globalepoch)) = committed
    BY <1>2, <1>3, Recoverable DEF Recovered
  <1>5. MemoryImage' = MemoryImage
    BY <1>2 DEF MemoryImage
  <1>6. Content(undo_incll(undo(MemoryImage, extlog), failedepoch))' = committed'
    <2>1. Content(undo_incll(undo(MemoryImage', extlog'), failedepoch')) = committed'
      BY <1>2, <1>4, <1>5
    <2> QED
      BY <2>1 DEF Content, undo, fix_all, undo_incll, Cl0Hit, LvHit, LvRecovered
  <1>7. settled' => Content(MemoryImage) = committed
    <2>1. MemoryImage \in Image
      BY ImageTypes DEF IInv
    <2> QED
      BY <1>2, <1>4, <2>1, UndoCases DEF undo
  <1>8. settled' => /\ extlog' = <<>>
                    /\ Content(MemoryImage)' = committed'
                    /\ ~AnyHit(MemoryImage, failedepoch)'
    BY <1>2, <1>5, <1>7 DEF Content, AnyHit, Cl0Hit, LvHit
  <1> QED
    BY <1>2, <1>6, <1>8 DEF DownInv

-----------------------------------------------------------------------------
(* The invariant *)

\* The inductive invariant holds initially,
LEMMA InvInit == Init => IInv
  <1> SUFFICES ASSUME Init PROVE IInv
    OBVIOUS
  <1>t. TypeOK
    BY TypeInit
  <1>1. /\ hdr.loggedepoch = 1 /\ hdr.cl0_idx = InvalidIdx /\ ~hdr.not_logged
        /\ nhdr = hdr /\ nlv = lv /\ ncl = cl /\ extlog = <<>>
        /\ globalepoch = 2 /\ failedepoch = 0 /\ pc = "idle" /\ settled
        /\ committed = Content(CacheImage)
    BY DEF Init
  <1>2. \A x \in Lines : cl[x].idx = InvalidIdx /\ cl[x].ep = 1
    <2>1. 1 % EpochMask = 1
      BY LeafAssumption, ModFits
    <2> QED
      BY <2>1 DEF Init
  <1>3. Bounds
    BY <1>1, <1>2, LeafAssumption DEF Bounds
  <1>4. LogState /\ PcInv /\ DownInv
    BY <1>1 DEF LogState, PcInv, DownInv, Init, NoOp
  <1>5. Clean
    BY <1>1 DEF Clean
  <1>6. Untouched
    BY <1>1, <1>2 DEF Untouched, LvHit, CacheImage, MemoryImage
  <1>7. Situation
    BY <1>1, <1>5, <1>6 DEF Situation
  <1>8. OneLineActive
    BY <1>2 DEF OneLineActive
  <1> QED
    BY <1>t, <1>3, <1>4, <1>7, <1>8 DEF IInv

\* every step keeps it,
LEMMA InvNext == IInv /\ [AssumedNext]_vars => IInv'
  <1> SUFFICES ASSUME IInv, [AssumedNext]_vars PROVE IInv'
    OBVIOUS
  <1>1. CASE AssumedNext
    <2>1. TypeOK' /\ OneLineActive'
      BY <1>1, TypeNext DEF IInv, AssumedNext
    <2> QED
      BY <1>1, <2>1, BoundsNext, LogStateNext, PcInvNext, SituationNext, DownInvNext
         DEF IInv
  <1>2. CASE UNCHANGED vars
    <2> USE <1>2 DEF vars, IInv
    <2>i. CacheImage' = CacheImage /\ MemoryImage' = MemoryImage
      BY DEF CacheImage, MemoryImage
    <2> USE DEF AnyHit, Cl0Hit, LvHit
    <2>1. TypeOK' /\ OneLineActive'
      BY TypeNext DEF OneLineActive
    <2>2. Bounds' /\ LogState'
      BY DEF Bounds, LogState
    <2>3. Clean <=> Clean'
      BY <2>i DEF Clean
    <2>4. PcInv'
      BY <2>i, <2>3 DEF PcInv, Content, undo_incll, LvRecovered
    <2>5. Untouched => Untouched'
      BY <2>i DEF Untouched, Content
    <2>6. Inserted => Inserted'
      BY <2>i DEF Inserted
    <2>7. ASSUME NEW y \in Lines, Updated(y) PROVE Updated(y)'
      BY <2>i, <2>7 DEF Updated
    <2>8. Logged => Logged'
      BY <2>i DEF Logged, Content, undo, fix_all, undo_incll, LvRecovered
    <2>9. Situation'
      BY <2>3, <2>5, <2>6, <2>7, <2>8 DEF Situation
    <2>10. DownInv'
      BY <2>i DEF DownInv, Content, undo, fix_all, undo_incll, LvRecovered
    <2> QED
      BY <2>1, <2>2, <2>4, <2>9, <2>10
  <1> QED
    BY <1>1, <1>2

\* so it always holds.
LEMMA Invariance == AssumedSpec => []IInv
  BY InvInit, InvNext, PTL DEF AssumedSpec

-----------------------------------------------------------------------------
(* What the program reads, and how each step changes it *)

\* Away from a recovery still owed, the cache is what is read.
VisibleNow ==
  /\ Clean => Visible = Content(CacheImage)
  /\ pc \in {"final", "lock", "save", "epoch", "store", "publish", "unlock"} =>
       Visible = Content(CacheImage)
  /\ pc = "undo" => Visible = Content(undo_incll(CacheImage, failedepoch))

\* What the program reads, place by place.
LEMMA VisibleCases == (IInv /\ ~(pc = "down")) => VisibleNow
  <1> SUFFICES ASSUME IInv, ~(pc = "down") PROVE VisibleNow
    OBVIOUS
  <1>t. TypeOK /\ Bounds /\ PcInv /\ CacheImage \in Image
    BY ImageTypes DEF IInv
  <1>e. ~(globalepoch <= failedepoch)
    BY <1>t DEF TypeOK, Bounds
  <1>v. Visible = IF hdr.loggedepoch <= failedepoch
                    THEN Content(undo_incll(CacheImage, failedepoch))
                    ELSE Content(CacheImage)
    BY DEF Visible, lazily, CacheImage
  <1>1. Clean => Visible = Content(CacheImage)
    BY <1>t, <1>v, UndoCases DEF Clean
  <1>2. pc \in {"lock", "save", "unlock"} => Clean
    BY <1>t DEF PcInv
  <1>3. pc \in {"store", "publish"} => Clean
    BY <1>t, <1>e DEF PcInv, Clean
  <1>4. pc = "final" => Visible = Content(CacheImage)
    BY <1>t, <1>v DEF PcInv
  <1>5. ASSUME pc = "epoch" PROVE Visible = Content(CacheImage)
    <2>1. hdr.loggedepoch <= failedepoch =>
            /\ \A x \in Lines : ~LvHit(CacheImage, x, failedepoch)
            /\ Cl0Hit(CacheImage, failedepoch) => hdr.permutation = hdr.perm_cl0
      BY <1>t, <1>5 DEF PcInv
    <2>2. CASE hdr.loggedepoch <= failedepoch /\ Cl0Hit(CacheImage, failedepoch)
      <3>1. Content(undo_incll(CacheImage, failedepoch)) =
               [s \in Slots |-> IF s \in hdr.perm_cl0 THEN lv[s] ELSE Absent]
        BY <1>t, <2>2, UndoCases DEF CacheImage
      <3> QED
        BY <1>v, <1>5, <2>1, <2>2, <3>1 DEF Content, CacheImage
    <2>3. CASE hdr.loggedepoch <= failedepoch /\ ~Cl0Hit(CacheImage, failedepoch)
      BY <1>t, <1>v, <1>5, <2>1, <2>3, UndoCases DEF AnyHit
    <2> QED
      BY <1>v, <1>5, <2>2, <2>3
  <1>6. pc = "undo" => Visible = Content(undo_incll(CacheImage, failedepoch))
    BY <1>t, <1>v DEF PcInv
  <1> QED
    BY <1>1, <1>2, <1>3, <1>4, <1>5, <1>6 DEF VisibleNow

\* The same after a step.
LEMMA VisiblePrime ==
  ASSUME IInv', pc' # "down"
  PROVE  /\ Clean' => Visible' = Content(CacheImage')
         /\ pc' \in {"final", "lock", "save", "epoch", "store", "publish", "unlock"} =>
              Visible' = Content(CacheImage')
  <1>0. (~(pc = "down"))'
    OBVIOUS
  <1>1. VisibleNow'
    BY <1>0, VisibleCases, PTL
  <1> QED
    BY <1>1 DEF VisibleNow, Content

\* Two leaf images with the same permutation and the same values read the same.
LEMMA SameContent ==
  ASSUME NEW img1, NEW img2, img1.hdr.permutation = img2.hdr.permutation, img1.lv = img2.lv
  PROVE  Content(img1) = Content(img2)
  BY DEF Content

\* Every step of the leaf is a step of DurableLeaf or a stutter.
LEMMA StepSimulation == IInv /\ IInv' /\ AssumedNext => [DL!Next]_(DL!vars)
  <1> SUFFICES ASSUME IInv, IInv', AssumedNext PROVE [DL!Next]_(DL!vars)
    OBVIOUS
  <1> USE DEF cache, memory, epochs, ghosts
  <1>t. TypeOK /\ TypeOK' /\ PcInv /\ Bounds /\ Bounds'
    BY DEF IInv
  <1>i. CacheImage \in Image /\ CacheImage.hdr = hdr /\ CacheImage.lv = lv
    BY <1>t, ImageTypes DEF CacheImage
  <1>p. CacheImage'.hdr = hdr' /\ CacheImage'.lv = lv'
    BY DEF CacheImage
  <1>v. pc # "down" =>
          /\ Clean => Visible = Content(CacheImage)
          /\ pc \in {"final", "lock", "save", "epoch", "store", "publish", "unlock"} =>
               Visible = Content(CacheImage)
          /\ pc = "undo" => Visible = Content(undo_incll(CacheImage, failedepoch))
    BY VisibleCases DEF VisibleNow
  <1>w. pc' # "down" =>
          /\ Clean' => Visible' = Content(CacheImage')
          /\ pc' \in {"final", "lock", "save", "epoch", "store", "publish", "unlock"} =>
               Visible' = Content(CacheImage')
    BY VisiblePrime
  <1>k. ASSUME committed' = committed, Visible' = Visible
        PROVE  [DL!Next]_(DL!vars)
    BY <1>k DEF DL!Next, DL!Request
  <1>c. Content(CacheImage) = [s \in Slots |-> IF s \in hdr.permutation THEN lv[s] ELSE Absent]
        /\ Content(CacheImage') = [s \in Slots |-> IF s \in hdr'.permutation THEN lv'[s] ELSE Absent]
    BY <1>i, <1>p DEF Content
  <1>1. ASSUME NEW kind \in {"get", "write"}, Find(kind) PROVE [DL!Next]_(DL!vars)
    <2>1. /\ UNCHANGED <<hdr, lv, cl, failedepoch, committed>> /\ pc # "down" /\ pc' # "down"
      BY <1>1 DEF Find
    <2>2. CacheImage' = CacheImage
      BY <2>1 DEF CacheImage
    <2>3. Visible' = Visible
      BY <2>1, <2>2 DEF Visible, lazily, undo_incll, Cl0Hit, LvHit, LvRecovered, Content
    <2> QED
      BY <1>k, <2>1, <2>3
  <1>2. CASE Undo
    <2>1. /\ committed' = committed /\ pc = "undo" /\ pc' = "final"
          /\ hdr' = undo_incll(CacheImage, failedepoch).hdr
          /\ lv' = undo_incll(CacheImage, failedepoch).lv
      BY <1>2 DEF Undo
    <2>2. Content(CacheImage') = Content(undo_incll(CacheImage, failedepoch))
      BY <1>p, <2>1, SameContent
    <2> QED
      BY <1>k, <1>v, <1>w, <2>1, <2>2
  <1>3. CASE RecoverFinal
    <2>1. /\ hdr'.permutation = hdr.permutation /\ lv' = lv /\ committed' = committed
          /\ pc \in {"final", "unlock"} /\ pc' # "down"
      BY <1>3, <1>t DEF RecoverFinal, TypeOK, Header
    <2>2. Clean'
      <3>1. cl \in [Lines -> LvLog] /\ globalepoch - 1 \in Nat
        BY <1>t DEF TypeOK
      <3> DEFINE c == Invalidated(cl)
      <3>2. cl' = Stamped(c, globalepoch - 1)
        BY <1>3 DEF RecoverFinal
      <3>3. c \in [Lines -> LvLog] /\ \A y \in Lines : c[y].idx = InvalidIdx
        BY <3>1, LogTypes
      <3> HIDE DEF c
      <3>4. \A y \in Lines : cl'[y].idx = InvalidIdx
        BY <3>1, <3>2, <3>3, LogTypes
      <3>5. hdr'.cl0_idx = InvalidIdx
        BY <1>3, <1>t DEF RecoverFinal, TypeOK, Header
      <3> QED
        BY <3>4, <3>5 DEF Clean, AnyHit, Cl0Hit, LvHit, CacheImage
    <2> QED
      BY <1>k, <1>v, <1>w, <1>c, <2>1, <2>2
  <1>4. ASSUME NEW o \in Applicable, Lock(o) PROVE [DL!Next]_(DL!vars)
    <2>1. /\ hdr'.permutation = hdr.permutation /\ lv' = lv /\ committed' = committed
          /\ pc \in {"final", "lock", "save", "epoch", "store", "publish", "unlock"}
          /\ pc' \in {"final", "lock", "save", "epoch", "store", "publish", "unlock"}
      BY <1>4, <1>t DEF Lock, TypeOK, Header
    <2> QED
      BY <1>k, <1>v, <1>w, <1>c, <2>1
  <1>5. CASE SaveCl0
    <2>1. /\ hdr'.permutation = hdr.permutation /\ lv' = lv /\ committed' = committed
          /\ pc \in {"final", "lock", "save", "epoch", "store", "publish", "unlock"}
          /\ pc' \in {"final", "lock", "save", "epoch", "store", "publish", "unlock"}
      BY <1>5, <1>t DEF SaveCl0, TypeOK, Header
    <2> QED
      BY <1>k, <1>v, <1>w, <1>c, <2>1
  <1>6. CASE SaveLv
    <2>1. /\ hdr'.permutation = hdr.permutation /\ lv' = lv /\ committed' = committed
          /\ pc \in {"final", "lock", "save", "epoch", "store", "publish", "unlock"}
          /\ pc' \in {"final", "lock", "save", "epoch", "store", "publish", "unlock"}
      BY <1>6, <1>t DEF SaveLv, TypeOK, Header
    <2> QED
      BY <1>k, <1>v, <1>w, <1>c, <2>1
  <1>7. CASE UpdateEpochs
    <2>1. /\ hdr'.permutation = hdr.permutation /\ lv' = lv /\ committed' = committed
          /\ pc \in {"final", "lock", "save", "epoch", "store", "publish", "unlock"}
          /\ pc' \in {"final", "lock", "save", "epoch", "store", "publish", "unlock"}
      BY <1>7, <1>t DEF UpdateEpochs, TypeOK, Header
    <2> QED
      BY <1>k, <1>v, <1>w, <1>c, <2>1
  <1>8. CASE Record
    <2>1. /\ hdr'.permutation = hdr.permutation /\ lv' = lv /\ committed' = committed
          /\ pc \in {"final", "lock", "save", "epoch", "store", "publish", "unlock"}
          /\ pc' \in {"final", "lock", "save", "epoch", "store", "publish", "unlock"}
      BY <1>8, <1>t DEF Record, TypeOK, Header
    <2> QED
      BY <1>k, <1>v, <1>w, <1>c, <2>1
  <1>9. CASE SaveNothing
    <2>1. /\ hdr'.permutation = hdr.permutation /\ lv' = lv /\ committed' = committed
          /\ pc \in {"final", "lock", "save", "epoch", "store", "publish", "unlock"}
          /\ pc' \in {"final", "lock", "save", "epoch", "store", "publish", "unlock"}
      BY <1>9, <1>t DEF SaveNothing, TypeOK, Header
    <2> QED
      BY <1>k, <1>v, <1>w, <1>c, <2>1
  <1>10. CASE StoreSlot
    <2>1. /\ hdr' = hdr /\ committed' = committed /\ lv' = [lv EXCEPT ![op.slot] = op.val]
          /\ pc = "store" /\ pc' \in {"publish", "unlock"} /\ op.val \in Vals
          /\ op.slot \in Slots /\ lv \in [Slots -> Vals] /\ op' = op
          /\ op.kind \in {"insert", "update", "layer", "rearrange"}
      BY <1>10, <1>t DEF StoreSlot, TypeOK
    <2>2. Visible = Content(CacheImage) /\ Visible' = Content(CacheImage')
      BY <1>v, <1>w, <2>1
    <2>3. CASE op.slot \in hdr.permutation
      <3>1. Visible' = [Visible EXCEPT ![op.slot] = op.val]
        BY <1>c, <2>1, <2>2, <2>3
      <3>2. DL!Put
        BY <2>1, <3>1 DEF DL!Put
      <3> QED
        BY <2>1, <3>2 DEF DL!Next
    <2>4. CASE op.slot \notin hdr.permutation
      <3>1. Visible' = Visible
        BY <1>c, <2>1, <2>2, <2>4
      <3> QED
        BY <1>k, <2>1, <3>1
    <2> QED
      BY <2>3, <2>4
  <1>11. CASE Publish
    <2>1. /\ hdr'.permutation = hdr.permutation \cup {op.slot}
          /\ committed' = committed /\ lv' = lv
          /\ pc = "publish" /\ pc' = "unlock"
          /\ op.slot \in Slots /\ lv[op.slot] = op.val /\ op' = op
          /\ op.kind \in {"insert", "rearrange"}
      BY <1>11, <1>t DEF Publish, TypeOK, Header, PcInv
    <2>2. Visible = Content(CacheImage) /\ Visible' = Content(CacheImage')
      BY <1>v, <1>w, <2>1
    <2>3. Visible' = [Visible EXCEPT ![op.slot] = op.val]
      BY <1>c, <2>1, <2>2
    <2>4. DL!Put
      BY <2>1, <2>3 DEF DL!Put
    <2> QED
      BY <2>1, <2>4 DEF DL!Next
  <1>12. CASE StoreRemove
    <2>1. /\ hdr'.permutation = hdr.permutation \ {op.slot}
          /\ committed' = committed /\ lv' = lv
          /\ pc = "store" /\ pc' = "unlock" /\ op.slot \in Slots
          /\ op.kind = "remove" /\ op' = op
      BY <1>12, <1>t DEF StoreRemove, TypeOK, Header
    <2>2. Visible = Content(CacheImage) /\ Visible' = Content(CacheImage')
      BY <1>v, <1>w, <2>1
    <2>3. Visible' = [Visible EXCEPT ![op.slot] = Absent]
      BY <1>c, <2>1, <2>2
    <2>4. DL!Remove
      BY <2>1, <2>3 DEF DL!Remove
    <2> QED
      BY <2>1, <2>4 DEF DL!Next
  <1>13. ASSUME NEW S \in SUBSET Slots, StoreSplit(S) PROVE [DL!Next]_(DL!vars)
    <2>1. /\ hdr'.permutation = S /\ S \subseteq hdr.permutation
          /\ committed' = committed /\ lv' = lv
          /\ pc = "store" /\ pc' \in {"store", "unlock"} /\ op.kind = "split"
      BY <1>13, <1>t DEF StoreSplit, TypeOK, Header
    <2>2. Visible = Content(CacheImage) /\ Visible' = Content(CacheImage')
      BY <1>v, <1>w, <2>1
    <2>3. Visible' = [s \in Slots |-> IF s \in Slots \ S THEN Absent ELSE Visible[s]]
      BY <1>c, <2>1, <2>2
    <2>4. DL!Split(Slots \ S)
      BY <2>1, <2>3 DEF DL!Split
    <2> QED
      BY <2>4 DEF DL!Next
  <1>14. CASE Unlock
    <2>1. /\ hdr'.permutation = hdr.permutation /\ lv' = lv /\ committed' = committed
          /\ pc \in {"final", "unlock"} /\ pc' # "down"
      BY <1>14, <1>t DEF Unlock, TypeOK, Header
    <2>2. Clean'
      <3>1. /\ hdr'.loggedepoch = hdr.loggedepoch /\ hdr'.cl0_idx = hdr.cl0_idx
            /\ UNCHANGED <<cl, failedepoch>> /\ Clean
        BY <1>14, <1>t DEF Unlock, TypeOK, Header, PcInv
      <3> QED
        BY <3>1 DEF Clean, AnyHit, Cl0Hit, LvHit, CacheImage
    <2> QED
      BY <1>k, <1>v, <1>w, <1>c, <2>1, <2>2
  <1>15. CASE EvictHeader
    <2>1. /\ UNCHANGED <<hdr, lv, cl, failedepoch, committed>> /\ pc # "down" /\ pc' # "down"
      BY <1>15 DEF EvictHeader
    <2>2. CacheImage' = CacheImage
      BY <2>1 DEF CacheImage
    <2>3. Visible' = Visible
      BY <2>1, <2>2 DEF Visible, lazily, undo_incll, Cl0Hit, LvHit, LvRecovered, Content
    <2> QED
      BY <1>k, <2>1, <2>3
  <1>16. ASSUME NEW x \in Lines, EvictLine(x) PROVE [DL!Next]_(DL!vars)
    <2>1. /\ UNCHANGED <<hdr, lv, cl, failedepoch, committed>> /\ pc # "down" /\ pc' # "down"
      BY <1>16 DEF EvictLine
    <2>2. CacheImage' = CacheImage
      BY <2>1 DEF CacheImage
    <2>3. Visible' = Visible
      BY <2>1, <2>2 DEF Visible, lazily, undo_incll, Cl0Hit, LvHit, LvRecovered, Content
    <2> QED
      BY <1>k, <2>1, <2>3
  <1>17. CASE AdvanceEpoch
    <2>1. /\ UNCHANGED <<hdr, lv, cl, failedepoch>> /\ pc # "down" /\ pc' # "down"
          /\ committed' = Visible /\ op.kind = "none" /\ op' = op
      BY <1>17, <1>t DEF AdvanceEpoch, PcInv
    <2>2. CacheImage' = CacheImage
      BY <2>1 DEF CacheImage
    <2>3. Visible' = Visible
      BY <2>1, <2>2 DEF Visible, lazily, undo_incll, Cl0Hit, LvHit, LvRecovered, Content
    <2>4. DL!Checkpoint
      BY <2>1, <2>3 DEF DL!Checkpoint
    <2> QED
      BY <2>4 DEF DL!Next
  <1>18. CASE Crash
    <2>1. pc' = "down" /\ committed' = committed /\ op'.kind = "none"
      BY <1>18 DEF Crash, NoOp
    <2>2. Content(undo_incll(undo(MemoryImage, extlog), failedepoch))' = committed'
          /\ MemoryImage' = CacheImage'
      BY <2>1 DEF IInv, DownInv, MemoryImage, CacheImage
    <2>3. Content(undo_incll(undo(CacheImage', extlog'), failedepoch')) = committed'
      BY <2>2 DEF Content, undo, fix_all, undo_incll, Cl0Hit, LvHit, LvRecovered
    <2>4. undo(CacheImage', extlog').hdr.loggedepoch <= failedepoch'
      <3>1. (undo(CacheImage, extlog).hdr.loggedepoch <= globalepoch)'
        BY <1>t, UndoLogFits, PTL
      <3>2. failedepoch' = globalepoch'
        BY <1>t, <2>1 DEF Bounds
      <3> QED
        BY <3>1, <3>2 DEF undo, fix_all
    <2>5. Visible' = committed'
      <3>1. Visible' = Content(lazily(undo(CacheImage', extlog'), failedepoch'))
        BY <2>1 DEF Visible, Content, lazily, undo, fix_all, undo_incll, Cl0Hit, LvHit, LvRecovered
      <3> QED
        BY <2>3, <2>4, <3>1 DEF lazily
    <2>6. DL!Fail
      BY <2>1, <2>5 DEF DL!Fail
    <2> QED
      BY <2>6 DEF DL!Next
  <1>19. CASE Restart
    <2> DEFINE img == undo(CacheImage, extlog)
    <2>1. /\ pc = "down" /\ pc' = "idle" /\ hdr' = img.hdr /\ lv' = img.lv /\ cl' = img.cl
          /\ UNCHANGED <<failedepoch, committed>>
      BY <1>19 DEF Restart
    <2>2. img \in Image
      BY <1>t, <1>i, UndoLogType DEF TypeOK
    <2>3. CacheImage' = img
      BY <2>1, <2>2 DEF CacheImage, Image
    <2>4. Visible = Content(lazily(img, failedepoch))
      BY <2>1 DEF Visible
    <2> HIDE DEF img
    <2>5. Visible' = Content(lazily(CacheImage', failedepoch'))
      BY <2>1 DEF Visible, Content, lazily, undo_incll, Cl0Hit, LvHit, LvRecovered
    <2> QED
      BY <1>k, <2>1, <2>3, <2>4, <2>5
  <1> QED
    BY <1>1, <1>2, <1>3, <1>4, <1>5, <1>6, <1>7, <1>8, <1>9, <1>10, <1>11, <1>12,
       <1>13, <1>14, <1>15, <1>16, <1>17, <1>18, <1>19 DEF AssumedNext, Next

\* Initial states map to initial states.
LEMMA InitSimulation == Init => DL!Init
  <1> SUFFICES ASSUME Init PROVE DL!Init
    OBVIOUS
  <1>1. TypeOK /\ CacheImage \in Image
    BY TypeInit, ImageTypes
  <1>2. Visible = Content(CacheImage)
    BY DEF Init, Visible, lazily, CacheImage
  <1>3. committed = Content(CacheImage)
    BY DEF Init
  <1>4. op.kind = "none"
    BY DEF Init, NoOp
  <1> QED
    BY <1>1, <1>2, <1>3, <1>4, ContentType DEF DL!Init, DL!Contents

-----------------------------------------------------------------------------
(* Theorems *)

\* Whatever the interleaving of operations, evictions, epoch boundaries and
\* failures, and without any assumption on them, every field of the leaf, of
\* its memory copy and of its node-log images keeps its type: in particular
\* undo_incll never writes outside lv_.
THEOREM TypeCorrect == Spec => []TypeOK
  BY TypeInit, TypeNext, PTL DEF Spec

\* Under what undo_incll relies on, the leaf a failure would leave behind, at
\* any moment, recovers to exactly what it held at the last epoch boundary.
THEOREM CrashSafety == AssumedSpec => []CrashRecoverable
  <1>1. IInv => CrashRecoverable
    BY Recoverable DEF CrashRecoverable
  <1> QED
    BY <1>1, Invariance, PTL

\* Within an epoch save_cl0_insert, save_cl1_2_update and record_node put the
\* leaf in the node log at most once, so undo's last record is its only one.
THEOREM LoggedOnce == AssumedSpec => []RecordedOnce
  <1>1. IInv => RecordedOnce
    BY DEF IInv, LogState, RecordedOnce
  <1> QED
    BY <1>1, Invariance, PTL

\* Operations, evictions, epoch boundaries, failures and lazy recoveries of
\* the leaf are steps of the map with checkpoints: puts and removes take
\* effect at one store each, a failure falls back to the checkpoint, and
\* nothing else is visible.
THEOREM ImplementsDurableLeaf == AssumedSpec => DurableRefinement
  <1>1. Init => DL!Init
    BY InitSimulation
  <1>2. IInv /\ IInv' /\ [AssumedNext]_vars => [DL!Next]_(DL!vars)
    <2>1. UNCHANGED vars => UNCHANGED DL!vars
      <3> SUFFICES ASSUME UNCHANGED vars PROVE UNCHANGED DL!vars
        OBVIOUS
      <3>1. CacheImage' = CacheImage
        BY DEF vars, CacheImage
      <3>2. Visible' = Visible
        BY <3>1 DEF vars, Visible, lazily, undo, fix_all, undo_incll, Cl0Hit, LvHit, LvRecovered,
                    Content
      <3> QED
        BY <3>2 DEF vars, DL!vars
    <2> QED
      BY <2>1, StepSimulation
  <1> QED
    BY <1>1, <1>2, Invariance, PTL DEF AssumedSpec, DurableRefinement, DL!Spec
=============================================================================
