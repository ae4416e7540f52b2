-------------------------------- MODULE Rows --------------------------------
(***************************************************************************)
(* The four row types (value_array, value_versioned_array, value_bag,      *)
(* value_string) and the queries on one row (kvrow.hh): one writer at a    *)
(* time, the holder of the leaf's lock, and readers without a lock whose   *)
(* answers point into the row until their query ends.                      *)
(*                                                                         *)
(* Rows and columns are blocks of memory, none used twice.  A retired      *)
(* block carries the epoch of its retirement and is freed at the end of    *)
(* the first operation of the writer's thread for which active_epoch is    *)
(* past it, the earliest RcuLimbo allows.  Texts are sequences of letters; *)
(* an offset of a bag counts one for a letter and for each entry of its    *)
(* header.                                                                 *)
(*                                                                         *)
(* g.slips notes what the code does not guard against: an epoch that moves *)
(* between the retirement of what the leaf still points to and its         *)
(* replacement (window), or between rcu_stop and the sending of the answer *)
(* (late); columns of a row freed with a query's snapshot (shared); a      *)
(* single field that the versioned row does not have (field).              *)
(***************************************************************************)
EXTENDS Integers, Sequences, FiniteSets, SequencesExt, FiniteSetsExt, TLC

CONSTANTS Kinds,        \* row types of the run
          Readers,
          ColumnChanges,\* updates of array and bag rows: <<[at, v], ...>>
          StringChanges,\* updates of string rows: <<[at, whole, v], ...>>
          NewTexts,     \* values of run_replace
          FieldLists,   \* fields of a get; <<>> for all
          MaxWrites, MaxGets, MaxTicks

VARIABLES kind,
          g,     \* memory: m, block -> content; n, the next block; limbo; globalepoch
                 \* (epoch), active_epoch (active); slips
          slot,  \* the row the leaf points to, 0 for none
          w,     \* the writer
          rd,    \* the readers
          want,  \* the columns the row should show, <<>> without a row
          writes

vars == <<kind, g, slot, w, rd, want, writes>>

-------------------------------------------------------------------------------
(* Memory.                                                                 *)

Allocated(h, b) == [h EXCEPT !.m = @ @@ (h.n :> b), !.n = @ + 1]
RemoveBlocks(h, S) == [h EXCEPT !.m = [i \in DOMAIN h.m \ S |-> h.m[i]]]

\* record_rcu: the block is stamped with the epoch of the call.
Retired(h, S) == [h EXCEPT !.limbo = @ \cup {[id |-> i, epoch |-> h.epoch] : i \in S \ {0}}]

\* hard_rcu_quiesce.
Reclaimed(h) == LET ready == {l \in h.limbo : l.epoch <= h.active - 1}
                IN  [RemoveBlocks(h, {l.id : l \in ready}) EXCEPT !.limbo = @ \ ready]
Slips(h, S) == [h EXCEPT !.slips = @ \cup S]

-------------------------------------------------------------------------------
(* value_array and value_versioned_array: the columns are blocks of their  *)
(* own, 0 for an empty one.                                                *)

ArrayRow(cols) == [cols |-> cols, ncol |-> Len(cols), ver |-> 0, dirty |-> FALSE]

\* [h, cols] with column at set to a new block.
make_column(hc, at, v) ==
    IF v = <<>> THEN [hc EXCEPT !.cols[at + 1] = 0]
    ELSE [h |-> Allocated(hc.h, [text |-> v]), cols |-> [hc.cols EXCEPT ![at + 1] = hc.h.n]]

\* The columns of the old row, which the new row shares, and the changes.
array_update(h, old, change) ==
    LET ncol == Max({Len(old), Last(change).at + 1})
        shared == [i \in 1..ncol |-> IF i <= Len(old) THEN old[i] ELSE 0]
    IN  FoldLeft(LAMBDA hc, c : make_column(hc, c.at, c.v), [h |-> h, cols |-> shared], change)

AllColumns(row) == Range(row.cols)
MutReplacedColumns(row, change) == AllColumns(row)
ReplacedColumns(row, change) ==
    {row.cols[change[i].at + 1] : i \in {j \in DOMAIN change : change[j].at < row.ncol}}

-------------------------------------------------------------------------------
(* value_bag: all columns in one block, pos the offset where each starts   *)
(* and, last, where the row ends; s the bytes, "#" for those of the header. *)

Header(ncol) == 2 + ncol
NoColumnBag == [pos |-> <<Header(0)>>, s |-> [i \in 1..Header(0) |-> "#"]]
BagCols(b) == Len(b.pos) - 1
BagCol(b, i) == SubSeq(b.s, b.pos[i + 1] + 1, b.pos[i + 2])

\* The part of the loop before column this_col: columns of the old row, then
\* empty ones.
CopyUntil(b, st, this_col) ==
    LET col == Len(st.pos)
        end == Min({this_col, BagCols(b)})
        delta == Len(st.s) - b.pos[col + 1]
        copied == IF col >= end THEN st
                  ELSE [pos |-> st.pos \o [i \in 1..(end - col) |-> b.pos[col + i] + delta],
                        s |-> st.s \o SubSeq(b.s, b.pos[col + 1] + 1, b.pos[end + 1])]
    IN  [copied EXCEPT !.pos = @ \o [i \in 1..(this_col - Len(@)) |-> Len(copied.s)]]
CopyChange(b, st, c) ==
    LET before == CopyUntil(b, st, c.at)
    IN  [pos |-> Append(before.pos, Len(before.s)), s |-> before.s \o c.v]

bag_update(b, change) ==
    LET ncol == Max({BagCols(b), Last(change).at + 1})
        c == Head(change)
        SameSize == /\ ncol = BagCols(b) /\ Len(change) = 1
                    /\ Len(c.v) = Len(BagCol(b, c.at))
        first == [pos |-> <<>>, s |-> [i \in 1..Header(ncol) |-> "#"]]
        built == CopyUntil(b, FoldLeft(LAMBDA st, x : CopyChange(b, st, x), first, change), ncol)
    IN  IF SameSize
        THEN [b EXCEPT !.s = [i \in DOMAIN @ |-> IF i - b.pos[c.at + 1] \in DOMAIN c.v
                                                 THEN c.v[i - b.pos[c.at + 1]] ELSE @[i]]]
        ELSE [built EXCEPT !.pos = Append(@, Len(built.s))]

-------------------------------------------------------------------------------
(* value_string: a change names an offset, or the whole string; the bytes  *)
(* nothing is copied to are "?".                                           *)

string_update(s, change) ==
    LET whole == {i \in DOMAIN change : change[i].whole}
        cut == IF whole = {} THEN Len(s) ELSE Len(change[Max(whole)].v)
        vallen == Max({cut} \cup {change[i].at + Len(change[i].v) : i \in DOMAIN change})
        base == [i \in 1..vallen |-> IF i <= cut /\ i <= Len(s) THEN s[i] ELSE "?"]
    IN  FoldLeft(LAMBDA t, c : [i \in DOMAIN t |-> IF i - c.at \in DOMAIN c.v
                                                  THEN c.v[i - c.at] ELSE t[i]],
                 base, change)

-------------------------------------------------------------------------------
(* The interface of the four types.                                        *)

Arrays == {"array", "versioned"}

\* create and update: the memory with the new row, which is its last block.
create(h, change) ==
    IF kind \in Arrays
    THEN LET hc == array_update(h, <<>>, change) IN Allocated(hc.h, ArrayRow(hc.cols))
    ELSE IF kind = "bag" THEN Allocated(h, bag_update(NoColumnBag, change))
    ELSE Allocated(h, string_update(<<>>, change))
update(h, row, change) ==
    IF kind \in Arrays
    THEN LET hc == array_update(h, row.cols, change) IN Allocated(hc.h, ArrayRow(hc.cols))
    ELSE IF kind = "bag" THEN Allocated(h, bag_update(row, change))
    ELSE Allocated(h, string_update(row, change))
create1(h, v) == create(h, <<[at |-> 0, whole |-> TRUE, v |-> v]>>)
Made(h) == h.n - 1

deallocate_rcu(h, id) ==
    Retired(h, {id} \cup IF kind \in Arrays THEN AllColumns(h.m[id]) ELSE {})
\* A versioned row's columns were retired by update, before.
deallocate_rcu_after_update(h, id, change) ==
    Retired(h, {id} \cup IF kind = "array" THEN ReplacedColumns(h.m[id], change) ELSE {})

ncol(row) == CASE kind \in Arrays -> row.ncol [] kind = "bag" -> BagCols(row) [] OTHER -> 1

\* What col(i) refers to: a block and, where columns share the block, its text.
col(id, i) ==
    LET row == g.m[id]
    IN  CASE i >= ncol(row) -> [id |-> 0, text |-> <<>>]
          [] kind \in Arrays -> [id |-> row.cols[i + 1], text |-> <<>>]
          [] kind = "bag" -> [id |-> id, text |-> BagCol(row, i)]
          [] OTHER -> [id |-> id, text |-> row]
Text(ref) == IF kind \in Arrays /\ ref.id # 0 THEN g.m[ref.id].text ELSE ref.text

\* checkpoint_write and checkpoint_read.
Restored(id) ==
    LET empty == [g EXCEPT !.m = <<>>, !.epoch = 1, !.active = 1]
        cols == [i \in 1..ncol(g.m[id]) |-> [at |-> i - 1, v |-> Text(col(id, i - 1))]]
    IN  IF kind \in Arrays THEN create(empty, cols) ELSE Allocated(empty, g.m[id])

-------------------------------------------------------------------------------
(* The columns a row should show.                                          *)

WantUpdate(v, change) ==
    IF kind = "string"
    THEN <<FoldLeft(LAMBDA s, c : IF c.whole THEN c.v
                                  ELSE SubSeq(s, 1, c.at) \o c.v
                                       \o SubSeq(s, c.at + Len(c.v) + 1, Len(s)), v[1], change)>>
    ELSE LET n == Max({Len(v), Last(change).at + 1})
             Changed(i) == {c \in Range(change) : c.at = i - 1}
         IN  [i \in 1..n |-> IF Changed(i) # {} THEN (CHOOSE c \in Changed(i) : TRUE).v
                             ELSE IF i <= Len(v) THEN v[i] ELSE <<>>]
NoColumns == IF kind = "string" THEN << <<>> >> ELSE <<>>

\* An offset past the end would leave bytes unwritten.
Fits(v, change) == kind = "string" =>
    \A i \in DOMAIN change : change[i].whole \/ change[i].at <= Len(v[1])

-------------------------------------------------------------------------------
(* The writer: find_insert or find_locked has locked the leaf.             *)

Init == /\ kind \in Kinds
        /\ g = [m |-> <<>>, n |-> 1, limbo |-> {}, epoch |-> 1, active |-> 1, slips |-> {}]
        /\ slot = 0 /\ want = <<>> /\ writes = 0
        /\ w = [pc |-> "idle", change |-> <<>>, old |-> 0, gc |-> 0]
        /\ rd = [r \in Readers |-> [pc |-> "idle", f |-> <<>>, row |-> 0, v1 |-> 0, n |-> 0,
                                    snap |-> <<>>, ncol |-> 0, out |-> <<>>, seen |-> {},
                                    gets |-> 0, gc |-> 0]]

Looking == {r \in Readers : rd[r].pc \notin {"idle", "answered", "stopped"}}
Changes == IF kind = "string" THEN StringChanges ELSE ColumnChanges
Shows(v) == /\ want' = v
            /\ rd' = [r \in Readers |-> IF r \in Looking THEN [rd[r] EXCEPT !.seen = @ \cup {v}]
                                        ELSE rd[r]]
WriterAt(pc, change, old) == w' = [pc |-> pc, change |-> change, old |-> old, gc |-> g.epoch]
Begins == w.pc = "idle" /\ writes < MaxWrites /\ writes' = writes + 1
WriterGoes(pc, change, old) == w' = [w EXCEPT !.pc = pc, !.change = change, !.old = old]

\* run_put of a new key: the row is published when finish ends the insert.
PutInsert == \E change \in Changes :
    /\ Begins /\ slot = 0 /\ Fits(NoColumns, change)
    /\ g' = create(g, change)
    /\ slot' = Made(g')
    /\ Shows(WantUpdate(NoColumns, change))
    /\ WriterAt("finish", <<>>, 0)
    /\ UNCHANGED kind

\* The versioned row is changed in place when it has the columns.
InPlace(change) == kind = "versioned" /\ Last(change).at < g.m[slot].ncol
PutUpdate == \E change \in Changes :
    /\ Begins /\ slot # 0 /\ Fits(want, change) /\ kind # "versioned"
    /\ g' = update(g, g.m[slot], change)
    /\ slot' = Made(g')
    /\ Shows(WantUpdate(want, change))
    /\ WriterAt("retire", change, slot)
    /\ UNCHANGED kind
\* A versioned row without the columns: update retires the columns of the old row
\* before apply_put publishes the new one.
CopyVersioned == \E change \in Changes :
    /\ Begins /\ slot # 0 /\ kind = "versioned" /\ ~InPlace(change)
    /\ g' = Retired(update(g, g.m[slot], change), ReplacedColumns(g.m[slot], change))
    /\ WriterAt("publish", change, slot)
    /\ UNCHANGED <<kind, slot, rd, want>>
PublishVersioned ==
    /\ w.pc = "publish"
    /\ slot' = Made(g)
    /\ Shows(WantUpdate(want, w.change))
    /\ WriterGoes("retire", w.change, w.old)
    /\ UNCHANGED <<kind, g, writes>>
RetireOld ==
    /\ w.pc = "retire"
    /\ g' = deallocate_rcu_after_update(g, w.old, w.change)
    /\ WriterGoes("finish", <<>>, 0)
    /\ UNCHANGED <<kind, slot, rd, want, writes>>

SetDirty == \E change \in Changes :
    /\ Begins /\ slot # 0 /\ InPlace(change)
    /\ g' = [g EXCEPT !.m[slot].dirty = TRUE]
    /\ WriterAt("columns", change, slot)
    /\ UNCHANGED <<kind, slot, rd, want>>
SetColumn ==
    /\ w.pc = "columns" /\ w.change # <<>>
    /\ LET c == Head(w.change)
           row == g.m[slot]
           hc == make_column([h |-> Retired(g, {row.cols[c.at + 1]}), cols |-> row.cols], c.at, c.v)
       IN  g' = [hc.h EXCEPT !.m[slot].cols = hc.cols]
    \* want follows column by column; it is shown when the version is.
    /\ want' = WantUpdate(want, <<Head(w.change)>>)
    /\ w' = [w EXCEPT !.change = Tail(@)]
    /\ UNCHANGED <<kind, slot, rd, writes>>
ClearAndBump ==
    /\ w.pc = "columns" /\ w.change = <<>>
    /\ g' = [g EXCEPT !.m[slot].dirty = FALSE, !.m[slot].ver = @ + 1]
    /\ Shows(want)
    /\ WriterGoes("finish", <<>>, 0)
    /\ UNCHANGED <<kind, slot, writes>>

\* run_replace retires the old row before it makes the new one.
Replace == \E v \in NewTexts :
    /\ Begins
    /\ g' = IF slot = 0 THEN g ELSE deallocate_rcu(g, slot)
    /\ WriterAt("create1", v, 0)
    /\ UNCHANGED <<kind, slot, rd, want>>
PublishNew ==
    /\ w.pc = "create1"
    /\ g' = create1(g, w.change)
    /\ slot' = Made(g')
    /\ Shows(<<w.change>>)
    /\ WriterGoes("finish", <<>>, 0)
    /\ UNCHANGED <<kind, writes>>

RemoveRow ==
    /\ Begins /\ slot # 0
    /\ g' = deallocate_rcu(g, slot)
    /\ WriterAt("unlink", <<>>, 0)
    /\ UNCHANGED <<kind, slot, rd, want>>
Unlink ==
    /\ w.pc = "unlink"
    /\ slot' = 0
    /\ Shows(<<>>)
    /\ WriterGoes("finish", <<>>, 0)
    /\ UNCHANGED <<kind, g, writes>>

\* finish unlocks the leaf; rcu_stop.
Finish ==
    /\ w.pc = "finish"
    /\ g' = Reclaimed(g)
    /\ w' = [pc |-> "idle", change |-> <<>>, old |-> 0, gc |-> 0]
    /\ UNCHANGED <<kind, slot, rd, want, writes>>

\* The row after a restart from a checkpoint.
Restart ==
    /\ w.pc = "idle" /\ slot # 0 /\ g.limbo = {} /\ writes < MaxWrites
    /\ \A r \in Readers : rd[r].pc = "idle"
    /\ g' = Restored(slot)
    /\ slot' = Made(g')
    /\ rd' = [r \in Readers |-> [rd[r] EXCEPT !.snap = <<>>, !.ncol = 0]]
    /\ writes' = writes + 1
    /\ UNCHANGED <<kind, w, want>>

\* epochinc.  What the leaf points to and is retired, the answers that wait to be sent:
\* neither is known to min_active_epoch.
Retiring == w.pc \in {"publish", "unlink"} \/ (w.pc = "create1" /\ slot # 0)
Tick ==
    /\ g.epoch <= MaxTicks
    /\ LET gcs == ({w.gc} \cup {rd[r].gc : r \in Readers}) \ {0}
       IN  g' = [Slips(g, (IF Retiring THEN {"window"} ELSE {})
                          \cup IF \E r \in Readers : rd[r].pc = "stopped" THEN {"late"} ELSE {})
                 EXCEPT !.epoch = @ + 1, !.active = Min(gcs \cup {g.epoch + 1})]
    /\ UNCHANGED <<kind, slot, w, rd, want, writes>>

-------------------------------------------------------------------------------
(* The readers.                                                            *)

ReaderIs(r, rec) == rd' = [rd EXCEPT ![r] = rec]
UnchangedRow == UNCHANGED <<kind, g, slot, w, want, writes>>

\* What may be current now: in an update in place, nothing that is shown yet.
Seen == IF w.pc = "columns" THEN {} ELSE {want}

\* rcu_start and find_unlocked.
FindUnlocked(r) == \E f \in FieldLists :
    /\ rd[r].pc = "idle" /\ rd[r].gets < MaxGets /\ slot # 0
    /\ ReaderIs(r, [rd[r] EXCEPT !.pc = IF kind = "versioned" THEN "prepare" ELSE "emit",
                                 !.f = f, !.row = slot, !.out = <<>>, !.seen = Seen,
                                 !.gets = @ + 1, !.gc = g.epoch])
    /\ UnchangedRow

\* snapshot: a query keeps its snapshot, whose columns are those of the rows it was copied
\* from, and deallocates it, columns and all, when a row has more columns.
PrepareSnapshot(r) ==
    LET row == g.m[rd[r].row]
        small == Len(rd[r].snap) < row.ncol
        columns == {rd[r].snap[i] : i \in 1..rd[r].ncol} \ {0}
    IN  /\ rd[r].pc = "prepare"
        /\ ReaderIs(r, [rd[r] EXCEPT !.pc = "stable", !.ncol = row.ncol,
                            !.snap = IF small THEN [i \in 1..row.ncol |-> 0] ELSE @])
        /\ g' = IF small /\ columns # {} THEN Slips(RemoveBlocks(g, columns), {"shared"}) ELSE g
        /\ UNCHANGED <<kind, slot, w, want, writes>>
\* stable waits while the row is dirty.
Stable(r) ==
    LET row == g.m[rd[r].row]
    IN  /\ rd[r].pc = "stable" /\ ~row.dirty
        /\ ReaderIs(r, [rd[r] EXCEPT !.pc = "copy", !.v1 = row.ver, !.n = 0,
                                     !.seen = @ \cup Seen])
        /\ UnchangedRow
\* The columns are copied one after the other, or only the one asked for, whether or not
\* the row and the snapshot have it.
CopyColumn(r) ==
    LET row == g.m[rd[r].row]
        all == Len(rd[r].f) # 1
        i == IF all THEN rd[r].n + 1 ELSE rd[r].f[1] + 1
        goes == rd[r].n < IF all THEN rd[r].ncol ELSE 1
    IN  /\ rd[r].pc = "copy"
        /\ ReaderIs(r, IF ~goes THEN [rd[r] EXCEPT !.pc = "check"]
                       ELSE IF i <= row.ncol THEN [rd[r] EXCEPT !.snap[i] = row.cols[i], !.n = @ + 1]
                       ELSE [rd[r] EXCEPT !.n = @ + 1])
        /\ g' = IF goes /\ i > row.ncol THEN Slips(g, {"field"}) ELSE g
        /\ UNCHANGED <<kind, slot, w, want, writes>>
\* Copied again unless the version is the one before the copy; emit_fields then
\* reads the snapshot.
CheckVersion(r) ==
    LET row == g.m[rd[r].row]
        f == rd[r].f
        Ref(i) == [id |-> IF i < rd[r].ncol THEN rd[r].snap[i + 1] ELSE 0, text |-> <<>>]
        out == IF f = <<>> THEN [i \in 1..rd[r].ncol |-> Ref(i - 1)]
               ELSE [i \in DOMAIN f |-> Ref(f[i])]
    IN  /\ rd[r].pc = "check" /\ ~row.dirty
        /\ ReaderIs(r, IF row.ver = rd[r].v1
                       THEN [rd[r] EXCEPT !.pc = "answered", !.out = out]
                       ELSE [rd[r] EXCEPT !.pc = "copy", !.v1 = row.ver, !.n = 0])
        /\ UnchangedRow

\* emit_fields: the answer refers to the columns.
EmitFields(r) ==
    LET f == rd[r].f
        row == rd[r].row
    IN  /\ rd[r].pc = "emit"
        /\ ReaderIs(r, [rd[r] EXCEPT !.pc = "answered",
                !.out = IF f = <<>> THEN [i \in 1..ncol(g.m[row]) |-> col(row, i - 1)]
                        ELSE [i \in DOMAIN f |-> col(row, f[i])]])
        /\ UnchangedRow

\* rcu_stop; the answer, which refers to the columns, is sent after it.
RcuStop(r) ==
    /\ rd[r].pc = "answered"
    /\ ReaderIs(r, [rd[r] EXCEPT !.pc = "stopped", !.gc = 0])
    /\ UnchangedRow
Answer(r) ==
    /\ rd[r].pc = "stopped"
    /\ ReaderIs(r, [rd[r] EXCEPT !.pc = "idle", !.f = <<>>, !.row = 0, !.v1 = 0, !.n = 0,
                                 !.out = <<>>, !.seen = {}])
    /\ UnchangedRow

Next == \/ PutInsert \/ PutUpdate \/ CopyVersioned \/ PublishVersioned \/ RetireOld \/ SetDirty \/ SetColumn \/ ClearAndBump
        \/ Replace \/ PublishNew \/ RemoveRow \/ Unlink \/ Finish \/ Restart \/ Tick
        \/ \E r \in Readers : \/ FindUnlocked(r) \/ PrepareSnapshot(r) \/ Stable(r)
                              \/ CopyColumn(r) \/ CheckVersion(r) \/ EmitFields(r)
                              \/ RcuStop(r) \/ Answer(r)

Spec == Init /\ [][Next]_vars

-------------------------------------------------------------------------------

Fields(v, f) == IF f = <<>> THEN v
                ELSE [i \in DOMAIN f |-> IF f[i] < Len(v) THEN v[f[i] + 1] ELSE <<>>]

\* What is reached from the leaf, the limbo list and, in an operation, what it
\* has replaced and not yet retired.
Blocks(id) == IF id = 0 THEN {} ELSE {id} \cup IF kind \in Arrays THEN AllColumns(g.m[id]) ELSE {}
Reached == Blocks(slot) \cup {l.id : l \in g.limbo}
           \cup (IF w.pc = "retire" THEN Blocks(w.old) ELSE {})
           \cup IF w.pc = "publish" THEN Blocks(Made(g)) ELSE {}

\* A get answers with one version of the row, though the row is replaced,
\* changed in place or removed while the get looks at it and new rows share
\* columns with old ones: the columns are those the row showed at one moment of
\* the get, and no block is freed that an answer or the row in the tree refers
\* to; no block is lost either, and nothing outside a row is read or written.
Whole ==
    /\ "field" \notin g.slips
    /\ \A r \in Readers : rd[r].pc # "idle" =>
        /\ rd[r].pc \in {"answered", "stopped"} \/ rd[r].row \in DOMAIN g.m
        /\ \A i \in DOMAIN rd[r].out : rd[r].out[i].id # 0 => rd[r].out[i].id \in DOMAIN g.m
        /\ rd[r].pc = "answered" =>
            \E v \in rd[r].seen \ {<<>>} :
                [i \in DOMAIN rd[r].out |-> Text(rd[r].out[i])] = Fields(v, rd[r].f)
    /\ Blocks(slot) \ {0} \subseteq DOMAIN g.m
    /\ Reached \ {0} = DOMAIN g.m
    /\ slot # 0 /\ w.pc \in {"idle", "finish"} =>
        [i \in 1..ncol(g.m[slot]) |-> Text(col(slot, i - 1))] = want

\* This holds for as long as nothing slips.
RowsAreWhole == g.slips = {} => Whole
=============================================================================
