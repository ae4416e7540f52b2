------------------------------ MODULE ValueLog ------------------------------
(***************************************************************************)
(* The value log, the checkpoints and the recovery of mtd: log.cc, log.hh, *)
(* checkpoint.cc, kvrow.hh and the second half of mtd.cc.                  *)
(*                                                                         *)
(* A put changes a row under the leaf's lock, takes its log's lock and the *)
(* log epoch there, and records itself with that lock still held.  Each    *)
(* log has a thread that swaps the buffer, writes and fsyncs it, and notes *)
(* in the log that nothing is going on (quiesce).  A checkpoint visits the *)
(* rows one by one while puts go on.  A restart reads the last committed   *)
(* checkpoint and replays from every log the epochs below the smallest one *)
(* that some log may have lost.                                            *)
(*                                                                         *)
(* A row is its timestamp and, per column, the timestamp of the put that   *)
(* wrote it; a log is a sequence of records, a torn one counts as absent.  *)
(***************************************************************************)
EXTENDS Integers, Sequences, FiniteSets
LOCAL INSTANCE SequencesExt

CONSTANTS Clients, Logs, LogOf,  \* logs->log(ti->index() % nlogger)
          Keys, Cols, ColOf,     \* the column that a client puts
          BufLen,                \* len_, in records
          MaxEpoch, MaxOps, MaxCheckpoints,
          MaxFailures, MaxRecoveryFailures  \* of a server that is up; that recovers

VARIABLES up,                    \* "up", "down", "recovering", "aborted"
          global_log_epoch, global_wake_epoch,
          tree, phantom_epoch_,  \* a row is a chain: delta markers, then a value
          ts_, query,            \* of each client thread
          log, disk,             \* loginfo; its file
          ck, ckpgen,            \* conc_checkpointer; the file kvd-ckp-gen
          rec,                   \* the bounds and the progress of a replay
          hist, slips, failures,
          flushed                \* history: max_flushed_epoch when the server failed

vars == <<up, global_log_epoch, global_wake_epoch, tree, phantom_epoch_, ts_, query, log, disk,
          ck, ckpgen, rec, hist, slips, failures, flushed>>

None == "none"
Nonzero(S) == S \ {0}
MaxOr0(S) == IF S = {} THEN 0 ELSE Max(S)
\* if (!m || x < m) m = x, over S in the order of the logs: the next log
\* forgets a zero.
RunningMin(f, S) ==
  LET Z == {i \in S : f[i] = 0}
      live == IF Z = {} THEN S ELSE {i \in S : i > Max(Z)}
  IN IF live = {} THEN 0 ELSE Min({f[i] : i \in live})

-----------------------------------------------------------------------------
(* Rows: timestamps of markers are odd.                                    *)
Row(ts, cols) == [kind |-> "row", ts |-> ts, cols |-> cols]
Create(c, ts) == Row(ts, [x \in Cols |-> IF x = c THEN ts ELSE 0])
Update(row, c, ts) == Row(ts, [row.cols EXCEPT ![c] = ts])
IsMarker(row) == row.ts % 2 = 1
FirstCol == Min(Cols)

\* loginfo::loginfo.
NewLog == [lock |-> None, waiting |-> <<>>, buf |-> <<>>, xbuf |-> <<>>, xepoch |-> 0,
           log_epoch_ |-> 0, quiescent_epoch_ |-> 0, wake_epoch_ |-> 0, flushed_epoch_ |-> 0]

NoQuery == [op |-> None]
Idle == [st |-> "idle"]
NoReplay == [min |-> 0, max |-> 0, ops |-> {}, todo |-> [l \in Logs |-> {}], clean |-> {}]

Init ==
  /\ up = "up"
  /\ global_log_epoch = 1 /\ global_wake_epoch = 0
  /\ tree = [k \in Keys |-> <<>>] /\ phantom_epoch_ = 2
  /\ ts_ = [c \in Clients |-> 2] /\ query = [c \in Clients |-> NoQuery]
  /\ log = [l \in Logs |-> NewLog] /\ disk = [l \in Logs |-> <<>>]
  /\ ck = Idle /\ ckpgen = [gen |-> 0, min |-> 0, max |-> 0, rows |-> {}]
  /\ rec = NoReplay
  /\ hist = {} /\ slips = {} /\ failures = 0 /\ flushed = 0

-----------------------------------------------------------------------------
(* kvrow.hh.  update_timestamp goes past the row's own timestamp;          *)
(* observe_phantoms past that of the last remove in the leaf.              *)
UpdateTimestamp(c, x) == IF ts_[c] <= x THEN 2 * (x \div 2) + 2 ELSE ts_[c]
ObservePhantoms(c) == IF ts_[c] < phantom_epoch_ THEN phantom_epoch_ ELSE ts_[c]

\* acquire() while the leaf is locked, then qtimes_ and the change itself.  (Bound:
\* no operation that no failure can follow.)
Apply(c, k, cmd, col, ts, prev, chain) ==
  LET l == LogOf[c] IN
  /\ up = "up" /\ query[c] = NoQuery /\ Cardinality(hist) < MaxOps
  /\ failures < MaxFailures
  /\ log[l].lock = None
  /\ log' = [log EXCEPT ![l].lock = c]
  /\ ts_' = [ts_ EXCEPT ![c] = ts]
  /\ tree' = [tree EXCEPT ![k] = chain]
  /\ query' = [query EXCEPT ![c] = [op |-> cmd, key |-> k, col |-> col, ts |-> ts,
                                    prev_ts |-> prev, epoch |-> global_log_epoch]]
  /\ hist' = hist \cup {[op |-> IF cmd = "put" /\ prev # 0 THEN "modify" ELSE cmd, key |-> k,
                         col |-> col, ts |-> ts, epoch |-> global_log_epoch]}
  /\ UNCHANGED <<up, global_log_epoch, global_wake_epoch, disk, ck, ckpgen, rec, slips, failures, flushed>>

\* run_put on a key that is absent or holds a marker, and on a row.
PutInsert(c, k) ==
  LET ts == IF tree[k] = <<>> THEN ObservePhantoms(c) ELSE UpdateTimestamp(c, tree[k][1].ts) IN
  /\ tree[k] # <<>> => IsMarker(tree[k][1])
  /\ Apply(c, k, "put", ColOf[c], ts, 0, <<Create(ColOf[c], ts)>>)
  /\ UNCHANGED phantom_epoch_

PutUpdate(c, k) ==
  LET old == tree[k][1]
      ts == UpdateTimestamp(c, old.ts) IN
  /\ tree[k] # <<>> /\ ~IsMarker(old)
  /\ Apply(c, k, "put", ColOf[c], ts, old.ts, <<Update(old, ColOf[c], ts)>>)
  /\ UNCHANGED phantom_epoch_

\* run_replace.
RunReplace(c, k) ==
  LET found == tree[k] # <<>>
      ts == IF found THEN UpdateTimestamp(c, tree[k][1].ts) ELSE ObservePhantoms(c) IN
  /\ Apply(c, k, "replace", FirstCol, ts, IF found THEN tree[k][1].ts ELSE 0,
           <<Create(FirstCol, ts)>>)
  /\ UNCHANGED phantom_epoch_

\* run_remove of a key that is there.
RunRemove(c, k) ==
  /\ tree[k] # <<>>
  /\ LET ts == UpdateTimestamp(c, tree[k][1].ts) IN
       /\ Apply(c, k, "remove", FirstCol, ts, tree[k][1].ts, <<>>)
       /\ phantom_epoch_' = IF phantom_epoch_ <= ts THEN ts + 2 ELSE phantom_epoch_

-----------------------------------------------------------------------------
(* loginfo::record.  The lock is held from Apply on.                       *)
EpochRec(e) == [cmd |-> "epoch", epoch |-> e]
WakeRec == [cmd |-> "wake"]
QuiesceRec == [cmd |-> "quiesce"]
RoomNeeded == 3

\* A put of a row that had an even timestamp is a modify.
KvRec(q) ==
  [cmd |-> IF q.op = "put" /\ q.prev_ts # 0 /\ q.prev_ts % 2 = 0 THEN "modify" ELSE q.op,
   key |-> q.key, col |-> q.col, ts |-> q.ts, prev_ts |-> q.prev_ts]

MayRecord(c) ==
  LET l == LogOf[c] IN
  /\ BufLen - Len(log[l].buf) >= RoomNeeded
  /\ \A i \in DOMAIN log[l].waiting : log[l].waiting[i] = c => i = 1

\* (History.)  What a put may slip past: an earlier one that stalls, and one
\* that has yet to wake its quiescent log.
Overtakes(c) ==
  LET g == log[LogOf[c]] IN
  query[c].epoch < g.log_epoch_ \/ (g.waiting # <<>> /\ g.waiting[1] # c)
Unannounced(c) ==
  \E d \in Clients : LogOf[d] # LogOf[c] /\ query[d] # NoQuery /\ log[LogOf[d]].quiescent_epoch_ # 0

Record(c) ==
  LET l == LogOf[c]
      g == log[l]
      q == query[c]
      woken == g.quiescent_epoch_ # 0
      gwe == IF woken /\ global_wake_epoch < q.epoch THEN q.epoch ELSE global_wake_epoch
      we == IF gwe # g.wake_epoch_ /\ q.epoch < gwe THEN q.epoch ELSE gwe
  IN
  /\ up = "up" /\ q # NoQuery /\ g.lock = c /\ MayRecord(c)
  /\ log' = [log EXCEPT ![l] = [g EXCEPT
       !.buf = g.buf \o (IF q.epoch # g.log_epoch_ THEN <<EpochRec(q.epoch)>> ELSE <<>>)
                     \o (IF we # g.wake_epoch_ THEN <<WakeRec>> ELSE <<>>)
                     \o <<KvRec(q)>>,
       !.log_epoch_ = q.epoch,
       !.flushed_epoch_ = IF woken /\ @ = g.quiescent_epoch_ THEN q.epoch ELSE @,
       !.quiescent_epoch_ = 0,
       !.wake_epoch_ = we,
       !.waiting = IF g.waiting # <<>> /\ g.waiting[1] = c THEN Tail(@) ELSE @,
       !.lock = None]]
  /\ global_wake_epoch' = gwe
  /\ query' = [query EXCEPT ![c] = NoQuery]
  /\ slips' = slips \cup (IF Overtakes(c) THEN {"overtaken"} ELSE {})
                    \cup (IF Unannounced(c) THEN {"unannounced"} ELSE {})
  /\ UNCHANGED <<up, global_log_epoch, tree, phantom_epoch_, ts_, disk, ck, ckpgen, rec, hist,
                 failures, flushed>>

\* No room, or others wait: join the list once and let go of the lock.
Stall(c) ==
  LET l == LogOf[c] IN
  /\ up = "up" /\ query[c] # NoQuery /\ log[l].lock = c /\ ~MayRecord(c)
  /\ log' = [log EXCEPT ![l].lock = None,
                        ![l].waiting = IF \E i \in DOMAIN @ : @[i] = c THEN @ ELSE Append(@, c)]
  /\ UNCHANGED <<up, global_log_epoch, global_wake_epoch, tree, phantom_epoch_, ts_, query, disk,
                 ck, ckpgen, rec, hist, slips, failures, flushed>>

\* After a nap the stalled thread takes the lock again.
Retry(c) ==
  LET l == LogOf[c] IN
  /\ up = "up" /\ query[c] # NoQuery /\ log[l].lock = None /\ MayRecord(c)
  /\ log' = [log EXCEPT ![l].lock = c]
  /\ UNCHANGED <<up, global_log_epoch, global_wake_epoch, tree, phantom_epoch_, ts_, query, disk,
                 ck, ckpgen, rec, hist, slips, failures, flushed>>

-----------------------------------------------------------------------------
(* loginfo::run.  Its thread wakes up every 200 ms; f_.waiting_ keeps it   *)
(* from calling the log quiescent while a put is stalled.                  *)
Quiesces(g) ==
  /\ g.buf = <<>> /\ g.quiescent_epoch_ = 0
  /\ global_log_epoch # g.log_epoch_ /\ global_log_epoch # global_wake_epoch
  /\ g.waiting = <<>>

Woken(g) ==
  IF g.wake_epoch_ # global_wake_epoch
  THEN [g EXCEPT !.wake_epoch_ = global_wake_epoch, !.quiescent_epoch_ = 0]
  ELSE g

QuiesceNote(g) ==
  [g EXCEPT !.quiescent_epoch_ = global_log_epoch, !.log_epoch_ = global_log_epoch,
            !.buf = <<EpochRec(global_log_epoch)>>
                    \o (IF global_log_epoch = g.wake_epoch_ THEN <<WakeRec>> ELSE <<>>)
                    \o <<QuiesceRec>>]

\* (Mutant: the epoch of the clock counts as written, not that of the log.)
MutSwapBuffers(g) ==
  [g EXCEPT !.xbuf = g.buf, !.buf = <<>>, !.xepoch = global_log_epoch]
SwapBuffers(g) ==
  [g EXCEPT !.xbuf = g.buf, !.buf = <<>>, !.xepoch = g.log_epoch_]

LogTake(l) ==
  LET g1 == Woken(log[l])
      g2 == IF Quiesces(g1) THEN QuiesceNote(g1) ELSE g1 IN
  /\ up = "up" /\ log[l].lock = None /\ log[l].xbuf = <<>>
  /\ log' = [log EXCEPT ![l] = SwapBuffers(g2)]
  /\ slips' = slips \cup (IF g1 # log[l] /\ g2 = g1 THEN {"unwoken"} ELSE {})
  /\ UNCHANGED <<up, global_log_epoch, global_wake_epoch, tree, phantom_epoch_, ts_, query, disk,
                 ck, ckpgen, rec, hist, failures, flushed>>

\* write and fsync, without the lock.
LogSynced(l) ==
  /\ up = "up" /\ log[l].xbuf # <<>>
  /\ disk' = [disk EXCEPT ![l] = @ \o log[l].xbuf]
  /\ log' = [log EXCEPT ![l].xbuf = <<>>, ![l].flushed_epoch_ = log[l].xepoch]
  /\ UNCHANGED <<up, global_log_epoch, global_wake_epoch, tree, phantom_epoch_, ts_, query, ck,
                 ckpgen, rec, hist, slips, failures, flushed>>

\* (History.)  Timing that the recovery relies on.  Every log is written to in
\* the first round of the log threads (a quiesce note, if no put came first);
\* the first tick of the epoch comes later, and the first checkpoint after the
\* first epoch of every log file.
Settled == \A l \in Logs : log[l].flushed_epoch_ # 0
Aged == \A l \in Logs : disk[l] # <<>> /\ disk[l][1].epoch < global_log_epoch
\* An operation is recorded in its epoch, if it is about to wake a quiescent log
\* at least; the other logs notice in that epoch.
Prompt == \A c \in Clients : query[c] # NoQuery => log[LogOf[c]].quiescent_epoch_ = 0
Done == \A c \in Clients : query[c] = NoQuery
Noticed == \A l \in Logs : log[l].wake_epoch_ = global_wake_epoch

\* check_epoch, by the thread of log 0.
CheckEpoch ==
  /\ up = "up" /\ log[Min(Logs)].xbuf = <<>>
  /\ global_log_epoch < MaxEpoch
  /\ global_log_epoch' = global_log_epoch + 1
  /\ slips' = slips \cup (IF Settled /\ Prompt THEN {} ELSE {"early"})
                    \cup (IF Done THEN {} ELSE {"spanning"})
                    \cup (IF Noticed THEN {} ELSE {"unnoticed"})
  /\ UNCHANGED <<up, global_wake_epoch, tree, phantom_epoch_, ts_, query, log, disk, ck, ckpgen,
                 rec, hist, failures, flushed>>

-----------------------------------------------------------------------------
(* conc_checkpointer: the checkpoint threads visit the rows, each those    *)
(* between two pivots; the files of generation gen + 1 wait for the logs.  *)
StartCheckpoint ==
  /\ up = "up" /\ ck = Idle /\ ckpgen.gen < MaxCheckpoints
  /\ ck' = [st |-> "scan", min |-> global_log_epoch, max |-> 0, gen |-> ckpgen.gen + 1,
            todo |-> Keys, rows |-> {}]
  /\ slips' = slips \cup IF Settled /\ Aged THEN {} ELSE {"early"}
  /\ UNCHANGED <<up, global_log_epoch, global_wake_epoch, tree, phantom_epoch_, ts_, query, log,
                 disk, ckpgen, rec, hist, failures, flushed>>

\* ckstate::visit_value.
VisitValue(k) ==
  /\ up = "up" /\ ck.st = "scan" /\ k \in ck.todo
  /\ ck' = [ck EXCEPT !.todo = @ \ {k},
              !.rows = IF tree[k] # <<>> /\ ~IsMarker(tree[k][1]) THEN @ \cup {<<k, tree[k][1]>>} ELSE @]
  /\ UNCHANGED <<up, global_log_epoch, global_wake_epoch, tree, phantom_epoch_, ts_, query, log,
                 disk, ckpgen, rec, hist, slips, failures, flushed>>

\* prepare_checkpoint, once every thread has written its file.
PrepareCheckpoint ==
  /\ up = "up" /\ ck.st = "scan" /\ ck.todo = {}
  /\ ck' = [ck EXCEPT !.st = "prepared", !.max = global_log_epoch]
  /\ UNCHANGED <<up, global_log_epoch, global_wake_epoch, tree, phantom_epoch_, ts_, query, log,
                 disk, ckpgen, rec, hist, slips, failures, flushed>>

\* max_flushed_epoch.
Quiescent(g) == g.quiescent_epoch_ # 0 /\ g.quiescent_epoch_ = g.flushed_epoch_
max_flushed_epoch ==
  RunningMin([l \in Logs |-> IF Quiescent(log[l]) THEN global_log_epoch ELSE log[l].flushed_epoch_],
             Logs)

\* (Mutant: an epoch that may still be written to counts as flushed.)
MutFlushedPast == max_flushed_epoch = 0 \/ max_flushed_epoch >= ck.max
FlushedPast == max_flushed_epoch = 0 \/ max_flushed_epoch > ck.max

CommitCheckpoint ==
  /\ up = "up" /\ ck.st = "prepared"
  /\ FlushedPast
  /\ ckpgen' = [gen |-> ck.gen, min |-> ck.min, max |-> ck.max, rows |-> ck.rows]
  /\ ck' = Idle
  /\ UNCHANGED <<up, global_log_epoch, global_wake_epoch, tree, phantom_epoch_, ts_, query, log,
                 disk, rec, hist, slips, failures, flushed>>

-----------------------------------------------------------------------------
(* A failure leaves of an unfinished write some prefix of its records.     *)
Fail ==
  /\ \/ up = "up" /\ failures < MaxFailures
     \/ up = "recovering" /\ failures < MaxFailures + MaxRecoveryFailures
  /\ \E n \in [Logs -> 0..Max({Len(log[l].xbuf) : l \in Logs})] :
       /\ \A l \in Logs : n[l] <= Len(log[l].xbuf)
       /\ disk' = [l \in Logs |-> disk[l] \o SubSeq(log[l].xbuf, 1, n[l])]
  /\ up' = "down" /\ failures' = failures + 1
  /\ tree' = [k \in Keys |-> <<>>] /\ phantom_epoch_' = 2
  /\ ts_' = [c \in Clients |-> 2] /\ query' = [c \in Clients |-> NoQuery]
  /\ log' = [l \in Logs |-> NewLog]
  /\ ck' = Idle /\ rec' = NoReplay
  /\ global_log_epoch' = 1 /\ global_wake_epoch' = 0
  /\ flushed' = IF up = "up" THEN max_flushed_epoch ELSE flushed
  /\ UNCHANGED <<ckpgen, hist, slips>>

-----------------------------------------------------------------------------
(* logreplay.                                                              *)
EpochsAt(l) == {i \in DOMAIN disk[l] : disk[l][i].cmd = "epoch"}
EpochOf(l, i) ==
  LET E == {j \in EpochsAt(l) : j <= i} IN IF E = {} THEN 0 ELSE disk[l][Max(E)].epoch

\* logreplay::info.  For a file that is empty, quiescent is not set.
first_epoch(l) == IF EpochsAt(l) = {} THEN 0 ELSE disk[l][Min(EpochsAt(l))].epoch
last_epoch(l) == EpochOf(l, Len(disk[l]))
wake_epoch(l) ==
  LET W == {i \in DOMAIN disk[l] : disk[l][i].cmd = "wake"}
      e == IF W = {} THEN 0 ELSE EpochOf(l, Max(W)) IN
  IF \E i \in EpochsAt(l) : i > MaxOr0(W) /\ disk[l][i].epoch < e THEN 0 ELSE e
quiescent(l) == disk[l][Len(disk[l])].cmd = "quiesce"

\* The first wake at or after epoch q.
min_post_quiescent_wake_epoch(l, q) ==
  LET W == {i \in DOMAIN disk[l] : disk[l][i].cmd = "wake" /\ EpochOf(l, i) # 0 /\ EpochOf(l, i) >= q}
  IN IF W = {} THEN 0 ELSE EpochOf(l, Min(W))

\* recover(): the epochs to replay.  Q: the logs taken to be quiescent.
Written == {l \in Logs : disk[l] # <<>>}
max_epoch ==
  MaxOr0({last_epoch(l) : l \in Written} \cup (IF ckpgen.max # 0 THEN {ckpgen.max + 1} ELSE {}))
max_first_epoch == MaxOr0({first_epoch(l) : l \in Written})
max_wake_epoch == MaxOr0({wake_epoch(l) : l \in Written})
min_quiescent_last_epoch(Q) ==
  RunningMin([l \in Logs |-> IF l \in Written THEN last_epoch(l) ELSE 0], Q)
\* (Mutant: the quiescent logs are not asked for the wake that they missed.)
MutReplayMaxEpoch(Q) == Min({max_epoch} \cup Nonzero({last_epoch(l) : l \in Written \ Q}))
replay_max_epoch(Q) ==
  LET mq == min_quiescent_last_epoch(Q)
      q == IF max_wake_epoch # 0 /\ mq <= max_wake_epoch THEN mq ELSE 0
      missed == IF q = 0 THEN {}
                ELSE {min_post_quiescent_wake_epoch(l, q) : l \in {m \in Written : q <= wake_epoch(m)}}
  IN Min({max_epoch} \cup Nonzero({last_epoch(l) : l \in Written \ Q} \cup missed))

ChecksHold(min, max) ==
  min # 0 => min > max_first_epoch /\ min < max /\ ckpgen.max < max

\* replayandclean1: where it stops, what it applies, what it keeps.
StopAt(l, max) ==
  LET S == {i \in EpochsAt(l) : disk[l][i].epoch >= max} IN
  IF S = {} THEN Len(disk[l]) + 1 ELSE Min(S)
ToReplay(l, min, max) ==
  {i \in 1..(StopAt(l, max) - 1) :
     /\ disk[l][i].cmd \in {"put", "replace", "modify", "remove"}
     /\ EpochOf(l, i) # 0 /\ EpochOf(l, i) >= min}
RepBegin(l, min, max) ==
  LET B == {i \in EpochsAt(l) : i <= StopAt(l, max) /\ (min # 0 => disk[l][i].epoch < min)} IN
  IF B = {} THEN 0 ELSE IF min = 0 THEN Min(B) ELSE Max(B)
Kept(l, min, max) ==
  IF RepBegin(l, min, max) = 0 THEN <<>>
  ELSE SubSeq(disk[l], RepBegin(l, min, max),
              IF StopAt(l, max) > Len(disk[l]) THEN Len(disk[l]) ELSE StopAt(l, max))

\* (History.)  The operations that the checkpoint and the logs hold.
Durable(max) ==
  {h \in hist :
     \/ ckpgen.min # 0 /\ h.epoch < ckpgen.min
     \/ \E p \in ckpgen.rows : p[1] = h.key /\ p[2].ts >= h.ts
     \/ \E l \in Logs : \E i \in ToReplay(l, 0, max) :
          disk[l][i].key = h.key /\ disk[l][i].ts = h.ts}

ReadCheckpoint ==
  [k \in Keys |-> IF \E p \in ckpgen.rows : p[1] = k
                 THEN <<(CHOOSE p \in ckpgen.rows : p[1] = k)[2]>> ELSE <<>>]

\* recover() up to the replay: read_checkpoint and the analysis of the logs.
Recover ==
  /\ up = "down"
  /\ \E E \in SUBSET (Logs \ Written) :
       LET max == replay_max_epoch(E \cup {l \in Written : quiescent(l)})
           ok == ChecksHold(ckpgen.min, max) IN
       /\ up' = IF ok THEN "recovering" ELSE "aborted"
       /\ rec' = [min |-> ckpgen.min, max |-> max, ops |-> Durable(max),
                  todo |-> [l \in Logs |-> IF ok THEN ToReplay(l, ckpgen.min, max) ELSE {}],
                  clean |-> {}]
  /\ tree' = ReadCheckpoint
  /\ UNCHANGED <<global_log_epoch, global_wake_epoch, phantom_epoch_, ts_, query, log, disk, ck,
                 ckpgen, hist, slips, failures, flushed>>

\* logrecord::apply.  parse_changeset reads pairs of a column and a value: it
\* asserts on the bytes of a remove.
Parses(r) == r.cmd # "remove"
IsDelta(row) == row.kind = "delta"
Marker(ts) == [kind |-> "marker", ts |-> ts]
Delta(r) == [kind |-> "delta", ts |-> r.ts + 1, prev_ts |-> r.prev_ts, cmd |-> r.cmd, col |-> r.col]

\* The innermost delta onto its base, if that is the row it was made from.
CanMerge(chain) ==
  LET n == Len(chain) IN
  n > 1 /\ IsDelta(chain[n - 1]) /\ ~IsDelta(chain[n]) /\ chain[n - 1].prev_ts = chain[n].ts
MergeOne(chain) ==
  LET n == Len(chain)
      d == chain[n - 1] IN
  IF CanMerge(chain) THEN Append(SubSeq(chain, 1, n - 2), Update(chain[n], d.col, d.ts - 1))
  ELSE chain
\* (Mutant: a delta is never merged once its row turns up.)
MutCleanUp(chain) == chain
CleanUp(chain) == FoldLeft(LAMBDA ch, x : MergeOne(ch), chain, chain)

Splice(chain, r) ==
  LET ts == IF r.cmd = "remove" THEN r.ts + 1 ELSE r.ts
      N == {i \in DOMAIN chain : IsDelta(chain[i]) /\ chain[i].ts > ts}
      n == MaxOr0({i \in N : \A j \in 1..i : j \in N})
      before == SubSeq(chain, 1, n)
      rest == SubSeq(chain, n + 1, Len(chain))
  IN CASE rest # <<>> /\ rest[1].ts >= ts -> chain
       [] r.cmd = "remove" -> Append(before, Marker(ts))
       [] r.cmd \in {"put", "replace"} -> Append(before, Create(r.col, ts))
       [] r.cmd = "modify" /\ rest # <<>> /\ rest[1].ts = r.prev_ts ->
            Append(before, Update(rest[1], r.col, ts))
       [] OTHER -> before \o <<Delta(r)>> \o rest

\* The changesets that the step has to parse: its own unless it is out of
\* date or put off, and those of the deltas that then merge.
Parsed(chain, r) ==
  LET new == Splice(chain, r)
      all == IF new = chain THEN {} ELSE {r} \cup {new[i] : i \in {j \in DOMAIN new : IsDelta(new[j])}}
      left == CleanUp(new)
  IN {d \in all : \A i \in DOMAIN left : ~(IsDelta(left[i]) /\ left[i].ts \in {d.ts, d.ts + 1})}
       \ (IF r.cmd = "replace" THEN {r} ELSE {})

ReplayRecord(l) ==
  LET r == disk[l][Min(rec.todo[l])]
      ok == \A d \in Parsed(tree[r.key], r) : Parses(d) IN
  /\ up = "recovering" /\ rec.todo[l] # {}
  /\ up' = IF ok THEN up ELSE "aborted"
  /\ tree' = [tree EXCEPT ![r.key] = IF Splice(@, r) = @ THEN @ ELSE CleanUp(Splice(@, r))]
  /\ rec' = [rec EXCEPT !.todo[l] = @ \ {Min(@)}]
  /\ UNCHANGED <<global_log_epoch, global_wake_epoch, phantom_epoch_, ts_, query, log, disk, ck,
                 ckpgen, hist, slips, failures, flushed>>

\* replay_truncate, or replay_copy and rename: the file changes at once.
CleanLog(l) ==
  /\ up = "recovering" /\ rec.todo[l] = {} /\ l \notin rec.clean
  /\ up' = IF /\ RepBegin(l, rec.min, rec.max) = 0
              /\ StopAt(l, rec.max) <= Len(disk[l]) \/ ToReplay(l, rec.min, rec.max) # {}
           THEN "aborted" ELSE up
  /\ disk' = [disk EXCEPT ![l] = Kept(l, rec.min, rec.max)]
  /\ rec' = [rec EXCEPT !.clean = @ \cup {l}]
  /\ UNCHANGED <<global_log_epoch, global_wake_epoch, tree, phantom_epoch_, ts_, query, log, ck,
                 ckpgen, hist, slips, failures, flushed>>

Replayed == up = "recovering" /\ rec.clean = Logs

\* REC_DONE; every delta must have found its row.
RecoveryDone ==
  /\ Replayed
  /\ up' = IF \E k \in Keys : \E i \in DOMAIN tree[k] : IsDelta(tree[k][i]) THEN "aborted" ELSE "up"
  /\ global_log_epoch' = rec.max + 1
  /\ hist' = rec.ops
  /\ rec' = NoReplay
  /\ UNCHANGED <<global_wake_epoch, tree, phantom_epoch_, ts_, query, log, disk, ck, ckpgen,
                 slips, failures, flushed>>

-----------------------------------------------------------------------------
Next ==
  \/ \E c \in Clients, k \in Keys :
       \/ PutInsert(c, k) \/ PutUpdate(c, k)
       \/ RunReplace(c, k)
       \/ RunRemove(c, k)
  \/ \E c \in Clients : Record(c) \/ Stall(c) \/ Retry(c)
  \/ \E l \in Logs : LogTake(l) \/ LogSynced(l)
  \/ CheckEpoch
  \/ StartCheckpoint \/ (\E k \in Keys : VisitValue(k)) \/ PrepareCheckpoint \/ CommitCheckpoint
  \/ Fail
  \/ Recover \/ (\E l \in Logs : ReplayRecord(l) \/ CleanLog(l)) \/ RecoveryDone

Spec == Init /\ [][Next]_vars

-----------------------------------------------------------------------------
(* What the operations S, by timestamp, make of a key.                     *)
Resets == {"put", "replace", "remove"}
LastOf(S) == CHOOSE h \in S : \A g \in S : g.ts <= h.ts
Made(S) ==
  LET base == MaxOr0({h.ts : h \in {g \in S : g.op \in Resets}}) IN
  <<Row(LastOf(S).ts, [x \in Cols |-> MaxOr0({h.ts : h \in {g \in S : g.col = x /\ g.ts >= base}})])>>

\* After a replay every row is what the operations found in the checkpoint and
\* in the logs make of it, in the order of their timestamps, whatever log they
\* went to and in whatever order the logs were replayed (logrecord::apply).
ReplayIsOrdered ==
  Replayed /\ slips \subseteq {"spanning", "unnoticed"} =>
    \A k \in Keys :
      LET S == {h \in rec.ops : h.key = k} IN
      IF S = {} \/ LastOf(S).op = "remove" THEN tree[k] = <<>> ELSE tree[k] = Made(S)

\* What is recovered is a consistent past: no operation that was lost is older,
\* by epoch or on the same row, than one that was kept.
Prefix ==
  up = "recovering" =>
    \A g \in rec.ops, h \in hist \ rec.ops :
      /\ h.epoch >= g.epoch
      /\ h.key = g.key => h.ts > g.ts

\* No operation is lost that was of an epoch that the logs called flushed when
\* the server failed (max_flushed_epoch).
FlushedSurvives == up = "recovering" => \A h \in hist \ rec.ops : h.epoch >= flushed

\* The checks of recover hold: what the checkpoint lacks can be replayed.
Checks ==
  up = "down" =>
    \A E \in SUBSET (Logs \ Written) :
      ChecksHold(ckpgen.min, replay_max_epoch(E \cup {l \in Written : quiescent(l)}))

\* recover restores such a past with all that was flushed in it, and its checks
\* hold, as long as nothing slips; each promise outlives some of the slips.
RecoveredPrefix ==
  /\ slips \subseteq {"spanning", "unnoticed"} => Prefix
  /\ slips \subseteq {"unwoken"} => FlushedSurvives /\ Checks
=============================================================================
