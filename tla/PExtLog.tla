------------------------------ MODULE PExtLog ------------------------------
(***************************************************************************)
(* The external node logs (incll_pextlog.hh) and the epochs that give them *)
(* meaning.  Every thread has a ring buffer in non-volatile memory.  The   *)
(* first change of a node in an epoch is preceded by a record of the node  *)
(* in the log of the thread that makes it.  At an epoch boundary the cache *)
(* is written back and every thread truncates its log; after a failure     *)
(* every thread copies the records since its last truncation back.         *)
(*                                                                         *)
(* A buffer is counted in units; a record is one unit of header (size,     *)
(* address, validity) and as many of content as the node has.  record      *)
(* syncs the content and curr; that the header reaches memory with them is *)
(* assumed (it does when it shares the first line of the content).  Bytes  *)
(* of content do not pass for a header.  A node is its value and its       *)
(* loggedepoch and is one cache line here.                                 *)
(*                                                                         *)
(* Recovery relies on the buffer being large enough and on when the        *)
(* machine stops, and the code checks neither.  The history variable slips *)
(* collects in which ways a behaviour has left what it relies on.          *)
(***************************************************************************)
EXTENDS Integers, FiniteSets

CONSTANTS Threads,     \* threads, each with a log
          Nodes,       \* leaves and internodes
          Values,      \* what a node may contain
          ContentSize, \* allocated_size of each node, in units
          BufSize,     \* buf_size, in units
          MaxEpoch,    \* bound: the last epoch
          MaxFailures, \* bound: failures
          Clocked      \* TRUE: set_global_epoch, FALSE: advance_epoch

EntrySize(n) == 1 + ContentSize[n]

\* What the proofs assume of the sizes and bounds.
LogAssumption ==
  /\ Values # {} /\ ContentSize \in [Nodes -> Nat] /\ BufSize \in Nat
  /\ MaxEpoch \in Nat \ {0} /\ MaxFailures \in Nat
  /\ \A n \in Nodes : EntrySize(n) <= BufSize

VARIABLES
  log,          \* the logs as the cache has them
  nlog,         \* and as the memory has them
  node,         \* the nodes as the cache has them
  nnode,        \* and as the memory has them
  globalepoch,
  status,       \* "run", "boundary" (after the flush) or "undo"
  pending,      \* set_global_epoch has moved the epoch and is to flush
  truncating,   \* threads that have not truncated their log since the flush
  failures,     \* failures so far
  settled,      \* history: a flush has happened since the last recovery
  committed,    \* history: the nodes' values at the last flush
  slips         \* history: what has happened that recovery relies on not to

logs == <<log, nlog>>
nodes == <<node, nnode>>
vars == <<log, nlog, node, nnode, globalepoch, status, pending, truncating, failures,
          settled, committed, slips>>

Torn == "torn" \* a node partly overwritten
NoNode == "none"
Junk == [valid |-> FALSE, size |-> 0, node |-> NoNode, image |-> [val |-> Torn, loggedepoch |-> 0]]

Offsets == 0..BufSize
NodeImages == [val : Values \cup {Torn}, loggedepoch : 0..MaxEpoch]
Entries == {Junk} \cup [valid : {TRUE}, size : 0..BufSize, node : Nodes, image : NodeImages]
SlipKinds == {"full", "size", "behind", "failure"}
LogStates == [curr : Offsets, last_flush : Offsets, buf : [Offsets -> Entries]]

TypeOK ==
  /\ log \in [Threads -> LogStates] /\ nlog \in [Threads -> LogStates]
  /\ node \in [Nodes -> NodeImages] /\ nnode \in [Nodes -> NodeImages]
  /\ globalepoch \in 0..MaxEpoch
  /\ status \in {"run", "boundary", "undo"}
  /\ pending \in BOOLEAN /\ settled \in BOOLEAN
  /\ truncating \in SUBSET Threads /\ failures \in 0..MaxFailures
  /\ committed \in [Nodes -> Values \cup {Torn}] /\ slips \in SUBSET SlipKinds

\* init of a log that did not exist
EmptyLog == [curr |-> 0, last_flush |-> 0, buf |-> [p \in Offsets |-> Junk]]

Init ==
  /\ log = [t \in Threads |-> EmptyLog] /\ nlog = log
  /\ node = [n \in Nodes |-> [val |-> CHOOSE v \in Values : TRUE, loggedepoch |-> 0]]
  /\ nnode = node
  /\ globalepoch = 1
  /\ status = "run" /\ pending = FALSE /\ truncating = {} /\ failures = 0
  /\ settled = TRUE /\ slips = {}
  /\ committed = [n \in Nodes |-> node[n].val]

-----------------------------------------------------------------------------
(* record *)

Wraps(l, n) == l.curr + EntrySize(n) > BufSize

Start(l, n) == IF Wraps(l, n) THEN 0 ELSE l.curr

\* A wrapped record takes the size of the record it overwrites.
RecordedSize(l, n) == IF Wraps(l, n) THEN l.buf[0].size ELSE EntrySize(n)

\* The content is written over whatever headers stood there.
Overwrite(buf, p, n, r) ==
  [q \in Offsets |-> IF q = p THEN r ELSE IF p < q /\ q < p + EntrySize(n) THEN Junk ELSE buf[q]]

Entry(l, n) ==
  [valid |-> TRUE, size |-> RecordedSize(l, n), node |-> n, image |-> node[n]]

Recorded(l, n) ==
  [l EXCEPT !.buf = Overwrite(@, Start(l, n), n, Entry(l, n)),
            !.curr = Start(l, n) + RecordedSize(l, n)]

MayWork(t) == status = "run" \/ (Clocked /\ status = "boundary" /\ t \notin truncating)

\* What record relies on.  A record never reaches the oldest one still needed.
Fits(l, n) ==
  LET end == Start(l, n) + EntrySize(n)
  IN IF Wraps(l, n) THEN l.last_flush <= l.curr /\ end < l.last_flush
     ELSE l.curr < l.last_flush => end < l.last_flush

\* A wrapped record replaces one of its own size.
SameSize(l, n) == Wraps(l, n) => l.buf[0].size = EntrySize(n)

\* When the buffer wraps, no record of the lap before stands behind curr: undo
\* would take it for one of this lap.  Nodes of one size leave none.
NothingBehind(l, n) == Wraps(l, n) => \A q \in Offsets : q >= l.curr => ~l.buf[q].valid

RecordSlips(l, n) ==
  (IF Fits(l, n) THEN {} ELSE {"full"}) \cup (IF SameSize(l, n) THEN {} ELSE {"size"})
    \cup (IF NothingBehind(l, n) THEN {} ELSE {"behind"})

\* record_node logs a node unless it was logged in this epoch.
Unlogged(n) == node[n].loggedepoch # globalepoch

\* A thread changes a node: lock_persistent or log_persistent records and
\* stamps it first.
Change(t, n) ==
  /\ MayWork(t)
  /\ IF Unlogged(n)
     THEN LET l == Recorded(log[t], n)
          IN /\ log' = [log EXCEPT ![t] = l]
             /\ nlog' = [nlog EXCEPT ![t] = l]
             /\ slips' = slips \cup RecordSlips(log[t], n)
     ELSE UNCHANGED <<logs, slips>>
  /\ \E v \in Values \ {node[n].val} :
       node' = [node EXCEPT ![n] = [val |-> v, loggedepoch |-> globalepoch]]
  /\ UNCHANGED <<nnode, globalepoch, status, pending, truncating, failures, settled, committed>>

-----------------------------------------------------------------------------
(* Epoch boundaries *)

\* set_global_epoch moves the epoch first; the threads work on.
TickEpoch ==
  /\ status = "run" /\ ~pending
  /\ globalepoch < MaxEpoch
  /\ globalepoch' = globalepoch + 1
  /\ pending' = TRUE
  /\ UNCHANGED <<logs, nodes, status, truncating, failures, settled, committed, slips>>

\* All threads have acknowledged: the cache is written back.
Flush ==
  /\ status = "run"
  /\ status' = "boundary" /\ pending' = FALSE
  /\ nnode' = node /\ nlog' = log
  /\ truncating' = Threads
  /\ settled' = TRUE
  /\ committed' = [n \in Nodes |-> node[n].val]
  /\ UNCHANGED <<log, node, failures, slips>>

\* flush of set_global_epoch
FlushAfterTick == pending /\ Flush /\ UNCHANGED globalepoch

\* advance_epoch: flush_manual moves the epoch behind the flush, and all
\* threads wait at a barrier until the logs are truncated.
AdvanceEpoch == globalepoch < MaxEpoch /\ Flush /\ globalepoch' = globalepoch + 1

\* Fault: the truncation does not move last_flush.
Untruncated(l) == l

Truncated(l) == [l EXCEPT !.last_flush = l.curr]

\* checkpoint, synced; the last thread to do it ends the boundary.
Checkpoint(t) ==
  /\ status = "boundary" /\ t \in truncating
  /\ log' = [log EXCEPT ![t] = Truncated(@)]
  /\ nlog' = [nlog EXCEPT ![t] = [@ EXCEPT !.curr = log'[t].curr, !.last_flush = log'[t].last_flush]]
  /\ truncating' = truncating \ {t}
  /\ status' = IF truncating' = {} THEN "run" ELSE status
  /\ UNCHANGED <<nodes, globalepoch, pending, failures, settled, committed, slips>>

-----------------------------------------------------------------------------
(* Failure and recovery *)

\* The cache may write a node back at any time.
EvictNode(n) ==
  /\ nnode[n] # node[n]
  /\ nnode' = [nnode EXCEPT ![n] = node[n]]
  /\ UNCHANGED <<logs, node, globalepoch, status, pending, truncating, failures, settled, committed,
                 slips>>

\* A failure comes neither between the flush and the last truncation nor
\* between undo and the next flush.
QuietFailure == status = "undo" \/ (status = "run" /\ settled)

\* The machine stops; init_exist starts the next epoch and undo begins.  A
\* failure during undo finds the same failed epoch.  undo never syncs
\* last_flush; that the cache keeps its line meanwhile is assumed here.
Crash ==
  /\ failures < MaxFailures /\ failures' = failures + 1
  /\ status # "undo" => globalepoch < MaxEpoch
  /\ globalepoch' = IF status = "undo" THEN globalepoch ELSE globalepoch + 1
  /\ log' = nlog /\ node' = nnode
  /\ status' = "undo" /\ pending' = FALSE /\ truncating' = {} /\ settled' = FALSE
  /\ slips' = slips \cup (IF QuietFailure THEN {} ELSE {"failure"})
  /\ UNCHANGED <<nlog, nnode, committed>>

\* Fault: undo does not look for the wrap.
UndoAtLastFlush(l) == l.last_flush

\* Where undo finds the next record: at the start again if there is none.
UndoAt(l) ==
  LET r == l.buf[l.last_flush]
  IN IF ~r.valid \/ l.last_flush + r.size > BufSize THEN 0 ELSE l.last_flush

\* A record of another size than the node's leaves a mixture.
Restored(r) ==
  IF r.size = EntrySize(r.node) THEN r.image ELSE [r.image EXCEPT !.val = Torn]

\* memcpy of the recorded size: too large a size runs over what lies behind.
Copied(r) ==
  LET nd == [node EXCEPT ![r.node] = Restored(r)]
  IN {nd} \cup {[nd EXCEPT ![m].val = Torn] :
                  m \in {n \in Nodes \ {r.node} : r.size > EntrySize(r.node)}}

\* One round of undo's loop.  Over bytes that are no record it does not get on.
UndoStep(t) ==
  LET p == UndoAt(log[t])
      r == log[t].buf[p]
  IN /\ status = "undo"
     /\ log[t].last_flush # log[t].curr
     /\ node' \in IF r.valid THEN Copied(r) ELSE {node}
     /\ log' = [log EXCEPT ![t].last_flush = p + r.size]
     /\ UNCHANGED <<nlog, nnode, globalepoch, status, pending, truncating, failures, settled, committed,
                    slips>>

\* All threads have passed the barrier behind undo; the work goes on.
UndoDone ==
  /\ status = "undo"
  /\ \A t \in Threads : log[t].last_flush = log[t].curr
  /\ status' = "run"
  /\ UNCHANGED <<logs, nodes, globalepoch, pending, truncating, failures, settled, committed, slips>>

-----------------------------------------------------------------------------
Step ==
  \/ \E t \in Threads : \/ Checkpoint(t) \/ UndoStep(t)
                        \/ \E n \in Nodes : Change(t, n)
  \/ \E n \in Nodes : EvictNode(n)
  \/ UndoDone
  \/ Crash

ManualNext == Step \/ AdvanceEpoch
ClockedNext == Step \/ TickEpoch \/ FlushAfterTick

Fairness == WF_vars(UndoDone) /\ \A t \in Threads : WF_vars(UndoStep(t))
ManualSpec == Init /\ [][ManualNext]_vars /\ Fairness
ClockedSpec == Init /\ [][ClockedNext]_vars /\ Fairness

-----------------------------------------------------------------------------
(* Properties *)

\* After undo every node is what it was at the last flush.
NodesRestored ==
  status = "undo" /\ (\A t \in Threads : log[t].last_flush = log[t].curr)
    => \A n \in Nodes : node[n].val = committed[n]

\* That is so whatever was written back, however often undo was cut short, and
\* also when ring buffers have wrapped, as long as nothing slipped
\* (kvtest_recovery: "not same - recovery failed").
UndoRestores == slips = {} => NodesRestored

\* The loop of undo ends: stepping by the records' sizes it meets curr.
UndoEnds == status = "undo" ~> (status # "undo" \/ slips # {})

-----------------------------------------------------------------------------
(* undo_next_prev walks over the same records once more, from the last_flush *)
(* undo began with, and links the leaves' neighbours to them.                *)

\* Where the loops of undo and undo_next_prev stand after i rounds.
StopOf(l) ==
  LET stop[i \in 0..BufSize] ==
        IF i = 0 THEN l.last_flush
        ELSE IF stop[i - 1] = l.curr THEN l.curr
        ELSE LET q == UndoAt([l EXCEPT !.last_flush = stop[i - 1]])
             IN q + l.buf[q].size
  IN stop

Stops(l) == {StopOf(l)[i] : i \in 0..BufSize} \ {l.curr}

\* The nodes undo copies back, and those undo_next_prev takes for theirs: it
\* fixes the one the header names at which it noticed the wrap.
Undone(l) == {l.buf[UndoAt([l EXCEPT !.last_flush = p])].node : p \in Stops(l)}
undo_next_prev(l) == {l.buf[p].node : p \in Stops(l)}

\* undo_next_prev links the neighbours of the nodes that undo copied back
\* ("fix next and prev").
RelinksUndone ==
  status = "undo" /\ log = nlog /\ slips = {}
    => \A t \in Threads : undo_next_prev(log[t]) = Undone(log[t])
=============================================================================
