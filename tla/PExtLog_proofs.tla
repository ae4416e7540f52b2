--------------------------- MODULE PExtLog_proofs ---------------------------
(***************************************************************************)
(* The external node logs under advance_epoch: for any threads, nodes,     *)
(* node sizes and buffer size, and until something slips, undo restores    *)
(* every node to its value at the last flush, however often the ring       *)
(* buffers have wrapped and whatever was written back, also when it is     *)
(* itself cut short.                                                       *)
(***************************************************************************)
EXTENDS PExtLog, TLAPS

-----------------------------------------------------------------------------
(* One log *)

\* The part of the buffer from last_flush to curr, around the end.
InUse(l, p) ==
  IF l.last_flush <= l.curr
    THEN l.last_flush <= p /\ p < l.curr
    ELSE l.last_flush <= p \/ p < l.curr

\* The records undo is to copy back.
Live(l) == {p \in Offsets : l.buf[p].valid /\ InUse(l, p)}

End(l, p) == p + l.buf[p].size

\* Records have the size of their node and lie within the buffer.
Sized(l) ==
  \A p \in Offsets : l.buf[p].valid =>
    l.buf[p].size = EntrySize(l.buf[p].node) /\ End(l, p) <= BufSize

\* Records in use do not overlap, and none reaches over curr.
Disjoint(l) ==
  \A p \in Live(l) :
    /\ p < l.curr => End(l, p) <= l.curr
    /\ \A q \in Live(l) : p < q => End(l, p) <= q

\* There is no record from p to the end of the buffer: undo goes back to the
\* start and finds one there.
Turn(l, p) ==
  /\ l.curr <= p /\ 0 \in Live(l)
  /\ \A q \in Offsets : q >= p => ~l.buf[q].valid

\* Stepping by sizes, undo gets from last_flush to curr over records in use.
Chained(l) ==
  /\ l.last_flush = l.curr \/ l.last_flush \in Live(l) \/ Turn(l, l.last_flush)
  /\ \A p \in Live(l) :
       End(l, p) = l.curr \/ End(l, p) \in Live(l) \/ (l.curr <= p /\ Turn(l, End(l, p)))

WellFormed(l) == Sized(l) /\ Disjoint(l) /\ Chained(l)

\* What record relies on: nothing slips.
Loggable(l, n) == Fits(l, n) /\ SameSize(l, n) /\ NothingBehind(l, n)

-----------------------------------------------------------------------------
(* All logs and the nodes *)

Stamped(img) == img.loggedepoch <= globalepoch

\* The logs are well formed, and nothing is stamped with a later epoch.
LogsInv ==
  /\ \A t \in Threads : WellFormed(log[t]) /\ WellFormed(nlog[t])
  /\ \A t \in Threads : \A p \in Offsets :
       Stamped(log[t].buf[p].image) /\ Stamped(nlog[t].buf[p].image)
  /\ \A n \in Nodes : Stamped(node[n]) /\ Stamped(nnode[n])

\* A record of n that undo would copy back.
Covered(lg, n) == \E t \in Threads : \E p \in Live(lg[t]) : lg[t].buf[p].node = n

\* Undo would bring every node back: the records carry the values of the last
\* flush, and a node that differs has one.
Restorable(lg, nd) ==
  /\ \A t \in Threads : \A p \in Live(lg[t]) :
       lg[t].buf[p].image.val = committed[lg[t].buf[p].node]
  /\ \A n \in Nodes : nd[n].val = committed[n] \/ Covered(lg, n)

\* In an epoch: what was changed was logged before, in the memory too.
RunInv ==
  status = "run" /\ settled =>
    /\ nlog = log
    /\ Restorable(log, node) /\ Restorable(nlog, nnode)
    /\ \A n \in Nodes : /\ node[n].val # committed[n] => node[n].loggedepoch = globalepoch
                        /\ node[n].loggedepoch = globalepoch => Covered(log, n)

\* At a boundary the nodes are committed and not logged in the new epoch.
BoundaryInv ==
  status = "boundary" =>
    /\ settled /\ nlog = log
    /\ \A n \in Nodes : /\ node[n].val = committed[n] /\ nnode[n].val = committed[n]
                        /\ node[n].loggedepoch < globalepoch
    /\ \A t \in Threads \ truncating : log[t].last_flush = log[t].curr

\* During undo the memory still has the logs as the failure left them.
UndoInv ==
  status = "undo" =>
    /\ ~settled
    /\ Restorable(log, node) /\ Restorable(nlog, nnode)
    /\ \A t \in Threads : /\ log[t].buf = nlog[t].buf /\ log[t].curr = nlog[t].curr
                          /\ Live(log[t]) \subseteq Live(nlog[t])

Inv == TypeOK /\ LogsInv /\ RunInv /\ BoundaryInv /\ UndoInv

\* What holds in every state: the rest only until something slips.
LogInv == TypeOK /\ (slips = {} => Inv)

-----------------------------------------------------------------------------
(* Lemmas about one log *)

\* The shape of a log, for the provers.
LEMMA LogShape ==
  ASSUME LogAssumption, NEW l \in LogStates
  PROVE  /\ l.curr \in 0..BufSize /\ l.last_flush \in 0..BufSize /\ l.curr \in Nat /\ l.last_flush \in Nat
         /\ l.buf \in [Offsets -> Entries]
         /\ \A p \in Offsets :
              /\ p \in Nat /\ p <= BufSize
              /\ l.buf[p].valid \in BOOLEAN /\ l.buf[p].size \in Nat /\ l.buf[p].size <= BufSize
              /\ l.buf[p].valid => l.buf[p].node \in Nodes /\ l.buf[p].image \in NodeImages
<1>1. l.curr \in Offsets /\ l.last_flush \in Offsets /\ l.buf \in [Offsets -> Entries]
  BY DEF LogStates
<1>2. \A p \in Offsets : p \in Nat /\ p <= BufSize
  BY DEF Offsets, LogAssumption
<1>3. ASSUME NEW r \in Entries
      PROVE  /\ r.valid \in BOOLEAN /\ r.size \in Nat /\ r.size <= BufSize
             /\ r.valid => r.node \in Nodes /\ r.image \in NodeImages
  <2>1. CASE r = Junk
    BY <2>1 DEF Junk, LogAssumption
  <2>2. CASE r \in [valid : {TRUE}, size : 0..BufSize, node : Nodes, image : NodeImages]
    <3>1. r.valid = TRUE /\ r.size \in 0..BufSize /\ r.node \in Nodes /\ r.image \in NodeImages
      BY <2>2
    <3>2. r.size \in Nat /\ r.size <= BufSize
      BY <3>1 DEF LogAssumption
    <3>. QED  BY <3>1, <3>2
  <2>. QED  BY <2>1, <2>2 DEF Entries
<1>. QED  BY <1>1, <1>2, <1>3 DEF Offsets, LogAssumption

\* A record is more than its header and fits the buffer.
LEMMA EntrySizes ==
  ASSUME LogAssumption
  PROVE  \A n \in Nodes : EntrySize(n) \in Nat /\ EntrySize(n) > 0 /\ EntrySize(n) <= BufSize
  BY DEF LogAssumption, EntrySize

\* Assigning to the fields of a log.
LEMMA LogFields ==
  ASSUME NEW l \in LogStates, NEW b, NEW c
  PROVE  /\ [l EXCEPT !.buf = b, !.curr = c] = [curr |-> c, last_flush |-> l.last_flush, buf |-> b]
         /\ [l EXCEPT !.last_flush = c] = [curr |-> l.curr, last_flush |-> c, buf |-> l.buf]
         /\ [l EXCEPT !.curr = b, !.last_flush = c] = [curr |-> b, last_flush |-> c, buf |-> l.buf]
<1>1. [l EXCEPT !.buf = b, !.curr = c] = [[l EXCEPT !.buf = b] EXCEPT !.curr = c]
  BY Zenon
<1>2. [l EXCEPT !.buf = b] = [curr |-> l.curr, last_flush |-> l.last_flush, buf |-> b]
  BY DEF LogStates
<1>3. [[curr |-> l.curr, last_flush |-> l.last_flush, buf |-> b] EXCEPT !.curr = c]
        = [curr |-> c, last_flush |-> l.last_flush, buf |-> b]
  OBVIOUS
<1>4. [l EXCEPT !.last_flush = c] = [curr |-> l.curr, last_flush |-> c, buf |-> l.buf]
  BY DEF LogStates
<1>5. [l EXCEPT !.curr = b, !.last_flush = c] = [[l EXCEPT !.curr = b] EXCEPT !.last_flush = c]
  BY Zenon
<1>6. [l EXCEPT !.curr = b] = [curr |-> b, last_flush |-> l.last_flush, buf |-> l.buf]
  BY DEF LogStates
<1>7. [[curr |-> b, last_flush |-> l.last_flush, buf |-> l.buf] EXCEPT !.last_flush = c]
        = [curr |-> b, last_flush |-> c, buf |-> l.buf]
  OBVIOUS
<1>. QED  BY <1>1, <1>2, <1>3, <1>4, <1>5, <1>6, <1>7

\* record: the log grows by one record, behind curr or at the start.
LEMMA RecordedLog ==
  ASSUME LogAssumption, NEW l \in LogStates, NEW n \in Nodes, node[n] \in NodeImages,
         WellFormed(l), Loggable(l, n)
  PROVE  LET k == Recorded(l, n)
         IN /\ k \in LogStates /\ WellFormed(k)
            /\ Start(l, n) \in Live(k) /\ Live(k) = Live(l) \cup {Start(l, n)}
            /\ k.buf[Start(l, n)] = Entry(l, n)
            /\ Start(l, n) \notin Live(l)
            /\ \A q \in Offsets : q # Start(l, n) => k.buf[q] = l.buf[q] \/ k.buf[q] = Junk
            /\ \A q \in Live(l) : k.buf[q] = l.buf[q]
<1>. DEFINE k == Recorded(l, n)
            s == Start(l, n)
            z == EntrySize(n)
            end == s + z
<1>1. /\ z \in Nat /\ z > 0 /\ BufSize \in Nat
      /\ l.curr \in Nat /\ l.last_flush \in Nat /\ l.curr <= BufSize /\ l.last_flush <= BufSize
      /\ \A p \in Offsets : p \in Nat /\ p <= BufSize
      /\ \A p \in Nat : p <= BufSize => p \in Offsets
  BY LogShape DEF EntrySize, LogAssumption, Offsets
<1>2. RecordedSize(l, n) = z
  BY DEF RecordedSize, Loggable, SameSize
<1>3. /\ s \in Nat /\ s <= BufSize /\ s \in Offsets /\ end \in Nat /\ end <= BufSize /\ s < end
      /\ Wraps(l, n) => s = 0 /\ l.last_flush <= l.curr /\ end < l.last_flush
      /\ ~Wraps(l, n) => s = l.curr /\ (l.curr < l.last_flush => end < l.last_flush)
  <2>1. CASE Wraps(l, n)
    BY <1>1, <2>1 DEF Start, Loggable, Fits
  <2>2. CASE ~Wraps(l, n)
    BY <1>1, <2>2 DEF Start, Loggable, Fits, Wraps
  <2>. QED  BY <2>1, <2>2
<1>4. /\ k = [curr |-> end, last_flush |-> l.last_flush, buf |-> Overwrite(l.buf, s, n, Entry(l, n))]
      /\ k.curr = end /\ k.last_flush = l.last_flush
  <2>1. k = [l EXCEPT !.buf = Overwrite(l.buf, s, n, Entry(l, n)), !.curr = end]
    BY <1>2 DEF Recorded
  <2>2. k = [curr |-> end, last_flush |-> l.last_flush, buf |-> Overwrite(l.buf, s, n, Entry(l, n))]
    BY <2>1, LogFields
  <2>. QED  BY <2>2
<1>5. \A q \in Offsets : k.buf[q] = IF q = s THEN Entry(l, n)
                                    ELSE IF s < q /\ q < end THEN Junk ELSE l.buf[q]
  BY <1>4 DEF Overwrite
<1>6. Entry(l, n) \in Entries
  <2>1. z \in 0..BufSize
    BY <1>1, <1>3
  <2>. QED  BY <1>2, <2>1 DEF Entry, Entries
<1>7. k \in LogStates
  <2>1. Junk \in Entries
    BY DEF Entries
  <2>2. Overwrite(l.buf, s, n, Entry(l, n)) \in [Offsets -> Entries]
    BY <1>6, <2>1, LogShape DEF Overwrite
  <2>3. end \in Offsets /\ l.last_flush \in Offsets
    BY <1>1, <1>3
  <2>. QED  BY <1>4, <2>2, <2>3 DEF LogStates
<1>8. /\ Entry(l, n).valid = TRUE /\ Entry(l, n).size = z /\ Entry(l, n).node = n
      /\ Junk.valid = FALSE
  BY <1>2 DEF Entry, Junk
<1>. HIDE DEF k, s, z, end
<1>9. \A q \in Offsets : l.buf[q].valid /\ q >= l.curr => ~Wraps(l, n)
  BY DEF Loggable, NothingBehind
<1>10. s \notin Live(l) /\ \A q \in Live(l) : q < s \/ end <= q
  <2>1. SUFFICES ASSUME NEW q \in Live(l) PROVE q < s \/ end <= q
    BY <1>1, <1>3
  <2>2. q \in Offsets /\ q \in Nat /\ l.buf[q].valid /\ InUse(l, q)
    BY <1>1 DEF Live
  <2>3. CASE Wraps(l, n)
    BY <1>1, <1>3, <2>2, <2>3 DEF InUse
  <2>4. CASE ~Wraps(l, n)
    BY <1>1, <1>3, <2>2, <2>4 DEF InUse
  <2>. QED  BY <2>3, <2>4
<1>11. \A q \in Live(l) : k.buf[q] = l.buf[q]
  <2>1. SUFFICES ASSUME NEW q \in Live(l) PROVE k.buf[q] = l.buf[q]
    OBVIOUS
  <2>2. q \in Offsets /\ q \in Nat /\ (q < s \/ end <= q)
    BY <1>1, <1>10 DEF Live
  <2>. QED  BY <1>3, <1>5, <2>2
<1>12. \A q \in Offsets : q # s => (k.buf[q].valid => k.buf[q] = l.buf[q] /\ (q < s \/ end <= q))
  BY <1>1, <1>3, <1>5, <1>8
<1>13. Live(k) = Live(l) \cup {s}
  <2>1. s \in Live(k)
    BY <1>1, <1>3, <1>4, <1>5, <1>8 DEF Live, InUse
  <2>2. ASSUME NEW q \in Live(l) PROVE q \in Live(k)
    <3>1. q \in Offsets /\ q \in Nat /\ l.buf[q].valid /\ InUse(l, q) /\ k.buf[q].valid
      BY <1>1, <1>11 DEF Live
    <3>2. InUse(k, q)
      BY <1>1, <1>3, <1>4, <3>1 DEF InUse
    <3>. QED  BY <3>1, <3>2 DEF Live
  <2>3. ASSUME NEW q \in Live(k), q # s PROVE q \in Live(l)
    <3>1. q \in Offsets /\ q \in Nat /\ k.buf[q].valid /\ InUse(k, q)
      BY <1>1 DEF Live
    <3>2. l.buf[q].valid /\ (q < s \/ end <= q)
      BY <1>12, <2>3, <3>1
    <3>3. InUse(l, q)
      BY <1>1, <1>3, <1>4, <1>9, <3>1, <3>2 DEF InUse
    <3>. QED  BY <3>1, <3>2, <3>3 DEF Live
  <2>. QED  BY <2>1, <2>2, <2>3
<1>14. /\ End(k, s) = end
       /\ \A q \in Live(l) : /\ End(k, q) = End(l, q) /\ q \in Nat /\ q \in Offsets
                             /\ End(l, q) \in Nat /\ q < End(l, q) /\ End(l, q) <= BufSize
                             /\ InUse(l, q)
  <2>1. End(k, s) = end
    BY <1>3, <1>5, <1>8 DEF End, end
  <2>2. ASSUME NEW q \in Live(l)
        PROVE  /\ End(k, q) = End(l, q) /\ q \in Nat /\ q \in Offsets
               /\ End(l, q) \in Nat /\ q < End(l, q) /\ End(l, q) <= BufSize
               /\ InUse(l, q)
    <3>1. q \in Offsets /\ q \in Nat /\ l.buf[q].valid /\ InUse(l, q)
      BY <1>1 DEF Live
    <3>2. l.buf[q].size \in Nat /\ l.buf[q].size > 0 /\ End(l, q) <= BufSize
      BY <3>1, LogShape, EntrySizes DEF WellFormed, Sized
    <3>. QED  BY <1>11, <3>1, <3>2 DEF End
  <2>. QED  BY <2>1, <2>2
<1>15. Sized(k)
  <2>1. SUFFICES ASSUME NEW q \in Offsets, k.buf[q].valid
                 PROVE  k.buf[q].size = EntrySize(k.buf[q].node) /\ End(k, q) <= BufSize
    BY DEF Sized
  <2>2. CASE q = s
    BY <1>3, <1>5, <1>8, <1>14, <2>2 DEF z
  <2>3. CASE q # s
    <3>1. k.buf[q] = l.buf[q]
      BY <1>12, <2>1, <2>3
    <3>. QED  BY <2>1, <3>1 DEF WellFormed, Sized, End
  <2>. QED  BY <2>2, <2>3
<1>16. Disjoint(k)
  <2>1. SUFFICES ASSUME NEW p \in Live(k)
                 PROVE  /\ p < k.curr => End(k, p) <= k.curr
                        /\ \A q \in Live(k) : p < q => End(k, p) <= q
    BY DEF Disjoint
  <2>2. CASE p = s
    <3>1. \A q \in Live(l) : p < q => end <= q
      BY <1>3, <1>10, <1>14, <2>2
    <3>. QED  BY <1>3, <1>4, <1>13, <1>14, <2>2, <3>1
  <2>3. CASE p \in Live(l)
    <3>1. /\ p < l.curr => End(l, p) <= l.curr
          /\ \A q \in Live(l) : p < q => End(l, p) <= q
      BY <2>3 DEF WellFormed, Disjoint
    <3>2. /\ p \in Nat /\ End(k, p) = End(l, p) /\ End(l, p) \in Nat /\ InUse(l, p)
          /\ p < s \/ end <= p
      BY <1>10, <1>14, <2>3
    <3>3. p < k.curr => End(k, p) <= k.curr
      BY <1>1, <1>3, <1>4, <3>1, <3>2 DEF InUse
    <3>4. p < s => End(k, p) <= s
      BY <1>1, <1>3, <3>1, <3>2 DEF InUse
    <3>. QED  BY <1>13, <3>1, <3>2, <3>3, <3>4
  <2>. QED  BY <1>13, <2>1, <2>2, <2>3
<1>17. ASSUME NEW p \in Nat, end <= p, \A q \in Offsets : q >= p => ~l.buf[q].valid
       PROVE  \A q \in Offsets : q >= p => ~k.buf[q].valid
  <2>1. SUFFICES ASSUME NEW q \in Offsets, q >= p PROVE ~k.buf[q].valid
    OBVIOUS
  <2>2. q \in Nat /\ q # s /\ ~(s < q /\ q < end)
    <3>1. q \in Nat /\ end <= p
      BY <1>1, <1>17
    <3>. QED  BY <1>3, <2>1, <3>1
  <2>3. k.buf[q] = l.buf[q]
    BY <1>5, <2>2
  <2>. QED  BY <1>17, <2>1, <2>3
<1>18. ASSUME NEW p \in Nat, Turn(l, p), l.curr < l.last_flush, l.last_flush <= p
       PROVE  Turn(k, p)
  <2>1. end <= p
    <3>1. ~Wraps(l, n)
      BY <1>1, <1>3, <1>18
    <3>. QED  BY <1>1, <1>3, <1>18, <3>1
  <2>2. 0 \in Live(k) /\ \A q \in Offsets : q >= p => ~l.buf[q].valid
    BY <1>13, <1>18 DEF Turn
  <2>. QED  BY <1>4, <1>17, <2>1, <2>2 DEF Turn
<1>19. ASSUME Wraps(l, n) PROVE Turn(k, l.curr)
  <2>1. 0 \in Live(k) /\ end <= l.curr
    BY <1>1, <1>3, <1>13, <1>19
  <2>2. \A q \in Offsets : q >= l.curr => ~l.buf[q].valid
    BY <1>9, <1>19
  <2>. QED  BY <1>1, <1>4, <1>17, <2>1, <2>2 DEF Turn
<1>20. k.last_flush = k.curr \/ k.last_flush \in Live(k) \/ Turn(k, k.last_flush)
  <2>1. CASE l.last_flush \in Live(l)
    BY <1>4, <1>13, <2>1
  <2>2. CASE l.last_flush = l.curr /\ ~Wraps(l, n)
    BY <1>3, <1>4, <1>13, <2>2
  <2>3. CASE l.last_flush = l.curr /\ Wraps(l, n)
    BY <1>4, <1>19, <2>3
  <2>4. CASE Turn(l, l.last_flush) /\ l.last_flush # l.curr
    <3>1. l.curr < l.last_flush
      BY <1>1, <2>4 DEF Turn
    <3>. QED  BY <1>1, <1>4, <1>18, <2>4, <3>1
  <2>. QED  BY <2>1, <2>2, <2>3, <2>4 DEF WellFormed, Chained
<1>21. ASSUME NEW p \in Live(k)
       PROVE  End(k, p) = k.curr \/ End(k, p) \in Live(k) \/ (k.curr <= p /\ Turn(k, End(k, p)))
  <2>1. CASE p = s
    BY <1>4, <1>14, <2>1
  <2>2. CASE p \in Live(l)
    <3>1. /\ p \in Nat /\ End(k, p) = End(l, p) /\ End(l, p) \in Nat /\ p < End(l, p)
          /\ InUse(l, p)
      BY <1>14, <2>2
    <3>2. CASE End(l, p) = l.curr /\ ~Wraps(l, n)
      BY <1>3, <1>13, <3>1, <3>2
    <3>3. CASE End(l, p) = l.curr /\ Wraps(l, n)
      <4>1. k.curr <= p
        BY <1>1, <1>3, <1>4, <3>1, <3>3 DEF InUse
      <4>. QED  BY <1>19, <3>1, <3>3, <4>1
    <3>4. CASE End(l, p) \in Live(l)
      BY <1>13, <3>1, <3>4
    <3>5. CASE l.curr <= p /\ Turn(l, End(l, p))
      <4>1. l.curr < l.last_flush /\ l.last_flush <= p
        BY <1>1, <3>1, <3>5 DEF InUse
      <4>2. k.curr <= p
        BY <1>1, <1>3, <1>4, <3>1, <4>1
      <4>3. l.last_flush <= End(l, p)
        BY <1>1, <3>1, <4>1
      <4>. QED  BY <1>18, <3>1, <3>5, <4>1, <4>2, <4>3
    <3>. QED  BY <2>2, <3>2, <3>3, <3>4, <3>5 DEF WellFormed, Chained
  <2>. QED  BY <1>13, <1>21, <2>1, <2>2
<1>22. WellFormed(k)
  BY <1>15, <1>16, <1>20, <1>21 DEF WellFormed, Chained
<1>23. k.buf[s] = Entry(l, n)
  BY <1>3, <1>5
<1>24. \A q \in Offsets : q # s => k.buf[q] = l.buf[q] \/ k.buf[q] = Junk
  BY <1>5
<1>. QED  BY <1>7, <1>10, <1>11, <1>13, <1>22, <1>23, <1>24 DEF k, s

\* The region in use is empty when last_flush has met curr.
LEMMA EmptyLive ==
  ASSUME LogAssumption, NEW l \in LogStates, l.last_flush = l.curr
  PROVE  Live(l) = {}
<1>1. l.curr \in Nat /\ \A p \in Offsets : p \in Nat
  BY LogShape
<1>. QED  BY <1>1 DEF Live, InUse

\* checkpoint
LEMMA TruncatedLog ==
  ASSUME LogAssumption, NEW l \in LogStates, WellFormed(l)
  PROVE  LET k == Truncated(l)
         IN /\ k \in LogStates /\ WellFormed(k)
            /\ k.buf = l.buf /\ k.curr = l.curr /\ k.last_flush = l.curr
<1>. DEFINE k == Truncated(l)
<1>1. k = [curr |-> l.curr, last_flush |-> l.curr, buf |-> l.buf]
  BY LogFields DEF Truncated
<1>2. k.buf = l.buf /\ k.curr = l.curr /\ k.last_flush = l.curr
  BY <1>1
<1>3. k \in LogStates
  BY <1>1 DEF LogStates
<1>. HIDE DEF k
<1>4. Live(k) = {}
  BY <1>2, <1>3, EmptyLive
<1>5. Sized(k)
  BY <1>2 DEF WellFormed, Sized, End
<1>. QED  BY <1>2, <1>3, <1>4, <1>5 DEF WellFormed, Disjoint, Chained, k

\* A round of undo's loop takes a record in use and leaves the others.
LEMMA UndoneLog ==
  ASSUME LogAssumption, NEW l \in LogStates, WellFormed(l), l.last_flush # l.curr
  PROVE  LET p == UndoAt(l)
             k == [l EXCEPT !.last_flush = p + l.buf[p].size]
         IN /\ p \in Live(l)
            /\ k \in LogStates /\ WellFormed(k)
            /\ k.buf = l.buf /\ k.curr = l.curr
            /\ Live(k) \subseteq Live(l) /\ Live(l) \ {p} \subseteq Live(k)
<1>. DEFINE p == UndoAt(l)
            k == [l EXCEPT !.last_flush = p + l.buf[p].size]
            f == l.last_flush
            c == l.curr
<1>1. /\ f \in Nat /\ c \in Nat /\ f \in Offsets /\ BufSize \in Nat
      /\ \A q \in Offsets : q \in Nat /\ q <= BufSize
      /\ \A q \in Nat : q <= BufSize => q \in Offsets
  BY LogShape DEF LogAssumption, Offsets
<1>2. ASSUME NEW q \in Live(l)
      PROVE  /\ q \in Nat /\ q \in Offsets /\ l.buf[q].valid /\ InUse(l, q)
             /\ End(l, q) \in Nat /\ q < End(l, q) /\ End(l, q) <= BufSize
             /\ q < c => End(l, q) <= c
             /\ \A r \in Live(l) : q < r => End(l, q) <= r
             /\ End(l, q) = c \/ End(l, q) \in Live(l) \/ (c <= q /\ Turn(l, End(l, q)))
  <2>1. q \in Offsets /\ q \in Nat /\ l.buf[q].valid /\ InUse(l, q)
    BY <1>1 DEF Live
  <2>2. l.buf[q].size \in Nat /\ l.buf[q].size > 0 /\ End(l, q) <= BufSize
    BY <2>1, LogShape, EntrySizes DEF WellFormed, Sized
  <2>3. End(l, q) \in Nat /\ q < End(l, q)
    BY <2>1, <2>2 DEF End
  <2>. QED  BY <1>2, <2>1, <2>2, <2>3 DEF WellFormed, Disjoint, Chained
<1>3. p \in Live(l) /\ (p = f \/ (p = 0 /\ Turn(l, f) /\ c < f))
  <2>1. CASE f \in Live(l)
    <3>1. l.buf[f].valid /\ ~(f + l.buf[f].size > BufSize)
      BY <1>1, <1>2, <2>1 DEF End
    <3>. QED  BY <2>1, <3>1 DEF UndoAt
  <2>2. CASE Turn(l, f)
    <3>1. ~l.buf[f].valid /\ c <= f /\ 0 \in Live(l)
      BY <1>1, <2>2 DEF Turn
    <3>2. p = 0
      BY <3>1 DEF UndoAt
    <3>. QED  BY <1>1, <2>2, <3>1, <3>2
  <2>. QED  BY <2>1, <2>2 DEF WellFormed, Chained
<1>4. /\ k = [curr |-> c, last_flush |-> End(l, p), buf |-> l.buf]
      /\ k.buf = l.buf /\ k.curr = c /\ k.last_flush = End(l, p)
  <2>1. k = [curr |-> c, last_flush |-> End(l, p), buf |-> l.buf]
    BY LogFields DEF End
  <2>. QED  BY <2>1
<1>. HIDE DEF p, k
<1>5. /\ p \in Nat /\ End(l, p) \in Nat /\ p < End(l, p) /\ End(l, p) \in Offsets
      /\ InUse(l, p)
  BY <1>1, <1>2, <1>3
<1>6. k \in LogStates
  BY <1>4, <1>5 DEF LogStates
<1>7. \A q \in Offsets : InUse(k, q) <=>
        IF End(l, p) <= c THEN End(l, p) <= q /\ q < c ELSE End(l, p) <= q \/ q < c
  BY <1>4 DEF InUse
<1>8. \/ p = f /\ f < c /\ End(l, p) <= c
      \/ p = f /\ c < f /\ c < End(l, p)
      \/ p = 0 /\ 0 < c /\ c < f /\ End(l, p) <= c /\ Turn(l, f)
  <2>1. CASE p = f /\ f < c
    BY <1>2, <1>3, <2>1
  <2>2. CASE p = f /\ c < f
    BY <1>1, <1>5, <2>2
  <2>3. CASE p = 0 /\ Turn(l, f) /\ c < f
    <3>1. 0 < c
      BY <1>1, <1>5, <2>3 DEF InUse
    <3>. QED  BY <1>2, <1>3, <2>3, <3>1
  <2>. QED  BY <1>1, <1>3, <2>1, <2>2, <2>3
<1>9. ASSUME NEW q \in Live(k) PROVE q \in Live(l)
  <2>1. q \in Offsets /\ q \in Nat /\ l.buf[q].valid /\ InUse(k, q)
    BY <1>1, <1>4 DEF Live
  <2>2. InUse(l, q)
    BY <1>1, <1>5, <1>7, <1>8, <2>1 DEF InUse
  <2>. QED  BY <2>1, <2>2 DEF Live
<1>10. ASSUME NEW q \in Live(l), q # p PROVE q \in Live(k)
  <2>1. /\ q \in Offsets /\ q \in Nat /\ l.buf[q].valid /\ InUse(l, q)
        /\ p < q => End(l, p) <= q
    BY <1>2, <1>3
  <2>2. Turn(l, f) => q < f
    BY <1>1, <2>1 DEF Turn
  <2>3. InUse(k, q)
    BY <1>1, <1>5, <1>7, <1>8, <1>10, <2>1, <2>2 DEF InUse
  <2>. QED  BY <1>4, <2>1, <2>3 DEF Live
<1>11. \A q \in Offsets : End(k, q) = End(l, q)
  BY <1>4 DEF End
<1>12. Sized(k)
  BY <1>4 DEF WellFormed, Sized, End
<1>13. Disjoint(k)
  BY <1>2, <1>4, <1>9, <1>11 DEF Disjoint
<1>14. ASSUME NEW e \in Nat, Turn(l, e), p # 0 PROVE Turn(k, e)
  <2>1. 0 \in Live(k)
    BY <1>10, <1>14 DEF Turn
  <2>. QED  BY <1>4, <1>14, <2>1 DEF Turn
<1>15. k.last_flush = k.curr \/ k.last_flush \in Live(k) \/ Turn(k, k.last_flush)
  <2>1. CASE End(l, p) = c
    BY <1>4, <2>1
  <2>2. CASE End(l, p) \in Live(l)
    BY <1>4, <1>5, <1>10, <2>2
  <2>3. CASE c <= p /\ Turn(l, End(l, p))
    <3>1. p # 0
      BY <1>1, <1>5, <1>8, <2>3
    <3>. QED  BY <1>4, <1>5, <1>14, <2>3, <3>1
  <2>. QED  BY <1>2, <1>3, <2>1, <2>2, <2>3
<1>16. ASSUME NEW q \in Live(k)
       PROVE  End(k, q) = k.curr \/ End(k, q) \in Live(k) \/ (k.curr <= q /\ Turn(k, End(k, q)))
  <2>1. /\ q \in Live(l) /\ q \in Offsets /\ q \in Nat /\ InUse(k, q) /\ End(k, q) = End(l, q)
        /\ End(l, q) \in Nat /\ q < End(l, q) /\ (q < c => End(l, q) <= c)
    BY <1>2, <1>9, <1>11 DEF Live
  <2>2. CASE End(l, q) = c
    BY <1>4, <2>1, <2>2
  <2>3. CASE End(l, q) \in Live(l)
    <3>1. End(l, q) # p
      BY <1>1, <1>5, <1>7, <1>8, <2>1
    <3>. QED  BY <1>10, <2>1, <2>3, <3>1
  <2>4. CASE c <= q /\ Turn(l, End(l, q))
    <3>1. p # 0
      BY <1>1, <1>5, <1>7, <1>8, <2>1, <2>4
    <3>. QED  BY <1>4, <1>14, <2>1, <2>4, <3>1
  <2>. QED  BY <1>2, <2>1, <2>2, <2>3, <2>4
<1>17. WellFormed(k)
  BY <1>12, <1>13, <1>15, <1>16 DEF WellFormed, Chained
<1>. QED  BY <1>3, <1>4, <1>6, <1>9, <1>10, <1>17 DEF p, k

-----------------------------------------------------------------------------
(* Every step keeps the invariant *)

LEMMA RecordSlipKinds ==
  ASSUME NEW l, NEW n
  PROVE  /\ RecordSlips(l, n) \in SUBSET SlipKinds
         /\ RecordSlips(l, n) = {} => Loggable(l, n)
  BY DEF RecordSlips, SlipKinds, Loggable

\* Empty logs and unlogged nodes.
LEMMA InitInv == ASSUME LogAssumption, Init PROVE Inv
<1>. DEFINE v == CHOOSE x \in Values : TRUE
<1>1. v \in Values /\ BufSize \in Nat /\ MaxEpoch \in Nat \ {0}
  BY DEF LogAssumption
<1>. HIDE DEF v
<1>2. /\ node = [n \in Nodes |-> [val |-> v, loggedepoch |-> 0]] /\ nnode = node
      /\ committed = [n \in Nodes |-> node[n].val]
      /\ log = [t \in Threads |-> EmptyLog] /\ nlog = log
      /\ globalepoch = 1 /\ status = "run" /\ settled = TRUE
  BY DEF Init, v
<1>3. /\ node \in [Nodes -> NodeImages] /\ committed \in [Nodes -> Values \cup {Torn}]
      /\ \A n \in Nodes : node[n].val = committed[n] /\ node[n].loggedepoch = 0
  BY <1>1, <1>2 DEF NodeImages
<1>4. /\ EmptyLog \in LogStates /\ EmptyLog.last_flush = EmptyLog.curr
      /\ \A p \in Offsets : EmptyLog.buf[p] = Junk
  <2>1. 0 \in Offsets /\ Junk \in Entries
    BY <1>1 DEF Offsets, Entries
  <2>. QED  BY <2>1 DEF EmptyLog, LogStates
<1>5. Live(EmptyLog) = {} /\ Junk.valid = FALSE /\ Junk.image.loggedepoch = 0
  BY <1>4, EmptyLive DEF Junk
<1>6. WellFormed(EmptyLog)
  BY <1>4, <1>5 DEF WellFormed, Sized, Disjoint, Chained
<1>7. TypeOK
  <2>1. /\ log \in [Threads -> LogStates] /\ nlog \in [Threads -> LogStates]
        /\ globalepoch \in 0..MaxEpoch /\ failures \in 0..MaxFailures
    BY <1>1, <1>2, <1>4 DEF Init, LogAssumption
  <2>2. /\ pending \in BOOLEAN /\ settled \in BOOLEAN /\ truncating \in SUBSET Threads
        /\ slips \in SUBSET SlipKinds
    BY DEF Init
  <2>. QED  BY <1>2, <1>3, <2>1, <2>2 DEF TypeOK
<1>8. LogsInv
  <2>1. \A t \in Threads : log[t] = EmptyLog /\ nlog[t] = EmptyLog
    BY <1>2
  <2>2. \A t \in Threads : \A p \in Offsets :
          log[t].buf[p].image.loggedepoch = 0 /\ nlog[t].buf[p].image.loggedepoch = 0
    BY <1>4, <1>5, <2>1
  <2>. QED  BY <1>2, <1>3, <1>6, <2>1, <2>2 DEF LogsInv, Stamped
<1>9. Restorable(log, node)
  BY <1>2, <1>3, <1>5 DEF Restorable
<1>10. RunInv
  BY <1>2, <1>3, <1>9 DEF RunInv
<1>. QED  BY <1>2, <1>7, <1>8, <1>10 DEF Inv, BoundaryInv, UndoInv

\* A change of a node that is already logged in this epoch.
LEMMA ChangeLoggedInv ==
  ASSUME LogAssumption, ~Clocked, Inv, NEW t \in Threads, NEW n \in Nodes, Change(t, n), ~Unlogged(n)
  PROVE  Inv'
<1>1. /\ status = "run" /\ node[n].loggedepoch = globalepoch
      /\ UNCHANGED <<log, nlog, nnode, globalepoch, status, pending, truncating, failures, settled,
                     committed, slips>>
  BY DEF Change, MayWork, Unlogged, logs
<1>2. PICK v \in Values : node' = [node EXCEPT ![n] = [val |-> v, loggedepoch |-> globalepoch]]
  BY DEF Change
<1>3. TypeOK /\ globalepoch \in 0..MaxEpoch /\ globalepoch \in Nat
  BY DEF Inv, TypeOK, LogAssumption
<1>4. /\ node' \in [Nodes -> NodeImages] /\ node'[n].loggedepoch = globalepoch
      /\ \A m \in Nodes : m # n => node'[m] = node[m]
  <2>1. [val |-> v, loggedepoch |-> globalepoch] \in NodeImages
    BY <1>3 DEF NodeImages
  <2>. QED  BY <1>2, <1>3, <2>1 DEF TypeOK
<1>5. TypeOK'
  BY <1>1, <1>3, <1>4 DEF TypeOK
<1>6. LogsInv'
  <2>1. \A m \in Nodes : Stamped(node[m])'
    BY <1>1, <1>3, <1>4 DEF Inv, LogsInv, Stamped
  <2>. QED  BY <1>1, <2>1 DEF Inv, LogsInv, Stamped
<1>7. RunInv'
  <2>1. SUFFICES ASSUME settled PROVE RunInv'
    BY <1>1 DEF RunInv
  <2>2. Covered(log, n)
    BY <1>1, <2>1 DEF Inv, RunInv
  <2>3. Restorable(log, node)'
    BY <1>1, <1>4, <2>1, <2>2 DEF Inv, RunInv, Restorable, Covered
  <2>4. Restorable(nlog, nnode)'
    BY <1>1, <2>1 DEF Inv, RunInv, Restorable, Covered
  <2>. QED  BY <1>1, <1>4, <2>1, <2>2, <2>3, <2>4 DEF Inv, RunInv, Covered
<1>. QED  BY <1>1, <1>5, <1>6, <1>7 DEF Inv, BoundaryInv, UndoInv

\* The first change of a node in an epoch: the record comes first, and is
\* of the node as it was at the last flush.
LEMMA ChangeUnloggedInv ==
  ASSUME LogAssumption, ~Clocked, Inv, NEW t \in Threads, NEW n \in Nodes, Change(t, n), Unlogged(n),
         Loggable(log[t], n)
  PROVE  Inv'
<1>. DEFINE k == Recorded(log[t], n)
            s == Start(log[t], n)
<1>1. /\ status = "run" /\ node[n].loggedepoch # globalepoch
      /\ log' = [log EXCEPT ![t] = k] /\ nlog' = [nlog EXCEPT ![t] = k]
      /\ slips' \in SUBSET SlipKinds
      /\ UNCHANGED <<nnode, globalepoch, status, pending, truncating, failures, settled, committed>>
  BY RecordSlipKinds DEF Change, MayWork, Unlogged, Inv, TypeOK
<1>2. PICK v \in Values : node' = [node EXCEPT ![n] = [val |-> v, loggedepoch |-> globalepoch]]
  BY DEF Change
<1>3. /\ TypeOK /\ globalepoch \in 0..MaxEpoch /\ globalepoch \in Nat /\ log[t] \in LogStates
      /\ node[n] \in NodeImages /\ WellFormed(log[t])
  BY DEF Inv, TypeOK, LogAssumption, LogsInv
<1>4. /\ node' \in [Nodes -> NodeImages] /\ node'[n].loggedepoch = globalepoch
      /\ \A m \in Nodes : m # n => node'[m] = node[m]
  <2>1. [val |-> v, loggedepoch |-> globalepoch] \in NodeImages
    BY <1>3 DEF NodeImages
  <2>. QED  BY <1>2, <1>3, <2>1 DEF TypeOK
<1>5. /\ k \in LogStates /\ WellFormed(k)
      /\ s \in Live(k) /\ Live(k) = Live(log[t]) \cup {s}
      /\ k.buf[s] = Entry(log[t], n)
      /\ \A q \in Offsets : q # s => k.buf[q] = log[t].buf[q] \/ k.buf[q] = Junk
      /\ \A q \in Live(log[t]) : k.buf[q] = log[t].buf[q]
  BY <1>3, RecordedLog
<1>6. k.buf[s].node = n /\ k.buf[s].image = node[n] /\ Junk.image.loggedepoch = 0
  BY <1>5 DEF Entry, Junk
<1>. HIDE DEF k, s
<1>7. /\ log' \in [Threads -> LogStates] /\ nlog' \in [Threads -> LogStates]
      /\ log'[t] = k /\ nlog'[t] = k
      /\ \A u \in Threads : u # t => log'[u] = log[u] /\ nlog'[u] = nlog[u]
  BY <1>1, <1>3, <1>5 DEF TypeOK
<1>8. TypeOK'
  BY <1>1, <1>3, <1>4, <1>7 DEF TypeOK
<1>9. LogsInv'
  <2>1. \A m \in Nodes : Stamped(node[m])' /\ Stamped(nnode[m])'
    BY <1>1, <1>3, <1>4 DEF Inv, LogsInv, Stamped
  <2>2. \A q \in Offsets : k.buf[q].image.loggedepoch <= globalepoch
    BY <1>3, <1>5, <1>6 DEF Inv, LogsInv, Stamped
  <2>3. \A u \in Threads : WellFormed(log'[u]) /\ WellFormed(nlog'[u])
    BY <1>5, <1>7 DEF Inv, LogsInv
  <2>4. \A u \in Threads : \A p \in Offsets :
          /\ log'[u].buf[p].image.loggedepoch <= globalepoch
          /\ nlog'[u].buf[p].image.loggedepoch <= globalepoch
    BY <1>7, <2>2 DEF Inv, LogsInv, Stamped
  <2>. QED  BY <1>1, <2>1, <2>3, <2>4 DEF LogsInv, Stamped
<1>10. RunInv'
  <2>1. SUFFICES ASSUME settled PROVE RunInv'
    BY <1>1 DEF RunInv
  <2>2. /\ nlog = log /\ Restorable(log, node) /\ Restorable(nlog, nnode) /\ nlog' = log'
        /\ \A m \in Nodes : /\ node[m].val # committed[m] => node[m].loggedepoch = globalepoch
                            /\ node[m].loggedepoch = globalepoch => Covered(log, m)
    BY <1>1, <2>1 DEF Inv, RunInv
  <2>3. node[n].val = committed[n]
    BY <1>1, <2>2
  <2>4. \A u \in Threads : \A p \in Live(log[u]) : p \in Live(log'[u]) /\ log'[u].buf[p] = log[u].buf[p]
    BY <1>5, <1>7
  <2>5. /\ \A m \in Nodes : Covered(log, m) => Covered(log', m)
        /\ Covered(log', n)
    BY <1>5, <1>6, <1>7, <2>4 DEF Covered
  <2>6. \A u \in Threads : \A p \in Live(log'[u]) :
          log'[u].buf[p].image.val = committed[log'[u].buf[p].node]
    BY <1>5, <1>6, <1>7, <2>2, <2>3 DEF Restorable
  <2>7. Restorable(log', node')
    BY <1>4, <2>2, <2>5, <2>6 DEF Restorable
  <2>8. Restorable(nlog', nnode')
    <3>1. \A m \in Nodes : nnode[m].val = committed[m] \/ Covered(log, m)
      BY <2>2 DEF Restorable
    <3>2. \A m \in Nodes : nnode[m].val = committed[m] \/ Covered(log', m)
      BY <2>5, <3>1
    <3>3. Restorable(log', nnode)
      BY <2>6, <3>2 DEF Restorable
    <3>4. nnode' = nnode
      BY <1>1
    <3>. QED  BY <2>2, <3>3, <3>4
  <2>9. Restorable(log, node)' /\ Restorable(nlog, nnode)'
    BY <1>1, <2>7, <2>8 DEF Restorable, Covered
  <2>10. \A m \in Nodes : /\ node'[m].val # committed[m] => node'[m].loggedepoch = globalepoch
                          /\ node'[m].loggedepoch = globalepoch => Covered(log', m)
    BY <1>4, <2>2, <2>5
  <2>. QED  BY <1>1, <2>2, <2>9, <2>10 DEF RunInv, Covered
<1>. QED  BY <1>1, <1>8, <1>9, <1>10 DEF Inv, BoundaryInv, UndoInv

\* The epoch of an image is a number, the one of an unwritten entry included.
LEMMA EntryEpoch == ASSUME LogAssumption, NEW x \in Entries PROVE x.image.loggedepoch \in Nat
<1>1. CASE x = Junk
  BY <1>1 DEF Junk
<1>2. CASE x \in [valid : {TRUE}, size : 0..BufSize, node : Nodes, image : NodeImages]
  <2>1. x.image \in NodeImages
    BY <1>2
  <2>2. x.image.loggedepoch \in 0..MaxEpoch
    BY <2>1 DEF NodeImages
  <2>. QED  BY <2>2 DEF LogAssumption
<1>. QED  BY <1>1, <1>2 DEF Entries

\* checkpoint: a truncated log has nothing to undo; after the last one every
\* node is as committed.
LEMMA CheckpointInv == ASSUME LogAssumption, Inv, NEW t \in Threads, Checkpoint(t) PROVE Inv'
<1>. DEFINE k == Truncated(log[t])
<1>1. /\ status = "boundary" /\ t \in truncating
      /\ log' = [log EXCEPT ![t] = k]
      /\ nlog' = [nlog EXCEPT ![t] =
                    [nlog[t] EXCEPT !.curr = log'[t].curr, !.last_flush = log'[t].last_flush]]
      /\ truncating' = truncating \ {t}
      /\ status' = IF truncating' = {} THEN "run" ELSE status
      /\ UNCHANGED <<node, nnode, globalepoch, pending, failures, settled, committed, slips>>
  BY DEF Checkpoint, nodes
<1>2. TypeOK /\ log[t] \in LogStates /\ WellFormed(log[t])
  BY DEF Inv, TypeOK, LogsInv
<1>3. /\ settled /\ nlog = log
      /\ \A n \in Nodes : /\ node[n].val = committed[n] /\ nnode[n].val = committed[n]
                          /\ node[n].loggedepoch < globalepoch
      /\ \A u \in Threads \ truncating : log[u].last_flush = log[u].curr
  BY <1>1 DEF Inv, BoundaryInv
<1>4. /\ k \in LogStates /\ WellFormed(k)
      /\ k.buf = log[t].buf /\ k.curr = log[t].curr /\ k.last_flush = log[t].curr
  BY <1>2, TruncatedLog
<1>5. k = [curr |-> log[t].curr, last_flush |-> log[t].curr, buf |-> log[t].buf]
  BY <1>2, LogFields DEF Truncated
<1>. HIDE DEF k
<1>6. log' \in [Threads -> LogStates] /\ log'[t] = k /\ \A u \in Threads : u # t => log'[u] = log[u]
  BY <1>1, <1>2, <1>4 DEF TypeOK
<1>7. nlog' = log'
  <2>1. [nlog[t] EXCEPT !.curr = k.curr, !.last_flush = k.last_flush] = k
    BY <1>2, <1>3, <1>4, <1>5, LogFields, ZenonT(30)
  <2>. QED  BY <1>1, <1>3, <1>6, <2>1
<1>8. TypeOK'
  <2>1. status' \in {"run", "boundary", "undo"} /\ truncating' \in SUBSET Threads
    BY <1>1, <1>2 DEF TypeOK
  <2>. QED  BY <1>1, <1>2, <1>6, <1>7, <2>1 DEF TypeOK
<1>9. LogsInv'
  <2>1. \A u \in Threads : WellFormed(log'[u])
    BY <1>4, <1>6 DEF Inv, LogsInv
  <2>2. \A u \in Threads : \A p \in Offsets : log'[u].buf[p].image.loggedepoch <= globalepoch
    BY <1>4, <1>6 DEF Inv, LogsInv, Stamped
  <2>3. \A n \in Nodes : Stamped(node[n])' /\ Stamped(nnode[n])'
    BY <1>1 DEF Inv, LogsInv, Stamped
  <2>. QED  BY <1>1, <1>7, <2>1, <2>2, <2>3, ZenonT(30) DEF LogsInv, Stamped
<1>10. \A u \in Threads : u \notin truncating' => log'[u].last_flush = log'[u].curr
  BY <1>1, <1>3, <1>4, <1>6
<1>11. BoundaryInv'
  BY <1>1, <1>3, <1>7, <1>10 DEF BoundaryInv
<1>12. RunInv'
  <2>1. SUFFICES ASSUME truncating' = {} PROVE RunInv'
    BY <1>1 DEF RunInv
  <2>2. \A u \in Threads : Live(log'[u]) = {}
    BY <1>6, <1>10, <2>1, EmptyLive
  <2>3. Restorable(log, node)' /\ Restorable(nlog, nnode)'
    BY <1>1, <1>3, <1>7, <2>2 DEF Restorable
  <2>4. \A n \in Nodes : node'[n].val = committed'[n] /\ node'[n].loggedepoch # globalepoch'
    <3>1. \A n \in Nodes : node[n].loggedepoch \in Nat /\ globalepoch \in Nat
      BY <1>2 DEF TypeOK, NodeImages, LogAssumption
    <3>. QED  BY <1>1, <1>3, <3>1
  <2>. QED  BY <1>7, <2>3, <2>4 DEF RunInv
<1>13. UndoInv'
  BY <1>1 DEF UndoInv
<1>. QED  BY <1>8, <1>9, <1>11, <1>12, <1>13 DEF Inv

\* A round of undo: the node gets its committed value back, the records that
\* are left still cover the others.
LEMMA UndoStepInv == ASSUME LogAssumption, Inv, NEW t \in Threads, UndoStep(t) PROVE Inv'
<1>. DEFINE p == UndoAt(log[t])
            r == log[t].buf[p]
            k == [log[t] EXCEPT !.last_flush = p + r.size]
<1>1. /\ status = "undo" /\ log[t].last_flush # log[t].curr
      /\ node' \in IF r.valid THEN Copied(r) ELSE {node}
      /\ log' = [log EXCEPT ![t] = k]
      /\ UNCHANGED <<nlog, nnode, globalepoch, status, pending, truncating, failures, settled,
                     committed, slips>>
  BY DEF UndoStep
<1>2. TypeOK /\ log[t] \in LogStates /\ WellFormed(log[t])
  BY DEF Inv, TypeOK, LogsInv
<1>3. /\ p \in Live(log[t]) /\ k \in LogStates /\ WellFormed(k)
      /\ k.buf = log[t].buf /\ k.curr = log[t].curr
      /\ Live(k) \subseteq Live(log[t]) /\ Live(log[t]) \ {p} \subseteq Live(k)
  BY <1>1, <1>2, UndoneLog
<1>. HIDE DEF p, k
<1>4. /\ p \in Offsets /\ r.valid /\ r.node \in Nodes /\ r.image \in NodeImages
      /\ r.size = EntrySize(r.node)
  BY <1>2, <1>3, LogShape DEF Live, WellFormed, Sized
<1>5. Restored(r) = r.image /\ node' = [node EXCEPT ![r.node] = r.image]
  <2>1. Restored(r) = r.image /\ ~(r.size > EntrySize(r.node))
    BY <1>4, EntrySizes DEF Restored
  <2>. QED  BY <1>1, <1>4, <2>1 DEF Copied
<1>. HIDE DEF r
<1>6. /\ node' \in [Nodes -> NodeImages] /\ node'[r.node] = r.image
      /\ \A m \in Nodes : m # r.node => node'[m] = node[m]
  BY <1>1, <1>2, <1>4, <1>5 DEF TypeOK
<1>7. log' \in [Threads -> LogStates] /\ log'[t] = k /\ \A u \in Threads : u # t => log'[u] = log[u]
  BY <1>1, <1>2, <1>3 DEF TypeOK
<1>8. TypeOK'
  BY <1>1, <1>2, <1>6, <1>7 DEF TypeOK
<1>9. LogsInv'
  <2>1. \A u \in Threads : WellFormed(log'[u])
    BY <1>3, <1>7 DEF Inv, LogsInv
  <2>2. \A u \in Threads : \A q \in Offsets : log'[u].buf[q].image.loggedepoch <= globalepoch
    BY <1>3, <1>7 DEF Inv, LogsInv, Stamped
  <2>3. r.image.loggedepoch <= globalepoch
    BY <1>4 DEF Inv, LogsInv, Stamped, r
  <2>4. \A m \in Nodes : node'[m].loggedepoch <= globalepoch
    BY <1>6, <2>3 DEF Inv, LogsInv, Stamped
  <2>. QED  BY <1>1, <2>1, <2>2, <2>4 DEF Inv, LogsInv, Stamped
<1>10. UndoInv'
  <2>1. /\ ~settled /\ Restorable(log, node) /\ Restorable(nlog, nnode)
        /\ \A u \in Threads : /\ log[u].buf = nlog[u].buf /\ log[u].curr = nlog[u].curr
                              /\ Live(log[u]) \subseteq Live(nlog[u])
    BY <1>1 DEF Inv, UndoInv
  <2>2. \A u \in Threads : log'[u].buf = log[u].buf /\ Live(log'[u]) \subseteq Live(log[u])
    BY <1>3, <1>7
  <2>3. r.image.val = committed[r.node]
    BY <1>3, <2>1 DEF Restorable, r
  <2>4. ASSUME NEW m \in Nodes PROVE node'[m].val = committed[m] \/ Covered(log', m)
    <3>1. CASE m = r.node
      BY <1>6, <2>3, <3>1
    <3>2. CASE m # r.node /\ node[m].val = committed[m]
      BY <1>6, <3>2
    <3>3. CASE m # r.node /\ Covered(log, m)
      <4>0. PICK u \in Threads : \E q \in Live(log[u]) : log[u].buf[q].node = m
        BY <3>3 DEF Covered
      <4>1. PICK q \in Live(log[u]) : log[u].buf[q].node = m
        BY <4>0
      <4>2. ~(u = t /\ q = p)
        BY <3>3, <4>1 DEF r
      <4>3. q \in Live(log'[u])
        BY <1>3, <1>7, <4>1, <4>2
      <4>. QED  BY <2>2, <4>1, <4>3 DEF Covered
    <3>. QED  BY <2>1, <3>1, <3>2, <3>3 DEF Restorable
  <2>5. Restorable(log', node')
    BY <2>1, <2>2, <2>4 DEF Restorable
  <2>6. Restorable(log, node)' /\ Restorable(nlog, nnode)'
    BY <1>1, <2>1, <2>5 DEF Restorable, Covered
  <2>7. \A u \in Threads : /\ log'[u].buf = nlog[u].buf /\ log'[u].curr = nlog[u].curr
                           /\ Live(log'[u]) \subseteq Live(nlog[u])
    BY <1>3, <1>7, <2>1, <2>2
  <2>. QED  BY <1>1, <2>1, <2>6, <2>7 DEF UndoInv
<1>. QED  BY <1>1, <1>8, <1>9, <1>10 DEF Inv, RunInv, BoundaryInv

\* A write-back: what reaches the memory can be undone from its logs.
LEMMA EvictNodeInv == ASSUME LogAssumption, Inv, NEW n \in Nodes, EvictNode(n) PROVE Inv'
<1>1. /\ nnode' = [nnode EXCEPT ![n] = node[n]]
      /\ UNCHANGED <<log, nlog, node, globalepoch, status, pending, truncating, failures, settled,
                     committed, slips>>
  BY DEF EvictNode, logs
<1>2. TypeOK
  BY DEF Inv
<1>3. /\ nnode' \in [Nodes -> NodeImages] /\ nnode'[n] = node[n]
      /\ \A m \in Nodes : m # n => nnode'[m] = nnode[m]
  BY <1>1, <1>2 DEF TypeOK
<1>4. TypeOK'
  BY <1>1, <1>2, <1>3 DEF TypeOK
<1>5. LogsInv'
  <2>1. \A m \in Nodes : nnode'[m].loggedepoch <= globalepoch
    BY <1>3 DEF Inv, LogsInv, Stamped
  <2>. QED  BY <1>1, <2>1 DEF Inv, LogsInv, Stamped
<1>6. ASSUME Restorable(log, node), Restorable(nlog, nnode),
             \A m \in Nodes : Covered(log, m) => Covered(nlog, m)
      PROVE  Restorable(log, node)' /\ Restorable(nlog, nnode)'
  <2>1. \A m \in Nodes : nnode'[m].val = committed[m] \/ Covered(nlog, m)
    BY <1>3, <1>6 DEF Restorable
  <2>. QED  BY <1>1, <1>6, <2>1 DEF Restorable, Covered
<1>7. RunInv'
  BY <1>1, <1>6 DEF Inv, RunInv, Covered
<1>8. BoundaryInv'
  BY <1>1, <1>3 DEF Inv, BoundaryInv
<1>9. UndoInv'
  <2>1. SUFFICES ASSUME status = "undo" PROVE UndoInv'
    BY <1>1 DEF UndoInv
  <2>2. \A m \in Nodes : Covered(log, m) => Covered(nlog, m)
    BY <2>1 DEF Inv, UndoInv, Covered
  <2>. QED  BY <1>1, <1>6, <2>1, <2>2 DEF Inv, UndoInv
<1>. QED  BY <1>4, <1>5, <1>7, <1>8, <1>9 DEF Inv

\* All logs are undone; until the next flush nothing more is claimed.
LEMMA UndoDoneInv == ASSUME LogAssumption, Inv, UndoDone PROVE Inv'
<1>1. /\ status = "undo" /\ status' = "run" /\ ~settled
      /\ UNCHANGED <<log, nlog, node, nnode, globalepoch, pending, truncating, failures, settled,
                     committed, slips>>
  BY DEF UndoDone, logs, nodes, Inv, UndoInv
<1>2. TypeOK'
  BY <1>1 DEF Inv, TypeOK
<1>3. LogsInv'
  BY <1>1 DEF Inv, LogsInv, Stamped
<1>. QED  BY <1>1, <1>2, <1>3 DEF Inv, RunInv, BoundaryInv, UndoInv

\* A failure in an epoch or during undo: the memory's logs and nodes remain.
LEMMA CrashInv == ASSUME LogAssumption, Inv, QuietFailure, Crash PROVE Inv'
<1>1. /\ failures' = failures + 1 /\ failures < MaxFailures
      /\ status # "undo" => globalepoch < MaxEpoch
      /\ globalepoch' = IF status = "undo" THEN globalepoch ELSE globalepoch + 1
      /\ log' = nlog /\ node' = nnode /\ status' = "undo" /\ pending' = FALSE /\ truncating' = {}
      /\ settled' = FALSE /\ slips' = slips /\ UNCHANGED <<nlog, nnode, committed>>
  BY DEF Crash
<1>2. TypeOK /\ globalepoch \in 0..MaxEpoch /\ globalepoch \in Nat
  BY DEF Inv, TypeOK, LogAssumption
<1>3. globalepoch' \in 0..MaxEpoch /\ globalepoch <= globalepoch' /\ globalepoch' \in Nat
      /\ failures' \in 0..MaxFailures
  BY <1>1, <1>2 DEF TypeOK, LogAssumption
<1>4. TypeOK'
  <2>1. pending' \in BOOLEAN /\ settled' \in BOOLEAN
    BY <1>1
  <2>. QED  BY <1>1, <1>2, <1>3, <2>1 DEF TypeOK
<1>5. LogsInv'
  <2>1. /\ \A n \in Nodes : nnode[n].loggedepoch \in Nat /\ nnode[n].loggedepoch <= globalepoch
        /\ \A t \in Threads : WellFormed(nlog[t])
    BY <1>2 DEF Inv, LogsInv, Stamped, TypeOK, NodeImages, LogAssumption
  <2>2. ASSUME NEW t \in Threads, NEW p \in Offsets
        PROVE  nlog[t].buf[p].image.loggedepoch \in Nat
               /\ nlog[t].buf[p].image.loggedepoch <= globalepoch
    <3>1. nlog[t].buf[p] \in Entries
      BY <1>2 DEF TypeOK, LogStates
    <3>. QED  BY <3>1, EntryEpoch DEF Inv, LogsInv, Stamped
  <2>. QED  BY <1>1, <1>2, <1>3, <2>1, <2>2 DEF LogsInv, Stamped
<1>6. Restorable(nlog, nnode)
  BY DEF QuietFailure, Inv, RunInv, UndoInv
<1>7. Restorable(log, node)' /\ Restorable(nlog, nnode)'
  BY <1>1, <1>6 DEF Restorable, Covered
<1>8. UndoInv'
  BY <1>1, <1>7 DEF UndoInv
<1>. QED  BY <1>1, <1>4, <1>5, <1>8 DEF Inv, RunInv, BoundaryInv

\* advance_epoch: the flush commits the nodes, and the epoch is a new one.
LEMMA AdvanceEpochInv == ASSUME LogAssumption, Inv, AdvanceEpoch PROVE Inv'
<1>1. /\ status = "run" /\ status' = "boundary" /\ pending' = FALSE
      /\ nnode' = node /\ nlog' = log /\ truncating' = Threads /\ settled' = TRUE
      /\ committed' = [n \in Nodes |-> node[n].val]
      /\ globalepoch' = globalepoch + 1 /\ globalepoch < MaxEpoch
      /\ UNCHANGED <<log, node, failures, slips>>
  BY DEF AdvanceEpoch, Flush
<1>2. TypeOK /\ globalepoch \in 0..MaxEpoch /\ globalepoch \in Nat
  BY DEF Inv, TypeOK, LogAssumption
<1>3. globalepoch' \in 0..MaxEpoch
  BY <1>1, <1>2 DEF LogAssumption
<1>4. /\ committed' \in [Nodes -> Values \cup {Torn}]
      /\ \A n \in Nodes : committed'[n] = node[n].val
  BY <1>1, <1>2 DEF TypeOK, NodeImages
<1>5. TypeOK'
  <2>1. pending' \in BOOLEAN /\ settled' \in BOOLEAN /\ truncating' \in SUBSET Threads
    BY <1>1
  <2>. QED  BY <1>1, <1>2, <1>3, <1>4, <2>1 DEF TypeOK
<1>6. \A n \in Nodes : node[n].loggedepoch \in Nat /\ node[n].loggedepoch <= globalepoch
  BY <1>2 DEF Inv, LogsInv, Stamped, TypeOK, NodeImages, LogAssumption
<1>7. LogsInv'
  <2>1. ASSUME NEW t \in Threads, NEW p \in Offsets
        PROVE  log[t].buf[p].image.loggedepoch \in Nat
               /\ log[t].buf[p].image.loggedepoch <= globalepoch
    <3>1. log[t].buf[p] \in Entries
      BY <1>2 DEF TypeOK, LogStates
    <3>. QED  BY <3>1, EntryEpoch DEF Inv, LogsInv, Stamped
  <2>2. \A t \in Threads : WellFormed(log[t])
    BY DEF Inv, LogsInv
  <2>. QED  BY <1>1, <1>2, <1>6, <2>1, <2>2 DEF LogsInv, Stamped
<1>8. BoundaryInv'
  BY <1>1, <1>2, <1>4, <1>6 DEF BoundaryInv
<1>. QED  BY <1>1, <1>5, <1>7, <1>8 DEF Inv, RunInv, UndoInv

\* Until something slips every step keeps the invariant.
LEMMA CleanNextInv ==
  ASSUME LogAssumption, ~Clocked, Inv, [ManualNext]_vars, slips' = {} PROVE Inv'
<1>1. CASE UNCHANGED vars
  <2>1. TypeOK' /\ LogsInv'
    BY <1>1 DEF vars, Inv, TypeOK, LogsInv, Stamped
  <2>2. RunInv'
    BY <1>1 DEF vars, Inv, RunInv, Restorable, Covered
  <2>3. BoundaryInv'
    BY <1>1 DEF vars, Inv, BoundaryInv
  <2>4. UndoInv'
    BY <1>1 DEF vars, Inv, UndoInv, Restorable, Covered
  <2>. QED  BY <2>1, <2>2, <2>3, <2>4 DEF Inv
<1>2. CASE Step
  <2>1. ASSUME NEW t \in Threads, Checkpoint(t) PROVE Inv'
    BY <2>1, CheckpointInv
  <2>2. ASSUME NEW t \in Threads, UndoStep(t) PROVE Inv'
    BY <2>2, UndoStepInv
  <2>3. ASSUME NEW t \in Threads, NEW n \in Nodes, Change(t, n) PROVE Inv'
    <3>1. Unlogged(n) => RecordSlips(log[t], n) = {}
      BY <2>3 DEF Change
    <3>2. Unlogged(n) => Loggable(log[t], n)
      BY <3>1, RecordSlipKinds
    <3>. QED  BY <2>3, <3>2, ChangeLoggedInv, ChangeUnloggedInv
  <2>4. ASSUME NEW n \in Nodes, EvictNode(n) PROVE Inv'
    BY <2>4, EvictNodeInv
  <2>5. CASE UndoDone
    BY <2>5, UndoDoneInv
  <2>6. CASE Crash
    <3>1. QuietFailure
      BY <2>6 DEF Crash
    <3>. QED  BY <2>6, <3>1, CrashInv
  <2>. QED  BY <1>2, <2>1, <2>2, <2>3, <2>4, <2>5, <2>6 DEF Step
<1>3. CASE AdvanceEpoch
  BY <1>3, AdvanceEpochInv
<1>. QED  BY <1>1, <1>2, <1>3 DEF ManualNext

\* record, wrapped or not, keeps curr in the buffer and the entries' form.
LEMMA RecordedType ==
  ASSUME LogAssumption, NEW l \in LogStates, NEW n \in Nodes, node[n] \in NodeImages
  PROVE  Recorded(l, n) \in LogStates
<1>1. /\ l.curr \in Nat /\ l.curr <= BufSize /\ BufSize \in Nat /\ 0 \in Offsets
      /\ l.buf \in [Offsets -> Entries] /\ l.last_flush \in Offsets
      /\ l.buf[0].size \in Nat /\ l.buf[0].size <= BufSize
      /\ EntrySize(n) \in Nat /\ EntrySize(n) <= BufSize
  BY LogShape, EntrySizes DEF LogAssumption, Offsets
<1>2. RecordedSize(l, n) \in 0..BufSize /\ Start(l, n) + RecordedSize(l, n) \in Offsets
  BY <1>1 DEF RecordedSize, Start, Wraps, Offsets
<1>3. Entry(l, n) \in Entries /\ Junk \in Entries
  BY <1>2 DEF Entry, Entries
<1>4. Overwrite(l.buf, Start(l, n), n, Entry(l, n)) \in [Offsets -> Entries]
  BY <1>1, <1>3 DEF Overwrite
<1>5. Recorded(l, n) = [curr |-> Start(l, n) + RecordedSize(l, n), last_flush |-> l.last_flush,
                        buf |-> Overwrite(l.buf, Start(l, n), n, Entry(l, n))]
  <2>1. Recorded(l, n) = [l EXCEPT !.buf = Overwrite(l.buf, Start(l, n), n, Entry(l, n)),
                                   !.curr = Start(l, n) + RecordedSize(l, n)]
    BY DEF Recorded
  <2>. QED  BY <2>1, LogFields
<1>. QED  BY <1>1, <1>2, <1>4, <1>5 DEF LogStates

\* undo moves last_flush within the buffer and leaves nodes, or mixtures.
LEMMA UndoStepType ==
  ASSUME LogAssumption, TypeOK, NEW t \in Threads, UndoStep(t) PROVE TypeOK'
<1>. DEFINE p == UndoAt(log[t])
            r == log[t].buf[p]
            k == [log[t] EXCEPT !.last_flush = p + r.size]
<1>1. /\ status = "undo" /\ node' \in IF r.valid THEN Copied(r) ELSE {node}
      /\ log' = [log EXCEPT ![t] = k]
      /\ UNCHANGED <<nlog, nnode, globalepoch, status, pending, truncating, failures, settled,
                     committed, slips>>
  BY DEF UndoStep
<1>2. log[t] \in LogStates /\ 0 \in Offsets /\ log[t].last_flush \in Offsets
  BY LogShape DEF TypeOK, LogAssumption, Offsets
<1>3. p \in Offsets /\ p + r.size \in Offsets /\ r \in Entries
  <2>1. \A q \in Offsets : /\ log[t].buf[q].size \in Nat /\ log[t].buf[q].size <= BufSize
                           /\ log[t].buf[q] \in Entries /\ q \in Nat
    BY <1>2, LogShape
  <2>. QED  BY <1>2, <2>1 DEF UndoAt, Offsets, LogAssumption
<1>4. k \in LogStates
  <2>1. k = [curr |-> log[t].curr, last_flush |-> p + r.size, buf |-> log[t].buf]
    BY <1>2, LogFields
  <2>. QED  BY <1>2, <1>3, <2>1 DEF LogStates
<1>. HIDE DEF p, k, r
<1>5. node' \in [Nodes -> NodeImages]
  <2>1. CASE ~r.valid
    BY <1>1, <2>1 DEF TypeOK
  <2>2. CASE r.valid
    <3>1. r.node \in Nodes /\ r.image \in NodeImages
      <4>1. r # Junk
        BY <2>2 DEF Junk
      <4>. QED  BY <1>3, <4>1 DEF Entries
    <3>2. Restored(r) \in NodeImages
      BY <3>1 DEF Restored, NodeImages
    <3>3. [node EXCEPT ![r.node] = Restored(r)] \in [Nodes -> NodeImages]
      BY <3>1, <3>2 DEF TypeOK
    <3>4. ASSUME NEW nd \in [Nodes -> NodeImages], NEW m \in Nodes
          PROVE  [nd EXCEPT ![m].val = Torn] \in [Nodes -> NodeImages]
      BY DEF NodeImages
    <3>5. PICK nd \in [Nodes -> NodeImages] :
            node' = nd \/ \E m \in Nodes : node' = [nd EXCEPT ![m].val = Torn]
      BY <1>1, <2>2, <3>3 DEF Copied
    <3>. QED  BY <3>4, <3>5
  <2>. QED  BY <2>1, <2>2
<1>6. log' \in [Threads -> LogStates]
  BY <1>1, <1>4 DEF TypeOK
<1>. QED  BY <1>1, <1>5, <1>6 DEF TypeOK

\* Whatever slips, every step keeps the types.
LEMMA TypeNext == ASSUME LogAssumption, TypeOK, [ManualNext]_vars PROVE TypeOK'
<1>1. CASE UNCHANGED vars
  BY <1>1 DEF vars, TypeOK
<1>2. ASSUME NEW t \in Threads, NEW n \in Nodes, Change(t, n) PROVE TypeOK'
  <2>1. /\ UNCHANGED <<nnode, globalepoch, status, pending, truncating, failures, settled, committed>>
        /\ slips' \in SUBSET SlipKinds
    BY <1>2, RecordSlipKinds DEF Change, TypeOK
  <2>2. node' \in [Nodes -> NodeImages]
    BY <1>2 DEF Change, TypeOK, NodeImages
  <2>3. log' \in [Threads -> LogStates] /\ nlog' \in [Threads -> LogStates]
    <3>1. log[t] \in LogStates /\ node[n] \in NodeImages
      BY DEF TypeOK
    <3>2. Recorded(log[t], n) \in LogStates
      BY <3>1, RecordedType
    <3>. QED  BY <1>2, <3>2 DEF Change, TypeOK, logs
  <2>. QED  BY <2>1, <2>2, <2>3 DEF TypeOK
<1>3. ASSUME NEW t \in Threads, Checkpoint(t) PROVE TypeOK'
  <2>1. log[t] \in LogStates /\ nlog[t] \in LogStates
    BY DEF TypeOK
  <2>2. /\ Truncated(log[t]) = [curr |-> log[t].curr, last_flush |-> log[t].curr, buf |-> log[t].buf]
        /\ Truncated(log[t]) \in LogStates
    BY <2>1, LogFields DEF Truncated, LogStates
  <2>3. /\ log' = [log EXCEPT ![t] = Truncated(log[t])]
        /\ nlog' = [nlog EXCEPT ![t] =
                      [nlog[t] EXCEPT !.curr = log'[t].curr, !.last_flush = log'[t].last_flush]]
    BY <1>3 DEF Checkpoint
  <2>4. log' \in [Threads -> LogStates] /\ log'[t] = Truncated(log[t])
    BY <2>2, <2>3 DEF TypeOK
  <2>5. log'[t].curr \in Offsets /\ log'[t].last_flush \in Offsets
    BY <2>1, <2>2, <2>4, LogShape DEF Offsets
  <2>6. nlog' \in [Threads -> LogStates]
    <3>1. [nlog[t] EXCEPT !.curr = log'[t].curr, !.last_flush = log'[t].last_flush] \in LogStates
      BY <2>1, <2>5 DEF LogStates
    <3>. QED  BY <2>3, <3>1 DEF TypeOK
  <2>7. /\ UNCHANGED <<node, nnode, globalepoch, pending, failures, settled, committed, slips>>
        /\ status' \in {"run", "boundary", "undo"} /\ truncating' \in SUBSET Threads
    BY <1>3 DEF Checkpoint, nodes, TypeOK
  <2>. QED  BY <2>4, <2>6, <2>7 DEF TypeOK
<1>4. ASSUME NEW t \in Threads, UndoStep(t) PROVE TypeOK'
  BY <1>4, UndoStepType
<1>5. ASSUME NEW n \in Nodes, EvictNode(n) PROVE TypeOK'
  BY <1>5 DEF EvictNode, TypeOK, logs
<1>6. CASE UndoDone
  BY <1>6 DEF UndoDone, TypeOK, logs, nodes
<1>7. CASE Crash
  <2>1. globalepoch' \in 0..MaxEpoch /\ failures' \in 0..MaxFailures
    BY <1>7 DEF Crash, TypeOK, LogAssumption
  <2>2. slips' \in SUBSET SlipKinds /\ pending' \in BOOLEAN /\ settled' \in BOOLEAN
    BY <1>7 DEF Crash, TypeOK, SlipKinds
  <2>. QED  BY <1>7, <2>1, <2>2 DEF Crash, TypeOK
<1>8. CASE AdvanceEpoch
  <2>1. globalepoch' \in 0..MaxEpoch
    BY <1>8 DEF AdvanceEpoch, TypeOK, LogAssumption
  <2>2. committed' \in [Nodes -> Values \cup {Torn}]
    BY <1>8 DEF AdvanceEpoch, Flush, TypeOK, NodeImages
  <2>3. pending' \in BOOLEAN /\ settled' \in BOOLEAN /\ truncating' \in SUBSET Threads
    BY <1>8 DEF AdvanceEpoch, Flush
  <2>. QED  BY <1>8, <2>1, <2>2, <2>3 DEF AdvanceEpoch, Flush, TypeOK
<1>. QED  BY <1>1, <1>2, <1>3, <1>4, <1>5, <1>6, <1>7, <1>8 DEF ManualNext, Step

\* Nothing that slipped is forgotten.
LEMMA SlipsStay == ASSUME [ManualNext]_vars, slips' = {} PROVE slips = {}
<1>1. CASE UNCHANGED vars
  BY <1>1 DEF vars
<1>2. CASE Step
  BY <1>2 DEF Step, Checkpoint, UndoStep, Change, EvictNode, UndoDone, Crash
<1>3. CASE AdvanceEpoch
  BY <1>3 DEF AdvanceEpoch, Flush
<1>. QED  BY <1>1, <1>2, <1>3 DEF ManualNext

\* Every step keeps what holds in every state.
LEMMA NextInv == ASSUME LogAssumption, ~Clocked, LogInv, [ManualNext]_vars PROVE LogInv'
<1>1. TypeOK'
  BY TypeNext DEF LogInv
<1>2. ASSUME slips' = {} PROVE Inv'
  BY <1>2, SlipsStay, CleanNextInv DEF LogInv
<1>. QED  BY <1>1, <1>2 DEF LogInv

\* A log that undo has been through has no record left to copy back, so no
\* node differs from the last flush.
LEMMA InvUndoRestores == ASSUME LogAssumption, LogInv PROVE UndoRestores
<1>1. SUFFICES ASSUME Inv, status = "undo", \A t \in Threads : log[t].last_flush = log[t].curr
               PROVE  \A n \in Nodes : node[n].val = committed[n]
  BY DEF UndoRestores, NodesRestored, LogInv
<1>2. \A t \in Threads : Live(log[t]) = {}
  BY <1>1, EmptyLive DEF Inv, TypeOK
<1>. QED  BY <1>1, <1>2 DEF Inv, UndoInv, Restorable, Covered

-----------------------------------------------------------------------------
\* The ring buffers, the nodes and the epochs keep their types: curr and
\* last_flush stay within the buffer, also when a record is too large, wraps
\* over a record of another size or is undone after a failure at a boundary.
THEOREM LogTypeCorrect == ASSUME LogAssumption, ~Clocked PROVE ManualSpec => []TypeOK
<1>1. Init => LogInv  BY InitInv DEF LogInv, Inv
<1>2. LogInv /\ [ManualNext]_vars => LogInv'  BY NextInv
<1>3. LogInv => TypeOK  BY DEF LogInv
<1>. QED  BY <1>1, <1>2, <1>3, PTL DEF ManualSpec

\* When undo has come to the end of every log and nothing has slipped, every
\* node is what it was at the last flush.
THEOREM LogUndoRestores == ASSUME LogAssumption, ~Clocked PROVE ManualSpec => []UndoRestores
<1>1. Init => LogInv  BY InitInv DEF LogInv, Inv
<1>2. LogInv /\ [ManualNext]_vars => LogInv'  BY NextInv
<1>3. LogInv => UndoRestores  BY InvUndoRestores
<1>. QED  BY <1>1, <1>2, <1>3, PTL DEF ManualSpec
=============================================================================
