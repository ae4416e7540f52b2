------------------------- MODULE GlobalFlush_proofs -------------------------
(***************************************************************************)
(* The flush protocol of incll_gf.hh for any number of threads: when the   *)
(* caches are written back every other thread waits, a thread truncates    *)
(* its node log only after a flush it acknowledged, and none operates with *)
(* records from before the last flush; provided that an epoch outlasts its *)
(* boundary (AssumedSpec).                                                 *)
(***************************************************************************)
EXTENDS GlobalFlush, FiniteSetTheorems, TLAPS

\* Where flush() is, and where ack_flush is once it has seen flush mode.
Flushing == {"warn", "enter", "collect", "leave", "release", "clear"}
Acking == {"post", "wait", "truncate"}
Elsewhere == PCs \ (Flushing \cup Acking)

Waiting == {u \in Workers : place[u] = "wait"}
NWaiting == Cardinality(Waiting)

\* The epoch a boundary is about is the clock's.
Clocks ==
  \A t \in Workers :
    /\ e[t] <= clock
    /\ place[t] = "set" => e[t] = clock
    /\ place[t] \in Flushing \cup Acking => epoch = clock

\* One thread flushes.
OneFlusher == \A t, u \in Workers : place[t] \in Flushing /\ place[u] \in Flushing => t = u

\* Flush mode is on while a thread collects or leaves; only then, and before
\* the flush, are others about to acknowledge.
Mode ==
  /\ waitingFlush = (\E t \in Workers : place[t] \in {"collect", "leave"})
  /\ \A t \in Workers : place[t] \in {"warn", "enter"} => \A u \in Workers : place[u] \notin Acking
  /\ \A u \in Workers : place[u] = "post" => \E t \in Workers : place[t] = "collect"

\* The semaphores count the threads that wait.
Counts ==
  /\ \A f \in Workers : place[f] = "collect" =>
       /\ ack_sem + (nthreads - 1) = NWaiting + left[f]
       /\ flush_ack_sem = 0
       /\ \A u \in Workers : place[u] # "truncate"
  /\ \A f \in Workers : place[f] = "leave" =>
       /\ ack_sem = 0 /\ flush_ack_sem = 0
       /\ \A u \in Workers \ {f} : place[u] = "wait"
  /\ \A f \in Workers : place[f] = "release" => ack_sem = 0 /\ NWaiting = left[f] + flush_ack_sem
  /\ (\A f \in Workers : place[f] \notin {"collect", "leave", "release"}) =>
       ack_sem = 0 /\ NWaiting = flush_ack_sem

\* Acknowledgements and truncations are of the right flush.
History ==
  \A t \in Workers :
    /\ acked[t] <= flushes
    /\ place[t] = "wait" => acked[t] < flushes \/ \E f \in Workers : place[f] = "collect"
    /\ place[t] = "truncate" => acked[t] < flushes
    /\ truncated[t] # flushes => place[t] \in {"wait", "truncate", "leave", "release"}

\* doneThreads counts the threads in the loop after thread_done.
Spins ==
  /\ doneThreads = Cardinality(spinning)
  /\ \A t \in Workers :
       t \in spinning => place[t] \in {"ack", "ackdone", "ackwaiting", "end"} \cup Acking

Inv ==
  /\ FlushTypeOK /\ Clocks /\ OneFlusher /\ Mode /\ Counts /\ History /\ Spins

-----------------------------------------------------------------------------
(* Counting threads *)

\* There is a thread, and finitely many.
LEMMA NThreads == nthreads \in Nat \ {0} /\ IsFiniteSet(Workers)
<1>1. nthreads \in Nat /\ IsFiniteSet(Workers)
  BY FlushAssumption, FS_CardinalityType DEF nthreads
<1>2. nthreads # 0
  BY FlushAssumption, FS_EmptySet DEF nthreads
<1>. QED  BY <1>1, <1>2

\* The number of waiting threads: at most all but the one that does not wait,
\* and all of them only if every other one does.
LEMMA WaitingCount ==
  /\ NWaiting \in Nat
  /\ (\A u \in Workers : place[u] # "wait") => NWaiting = 0
  /\ \A f \in Workers : place[f] # "wait" =>
       /\ NWaiting <= nthreads - 1
       /\ NWaiting = nthreads - 1 => \A u \in Workers \ {f} : place[u] = "wait"
       /\ (\A u \in Workers \ {f} : place[u] = "wait") => NWaiting = nthreads - 1
<1>1. IsFiniteSet(Workers) /\ nthreads \in Nat \ {0} /\ Waiting \in SUBSET Workers
  BY NThreads DEF Waiting
<1>2. IsFiniteSet(Waiting) /\ NWaiting \in Nat
  BY <1>1, FS_Subset, FS_CardinalityType DEF NWaiting
<1>3. ASSUME \A u \in Workers : place[u] # "wait" PROVE NWaiting = 0
  <2>1. Waiting = {}  BY <1>3 DEF Waiting
  <2>. QED  BY <2>1, FS_EmptySet DEF NWaiting
<1>4. ASSUME NEW f \in Workers, place[f] # "wait"
      PROVE  /\ NWaiting <= nthreads - 1
             /\ NWaiting = nthreads - 1 => \A u \in Workers \ {f} : place[u] = "wait"
             /\ (\A u \in Workers \ {f} : place[u] = "wait") => NWaiting = nthreads - 1
  <2>. DEFINE Others == Workers \ {f}
  <2>1. IsFiniteSet(Others) /\ Cardinality(Others) = nthreads - 1
    BY <1>1, FS_RemoveElement DEF nthreads
  <2>2. Waiting \in SUBSET Others
    BY <1>4 DEF Waiting
  <2>. HIDE DEF Others
  <2>3. /\ NWaiting <= Cardinality(Others)
        /\ Cardinality(Others) = NWaiting => Others = Waiting
    BY <2>1, <2>2, FS_Subset DEF NWaiting
  <2>4. NWaiting = nthreads - 1 => \A u \in Others : place[u] = "wait"
    BY <2>1, <2>3 DEF Waiting
  <2>5. ASSUME \A u \in Others : place[u] = "wait" PROVE NWaiting = nthreads - 1
    <3>1. Waiting = Others  BY <1>4, <2>5 DEF Waiting, Others
    <3>. QED  BY <2>1, <3>1 DEF NWaiting
  <2>. QED  BY <2>1, <2>3, <2>4, <2>5 DEF Others
<1>. QED  BY <1>2, <1>3, <1>4

\* How a step of one thread changes the places and the number that waits.
LEMMA Moves ==
  ASSUME FlushTypeOK, NEW t \in Workers, NEW from, NEW to \in PCs, Goto(t, from, to)
  PROVE  /\ place[t] = from /\ place'[t] = to /\ place' \in [Workers -> PCs]
         /\ \A u \in Workers : u # t => place'[u] = place[u]
         /\ from # "wait" /\ to # "wait" => NWaiting' = NWaiting
         /\ from # "wait" /\ to = "wait" => NWaiting' = NWaiting + 1
         /\ from = "wait" /\ to # "wait" => NWaiting' = NWaiting - 1
<1>1. /\ place[t] = from /\ place'[t] = to /\ place' \in [Workers -> PCs]
      /\ \A u \in Workers : u # t => place'[u] = place[u]
  BY DEF Goto, FlushTypeOK
<1>2. IsFiniteSet(Waiting)
  BY NThreads, FS_Subset DEF Waiting
<1>3. ASSUME from # "wait", to # "wait" PROVE NWaiting' = NWaiting
  <2>1. Waiting' = Waiting  BY <1>1, <1>3 DEF Waiting
  <2>. QED  BY <2>1 DEF NWaiting
<1>4. ASSUME from # "wait", to = "wait" PROVE NWaiting' = NWaiting + 1
  <2>1. Waiting' = Waiting \cup {t} /\ t \notin Waiting  BY <1>1, <1>4 DEF Waiting
  <2>. QED  BY <1>2, <2>1, FS_AddElement DEF NWaiting
<1>5. ASSUME from = "wait", to # "wait" PROVE NWaiting' = NWaiting - 1
  <2>1. Waiting' = Waiting \ {t} /\ t \in Waiting  BY <1>1, <1>5 DEF Waiting
  <2>. QED  BY <1>2, <2>1, FS_RemoveElement DEF NWaiting
<1>. QED  BY <1>1, <1>3, <1>4, <1>5

-----------------------------------------------------------------------------
(* The threads' work: steps outside flush and its acknowledgement *)

\* All threads start with rcu_quiesce and nothing announced.
LEMMA InitInv == ASSUME Init PROVE Inv
<1>1. nthreads \in Nat \ {0} /\ MaxClock \in Nat \ {0} /\ MaxOps \in Nat
  BY NThreads, FlushAssumption
<1>2. /\ "quiesce" \in PCs /\ "quiesce" \notin Flushing \cup Acking
      /\ \A t \in Workers : place[t] = "quiesce" /\ e[t] = 0 /\ acked[t] = 0 /\ truncated[t] = 0
  BY DEF Init, PCs, Flushing, Acking
<1>3. FlushTypeOK
  <2>1. /\ place \in [Workers -> PCs]
        /\ e \in [Workers -> 0 .. MaxClock]
        /\ left \in [Workers -> 0 .. nthreads - 1]
        /\ ops \in [Workers -> 0 .. MaxOps]
    BY <1>1, <1>2 DEF Init
  <2>2. acked \in [Workers -> Nat] /\ truncated \in [Workers -> Nat]
    BY DEF Init
  <2>3. /\ doneThreads \in 0 .. nthreads
        /\ ack_sem \in 0 .. nthreads - 1 /\ flush_ack_sem \in 0 .. nthreads - 1
        /\ clock \in 1 .. MaxClock /\ epoch \in 1 .. clock /\ flushes \in Nat
    BY <1>1 DEF Init
  <2>4. influshWarning \in BOOLEAN /\ waitingFlush \in BOOLEAN /\ spinning \subseteq Workers
    BY DEF Init
  <2>. QED  BY <2>1, <2>2, <2>3, <2>4 DEF FlushTypeOK
<1>4. Clocks
  BY <1>2 DEF Init, Clocks
<1>5. OneFlusher /\ History
  BY <1>2 DEF Init, OneFlusher, History
<1>6. Mode
  BY <1>2 DEF Init, Mode, Flushing, Acking
<1>7. NWaiting = 0
  BY <1>2, WaitingCount
<1>8. Counts
  BY <1>2, <1>7 DEF Init, Counts
<1>9. Spins
  BY FS_EmptySet DEF Init, Spins
<1>. QED  BY <1>3, <1>4, <1>5, <1>6, <1>8, <1>9 DEF Inv

\* A step outside the boundary that touches neither the semaphores nor the
\* flush mode leaves the protocol's part of the invariant alone.
LEMMA QuietInv ==
  ASSUME Inv, NEW t \in Workers, NEW from \in Elsewhere, NEW to \in Elsewhere, Goto(t, from, to),
         UNCHANGED <<waitingFlush, sems, left, history>>,
         FlushTypeOK', Clocks', Spins'
  PROVE  Inv'
<1>1. to \in PCs /\ FlushTypeOK
  BY DEF Elsewhere, Inv
<1>2. /\ place[t] = from /\ place'[t] = to /\ \A u \in Workers : u # t => place'[u] = place[u]
      /\ NWaiting' = NWaiting
  BY <1>1, Moves DEF Elsewhere, Acking
<1>3. UNCHANGED <<waitingFlush, ack_sem, flush_ack_sem, left, flushes, acked, truncated>>
  BY DEF sems, history
<1>4. from \notin Flushing \cup Acking /\ to \notin Flushing \cup Acking
  BY DEF Elsewhere
<1>5. \A u \in Workers : \A c \in Flushing \cup Acking : place'[u] = c <=> place[u] = c
  BY <1>2, <1>4
<1>6. OneFlusher'
  BY <1>5 DEF Inv, OneFlusher
<1>7. Mode'
  BY <1>3, <1>5 DEF Inv, Mode, Flushing, Acking
<1>8. Counts'
  BY <1>2, <1>3, <1>4 DEF Inv, Counts, Flushing, Acking
<1>9. History'
  BY <1>2, <1>3, <1>4 DEF Inv, History, Flushing, Acking
<1>. QED  BY <1>6, <1>7, <1>8, <1>9 DEF Inv

\* An operation on the tree.
LEMMA OperateInv == ASSUME Inv, NEW t \in Workers, Operate(t) PROVE Inv'
<1>1. PICK to \in {"quiesce", "ack"} : Goto(t, "op", to)
  BY DEF Operate
<1>2. "op" \in Elsewhere /\ to \in Elsewhere /\ to \in PCs /\ FlushTypeOK /\ ops[t] > 0
  BY DEF Elsewhere, PCs, Boundary, Flushing, Acking, Inv, Operate
<1>3. /\ UNCHANGED <<influshWarning, waitingFlush, doneThreads, sems, ack_sem, flush_ack_sem, clock,
                     epoch, e, left, spinning, history, flushes, acked, truncated>>
      /\ ops' = [ops EXCEPT ![t] = @ - 1]
  BY DEF Operate, atomics, sems, epochs, history
<1>4. /\ place[t] = "op" /\ place'[t] = to /\ place' \in [Workers -> PCs]
      /\ \A u \in Workers : u # t => place'[u] = place[u]
  BY <1>1, <1>2, Moves
<1>5. ops' \in [Workers -> 0 .. MaxOps]
  BY <1>2, <1>3, FlushAssumption DEF FlushTypeOK
<1>6. FlushTypeOK'
  BY <1>2, <1>3, <1>4, <1>5 DEF FlushTypeOK
<1>7. Clocks'
  BY <1>3, <1>4 DEF Inv, Clocks, Flushing, Acking
<1>8. Spins'
  BY <1>3, <1>4 DEF Inv, Spins, Acking
<1>. QED  BY <1>1, <1>2, <1>3, <1>6, <1>7, <1>8, QuietInv

\* rcu_quiesce reads the clock.
LEMMA ReadClockInv == ASSUME Inv, NEW t \in Workers, ReadClock(t) PROVE Inv'
<1>1. PICK to \in {"set", "ack"} : Goto(t, "quiesce", to)
  BY DEF ReadClock
<1>2. "quiesce" \in Elsewhere /\ to \in Elsewhere /\ to \in PCs /\ FlushTypeOK
  BY DEF Elsewhere, PCs, Boundary, Flushing, Acking, Inv
<1>3. /\ UNCHANGED <<influshWarning, waitingFlush, doneThreads, sems, ack_sem, flush_ack_sem, clock,
                     epoch, left, ops, spinning, history, flushes, acked, truncated>>
      /\ e' = [e EXCEPT ![t] = clock]
  BY DEF ReadClock, atomics, sems, progress, history
<1>4. /\ place[t] = "quiesce" /\ place'[t] = to /\ place' \in [Workers -> PCs]
      /\ \A u \in Workers : u # t => place'[u] = place[u]
  BY <1>1, <1>2, Moves
<1>5. /\ e' \in [Workers -> 0 .. MaxClock] /\ e'[t] = clock /\ clock \in Nat
      /\ \A u \in Workers : u # t => e'[u] = e[u]
  BY <1>2, <1>3, FlushAssumption DEF FlushTypeOK
<1>6. FlushTypeOK'
  BY <1>2, <1>3, <1>4, <1>5 DEF FlushTypeOK
<1>7. Clocks'
  BY <1>3, <1>4, <1>5 DEF Inv, Clocks, Flushing, Acking
<1>8. Spins'
  BY <1>3, <1>4 DEF Inv, Spins, Acking
<1>. QED  BY <1>1, <1>2, <1>3, <1>6, <1>7, <1>8, QuietInv

\* thread_done raises the warning.
LEMMA FinishInv == ASSUME Inv, NEW t \in Workers, Finish(t) PROVE Inv'
<1>1. Goto(t, "op", "count")
  BY DEF Finish
<1>2. "op" \in Elsewhere /\ "count" \in Elsewhere /\ "count" \in PCs /\ FlushTypeOK
  BY DEF Elsewhere, PCs, Boundary, Flushing, Acking, Inv
<1>3. /\ UNCHANGED <<waitingFlush, doneThreads, sems, ack_sem, flush_ack_sem, clock,
                     epoch, e, left, ops, spinning, history, flushes, acked, truncated>>
      /\ influshWarning' = TRUE
  BY DEF Finish, sems, epochs, progress, history
<1>4. /\ place[t] = "op" /\ place'[t] = "count" /\ place' \in [Workers -> PCs]
      /\ \A u \in Workers : u # t => place'[u] = place[u]
  BY <1>1, <1>2, Moves
<1>5. FlushTypeOK'
  BY <1>2, <1>3, <1>4 DEF FlushTypeOK
<1>6. Clocks'
  BY <1>3, <1>4 DEF Inv, Clocks, Flushing, Acking
<1>7. Spins'
  BY <1>3, <1>4 DEF Inv, Spins, Acking
<1>. QED  BY <1>1, <1>2, <1>3, <1>5, <1>6, <1>7, QuietInv

\* doneThreads counts every thread once.
LEMMA CountInv == ASSUME Inv, NEW t \in Workers, Count(t) PROVE Inv'
<1>1. Goto(t, "count", "ack")
  BY DEF Count
<1>2. "count" \in Elsewhere /\ "ack" \in Elsewhere /\ "ack" \in PCs /\ FlushTypeOK
  BY DEF Elsewhere, PCs, Boundary, Flushing, Acking, Inv
<1>3. /\ UNCHANGED <<influshWarning, waitingFlush, sems, ack_sem, flush_ack_sem, clock,
                     epoch, e, left, ops, history, flushes, acked, truncated>>
      /\ doneThreads' = doneThreads + 1 /\ spinning' = spinning \cup {t}
  BY DEF Count, sems, epochs, history
<1>4. /\ place[t] = "count" /\ place'[t] = "ack" /\ place' \in [Workers -> PCs]
      /\ \A u \in Workers : u # t => place'[u] = place[u]
  BY <1>1, <1>2, Moves
<1>5. doneThreads' = Cardinality(spinning')
  <2>1. IsFiniteSet(spinning)
    BY <1>2, NThreads, FS_Subset DEF FlushTypeOK
  <2>2. t \notin spinning
    BY <1>4 DEF Inv, Spins, Acking
  <2>. QED  BY <1>3, <2>1, <2>2, FS_AddElement DEF Inv, Spins
<1>6. doneThreads' \in 0 .. nthreads /\ spinning' \subseteq Workers
  <2>1. spinning' \in SUBSET Workers
    BY <1>2, <1>3 DEF FlushTypeOK
  <2>2. Cardinality(spinning') \in Nat /\ Cardinality(spinning') <= nthreads
    BY <2>1, NThreads, FS_Subset, FS_CardinalityType DEF nthreads
  <2>. QED  BY <1>5, <2>1, <2>2, NThreads
<1>7. FlushTypeOK'
  BY <1>2, <1>3, <1>4, <1>6 DEF FlushTypeOK
<1>8. Clocks'
  BY <1>3, <1>4 DEF Inv, Clocks, Flushing, Acking
<1>9. Spins'
  BY <1>3, <1>4, <1>5 DEF Inv, Spins, Acking
<1>. QED  BY <1>1, <1>2, <1>3, <1>7, <1>8, <1>9, QuietInv

-----------------------------------------------------------------------------
(* set_global_epoch and flush *)

\* set_global_epoch: the thread that moves globalepoch to the clock finds that
\* the last boundary is over for everybody.
LEMMA SetGlobalEpochInv == ASSUME Inv, NEW t \in Workers, SetGlobalEpoch(t) PROVE Inv'
<1>1. PICK to \in {"warn", "ack"} :
        Goto(t, "set", to) /\ (to = "warn" => e[t] > epoch)
  BY DEF SetGlobalEpoch
<1>2. /\ UNCHANGED <<influshWarning, waitingFlush, doneThreads, sems, ack_sem, flush_ack_sem, clock, e,
                     left, ops, spinning, history, flushes, acked, truncated>>
      /\ epoch' = IF e[t] > epoch THEN e[t] ELSE epoch
  BY DEF SetGlobalEpoch, atomics, sems, progress, history
<1>3. to \in PCs /\ FlushTypeOK
  BY DEF Inv, PCs, Boundary
<1>4. /\ place[t] = "set" /\ place'[t] = to /\ place' \in [Workers -> PCs]
      /\ \A u \in Workers : u # t => place'[u] = place[u]
      /\ NWaiting' = NWaiting
  BY <1>1, <1>3, Moves
<1>5. e[t] = clock /\ clock \in Nat /\ epoch \in Nat /\ epoch <= clock
      /\ (epoch' = epoch \/ epoch' = clock)
      /\ (to = "warn" => clock > epoch /\ epoch' = clock)
  BY <1>1, <1>2, <1>3, <1>4, FlushAssumption DEF Inv, Clocks, FlushTypeOK
<1>6. FlushTypeOK'
  BY <1>2, <1>3, <1>4, <1>5 DEF FlushTypeOK
<1>7. Clocks'
  BY <1>2, <1>4, <1>5 DEF Inv, Clocks, Flushing, Acking
<1>8. Spins'
  BY <1>2, <1>4 DEF Inv, Spins, Acking
<1>9. CASE to = "ack"
  <2>1. "set" \in Elsewhere /\ to \in Elsewhere
    BY <1>9 DEF Elsewhere, PCs, Boundary, Flushing, Acking
  <2>. QED  BY <1>1, <1>2, <1>6, <1>7, <1>8, <2>1, QuietInv
<1>10. CASE to = "warn"
  <2>1. \A u \in Workers : place[u] \notin Flushing \cup Acking
    BY <1>5, <1>10 DEF Inv, Clocks
  <2>2. OneFlusher'
    BY <1>4, <2>1 DEF OneFlusher
  <2>3. Mode'
    BY <1>2, <1>4, <1>10, <2>1 DEF Inv, Mode, Flushing, Acking
  <2>4. Counts'
    BY <1>2, <1>4, <1>10, <2>1 DEF Inv, Counts, Flushing
  <2>5. History'
    BY <1>2, <1>4, <1>10, <2>1 DEF Inv, History, Flushing, Acking
  <2>. QED  BY <1>6, <1>7, <1>8, <2>2, <2>3, <2>4, <2>5 DEF Inv
<1>. QED  BY <1>9, <1>10

\* The flush is announced.
LEMMA WarnInv == ASSUME Inv, NEW t \in Workers, Warn(t) PROVE Inv'
<1>1. Goto(t, "warn", "enter") /\ "enter" \in PCs /\ FlushTypeOK
  BY DEF Warn, PCs, Boundary, Inv
<1>2. /\ UNCHANGED <<waitingFlush, doneThreads, sems, ack_sem, flush_ack_sem, clock,
                     epoch, e, left, ops, spinning, history, flushes, acked,
                     truncated>>
      /\ influshWarning' = TRUE
  BY DEF Warn, sems, epochs, progress, history
<1>3. /\ place[t] = "warn" /\ place'[t] = "enter" /\ place' \in [Workers -> PCs]
      /\ \A u \in Workers : u # t => place'[u] = place[u]
      /\ NWaiting' = NWaiting
  BY <1>1, Moves
<1>4. FlushTypeOK'
  BY <1>1, <1>2, <1>3 DEF FlushTypeOK
<1>5. Clocks'
  BY <1>2, <1>3 DEF Inv, Clocks, Flushing, Acking
<1>6. OneFlusher'
  BY <1>3 DEF Inv, OneFlusher, Flushing
<1>7. Mode'
  BY <1>2, <1>3 DEF Inv, Mode, OneFlusher, Flushing, Acking
<1>8. Counts'
  BY <1>2, <1>3 DEF Inv, Counts, OneFlusher, Flushing
<1>9. History'
  BY <1>2, <1>3 DEF Inv, History
<1>10. Spins'
  BY <1>2, <1>3 DEF Inv, Spins, Acking
<1>. QED  BY <1>4, <1>5, <1>6, <1>7, <1>8, <1>9, <1>10 DEF Inv

\* Entering flush mode: nobody waits and both semaphores are down.
LEMMA EnterInv == ASSUME Inv, NEW t \in Workers, Enter(t) PROVE Inv'
<1>1. PICK to \in {"ack", "collect"} :
        Goto(t, "enter", to) /\ (to = "ack" => waitingFlush' = waitingFlush)
          /\ (to = "collect" => waitingFlush' = TRUE)
  <2>1. waitingFlush \in BOOLEAN
    BY DEF Inv, FlushTypeOK
  <2>2. CASE check_done
    <3>1. Goto(t, "enter", "ack") /\ waitingFlush' = waitingFlush
      BY <2>1, <2>2 DEF Enter
    <3>. QED  BY <3>1
  <2>3. CASE ~check_done
    <3>1. Goto(t, "enter", "collect") /\ waitingFlush' = TRUE
      BY <2>3 DEF Enter
    <3>. QED  BY <3>1
  <2>. QED  BY <2>2, <2>3
<1>2. /\ UNCHANGED <<influshWarning, doneThreads, ack_sem, flush_ack_sem, clock, epoch, e,
                     ops, spinning, flushes, acked, truncated>>
      /\ left' = [left EXCEPT ![t] = nthreads - 1]
  BY DEF Enter, sems, epochs, progress, history
<1>3. to \in PCs /\ FlushTypeOK
  BY DEF Inv, PCs, Boundary
<1>4. /\ place[t] = "enter" /\ place'[t] = to /\ place' \in [Workers -> PCs]
      /\ \A u \in Workers : u # t => place'[u] = place[u]
      /\ NWaiting' = NWaiting
  BY <1>1, <1>3, Moves
<1>5. /\ left' \in [Workers -> 0 .. nthreads - 1] /\ left'[t] = nthreads - 1
      /\ waitingFlush' \in BOOLEAN
  <2>1. waitingFlush' \in BOOLEAN
    BY <1>1, <1>3 DEF FlushTypeOK
  <2>. QED  BY <1>2, <1>3, <2>1, NThreads DEF FlushTypeOK
<1>6. /\ \A u \in Workers : place[u] \notin Acking
      /\ \A u \in Workers \ {t} : place[u] \notin Flushing
  BY <1>4 DEF Inv, Mode, OneFlusher, Flushing
<1>7. waitingFlush = FALSE /\ ack_sem = 0 /\ flush_ack_sem = 0 /\ NWaiting = 0
  <2>1. NWaiting = 0
    BY <1>6, WaitingCount DEF Acking
  <2>2. \A f \in Workers : place[f] \notin {"collect", "leave", "release"}
    BY <1>4, <1>6 DEF Flushing
  <2>. QED  BY <1>3, <2>1, <2>2 DEF Inv, Counts, Mode, FlushTypeOK
<1>8. FlushTypeOK'
  BY <1>2, <1>3, <1>4, <1>5 DEF FlushTypeOK
<1>9. Clocks'
  BY <1>2, <1>4 DEF Inv, Clocks, Flushing, Acking
<1>10. OneFlusher'
  BY <1>4, <1>6 DEF OneFlusher
<1>11. Mode'
  BY <1>1, <1>2, <1>4, <1>6, <1>7 DEF Mode, Flushing, Acking
<1>12. Counts'
  BY <1>2, <1>4, <1>5, <1>6, <1>7, NThreads DEF Counts, Flushing, Acking
<1>13. History'
  BY <1>2, <1>4, <1>6 DEF Inv, History, Flushing, Acking
<1>14. Spins'
  BY <1>2, <1>4 DEF Inv, Spins, Acking
<1>. QED  BY <1>8, <1>9, <1>10, <1>11, <1>12, <1>13, <1>14 DEF Inv

\* One acknowledgement is collected.
LEMMA CollectInv == ASSUME Inv, NEW t \in Workers, Collect(t) PROVE Inv'
<1>1. Goto(t, "collect", "collect") /\ "collect" \in PCs /\ FlushTypeOK
  BY DEF Collect, PCs, Boundary, Inv
<1>2. /\ UNCHANGED <<influshWarning, waitingFlush, doneThreads, flush_ack_sem, clock,
                     epoch, e, ops, spinning, history, flushes, acked, truncated>>
      /\ ack_sem' = ack_sem - 1 /\ left' = [left EXCEPT ![t] = @ - 1]
      /\ ack_sem > 0 /\ left[t] > 0
  BY DEF Collect, atomics, epochs, progress, history
<1>3. /\ place[t] = "collect" /\ place'[t] = "collect" /\ place' \in [Workers -> PCs]
      /\ \A u \in Workers : u # t => place'[u] = place[u]
      /\ NWaiting' = NWaiting
  BY <1>1, Moves
<1>4. /\ left' \in [Workers -> 0 .. nthreads - 1] /\ left'[t] = left[t] - 1
      /\ ack_sem' \in 0 .. nthreads - 1 /\ ack_sem \in Nat /\ left[t] \in Nat
  BY <1>1, <1>2, NThreads DEF FlushTypeOK
<1>5. FlushTypeOK'
  BY <1>1, <1>2, <1>3, <1>4 DEF FlushTypeOK
<1>6. Clocks'
  BY <1>2, <1>3 DEF Inv, Clocks, Flushing, Acking
<1>7. OneFlusher'
  BY <1>3 DEF Inv, OneFlusher, Flushing
<1>8. Mode'
  BY <1>2, <1>3 DEF Inv, Mode, OneFlusher, Flushing, Acking
<1>9. Counts'
  BY <1>2, <1>3, <1>4, NThreads, WaitingCount DEF Inv, Counts, OneFlusher, Flushing
<1>10. History'
  BY <1>2, <1>3 DEF Inv, History
<1>11. Spins'
  BY <1>2, <1>3 DEF Inv, Spins, Acking
<1>. QED  BY <1>5, <1>6, <1>7, <1>8, <1>9, <1>10, <1>11 DEF Inv

\* All the others wait: the caches are written back.
LEMMA FlushInv == ASSUME Inv, NEW t \in Workers, Flush(t) PROVE Inv'
<1>1. Goto(t, "collect", "leave") /\ "leave" \in PCs /\ FlushTypeOK
  BY DEF Flush, PCs, Boundary, Inv
<1>2. /\ UNCHANGED <<influshWarning, waitingFlush, doneThreads, sems, ack_sem,
                     flush_ack_sem, clock, epoch, e, left, ops, spinning, acked,
                     truncated>>
      /\ flushes' = flushes + 1 /\ left[t] = 0
  BY DEF Flush, atomics, sems, epochs, progress
<1>3. /\ place[t] = "collect" /\ place'[t] = "leave" /\ place' \in [Workers -> PCs]
      /\ \A u \in Workers : u # t => place'[u] = place[u]
      /\ NWaiting' = NWaiting
  BY <1>1, Moves
<1>4. ack_sem = 0 /\ flush_ack_sem = 0 /\ \A u \in Workers \ {t} : place[u] = "wait"
  <2>1. /\ ack_sem \in Nat /\ flush_ack_sem = 0
        /\ ack_sem + (nthreads - 1) = NWaiting
    BY <1>1, <1>2, <1>3, NThreads, WaitingCount DEF Inv, Counts, FlushTypeOK
  <2>2. NWaiting <= nthreads - 1
    BY <1>3, WaitingCount
  <2>3. ack_sem = 0 /\ NWaiting = nthreads - 1
    BY <2>1, <2>2, NThreads
  <2>. QED  BY <1>3, <2>1, <2>3, WaitingCount
<1>5. flushes \in Nat /\ \A u \in Workers : acked[u] \in Nat /\ acked[u] <= flushes
  BY <1>1 DEF Inv, History, FlushTypeOK
<1>6. FlushTypeOK'
  BY <1>1, <1>2, <1>3 DEF FlushTypeOK
<1>7. Clocks'
  BY <1>2, <1>3 DEF Inv, Clocks, Flushing, Acking
<1>8. OneFlusher'
  BY <1>3 DEF Inv, OneFlusher, Flushing
<1>9. Mode'
  BY <1>2, <1>3, <1>4 DEF Inv, Mode, OneFlusher, Flushing, Acking
<1>10. Counts'
  BY <1>2, <1>3, <1>4 DEF Counts
<1>11. History'
  BY <1>2, <1>3, <1>4, <1>5 DEF Inv, History
<1>12. Spins'
  BY <1>2, <1>3 DEF Inv, Spins, Acking
<1>. QED  BY <1>6, <1>7, <1>8, <1>9, <1>10, <1>11, <1>12 DEF Inv

\* Flush mode is left; as many waiters are to be released as there are.
LEMMA LeaveInv == ASSUME Inv, NEW t \in Workers, Leave(t) PROVE Inv'
<1>1. Goto(t, "leave", "release") /\ "release" \in PCs /\ FlushTypeOK
  BY DEF Leave, PCs, Boundary, Inv
<1>2. /\ UNCHANGED <<influshWarning, doneThreads, sems, ack_sem, flush_ack_sem, clock,
                     epoch, e, ops, spinning, history, flushes, acked, truncated>>
      /\ waitingFlush' = FALSE /\ left' = [left EXCEPT ![t] = nthreads - 1]
  BY DEF Leave, sems, epochs, progress, history
<1>3. /\ place[t] = "leave" /\ place'[t] = "release" /\ place' \in [Workers -> PCs]
      /\ \A u \in Workers : u # t => place'[u] = place[u]
      /\ NWaiting' = NWaiting
  BY <1>1, Moves
<1>4. left' \in [Workers -> 0 .. nthreads - 1] /\ left'[t] = nthreads - 1
  BY <1>1, <1>2, NThreads DEF FlushTypeOK
<1>5. /\ ack_sem = 0 /\ flush_ack_sem = 0 /\ NWaiting = nthreads - 1
      /\ \A u \in Workers \ {t} : place[u] = "wait"
  BY <1>3, WaitingCount DEF Inv, Counts
<1>6. FlushTypeOK'
  BY <1>1, <1>2, <1>3, <1>4 DEF FlushTypeOK
<1>7. Clocks'
  BY <1>2, <1>3 DEF Inv, Clocks, Flushing, Acking
<1>8. OneFlusher'
  BY <1>3 DEF Inv, OneFlusher, Flushing
<1>9. Mode'
  BY <1>2, <1>3, <1>5 DEF Inv, Mode, Flushing, Acking
<1>10. Counts'
  BY <1>2, <1>3, <1>4, <1>5, NThreads DEF Counts
<1>11. History'
  BY <1>2, <1>3 DEF Inv, History
<1>12. Spins'
  BY <1>2, <1>3 DEF Inv, Spins, Acking
<1>. QED  BY <1>6, <1>7, <1>8, <1>9, <1>10, <1>11, <1>12 DEF Inv

\* One waiter is released.
LEMMA ReleaseInv == ASSUME Inv, NEW t \in Workers, Release(t) PROVE Inv'
<1>1. Goto(t, "release", "release") /\ "release" \in PCs /\ FlushTypeOK
  BY DEF Release, PCs, Boundary, Inv
<1>2. /\ UNCHANGED <<influshWarning, waitingFlush, doneThreads, ack_sem, clock,
                     epoch, e, ops, spinning, history, flushes, acked, truncated>>
      /\ flush_ack_sem' = flush_ack_sem + 1 /\ left' = [left EXCEPT ![t] = @ - 1]
      /\ left[t] > 0
  BY DEF Release, atomics, epochs, progress, history
<1>3. /\ place[t] = "release" /\ place'[t] = "release" /\ place' \in [Workers -> PCs]
      /\ \A u \in Workers : u # t => place'[u] = place[u]
      /\ NWaiting' = NWaiting
  BY <1>1, Moves
<1>4. /\ left' \in [Workers -> 0 .. nthreads - 1] /\ left'[t] = left[t] - 1
      /\ flush_ack_sem \in Nat /\ left[t] \in Nat
  BY <1>1, <1>2, NThreads DEF FlushTypeOK
<1>5. NWaiting = left[t] + flush_ack_sem /\ NWaiting <= nthreads - 1
  BY <1>3, WaitingCount DEF Inv, Counts
<1>6. flush_ack_sem' \in 0 .. nthreads - 1
  BY <1>2, <1>4, <1>5, NThreads
<1>7. FlushTypeOK'
  BY <1>1, <1>2, <1>3, <1>4, <1>6 DEF FlushTypeOK
<1>8. Clocks'
  BY <1>2, <1>3 DEF Inv, Clocks, Flushing, Acking
<1>9. OneFlusher'
  BY <1>3 DEF Inv, OneFlusher, Flushing
<1>10. Mode'
  BY <1>2, <1>3 DEF Inv, Mode, OneFlusher, Flushing, Acking
<1>11. Counts'
  BY <1>2, <1>3, <1>4, <1>5 DEF Inv, Counts, OneFlusher, Flushing
<1>12. History'
  BY <1>2, <1>3 DEF Inv, History
<1>13. Spins'
  BY <1>2, <1>3 DEF Inv, Spins, Acking
<1>. QED  BY <1>7, <1>8, <1>9, <1>10, <1>11, <1>12, <1>13 DEF Inv

\* The flushing thread truncates its log when every waiter is released.
LEMMA CheckpointInv == ASSUME Inv, NEW t \in Workers, Checkpoint(t) PROVE Inv'
<1>1. Goto(t, "release", "clear") /\ "clear" \in PCs /\ FlushTypeOK
  BY DEF Checkpoint, PCs, Boundary, Inv
<1>2. /\ UNCHANGED <<influshWarning, waitingFlush, doneThreads, sems, ack_sem,
                     flush_ack_sem, clock, epoch, e, left, ops, spinning,
                     flushes, acked>>
      /\ truncated' = [truncated EXCEPT ![t] = flushes] /\ left[t] = 0
  BY DEF Checkpoint, atomics, sems, epochs, progress
<1>3. /\ place[t] = "release" /\ place'[t] = "clear" /\ place' \in [Workers -> PCs]
      /\ \A u \in Workers : u # t => place'[u] = place[u]
      /\ NWaiting' = NWaiting
  BY <1>1, Moves
<1>4. /\ truncated' \in [Workers -> Nat] /\ truncated'[t] = flushes
      /\ \A u \in Workers : u # t => truncated'[u] = truncated[u]
  BY <1>1, <1>2 DEF FlushTypeOK
<1>5. NWaiting = flush_ack_sem /\ ack_sem = 0
  BY <1>1, <1>2, <1>3, WaitingCount DEF Inv, Counts, FlushTypeOK
<1>6. FlushTypeOK'
  BY <1>1, <1>2, <1>3, <1>4 DEF FlushTypeOK
<1>7. Clocks'
  BY <1>2, <1>3 DEF Inv, Clocks, Flushing, Acking
<1>8. OneFlusher'
  BY <1>3 DEF Inv, OneFlusher, Flushing
<1>9. Mode'
  BY <1>2, <1>3 DEF Inv, Mode, OneFlusher, Flushing, Acking
<1>10. Counts'
  BY <1>2, <1>3, <1>5 DEF Inv, Counts, OneFlusher, Flushing
<1>11. History'
  BY <1>2, <1>3, <1>4 DEF Inv, History
<1>12. Spins'
  BY <1>2, <1>3 DEF Inv, Spins, Acking
<1>. QED  BY <1>6, <1>7, <1>8, <1>9, <1>10, <1>11, <1>12 DEF Inv

\* The warning is withdrawn.
LEMMA ClearInv == ASSUME Inv, NEW t \in Workers, Clear(t) PROVE Inv'
<1>1. Goto(t, "clear", "ack") /\ "ack" \in PCs /\ FlushTypeOK
  BY DEF Clear, PCs, Boundary, Inv
<1>2. /\ UNCHANGED <<waitingFlush, doneThreads, sems, ack_sem, flush_ack_sem, clock,
                     epoch, e, left, ops, spinning, history, flushes, acked,
                     truncated>>
      /\ influshWarning' = FALSE
  BY DEF Clear, sems, epochs, progress, history
<1>3. /\ place[t] = "clear" /\ place'[t] = "ack" /\ place' \in [Workers -> PCs]
      /\ \A u \in Workers : u # t => place'[u] = place[u]
      /\ NWaiting' = NWaiting
  BY <1>1, Moves
<1>4. FlushTypeOK'
  BY <1>1, <1>2, <1>3 DEF FlushTypeOK
<1>5. Clocks'
  BY <1>2, <1>3 DEF Inv, Clocks, Flushing, Acking
<1>6. OneFlusher'
  BY <1>3 DEF Inv, OneFlusher, Flushing
<1>7. Mode'
  BY <1>2, <1>3 DEF Inv, Mode, OneFlusher, Flushing, Acking
<1>8. Counts'
  BY <1>2, <1>3 DEF Inv, Counts, OneFlusher, Flushing
<1>9. History'
  BY <1>2, <1>3 DEF Inv, History
<1>10. Spins'
  BY <1>2, <1>3 DEF Inv, Spins, Acking
<1>. QED  BY <1>4, <1>5, <1>6, <1>7, <1>8, <1>9, <1>10 DEF Inv

-----------------------------------------------------------------------------
(* ack_flush *)

\* Where ack_flush returns to is outside the boundary.
LEMMA BackElsewhere ==
  ASSUME NEW t \in Workers
  PROVE  Back(t) \in {"ack", "op"} /\ (t \in spinning => Back(t) = "ack")
  BY DEF Back

\* ack_flush's tests of the warning and of the end: nothing is acknowledged.
LEMMA AckTestsInv ==
  ASSUME Inv, NEW t \in Workers, NEW from \in {"ack", "ackdone", "ackwaiting"},
         NEW to \in {"ack", "op", "ackdone", "ackwaiting", "end"}, Goto(t, from, to),
         t \in spinning => to # "op",
         UNCHANGED <<atomics, sems, epochs, left, progress, history>>
  PROVE  Inv'
<1>1. from \in Elsewhere /\ to \in Elsewhere /\ to \in PCs /\ FlushTypeOK
  BY DEF Elsewhere, PCs, Boundary, Flushing, Acking, Inv
<1>2. UNCHANGED <<influshWarning, waitingFlush, doneThreads, sems, ack_sem, flush_ack_sem, clock,
                  epoch, e, left, ops, spinning, history, flushes, acked, truncated>>
  BY DEF atomics, sems, epochs, progress, history
<1>3. /\ place[t] = from /\ place'[t] = to /\ place' \in [Workers -> PCs]
      /\ \A u \in Workers : u # t => place'[u] = place[u]
  BY <1>1, Moves
<1>4. FlushTypeOK'
  BY <1>1, <1>2, <1>3 DEF FlushTypeOK
<1>5. Clocks'
  BY <1>2, <1>3 DEF Inv, Clocks, Flushing, Acking
<1>6. Spins'
  BY <1>2, <1>3 DEF Inv, Spins, Acking
<1>. QED  BY <1>1, <1>2, <1>4, <1>5, <1>6, QuietInv

\* No flush is announced: ack_flush returns.
LEMMA AckWarningInv == ASSUME Inv, NEW t \in Workers, AckWarning(t) PROVE Inv'
<1>1. PICK to \in {"ack", "op", "ackdone"} : Goto(t, "ack", to) /\ (t \in spinning => to # "op")
  BY BackElsewhere DEF AckWarning
<1>. QED  BY <1>1, AckTestsInv DEF AckWarning

\* All threads are done: the loop after thread_done ends.
LEMMA AckDoneInv == ASSUME Inv, NEW t \in Workers, AckDone(t) PROVE Inv'
<1>1. PICK to \in {"ackwaiting", "op", "end"} :
        Goto(t, "ackdone", to) /\ (t \in spinning => to # "op")
  BY DEF AckDone
<1>. QED  BY <1>1, AckTestsInv DEF AckDone

\* ack_flush finds flush mode: a thread collects, for none is still leaving.
LEMMA AckWaitingInv == ASSUME Inv, NEW t \in Workers, AckWaiting(t) PROVE Inv'
<1>1. CASE ~waitingFlush
  <2>1. PICK to \in {"ack", "op"} : Goto(t, "ackwaiting", to) /\ (t \in spinning => to # "op")
    BY <1>1, BackElsewhere DEF AckWaiting
  <2>. QED  BY <2>1, AckTestsInv DEF AckWaiting
<1>2. CASE waitingFlush
  <2>1. Goto(t, "ackwaiting", "post") /\ "post" \in PCs /\ FlushTypeOK
    BY <1>2 DEF AckWaiting, Inv, PCs, Boundary
  <2>2. UNCHANGED <<influshWarning, waitingFlush, doneThreads, ack_sem, flush_ack_sem, clock,
                    epoch, e, left, ops, spinning, flushes, acked, truncated>>
    BY DEF AckWaiting, atomics, sems, epochs, progress, history
  <2>3. /\ place[t] = "ackwaiting" /\ place'[t] = "post" /\ place' \in [Workers -> PCs]
        /\ \A u \in Workers : u # t => place'[u] = place[u]
        /\ NWaiting' = NWaiting
    BY <2>1, Moves
  <2>4. PICK f \in Workers : place[f] = "collect"
    <3>1. PICK f \in Workers : place[f] \in {"collect", "leave"}
      BY <1>2 DEF Inv, Mode
    <3>2. place[f] # "leave"
      BY <2>3 DEF Inv, Counts
    <3>. QED  BY <3>1, <3>2
  <2>5. epoch = clock
    BY <2>4 DEF Inv, Clocks, Flushing
  <2>6. FlushTypeOK'
    BY <2>1, <2>2, <2>3 DEF FlushTypeOK
  <2>7. Clocks'
    BY <2>2, <2>3, <2>5 DEF Inv, Clocks, Flushing, Acking
  <2>8. OneFlusher'
    BY <2>3 DEF Inv, OneFlusher, Flushing
  <2>9. Mode'
    BY <2>2, <2>3, <2>4 DEF Inv, Mode, OneFlusher, Flushing, Acking
  <2>10. Counts'
    BY <2>2, <2>3 DEF Inv, Counts
  <2>11. History'
    BY <2>2, <2>3 DEF Inv, History
  <2>12. Spins'
    BY <2>2, <2>3 DEF Inv, Spins, Acking
  <2>. QED  BY <2>6, <2>7, <2>8, <2>9, <2>10, <2>11, <2>12 DEF Inv
<1>. QED  BY <1>1, <1>2

\* The acknowledgement is given, and the thread waits.
LEMMA AckPostInv == ASSUME Inv, NEW t \in Workers, AckPost(t) PROVE Inv'
<1>1. Goto(t, "post", "wait") /\ "wait" \in PCs /\ FlushTypeOK
  BY DEF AckPost, PCs, Boundary, Inv
<1>2. /\ UNCHANGED <<influshWarning, waitingFlush, doneThreads, flush_ack_sem, clock,
                     epoch, e, left, ops, spinning, flushes, truncated>>
      /\ ack_sem' = ack_sem + 1 /\ acked' = [acked EXCEPT ![t] = flushes]
  BY DEF AckPost, atomics, epochs, progress
<1>3. /\ place[t] = "post" /\ place'[t] = "wait" /\ place' \in [Workers -> PCs]
      /\ \A u \in Workers : u # t => place'[u] = place[u]
      /\ NWaiting' = NWaiting + 1
  BY <1>1, Moves
<1>4. /\ acked' \in [Workers -> Nat] /\ acked'[t] = flushes /\ flushes \in Nat
      /\ \A u \in Workers : u # t => acked'[u] = acked[u]
  BY <1>1, <1>2 DEF FlushTypeOK
<1>5. \E f \in Workers : place[f] = "collect" /\ f # t
  BY <1>3 DEF Inv, Mode
<1>6. ack_sem' \in 0 .. nthreads - 1
  <2>1. PICK f \in Workers : place[f] = "collect" /\ f # t
    BY <1>5
  <2>2. NWaiting \in Nat /\ NWaiting <= nthreads - 2
    <3>1. NWaiting <= nthreads - 1 /\ NWaiting # nthreads - 1 /\ NWaiting \in Nat
      BY <1>3, <2>1, WaitingCount
    <3>. QED  BY <3>1, NThreads
  <2>3. /\ ack_sem + (nthreads - 1) = NWaiting + left[f]
        /\ ack_sem \in Nat /\ left[f] \in 0 .. nthreads - 1
    BY <1>1, <2>1, NThreads DEF Inv, Counts, FlushTypeOK
  <2>. QED  BY <1>2, <2>2, <2>3, NThreads
<1>7. FlushTypeOK'
  BY <1>1, <1>2, <1>3, <1>4, <1>6 DEF FlushTypeOK
<1>8. Clocks'
  BY <1>2, <1>3 DEF Inv, Clocks, Flushing, Acking
<1>9. OneFlusher'
  BY <1>3 DEF Inv, OneFlusher, Flushing
<1>10. Mode'
  BY <1>2, <1>3, <1>5 DEF Inv, Mode, OneFlusher, Flushing, Acking
<1>11. Counts'
  BY <1>1, <1>2, <1>3, <1>5, WaitingCount, NThreads DEF Inv, Counts, OneFlusher, Flushing, FlushTypeOK
<1>12. History'
  BY <1>2, <1>3, <1>4, <1>5 DEF Inv, History
<1>13. Spins'
  BY <1>2, <1>3 DEF Inv, Spins, Acking
<1>. QED  BY <1>7, <1>8, <1>9, <1>10, <1>11, <1>12, <1>13 DEF Inv

\* A waiter is released: its flush has happened.
LEMMA AckWaitInv == ASSUME Inv, NEW t \in Workers, AckWait(t) PROVE Inv'
<1>1. Goto(t, "wait", "truncate") /\ "truncate" \in PCs /\ FlushTypeOK
  BY DEF AckWait, PCs, Boundary, Inv
<1>2. /\ UNCHANGED <<influshWarning, waitingFlush, doneThreads, ack_sem, clock,
                     epoch, e, left, ops, spinning, history, flushes, acked,
                     truncated>>
      /\ flush_ack_sem' = flush_ack_sem - 1 /\ flush_ack_sem > 0
  BY DEF AckWait, atomics, epochs, progress, history
<1>3. /\ place[t] = "wait" /\ place'[t] = "truncate" /\ place' \in [Workers -> PCs]
      /\ \A u \in Workers : u # t => place'[u] = place[u]
      /\ NWaiting' = NWaiting - 1
  BY <1>1, Moves
<1>4. flush_ack_sem' \in 0 .. nthreads - 1 /\ flush_ack_sem \in Nat /\ ack_sem \in Nat
  BY <1>1, <1>2, NThreads DEF FlushTypeOK
<1>5. \A f \in Workers : place[f] \notin {"collect", "leave"}
  BY <1>2 DEF Inv, Counts
<1>6. FlushTypeOK'
  BY <1>1, <1>2, <1>3, <1>4 DEF FlushTypeOK
<1>7. Clocks'
  BY <1>2, <1>3 DEF Inv, Clocks, Flushing, Acking
<1>8. OneFlusher'
  BY <1>3 DEF Inv, OneFlusher, Flushing
<1>9. Mode'
  BY <1>2, <1>3 DEF Inv, Mode, OneFlusher, Flushing, Acking
<1>10. Counts'
  BY <1>1, <1>2, <1>3, <1>4, <1>5, WaitingCount DEF Inv, Counts, FlushTypeOK
<1>11. History'
  BY <1>2, <1>3, <1>5 DEF Inv, History
<1>12. Spins'
  BY <1>2, <1>3 DEF Inv, Spins, Acking
<1>. QED  BY <1>6, <1>7, <1>8, <1>9, <1>10, <1>11, <1>12 DEF Inv

\* node_logger->checkpoint() of a released waiter, before it goes on.
LEMMA AckCheckpointInv == ASSUME Inv, NEW t \in Workers, AckCheckpoint(t) PROVE Inv'
<1>1. PICK to \in {"ack", "op"} : Goto(t, "truncate", to) /\ (t \in spinning => to # "op")
  BY BackElsewhere DEF AckCheckpoint
<1>2. /\ UNCHANGED <<influshWarning, waitingFlush, doneThreads, ack_sem, flush_ack_sem, clock,
                     epoch, e, left, ops, spinning, flushes, acked>>
      /\ truncated' = [truncated EXCEPT ![t] = flushes]
  BY DEF AckCheckpoint, atomics, sems, epochs, progress
<1>3. to \in PCs /\ FlushTypeOK
  BY DEF Inv, PCs, Boundary
<1>4. /\ place[t] = "truncate" /\ place'[t] = to /\ place' \in [Workers -> PCs]
      /\ \A u \in Workers : u # t => place'[u] = place[u]
      /\ NWaiting' = NWaiting
  BY <1>1, <1>3, Moves
<1>5. /\ truncated' \in [Workers -> Nat] /\ truncated'[t] = flushes
      /\ \A u \in Workers : u # t => truncated'[u] = truncated[u]
  BY <1>2, <1>3 DEF FlushTypeOK
<1>6. FlushTypeOK'
  BY <1>2, <1>3, <1>4, <1>5 DEF FlushTypeOK
<1>7. Clocks'
  BY <1>2, <1>4 DEF Inv, Clocks, Flushing, Acking
<1>8. OneFlusher'
  BY <1>4 DEF Inv, OneFlusher, Flushing
<1>9. Mode'
  BY <1>2, <1>4 DEF Inv, Mode, Flushing, Acking
<1>10. Counts'
  BY <1>2, <1>4 DEF Inv, Counts
<1>11. History'
  BY <1>2, <1>4, <1>5 DEF Inv, History
<1>12. Spins'
  BY <1>1, <1>2, <1>4 DEF Inv, Spins, Acking
<1>. QED  BY <1>6, <1>7, <1>8, <1>9, <1>10, <1>11, <1>12 DEF Inv

-----------------------------------------------------------------------------
(* The clock, and the theorems *)

\* The clock moves when no boundary is under way.
LEMMA TickInv == ASSUME Inv, LongEpochs, Tick PROVE Inv'
<1>1. /\ UNCHANGED <<influshWarning, waitingFlush, doneThreads, ack_sem, flush_ack_sem,
                     epoch, place, e, left, ops, spinning, flushes, acked, truncated>>
      /\ clock' = clock + 1 /\ clock < MaxClock /\ FlushTypeOK
  BY DEF Tick, atomics, sems, progress, history, Inv
<1>2. /\ clock' \in 1 .. MaxClock /\ epoch \in 1 .. clock' /\ clock \in Nat
      /\ \A t \in Workers : e[t] \in Nat
  BY <1>1, FlushAssumption DEF FlushTypeOK
<1>3. FlushTypeOK'
  BY <1>1, <1>2 DEF FlushTypeOK
<1>4. Clocks'
  BY <1>1, <1>2 DEF Inv, Clocks, LongEpochs, Boundary, Flushing, Acking
<1>5. OneFlusher' /\ Spins' /\ History'
  BY <1>1 DEF Inv, OneFlusher, Spins, History
<1>6. NWaiting' = NWaiting
  BY <1>1 DEF NWaiting, Waiting
<1>7. Mode'
  BY <1>1 DEF Inv, Mode
<1>8. Counts'
  BY <1>1, <1>6 DEF Inv, Counts
<1>. QED  BY <1>3, <1>4, <1>5, <1>7, <1>8 DEF Inv

\* Every step keeps the invariant.
LEMMA NextInv == ASSUME Inv, [AssumedNext]_flushVars PROVE Inv'
<1>1. CASE UNCHANGED flushVars
  <2>1. NWaiting' = NWaiting
    BY <1>1 DEF NWaiting, Waiting, flushVars
  <2>2. FlushTypeOK' /\ Clocks' /\ OneFlusher'
    BY <1>1 DEF flushVars, Inv, FlushTypeOK, Clocks, OneFlusher
  <2>3. Mode' /\ History' /\ Spins'
    BY <1>1 DEF flushVars, Inv, Mode, History, Spins
  <2>4. Counts'
    BY <1>1, <2>1 DEF flushVars, Inv, Counts
  <2>. QED  BY <2>2, <2>3, <2>4 DEF Inv
<1>2. ASSUME NEW t \in Workers, Step(t) PROVE Inv'
  <2>1. CASE Operate(t)  BY <2>1, OperateInv
  <2>2. CASE ReadClock(t)  BY <2>2, ReadClockInv
  <2>3. CASE Finish(t)  BY <2>3, FinishInv
  <2>4. CASE Count(t)  BY <2>4, CountInv
  <2>5. CASE SetGlobalEpoch(t)  BY <2>5, SetGlobalEpochInv
  <2>6. CASE Warn(t)  BY <2>6, WarnInv
  <2>7. CASE Enter(t)  BY <2>7, EnterInv
  <2>8. CASE Collect(t)  BY <2>8, CollectInv
  <2>9. CASE Flush(t)  BY <2>9, FlushInv
  <2>10. CASE Leave(t)  BY <2>10, LeaveInv
  <2>11. CASE Release(t)  BY <2>11, ReleaseInv
  <2>12. CASE Checkpoint(t)  BY <2>12, CheckpointInv
  <2>13. CASE Clear(t)  BY <2>13, ClearInv
  <2>14. CASE AckWarning(t)  BY <2>14, AckWarningInv
  <2>15. CASE AckDone(t)  BY <2>15, AckDoneInv
  <2>16. CASE AckWaiting(t)  BY <2>16, AckWaitingInv
  <2>17. CASE AckPost(t)  BY <2>17, AckPostInv
  <2>18. CASE AckWait(t)  BY <2>18, AckWaitInv
  <2>19. CASE AckCheckpoint(t)  BY <2>19, AckCheckpointInv
  <2>. QED
    BY <1>2, <2>1, <2>2, <2>3, <2>4, <2>5, <2>6, <2>7, <2>8, <2>9, <2>10, <2>11, <2>12, <2>13,
       <2>14, <2>15, <2>16, <2>17, <2>18, <2>19 DEF Step
<1>3. CASE LongEpochs /\ Tick  BY <1>3, TickInv
<1>4. CASE Ended  BY <1>1, <1>4 DEF Ended
<1>. QED  BY <1>1, <1>2, <1>3, <1>4 DEF AssumedNext

\* What the semaphores say when the last acknowledgement has been collected.
LEMMA InvQuiescent == ASSUME Inv PROVE Quiescent
<1>1. SUFFICES ASSUME NEW t \in Workers, place[t] = "collect", left[t] = 0
               PROVE  \A u \in Workers \ {t} : place[u] = "wait"
  BY DEF Quiescent
<1>2. ack_sem \in Nat /\ ack_sem + (nthreads - 1) = NWaiting
  BY <1>1, NThreads, WaitingCount DEF Inv, Counts, FlushTypeOK
<1>3. NWaiting <= nthreads - 1
  BY <1>1, WaitingCount
<1>4. NWaiting = nthreads - 1
  BY <1>2, <1>3, NThreads
<1>. QED  BY <1>1, <1>4, WaitingCount

\* GlobalFlush's atomics, semaphores and loops keep their types; the
\* semaphores never exceed the number of other threads.
THEOREM FlushTypeCorrect == AssumedSpec => []FlushTypeOK
<1>1. Init => Inv  BY InitInv
<1>2. Inv /\ [AssumedNext]_flushVars => Inv'  BY NextInv
<1>3. Inv => FlushTypeOK  BY DEF Inv
<1>. QED  BY <1>1, <1>2, <1>3, PTL DEF AssumedSpec

\* When flush() writes the caches back every other thread is between its
\* acknowledgement and its release.
THEOREM FlushQuiescent == AssumedSpec => []Quiescent
<1>1. Init => Inv  BY InitInv
<1>2. Inv /\ [AssumedNext]_flushVars => Inv'  BY NextInv
<1>3. Inv => Quiescent  BY InvQuiescent
<1>. QED  BY <1>1, <1>2, <1>3, PTL DEF AssumedSpec

\* A thread leaves ack_flush's wait only when a flush has happened since it
\* acknowledged: no release is left over from an earlier boundary.
THEOREM FlushWaitsForFlush == AssumedSpec => []WaitsForFlush
<1>1. Init => Inv  BY InitInv
<1>2. Inv /\ [AssumedNext]_flushVars => Inv'  BY NextInv
<1>3. Inv => WaitsForFlush  BY DEF Inv, History, WaitsForFlush
<1>. QED  BY <1>1, <1>2, <1>3, PTL DEF AssumedSpec

\* No thread operates on the tree with a node log from before the last flush.
THEOREM FlushLogIsFresh == AssumedSpec => []LogIsFresh
<1>1. Init => Inv  BY InitInv
<1>2. Inv /\ [AssumedNext]_flushVars => Inv'  BY NextInv
<1>3. Inv => LogIsFresh  BY DEF Inv, History, LogIsFresh
<1>. QED  BY <1>1, <1>2, <1>3, PTL DEF AssumedSpec
=============================================================================
