---------------------------- MODULE GlobalFlush ----------------------------
(***************************************************************************)
(* The epoch boundary while the threads keep working (incll_gf.hh, and its *)
(* callers: set_global_epoch in mttest.cc, kvtest_ycsb in kvtest.hh).      *)
(*                                                                         *)
(* The clock decides the epoch.  A thread that sees it move sets           *)
(* globalepoch and, unless a flush is announced (influshWarning), calls    *)
(* flush(): it announces the flush, waits for the other threads to         *)
(* acknowledge (ack_sem), writes the whole cache back, and lets them go    *)
(* (flush_ack_sem).  The others call ack_flush() after every operation.    *)
(* Each thread truncates its own node log (checkpoint) once the flush has  *)
(* happened.  A thread that is out of work says so (thread_done) and keeps *)
(* acknowledging until all are.                                            *)
(*                                                                         *)
(* Every load or store of an atomic and every semaphore operation is a     *)
(* step.  What an operation does to the tree, and the RCU part of          *)
(* rcu_quiesce, are left out; the critical section of set_global_epoch is  *)
(* one step.                                                               *)
(***************************************************************************)
EXTENDS Integers, FiniteSets

CONSTANTS Workers,  \* the worker threads
          MaxClock, \* bound: the last epoch the clock reaches
          MaxOps    \* nops1: operations of each thread

ASSUME FlushAssumption ==
  /\ IsFiniteSet(Workers) /\ Workers # {}
  /\ MaxClock \in Nat \ {0} /\ MaxOps \in Nat

VARIABLES
  influshWarning, waitingFlush, doneThreads, \* GlobalFlush's atomics
  ack_sem, flush_ack_sem,                    \* and its semaphores
  clock,        \* timestamp() >> GL_FREQ
  epoch,        \* globalepoch
  place,        \* where each thread is
  e,            \* set_global_epoch's argument
  left,         \* iterations left of flush's loops over the other threads
  ops,          \* operations the thread has still to do
  spinning,     \* threads in the loop after thread_done
  flushes,      \* history: flushes so far
  acked,        \* history: flushes when the thread last acknowledged
  truncated     \* history: flushes when it last truncated its node log

atomics == <<influshWarning, waitingFlush, doneThreads>>
sems == <<ack_sem, flush_ack_sem>>
epochs == <<clock, epoch, e>>
progress == <<ops, spinning>>
history == <<flushes, acked, truncated>>
flushVars == <<influshWarning, waitingFlush, doneThreads, ack_sem, flush_ack_sem, clock,
               epoch, place, e, left, ops, spinning, flushes, acked, truncated>>

nthreads == Cardinality(Workers)
check_done == doneThreads = nthreads

\* t goes from one place to another.
Goto(t, from, to) == place[t] = from /\ place' = [place EXCEPT ![t] = to]

\* The threads start, past the barrier, with rcu_quiesce.
Init ==
  /\ influshWarning = FALSE /\ waitingFlush = FALSE /\ doneThreads = 0
  /\ ack_sem = 0 /\ flush_ack_sem = 0
  /\ clock = 1 /\ epoch = 1
  /\ place = [t \in Workers |-> "quiesce"]
  /\ e = [t \in Workers |-> 0]
  /\ left = [t \in Workers |-> 0]
  /\ ops = [t \in Workers |-> MaxOps]
  /\ spinning = {}
  /\ flushes = 0
  /\ acked = [t \in Workers |-> 0]
  /\ truncated = [t \in Workers |-> 0]

-----------------------------------------------------------------------------
(* kvtest_ycsb *)

\* One operation on the tree; every 64th is followed by rcu_quiesce.
Operate(t) ==
  /\ ops[t] > 0
  /\ \E next \in {"quiesce", "ack"} : Goto(t, "op", next)
  /\ ops' = [ops EXCEPT ![t] = @ - 1]
  /\ UNCHANGED <<atomics, sems, epochs, left, spinning, history>>

\* rcu_quiesce reads the clock.
ReadClock(t) ==
  /\ Goto(t, "quiesce", IF clock # epoch THEN "set" ELSE "ack")
  /\ e' = [e EXCEPT ![t] = clock]
  /\ UNCHANGED <<atomics, sems, clock, epoch, left, progress, history>>

\* Fault: thread_done does not raise the warning.
FinishQuietly(t) ==
  /\ ops[t] = 0
  /\ Goto(t, "op", "count")
  /\ UNCHANGED <<atomics, sems, epochs, left, progress, history>>

\* thread_done: the warning first, then the count.
Finish(t) ==
  /\ ops[t] = 0
  /\ Goto(t, "op", "count")
  /\ influshWarning' = TRUE
  /\ UNCHANGED <<waitingFlush, doneThreads, sems, epochs, left, progress, history>>

\* doneThreads.fetch_add(1)
Count(t) ==
  /\ Goto(t, "count", "ack")
  /\ doneThreads' = doneThreads + 1
  /\ spinning' = spinning \cup {t}
  /\ UNCHANGED <<influshWarning, waitingFlush, sems, epochs, left, ops, history>>

-----------------------------------------------------------------------------
(* set_global_epoch *)

\* Under global_epoch_lock: only a later epoch counts, and only the thread
\* that finds no flush announced will flush.
SetGlobalEpoch(t) ==
  /\ Goto(t, "set", IF e[t] > epoch /\ ~influshWarning THEN "warn" ELSE "ack")
  /\ epoch' = IF e[t] > epoch THEN e[t] ELSE epoch
  /\ UNCHANGED <<atomics, sems, clock, e, left, progress, history>>

-----------------------------------------------------------------------------
(* flush *)

\* Announcing the flush.
Warn(t) ==
  /\ Goto(t, "warn", "enter")
  /\ influshWarning' = TRUE
  /\ UNCHANGED <<waitingFlush, doneThreads, sems, epochs, left, progress, history>>

\* Fault: one acknowledgement too few is waited for.
EnterEarly(t) ==
  /\ Goto(t, "enter", IF check_done THEN "ack" ELSE "collect")
  /\ waitingFlush' = (waitingFlush \/ ~check_done)
  /\ left' = [left EXCEPT ![t] = nthreads - 2]
  /\ UNCHANGED <<influshWarning, doneThreads, sems, epochs, progress, history>>

\* check_done, and entering flush mode.
Enter(t) ==
  /\ Goto(t, "enter", IF check_done THEN "ack" ELSE "collect")
  /\ waitingFlush' = (waitingFlush \/ ~check_done)
  /\ left' = [left EXCEPT ![t] = nthreads - 1]
  /\ UNCHANGED <<influshWarning, doneThreads, sems, epochs, progress, history>>

\* sem_wait(&ack_sem), once for each other thread.
Collect(t) ==
  /\ left[t] > 0 /\ ack_sem > 0
  /\ Goto(t, "collect", "collect")
  /\ ack_sem' = ack_sem - 1
  /\ left' = [left EXCEPT ![t] = @ - 1]
  /\ UNCHANGED <<atomics, flush_ack_sem, epochs, progress, history>>

\* global_flush: the driver writes the caches back.
Flush(t) ==
  /\ left[t] = 0
  /\ Goto(t, "collect", "leave")
  /\ flushes' = flushes + 1
  /\ UNCHANGED <<atomics, sems, epochs, left, progress, acked, truncated>>

\* Fault: flush mode is never left.
LeaveWaiting(t) ==
  /\ Goto(t, "leave", "release")
  /\ left' = [left EXCEPT ![t] = nthreads - 1]
  /\ UNCHANGED <<atomics, sems, epochs, progress, history>>

\* Fault: the flushing thread counts itself among those to release.
LeaveAll(t) ==
  /\ Goto(t, "leave", "release")
  /\ waitingFlush' = FALSE
  /\ left' = [left EXCEPT ![t] = nthreads]
  /\ UNCHANGED <<influshWarning, doneThreads, sems, epochs, progress, history>>

\* Leaving flush mode.
Leave(t) ==
  /\ Goto(t, "leave", "release")
  /\ waitingFlush' = FALSE
  /\ left' = [left EXCEPT ![t] = nthreads - 1]
  /\ UNCHANGED <<influshWarning, doneThreads, sems, epochs, progress, history>>

\* sem_post(&flush_ack_sem), once for each other thread.
Release(t) ==
  /\ left[t] > 0
  /\ Goto(t, "release", "release")
  /\ flush_ack_sem' = flush_ack_sem + 1
  /\ left' = [left EXCEPT ![t] = @ - 1]
  /\ UNCHANGED <<atomics, ack_sem, epochs, progress, history>>

\* Fault: the flushing thread keeps its old log records.
CheckpointNothing(t) ==
  /\ left[t] = 0
  /\ Goto(t, "release", "clear")
  /\ UNCHANGED <<atomics, sems, epochs, left, progress, history>>

\* node_logger->checkpoint(), then the warning is withdrawn.
Checkpoint(t) ==
  /\ left[t] = 0
  /\ Goto(t, "release", "clear")
  /\ truncated' = [truncated EXCEPT ![t] = flushes]
  /\ UNCHANGED <<atomics, sems, epochs, left, progress, flushes, acked>>

\* influshWarning.store(false)
Clear(t) ==
  /\ Goto(t, "clear", "ack")
  /\ influshWarning' = FALSE
  /\ UNCHANGED <<waitingFlush, doneThreads, sems, epochs, left, progress, history>>

-----------------------------------------------------------------------------
(* ack_flush *)

\* Where ack_flush's caller goes when it returns false; the result is only
\* looked at in the loop after thread_done.
Back(t) == IF t \in spinning THEN "ack" ELSE "op"

\* Neither announced nor over: nothing to do.
AckWarning(t) ==
  /\ Goto(t, "ack", IF influshWarning THEN "ackdone" ELSE Back(t))
  /\ UNCHANGED <<atomics, sems, epochs, left, progress, history>>

AckDone(t) ==
  /\ Goto(t, "ackdone", IF ~check_done THEN "ackwaiting"
                        ELSE IF t \in spinning THEN "end" ELSE "op")
  /\ UNCHANGED <<atomics, sems, epochs, left, progress, history>>

AckWaiting(t) ==
  /\ Goto(t, "ackwaiting", IF waitingFlush THEN "post" ELSE Back(t))
  /\ UNCHANGED <<atomics, sems, epochs, left, progress, history>>

\* sem_post(&ack_sem)
AckPost(t) ==
  /\ Goto(t, "post", "wait")
  /\ ack_sem' = ack_sem + 1
  /\ acked' = [acked EXCEPT ![t] = flushes]
  /\ UNCHANGED <<atomics, flush_ack_sem, epochs, left, progress, flushes, truncated>>

\* Fault: sem_trywait, its result ignored.
AckTryWait(t) ==
  /\ Goto(t, "wait", "truncate")
  /\ flush_ack_sem' = IF flush_ack_sem > 0 THEN flush_ack_sem - 1 ELSE 0
  /\ UNCHANGED <<atomics, ack_sem, epochs, left, progress, history>>

\* sem_wait(&flush_ack_sem)
AckWait(t) ==
  /\ flush_ack_sem > 0
  /\ Goto(t, "wait", "truncate")
  /\ flush_ack_sem' = flush_ack_sem - 1
  /\ UNCHANGED <<atomics, ack_sem, epochs, left, progress, history>>

\* node_logger->checkpoint()
AckCheckpoint(t) ==
  /\ Goto(t, "truncate", Back(t))
  /\ truncated' = [truncated EXCEPT ![t] = flushes]
  /\ UNCHANGED <<atomics, sems, epochs, left, progress, flushes, acked>>

-----------------------------------------------------------------------------
Tick ==
  /\ clock < MaxClock
  /\ clock' = clock + 1
  /\ UNCHANGED <<atomics, sems, epoch, e, place, left, progress, history>>

AllEnded == \A t \in Workers : place[t] = "end"

Ended == AllEnded /\ UNCHANGED flushVars

Step(t) ==
  \/ Operate(t) \/ ReadClock(t) \/ Finish(t) \/ Count(t)
  \/ SetGlobalEpoch(t)
  \/ Warn(t) \/ Enter(t) \/ Collect(t) \/ Flush(t) \/ Leave(t) \/ Release(t)
  \/ Checkpoint(t) \/ Clear(t)
  \/ AckWarning(t) \/ AckDone(t) \/ AckWaiting(t)
  \/ AckPost(t) \/ AckWait(t) \/ AckCheckpoint(t)

Next == (\E t \in Workers : Step(t)) \/ Tick \/ Ended

\* Every thread is scheduled; a semaphore that stays up wakes a waiter.
Fairness == \A t \in Workers : WF_flushVars(Step(t))

FlushSpec == Init /\ [][Next]_flushVars /\ Fairness

-----------------------------------------------------------------------------
(* What the protocol relies on: an epoch (65 ms) outlasts the boundary that *)
(* began it.  The clock does not move while a thread is between reading it  *)
(* and the end of its flush, or still on its way out of ack_flush.          *)

Boundary == {"set", "warn", "enter", "collect", "leave", "release", "clear",
             "post", "wait", "truncate"}

LongEpochs == \A t \in Workers : place[t] \notin Boundary

AssumedNext == (\E t \in Workers : Step(t)) \/ (LongEpochs /\ Tick) \/ Ended

AssumedSpec == Init /\ [][AssumedNext]_flushVars /\ Fairness

-----------------------------------------------------------------------------
(* Properties *)

PCs == Boundary \cup {"op", "quiesce", "count", "ack", "ackdone", "ackwaiting", "end"}

\* Types; the semaphores never hold more than one unit per other thread.
FlushTypeOK ==
  /\ influshWarning \in BOOLEAN /\ waitingFlush \in BOOLEAN
  /\ doneThreads \in 0 .. nthreads
  /\ ack_sem \in 0 .. nthreads - 1 /\ flush_ack_sem \in 0 .. nthreads - 1
  /\ clock \in 1 .. MaxClock /\ epoch \in 1 .. clock
  /\ place \in [Workers -> PCs]
  /\ e \in [Workers -> 0 .. MaxClock]
  /\ left \in [Workers -> 0 .. nthreads - 1]
  /\ ops \in [Workers -> 0 .. MaxOps]
  /\ spinning \subseteq Workers
  /\ flushes \in Nat /\ acked \in [Workers -> Nat] /\ truncated \in [Workers -> Nat]

\* When the caches are written back every other thread is between its
\* acknowledgement and its release: no operation is half done.
Quiescent ==
  \A t \in Workers : (place[t] = "collect" /\ left[t] = 0) =>
    \A u \in Workers \ {t} : place[u] = "wait"

\* "wait for flush to complete": a thread leaves ack_flush's wait, and
\* truncates its log, only when a flush has happened since it acknowledged.
WaitsForFlush == \A t \in Workers : place[t] = "truncate" => flushes > acked[t]

\* No thread operates on the tree with a node log that still holds records
\* from before the last flush.
LogIsFresh == \A t \in Workers : place[t] = "op" => truncated[t] = flushes

\* "flush needed. Wait until it finishes.": it does finish.
FlushEnds == waitingFlush ~> ~waitingFlush

\* All threads get out of the loop after thread_done.
Termination == <>AllEnded
=============================================================================
