------------------------------ MODULE RcuLimbo ------------------------------
(***************************************************************************)
(* Memory: the bump allocator in non-volatile memory (malloc_nvm), the     *)
(* per-thread pools, and the limbo lists that keep a removed object until  *)
(* no thread can hold it (kvthread.hh, kvthread.cc), together with the     *)
(* epochs of set_global_epoch and a failure.                               *)
(*                                                                         *)
(* An object is its address.  A thread works between rcu_start and         *)
(* rcu_stop; objects it reads it holds until its operation ends.  A limbo  *)
(* group is an array with head_ and tail_; an element is an object or, its *)
(* ptr_ null, the epoch of the elements behind it.  chain[t] is the list   *)
(* of groups from limbo_head_ on, limbo_tail_[t] the position in it of the *)
(* group being filled; the groups behind it are empty.  hard_rcu_quiesce   *)
(* takes one step per element, between steps of the other threads.         *)
(***************************************************************************)
EXTENDS Integers, Sequences, SequencesExt

CONSTANTS Threads,
          LastAddress, \* bound: addresses are 1 to this
          Superpage,   \* objects that refill_pool gets at once
          Capacity,    \* elements of a limbo group
          FreeCount,   \* rcu_free_count
          MaxEpoch     \* bound: the last epoch the clock reaches

\* What the proofs assume of the sizes and bounds.  A group has room for an
\* epoch and an object.
RcuAssumption ==
  /\ LastAddress \in Nat /\ Superpage \in Nat \ {0}
  /\ Capacity \in Nat \ {0, 1} /\ FreeCount \in Nat \ {0} /\ MaxEpoch \in Nat \ {0}

VARIABLES
  chain, limbo_tail_, \* limbo lists
  gc_epoch_, perform_gc_epoch_,
  gc,            \* hard_rcu_quiesce's locals while it cleans
  pool_,         \* free objects of each thread, the next one first
  nvm_free_addr, \* the bump pointer
  nfree,         \* what the memory has of it
  globalepoch, active_epoch,
  flushing,      \* the threads in set_global_epoch, about to flush
  live,          \* objects in the tree
  held,          \* objects each thread has read in its operation
  ckpt           \* objects in the tree at the last flush

limbo == <<chain, limbo_tail_>>
rcu == <<gc_epoch_, perform_gc_epoch_, gc>>
heap == <<pool_, nvm_free_addr, nfree>>
clock == <<globalepoch, active_epoch, flushing>>
vars == <<chain, limbo_tail_, gc_epoch_, perform_gc_epoch_, gc, pool_, nvm_free_addr,
          nfree, globalepoch, active_epoch, flushing, live, held, ckpt>>

Addresses == 1..LastAddress
Slots == 0..(Capacity - 1)
Epochs == 0..(MaxEpoch + 1)

NullPtr == 0
Nothing == [ptr_ |-> NullPtr, epoch |-> 0] \* a slot out of use
Epoch(e) == [ptr_ |-> NullPtr, epoch |-> e]
Object(o) == [ptr_ |-> o, epoch |-> 0]
EmptyGroup == [head_ |-> 0, tail_ |-> 0, epoch_ |-> 0, e_ |-> [i \in Slots |-> Nothing]]

\* count is 0 outside the loop.
Idle == [count |-> 0, epoch_bound |-> 0, epoch |-> 0, stop |-> FALSE]

Elements == [ptr_ : Addresses \cup {NullPtr}, epoch : Epochs]
Locals == [count : 0..FreeCount, epoch_bound : Epochs, epoch : Epochs, stop : BOOLEAN]
Groups == [head_ : 0..Capacity, tail_ : 0..Capacity, epoch_ : Epochs, e_ : [Slots -> Elements]]

TypeOK ==
  /\ chain \in [Threads -> Seq(Groups)] /\ limbo_tail_ \in [Threads -> Nat \ {0}]
  /\ gc_epoch_ \in [Threads -> Epochs] /\ perform_gc_epoch_ \in [Threads -> Epochs]
  /\ gc \in [Threads -> Locals]
  /\ pool_ \in [Threads -> Seq(Addresses)]
  /\ nvm_free_addr \in 1..(LastAddress + 1) /\ nfree \in 1..nvm_free_addr
  /\ globalepoch \in Epochs \ {0} /\ active_epoch \in 1..globalepoch
  /\ flushing \in SUBSET Threads
  /\ live \subseteq Addresses /\ ckpt \subseteq Addresses
  /\ held \in [Threads -> SUBSET Addresses]

Init ==
  /\ chain = [t \in Threads |-> <<EmptyGroup>>] /\ limbo_tail_ = [t \in Threads |-> 1]
  /\ gc_epoch_ = [t \in Threads |-> 1] /\ perform_gc_epoch_ = [t \in Threads |-> 0]
  /\ gc = [t \in Threads |-> Idle]
  /\ pool_ = [t \in Threads |-> <<>>]
  /\ nvm_free_addr = 1 /\ nfree = 1
  /\ globalepoch = 1 /\ active_epoch = 1 /\ flushing = {}
  /\ live = {} /\ held = [t \in Threads |-> {}] /\ ckpt = {}

Cleaning(t) == gc[t].count > 0

\* In the tree or between two operations.
Working(t) == t \notin flushing /\ ~Cleaning(t) /\ gc_epoch_[t] # 0
-----------------------------------------------------------------------------
(* Allocation *)

\* Fault: the superpage's last unit is linked twice.
UnitsTwice(a) == [i \in 1..Superpage |-> a + (i - 1)] \o <<a>>

\* initialize_pool: the units of a superpage, linked in order
Units(a) == [i \in 1..Superpage |-> a + (i - 1)]

\* refill_pool: malloc_nvm and initialize_pool
Refilled(t) == IF pool_[t] = <<>> THEN Units(nvm_free_addr) ELSE pool_[t]

\* malloc_nvm stays within the mapping.
CanGrow == nvm_free_addr + Superpage - 1 <= LastAddress

\* pool_allocate; the object goes into the tree.
Allocate(t) ==
  /\ Working(t) /\ held[t] = {}
  /\ pool_[t] = <<>> => CanGrow
  /\ nvm_free_addr' = IF pool_[t] = <<>> THEN nvm_free_addr + Superpage ELSE nvm_free_addr
  /\ pool_' = [pool_ EXCEPT ![t] = Tail(Refilled(t))]
  /\ live' = live \cup {Head(Refilled(t))}
  /\ UNCHANGED <<limbo, rcu, nfree, clock, held, ckpt>>

\* pool_deallocate of an object that never got into the tree
Discard(t) ==
  /\ Working(t) /\ held[t] = {} /\ pool_[t] # <<>>
  /\ \E i \in 2..Len(pool_[t]) :
       pool_' = [pool_ EXCEPT ![t] = <<@[i]>> \o RemoveAt(@, i)]
  /\ UNCHANGED <<limbo, rcu, nvm_free_addr, nfree, clock, live, held, ckpt>>

-----------------------------------------------------------------------------
(* Operations on the tree *)

\* An operation gets hold of an object.
Read(t, o) ==
  /\ Working(t) /\ held[t] = {} /\ o \in live
  /\ held' = [held EXCEPT ![t] = {o}]
  /\ UNCHANGED <<limbo, rcu, heap, clock, live, ckpt>>

EndOperation(t) ==
  /\ held[t] # {}
  /\ held' = [held EXCEPT ![t] = {}]
  /\ UNCHANGED <<limbo, rcu, heap, clock, live, ckpt>>

\* Fault: room for one element is taken to be enough.
RoomForOne(g) == g.tail_ + 1 <= Capacity

Room(g) == g.tail_ + 2 <= Capacity

\* push_back: an epoch when it is new or the group is empty, then the object
Pushed(g, o, epoch) ==
  LET new == g.head_ = g.tail_ \/ g.epoch_ # epoch
      at == IF new THEN g.tail_ + 1 ELSE g.tail_
  IN [g EXCEPT !.e_ = [i \in Slots |-> IF i = at THEN Object(o)
                                       ELSE IF i = g.tail_ THEN Epoch(epoch) ELSE @[i]],
               !.tail_ = at + 1,
               !.epoch_ = epoch]

\* refill_rcu moves to the next group, a new one if there is none.
FillGroup(t) == IF Room(chain[t][limbo_tail_[t]]) THEN limbo_tail_[t] ELSE limbo_tail_[t] + 1
WithFillGroup(t) ==
  IF FillGroup(t) > Len(chain[t]) THEN Append(chain[t], EmptyGroup) ELSE chain[t]

\* record_rcu of a removed object.  Nobody finds it afterwards: for callers that
\* retire a row and then unpublish it (kvrow.hh) see Rows.
Retire(t, o) ==
  LET k == FillGroup(t)
      groups == WithFillGroup(t)
  IN /\ Working(t) /\ o \in live
     /\ live' = live \ {o}
     /\ chain' = [chain EXCEPT ![t] = [groups EXCEPT ![k] = Pushed(@, o, globalepoch)]]
     /\ limbo_tail_' = [limbo_tail_ EXCEPT ![t] = k]
     /\ UNCHANGED <<rcu, heap, clock, held, ckpt>>

-----------------------------------------------------------------------------
(* Reclamation *)

\* Fault: objects removed in the epoch that is still active are freed.
EpochBoundLate(active) == active

EpochBound(active) == active - 1

FirstEpoch(g) == g.e_[g.head_].epoch

\* hard_rcu_quiesce is called and goes into its loop.
Cleans(t) ==
  /\ perform_gc_epoch_[t] # active_epoch
  /\ chain[t][1].head_ # chain[t][1].tail_
  /\ FirstEpoch(chain[t][1]) <= EpochBound(active_epoch)

\* hard_rcu_quiesce up to its loop
BeginGc(t, stop) ==
  /\ gc' = IF Cleans(t)
           THEN [gc EXCEPT ![t] = [count |-> FreeCount, epoch_bound |-> EpochBound(active_epoch),
                                   epoch |-> 0, stop |-> stop]]
           ELSE gc
  /\ perform_gc_epoch_' =
       IF Cleans(t) \/ perform_gc_epoch_[t] = active_epoch THEN perform_gc_epoch_
       ELSE [perform_gc_epoch_ EXCEPT ![t] = EpochBound(active_epoch) + 1]

\* rcu_quiesce between operations
Quiesce(t) ==
  /\ Working(t) /\ held[t] = {}
  /\ gc_epoch_' = [gc_epoch_ EXCEPT ![t] = globalepoch]
  /\ BeginGc(t, FALSE)
  /\ UNCHANGED <<limbo, heap, clock, live, held, ckpt>>

\* rcu_stop: gc_epoch_ is reset behind hard_rcu_quiesce.
RcuStop(t) ==
  /\ Working(t) /\ held[t] = {}
  /\ BeginGc(t, TRUE)
  /\ gc_epoch_' = IF Cleans(t) THEN gc_epoch_ ELSE [gc_epoch_ EXCEPT ![t] = 0]
  /\ UNCHANGED <<limbo, heap, clock, live, held, ckpt>>

RcuStart(t) ==
  /\ gc_epoch_[t] = 0
  /\ gc_epoch_' = [gc_epoch_ EXCEPT ![t] = globalepoch]
  /\ UNCHANGED <<limbo, perform_gc_epoch_, gc, heap, clock, live, held, ckpt>>

\* done: of hard_rcu_quiesce, and the rest of rcu_stop
EndGc(t, perform) ==
  /\ gc' = [gc EXCEPT ![t] = Idle]
  /\ perform_gc_epoch_' = [perform_gc_epoch_ EXCEPT ![t] = perform]
  /\ gc_epoch_' = IF gc[t].stop THEN [gc_epoch_ EXCEPT ![t] = 0] ELSE gc_epoch_

\* ++head_, and back to 0 at the end
Advanced(g) ==
  IF g.head_ + 1 = g.tail_ THEN EmptyGroup
  ELSE [g EXCEPT !.head_ = @ + 1, !.e_ = [@ EXCEPT ![g.head_] = Nothing]]

\* clean_until goes on behind an element of limbo_head_.  From an emptied
\* group the loop goes to the next one, and the emptied one goes behind
\* limbo_tail_ (the code hooks all of them there at the end).
GoOn(t, locals) ==
  LET g == Advanced(chain[t][1])
  IN \/ /\ g.head_ # g.tail_
        /\ chain' = [chain EXCEPT ![t] = [@ EXCEPT ![1] = g]]
        /\ gc' = [gc EXCEPT ![t] = locals]
        /\ UNCHANGED <<limbo_tail_, gc_epoch_, perform_gc_epoch_>>
     \/ /\ g.head_ = g.tail_ /\ limbo_tail_[t] > 1
        /\ chain' = [chain EXCEPT ![t] = Append(Tail(@), g)]
        /\ limbo_tail_' = [limbo_tail_ EXCEPT ![t] = @ - 1]
        /\ gc' = [gc EXCEPT ![t] = [locals EXCEPT !.epoch = 0]]
        /\ UNCHANGED <<gc_epoch_, perform_gc_epoch_>>
     \/ /\ g.head_ = g.tail_ /\ limbo_tail_[t] = 1
        /\ chain' = [chain EXCEPT ![t] = [@ EXCEPT ![1] = g]]
        /\ EndGc(t, gc[t].epoch_bound + 1)
        /\ UNCHANGED limbo_tail_

\* e_[head_] becomes an epoch.
Marked(g, epoch) == [g EXCEPT !.e_ = [@ EXCEPT ![g.head_] = Epoch(epoch)]]

HeadElement(t) == chain[t][1].e_[chain[t][1].head_]

\* clean_until at an epoch
CleanEpoch(t) ==
  LET x == HeadElement(t)
  IN /\ Cleaning(t) /\ x.ptr_ = NullPtr
     /\ IF x.epoch <= gc[t].epoch_bound
        THEN GoOn(t, [gc[t] EXCEPT !.epoch = x.epoch])
        ELSE EndGc(t, gc[t].epoch_bound + 1) /\ UNCHANGED limbo
     /\ UNCHANGED <<heap, clock, live, held, ckpt>>

\* clean_until at an object: free_rcu.  When the count runs out the element
\* becomes an epoch, and hard_rcu_quiesce is to be called again.  (A callback is
\* called in the place of free_rcu's push; Layers has those.)
CleanObject(t) ==
  LET x == HeadElement(t)
  IN /\ Cleaning(t) /\ x.ptr_ # NullPtr
     /\ pool_' = [pool_ EXCEPT ![t] = <<x.ptr_>> \o @]
     /\ IF gc[t].count > 1
        THEN GoOn(t, [gc[t] EXCEPT !.count = @ - 1])
        ELSE /\ chain' = [chain EXCEPT ![t] = [@ EXCEPT ![1] = Marked(chain[t][1], gc[t].epoch)]]
             /\ EndGc(t, gc[t].epoch_bound)
             /\ UNCHANGED limbo_tail_
     /\ UNCHANGED <<nvm_free_addr, nfree, clock, live, held, ckpt>>

-----------------------------------------------------------------------------
(* Epochs, flushes and failures *)

\* min_active_epoch, the epoch being e: the smallest of e and the epochs of
\* the threads that have not stopped
MinActive(e, m) ==
  LET epochs == {e} \cup {gc_epoch_[t] : t \in {u \in Threads : gc_epoch_[u] # 0}}
  IN m \in epochs /\ \A x \in epochs : m <= x

\* set_global_epoch, called before the thread's own rcu_quiesce.  Only a
\* thread that finds no flush under way will flush.
SetGlobalEpoch(t) ==
  /\ Working(t) /\ held[t] = {}
  /\ globalepoch < MaxEpoch
  /\ globalepoch' = globalepoch + 1
  /\ \E m \in Epochs : MinActive(globalepoch + 1, m) /\ active_epoch' = m
  /\ flushing' = IF flushing = {} THEN {t} ELSE flushing
  /\ UNCHANGED <<limbo, rcu, heap, live, held, ckpt>>

\* All threads are between operations; the cache is written back.
Flush ==
  /\ flushing # {} /\ \A t \in Threads : held[t] = {} /\ ~Cleaning(t)
  /\ flushing' = {}
  /\ ckpt' = live /\ nfree' = nvm_free_addr
  /\ UNCHANGED <<limbo, rcu, pool_, nvm_free_addr, globalepoch, active_epoch, live, held>>

\* The bump pointer is never synced; the cache may write it back.
EvictFreeAddr ==
  /\ nfree # nvm_free_addr
  /\ nfree' = nvm_free_addr
  /\ UNCHANGED <<limbo, rcu, pool_, nvm_free_addr, clock, live, held, ckpt>>

\* A failure: the tree is what it was at the flush; pools and limbo lists
\* start empty (threadinfo is volatile), the bump pointer is the memory's.
Crash ==
  /\ globalepoch <= MaxEpoch
  /\ chain' = [t \in Threads |-> <<EmptyGroup>>] /\ limbo_tail_' = [t \in Threads |-> 1]
  /\ globalepoch' = globalepoch + 1 /\ active_epoch' = globalepoch' /\ flushing' = {}
  /\ gc_epoch_' = [t \in Threads |-> globalepoch'] /\ perform_gc_epoch_' = [t \in Threads |-> 0]
  /\ gc' = [t \in Threads |-> Idle]
  /\ pool_' = [t \in Threads |-> <<>>]
  /\ nvm_free_addr' = nfree /\ nfree' = nfree
  /\ live' = ckpt /\ held' = [t \in Threads |-> {}] /\ ckpt' = ckpt

Next ==
  \/ \E t \in Threads : \/ Allocate(t) \/ Discard(t) \/ EndOperation(t) \/ Quiesce(t)
                        \/ RcuStart(t) \/ RcuStop(t) \/ CleanEpoch(t) \/ CleanObject(t)
                        \/ SetGlobalEpoch(t)
                        \/ \E o \in Addresses : Read(t, o) \/ Retire(t, o)
  \/ Flush \/ EvictFreeAddr \/ Crash

Spec == Init /\ [][Next]_vars

-----------------------------------------------------------------------------
(* Properties *)

Used(g) == {i \in Slots : g.head_ <= i /\ i < g.tail_}

InLimbo(t) == {o \in Addresses : \E k \in 1..Len(chain[t]) : \E i \in Used(chain[t][k]) :
                                   chain[t][k].e_[i] = Object(o)}

\* What an allocation may return now or after a failure.
Reusable ==
  {o \in Addresses : o >= nfree \/ o >= nvm_free_addr \/ \E t \in Threads : o \in ToSet(pool_[t])}

\* Limbo groups stay within their arrays, those behind limbo_tail_ are empty
\* and those in use, but for the first, are not, and first_epoch reads an epoch
\* (the assertions of push_back, refill_rcu and first_epoch).
GroupsInOrder ==
  \A t \in Threads : \A k \in 1..Len(chain[t]) :
    LET g == chain[t][k]
    IN /\ g.tail_ <= Capacity
       /\ k > limbo_tail_[t] => g.head_ = 0 /\ g.tail_ = 0
       /\ 1 < k /\ k <= limbo_tail_[t] => g.head_ # g.tail_
       /\ g.head_ # g.tail_ /\ ~(k = 1 /\ Cleaning(t)) => g.e_[g.head_].ptr_ = NullPtr

\* Nothing that a reader may hold is handed out again, and no object is in
\* two free lists or in a free list and the tree.
NoEarlyReuse ==
  /\ \A t, u \in Threads : ToSet(pool_[t]) \cap (held[u] \cup live) = {}
  /\ \A t \in Threads : /\ IsInjective(pool_[t])
                        /\ \A u \in Threads \ {t} : ToSet(pool_[t]) \cap ToSet(pool_[u]) = {}
                        /\ \A u \in Threads : ToSet(pool_[t]) \cap InLimbo(u) = {}

\* Nothing the last checkpoint needs is handed out before the next one, by the
\* pools or, after a failure, by a bump pointer that was never synced.
CheckpointKept == Reusable \cap ckpt = {}
=============================================================================
