---------------------------- MODULE Persistence ----------------------------
(***************************************************************************)
(* The persistence components side by side: the node logs, lazy recovery,  *)
(* PPP and the memory manager.  A behaviour is one of one component,       *)
(* chosen by part; the variables of the others stay None.  Variables of    *)
(* the same name in two components are one variable here.  The components  *)
(* are taken with their theorems, for Persistence_proofs.                  *)
(***************************************************************************)
EXTENDS Integers

CONSTANTS Threads,                     \* of the node logs and the memory manager
          Nodes, Values, ContentSize, BufSize, LogEpochs, MaxFailures,
          Recoverers,                  \* threads of lazy recovery
          Leaves, Bucket, OldKeys, LostKeys, NewKey, Failed, LazyEpochs,
          Pointers, Null, EpochRange, RegionBit, StartEpoch, PtrEpochs,
          LastAddress, Superpage, Capacity, FreeCount, RcuEpochs

VARIABLES part,
          log, nlog, node, nnode, globalepoch, status, pending, truncating, failures, settled, committed, slips,
          permutation, perm_cl0, cl0_valid, loggedepoch, not_logged, locked, bucket, pc, at, op,
          got, word, nword, storing, failedepoch, currexec, value,
          chain, limbo_tail_, gc_epoch_, perform_gc_epoch_, gc, pool_, nvm_free_addr, nfree,
          active_epoch, flushing, live, held, ckpt

None == "none"
logVars == <<log, nlog, node, nnode, status, pending, truncating, failures, settled>>
lazyVars == <<permutation, perm_cl0, cl0_valid, loggedepoch, not_logged, locked, bucket, pc, at,
              op, got>>
ptrVars == <<word, nword, storing, failedepoch, currexec, value>>
rcuVars == <<chain, limbo_tail_, gc_epoch_, perform_gc_epoch_, gc, pool_, nvm_free_addr, nfree,
             active_epoch, flushing, live, held, ckpt>>
vars == <<part, globalepoch, committed, slips, logVars, lazyVars, ptrVars, rcuVars>>

NoLog ==
  /\ log = None /\ nlog = None /\ node = None /\ nnode = None /\ status = None
  /\ pending = None /\ truncating = None /\ failures = None /\ settled = None
NoLazy ==
  /\ permutation = None /\ perm_cl0 = None /\ cl0_valid = None /\ loggedepoch = None
  /\ not_logged = None /\ locked = None /\ bucket = None /\ pc = None /\ at = None
  /\ op = None /\ got = None
NoPtr ==
  /\ word = None /\ nword = None /\ storing = None /\ failedepoch = None /\ currexec = None
  /\ value = None
NoRcu ==
  /\ chain = None /\ limbo_tail_ = None /\ gc_epoch_ = None /\ perform_gc_epoch_ = None
  /\ gc = None /\ pool_ = None /\ nvm_free_addr = None /\ nfree = None /\ active_epoch = None
  /\ flushing = None /\ live = None /\ held = None /\ ckpt = None

-----------------------------------------------------------------------------
Manual == INSTANCE PExtLog_proofs WITH MaxEpoch <- LogEpochs, Clocked <- FALSE
ByClock == INSTANCE PExtLog WITH MaxEpoch <- LogEpochs, Clocked <- TRUE
Lazy == INSTANCE LazyRecovery_proofs WITH Threads <- Recoverers, MaxEpoch <- LazyEpochs
Ptr == INSTANCE PersistentPtr_proofs WITH MaxEpoch <- PtrEpochs
Rcu == INSTANCE RcuLimbo_proofs WITH MaxEpoch <- RcuEpochs

\* What each component assumes of its constants.
ASSUME PersistAssumption ==
  /\ Manual!LogAssumption /\ Lazy!LazyAssumption /\ Ptr!PtrAssumption /\ Rcu!RcuAssumption

InitLog == part = "log" /\ Manual!Init /\ NoLazy /\ NoPtr /\ NoRcu
InitLazy == part = "lazy" /\ Lazy!Init /\ committed = None /\ slips = None /\ NoLog /\ NoPtr
              /\ NoRcu
InitPtr == part = "ptr" /\ Ptr!Init /\ NoLog /\ NoLazy /\ NoRcu
InitRcu == part = "rcu" /\ Rcu!Init /\ committed = None /\ slips = None /\ NoLog /\ NoLazy
             /\ NoPtr

NextLog == part = "log" /\ Manual!ManualNext /\ UNCHANGED <<part, lazyVars, ptrVars, rcuVars>>
NextLazy ==
  part = "lazy" /\ Lazy!Next /\ UNCHANGED <<part, committed, slips, logVars, ptrVars, rcuVars>>
NextPtr == part = "ptr" /\ Ptr!Next /\ UNCHANGED <<part, logVars, lazyVars, rcuVars>>
NextRcu ==
  part = "rcu" /\ Rcu!Next /\ UNCHANGED <<part, committed, slips, logVars, lazyVars, ptrVars>>

\* The components' own fairness.
Fair ==
  /\ WF_vars(part = "log" /\ Manual!UndoDone /\ UNCHANGED <<part, lazyVars, ptrVars, rcuVars>>)
  /\ \A t \in Threads :
       WF_vars(part = "log" /\ Manual!UndoStep(t) /\ UNCHANGED <<part, lazyVars, ptrVars, rcuVars>>)
  /\ \A t \in Recoverers :
       WF_vars(part = "lazy" /\ Lazy!Step(t)
                 /\ UNCHANGED <<part, committed, slips, logVars, ptrVars, rcuVars>>)

Spec ==
  /\ InitLog \/ InitLazy \/ InitPtr \/ InitRcu
  /\ [][NextLog \/ NextLazy \/ NextPtr \/ NextRcu]_vars
  /\ Fair

\* The node logs under set_global_epoch.
ClockedSpec ==
  /\ InitLog
  /\ [][part = "log" /\ ByClock!ClockedNext /\ UNCHANGED <<part, lazyVars, ptrVars, rcuVars>>]_vars

\* One component alone, without fairness.
LogSpec == InitLog /\ [][NextLog]_vars
PtrSpec == InitPtr /\ [][NextPtr]_vars
RaceSpec == InitLazy /\ [][NextLazy]_vars

-----------------------------------------------------------------------------
\* Every component is well typed.
TypeOK ==
  /\ part = "log" => Manual!TypeOK
  /\ part = "lazy" => Lazy!TypeOK
  /\ part = "ptr" => Ptr!TypeOK
  /\ part = "rcu" => Rcu!TypeOK

\* undo of incll_pextlog.hh brings every node back to the last flush, when the
\* records fit, wraps are of one size and no failure hits a boundary.
UndoRestores == part = "log" => Manual!UndoRestores

\* The same however the buffers wrap: with records of two sizes, or over
\* leftovers of the lap before, while no record reaches one still needed.
WrapRestores == part = "log" /\ slips \subseteq {"size", "behind"} => Manual!NodesRestored

\* The same wherever the machine stops.
WindowRestores == part = "log" /\ slips \subseteq {"failure"} => Manual!NodesRestored

\* undo_next_prev walks over the nodes that undo copied back.
RelinksUndone == part = "log" => Manual!RelinksUndone

\* The loop of undo ends.
UndoEnds == Manual!UndoEnds

\* The same under set_global_epoch, which moves the epoch before the flush.
ClockedUndoRestores == part = "log" => ByClock!UndoRestores

\* While threads recover leaves, no get sees a key of the failed epoch.
ReadsRecovered == part = "lazy" => Lazy!ReadsRecovered

\* A returned put stays, although other threads recover the leaf.
PutStays == part = "lazy" => Lazy!PutStays

\* Recovery's bucket locks and the leaf locks let every operation end.
OperationsEnd == <>(part = "lazy" => Lazy!AllDone)

\* PPP::read returns what PPP::write wrote, or the checkpoint's pointer, while
\* words decode to their epochs and no failure is forgotten.
ReadsValue == part = "ptr" => Ptr!ReadsValue

\* A PPP recovers to the last boundary whenever the machine stops, under the
\* same conditions.
PtrRecoverable == part = "ptr" => Ptr!PtrRecoverable

\* The same whatever the epochs and pointers.
RecoversAlways == part = "ptr" /\ slips \subseteq {"epoch"} => Ptr!Recovers

\* What PPP::write wrote reads back, in every epoch.
ReadsBack == part = "ptr" => Ptr!ReadsBack

\* The same as ReadsValue, however soon the next failure comes.
ReadsAlways == part = "ptr" /\ slips \subseteq {"failure"} => Ptr!Reads

\* Limbo groups keep the order the assertions of kvthread.cc expect.
GroupsInOrder == part = "rcu" => Rcu!GroupsInOrder

\* Nothing is reused that a thread may hold or that is still in the tree.
NoEarlyReuse == part = "rcu" => Rcu!NoEarlyReuse

\* Nothing of the last checkpoint is reused before the next.
CheckpointKept == part = "rcu" => Rcu!CheckpointKept
=============================================================================
