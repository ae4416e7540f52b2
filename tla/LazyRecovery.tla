---------------------------- MODULE LazyRecovery ----------------------------
(***************************************************************************)
(* Lazy recovery of leaves by several threads (undo_incll and              *)
(* recover_final of masstree_struct.hh, the bucket locks of incll_bl.hh).  *)
(*                                                                         *)
(* The machine has failed in epoch Failed and runs again.  Some leaves     *)
(* still hold keys of the failed epoch, and in perm_cl0 the permutation    *)
(* from before it.  Every operation first calls lazy_recovery on the leaf  *)
(* it reached; a get then reads the permutation, a put locks the leaf,     *)
(* saves the permutation again and inserts.  A permutation is the set of   *)
(* its keys.  undo_incll tests the log, then takes the bucket lock, and    *)
(* does not test again.                                                    *)
(***************************************************************************)
EXTENDS Integers

CONSTANTS Threads,   \* each does one operation
          Leaves,
          Bucket,    \* the lock each leaf hashes to
          OldKeys,   \* in the leaves at the checkpoint
          LostKeys,  \* inserted in the failed epoch
          NewKey,    \* the key each thread inserts
          Failed,    \* failedepoch
          MaxEpoch   \* bound: globalepoch is at most this

VARIABLES
  permutation, perm_cl0, cl0_valid, loggedepoch, not_logged, \* the leaves
  locked,       \* leaves whose lock bit is set
  bucket,       \* the thread that holds each bucket lock
  globalepoch,
  pc, at, op,   \* what each thread does, to which leaf
  got           \* what its get returned

leafvars == <<permutation, perm_cl0, cl0_valid, loggedepoch, not_logged>>
locks == <<locked, bucket>>
vars == <<permutation, perm_cl0, cl0_valid, loggedepoch, not_logged, locked, bucket,
          globalepoch, pc, at, op, got>>

Nobody == "nobody"
Buckets == {Bucket[l] : l \in Leaves}
NewKeys == {NewKey[t] : t \in Threads}
Keys == OldKeys \cup LostKeys \cup NewKeys

\* What the proofs assume: there was an epoch before the failed one, and keys
\* stand for insertions: what a thread inserts now is not what was lost.
LazyAssumption ==
  /\ Failed \in Nat \ {0} /\ MaxEpoch \in Nat
  /\ LostKeys \cap (OldKeys \cup NewKeys) = {}
  /\ Nobody \notin Threads

TypeOK ==
  /\ permutation \in [Leaves -> SUBSET Keys] /\ perm_cl0 \in [Leaves -> SUBSET Keys]
  /\ cl0_valid \in [Leaves -> BOOLEAN] /\ not_logged \in [Leaves -> BOOLEAN]
  /\ loggedepoch \in [Leaves -> 0..MaxEpoch]
  /\ locked \subseteq Leaves /\ globalepoch \in Failed + 1..MaxEpoch
  /\ at \in [Threads -> Leaves] /\ op \in [Threads -> {"get", "put"}]
  /\ bucket \in [Buckets -> Threads \cup {Nobody}]
  /\ pc \in [Threads -> {"test", "wait", "undo", "final", "release", "go", "save", "store",
                         "unlock", "done"}]
  /\ got \in [Threads -> SUBSET Keys]

\* A leaf as the failure left it: changed in the failed epoch, with its log,
\* or older.
Init ==
  /\ \E dirty \in SUBSET Leaves :
       /\ permutation = [l \in Leaves |-> IF l \in dirty THEN OldKeys \cup LostKeys ELSE OldKeys]
       /\ cl0_valid = [l \in Leaves |-> l \in dirty]
       /\ loggedepoch = [l \in Leaves |-> IF l \in dirty THEN Failed ELSE Failed - 1]
       /\ not_logged = [l \in Leaves |-> l \in dirty]
  /\ perm_cl0 = [l \in Leaves |-> OldKeys]
  /\ locked = {}
  /\ bucket = [b \in Buckets |-> Nobody]
  /\ globalepoch \in Failed + 1..MaxEpoch
  /\ pc = [t \in Threads |-> "test"]
  /\ at \in [Threads -> Leaves]
  /\ op \in [Threads -> {"get", "put"}]
  /\ got = [t \in Threads |-> {}]

Goto(t, from, to) == pc[t] = from /\ pc' = [pc EXCEPT ![t] = to]

\* What undo_incll tests, without a lock.
MustUndo(l) == loggedepoch[l] = Failed /\ cl0_valid[l]

\* Fault: the leaf is taken for recovered although nothing was undone.
TestNothing(t) ==
  /\ Goto(t, "test", "go")
  /\ UNCHANGED <<leafvars, locks, globalepoch, at, op, got>>

\* lazy_recovery: loggedepoch <= failedepoch and a log of the failed epoch
Test(t) ==
  /\ Goto(t, "test", IF loggedepoch[at[t]] <= Failed /\ MustUndo(at[t]) THEN "wait" ELSE "go")
  /\ UNCHANGED <<leafvars, locks, globalepoch, at, op, got>>

\* BucketLocks::lock
TakeBucket(t) ==
  /\ Goto(t, "wait", "undo")
  /\ bucket[Bucket[at[t]]] = Nobody
  /\ bucket' = [bucket EXCEPT ![Bucket[at[t]]] = t]
  /\ UNCHANGED <<leafvars, locked, globalepoch, at, op, got>>

\* recover_cl0
RecoverCl0(t) ==
  /\ Goto(t, "undo", "final")
  /\ permutation' = [permutation EXCEPT ![at[t]] = perm_cl0[at[t]]]
  /\ UNCHANGED <<perm_cl0, cl0_valid, loggedepoch, not_logged, locks, globalepoch, at, op, got>>

\* recover_final: the logs are invalidated and stamped with the epoch before
\* this one, which just after a restart is the failed epoch.
RecoverFinal(t) ==
  /\ Goto(t, "final", "release")
  /\ cl0_valid' = [cl0_valid EXCEPT ![at[t]] = FALSE]
  /\ loggedepoch' = [loggedepoch EXCEPT ![at[t]] = globalepoch - 1]
  /\ UNCHANGED <<permutation, perm_cl0, not_logged, locks, globalepoch, at, op, got>>

\* Fault: the bucket stays locked.
KeepBucket(t) ==
  /\ Goto(t, "release", "go")
  /\ UNCHANGED <<leafvars, locks, globalepoch, at, op, got>>

\* BucketLocks::unlock
ReleaseBucket(t) ==
  /\ Goto(t, "release", "go")
  /\ bucket' = [bucket EXCEPT ![Bucket[at[t]]] = Nobody]
  /\ UNCHANGED <<leafvars, locked, globalepoch, at, op, got>>

\* find_unlocked reads the permutation.
Get(t) ==
  /\ op[t] = "get" /\ Goto(t, "go", "done")
  /\ got' = [got EXCEPT ![t] = permutation[at[t]]]
  /\ UNCHANGED <<leafvars, locks, globalepoch, at, op>>

\* find_locked
LockLeaf(t) ==
  /\ op[t] = "put" /\ Goto(t, "go", "save")
  /\ at[t] \notin locked
  /\ locked' = locked \cup {at[t]}
  /\ UNCHANGED <<leafvars, bucket, globalepoch, at, op, got>>

\* save_cl0_insert: the first change of the epoch saves the permutation; a
\* later one sends the leaf to the node log (see PExtLog), once.
SaveCl0(t) ==
  LET l == at[t]
      first == loggedepoch[l] # globalepoch
  IN /\ Goto(t, "save", "store")
     /\ perm_cl0' = IF first THEN [perm_cl0 EXCEPT ![l] = permutation[l]] ELSE perm_cl0
     /\ loggedepoch' = [loggedepoch EXCEPT ![l] = globalepoch]
     /\ cl0_valid' = [cl0_valid EXCEPT ![l] = IF first THEN TRUE ELSE @ /\ ~not_logged[l]]
     /\ not_logged' = [not_logged EXCEPT ![l] = first]
     /\ UNCHANGED <<permutation, locks, globalepoch, at, op, got>>

\* finish_insert
StoreInsert(t) ==
  /\ Goto(t, "store", "unlock")
  /\ permutation' = [permutation EXCEPT ![at[t]] = @ \cup {NewKey[t]}]
  /\ UNCHANGED <<perm_cl0, cl0_valid, loggedepoch, not_logged, locks, globalepoch, at, op, got>>

UnlockLeaf(t) ==
  /\ Goto(t, "unlock", "done")
  /\ locked' = locked \ {at[t]}
  /\ UNCHANGED <<leafvars, bucket, globalepoch, at, op, got>>

Step(t) ==
  \/ Test(t) \/ TakeBucket(t) \/ RecoverCl0(t) \/ RecoverFinal(t) \/ ReleaseBucket(t)
  \/ Get(t) \/ LockLeaf(t) \/ SaveCl0(t) \/ StoreInsert(t) \/ UnlockLeaf(t)

AllDone == \A t \in Threads : pc[t] = "done"

\* All operations are done.
Finished == AllDone /\ UNCHANGED vars

Next == (\E t \in Threads : Step(t)) \/ Finished
Spec == Init /\ [][Next]_vars /\ \A t \in Threads : WF_vars(Step(t))

-----------------------------------------------------------------------------
(* Properties *)

\* No get returns a key of the failed epoch or misses one of the checkpoint,
\* although recovery is under way in other threads (undo_incll restores the
\* permutation before recover_final invalidates its log).
ReadsRecovered ==
  \A t \in Threads : pc[t] = "done" /\ op[t] = "get" =>
    OldKeys \subseteq got[t] /\ got[t] \cap LostKeys = {}

\* The locks exclude: leaves of one bucket are recovered one at a time, and a
\* leaf is changed by one put at a time.
LocksExclude ==
  \A t, u \in Threads : t # u =>
    /\ {pc[t], pc[u]} \subseteq {"undo", "final", "release"} => Bucket[at[t]] # Bucket[at[u]]
    /\ {pc[t], pc[u]} \subseteq {"save", "store", "unlock"} => at[t] # at[u]

\* A put that has returned is in the leaf: nothing has failed since.
PutStays ==
  \A t \in Threads : pc[t] = "done" /\ op[t] = "put" => NewKey[t] \in permutation[at[t]]

\* No operation waits for ever for a bucket or a leaf lock, even when leaves
\* share a bucket.
OperationsEnd == <>AllDone
=============================================================================
