------------------------ MODULE LazyRecovery_proofs ------------------------
(***************************************************************************)
(* Lazy recovery while other threads work: for any threads, leaves and     *)
(* buckets, no get returns a key of the failed epoch or misses one of the  *)
(* checkpoint, and the two kinds of locks exclude.                         *)
(***************************************************************************)
EXTENDS LazyRecovery, TLAPS

\* t has been through lazy_recovery, up to the invalidation of the logs.
Recovered(t) == pc[t] \notin {"test", "wait", "undo"}

\* Only a leaf whose log undo_incll still finds valid has lost keys.
LostMeansLogged == \A l \in Leaves : permutation[l] \cap LostKeys # {} => MustUndo(l)

\* The log never has one, and neither it nor the leaf misses a key.
LogsAreClean ==
  \A l \in Leaves :
    /\ OldKeys \subseteq permutation[l] /\ OldKeys \subseteq perm_cl0[l]
    /\ perm_cl0[l] \cap LostKeys = {}

\* The leaf a thread has recovered, or found recovered, has no lost key.
RecoveredIsClean == \A t \in Threads : Recovered(t) => permutation[at[t]] \cap LostKeys = {}

\* Only puts lock leaves.
PutsLock == \A t \in Threads : pc[t] \in {"save", "store", "unlock"} => op[t] = "put"

Inv ==
  /\ TypeOK /\ LostMeansLogged /\ LogsAreClean /\ RecoveredIsClean /\ PutsLock
  /\ ReadsRecovered

\* Who holds which lock.
LockInv ==
  /\ \A t \in Threads : pc[t] \in {"undo", "final", "release"} => bucket[Bucket[at[t]]] = t
  /\ \A t \in Threads : pc[t] \in {"save", "store", "unlock"} => at[t] \in locked
  /\ \A t, u \in Threads :
       t # u /\ {pc[t], pc[u]} \subseteq {"save", "store", "unlock"} => at[t] # at[u]

PCs == {"test", "wait", "undo", "final", "release", "go", "save", "store", "unlock", "done"}

-----------------------------------------------------------------------------
\* The state a failure leaves behind.
LEMMA InitInv == ASSUME LazyAssumption, Init PROVE Inv
<1>1. PICK dirty \in SUBSET Leaves :
       /\ permutation = [l \in Leaves |-> IF l \in dirty THEN OldKeys \cup LostKeys ELSE OldKeys]
       /\ cl0_valid = [l \in Leaves |-> l \in dirty]
       /\ loggedepoch = [l \in Leaves |-> IF l \in dirty THEN Failed ELSE Failed - 1]
       /\ not_logged = [l \in Leaves |-> l \in dirty]
  BY DEF Init
<1>2. OldKeys \cap LostKeys = {}
  BY DEF LazyAssumption
<1>3. permutation \in [Leaves -> SUBSET Keys] /\ perm_cl0 \in [Leaves -> SUBSET Keys]
  BY <1>1 DEF Init, Keys
<1>4. loggedepoch \in [Leaves -> 0..MaxEpoch]
  BY <1>1 DEF Init, LazyAssumption
<1>5. /\ bucket \in [Buckets -> Threads \cup {Nobody}]
      /\ cl0_valid \in [Leaves -> BOOLEAN] /\ not_logged \in [Leaves -> BOOLEAN]
      /\ pc \in [Threads -> PCs] /\ got \in [Threads -> SUBSET Keys]
  BY <1>1 DEF Init, PCs
<1>6. TypeOK
  BY <1>3, <1>4, <1>5 DEF Init, TypeOK, PCs
<1>7. LostMeansLogged
  BY <1>1, <1>2 DEF LostMeansLogged, MustUndo
<1>8. LogsAreClean
  BY <1>1, <1>2 DEF LogsAreClean, Init
<1>. QED  BY <1>6, <1>7, <1>8 DEF Inv, RecoveredIsClean, Recovered, PutsLock, ReadsRecovered,
                                       Init

\* A step of one thread moves only its own pc.
LEMMA GotoPC ==
  ASSUME TypeOK, NEW t \in Threads, NEW from, NEW to \in PCs, Goto(t, from, to)
  PROVE  /\ pc[t] = from /\ pc'[t] = to
         /\ \A u \in Threads : u # t => pc'[u] = pc[u]
         /\ pc' \in [Threads -> PCs]
  BY DEF TypeOK, Goto, PCs

\* Steps that leave the leaves alone: the tests, the locks and the gets.
LEMMA QuietInv ==
  ASSUME LazyAssumption, Inv, NEW t \in Threads, NEW from, NEW to \in PCs, Goto(t, from, to),
         UNCHANGED <<leafvars, globalepoch, at, op, got>>,
         locked' \subseteq Leaves, bucket' \in [Buckets -> Threads \cup {Nobody}],
         to \in {"done", "save"} => op[t] = "put", to \notin {"store", "unlock"},
         Recovered(t)' => permutation[at[t]] \cap LostKeys = {}
  PROVE  Inv'
<1>1. /\ pc'[t] = to /\ pc' \in [Threads -> PCs]
      /\ \A u \in Threads : u # t => pc'[u] = pc[u]
  BY GotoPC DEF Inv
<1>2. UNCHANGED <<permutation, perm_cl0, cl0_valid, loggedepoch, not_logged>>
  BY DEF leafvars
<1>3. TypeOK'
  BY <1>1, <1>2 DEF Inv, TypeOK, PCs
<1>4. LostMeansLogged' /\ LogsAreClean'
  BY <1>2 DEF Inv, LostMeansLogged, LogsAreClean, MustUndo
<1>5. RecoveredIsClean'
  BY <1>1, <1>2 DEF Inv, RecoveredIsClean, Recovered
<1>6. PutsLock' /\ ReadsRecovered'
  BY <1>1 DEF Inv, PutsLock, ReadsRecovered
<1>. QED  BY <1>3, <1>4, <1>5, <1>6 DEF Inv

\* undo_incll's tests: a leaf it takes for recovered has no lost key.
LEMMA TestInv == ASSUME LazyAssumption, Inv, NEW t \in Threads, Test(t) PROVE Inv'
<1>. DEFINE to == IF loggedepoch[at[t]] <= Failed /\ MustUndo(at[t]) THEN "wait" ELSE "go"
<1>1. Goto(t, "test", to) /\ UNCHANGED <<leafvars, locked, bucket, globalepoch, at, op, got>>
  BY DEF Test, locks
<1>2. to \in PCs /\ to \notin {"done", "save", "store", "unlock"}
  BY DEF PCs
<1>3. at[t] \in Leaves
  BY DEF Inv, TypeOK
<1>4. pc'[t] = to
  BY <1>1, <1>2, GotoPC DEF Inv
<1>5. Recovered(t)' => permutation[at[t]] \cap LostKeys = {}
  <2>1. SUFFICES ASSUME Recovered(t)' PROVE ~MustUndo(at[t])
    BY <1>3 DEF Inv, LostMeansLogged
  <2>2. to = "go"
    BY <1>4, <2>1 DEF Recovered
  <2>3. ~(loggedepoch[at[t]] <= Failed /\ MustUndo(at[t]))
    BY <2>2
  <2>. QED  BY <2>3 DEF MustUndo, LazyAssumption
<1>6. locked' \subseteq Leaves /\ bucket' \in [Buckets -> Threads \cup {Nobody}]
  BY <1>1 DEF Inv, TypeOK
<1>. HIDE DEF to
<1>. QED  BY <1>1, <1>2, <1>5, <1>6, QuietInv

\* BucketLocks::lock
LEMMA TakeBucketInv == ASSUME LazyAssumption, Inv, NEW t \in Threads, TakeBucket(t) PROVE Inv'
<1>1. /\ Goto(t, "wait", "undo") /\ UNCHANGED <<leafvars, globalepoch, at, op, got>>
      /\ bucket' = [bucket EXCEPT ![Bucket[at[t]]] = t] /\ locked' = locked
  BY DEF TakeBucket
<1>2. "undo" \in PCs /\ "undo" \notin {"done", "save", "store", "unlock"}
  BY DEF PCs
<1>3. ~Recovered(t)'
  BY <1>1, <1>2, GotoPC DEF Inv, Recovered
<1>4. locked' \subseteq Leaves /\ bucket' \in [Buckets -> Threads \cup {Nobody}]
  BY <1>1 DEF Inv, TypeOK
<1>. QED  BY <1>1, <1>2, <1>3, <1>4, QuietInv

\* recover_cl0: the leaf has the permutation of the log.
LEMMA RecoverCl0Inv == ASSUME LazyAssumption, Inv, NEW t \in Threads, RecoverCl0(t) PROVE Inv'
<1>1. /\ Goto(t, "undo", "final") /\ at[t] \in Leaves
      /\ permutation' = [permutation EXCEPT ![at[t]] = perm_cl0[at[t]]]
      /\ UNCHANGED <<perm_cl0, cl0_valid, loggedepoch, not_logged, locked, bucket, globalepoch,
                     at, op, got>>
  BY DEF RecoverCl0, locks, Inv, TypeOK
<1>2. "final" \in PCs /\ "final" # "done"
  BY DEF PCs
<1>3. /\ pc'[t] = "final" /\ pc' \in [Threads -> PCs]
      /\ \A u \in Threads : u # t => pc'[u] = pc[u]
  BY <1>1, <1>2, GotoPC DEF Inv
<1>4. /\ permutation' \in [Leaves -> SUBSET Keys]
      /\ permutation'[at[t]] = perm_cl0[at[t]]
      /\ \A l \in Leaves : l # at[t] => permutation'[l] = permutation[l]
  BY <1>1 DEF Inv, TypeOK
<1>5. OldKeys \subseteq perm_cl0[at[t]] /\ perm_cl0[at[t]] \cap LostKeys = {}
  BY <1>1 DEF Inv, LogsAreClean
<1>6. TypeOK'
  BY <1>1, <1>3, <1>4 DEF Inv, TypeOK, PCs
<1>7. LostMeansLogged'
  BY <1>1, <1>4, <1>5 DEF Inv, LostMeansLogged, MustUndo
<1>8. LogsAreClean'
  BY <1>1, <1>4, <1>5 DEF Inv, LogsAreClean
<1>9. RecoveredIsClean'
  <2>1. SUFFICES ASSUME NEW u \in Threads, Recovered(u)'
                 PROVE  permutation'[at[u]] \cap LostKeys = {}
    BY <1>1 DEF RecoveredIsClean
  <2>2. CASE at[u] = at[t]
    BY <1>4, <1>5, <2>2
  <2>3. CASE at[u] # at[t]
    <3>1. at[u] \in Leaves /\ u # t
      BY <2>3 DEF Inv, TypeOK
    <3>2. Recovered(u)
      BY <1>3, <2>1, <3>1 DEF Recovered
    <3>. QED  BY <1>4, <2>3, <3>1, <3>2 DEF Inv, RecoveredIsClean
  <2>. QED  BY <2>2, <2>3
<1>10. PutsLock' /\ ReadsRecovered'
  BY <1>1, <1>2, <1>3 DEF Inv, PutsLock, ReadsRecovered
<1>. QED  BY <1>6, <1>7, <1>8, <1>9, <1>10 DEF Inv

\* recover_final invalidates the log of a leaf that is recovered.
LEMMA RecoverFinalInv == ASSUME LazyAssumption, Inv, NEW t \in Threads, RecoverFinal(t) PROVE Inv'
<1>1. /\ Goto(t, "final", "release") /\ at[t] \in Leaves /\ globalepoch \in Failed + 1..MaxEpoch
      /\ cl0_valid' = [cl0_valid EXCEPT ![at[t]] = FALSE]
      /\ loggedepoch' = [loggedepoch EXCEPT ![at[t]] = globalepoch - 1]
      /\ UNCHANGED <<permutation, perm_cl0, not_logged, locked, bucket, globalepoch, at, op, got>>
  BY DEF RecoverFinal, locks, Inv, TypeOK
<1>2. "release" \in PCs /\ "release" # "done"
  BY DEF PCs
<1>3. /\ pc[t] = "final" /\ pc'[t] = "release" /\ pc' \in [Threads -> PCs]
      /\ \A u \in Threads : u # t => pc'[u] = pc[u]
  BY <1>1, <1>2, GotoPC DEF Inv
<1>4. /\ cl0_valid' \in [Leaves -> BOOLEAN] /\ loggedepoch' \in [Leaves -> 0..MaxEpoch]
      /\ \A l \in Leaves : l # at[t] =>
           cl0_valid'[l] = cl0_valid[l] /\ loggedepoch'[l] = loggedepoch[l]
  <2>1. globalepoch - 1 \in 0..MaxEpoch
    BY <1>1 DEF LazyAssumption
  <2>. QED  BY <1>1, <2>1 DEF Inv, TypeOK
<1>5. TypeOK'
  BY <1>1, <1>3, <1>4 DEF Inv, TypeOK, PCs
<1>6. permutation[at[t]] \cap LostKeys = {}
  BY <1>3 DEF Inv, RecoveredIsClean, Recovered
<1>7. LostMeansLogged'
  BY <1>1, <1>4, <1>6 DEF Inv, LostMeansLogged, MustUndo
<1>8. LogsAreClean'
  BY <1>1 DEF Inv, LogsAreClean
<1>9. RecoveredIsClean'
  BY <1>1, <1>3 DEF Inv, RecoveredIsClean, Recovered
<1>10. PutsLock' /\ ReadsRecovered'
  BY <1>1, <1>2, <1>3 DEF Inv, PutsLock, ReadsRecovered
<1>. QED  BY <1>5, <1>7, <1>8, <1>9, <1>10 DEF Inv

\* BucketLocks::unlock
LEMMA ReleaseBucketInv ==
  ASSUME LazyAssumption, Inv, NEW t \in Threads, ReleaseBucket(t) PROVE Inv'
<1>1. /\ Goto(t, "release", "go") /\ UNCHANGED <<leafvars, globalepoch, at, op, got>>
      /\ bucket' = [bucket EXCEPT ![Bucket[at[t]]] = Nobody] /\ locked' = locked
  BY DEF ReleaseBucket
<1>2. "go" \in PCs /\ "go" \notin {"done", "save", "store", "unlock"}
  BY DEF PCs
<1>3. permutation[at[t]] \cap LostKeys = {}
  BY <1>1, <1>2, GotoPC DEF Inv, RecoveredIsClean, Recovered
<1>4. locked' \subseteq Leaves /\ bucket' \in [Buckets -> Threads \cup {Nobody}]
  BY <1>1 DEF Inv, TypeOK
<1>. QED  BY <1>1, <1>2, <1>3, <1>4, QuietInv

\* A get reads a recovered leaf.
LEMMA GetInv == ASSUME LazyAssumption, Inv, NEW t \in Threads, Get(t) PROVE Inv'
<1>1. /\ Goto(t, "go", "done") /\ at[t] \in Leaves
      /\ got' = [got EXCEPT ![t] = permutation[at[t]]]
      /\ UNCHANGED <<permutation, perm_cl0, cl0_valid, loggedepoch, not_logged, locked, bucket,
                     globalepoch, at, op>>
  BY DEF Get, leafvars, locks, Inv, TypeOK
<1>2. "done" \in PCs
  BY DEF PCs
<1>3. /\ pc[t] = "go" /\ pc'[t] = "done" /\ pc' \in [Threads -> PCs]
      /\ \A u \in Threads : u # t => pc'[u] = pc[u]
  BY <1>1, <1>2, GotoPC DEF Inv
<1>4. permutation[at[t]] \cap LostKeys = {} /\ OldKeys \subseteq permutation[at[t]]
  BY <1>1, <1>3 DEF Inv, RecoveredIsClean, Recovered, LogsAreClean
<1>5. TypeOK'
  BY <1>1, <1>3 DEF Inv, TypeOK, PCs
<1>6. LostMeansLogged' /\ LogsAreClean'
  BY <1>1 DEF Inv, LostMeansLogged, LogsAreClean, MustUndo
<1>7. RecoveredIsClean'
  BY <1>1, <1>3 DEF Inv, RecoveredIsClean, Recovered
<1>8. /\ got'[t] = permutation[at[t]]
      /\ \A u \in Threads : u # t => got'[u] = got[u]
  BY <1>1 DEF Inv, TypeOK
<1>9. PutsLock' /\ ReadsRecovered'
  BY <1>1, <1>3, <1>4, <1>8 DEF Inv, PutsLock, ReadsRecovered
<1>. QED  BY <1>5, <1>6, <1>7, <1>9 DEF Inv

\* The leaf lock is taken after recovery.
LEMMA LockLeafInv == ASSUME LazyAssumption, Inv, NEW t \in Threads, LockLeaf(t) PROVE Inv'
<1>1. /\ Goto(t, "go", "save") /\ UNCHANGED <<leafvars, globalepoch, at, op, got>>
      /\ locked' = locked \cup {at[t]} /\ bucket' = bucket
  BY DEF LockLeaf
<1>2. "save" \in PCs /\ "save" \notin {"store", "unlock"} /\ op[t] = "put"
  BY DEF PCs, LockLeaf
<1>3. permutation[at[t]] \cap LostKeys = {}
  BY <1>1, <1>2, GotoPC DEF Inv, RecoveredIsClean, Recovered
<1>4. locked' \subseteq Leaves /\ bucket' \in [Buckets -> Threads \cup {Nobody}]
  BY <1>1 DEF Inv, TypeOK
<1>. QED  BY <1>1, <1>2, <1>3, <1>4, QuietInv

\* save_cl0_insert logs a permutation without lost keys.
LEMMA SaveCl0Inv == ASSUME LazyAssumption, Inv, NEW t \in Threads, SaveCl0(t) PROVE Inv'
<1>. DEFINE l == at[t]
            first == loggedepoch[l] # globalepoch
<1>1. /\ Goto(t, "save", "store") /\ l \in Leaves /\ globalepoch \in Failed + 1..MaxEpoch
      /\ perm_cl0' = IF first THEN [perm_cl0 EXCEPT ![l] = permutation[l]] ELSE perm_cl0
      /\ loggedepoch' = [loggedepoch EXCEPT ![l] = globalepoch]
      /\ cl0_valid' = [cl0_valid EXCEPT ![l] = IF first THEN TRUE ELSE @ /\ ~not_logged[l]]
      /\ not_logged' = [not_logged EXCEPT ![l] = first]
      /\ UNCHANGED <<permutation, locked, bucket, globalepoch, at, op, got>>
  BY DEF SaveCl0, locks, Inv, TypeOK
<1>2. "store" \in PCs /\ "store" # "done"
  BY DEF PCs
<1>3. /\ pc[t] = "save" /\ pc'[t] = "store" /\ pc' \in [Threads -> PCs]
      /\ \A u \in Threads : u # t => pc'[u] = pc[u]
  BY <1>1, <1>2, GotoPC DEF Inv
<1>4. permutation[l] \cap LostKeys = {} /\ OldKeys \subseteq permutation[l]
  BY <1>1, <1>3 DEF Inv, RecoveredIsClean, Recovered, LogsAreClean
<1>5. /\ perm_cl0' \in [Leaves -> SUBSET Keys]
      /\ \A k \in Leaves : perm_cl0'[k] \in {perm_cl0[k], permutation[k]}
      /\ \A k \in Leaves : k # l => perm_cl0'[k] = perm_cl0[k]
  BY <1>1 DEF Inv, TypeOK
<1>6. /\ not_logged' \in [Leaves -> BOOLEAN] /\ loggedepoch' \in [Leaves -> 0..MaxEpoch]
      /\ \A k \in Leaves : k # l => loggedepoch'[k] = loggedepoch[k]
  BY <1>1 DEF Inv, TypeOK, LazyAssumption
<1>7. /\ cl0_valid' \in [Leaves -> BOOLEAN]
      /\ \A k \in Leaves : k # l => cl0_valid'[k] = cl0_valid[k]
  BY <1>1 DEF Inv, TypeOK
<1>. HIDE DEF first
<1>8. TypeOK'
  BY <1>1, <1>3, <1>5, <1>6, <1>7 DEF Inv, TypeOK, PCs
<1>9. LostMeansLogged'
  BY <1>1, <1>4, <1>6, <1>7 DEF Inv, LostMeansLogged, MustUndo
<1>10. LogsAreClean'
  BY <1>1, <1>4, <1>5 DEF Inv, LogsAreClean
<1>11. RecoveredIsClean'
  BY <1>1, <1>3 DEF Inv, RecoveredIsClean, Recovered
<1>12. PutsLock' /\ ReadsRecovered'
  BY <1>1, <1>2, <1>3 DEF Inv, PutsLock, ReadsRecovered
<1>. QED  BY <1>8, <1>9, <1>10, <1>11, <1>12 DEF Inv

\* finish_insert adds a key that was not lost.
LEMMA StoreInsertInv == ASSUME LazyAssumption, Inv, NEW t \in Threads, StoreInsert(t) PROVE Inv'
<1>1. /\ Goto(t, "store", "unlock") /\ at[t] \in Leaves
      /\ permutation' = [permutation EXCEPT ![at[t]] = @ \cup {NewKey[t]}]
      /\ UNCHANGED <<perm_cl0, cl0_valid, loggedepoch, not_logged, locked, bucket, globalepoch,
                     at, op, got>>
  BY DEF StoreInsert, locks, Inv, TypeOK
<1>2. "unlock" \in PCs /\ "unlock" # "done"
  BY DEF PCs
<1>3. /\ pc[t] = "store" /\ pc'[t] = "unlock" /\ pc' \in [Threads -> PCs]
      /\ \A u \in Threads : u # t => pc'[u] = pc[u]
  BY <1>1, <1>2, GotoPC DEF Inv
<1>4. NewKey[t] \in Keys /\ NewKey[t] \notin LostKeys
  BY DEF Keys, NewKeys, LazyAssumption
<1>5. /\ permutation' \in [Leaves -> SUBSET Keys]
      /\ permutation'[at[t]] = permutation[at[t]] \cup {NewKey[t]}
      /\ \A l \in Leaves : l # at[t] => permutation'[l] = permutation[l]
  BY <1>1, <1>4 DEF Inv, TypeOK
<1>6. \A l \in Leaves : /\ permutation[l] \subseteq permutation'[l]
                        /\ permutation[l] \cap LostKeys = {} => permutation'[l] \cap LostKeys = {}
  BY <1>4, <1>5
<1>7. TypeOK'
  BY <1>1, <1>3, <1>5 DEF Inv, TypeOK, PCs
<1>8. LostMeansLogged'
  BY <1>1, <1>6 DEF Inv, LostMeansLogged, MustUndo
<1>9. LogsAreClean'
  BY <1>1, <1>6 DEF Inv, LogsAreClean
<1>10. RecoveredIsClean'
  <2>1. SUFFICES ASSUME NEW u \in Threads, Recovered(u)'
                 PROVE  permutation'[at[u]] \cap LostKeys = {}
    BY <1>1 DEF RecoveredIsClean
  <2>2. Recovered(u) /\ at[u] \in Leaves
    BY <1>3, <2>1 DEF Recovered, Inv, TypeOK
  <2>. QED  BY <1>6, <2>2 DEF Inv, RecoveredIsClean
<1>11. PutsLock' /\ ReadsRecovered'
  BY <1>1, <1>2, <1>3 DEF Inv, PutsLock, ReadsRecovered
<1>. QED  BY <1>7, <1>8, <1>9, <1>10, <1>11 DEF Inv

\* The put returns.
LEMMA UnlockLeafInv == ASSUME LazyAssumption, Inv, NEW t \in Threads, UnlockLeaf(t) PROVE Inv'
<1>1. /\ Goto(t, "unlock", "done") /\ UNCHANGED <<leafvars, globalepoch, at, op, got>>
      /\ locked' = locked \ {at[t]} /\ bucket' = bucket
  BY DEF UnlockLeaf
<1>2. "done" \in PCs /\ "done" \notin {"store", "unlock"}
  BY DEF PCs
<1>3. permutation[at[t]] \cap LostKeys = {} /\ op[t] = "put"
  BY <1>1, <1>2, GotoPC DEF Inv, RecoveredIsClean, Recovered, PutsLock
<1>4. locked' \subseteq Leaves /\ bucket' \in [Buckets -> Threads \cup {Nobody}]
  BY <1>1 DEF Inv, TypeOK
<1>. QED  BY <1>1, <1>2, <1>3, <1>4, QuietInv

\* Every step keeps the invariant.
LEMMA NextInv == ASSUME LazyAssumption, Inv, [Next]_vars PROVE Inv'
<1>1. CASE UNCHANGED vars
  <2>1. TypeOK'
    BY <1>1 DEF vars, Inv, TypeOK
  <2>2. LostMeansLogged' /\ LogsAreClean'
    BY <1>1 DEF vars, Inv, LostMeansLogged, LogsAreClean, MustUndo
  <2>3. RecoveredIsClean' /\ PutsLock' /\ ReadsRecovered'
    BY <1>1 DEF vars, Inv, RecoveredIsClean, Recovered, PutsLock, ReadsRecovered
  <2>. QED  BY <2>1, <2>2, <2>3 DEF Inv
<1>2. ASSUME NEW t \in Threads, Step(t) PROVE Inv'
  <2>1. CASE Test(t)  BY <2>1, TestInv
  <2>2. CASE TakeBucket(t)  BY <2>2, TakeBucketInv
  <2>3. CASE RecoverCl0(t)  BY <2>3, RecoverCl0Inv
  <2>4. CASE RecoverFinal(t)  BY <2>4, RecoverFinalInv
  <2>5. CASE ReleaseBucket(t)  BY <2>5, ReleaseBucketInv
  <2>6. CASE Get(t)  BY <2>6, GetInv
  <2>7. CASE LockLeaf(t)  BY <2>7, LockLeafInv
  <2>8. CASE SaveCl0(t)  BY <2>8, SaveCl0Inv
  <2>9. CASE StoreInsert(t)  BY <2>9, StoreInsertInv
  <2>10. CASE UnlockLeaf(t)  BY <2>10, UnlockLeafInv
  <2>. QED  BY <1>2, <2>1, <2>2, <2>3, <2>4, <2>5, <2>6, <2>7, <2>8, <2>9, <2>10 DEF Step
<1>3. CASE Finished  BY <1>1, <1>3 DEF Finished
<1>. QED  BY <1>1, <1>2, <1>3 DEF Next

-----------------------------------------------------------------------------
\* Who holds a lock keeps it until it lets go.
LEMMA NextLockInv == ASSUME LazyAssumption, TypeOK, LockInv, [Next]_vars PROVE LockInv'
<1>1. CASE UNCHANGED vars
  BY <1>1 DEF vars, LockInv
<1>2. ASSUME NEW t \in Threads, Step(t) PROVE LockInv'
  <2>0. /\ at' = at /\ pc \in [Threads -> PCs] /\ at[t] \in Leaves
        /\ bucket \in [Buckets -> Threads \cup {Nobody}]
        /\ \A u \in Threads : Bucket[at[u]] \in Buckets
    BY <1>2 DEF TypeOK, PCs, Buckets, Step, Test, TakeBucket, RecoverCl0, RecoverFinal, ReleaseBucket,
       Get, LockLeaf, SaveCl0, StoreInsert, UnlockLeaf
  <2>1. CASE TakeBucket(t)
    BY <2>0, <2>1 DEF TakeBucket, Goto, LockInv, LazyAssumption
  <2>2. CASE ReleaseBucket(t)
    BY <2>0, <2>2 DEF ReleaseBucket, Goto, LockInv
  <2>3. CASE LockLeaf(t)
    BY <2>0, <2>3 DEF LockLeaf, Goto, LockInv
  <2>4. CASE UnlockLeaf(t)
    BY <2>0, <2>4 DEF UnlockLeaf, Goto, LockInv
  <2>5. CASE Test(t)
    BY <2>0, <2>5 DEF Test, Goto, LockInv, locks
  <2>6. CASE RecoverCl0(t) \/ RecoverFinal(t) \/ Get(t)
    BY <2>0, <2>6 DEF RecoverCl0, RecoverFinal, Get, Goto, LockInv, locks
  <2>7. CASE SaveCl0(t)
    <3>1. locked' = locked /\ bucket' = bucket /\ Goto(t, "save", "store")
      BY <2>7 DEF SaveCl0, locks
    <3>. QED  BY <2>0, <3>1 DEF Goto, LockInv
  <2>8. CASE StoreInsert(t)
    BY <2>0, <2>8 DEF StoreInsert, Goto, LockInv, locks
  <2>. QED  BY <1>2, <2>1, <2>2, <2>3, <2>4, <2>5, <2>6, <2>7, <2>8 DEF Step
<1>3. CASE Finished  BY <1>1, <1>3 DEF Finished
<1>. QED  BY <1>1, <1>2, <1>3 DEF Next

-----------------------------------------------------------------------------
\* The leaves, locks and threads keep their types.
THEOREM LazyTypeCorrect == ASSUME LazyAssumption PROVE Spec => []TypeOK
<1>1. Init => Inv  BY InitInv
<1>2. Inv /\ [Next]_vars => Inv'  BY NextInv
<1>3. Inv => TypeOK  BY DEF Inv
<1>. QED  BY <1>1, <1>2, <1>3, PTL DEF Spec

\* A get that has been through lazy_recovery returns every key of the
\* checkpoint and none of the failed epoch, whatever the others recover.
THEOREM LazyReadsRecovered == ASSUME LazyAssumption PROVE Spec => []ReadsRecovered
<1>1. Init => Inv  BY InitInv
<1>2. Inv /\ [Next]_vars => Inv'  BY NextInv
<1>3. Inv => ReadsRecovered  BY DEF Inv
<1>. QED  BY <1>1, <1>2, <1>3, PTL DEF Spec

\* A bucket lock admits one recovery at a time to the leaves that hash to it,
\* a leaf lock one put.
THEOREM LazyLocksExclude == ASSUME LazyAssumption PROVE Spec => []LocksExclude
<1>1. Init => Inv /\ LockInv
  BY InitInv DEF LockInv, Init
<1>2. Inv /\ LockInv /\ [Next]_vars => Inv' /\ LockInv'
  BY NextInv, NextLockInv DEF Inv
<1>3. LockInv => LocksExclude
  BY DEF LockInv, LocksExclude
<1>. QED  BY <1>1, <1>2, <1>3, PTL DEF Spec
=============================================================================
