--------------------------- MODULE Layers_proofs ---------------------------
(***************************************************************************)
(* Theorems about the trie of layers: for any threads, keys and leaves, a  *)
(* get returns what its key held while it ran, no put is lost, and no      *)
(* emptied layer is forgotten.                                             *)
(*                                                                         *)
(* The invariant says of the leaves in the trie that their paths are       *)
(* unique and closed under prefixes, that what a leaf has for a key is     *)
(* what the key holds, and that an empty one has its callback or its       *)
(* collector; and of a thread where it stands, what it may rely on of what *)
(* it read, and what is its own while it holds a lock.                     *)
(***************************************************************************)
EXTENDS Layers, SequenceTheorems, WellFoundedInduction, NaturalsInduction, TLAPS

-----------------------------------------------------------------------------
(* Path p is that of the slices of key k above slice d.                    *)
Leads(p, k, d) == Len(p) = d - 1 /\ \A i \in 1..(d - 1) : p[i] = k[i]
Same(p, q) == Leads(p, q, Len(q) + 1)
In(l) == leaf[l].place = "in"
Ent(l, s) == leaf[l].ent[s]
Path(l) == leaf[l].path

\* Paths are unique; a layer's entry leads to the leaf of its path; above
\* every leaf there are the leaves of the prefixes of its path.
RootInv == In(1) /\ Len(Path(1)) = 0 /\ leaf[1].mod # "deleted"
UniqueInv == \A l, m \in Leaves : In(l) /\ In(m) /\ Same(Path(l), Path(m)) => l = m
LayerInv ==
  \A l \in Leaves, s \in Slices :
    In(l) /\ Ent(l, <<s, "more">>).kind = "layer" =>
      LET m == Ent(l, <<s, "more">>).to
      IN In(m) /\ Leads(Path(l), Path(m), Len(Path(m))) /\ Path(m)[Len(Path(m))] = s
Above(l, i) ==
  \E m \in Leaves : /\ In(m) /\ Leads(Path(m), Path(l), i)
                    /\ Ent(m, <<Path(l)[i], "more">>).kind = "layer"
AboveInv == \A l \in Leaves : In(l) => \A i \in 1..Len(Path(l)) : Above(l, i)

\* Entries are of the kind their slot is for; a leaf that is deleted, not
\* yet made or gone has none.
GoodEntry(s, e) ==
  /\ e.kind = "layer" => s[2] = "more" /\ e = Layer(e.to)
  /\ e.kind = "value" => (s[2] = "end" <=> Len(e.suf) = 0)
EntryInv == \A l \in Leaves, s \in TrieSlots : GoodEntry(s, Ent(l, s))
EmptyInv ==
  \A l \in Leaves :
    /\ leaf[l].place \in {"free", "out"} \/ leaf[l].mod = "deleted" =>
         \A s \in TrieSlots : Ent(l, s).kind = "none"
    /\ leaf[l].place = "out" => leaf[l].mod = "deleted"

\* What a leaf has for a key is what the key holds, unless the entry is on
\* its way from a value to a layer.
Swapping(l, s) == \E t \in Threads : At(t, "swapped") /\ cur[t].n = l /\ Slot_(t) = s
Right(l, k, d) ==
  LET e == Ent(l, Slot(k, d))
  IN /\ e.kind = "none" => abs[k] = NoValue
     /\ e.kind = "value" /\ e.suf # Suffix(k, d) => abs[k] = NoValue
     /\ e.kind = "value" /\ e.suf = Suffix(k, d) => e.val = abs[k] \/ Swapping(l, Slot(k, d))
ContentInv ==
  \A l \in Leaves, k \in Keys : \A d \in 1..Len(k) : In(l) /\ Leads(Path(l), k, d) => Right(l, k, d)

-----------------------------------------------------------------------------
Search == {"reach", "entry", "valid", "layer", "lock"}
Making == {"swap", "swapped"}
Holding == {"put", "remove", "gc", "swap", "swapped", "publish", "gclock", "gcremove", "unlock"}
Unmarked == {"put", "remove", "gc", "swap", "gclock", "gcremove"}
Collects == Search \cup {"gc", "gclock", "gcremove"}

OpInv(t) ==
  LET c == cur[t]
  IN c.pc # "idle" =>
       /\ c.d \in 1..Len(c.k)
       /\ c.op # "gc" => c.k \in Keys /\ abs[c.k] \in seen[t]
       /\ c.pc = "valid" => c.op = "get"
       /\ c.pc \in {"layer", "lock", "unlock"} => c.op # "get"
       /\ c.pc \in {"put", "swap", "swapped", "publish"} => c.op = "put"
       /\ c.pc = "remove" => c.op = "remove"
       /\ c.pc \in {"gc", "gclock", "gcremove"} => c.op = "gc"
       /\ c.pc = "done" /\ c.op = "get" => c.got \in seen[t]

\* A thread stands at a leaf of its key's path; a get at one that is gone
\* has seen its key absent.
Stands(t, l, d) ==
  /\ leaf[l].place \in {"in", "out"} /\ Leads(Path(l), cur[t].k, d)
  /\ cur[t].op = "get" /\ leaf[l].place = "out" => NoValue \in seen[t]
StandInv(t) ==
  LET c == cur[t]
  IN /\ c.pc \in Search => Stands(t, c.n, c.d)
     /\ c.pc \in {"valid", "layer"} /\ c.e.kind = "layer" => Stands(t, c.e.to, c.d + 1) /\ c.d < Len(c.k)

\* What a version that has not changed vouches for.
Implied(t) == IF Matches(t) THEN cur[t].e.val ELSE NoValue
VersionInv(t) ==
  LET c == cur[t]
  IN /\ c.pc \in {"entry", "valid", "layer", "lock"} => c.v <= leaf[c.n].vi
     /\ c.pc = "valid" /\ ~Changed(t) /\ c.e.kind # "layer" => Implied(t) \in seen[t]
     /\ c.pc \in {"layer", "lock"} /\ leaf[c.n].vi = c.v /\ Entry(t).kind = "layer" => c.e.kind = "layer"
     /\ c.pc = "lock" /\ c.e.kind = "layer" => Changed(t)

\* What a thread that holds a lock knows.
LockInv(t) ==
  LET c == cur[t]
      n == cur[t].n
  IN /\ c.pc \in Holding => /\ In(n) /\ Leads(Path(n), c.k, c.d)
                            /\ leaf[n].lock /\ leaf[n].mod # "deleted"
     /\ c.pc \in Unmarked => ~leaf[n].ins
     /\ c.pc \in {"put", "remove", "gc", "swap"} => c.e = Entry(t) /\ c.e.kind # "layer"
     /\ c.pc = "publish" => Entry(t).kind = "none"
     /\ c.pc \in {"gclock", "gcremove"} =>
          c.d = Len(c.k) /\ Ent(n, LayerSlot(t)).kind = "layer" /\ Ent(n, LayerSlot(t)).to = c.to
     /\ c.pc = "gcremove" => leaf[c.to].mod = "deleted"
     /\ c.pc = "swapped" => leaf[n].ins /\ Entry(t) = Value(c.e.suf, Torn)

\* The new leaves of a thread that makes a layer: the twig and, below it,
\* the leaf that has the old entry and a free one for the thread's key.
TwigSlot(t, i) ==
  LET c == cur[t] IN IF i < Len(c.new) THEN <<c.k[c.d + i], "more">> ELSE Slot(c.e.suf, i)
TwigEntry(t, i) ==
  LET c == cur[t]
  IN IF i < Len(c.new) THEN Layer(c.new[i + 1]) ELSE Value(Suffix(c.e.suf, i), c.e.val)
TwigInv(t, i) ==
  LET c == cur[t]
      x == leaf[c.new[i]]
  IN /\ x.place = "new" /\ x.mod = "insert" /\ ~x.ins /\ Leads(x.path, c.k, c.d + i)
     /\ i = Len(c.new) => x.lock
     /\ \A s \in TrieSlots : x.ent[s] = IF s = TwigSlot(t, i) THEN TwigEntry(t, i) ELSE NoEntry
MakeInv(t) ==
  LET c == cur[t]
      m == Len(c.new)
  IN c.pc \in Making =>
       /\ c.e.kind = "value" /\ c.e.suf # Suffix(c.k, c.d)
       /\ m >= 1 /\ m <= Len(c.e.suf) /\ c.d + m <= Len(c.k)
       /\ \A i \in 1..(m - 1) : c.e.suf[i] = c.k[c.d + i]
       /\ Slot(c.e.suf, m) # Slot(c.k, c.d + m)
       /\ \A i, j \in 1..m : c.new[i] = c.new[j] => i = j
       /\ \A i \in 1..m : TwigInv(t, i)
\* The key of the entry that turns into a layer keeps its value.
OldInv(t) ==
  LET c == cur[t]
  IN c.pc = "swapped" =>
       \A q \in Keys : c.d <= Len(q) /\ Leads(Path(c.n), q, c.d) /\ Slot(q, c.d) = Slot_(t)
                         /\ Suffix(q, c.d) = c.e.suf => abs[q] = c.e.val

ThreadInv(t) ==
  OpInv(t) /\ StandInv(t) /\ VersionInv(t) /\ LockInv(t) /\ MakeInv(t) /\ OldInv(t)

\* Locks and new leaves belong to one thread; new leaves to a thread.
ApartInv ==
  \A t, u \in Threads : t # u =>
    /\ cur[t].pc \in Holding /\ cur[u].pc \in Holding => cur[t].n # cur[u].n
    /\ cur[t].pc \in Making /\ cur[u].pc \in Making =>
         \A i \in 1..Len(cur[t].new), j \in 1..Len(cur[u].new) : cur[t].new[i] # cur[u].new[j]
OwnedInv ==
  \A l \in Leaves : leaf[l].place = "new" =>
    \E t \in Threads : cur[t].pc \in Making /\ \E i \in 1..Len(cur[t].new) : cur[t].new[i] = l

\* An empty layer has its callback or its collector.
Covered(p) ==
  \/ \E c \in callbacks : Same(p, c.prefix)
  \/ \E t \in Threads : cur[t].op = "gc" /\ cur[t].pc \in Collects /\ Same(p, cur[t].k)
CoverInv ==
  \A l \in Leaves : In(l) /\ l # 1 /\ (\A s \in TrieSlots : Ent(l, s).kind = "none") => Covered(Path(l))

TrieInv == RootInv /\ UniqueInv /\ LayerInv /\ AboveInv
Inv ==
  /\ LayersTypeOK /\ TrieInv /\ EntryInv /\ EmptyInv /\ ContentInv
  /\ (\A t \in Threads : ThreadInv(t)) /\ ApartInv /\ OwnedInv /\ CoverInv

-----------------------------------------------------------------------------
(* Sequences.                                                              *)

\* A set of naturals that is not empty has a least element.
LEMMA Least ==
  ASSUME NEW T \in SUBSET Nat, T # {}
  PROVE  \E m \in T : \A n \in T : m <= n
<1> DEFINE Less == {p \in Nat \X Nat : p[1] < p[2]}
<1>1. OpToRel(<, Nat) = Less
  BY Zenon DEF OpToRel
<1>2. IsWellFoundedOn(Less, Nat)
  BY <1>1, NatLessThanWellFounded, Zenon
<1>3. \A x, y \in Nat : x < y => <<x, y>> \in Less
  OBVIOUS
<1> HIDE DEF Less
<1>4. PICK m \in T : \A y \in T : ~(<<y, m>> \in Less)
  BY <1>2, WFMin
<1>5. \A n \in T : ~(n < m)
  BY <1>3, <1>4
<1>6. \A n \in T : m <= n
  BY <1>5
<1> QED BY <1>6

LEMMA SubSeqFacts ==
  ASSUME NEW S, NEW k \in Seq(S), NEW b \in Nat, b <= Len(k)
  PROVE  /\ SubSeq(k, 1, b) \in Seq(S)
         /\ Len(SubSeq(k, 1, b)) = b
         /\ \A i \in 1..b : SubSeq(k, 1, b)[i] = k[i]
  OBVIOUS

LEMMA SuffixFacts ==
  ASSUME NEW k \in Seq(Slices), NEW d \in 1..Len(k)
  PROVE  /\ Suffix(k, d) \in Seq(Slices)
         /\ Len(Suffix(k, d)) = Len(k) - d
         /\ \A i \in 1..(Len(k) - d) : Suffix(k, d)[i] = k[d + i]
  BY DEF Suffix

LEMMA SlotFacts ==
  ASSUME NEW k \in Seq(Slices), NEW d \in 1..Len(k)
  PROVE  /\ Slot(k, d) \in TrieSlots /\ k[d] \in Slices
         /\ Slot(k, d)[1] = k[d]
         /\ Slot(k, d)[2] = "end" <=> Len(k) = d
         /\ Slot(k, d)[2] = "more" <=> Len(k) # d
         /\ d < Len(k) => Slot(k, d) = <<k[d], "more">>
  BY DEF Slot, TrieSlots

\* Two keys with one path, one slot and one suffix are one key.
LEMMA SameKey ==
  ASSUME NEW k \in Seq(Slices), NEW q \in Seq(Slices), NEW d \in 1..Len(k), d <= Len(q), NEW p,
         Leads(p, k, d), Leads(p, q, d), Slot(k, d) = Slot(q, d), Suffix(k, d) = Suffix(q, d)
  PROVE  k = q
<1>1. d \in 1..Len(q)
  OBVIOUS
<1>2. Len(k) = Len(q)
  BY <1>1, SuffixFacts
<1>3. ASSUME NEW i \in 1..Len(k) PROVE k[i] = q[i]
  <2>1. CASE i < d
    BY <2>1 DEF Leads
  <2>2. CASE i = d
    BY <2>2, <1>1, SlotFacts
  <2>3. CASE i > d
    <3>1. i - d \in 1..(Len(k) - d) /\ d + (i - d) = i
      BY <2>3
    <3>2. Suffix(k, d)[i - d] = k[d + (i - d)]
      BY <3>1, SuffixFacts
    <3>3. Suffix(q, d)[i - d] = q[d + (i - d)]
      BY <3>1, <1>1, <1>2, SuffixFacts
    <3> QED BY <3>1, <3>2, <3>3
  <2> QED BY <2>1, <2>2, <2>3
<1> QED BY <1>2, <1>3, SeqEqual

\* A suffix that is one from a lower slice on.
LEMMA JoinSuffix ==
  ASSUME NEW q \in Seq(Slices), NEW suf \in Seq(Slices), NEW d \in Nat, d >= 1,
         NEW m \in 1..Len(suf), d + m <= Len(q),
         \A i \in 1..(m - 1) : suf[i] = q[d + i],
         Slot(q, d + m) = Slot(suf, m)
  PROVE  Suffix(q, d + m) = Suffix(suf, m) <=> Suffix(q, d) = suf
<1>0. d + m \in 1..Len(q) /\ d \in 1..Len(q)
  OBVIOUS
<1>1. q[d + m] = suf[m]
  BY <1>0, SlotFacts
<1>2. ASSUME Suffix(q, d + m) = Suffix(suf, m) PROVE Suffix(q, d) = suf
  <2>1. Len(q) - d = Len(suf)
    BY <1>0, <1>2, SuffixFacts
  <2>2. ASSUME NEW i \in 1..Len(suf) PROVE q[d + i] = suf[i]
    <3>1. CASE i < m
      BY <3>1
    <3>2. CASE i = m
      BY <3>2, <1>1
    <3>3. CASE i > m
      <4>1. i - m \in 1..(Len(suf) - m) /\ m + (i - m) = i /\ (d + m) + (i - m) = d + i
            /\ Len(suf) - m = Len(q) - (d + m)
        BY <3>3, <2>1
      <4>2. Suffix(suf, m)[i - m] = suf[i]
        <5>1. \A x \in 1..(Len(suf) - m) : Suffix(suf, m)[x] = suf[m + x]
          BY SuffixFacts
        <5> QED BY <4>1, <5>1
      <4>3. \A x \in 1..(Len(q) - (d + m)) : Suffix(q, d + m)[x] = q[(d + m) + x]
        BY <1>0, SuffixFacts
      <4> QED BY <4>1, <4>2, <4>3, <1>2
    <3> QED BY <3>1, <3>2, <3>3
  <2>3. /\ Suffix(q, d) \in Seq(Slices) /\ Len(Suffix(q, d)) = Len(q) - d
        /\ \A i \in 1..(Len(q) - d) : Suffix(q, d)[i] = q[d + i]
    BY <1>0, SuffixFacts
  <2>4. Len(Suffix(q, d)) = Len(suf) /\ \A i \in 1..Len(Suffix(q, d)) : Suffix(q, d)[i] = suf[i]
    BY <2>1, <2>2, <2>3
  <2> QED BY <2>3, <2>4, SeqEqual
<1>3. ASSUME Suffix(q, d) = suf PROVE Suffix(q, d + m) = Suffix(suf, m)
  <2>0. /\ Len(Suffix(q, d)) = Len(q) - d
        /\ \A i \in 1..(Len(q) - d) : Suffix(q, d)[i] = q[d + i]
    BY <1>0, SuffixFacts
  <2>1. Len(q) - d = Len(suf) /\ \A i \in 1..Len(suf) : suf[i] = q[d + i]
    BY <1>3, <2>0
  <2>2. Len(Suffix(q, d + m)) = Len(Suffix(suf, m))
    <3>1. Len(Suffix(q, d + m)) = Len(q) - (d + m)
      BY <1>0, SuffixFacts
    <3>2. Len(Suffix(suf, m)) = Len(suf) - m
      BY SuffixFacts
    <3>3. Len(q) - d = Len(suf) /\ Len(q) \in Int /\ Len(suf) \in Int
      BY <2>1
    <3> QED BY <3>1, <3>2, <3>3
  <2>3. ASSUME NEW i \in 1..(Len(suf) - m) PROVE Suffix(q, d + m)[i] = Suffix(suf, m)[i]
    <3>1. Suffix(suf, m)[i] = suf[m + i]
      BY SuffixFacts
    <3>2. Suffix(q, d + m)[i] = q[(d + m) + i]
      <4>1. \A x \in 1..(Len(q) - (d + m)) : Suffix(q, d + m)[x] = q[(d + m) + x]
        BY <1>0, SuffixFacts
      <4>2. i \in 1..(Len(q) - (d + m))
        BY <2>1
      <4> QED BY <4>1, <4>2
    <3>3. m + i \in 1..Len(suf) /\ (d + m) + i = d + (m + i)
      OBVIOUS
    <3> QED BY <3>1, <3>2, <3>3, <2>1
  <2>4. Suffix(q, d + m) \in Seq(Slices) /\ Suffix(suf, m) \in Seq(Slices)
        /\ Len(Suffix(suf, m)) = Len(suf) - m
    BY <1>0, SuffixFacts
  <2> QED BY <2>2, <2>3, <2>4, SeqEqual
<1> QED BY <1>2, <1>3

\* Common stops at the first slot that differs.
LEMMA CommonFacts ==
  ASSUME NEW a \in Seq(Slices), NEW b \in Seq(Slices), Len(a) >= 1, Len(b) >= 1, a # b
  PROVE  LET j == Common(a, b)
         IN /\ j \in Nat /\ j < Len(a) /\ j < Len(b)
            /\ \A i \in 1..j : a[i] = b[i]
            /\ Slot(a, j + 1) # Slot(b, j + 1)
<1> DEFINE Stop(j) == /\ j < Len(b) /\ \A i \in 1..j : a[i] = b[i]
                      /\ a[j + 1] # b[j + 1] \/ j + 1 = Len(a) \/ j + 1 = Len(b)
           T == {j \in Nat : j < Len(a) /\ j < Len(b)
                               /\ (a[j + 1] # b[j + 1] \/ j + 1 = Len(a) \/ j + 1 = Len(b))}
<1>1. \E j \in T : \A i \in T : j <= i
  <2>1. (IF Len(a) <= Len(b) THEN Len(a) - 1 ELSE Len(b) - 1) \in T
    OBVIOUS
  <2> QED BY <2>1, Least, Zenon
<1>2. PICK j \in T : \A i \in T : j <= i
  BY <1>1
<1>3. ASSUME NEW i \in 1..j PROVE a[i] = b[i]
  <2>1. i - 1 \notin T /\ i - 1 \in Nat /\ (i - 1) + 1 = i
    BY <1>2
  <2> QED BY <2>1
<1>4. j \in 0..(Len(a) - 1) /\ Stop(j)
  BY <1>3
<1>5. Common(a, b) \in 0..(Len(a) - 1) /\ Stop(Common(a, b))
  BY <1>4, Zenon DEF Common
<1>6. ASSUME NEW i \in 0..(Len(a) - 1), Stop(i) PROVE Slot(a, i + 1) # Slot(b, i + 1)
  <2>1. SUFFICES ASSUME Slot(a, i + 1) = Slot(b, i + 1) PROVE FALSE
    OBVIOUS
  <2>2. a[i + 1] = b[i + 1] /\ (Len(a) = i + 1 <=> Len(b) = i + 1)
    BY <1>6, <2>1, SlotFacts
  <2>3. Len(a) = i + 1 /\ Len(b) = i + 1
    BY <1>6, <2>2
  <2>4. \A x \in 1..Len(a) : a[x] = b[x]
    BY <1>6, <2>2, <2>3
  <2> QED BY <2>3, <2>4, SeqEqual
<1>7. Slot(a, Common(a, b) + 1) # Slot(b, Common(a, b) + 1)
  <2> HIDE DEF Stop
  <2> QED BY <1>5, <1>6
<1>8. Common(a, b) \in Nat /\ Common(a, b) < Len(a)
  BY <1>5
<1> QED BY <1>5, <1>7, <1>8

-----------------------------------------------------------------------------
(* What a step of thread t leaves the others.                              *)
Evolves ==
  \A l \in Leaves : leaf[l].place \in {"in", "out"} =>
    /\ leaf'[l].path = leaf[l].path /\ leaf'[l].place \in {"in", "out"}
    /\ leaf[l].place = "out" => leaf'[l].place = "out"
    /\ leaf[l].mod = "deleted" => leaf'[l].mod = "deleted"
    /\ leaf[l].vi <= leaf'[l].vi
    /\ leaf[l].ins /\ ~leaf'[l].ins => leaf[l].vi < leaf'[l].vi
    /\ leaf'[l].vi = leaf[l].vi =>
         \A s \in TrieSlots : leaf'[l].ent[s].kind = "layer" => leaf[l].ent[s].kind = "layer"
GoneAbsent ==
  \A l \in Leaves : In(l) /\ leaf'[l].place = "out" =>
    \A k \in Keys : \A d \in 1..Len(k) : Leads(Path(l), k, d) => abs[k] = NoValue
Spares(u) ==
  LET c == cur[u]
  IN /\ cur'[u] = cur[u] /\ seen[u] \subseteq seen'[u]
     /\ c.pc # "idle" /\ c.op # "gc" => abs'[c.k] \in seen'[u]
     /\ c.pc \in Holding => leaf'[c.n] = leaf[c.n]
     /\ c.pc \in Making => \A i \in 1..Len(c.new) : leaf'[c.new[i]] = leaf[c.new[i]]
     /\ c.pc = "swapped" => \A q \in Keys : c.d <= Len(q) /\ Leads(Path(c.n), q, c.d)
                                              /\ Slot(q, c.d) = Slot_(u) => abs'[q] = abs[q]

LEMMA OthersKeep ==
  ASSUME LayersTypeOK, LayersTypeOK', LayerInv, NEW u \in Threads, ThreadInv(u),
         Evolves, GoneAbsent, Spares(u)
  PROVE  ThreadInv(u)'
<1> DEFINE c == cur[u]
           n == cur[u].n
           Standing(l, d) == /\ leaf'[l].place \in {"in", "out"} /\ Leads(leaf'[l].path, c.k, d)
                             /\ c.op = "get" /\ leaf'[l].place = "out" => NoValue \in seen'[u]
<1>1. /\ c \in CurType /\ cur'[u] = c /\ n \in Leaves /\ c.e.to \in Leaves /\ c.to \in Leaves
      /\ seen[u] \subseteq seen'[u]
  BY DEF LayersTypeOK, CurType, Entries, Spares
<1>2. OpInv(u)'
  BY <1>1 DEF OpInv, ThreadInv, Spares
<1>3. ASSUME NEW l \in Leaves, NEW d \in 1..Len(c.k), Stands(u, l, d), c.pc # "idle" PROVE Standing(l, d)
  <2>1. leaf'[l].path = leaf[l].path /\ leaf'[l].place \in {"in", "out"}
    BY <1>3 DEF Stands, Evolves
  <2>2. ASSUME c.op = "get", leaf'[l].place = "out" PROVE NoValue \in seen'[u]
    <3>1. CASE leaf[l].place = "out"
      BY <3>1, <2>2, <1>3, <1>1 DEF Stands
    <3>2. CASE leaf[l].place = "in"
      <4>1. c.k \in Keys /\ abs[c.k] \in seen[u]
        BY <2>2, <1>3 DEF ThreadInv, OpInv
      <4>2. abs[c.k] = NoValue
        BY <3>2, <2>2, <1>3, <4>1 DEF GoneAbsent, In, Stands, Path
      <4> QED BY <4>1, <4>2, <1>1
    <3> QED BY <3>1, <3>2, <1>3 DEF Stands
  <2> QED BY <2>1, <2>2, <1>1, <1>3 DEF Stands, Path
<1>4. StandInv(u)'
  <2>1. ASSUME c.pc \in Search PROVE Standing(n, c.d)
    <3>1. c.pc # "idle" /\ c.d \in 1..Len(c.k) /\ Stands(u, n, c.d)
      BY <2>1 DEF ThreadInv, OpInv, StandInv, Search
    <3> QED BY <3>1, <1>1, <1>3
  <2>2. ASSUME c.pc \in {"valid", "layer"}, c.e.kind = "layer"
        PROVE  Standing(c.e.to, c.d + 1) /\ c.d < Len(c.k)
    <3>1. c.pc # "idle" /\ c.d \in 1..Len(c.k) /\ Stands(u, c.e.to, c.d + 1) /\ c.d < Len(c.k)
      BY <2>2 DEF ThreadInv, OpInv, StandInv
    <3>2. c.d + 1 \in 1..Len(c.k)
      BY <3>1, <1>1 DEF CurType
    <3> QED BY <3>1, <3>2, <1>1, <1>3
  <2> QED BY <2>1, <2>2, <1>1 DEF StandInv, Stands, Path
<1>5. VersionInv(u)'
  <2>1. ASSUME c.pc \in {"entry", "valid", "layer", "lock"}
        PROVE  /\ leaf[n].place \in {"in", "out"} /\ c.v <= leaf[n].vi
               /\ leaf[n].vi \in Nat /\ leaf'[n].vi \in Nat /\ c.v \in Nat
               /\ leaf[n].vi <= leaf'[n].vi
    <3>1. leaf[n].place \in {"in", "out"} /\ c.v <= leaf[n].vi
      BY <2>1 DEF ThreadInv, StandInv, VersionInv, Search, Stands
    <3> QED BY <3>1, <1>1 DEF Evolves, LayersTypeOK, LeafType, CurType
  <2>2. ASSUME c.pc \in {"entry", "valid", "layer", "lock"}, leaf'[n].vi = c.v, ~leaf'[n].ins
        PROVE  leaf[n].vi = c.v /\ ~leaf[n].ins
    BY <2>1, <2>2, <1>1 DEF Evolves
  <2>3. ASSUME c.pc \in {"layer", "lock"}, leaf'[n].vi = c.v, leaf'[n].ent[Slot(c.k, c.d)].kind = "layer"
        PROVE  c.e.kind = "layer"
    <3>1. leaf[n].vi = leaf'[n].vi /\ leaf[n].vi = c.v /\ leaf[n].place \in {"in", "out"}
      BY <2>1, <2>3
    <3>2. Slot(c.k, c.d) \in TrieSlots
      BY <2>3, <1>1, SlotFacts DEF ThreadInv, OpInv, CurType
    <3>3. leaf[n].ent[Slot(c.k, c.d)].kind = "layer"
      BY <2>3, <3>1, <3>2, <1>1 DEF Evolves
    <3> QED BY <3>1, <3>3, <2>3 DEF ThreadInv, VersionInv, Entry, Slot_
  <2>4. /\ Changed(u)' = (leaf'[n].ins \/ leaf'[n].vi # c.v)
        /\ Changed(u) = (leaf[n].ins \/ leaf[n].vi # c.v)
        /\ Implied(u)' = Implied(u)
        /\ Entry(u)' = leaf'[n].ent[Slot(c.k, c.d)]
    BY <1>1 DEF Changed, Implied, Matches, Entry, Slot_
  <2>5. ASSUME c.pc \in {"entry", "valid", "layer", "lock"}, ~Changed(u)' PROVE ~Changed(u)
    BY <2>2, <2>4, <2>5
  <2>6. c.pc \in {"entry", "valid", "layer", "lock"} => c.v <= leaf'[n].vi
    BY <2>1
  <2> QED BY <2>3, <2>4, <2>5, <2>6, <1>1 DEF ThreadInv, VersionInv
<1>6. LockInv(u)'
  <2>1. ASSUME c.pc \in Holding PROVE leaf'[n] = leaf[n]
    BY <2>1 DEF Spares
  <2>2. ASSUME c.pc = "gcremove" PROVE leaf'[c.to].mod = "deleted"
    <3>1. In(n) /\ Ent(n, <<c.k[c.d], "more">>).kind = "layer" /\ Ent(n, <<c.k[c.d], "more">>).to = c.to
          /\ leaf[c.to].mod = "deleted" /\ c.d \in 1..Len(c.k) /\ c.k \in Seq(Slices)
      BY <2>2, <1>1 DEF ThreadInv, LockInv, OpInv, LayerSlot, Holding, CurType
    <3>2. In(c.to)
      BY <3>1, <1>1 DEF LayerInv
    <3> QED BY <3>1, <3>2, <1>1 DEF Evolves, In
  <2>3. LockInv(u)
    BY DEF ThreadInv
  <2>4. c.pc \notin Holding => c.pc \notin Unmarked \cup {"put", "remove", "gc", "swap", "publish", "gclock", "gcremove", "swapped"}
    BY DEF Holding, Unmarked
  <2>5. CASE c.pc \in Holding
    <3>1. leaf'[n] = leaf[n] /\ cur'[u] = c
      BY <2>1, <2>5, <1>1
    <3>2. /\ In(n)' = In(n) /\ Path(n)' = Path(n) /\ Entry(u)' = Entry(u) /\ LayerSlot(u)' = LayerSlot(u)
          /\ Ent(n, LayerSlot(u))' = Ent(n, LayerSlot(u))
      BY <3>1 DEF In, Path, Entry, Slot_, LayerSlot, Ent
    <3> QED BY <2>2, <2>3, <3>1, <3>2 DEF LockInv
  <2>6. CASE c.pc \notin Holding
    BY <2>4, <2>6, <1>1 DEF LockInv
  <2> QED BY <2>5, <2>6
<1>7. MakeInv(u)'
  <2>1. CASE c.pc \in Making
    <3>1. \A i \in 1..Len(c.new) : TwigInv(u, i)
      BY <2>1 DEF ThreadInv, MakeInv
    <3>2. \A i \in 1..Len(c.new) : TwigInv(u, i)'
      <4> SUFFICES ASSUME NEW i \in 1..Len(c.new) PROVE TwigInv(u, i)'
        BY <1>1
      <4>1. leaf'[c.new[i]] = leaf[c.new[i]] /\ TwigInv(u, i)
        BY <2>1, <3>1 DEF Spares
      <4>2. TwigSlot(u, i)' = TwigSlot(u, i) /\ TwigEntry(u, i)' = TwigEntry(u, i)
        BY <1>1 DEF TwigSlot, TwigEntry
      <4> QED BY <4>1, <4>2, <1>1 DEF TwigInv
    <3> QED BY <2>1, <3>2, <1>1 DEF ThreadInv, MakeInv
  <2>2. CASE c.pc \notin Making
    BY <2>2, <1>1 DEF MakeInv
  <2> QED BY <2>1, <2>2
<1>8. OldInv(u)'
  <2>1. CASE c.pc = "swapped"
    <3>1. leaf'[n] = leaf[n]
      BY <2>1 DEF Spares, Holding
    <3>2. ASSUME NEW q \in Keys, c.d <= Len(q), Leads(leaf[n].path, q, c.d), Slot(q, c.d) = Slot(c.k, c.d),
                 Suffix(q, c.d) = c.e.suf
          PROVE  abs'[q] = c.e.val
      BY <2>1, <3>2 DEF Spares, ThreadInv, OldInv, Path, Slot_
    <3> QED BY <3>1, <3>2, <1>1 DEF OldInv, Path, Slot_
  <2>2. CASE c.pc # "swapped"
    BY <2>2, <1>1 DEF OldInv
  <2> QED BY <2>1, <2>2
<1> QED BY <1>2, <1>4, <1>5, <1>6, <1>7, <1>8 DEF ThreadInv

-----------------------------------------------------------------------------
(* Parts of the invariant that a step does not touch.                      *)
SameLayers ==
  /\ leaf'[1].mod # "deleted"
  /\ \A l \in Leaves : leaf'[l].place = "in" <=> leaf[l].place = "in"
  /\ \A l \in Leaves : In(l) =>
       /\ leaf'[l].path = leaf[l].path
       /\ \A s \in TrieSlots : /\ leaf'[l].ent[s].kind = "layer" <=> leaf[l].ent[s].kind = "layer"
                               /\ leaf[l].ent[s].kind = "layer" => leaf'[l].ent[s].to = leaf[l].ent[s].to

LEMMA MoreSlot ==
  ASSUME NEW s \in Slices
  PROVE  <<s, "more">> \in TrieSlots
  BY DEF TrieSlots

LEMMA PathType ==
  ASSUME LayersTypeOK, NEW l \in Leaves
  PROVE  Path(l) \in Seq(Slices) /\ Len(Path(l)) \in Nat /\ \A i \in 1..Len(Path(l)) : Path(l)[i] \in Slices
  BY DEF LayersTypeOK, LeafType, Path

LEMMA EntType ==
  ASSUME LayersTypeOK, NEW l \in Leaves, NEW s \in TrieSlots
  PROVE  /\ Ent(l, s) \in Entries /\ Ent(l, s).to \in Leaves /\ Ent(l, s).suf \in Seq(Slices)
         /\ Ent(l, s).kind \in {"none", "value", "layer"} /\ Ent(l, s).val \in Held
<1>1. Ent(l, s) \in Entries
  BY DEF LayersTypeOK, LeafType, Ent
<1> QED BY <1>1 DEF Entries

LEMMA SameTrie ==
  ASSUME LayersTypeOK, LayersTypeOK', TrieInv, SameLayers
  PROVE  TrieInv'
<1>0. 1 \in Leaves
  BY LayersAssumption
<1>1. RootInv'
  BY <1>0 DEF TrieInv, RootInv, SameLayers, In, Path
<1>2. UniqueInv'
  BY DEF TrieInv, UniqueInv, SameLayers, In, Path
<1>3. LayerInv'
  <2> SUFFICES ASSUME NEW l \in Leaves, NEW s \in Slices, leaf'[l].place = "in",
                      leaf'[l].ent[<<s, "more">>].kind = "layer",
                      NEW m, m = leaf'[l].ent[<<s, "more">>].to
               PROVE  /\ leaf'[m].place = "in" /\ Leads(leaf'[l].path, leaf'[m].path, Len(leaf'[m].path))
                      /\ leaf'[m].path[Len(leaf'[m].path)] = s
    BY DEF LayerInv, In, Path, Ent
  <2>1. In(l) /\ Ent(l, <<s, "more">>).kind = "layer" /\ m \in Leaves /\ Ent(l, <<s, "more">>).to = m
    BY MoreSlot, EntType DEF SameLayers, In, Ent
  <2>2. In(m) /\ Leads(Path(l), Path(m), Len(Path(m))) /\ Path(m)[Len(Path(m))] = s
    BY <2>1 DEF TrieInv, LayerInv
  <2>3. leaf'[m].place = "in" /\ leaf'[m].path = Path(m) /\ leaf'[l].path = Path(l)
    BY <2>1, <2>2 DEF SameLayers, In, Path
  <2> QED BY <2>1, <2>2, <2>3
<1>4. AboveInv'
  <2> SUFFICES ASSUME NEW l \in Leaves, In(l)', NEW i \in 1..Len(Path(l)') PROVE Above(l, i)'
    BY DEF AboveInv, In, Path
  <2>1. In(l) /\ Path(l)' = Path(l)
    BY DEF SameLayers, In, Path
  <2>2. PICK m \in Leaves : In(m) /\ Leads(Path(m), Path(l), i) /\ Ent(m, <<Path(l)[i], "more">>).kind = "layer"
    BY <2>1 DEF TrieInv, AboveInv, Above
  <2>3. <<Path(l)[i], "more">> \in TrieSlots
    BY <2>1, PathType, MoreSlot
  <2>4. In(m)' /\ Path(m)' = Path(m) /\ leaf'[m].ent[<<Path(l)[i], "more">>].kind = "layer"
    BY <2>2, <2>3 DEF SameLayers, In, Path, Ent
  <2> QED BY <2>1, <2>2, <2>4 DEF Above, Ent, In, Path
<1> QED BY <1>1, <1>2, <1>3, <1>4 DEF TrieInv

LEMMA SameContent ==
  ASSUME ContentInv, abs' = abs,
         \A l \in Leaves : leaf'[l].place = "in" =>
           leaf[l].place = "in" /\ leaf'[l].path = leaf[l].path /\ leaf'[l].ent = leaf[l].ent,
         \A u \in Threads : cur[u].pc = "swapped" => cur'[u] = cur[u]
  PROVE  ContentInv'
<1> SUFFICES ASSUME NEW l \in Leaves, NEW k \in Keys, NEW d \in 1..Len(k), In(l)', Leads(Path(l)', k, d)
             PROVE  Right(l, k, d)'
  BY DEF ContentInv, In, Path
<1>1. In(l) /\ Leads(Path(l), k, d) /\ leaf'[l].ent = leaf[l].ent
  BY DEF In, Path
<1>2. Right(l, k, d)
  BY <1>1 DEF ContentInv
<1>3. Swapping(l, Slot(k, d)) => Swapping(l, Slot(k, d))'
  BY DEF Swapping, At, Slot_
<1> QED BY <1>1, <1>2, <1>3 DEF Right, Ent

LEMMA SameCover ==
  ASSUME CoverInv,
         \A l \in Leaves : In(l)' /\ (\A s \in TrieSlots : leaf'[l].ent[s].kind = "none") =>
           In(l) /\ leaf'[l].path = leaf[l].path /\ \A s \in TrieSlots : leaf[l].ent[s].kind = "none",
         \A c \in callbacks : \E b \in callbacks' : b.prefix = c.prefix,
         \A u \in Threads : cur[u].op = "gc" /\ cur[u].pc \in Collects =>
           cur'[u].op = "gc" /\ cur'[u].pc \in Collects /\ cur'[u].k = cur[u].k
  PROVE  CoverInv'
<1> SUFFICES ASSUME NEW l \in Leaves, In(l)', l # 1, \A s \in TrieSlots : leaf'[l].ent[s].kind = "none"
             PROVE  Covered(Path(l))'
  BY DEF CoverInv, Ent, In
<1>1. Covered(Path(l)) /\ Path(l)' = Path(l)
  BY DEF CoverInv, Ent, Path, In
<1>2. ASSUME NEW c \in callbacks, Same(Path(l), c.prefix) PROVE Covered(Path(l))'
  BY <1>1, <1>2 DEF Covered
<1>3. ASSUME NEW u \in Threads, cur[u].op = "gc", cur[u].pc \in Collects, Same(Path(l), cur[u].k)
      PROVE  Covered(Path(l))'
  BY <1>1, <1>3 DEF Covered
<1> QED BY <1>1, <1>2, <1>3 DEF Covered

LEMMA SameOwners ==
  ASSUME ApartInv, OwnedInv, NEW t \in Threads,
         \A u \in Threads \ {t} : cur'[u] = cur[u],
         \A l \in Leaves : leaf'[l].place = "new" => leaf[l].place = "new",
         cur'[t].pc \in Holding => cur[t].pc \in Holding /\ cur'[t].n = cur[t].n,
         cur'[t].pc \in Making <=> cur[t].pc \in Making,
         cur[t].pc \in Making => cur'[t].new = cur[t].new
  PROVE  ApartInv' /\ OwnedInv'
<1>0. \A u \in Threads : /\ cur'[u].pc \in Holding => cur[u].pc \in Holding /\ cur'[u].n = cur[u].n
                        /\ cur'[u].pc \in Making => cur[u].pc \in Making /\ cur'[u].new = cur[u].new
  OBVIOUS
<1>1. ApartInv'
  <2> SUFFICES ASSUME NEW u \in Threads, NEW v \in Threads, u # v
               PROVE  /\ cur'[u].pc \in Holding /\ cur'[v].pc \in Holding => cur'[u].n # cur'[v].n
                      /\ cur'[u].pc \in Making /\ cur'[v].pc \in Making =>
                           \A i \in 1..Len(cur'[u].new), j \in 1..Len(cur'[v].new) :
                             cur'[u].new[i] # cur'[v].new[j]
    BY DEF ApartInv
  <2>1. /\ cur[u].pc \in Holding /\ cur[v].pc \in Holding => cur[u].n # cur[v].n
        /\ cur[u].pc \in Making /\ cur[v].pc \in Making =>
             \A i \in 1..Len(cur[u].new), j \in 1..Len(cur[v].new) : cur[u].new[i] # cur[v].new[j]
    BY DEF ApartInv
  <2>2. ASSUME cur'[u].pc \in Making, cur'[v].pc \in Making, NEW i \in 1..Len(cur'[u].new),
               NEW j \in 1..Len(cur'[v].new)
        PROVE  cur'[u].new[i] # cur'[v].new[j]
    <3>1. /\ cur[u].pc \in Making /\ cur[v].pc \in Making
          /\ cur'[u].new = cur[u].new /\ cur'[v].new = cur[v].new
      BY <1>0, <2>2
    <3> QED BY <2>1, <2>2, <3>1
  <2>3. cur'[u].pc \in Holding /\ cur'[v].pc \in Holding => cur'[u].n # cur'[v].n
    BY <1>0, <2>1
  <2> QED BY <2>2, <2>3
<1>2. OwnedInv'
  BY DEF OwnedInv
<1> QED BY <1>1, <1>2

\* A step that changes neither a leaf nor what a key holds.
LEMMA QuietStep ==
  ASSUME Inv, LayersTypeOK', NEW t \in Threads, leaf' = leaf, abs' = abs,
         \A u \in Threads \ {t} : cur'[u] = cur[u] /\ seen'[u] = seen[u],
         cur[t].pc \notin Making, cur'[t].pc \notin Making,
         cur'[t].pc \in Holding => cur[t].pc \in Holding /\ cur'[t].n = cur[t].n,
         ThreadInv(t)', CoverInv'
  PROVE  Inv'
<1>1. TrieInv'
  BY SameTrie DEF Inv, SameLayers, TrieInv, RootInv
<1>2. EntryInv' /\ EmptyInv'
  BY DEF Inv, EntryInv, EmptyInv, Ent
<1>3. ContentInv'
  <2>1. \A u \in Threads : cur[u].pc = "swapped" => cur'[u] = cur[u]
    BY DEF Making
  <2> QED BY <2>1, SameContent DEF Inv
<1>4. ASSUME NEW u \in Threads, u # t PROVE ThreadInv(u)'
  <2>1. Evolves
    BY DEF Inv, LayersTypeOK, LeafType, Evolves
  <2>2. GoneAbsent
    BY DEF GoneAbsent, In
  <2>3. ThreadInv(u) /\ OpInv(u)
    BY DEF Inv, ThreadInv
  <2>4. Spares(u)
    BY <1>4, <2>3 DEF Spares, OpInv
  <2> QED BY <2>1, <2>2, <2>3, <2>4, OthersKeep DEF Inv, TrieInv
<1>5. ApartInv' /\ OwnedInv'
  BY SameOwners DEF Inv
<1> QED BY <1>1, <1>2, <1>3, <1>4, <1>5 DEF Inv

-----------------------------------------------------------------------------
(* The steps of a search.                                                  *)
LEMMA CurFacts ==
  ASSUME LayersTypeOK, NEW t \in Threads
  PROVE  /\ cur[t] \in CurType /\ cur[t].n \in Leaves /\ cur[t].k \in Seq(Slices) /\ cur[t].d \in Nat
         /\ cur[t].e \in Entries /\ cur[t].e.to \in Leaves /\ cur[t].v \in Nat /\ cur[t].to \in Leaves
         /\ cur[t].pc \in Pcs /\ cur[t].op \in {"get", "put", "remove", "gc"}
         /\ cur[t].e.kind \in {"none", "value", "layer"} /\ cur[t].e.suf \in Seq(Slices)
         /\ cur[t].e.val \in Held
  BY DEF LayersTypeOK, CurType, Entries

LEMMA NotHolding ==
  ASSUME NEW t \in Threads, cur'[t].pc \notin Holding
  PROVE  LockInv(t)' /\ MakeInv(t)' /\ OldInv(t)'
<1>1. LockInv(t)'
  BY DEF LockInv, Holding, Unmarked
<1>2. MakeInv(t)'
  BY DEF MakeInv, Holding, Making
<1>3. OldInv(t)'
  BY DEF OldInv, Holding
<1> QED BY <1>1, <1>2, <1>3

LEMMA NotSearching ==
  ASSUME NEW t \in Threads, cur'[t].pc \notin Search
  PROVE  StandInv(t)' /\ VersionInv(t)'
  BY DEF StandInv, VersionInv, Search

LEMMA NoCurType ==
  /\ NoCur \in CurType /\ NoEntry \in Entries
  /\ \A op \in {"get", "put", "remove", "gc"}, k \in Seq(Slices) :
       [NoCur EXCEPT !.pc = "reach", !.op = op, !.k = k] \in CurType
<1>1. NoEntry \in Entries
  BY LayersAssumption DEF NoEntry, Entries, Held
<1>2. NoCur \in CurType
  BY <1>1, LayersAssumption DEF NoCur, CurType, Pcs, Held
<1> QED BY <1>1, <1>2 DEF CurType, Pcs

\* A search starts at the root.
LEMMA StartHere ==
  ASSUME Inv, NEW t \in Threads, leaf' = leaf, NEW op, NEW k \in Seq(Slices), Len(k) >= 1,
         cur'[t] = [NoCur EXCEPT !.pc = "reach", !.op = op, !.k = k],
         op # "gc" => k \in Keys /\ abs'[k] \in seen'[t]
  PROVE  ThreadInv(t)'
<1>1. cur'[t].pc = "reach" /\ cur'[t].op = op /\ cur'[t].k = k /\ cur'[t].n = 1 /\ cur'[t].d = 1
  BY DEF NoCur
<1>2. OpInv(t)'
  BY <1>1 DEF OpInv
<1>3. StandInv(t)'
  BY <1>1 DEF Inv, TrieInv, RootInv, StandInv, Stands, Leads, In, Path
<1>4. VersionInv(t)'
  BY <1>1 DEF VersionInv
<1>5. LockInv(t)' /\ MakeInv(t)' /\ OldInv(t)'
  BY <1>1, NotHolding DEF Holding
<1> QED BY <1>2, <1>3, <1>4, <1>5 DEF ThreadInv

LEMMA BeginStep ==
  ASSUME Inv, NEW t \in Threads, Begin(t)
  PROVE  Inv'
<1>0. LayersTypeOK
  BY DEF Inv
<1>1. PICK o \in prog[t][idx[t] + 1] :
        /\ cur' = [cur EXCEPT ![t] = [NoCur EXCEPT !.pc = "reach", !.op = o.op, !.k = o.key]]
        /\ seen' = [seen EXCEPT ![t] = {abs[o.key]}]
  BY DEF Begin, Start, Go
<1>2. o \in Ops /\ cur[t].pc = "idle"
  <2>1. prog[t] \in Seq(SUBSET Ops) /\ idx[t] + 1 \in 1..Len(prog[t])
    BY <1>0 DEF Begin, LayersTypeOK
  <2> QED BY <2>1, <1>1 DEF Begin, At
<1>3. o.op \in {"get", "put", "remove"} /\ o.key \in Keys /\ o.key \in Seq(Slices) /\ Len(o.key) >= 1
  BY <1>2, LayersAssumption, EmptySeq DEF Ops
<1>4. LayersTypeOK'
  <2>1. cur' \in [Threads -> CurType]
    BY <1>0, <1>1, <1>3, NoCurType DEF LayersTypeOK
  <2>2. abs[o.key] \in Held
    BY <1>0, <1>3 DEF LayersTypeOK
  <2>3. seen' \in [Threads -> SUBSET Held]
    BY <1>0, <1>1, <2>2 DEF LayersTypeOK
  <2>4. idx' \in [Threads -> Nat]
    BY <1>0 DEF LayersTypeOK, Begin
  <2> QED BY <1>0, <2>1, <2>3, <2>4 DEF LayersTypeOK, Begin
<1>5. cur'[t] = [NoCur EXCEPT !.pc = "reach", !.op = o.op, !.k = o.key]
      /\ \A u \in Threads \ {t} : cur'[u] = cur[u] /\ seen'[u] = seen[u]
  BY <1>0, <1>1 DEF LayersTypeOK
<1>6. ThreadInv(t)'
  <2>1. abs'[o.key] \in seen'[t]
    BY <1>0, <1>1 DEF LayersTypeOK, Begin
  <2> QED BY <1>3, <1>5, <2>1, StartHere DEF Begin
<1>7. CoverInv'
  <2>1. \A u \in Threads : cur[u].op = "gc" /\ cur[u].pc \in Collects =>
           cur'[u].op = "gc" /\ cur'[u].pc \in Collects /\ cur'[u].k = cur[u].k
    BY <1>2, <1>5 DEF Collects, Search
  <2> QED BY <2>1, SameCover DEF Begin, Inv, In
<1>8. cur'[t].pc \notin Making /\ cur[t].pc \notin Making /\ cur'[t].pc \notin Holding
  BY <1>2, <1>5 DEF Making, Holding, NoCur
<1> QED BY <1>4, <1>5, <1>6, <1>7, <1>8, QuietStep DEF Begin

LEMMA ReturnStep ==
  ASSUME Inv, NEW t \in Threads, Return(t)
  PROVE  Inv'
<1>0. LayersTypeOK
  BY DEF Inv
<1>1. /\ cur'[t] = NoCur /\ cur[t].pc = "done" /\ cur'[t].pc = "idle" /\ cur' \in [Threads -> CurType]
      /\ \A u \in Threads \ {t} : cur'[u] = cur[u] /\ seen'[u] = seen[u]
  BY <1>0, NoCurType DEF LayersTypeOK, Return, Go, At, NoCur
<1>2. LayersTypeOK'
  <2>1. seen' \in [Threads -> SUBSET Held]
    BY <1>0 DEF LayersTypeOK, Return
  <2>2. callbacks' \subseteq [prefix : Seq(Slices) \ {<<>>}, wait : SUBSET Threads]
    <3> DEFINE B == [prefix : Seq(Slices) \ {<<>>}, wait : SUBSET Threads]
    <3>1. ASSUME NEW c \in B PROVE [c EXCEPT !.wait = @ \ {t}] \in B
      OBVIOUS
    <3> HIDE DEF B
    <3>2. callbacks \subseteq B /\ callbacks' = {[c EXCEPT !.wait = @ \ {t}] : c \in callbacks}
      BY <1>0 DEF LayersTypeOK, Return, B
    <3>3. callbacks' \subseteq B
      BY <3>1, <3>2
    <3> QED BY <3>3 DEF B
  <2> QED BY <1>0, <1>1, <2>1, <2>2 DEF LayersTypeOK, Return
<1>3. ThreadInv(t)'
  <2>1. OpInv(t)'
    BY <1>1 DEF OpInv
  <2> QED BY <1>1, <2>1, NotHolding, NotSearching DEF ThreadInv, Holding, Search
<1>4. CoverInv'
  <2>1. \A u \in Threads : cur[u].op = "gc" /\ cur[u].pc \in Collects =>
           cur'[u].op = "gc" /\ cur'[u].pc \in Collects /\ cur'[u].k = cur[u].k
    BY <1>1 DEF Collects, Search
  <2>2. \A c \in callbacks : \E b \in callbacks' : b.prefix = c.prefix
    <3> SUFFICES ASSUME NEW c \in callbacks PROVE \E b \in callbacks' : b.prefix = c.prefix
      OBVIOUS
    <3>1. [c EXCEPT !.wait = @ \ {t}] \in callbacks' /\ [c EXCEPT !.wait = @ \ {t}].prefix = c.prefix
      BY <1>0 DEF Return, LayersTypeOK
    <3> QED BY <3>1
  <2> QED BY <2>1, <2>2, SameCover DEF Return, Inv, In
<1>5. cur'[t].pc \notin Making /\ cur[t].pc \notin Making /\ cur'[t].pc \notin Holding
  BY <1>1 DEF Making, Holding
<1> QED BY <1>1, <1>2, <1>3, <1>4, <1>5, QuietStep DEF Return

LEMMA RunCallbackStep ==
  ASSUME Inv, NEW t \in Threads, RunCallback(t)
  PROVE  Inv'
<1>0. LayersTypeOK
  BY DEF Inv
<1>1. PICK c \in callbacks :
        /\ cur' = [cur EXCEPT ![t] = [NoCur EXCEPT !.pc = "reach", !.op = "gc", !.k = c.prefix]]
        /\ callbacks' = callbacks \ {c}
  BY DEF RunCallback, Start, Go
<1>2. c.prefix \in Seq(Slices) /\ Len(c.prefix) >= 1 /\ cur[t].pc = "idle"
  BY <1>0, EmptySeq DEF LayersTypeOK, RunCallback, At
<1>3. LayersTypeOK'
  <2>1. cur' \in [Threads -> CurType]
    BY <1>0, <1>1, <1>2, NoCurType DEF LayersTypeOK
  <2> QED BY <1>0, <1>1, <2>1 DEF LayersTypeOK, RunCallback
<1>4. /\ cur'[t] = [NoCur EXCEPT !.pc = "reach", !.op = "gc", !.k = c.prefix]
      /\ cur'[t].pc = "reach" /\ cur'[t].op = "gc" /\ cur'[t].k = c.prefix
      /\ \A u \in Threads \ {t} : cur'[u] = cur[u] /\ seen'[u] = seen[u]
  BY <1>0, <1>1 DEF LayersTypeOK, RunCallback, NoCur
<1>5. ThreadInv(t)'
  BY <1>2, <1>4, StartHere DEF RunCallback
<1>6. CoverInv'
  <2> SUFFICES ASSUME NEW l \in Leaves, In(l), l # 1, \A s \in TrieSlots : Ent(l, s).kind = "none"
               PROVE  Covered(Path(l))'
    BY DEF CoverInv, RunCallback, In, Ent
  <2>0. Path(l)' = Path(l) /\ Covered(Path(l))
    BY DEF RunCallback, Path, Inv, CoverInv
  <2>1. ASSUME NEW b \in callbacks, Same(Path(l), b.prefix) PROVE Covered(Path(l))'
    <3>1. CASE b = c
      <4>1. cur'[t].op = "gc" /\ cur'[t].pc \in Collects /\ Same(Path(l), cur'[t].k)
        BY <3>1, <2>1, <1>4 DEF Collects, Search
      <4> QED BY <4>1, <2>0 DEF Covered
    <3>2. CASE b # c
      BY <3>2, <2>0, <2>1, <1>1 DEF Covered
    <3> QED BY <3>1, <3>2
  <2>2. ASSUME NEW u \in Threads, cur[u].op = "gc", cur[u].pc \in Collects, Same(Path(l), cur[u].k)
        PROVE  Covered(Path(l))'
    <3>1. cur'[u] = cur[u]
      BY <1>2, <1>4, <2>2 DEF Collects, Search
    <3> QED BY <3>1, <2>0, <2>2 DEF Covered
  <2> QED BY <2>0, <2>1, <2>2 DEF Covered
<1>7. cur'[t].pc \notin Making /\ cur[t].pc \notin Making /\ cur'[t].pc \notin Holding
  BY <1>2, <1>4 DEF Making, Holding
<1> QED BY <1>3, <1>4, <1>5, <1>6, <1>7, QuietStep DEF RunCallback

\* A step that only moves its thread.
LEMMA Moved ==
  ASSUME Inv, NEW t \in Threads, NEW c \in CurType, cur' = [cur EXCEPT ![t] = c],
         UNCHANGED <<leaf, prog, idx, abs, seen, callbacks>>
  PROVE  /\ LayersTypeOK' /\ cur'[t] = c
         /\ \A u \in Threads \ {t} : cur'[u] = cur[u] /\ seen'[u] = seen[u]
<1>0. LayersTypeOK
  BY DEF Inv
<1>1. cur' \in [Threads -> CurType] /\ cur'[t] = c /\ \A u \in Threads \ {t} : cur'[u] = cur[u]
  BY <1>0 DEF LayersTypeOK
<1> QED BY <1>0, <1>1 DEF LayersTypeOK

LEMMA MoveStep ==
  ASSUME Inv, NEW t \in Threads, NEW c \in CurType, cur' = [cur EXCEPT ![t] = c],
         UNCHANGED <<leaf, prog, idx, abs, seen, callbacks>>,
         c.op = cur[t].op, c.k = cur[t].k, cur[t].pc \notin Making, c.pc \notin Making,
         c.pc \in Holding => cur[t].pc \in Holding /\ c.n = cur[t].n,
         cur[t].op = "gc" /\ cur[t].pc \in Collects => c.pc \in Collects,
         ThreadInv(t)'
  PROVE  Inv'
<1>1. /\ LayersTypeOK' /\ cur'[t] = c
      /\ \A u \in Threads \ {t} : cur'[u] = cur[u] /\ seen'[u] = seen[u]
  BY Moved
<1>2. CoverInv'
  <2>1. \A u \in Threads : cur[u].op = "gc" /\ cur[u].pc \in Collects =>
           cur'[u].op = "gc" /\ cur'[u].pc \in Collects /\ cur'[u].k = cur[u].k
    BY <1>1
  <2> QED BY <2>1, SameCover DEF Inv, In
<1> QED BY <1>1, <1>2, QuietStep

LEMMA ReachStep ==
  ASSUME Inv, NEW t \in Threads, Reach(t)
  PROVE  Inv'
<1> DEFINE c == [cur[t] EXCEPT !.pc = "entry", !.v = leaf[cur[t].n].vi]
           o == cur[t]
<1>0. LayersTypeOK /\ ThreadInv(t)
  BY DEF Inv
<1>1. /\ o.pc = "reach" /\ cur' = [cur EXCEPT ![t] = c]
      /\ UNCHANGED <<leaf, prog, idx, abs, seen, callbacks>>
  BY DEF Reach, At, Go
<1>2. leaf[o.n].vi \in Nat
  BY <1>0, CurFacts DEF LayersTypeOK, LeafType
<1>3. c \in CurType /\ c.pc = "entry" /\ c.v = leaf[o.n].vi /\ c.n = o.n /\ c.d = o.d /\ c.k = o.k /\ c.op = o.op
  BY <1>0, <1>2, CurFacts DEF CurType, Pcs
<1> HIDE DEF c
<1>4. cur'[t] = c
  BY <1>0, <1>1 DEF LayersTypeOK
<1>5. OpInv(t)'
  BY <1>0, <1>1, <1>3, <1>4 DEF ThreadInv, OpInv
<1>6. StandInv(t)'
  BY <1>0, <1>1, <1>3, <1>4 DEF ThreadInv, StandInv, Stands, Search, Path
<1>7. VersionInv(t)'
  BY <1>1, <1>2, <1>3, <1>4 DEF VersionInv
<1>8. ThreadInv(t)'
  BY <1>3, <1>4, <1>5, <1>6, <1>7, NotHolding DEF ThreadInv, Holding
<1> QED BY <1>1, <1>3, <1>8, MoveStep DEF Making, Holding, Collects, Search

\* A layer's entry on the way of key k leads one slice down.
LEMMA Below ==
  ASSUME Inv, NEW l \in Leaves, In(l), NEW k \in Seq(Slices), NEW d \in 1..Len(k), Leads(Path(l), k, d),
         NEW s \in TrieSlots, s = Slot(k, d) \/ s = <<k[d], "more">>, Ent(l, s).kind = "layer"
  PROVE  /\ Ent(l, s).to \in Leaves /\ In(Ent(l, s).to) /\ Leads(Path(Ent(l, s).to), k, d + 1)
         /\ s = <<k[d], "more">> /\ (s = Slot(k, d) => d < Len(k))
<1> DEFINE m == Ent(l, s).to
<1>0. LayersTypeOK /\ EntryInv /\ LayerInv
  BY DEF Inv, TrieInv
<1>1. s = <<k[d], "more">> /\ (s = Slot(k, d) => d < Len(k)) /\ k[d] \in Slices
  BY <1>0, SlotFacts DEF EntryInv, GoodEntry
<1>2. m \in Leaves
  BY <1>0, EntType
<1>3. In(m) /\ Leads(Path(l), Path(m), Len(Path(m))) /\ Path(m)[Len(Path(m))] = k[d]
  BY <1>0, <1>1 DEF LayerInv
<1>4. Len(Path(m)) \in Nat /\ Len(Path(l)) \in Nat
  BY <1>0, <1>2, PathType
<1>5. Leads(Path(m), k, d + 1)
  BY <1>3, <1>4 DEF Leads
<1> QED BY <1>1, <1>2, <1>3, <1>5

LEMMA ReadEntryStep ==
  ASSUME Inv, NEW t \in Threads, ReadEntry(t)
  PROVE  Inv'
<1> DEFINE o == cur[t]
           n == cur[t].n
           c == [cur[t] EXCEPT !.pc = IF cur[t].op = "get" THEN "valid" ELSE "layer",
                               !.e = Entry(t), !.all = InUse(leaf[cur[t].n])]
           x == Ent(n, Slot(o.k, o.d))
<1>0. LayersTypeOK /\ ThreadInv(t) /\ EmptyInv /\ ContentInv
  BY DEF Inv
<1>1. /\ o.pc = "entry" /\ cur' = [cur EXCEPT ![t] = c]
      /\ UNCHANGED <<leaf, prog, idx, abs, seen, callbacks>>
  BY DEF ReadEntry, At, Go
<1>2. /\ n \in Leaves /\ o.d \in 1..Len(o.k) /\ o.k \in Seq(Slices) /\ Slot(o.k, o.d) \in TrieSlots
      /\ Stands(t, n, o.d) /\ Entry(t) = x
  BY <1>0, <1>1, CurFacts, SlotFacts DEF ThreadInv, OpInv, StandInv, Search, Entry, Slot_, Ent
<1>3. x \in Entries /\ x.to \in Leaves
  BY <1>0, <1>2, EntType
<1>4. /\ c \in CurType /\ c.pc = (IF o.op = "get" THEN "valid" ELSE "layer") /\ c.e = x
      /\ c.v = o.v /\ c.n = n /\ c.d = o.d /\ c.k = o.k /\ c.op = o.op
  <2>1. InUse(leaf[n]) \in SUBSET TrieSlots
    BY DEF InUse
  <2>2. c.e = Entry(t) /\ c.v = o.v /\ c.n = n /\ c.d = o.d /\ c.k = o.k /\ c.op = o.op
        /\ c.pc = IF o.op = "get" THEN "valid" ELSE "layer"
    BY <1>0, CurFacts DEF CurType
  <2>3. Entry(t) \in Entries
    BY <1>2, <1>3
  <2>4. c \in CurType
    <3>1. cur[t] \in CurType
      BY <1>0, CurFacts
    <3>2. (IF cur[t].op = "get" THEN "valid" ELSE "layer") \in Pcs
      BY DEF Pcs
    <3> QED BY <2>1, <2>3, <3>1, <3>2 DEF CurType
  <2> QED BY <1>2, <2>2, <2>4
<1> HIDE DEF c
<1>5. cur'[t] = c
  BY <1>0, <1>1 DEF LayersTypeOK
<1>6. OpInv(t)'
  BY <1>0, <1>1, <1>4, <1>5 DEF ThreadInv, OpInv
<1>7. StandInv(t)'
  <2>1. Stands(t, n, o.d)'
    BY <1>1, <1>2, <1>4, <1>5 DEF Stands, Path
  <2>2. ASSUME x.kind = "layer" PROVE Stands(t, x.to, o.d + 1)' /\ o.d < Len(o.k)
    <3>1. In(n)
      BY <1>0, <1>2, <2>2 DEF Stands, EmptyInv, In
    <3>2. In(x.to) /\ Leads(Path(x.to), o.k, o.d + 1) /\ o.d < Len(o.k)
      BY <1>2, <2>2, <3>1, Below DEF Stands
    <3> QED BY <3>2, <1>1, <1>4, <1>5 DEF Stands, Path, In, Ent
  <2> QED BY <2>1, <2>2, <1>1, <1>4, <1>5 DEF StandInv, Stands, Path, Ent
<1>8. VersionInv(t)'
  <2>1. c.v <= leaf[n].vi
    BY <1>0, <1>1, <1>4 DEF ThreadInv, VersionInv
  <2>2. ASSUME o.op = "get", ~leaf[n].ins, x.kind # "layer"
        PROVE  (IF x.kind = "value" /\ x.suf = Suffix(o.k, o.d) THEN x.val ELSE NoValue) \in seen[t]
    <3>1. o.k \in Keys /\ abs[o.k] \in seen[t]
      BY <1>0, <1>1, <2>2 DEF ThreadInv, OpInv
    <3>2. CASE In(n)
      <4>1. Right(n, o.k, o.d)
        BY <1>0, <1>2, <3>1, <3>2 DEF ContentInv, Stands
      <4>2. ~Swapping(n, Slot(o.k, o.d))
        BY <2>2 DEF Inv, ThreadInv, LockInv, Swapping, At
      <4>3. x.kind \in {"none", "value"}
        BY <1>3, <2>2 DEF Entries
      <4> QED BY <4>1, <4>2, <4>3, <3>1 DEF Right
    <3>3. CASE ~In(n)
      <4>1. x.kind = "none" /\ NoValue \in seen[t]
        BY <1>0, <1>2, <2>2, <3>3 DEF Stands, In, EmptyInv
      <4> QED BY <4>1
    <3> QED BY <3>2, <3>3
  <2>3. /\ Changed(t)' = (leaf[n].ins \/ leaf[n].vi # c.v)
        /\ Implied(t)' = IF x.kind = "value" /\ x.suf = Suffix(o.k, o.d) THEN x.val ELSE NoValue
        /\ Entry(t)' = x
    <3>1. cur'[t].n = n /\ cur'[t].v = c.v /\ cur'[t].e = x /\ cur'[t].k = o.k /\ cur'[t].d = o.d /\ leaf' = leaf
      BY <1>1, <1>4, <1>5
    <3>2. Changed(t)' = (leaf[n].ins \/ leaf[n].vi # c.v)
      BY <3>1 DEF Changed
    <3>3. Implied(t)' = IF x.kind = "value" /\ x.suf = Suffix(o.k, o.d) THEN x.val ELSE NoValue
      BY <3>1 DEF Implied, Matches
    <3>4. Entry(t)' = x
      BY <3>1 DEF Entry, Slot_, Ent
    <3> QED BY <3>2, <3>3, <3>4
  <2> QED BY <2>1, <2>2, <2>3, <1>1, <1>4, <1>5 DEF VersionInv
<1>9. ThreadInv(t)'
  BY <1>4, <1>5, <1>6, <1>7, <1>8, NotHolding DEF ThreadInv, Holding
<1> QED BY <1>1, <1>4, <1>9, MoveStep DEF Making, Holding, Collects, Search

\* Searching the same leaf again, or the one below.
LEMMA AgainStep ==
  ASSUME Inv, NEW t \in Threads, cur[t].pc \in Search, Again(t),
         UNCHANGED <<leaf, prog, idx, abs, seen, callbacks>>
  PROVE  Inv'
<1> DEFINE o == cur[t]
           c == [cur[t] EXCEPT !.pc = "reach"]
<1>0. LayersTypeOK /\ ThreadInv(t)
  BY DEF Inv
<1>1. cur' = [cur EXCEPT ![t] = c]
  BY DEF Again, Go
<1>3. c \in CurType /\ c.pc = "reach" /\ c.n = o.n /\ c.d = o.d /\ c.k = o.k /\ c.op = o.op
  BY <1>0, CurFacts DEF CurType, Pcs
<1> HIDE DEF c
<1>4. cur'[t] = c
  BY <1>0, <1>1 DEF LayersTypeOK
<1>5. OpInv(t)'
  BY <1>0, <1>1, <1>3, <1>4 DEF ThreadInv, OpInv, Search
<1>6. StandInv(t)'
  BY <1>0, <1>1, <1>3, <1>4 DEF ThreadInv, StandInv, Stands, Search, Path
<1>7. VersionInv(t)'
  BY <1>1, <1>3, <1>4 DEF VersionInv
<1>8. ThreadInv(t)'
  BY <1>3, <1>4, <1>5, <1>6, <1>7, NotHolding DEF ThreadInv, Holding
<1> QED BY <1>1, <1>3, <1>8, MoveStep DEF Making, Holding, Collects, Search

LEMMA DownStep ==
  ASSUME Inv, NEW t \in Threads, cur[t].pc \in {"valid", "layer"}, cur[t].e.kind = "layer", Down(t),
         UNCHANGED <<leaf, prog, idx, abs, seen, callbacks>>
  PROVE  Inv'
<1> DEFINE o == cur[t]
           c == [cur[t] EXCEPT !.pc = "reach", !.n = cur[t].e.to, !.d = @ + 1]
<1>0. LayersTypeOK /\ ThreadInv(t)
  BY DEF Inv
<1>1. cur' = [cur EXCEPT ![t] = c]
  BY DEF Down, Go
<1>2. Stands(t, o.e.to, o.d + 1) /\ o.d < Len(o.k) /\ o.d \in 1..Len(o.k) /\ o.d + 1 \in 1..Len(o.k)
  BY <1>0, CurFacts DEF ThreadInv, StandInv, OpInv
<1>a. o \in CurType /\ o.e.to \in Leaves /\ o.d + 1 \in Nat
  BY <1>0, CurFacts
<1>3. c \in CurType /\ c.pc = "reach" /\ c.n = o.e.to /\ c.d = o.d + 1 /\ c.k = o.k /\ c.op = o.op
  BY <1>a DEF CurType, Pcs
<1> HIDE DEF c
<1>4. cur'[t] = c
  BY <1>0, <1>1 DEF LayersTypeOK
<1>5. OpInv(t)'
  BY <1>0, <1>1, <1>2, <1>3, <1>4 DEF ThreadInv, OpInv
<1>6. StandInv(t)'
  BY <1>1, <1>2, <1>3, <1>4 DEF StandInv, Stands, Path
<1>7. VersionInv(t)'
  BY <1>1, <1>3, <1>4 DEF VersionInv
<1>8. ThreadInv(t)'
  BY <1>3, <1>4, <1>5, <1>6, <1>7, NotHolding DEF ThreadInv, Holding
<1> QED BY <1>1, <1>3, <1>8, MoveStep DEF Making, Holding, Collects, Search

LEMMA ValidateStep ==
  ASSUME Inv, NEW t \in Threads, Validate(t)
  PROVE  Inv'
<1> DEFINE o == cur[t]
           c == [cur[t] EXCEPT !.pc = "done", !.got = IF Matches(t) THEN cur[t].e.val ELSE NoValue]
<1>0. LayersTypeOK /\ ThreadInv(t)
  BY DEF Inv
<1>1. o.pc = "valid" /\ UNCHANGED <<leaf, prog, idx, abs, seen, callbacks>>
  BY DEF Validate, At
<1>2. CASE Changed(t)
  BY <1>1, <1>2, AgainStep DEF Validate, Search
<1>3. CASE ~Changed(t) /\ o.e.kind = "layer"
  BY <1>1, <1>3, DownStep DEF Validate
<1>4. CASE ~Changed(t) /\ o.e.kind # "layer"
  <2>1. cur' = [cur EXCEPT ![t] = c]
    BY <1>4 DEF Validate, Go
  <2>2. Implied(t) \in seen[t]
    BY <1>0, <1>1, <1>4 DEF ThreadInv, VersionInv
  <2>3. /\ c \in CurType /\ c.pc = "done" /\ c.got = Implied(t)
        /\ c.n = o.n /\ c.d = o.d /\ c.k = o.k /\ c.op = o.op
    <3>1. c.pc = "done" /\ c.n = o.n /\ c.d = o.d /\ c.k = o.k /\ c.op = o.op
          /\ c.got = IF Matches(t) THEN cur[t].e.val ELSE NoValue
      BY <1>0, CurFacts DEF CurType
    <3>2. (IF Matches(t) THEN cur[t].e.val ELSE NoValue) \in Held
      BY <1>0, CurFacts DEF Held
    <3>3. c \in CurType
      <4>1. cur[t] \in CurType
        BY <1>0, CurFacts
      <4>2. "done" \in Pcs
        BY DEF Pcs
      <4> QED BY <3>2, <4>1, <4>2 DEF CurType
    <3> QED BY <3>1, <3>3 DEF Implied
  <2> HIDE DEF c
  <2>4. cur'[t] = c
    BY <1>0, <2>1 DEF LayersTypeOK
  <2>5. OpInv(t)'
    BY <1>0, <1>1, <2>2, <2>3, <2>4 DEF ThreadInv, OpInv
  <2>6. ThreadInv(t)'
    BY <2>3, <2>4, <2>5, NotHolding, NotSearching DEF ThreadInv, Holding, Search
  <2>7. o.op = "get"
    BY <1>0, <1>1 DEF ThreadInv, OpInv
  <2> QED BY <1>1, <2>1, <2>3, <2>6, <2>7, MoveStep DEF Making, Holding
<1> QED BY <1>2, <1>3, <1>4

LEMMA TryLayerStep ==
  ASSUME Inv, NEW t \in Threads, TryLayer(t)
  PROVE  Inv'
<1> DEFINE o == cur[t]
           c == [cur[t] EXCEPT !.pc = "lock"]
<1>0. LayersTypeOK /\ ThreadInv(t)
  BY DEF Inv
<1>1. o.pc = "layer" /\ UNCHANGED <<leaf, prog, idx, abs, seen, callbacks>>
  BY DEF TryLayer, At
<1>2. CASE o.e.kind = "layer" /\ ~Changed(t)
  BY <1>1, <1>2, DownStep DEF TryLayer
<1>3. CASE ~(o.e.kind = "layer" /\ ~Changed(t))
  <2>1. cur' = [cur EXCEPT ![t] = c]
    BY <1>3 DEF TryLayer, Go
  <2>3. /\ c \in CurType /\ c.pc = "lock" /\ c.e = o.e /\ c.v = o.v
        /\ c.n = o.n /\ c.d = o.d /\ c.k = o.k /\ c.op = o.op
    BY <1>0, CurFacts DEF CurType, Pcs
  <2> HIDE DEF c
  <2>4. cur'[t] = c
    BY <1>0, <2>1 DEF LayersTypeOK
  <2>5. OpInv(t)'
    BY <1>0, <1>1, <2>3, <2>4 DEF ThreadInv, OpInv
  <2>6. StandInv(t)'
    BY <1>0, <1>1, <2>3, <2>4 DEF ThreadInv, StandInv, Stands, Search, Path
  <2>7. VersionInv(t)'
    BY <1>0, <1>1, <1>3, <2>3, <2>4 DEF ThreadInv, VersionInv, Changed, Entry, Slot_
  <2>8. ThreadInv(t)'
    BY <2>3, <2>4, <2>5, <2>6, <2>7, NotHolding DEF ThreadInv, Holding
  <2> QED BY <1>1, <2>1, <2>3, <2>8, MoveStep DEF Making, Holding, Collects, Search
<1> QED BY <1>2, <1>3

-----------------------------------------------------------------------------
(* Where the leaves of a path are.                                         *)

\* Two leaves of the trie on the path of one key, one below the other: the
\* upper one has a layer there.
LEMMA UpperHasLayer ==
  ASSUME Inv, NEW l \in Leaves, NEW n \in Leaves, In(l), In(n), NEW k, NEW d \in Nat, d >= 1,
         Leads(Path(n), k, d), Len(Path(l)) >= d, \A i \in 1..d : Path(l)[i] = k[i]
  PROVE  Ent(n, <<k[d], "more">>).kind = "layer"
<1>0. LayersTypeOK /\ AboveInv /\ UniqueInv
  BY DEF Inv, TrieInv
<1>1. Len(Path(l)) \in Nat /\ Len(Path(n)) \in Nat
  BY <1>0, PathType
<1>2. d \in 1..Len(Path(l)) /\ Path(l)[d] = k[d]
  BY <1>1
<1>3. PICK m \in Leaves : In(m) /\ Leads(Path(m), Path(l), d) /\ Ent(m, <<Path(l)[d], "more">>).kind = "layer"
  BY <1>0, <1>2 DEF AboveInv, Above
<1>4. Same(Path(n), Path(m))
  BY <1>1, <1>3 DEF Same, Leads
<1>5. n = m
  BY <1>0, <1>3, <1>4 DEF UniqueInv
<1> QED BY <1>2, <1>3, <1>5

LEMMA OneLeaf ==
  ASSUME Inv, NEW l \in Leaves, NEW m \in Leaves, In(l), In(m), NEW k \in Seq(Slices),
         Same(Path(l), k), Same(Path(m), k)
  PROVE  l = m
<1>1. Same(Path(l), Path(m))
  BY DEF Same, Leads
<1> QED BY <1>1 DEF Inv, TrieInv, UniqueInv

\* A collector at the leaf above the layer it is for may leave when there is
\* no such layer, or it is not empty.
LEMMA NothingToCollect ==
  ASSUME Inv, NEW t \in Threads, NEW l \in Leaves, In(l), \A s \in TrieSlots : Ent(l, s).kind = "none",
         cur[t].pc \in {"gc", "gclock"}, Same(Path(l), cur[t].k),
         \/ cur[t].d < Len(cur[t].k)
         \/ Ent(cur[t].n, LayerSlot(t)).kind # "layer"
         \/ InUse(leaf[Ent(cur[t].n, LayerSlot(t)).to]) # {}
  PROVE  FALSE
<1> DEFINE o == cur[t]
           n == cur[t].n
           k == cur[t].k
<1>0. LayersTypeOK /\ ThreadInv(t)
  BY DEF Inv
<1>1. /\ n \in Leaves /\ k \in Seq(Slices) /\ o.d \in 1..Len(k) /\ In(n) /\ Leads(Path(n), k, o.d)
      /\ LayerSlot(t) = <<k[o.d], "more">> /\ <<k[o.d], "more">> \in TrieSlots
  BY <1>0, CurFacts, SlotFacts, MoreSlot DEF ThreadInv, OpInv, LockInv, Holding, LayerSlot
<1>2. Len(Path(l)) = Len(k) /\ \A i \in 1..Len(k) : Path(l)[i] = k[i]
  BY <1>1 DEF Same, Leads
<1>3. o.d \in Nat /\ o.d >= 1 /\ Len(Path(l)) >= o.d /\ \A i \in 1..o.d : Path(l)[i] = k[i]
  BY <1>1, <1>2
<1>4. Ent(n, <<k[o.d], "more">>).kind = "layer"
  <2> HIDE DEF n, k, o
  <2> QED BY <1>1, <1>3, UpperHasLayer
<1>5. CASE o.d < Len(k)
  <2>1. Slot(k, o.d) = <<k[o.d], "more">>
    BY <1>1, <1>5, SlotFacts
  <2>2. o.pc = "gc"
    BY <1>0, <1>5, <1>1 DEF ThreadInv, LockInv
  <2>3. o.e = Entry(t) /\ o.e.kind # "layer"
    BY <1>0, <2>2 DEF ThreadInv, LockInv
  <2> QED BY <2>1, <2>3, <1>4 DEF Entry, Slot_, Ent
<1>6. CASE o.d = Len(k)
  <2> DEFINE m == Ent(n, <<k[o.d], "more">>).to
  <2>1. m \in Leaves /\ In(m) /\ Leads(Path(m), k, o.d + 1)
    BY <1>1, <1>4, Below
  <2>2. l = m
    BY <2>1, <1>1, <1>6, OneLeaf DEF Same
  <2>3. InUse(leaf[m]) # {}
    BY <1>1, <1>4, <1>6
  <2> QED BY <2>2, <2>3 DEF InUse, Ent
<1> QED BY <1>1, <1>5, <1>6

\* It then leaves the coverage to the others.
LEMMA LeavesCover ==
  ASSUME Inv, NEW t \in Threads, leaf' = leaf, callbacks' = callbacks,
         \A u \in Threads \ {t} : cur'[u] = cur[u],
         cur[t].pc \in {"gc", "gclock"},
         \/ cur[t].d < Len(cur[t].k)
         \/ Ent(cur[t].n, LayerSlot(t)).kind # "layer"
         \/ InUse(leaf[Ent(cur[t].n, LayerSlot(t)).to]) # {}
  PROVE  CoverInv'
<1> SUFFICES ASSUME NEW l \in Leaves, In(l), l # 1, \A s \in TrieSlots : Ent(l, s).kind = "none"
             PROVE  Covered(Path(l))'
  BY DEF CoverInv, In, Ent
<1>0. Path(l)' = Path(l) /\ Covered(Path(l))
  BY DEF Path, Inv, CoverInv
<1>1. ASSUME NEW b \in callbacks, Same(Path(l), b.prefix) PROVE Covered(Path(l))'
  BY <1>0, <1>1 DEF Covered
<1>2. ASSUME NEW u \in Threads, cur[u].op = "gc", cur[u].pc \in Collects, Same(Path(l), cur[u].k)
      PROVE  Covered(Path(l))'
  <2>1. u # t
    BY <1>2, NothingToCollect
  <2> QED BY <2>1, <1>0, <1>2 DEF Covered
<1> QED BY <1>0, <1>1, <1>2 DEF Covered

\* A holder turns to unlock.
LEMMA ToUnlock ==
  ASSUME LayersTypeOK, NEW t \in Threads, ThreadInv(t), cur[t].pc \in Holding,
         cur'[t] = [cur[t] EXCEPT !.pc = "unlock"],
         abs'[cur[t].k] \in seen'[t] \/ cur[t].op = "gc",
         LET n == cur[t].n IN /\ leaf'[n].place = leaf[n].place /\ leaf'[n].path = leaf[n].path
                              /\ leaf'[n].lock = leaf[n].lock /\ leaf'[n].mod # "deleted"
  PROVE  ThreadInv(t)'
<1> DEFINE o == cur[t]
<1>0. o \in CurType
  BY CurFacts
<1>1. /\ cur'[t].pc = "unlock" /\ cur'[t].n = o.n /\ cur'[t].d = o.d /\ cur'[t].k = o.k /\ cur'[t].op = o.op
  BY <1>0 DEF CurType
<1>2. OpInv(t)'
  BY <1>1 DEF ThreadInv, OpInv, Holding
<1>3. LockInv(t)'
  BY <1>1 DEF ThreadInv, LockInv, Holding, Unmarked, In, Path
<1>4. MakeInv(t)' /\ OldInv(t)'
  BY <1>1 DEF MakeInv, OldInv, Making
<1> QED BY <1>1, <1>2, <1>3, <1>4, NotSearching DEF ThreadInv, Search

LEMMA GcLayerStep ==
  ASSUME Inv, NEW t \in Threads, GcLayer(t)
  PROVE  Inv'
<1> DEFINE o == cur[t]
           e == Ent(cur[t].n, LayerSlot(t))
           Leave == o.d < Len(o.k) \/ e.kind # "layer" \/ InUse(leaf[e.to]) # {}
<1>0. LayersTypeOK /\ ThreadInv(t)
  BY DEF Inv
<1>1. o.pc = "gc" /\ UNCHANGED <<leaf, prog, idx, abs, seen, callbacks>>
  BY DEF GcLayer, At
<1>2. o.op = "gc" /\ o.d \in 1..Len(o.k) /\ o.n \in Leaves /\ o.k \in Seq(Slices) /\ LayerSlot(t) \in TrieSlots
  BY <1>0, <1>1, CurFacts, SlotFacts, MoreSlot DEF ThreadInv, OpInv, LayerSlot
<1>3. CASE Leave
  <2> DEFINE c == [cur[t] EXCEPT !.pc = "unlock"]
  <2>1. cur' = [cur EXCEPT ![t] = c]
    BY <1>3 DEF GcLayer, Go, Ent
  <2>2. c \in CurType /\ c.pc = "unlock" /\ c.n = o.n
    BY <1>0, CurFacts DEF CurType, Pcs
  <2> HIDE DEF c
  <2>3. LayersTypeOK' /\ cur'[t] = c /\ \A u \in Threads \ {t} : cur'[u] = cur[u] /\ seen'[u] = seen[u]
    BY <1>1, <2>1, <2>2, Moved
  <2>4. ThreadInv(t)'
    BY <1>0, <1>1, <1>2, <2>3, ToUnlock DEF c, Holding, ThreadInv, LockInv
  <2>5. CoverInv'
    BY <1>1, <1>3, <2>3, LeavesCover
  <2> QED BY <1>1, <2>2, <2>3, <2>4, <2>5, QuietStep DEF Making, Holding
<1>4. CASE ~Leave
  <2> DEFINE c == [cur[t] EXCEPT !.pc = "gclock", !.to = e.to]
  <2>1. cur' = [cur EXCEPT ![t] = c]
    BY <1>4 DEF GcLayer, Go, Ent
  <2>2. e.to \in Leaves
    BY <1>0, <1>2, EntType
  <2>3. /\ c \in CurType /\ c.pc = "gclock" /\ c.n = o.n /\ c.d = o.d /\ c.k = o.k /\ c.op = o.op
        /\ c.to = e.to
    <3>1. c.pc = "gclock" /\ c.n = o.n /\ c.d = o.d /\ c.k = o.k /\ c.op = o.op /\ c.to = e.to
      BY <1>0, CurFacts DEF CurType
    <3>2. c \in CurType
      <4>1. cur[t] \in CurType
        BY <1>0, CurFacts
      <4>2. "gclock" \in Pcs
        BY DEF Pcs
      <4> QED BY <2>2, <4>1, <4>2 DEF CurType
    <3> QED BY <3>1, <3>2
  <2> HIDE DEF c
  <2>4. cur'[t] = c
    BY <1>0, <2>1 DEF LayersTypeOK
  <2>5. OpInv(t)'
    BY <1>0, <1>1, <1>2, <2>3, <2>4 DEF ThreadInv, OpInv
  <2>6. LockInv(t)'
    <3>1. /\ In(o.n) /\ Leads(Path(o.n), o.k, o.d) /\ leaf[o.n].lock /\ leaf[o.n].mod # "deleted"
          /\ ~leaf[o.n].ins
      BY <1>0, <1>1 DEF ThreadInv, LockInv, Holding, Unmarked
    <3>2. c.d = Len(c.k)
      BY <1>2, <1>4, <2>3
    <3>3. LayerSlot(t)' = LayerSlot(t)
      BY <2>3, <2>4 DEF LayerSlot
    <3> QED BY <3>1, <3>2, <3>3, <1>1, <1>4, <2>3, <2>4 DEF LockInv, In, Path, Ent
  <2>7. MakeInv(t)' /\ OldInv(t)'
    BY <2>3, <2>4 DEF MakeInv, OldInv, Making
  <2>8. ThreadInv(t)'
    BY <2>3, <2>4, <2>5, <2>6, <2>7, NotSearching DEF ThreadInv, Search
  <2> QED BY <1>1, <2>1, <2>3, <2>8, MoveStep DEF Making, Holding, Collects
<1> QED BY <1>3, <1>4

-----------------------------------------------------------------------------
(* Steps that change one leaf of the trie.                                 *)
Changes(n) ==
  /\ \A l \in Leaves \ {n} : leaf'[l] = leaf[l]
  /\ leaf'[n].place = leaf[n].place /\ leaf'[n].path = leaf[n].path
  /\ leaf[n].mod = "deleted" => leaf'[n].mod = "deleted"
  /\ leaf[n].vi <= leaf'[n].vi
  /\ leaf[n].ins /\ ~leaf'[n].ins => leaf[n].vi < leaf'[n].vi
  /\ \A s \in TrieSlots : /\ leaf'[n].ent[s].kind = "layer" <=> leaf[n].ent[s].kind = "layer"
                          /\ leaf[n].ent[s].kind = "layer" => leaf'[n].ent[s].to = leaf[n].ent[s].to
                          /\ GoodEntry(s, leaf'[n].ent[s])

\* What the others need of it.
Respects(t, n) ==
  \A u \in Threads \ {t} :
    /\ cur'[u] = cur[u] /\ seen[u] \subseteq seen'[u]
    /\ cur[u].pc # "idle" /\ cur[u].op # "gc" => abs'[cur[u].k] \in seen'[u]
    /\ cur[u].pc \in Holding => cur[u].n # n
    /\ cur[u].pc = "swapped" =>
         \A q \in Keys : cur[u].d <= Len(q) /\ Leads(Path(cur[u].n), q, cur[u].d)
                           /\ Slot(q, cur[u].d) = Slot_(u) => abs'[q] = abs[q]

LEMMA ChangeLeaf ==
  ASSUME Inv, LayersTypeOK', NEW t \in Threads, NEW n \in Leaves, leaf[n].place \in {"in", "out"},
         Changes(n), Respects(t, n),
         leaf'[n].mod = "deleted" => n # 1 /\ \A s \in TrieSlots : leaf'[n].ent[s].kind = "none"
  PROVE  TrieInv' /\ EntryInv' /\ EmptyInv' /\ \A u \in Threads \ {t} : ThreadInv(u)'
<1>0. LayersTypeOK /\ TrieInv /\ EntryInv /\ EmptyInv /\ 1 \in Leaves
  BY LayersAssumption DEF Inv
<1>1. SameLayers
  <2>1. leaf'[1].mod # "deleted"
    BY <1>0 DEF Changes, TrieInv, RootInv
  <2> QED BY <1>0, <2>1 DEF SameLayers, Changes, In
<1>2. TrieInv'
  BY <1>0, <1>1, SameTrie
<1>3. EntryInv'
  BY <1>0 DEF EntryInv, Changes, Ent
<1>4. EmptyInv'
  BY <1>0 DEF EmptyInv, Changes, Ent, In
<1>5. Evolves
  <2> SUFFICES ASSUME NEW l \in Leaves, leaf[l].place \in {"in", "out"}
               PROVE  /\ leaf'[l].path = leaf[l].path /\ leaf'[l].place \in {"in", "out"}
                      /\ leaf[l].place = "out" => leaf'[l].place = "out"
                      /\ leaf[l].mod = "deleted" => leaf'[l].mod = "deleted"
                      /\ leaf[l].vi <= leaf'[l].vi
                      /\ leaf[l].ins /\ ~leaf'[l].ins => leaf[l].vi < leaf'[l].vi
                      /\ leaf'[l].vi = leaf[l].vi =>
                           \A s \in TrieSlots : leaf'[l].ent[s].kind = "layer" => leaf[l].ent[s].kind = "layer"
    BY DEF Evolves
  <2>1. leaf[l].vi \in Nat
    BY <1>0 DEF LayersTypeOK, LeafType
  <2>2. CASE l = n
    BY <2>2 DEF Changes
  <2>3. CASE l # n
    BY <2>1, <2>3 DEF Changes
  <2> QED BY <2>2, <2>3
<1>6. GoneAbsent
  BY DEF GoneAbsent, Changes, In
<1>7. ASSUME NEW u \in Threads \ {t} PROVE ThreadInv(u)'
  <2>1. ThreadInv(u) /\ u \in Threads
    BY DEF Inv
  <2>2. cur[u].pc \in Making => \A i \in 1..Len(cur[u].new) : leaf'[cur[u].new[i]] = leaf[cur[u].new[i]]
    <3> SUFFICES ASSUME cur[u].pc \in Making, NEW i \in 1..Len(cur[u].new)
                 PROVE  leaf'[cur[u].new[i]] = leaf[cur[u].new[i]]
      OBVIOUS
    <3>1. cur[u].new[i] \in Leaves
      <4>1. cur[u] \in CurType
        BY <1>0, CurFacts
      <4>2. cur[u].new \in Seq(Leaves)
        BY <4>1 DEF CurType
      <4> QED BY <4>2
    <3>2. leaf[cur[u].new[i]].place = "new"
      BY <2>1 DEF ThreadInv, MakeInv, TwigInv
    <3> QED BY <3>1, <3>2 DEF Changes, In
  <2>3. cur[u].pc \in Holding => leaf'[cur[u].n] = leaf[cur[u].n]
    BY <1>0, <2>1, CurFacts DEF Changes, Respects
  <2>4. Spares(u)
    BY <2>2, <2>3 DEF Spares, Respects
  <2> QED BY <1>0, <1>5, <1>6, <2>1, <2>4, OthersKeep DEF TrieInv
<1> QED BY <1>2, <1>3, <1>4, <1>7

\* Nothing changed for the others but the leaf.
LEMMA RespectsOthers ==
  ASSUME Inv, NEW t \in Threads, NEW n, abs' = abs, seen' = seen,
         \A u \in Threads \ {t} : cur'[u] = cur[u],
         \A u \in Threads \ {t} : cur[u].pc \in Holding => cur[u].n # n
  PROVE  Respects(t, n)
  BY DEF Respects, Inv, ThreadInv, OpInv

LEMMA UnlockedFacts ==
  ASSUME NEW x \in LeafType
  PROVE  LET y == Unlocked(x)
         IN /\ y \in LeafType /\ y.ent = x.ent /\ y.place = x.place /\ y.path = x.path /\ y.mod = x.mod
            /\ ~y.ins /\ ~y.lock /\ y.vi = x.vi + (IF x.ins THEN 1 ELSE 0)
<1>1. x.vi + (IF x.ins THEN 1 ELSE 0) \in Nat
  BY DEF LeafType
<1> QED BY <1>1 DEF Unlocked, LeafType

LEMMA UnlockStep ==
  ASSUME Inv, NEW t \in Threads, UnlockLeaf(t)
  PROVE  Inv'
<1> DEFINE o == cur[t]
           n == cur[t].n
           c == [cur[t] EXCEPT !.pc = "done"]
<1>0. LayersTypeOK /\ ThreadInv(t)
  BY DEF Inv
<1>1. /\ o.pc = "unlock" /\ cur' = [cur EXCEPT ![t] = c]
      /\ leaf' = [leaf EXCEPT ![n] = Unlocked(leaf[n])]
      /\ UNCHANGED <<prog, idx, abs, seen, callbacks>>
  BY DEF UnlockLeaf, At, Go
<1>2. n \in Leaves /\ In(n) /\ leaf[n].mod # "deleted"
  BY <1>0, <1>1, CurFacts DEF ThreadInv, LockInv, Holding
<1>3. c \in CurType /\ c.pc = "done" /\ c.n = n /\ c.d = o.d /\ c.k = o.k /\ c.op = o.op
  BY <1>0, CurFacts DEF CurType, Pcs
<1> HIDE DEF c
<1>4. cur'[t] = c /\ (\A u \in Threads \ {t} : cur'[u] = cur[u]) /\ cur' \in [Threads -> CurType]
  BY <1>0, <1>1, <1>3 DEF LayersTypeOK
<1>5. /\ leaf'[n] = Unlocked(leaf[n]) /\ \A l \in Leaves \ {n} : leaf'[l] = leaf[l]
      /\ leaf[n] \in LeafType
  BY <1>0, <1>1, <1>2 DEF LayersTypeOK
<1>6. /\ leaf'[n] \in LeafType /\ leaf'[n].ent = leaf[n].ent /\ leaf'[n].place = leaf[n].place
      /\ leaf'[n].path = leaf[n].path /\ leaf'[n].mod = leaf[n].mod
      /\ ~leaf'[n].ins /\ leaf'[n].vi = leaf[n].vi + (IF leaf[n].ins THEN 1 ELSE 0)
  BY <1>5, UnlockedFacts
<1>7. LayersTypeOK'
  <2>1. leaf' \in [Leaves -> LeafType]
    BY <1>0, <1>1, <1>2, <1>5, <1>6 DEF LayersTypeOK
  <2> QED BY <1>0, <1>1, <1>4, <2>1 DEF LayersTypeOK
<1>8. Changes(n)
  <2>1. leaf[n].vi \in Nat /\ leaf[n].ins \in BOOLEAN
    BY <1>5 DEF LeafType
  <2>2. \A s \in TrieSlots : GoodEntry(s, leaf[n].ent[s])
    BY <1>2 DEF Inv, EntryInv, Ent
  <2> QED BY <1>5, <1>6, <2>1, <2>2 DEF Changes
<1>9. Respects(t, n)
  <2>1. \A u \in Threads \ {t} : cur[u].pc \in Holding => cur[u].n # n
    BY <1>1 DEF Inv, ApartInv, Holding
  <2> QED BY <1>1, <1>4, <2>1, RespectsOthers
<1>10. TrieInv' /\ EntryInv' /\ EmptyInv' /\ \A u \in Threads \ {t} : ThreadInv(u)'
  BY <1>2, <1>6, <1>7, <1>8, <1>9, ChangeLeaf DEF In
<1>11. ThreadInv(t)'
  <2>1. OpInv(t)'
    BY <1>0, <1>1, <1>3, <1>4 DEF ThreadInv, OpInv
  <2> QED BY <1>3, <1>4, <2>1, NotHolding, NotSearching DEF ThreadInv, Holding, Search
<1>12. ContentInv'
  <2>1. \A u \in Threads : cur[u].pc = "swapped" => cur'[u] = cur[u]
    BY <1>1, <1>4
  <2>2. \A l \in Leaves : /\ leaf'[l].place = leaf[l].place /\ leaf'[l].path = leaf[l].path
                          /\ leaf'[l].ent = leaf[l].ent
    BY <1>5, <1>6
  <2> QED BY <1>1, <2>1, <2>2, SameContent DEF Inv
<1>13. ApartInv' /\ OwnedInv'
  <2>1. \A l \in Leaves : leaf'[l].place = leaf[l].place
    BY <1>5, <1>6
  <2>2. o.pc \notin Making /\ c.pc \notin Making /\ c.pc \notin Holding
    BY <1>1, <1>3 DEF Making, Holding
  <2> QED BY <1>4, <2>1, <2>2, SameOwners DEF Inv
<1>14. CoverInv'
  <2>1. \A u \in Threads : cur[u].op = "gc" /\ cur[u].pc \in Collects =>
           cur'[u].op = "gc" /\ cur'[u].pc \in Collects /\ cur'[u].k = cur[u].k
    BY <1>1, <1>4 DEF Collects, Search
  <2>2. \A l \in Leaves : /\ leaf'[l].place = leaf[l].place /\ leaf'[l].path = leaf[l].path
                          /\ leaf'[l].ent = leaf[l].ent
    BY <1>5, <1>6
  <2> QED BY <1>1, <2>1, <2>2, SameCover DEF Inv, In
<1> QED BY <1>7, <1>10, <1>11, <1>12, <1>13, <1>14 DEF Inv

\* A step that changes no entry and not what a key holds.
LEMMA SameEntries ==
  ASSUME Inv, LayersTypeOK', NEW t \in Threads, NEW n \in Leaves, leaf[n].place \in {"in", "out"},
         abs' = abs, seen' = seen, callbacks' = callbacks,
         \A u \in Threads \ {t} : cur'[u] = cur[u],
         \A u \in Threads \ {t} : cur[u].pc \in Holding => cur[u].n # n,
         \A l \in Leaves \ {n} : leaf'[l] = leaf[l],
         leaf'[n].place = leaf[n].place, leaf'[n].path = leaf[n].path, leaf'[n].ent = leaf[n].ent,
         leaf'[n].vi = leaf[n].vi, leaf'[n].ins = leaf[n].ins,
         leaf[n].mod = "deleted" => leaf'[n].mod = "deleted",
         leaf'[n].mod = "deleted" => n # 1 /\ \A s \in TrieSlots : leaf'[n].ent[s].kind = "none",
         cur[t].pc \notin Making, cur'[t].pc \notin Making,
         cur[t].op = "gc" /\ cur[t].pc \in Collects =>
           cur'[t].op = "gc" /\ cur'[t].pc \in Collects /\ cur'[t].k = cur[t].k,
         ThreadInv(t)', ApartInv'
  PROVE  Inv'
<1>1. Changes(n)
  <2>1. leaf[n].vi \in Nat
    BY DEF Inv, LayersTypeOK, LeafType
  <2>2. \A s \in TrieSlots : GoodEntry(s, leaf[n].ent[s])
    BY DEF Inv, EntryInv, Ent
  <2> QED BY <2>1, <2>2 DEF Changes
<1>2. TrieInv' /\ EntryInv' /\ EmptyInv' /\ \A u \in Threads \ {t} : ThreadInv(u)'
  BY <1>1, RespectsOthers, ChangeLeaf
<1>3. \A l \in Leaves : /\ leaf'[l].place = leaf[l].place /\ leaf'[l].path = leaf[l].path
                        /\ leaf'[l].ent = leaf[l].ent
  OBVIOUS
<1>4. ContentInv'
  <2>1. \A u \in Threads : cur[u].pc = "swapped" => cur'[u] = cur[u]
    BY DEF Making
  <2> QED BY <1>3, <2>1, SameContent DEF Inv
<1>5. OwnedInv'
  <2> SUFFICES ASSUME NEW l \in Leaves, leaf[l].place = "new"
               PROVE  \E u \in Threads : cur'[u].pc \in Making /\ \E i \in 1..Len(cur'[u].new) : cur'[u].new[i] = l
    BY <1>3 DEF OwnedInv
  <2>1. PICK u \in Threads : cur[u].pc \in Making /\ \E i \in 1..Len(cur[u].new) : cur[u].new[i] = l
    BY DEF Inv, OwnedInv
  <2>2. cur'[u] = cur[u]
    BY <2>1
  <2> QED BY <2>1, <2>2
<1>6. CoverInv'
  <2>1. \A u \in Threads : cur[u].op = "gc" /\ cur[u].pc \in Collects =>
           cur'[u].op = "gc" /\ cur'[u].pc \in Collects /\ cur'[u].k = cur[u].k
    OBVIOUS
  <2> QED BY <1>3, <2>1, SameCover DEF Inv, In
<1> QED BY <1>2, <1>4, <1>5, <1>6 DEF Inv

LEMMA LockLeafStep ==
  ASSUME Inv, NEW t \in Threads, LockLeaf(t)
  PROVE  Inv'
<1> DEFINE o == cur[t]
           n == cur[t].n
           Back == Changed(t) \/ InUse(leaf[n]) # o.all
           r == [cur[t] EXCEPT !.pc = "reach", !.n = 1, !.d = 1]
           h == [cur[t] EXCEPT !.pc = cur[t].op, !.e = Entry(t)]
<1>0. LayersTypeOK /\ ThreadInv(t) /\ EmptyInv
  BY DEF Inv
<1>1. o.pc = "lock" /\ ~leaf[n].lock /\ UNCHANGED <<prog, idx, abs, seen, callbacks>>
  BY DEF LockLeaf, At
<1>2. CASE Back
  BY <1>1, <1>2, AgainStep DEF LockLeaf, Search
<1>3. CASE ~Back
  <2>1. /\ n \in Leaves /\ o.d \in 1..Len(o.k) /\ o.k \in Seq(Slices) /\ Stands(t, n, o.d)
        /\ o.op \in {"put", "remove", "gc"} /\ o \in CurType /\ Slot(o.k, o.d) \in TrieSlots
    BY <1>0, <1>1, CurFacts, SlotFacts DEF ThreadInv, OpInv, StandInv, Search
  <2>2. leaf' = [leaf EXCEPT ![n].lock = TRUE] /\ ~leaf[n].ins /\ leaf[n].vi = o.v
    BY <1>3 DEF LockLeaf, Changed
  <2>3. leaf[n] \in LeafType
    BY <1>0, <2>1 DEF LayersTypeOK
  <2>4. /\ leaf'[n] = [leaf[n] EXCEPT !.lock = TRUE] /\ \A l \in Leaves \ {n} : leaf'[l] = leaf[l]
    BY <1>0, <2>1, <2>2 DEF LayersTypeOK
  <2>5. /\ leaf'[n] \in LeafType /\ leaf'[n].lock /\ leaf'[n].ins = leaf[n].ins /\ leaf'[n].vi = leaf[n].vi
        /\ leaf'[n].mod = leaf[n].mod /\ leaf'[n].ent = leaf[n].ent /\ leaf'[n].place = leaf[n].place
        /\ leaf'[n].path = leaf[n].path
    BY <2>3, <2>4 DEF LeafType
  <2>6. leaf' \in [Leaves -> LeafType]
    BY <1>0, <2>1, <2>2, <2>4, <2>5 DEF LayersTypeOK
  <2>7. \A u \in Threads : cur[u].pc \in Holding => cur[u].n # n
    BY <1>1 DEF Inv, ThreadInv, LockInv
  <2>8. \A u, v \in Threads : u # v =>
          /\ cur[u].pc \in Holding /\ cur[v].pc \in Holding => cur[u].n # cur[v].n
          /\ cur[u].pc \in Making /\ cur[v].pc \in Making =>
               \A i \in 1..Len(cur[u].new), j \in 1..Len(cur[v].new) : cur[u].new[i] # cur[v].new[j]
    BY DEF Inv, ApartInv
  <2>9. o.pc \notin Making /\ o.pc \notin Holding
    BY <1>1 DEF Making, Holding
  <2>10. CASE leaf[n].mod = "deleted"
    <3>1. cur' = [cur EXCEPT ![t] = r]
      BY <1>3, <2>10 DEF LockLeaf, Go
    <3>2. r \in CurType /\ r.pc = "reach" /\ r.n = 1 /\ r.d = 1 /\ r.k = o.k /\ r.op = o.op
      BY <2>1, LayersAssumption DEF CurType, Pcs
    <3> HIDE DEF r
    <3>3. cur'[t] = r /\ (\A u \in Threads \ {t} : cur'[u] = cur[u]) /\ cur' \in [Threads -> CurType]
      BY <1>0, <3>1, <3>2 DEF LayersTypeOK
    <3>4. ThreadInv(t)'
      <4>1. OpInv(t)'
        BY <1>0, <1>1, <2>1, <3>2, <3>3 DEF ThreadInv, OpInv
      <4>2. StandInv(t)'
        <5>1. In(1) /\ Len(Path(1)) = 0 /\ 1 \in Leaves
          BY LayersAssumption DEF Inv, TrieInv, RootInv
        <5>2. leaf'[1].place = "in" /\ leaf'[1].path = Path(1)
          BY <5>1, <2>4, <2>5 DEF In, Path
        <5> QED BY <5>1, <5>2, <3>2, <3>3 DEF StandInv, Stands, Leads, Path
      <4>3. VersionInv(t)'
        BY <3>2, <3>3 DEF VersionInv
      <4> QED BY <3>2, <3>3, <4>1, <4>2, <4>3, NotHolding DEF ThreadInv, Holding
    <3>5. LayersTypeOK'
      BY <1>0, <1>1, <2>6, <3>3 DEF LayersTypeOK
    <3>6. cur'[t].pc \notin Making /\ cur'[t].pc \notin Holding
      BY <3>2, <3>3 DEF Making, Holding
    <3>7. ApartInv'
      <4>1. \A u \in Threads : cur'[u].pc \in Holding \/ cur'[u].pc \in Making => cur'[u] = cur[u]
        BY <3>3, <3>6
      <4> QED BY <4>1, <2>8 DEF ApartInv
    <3>8. cur'[t].op = o.op /\ cur'[t].pc \in Collects /\ cur'[t].k = o.k
      BY <3>2, <3>3 DEF Collects, Search
    <3>9. n # 1 /\ \A s \in TrieSlots : leaf'[n].ent[s].kind = "none"
      BY <1>0, <2>1, <2>5, <2>10 DEF EmptyInv, Ent, Inv, TrieInv, RootInv
    <3>10. leaf[n].place \in {"in", "out"}
      BY <2>1 DEF Stands
    <3>11. /\ abs' = abs /\ seen' = seen /\ callbacks' = callbacks
           /\ \A u \in Threads \ {t} : cur[u].pc \in Holding => cur[u].n # n
      BY <1>1, <2>7
    <3>12. /\ \A l \in Leaves \ {n} : leaf'[l] = leaf[l]
           /\ leaf[n].mod = "deleted" => leaf'[n].mod = "deleted"
           /\ n \in Leaves /\ \A u \in Threads \ {t} : cur'[u] = cur[u]
      BY <2>1, <2>4, <2>5, <3>3
    <3>13. o.op = "gc" => cur'[t].op = "gc" /\ cur'[t].pc \in Collects /\ cur'[t].k = o.k
      BY <3>8
    <3> QED BY <2>5, <2>9, <3>4, <3>5, <3>6, <3>7, <3>9, <3>10, <3>11, <3>12, <3>13, SameEntries
  <2>11. CASE leaf[n].mod # "deleted"
    <3>1. cur' = [cur EXCEPT ![t] = h]
      BY <1>3, <2>11 DEF LockLeaf, Go
    <3>2. Entry(t) = Ent(n, Slot(o.k, o.d)) /\ Entry(t) \in Entries
      BY <1>0, <2>1, EntType DEF Entry, Slot_, Ent
    <3>3. h \in CurType /\ h.pc = o.op /\ h.e = Entry(t) /\ h.n = n /\ h.d = o.d /\ h.k = o.k /\ h.op = o.op
      BY <2>1, <3>2 DEF CurType, Pcs
    <3> HIDE DEF h
    <3>4. cur'[t] = h /\ (\A u \in Threads \ {t} : cur'[u] = cur[u]) /\ cur' \in [Threads -> CurType]
      BY <1>0, <3>1, <3>3 DEF LayersTypeOK
    <3>5. In(n)
      BY <1>0, <2>1, <2>11 DEF Stands, EmptyInv, In
    <3>6. Entry(t).kind # "layer"
      BY <1>0, <1>1, <2>2 DEF ThreadInv, VersionInv, Changed
    <3>7. ThreadInv(t)'
      <4>1. OpInv(t)'
        BY <1>0, <1>1, <2>1, <3>3, <3>4 DEF ThreadInv, OpInv
      <4>2. Entry(t)' = Entry(t)
        BY <2>5, <3>3, <3>4 DEF Entry, Slot_
      <4>3. LockInv(t)'
        BY <2>1, <2>2, <2>5, <2>11, <3>3, <3>4, <3>5, <3>6, <4>2 DEF LockInv, Stands, In, Path
      <4>4. MakeInv(t)' /\ OldInv(t)'
        BY <2>1, <3>3, <3>4 DEF MakeInv, OldInv, Making
      <4> QED BY <2>1, <3>3, <3>4, <4>1, <4>3, <4>4, NotSearching DEF ThreadInv, Search
    <3>8. LayersTypeOK'
      BY <1>0, <1>1, <2>6, <3>4 DEF LayersTypeOK
    <3>9. cur'[t].pc \notin Making
      BY <2>1, <3>3, <3>4 DEF Making
    <3>10. ApartInv'
      <4>1. \A u \in Threads : cur'[u].pc \in Making => cur'[u] = cur[u]
        BY <3>4, <3>9
      <4>2. ASSUME NEW u \in Threads, NEW v \in Threads, u # v, cur'[u].pc \in Holding, cur'[v].pc \in Holding
            PROVE  cur'[u].n # cur'[v].n
        <5>1. CASE u = t
          BY <5>1, <4>2, <3>3, <3>4, <2>7
        <5>2. CASE v = t
          BY <5>2, <4>2, <3>3, <3>4, <2>7
        <5>3. CASE u # t /\ v # t
          BY <5>3, <4>2, <3>4, <2>8
        <5> QED BY <5>1, <5>2, <5>3
      <4>3. ASSUME NEW u \in Threads, NEW v \in Threads, u # v, cur'[u].pc \in Making, cur'[v].pc \in Making,
                   NEW i \in 1..Len(cur'[u].new), NEW j \in 1..Len(cur'[v].new)
            PROVE  cur'[u].new[i] # cur'[v].new[j]
        <5>1. cur'[u] = cur[u] /\ cur'[v] = cur[v]
          BY <4>1, <4>3
        <5> QED BY <4>3, <5>1, <2>8
      <4> QED BY <4>2, <4>3 DEF ApartInv
    <3>11. o.op = "gc" => cur'[t].op = "gc" /\ cur'[t].pc \in Collects /\ cur'[t].k = o.k
      BY <3>3, <3>4 DEF Collects
    <3> QED BY <1>1, <2>1, <2>4, <2>5, <2>7, <2>9, <2>11, <3>4, <3>5, <3>7, <3>8, <3>9, <3>10, <3>11,
               SameEntries DEF In
  <2> QED BY <2>10, <2>11
<1> QED BY <1>2, <1>3

LEMMA KillLayerStep ==
  ASSUME Inv, NEW t \in Threads, KillLayer(t)
  PROVE  Inv'
<1> DEFINE o == cur[t]
           to == cur[t].to
<1>0. LayersTypeOK /\ ThreadInv(t)
  BY DEF Inv
<1>1. o.pc = "gclock" /\ ~leaf[to].lock /\ UNCHANGED <<prog, idx, abs, seen, callbacks>>
  BY DEF KillLayer, At
<1>2. /\ o.op = "gc" /\ o.d \in 1..Len(o.k) /\ o.n \in Leaves /\ o.k \in Seq(Slices) /\ o \in CurType
      /\ LayerSlot(t) = <<o.k[o.d], "more">> /\ LayerSlot(t) \in TrieSlots /\ to \in Leaves
  BY <1>0, <1>1, CurFacts, SlotFacts, MoreSlot DEF ThreadInv, OpInv, LayerSlot
<1>3. /\ In(o.n) /\ Leads(Path(o.n), o.k, o.d) /\ leaf[o.n].lock /\ leaf[o.n].mod # "deleted"
      /\ ~leaf[o.n].ins /\ o.d = Len(o.k)
      /\ Ent(o.n, LayerSlot(t)).kind = "layer" /\ Ent(o.n, LayerSlot(t)).to = to
  BY <1>0, <1>1 DEF ThreadInv, LockInv, Holding, Unmarked
<1>4. In(to) /\ Leads(Path(to), o.k, o.d + 1)
  BY <1>2, <1>3, Below
<1>5. CASE InUse(leaf[to]) # {}
  <2> DEFINE c == [cur[t] EXCEPT !.pc = "unlock"]
  <2>1. cur' = [cur EXCEPT ![t] = c] /\ leaf' = leaf
    BY <1>5 DEF KillLayer, Go
  <2>2. c \in CurType /\ c.pc = "unlock" /\ c.n = o.n
    BY <1>2 DEF CurType, Pcs
  <2> HIDE DEF c
  <2>3. LayersTypeOK' /\ cur'[t] = c /\ \A u \in Threads \ {t} : cur'[u] = cur[u] /\ seen'[u] = seen[u]
    BY <1>1, <2>1, <2>2, Moved
  <2>4. ThreadInv(t)'
    BY <1>0, <1>1, <1>2, <1>3, <2>1, <2>3, ToUnlock DEF c, Holding
  <2>5. CoverInv'
    BY <1>1, <1>3, <1>5, <2>1, <2>3, LeavesCover
  <2> QED BY <1>1, <2>1, <2>2, <2>3, <2>4, <2>5, QuietStep DEF Making, Holding
<1>6. CASE InUse(leaf[to]) = {}
  <2> DEFINE c == [cur[t] EXCEPT !.pc = "gcremove"]
  <2>1. cur' = [cur EXCEPT ![t] = c] /\ leaf' = [leaf EXCEPT ![to].mod = "deleted"]
    BY <1>6 DEF KillLayer, Go
  <2>2. c \in CurType /\ c.pc = "gcremove" /\ c.n = o.n /\ c.d = o.d /\ c.k = o.k /\ c.op = o.op /\ c.to = to
    BY <1>2 DEF CurType, Pcs
  <2> HIDE DEF c
  <2>3. cur'[t] = c /\ (\A u \in Threads \ {t} : cur'[u] = cur[u]) /\ cur' \in [Threads -> CurType]
    BY <1>0, <2>1, <2>2 DEF LayersTypeOK
  <2>4. leaf[to] \in LeafType
    BY <1>0, <1>2 DEF LayersTypeOK
  <2>5. leaf'[to] = [leaf[to] EXCEPT !.mod = "deleted"] /\ \A l \in Leaves \ {to} : leaf'[l] = leaf[l]
    BY <1>0, <1>2, <2>1 DEF LayersTypeOK
  <2>6. /\ leaf'[to] \in LeafType /\ leaf'[to].ins = leaf[to].ins /\ leaf'[to].vi = leaf[to].vi
        /\ leaf'[to].mod = "deleted" /\ leaf'[to].ent = leaf[to].ent
        /\ leaf'[to].place = leaf[to].place /\ leaf'[to].path = leaf[to].path
    BY <2>4, <2>5 DEF LeafType
  <2>7. LayersTypeOK'
    <3>1. leaf' \in [Leaves -> LeafType]
      BY <1>0, <1>2, <2>1, <2>5, <2>6 DEF LayersTypeOK
    <3> QED BY <1>0, <1>1, <2>3, <3>1 DEF LayersTypeOK
  <2>8. \A u \in Threads : cur[u].pc \in Holding => cur[u].n # to
    BY <1>1 DEF Inv, ThreadInv, LockInv
  <2>9. to # 1 /\ \A s \in TrieSlots : leaf'[to].ent[s].kind = "none"
    <3>1. Len(Path(to)) # 0
      BY <1>2, <1>4 DEF Leads
    <3> QED BY <3>1, <1>6, <2>6 DEF Inv, TrieInv, RootInv, InUse
  <2>10. ThreadInv(t)'
    <3>1. OpInv(t)'
      BY <1>0, <1>1, <1>2, <2>2, <2>3 DEF ThreadInv, OpInv
    <3>2. leaf'[o.n] = leaf[o.n]
      BY <1>1, <1>2, <2>5, <2>8 DEF Holding
    <3>3. LayerSlot(t)' = LayerSlot(t)
      BY <2>2, <2>3 DEF LayerSlot
    <3>4. LockInv(t)'
      BY <1>3, <2>2, <2>3, <2>6, <3>2, <3>3 DEF LockInv, In, Path, Ent
    <3>5. MakeInv(t)' /\ OldInv(t)'
      BY <2>2, <2>3 DEF MakeInv, OldInv, Making
    <3> QED BY <2>2, <2>3, <3>1, <3>4, <3>5, NotSearching DEF ThreadInv, Search
  <2>11. ApartInv'
    <3>1. \A l \in Leaves : leaf'[l].place = leaf[l].place
      BY <2>5, <2>6
    <3> QED BY <1>1, <2>2, <2>3, <3>1, SameOwners DEF Inv, Making, Holding
  <2>12. /\ o.pc \notin Making /\ cur'[t].pc \notin Making
         /\ cur'[t].op = o.op /\ cur'[t].pc \in Collects /\ cur'[t].k = o.k
    BY <1>1, <2>2, <2>3 DEF Making, Collects
  <2>13. /\ \A l \in Leaves \ {to} : leaf'[l] = leaf[l]
         /\ leaf[to].place \in {"in", "out"}
         /\ \A u \in Threads \ {t} : cur'[u] = cur[u]
         /\ \A u \in Threads \ {t} : cur[u].pc \in Holding => cur[u].n # to
    BY <1>4, <2>3, <2>5, <2>8 DEF In
  <2> QED BY <1>1, <1>2, <2>6, <2>7, <2>9, <2>10, <2>11, <2>12, <2>13, SameEntries
<1> QED BY <1>5, <1>6

-----------------------------------------------------------------------------
(* What a key holds changes in one leaf.                                   *)

\* Other leaves on the path of a key have a layer for it.
LEMMA OnlyHere ==
  ASSUME Inv, NEW n \in Leaves, NEW l \in Leaves, In(n), In(l), l # n, NEW k \in Seq(Slices),
         NEW d \in 1..Len(k), NEW b \in 1..Len(k), Leads(Path(n), k, d), Leads(Path(l), k, b),
         Ent(n, Slot(k, d)).kind # "layer"
  PROVE  Ent(l, Slot(k, b)).kind = "layer"
<1>1. d \in Nat /\ d >= 1 /\ b \in Nat /\ b >= 1
  OBVIOUS
<1>2. CASE b = d
  <2>1. Same(Path(n), Path(l))
    BY <1>1, <1>2 DEF Same, Leads
  <2> QED BY <2>1 DEF Inv, TrieInv, UniqueInv
<1>3. CASE d < b
  <2>1. Len(Path(l)) >= d /\ \A i \in 1..d : Path(l)[i] = k[i]
    BY <1>1, <1>3 DEF Leads
  <2>2. Ent(n, <<k[d], "more">>).kind = "layer"
    BY <1>1, <2>1, UpperHasLayer
  <2>3. Slot(k, d) = <<k[d], "more">>
    BY <1>3, SlotFacts
  <2> QED BY <2>2, <2>3
<1>4. CASE b < d
  <2>1. Len(Path(n)) >= b /\ \A i \in 1..b : Path(n)[i] = k[i]
    BY <1>1, <1>4 DEF Leads
  <2>2. Ent(l, <<k[b], "more">>).kind = "layer"
    BY <1>1, <2>1, UpperHasLayer
  <2>3. Slot(k, b) = <<k[b], "more">>
    BY <1>4, SlotFacts
  <2> QED BY <2>2, <2>3
<1> QED BY <1>1, <1>2, <1>3, <1>4

Fits(e, k, d) == e.kind = "none" \/ (e.kind = "value" /\ e.suf = Suffix(k, d))

LEMMA WriteContent ==
  ASSUME Inv, NEW n \in Leaves, In(n), NEW k \in Keys, NEW d \in 1..Len(k), Leads(Path(n), k, d), NEW v,
         \A l \in Leaves \ {n} : leaf'[l] = leaf[l], leaf'[n].path = leaf[n].path,
         \A s \in TrieSlots \ {Slot(k, d)} : leaf'[n].ent[s] = leaf[n].ent[s],
         Fits(Ent(n, Slot(k, d)), k, d), Fits(leaf'[n].ent[Slot(k, d)], k, d),
         v = IF leaf'[n].ent[Slot(k, d)].kind = "none" THEN NoValue ELSE leaf'[n].ent[Slot(k, d)].val,
         abs'[k] = v, \A q \in Keys \ {k} : abs'[q] = abs[q],
         \A u \in Threads : cur[u].pc = "swapped" => cur'[u] = cur[u]
  PROVE  ContentInv'
<1> SUFFICES ASSUME NEW l \in Leaves, NEW q \in Keys, NEW b \in 1..Len(q), In(l)', Leads(Path(l)', q, b)
             PROVE  Right(l, q, b)'
  BY DEF ContentInv, In, Path
<1>0. k \in Seq(Slices) /\ q \in Seq(Slices) /\ In(l) /\ Leads(Path(l), q, b)
  BY LayersAssumption DEF In, Path
<1>1. Right(l, q, b) /\ Slot(q, b) \in TrieSlots
  BY <1>0, SlotFacts DEF Inv, ContentInv
<1>2. Swapping(l, Slot(q, b)) => Swapping(l, Slot(q, b))'
  BY DEF Swapping, At, Slot_
<1>3. CASE l # n
  <2>1. leaf'[l] = leaf[l]
    BY <1>3
  <2>2. CASE q # k
    BY <1>1, <1>2, <2>1, <2>2 DEF Right, Ent
  <2>3. CASE q = k
    <3>1. Ent(l, Slot(q, b)).kind = "layer"
      BY <1>0, <1>3, <2>3, OnlyHere DEF Fits
    <3> QED BY <2>1, <3>1 DEF Right, Ent
  <2> QED BY <2>2, <2>3
<1>4. CASE l = n
  <2>1. b = d
    BY <1>0, <1>4 DEF Leads
  <2>2. CASE Slot(q, d) # Slot(k, d)
    <3>1. leaf'[n].ent[Slot(q, d)] = leaf[n].ent[Slot(q, d)] /\ abs'[q] = abs[q]
      BY <1>1, <2>1, <2>2
    <3> QED BY <1>1, <1>2, <1>4, <2>1, <3>1 DEF Right, Ent
  <2>3. CASE Slot(q, d) = Slot(k, d) /\ q = k
    BY <1>4, <2>1, <2>3 DEF Right, Ent, Fits
  <2>4. CASE Slot(q, d) = Slot(k, d) /\ q # k
    <3>1. Suffix(q, d) # Suffix(k, d)
      BY <1>0, <1>4, <2>1, <2>4, SameKey
    <3>2. abs[q] = NoValue
      BY <1>1, <1>4, <2>1, <2>4, <3>1 DEF Right, Fits
    <3> QED BY <1>4, <2>1, <2>4, <3>1, <3>2 DEF Right, Ent, Fits
  <2> QED BY <2>2, <2>3, <2>4
<1> QED BY <1>3, <1>4

LEMMA BecomesFacts ==
  ASSUME LayersTypeOK, NEW k \in Keys, NEW v \in Held, Becomes(k, v)
  PROVE  /\ abs' \in [Keys -> Held] /\ seen' \in [Threads -> SUBSET Held]
         /\ abs'[k] = v /\ \A q \in Keys \ {k} : abs'[q] = abs[q]
         /\ \A u \in Threads : /\ seen[u] \subseteq seen'[u]
                               /\ cur[u].pc # "idle" /\ cur[u].k = k => v \in seen'[u]
<1>1. /\ abs' = [abs EXCEPT ![k] = v] /\ abs \in [Keys -> Held] /\ seen \in [Threads -> SUBSET Held]
      /\ seen' = [t \in Threads |-> IF ~At(t, "idle") /\ cur[t].k = k THEN seen[t] \cup {v} ELSE seen[t]]
  BY DEF LayersTypeOK, Becomes
<1>2. abs' \in [Keys -> Held] /\ abs'[k] = v /\ \A q \in Keys \ {k} : abs'[q] = abs[q]
  BY <1>1
<1>3. ASSUME NEW u \in Threads
      PROVE  /\ seen'[u] \in SUBSET Held /\ seen[u] \subseteq seen'[u]
             /\ cur[u].pc # "idle" /\ cur[u].k = k => v \in seen'[u]
  BY <1>1 DEF At
<1>4. seen' \in [Threads -> SUBSET Held]
  <2>1. seen' = [u \in Threads |-> seen'[u]]
    BY <1>1
  <2> QED BY <2>1, <1>3
<1> QED BY <1>2, <1>3, <1>4

LEMMA WithFacts ==
  ASSUME NEW x \in LeafType, NEW s0 \in TrieSlots, NEW e \in Entries
  PROVE  LET y == With(x, s0, e)
         IN /\ y \in LeafType /\ y.place = x.place /\ y.path = x.path /\ y.vi = x.vi /\ y.lock = x.lock
            /\ y.mod = x.mod /\ y.ins = x.ins /\ y.ent[s0] = e
            /\ \A s \in TrieSlots \ {s0} : y.ent[s] = x.ent[s]
  BY DEF With, LeafType

\* A holder writes its key's entry, and turns to unlock.
LEMMA WriteStep ==
  ASSUME Inv, NEW t \in Threads, cur[t].pc \in {"put", "publish", "remove"}, NEW v \in Held,
         NEW y \in LeafType, NEW e \in Entries,
         LET n == cur[t].n
             x == leaf[cur[t].n]
         IN /\ y.place = x.place /\ y.path = x.path /\ y.vi = x.vi /\ y.ent = x.ent /\ y.lock = x.lock
            /\ y.mod # "deleted" /\ (x.ins => y.ins)
            /\ leaf' = [leaf EXCEPT ![n] = With(y, Slot_(t), e)],
         Fits(Entry(t), cur[t].k, cur[t].d), Fits(e, cur[t].k, cur[t].d),
         v = IF e.kind = "none" THEN NoValue ELSE e.val,
         Becomes(cur[t].k, v), cur' = [cur EXCEPT ![t] = [cur[t] EXCEPT !.pc = "unlock"]],
         prog' = prog, idx' = idx,
         callbacks' \subseteq [prefix : Seq(Slices) \ {<<>>}, wait : SUBSET Threads],
         CoverInv'
  PROVE  Inv'
<1> DEFINE o == cur[t]
           n == cur[t].n
           k == cur[t].k
           d == cur[t].d
           c == [cur[t] EXCEPT !.pc = "unlock"]
           s0 == Slot(cur[t].k, cur[t].d)
<1>0. LayersTypeOK /\ ThreadInv(t)
  BY DEF Inv
<1>1. /\ o \in CurType /\ n \in Leaves /\ k \in Keys /\ d \in 1..Len(k) /\ In(n) /\ Leads(Path(n), k, d)
      /\ k \in Seq(Slices) /\ s0 \in TrieSlots /\ Slot_(t) = s0 /\ Entry(t) = Ent(n, s0)
      /\ leaf[n].lock /\ leaf[n].mod # "deleted"
  BY <1>0, CurFacts, SlotFacts DEF ThreadInv, OpInv, LockInv, Holding, Slot_, Entry, Ent
<1>2. c \in CurType /\ c.pc = "unlock" /\ c.n = n
  BY <1>1 DEF CurType, Pcs
<1> HIDE DEF c
<1>3. cur'[t] = c /\ (\A u \in Threads \ {t} : cur'[u] = cur[u]) /\ cur' \in [Threads -> CurType]
  BY <1>0, <1>2 DEF LayersTypeOK, c
<1>4. /\ leaf'[n] = With(y, s0, e) /\ leaf' \in [Leaves -> LeafType]
      /\ \A l \in Leaves \ {n} : leaf'[l] = leaf[l]
  <2>1. With(y, s0, e) \in LeafType
    BY <1>1 DEF With, LeafType
  <2> QED BY <1>0, <1>1, <2>1 DEF LayersTypeOK
<1>5. /\ leaf'[n].place = leaf[n].place /\ leaf'[n].path = leaf[n].path /\ leaf'[n].vi = leaf[n].vi
      /\ leaf'[n].lock = leaf[n].lock /\ leaf'[n].mod # "deleted" /\ (leaf[n].ins => leaf'[n].ins)
      /\ leaf'[n].ent[s0] = e
      /\ \A s \in TrieSlots \ {s0} : leaf'[n].ent[s] = leaf[n].ent[s]
  <2>1. LET z == With(y, s0, e)
        IN /\ z.place = y.place /\ z.path = y.path /\ z.vi = y.vi /\ z.lock = y.lock
           /\ z.mod = y.mod /\ z.ins = y.ins /\ z.ent[s0] = e
           /\ \A s \in TrieSlots \ {s0} : z.ent[s] = y.ent[s]
    <3>1. s0 \in TrieSlots
      BY <1>1
    <3> HIDE DEF s0
    <3> QED BY <3>1, WithFacts
  <2> QED BY <1>4, <2>1
<1>6. /\ abs' \in [Keys -> Held] /\ seen' \in [Threads -> SUBSET Held]
      /\ abs'[k] = v /\ \A q \in Keys \ {k} : abs'[q] = abs[q]
      /\ \A u \in Threads : /\ seen[u] \subseteq seen'[u]
                            /\ cur[u].pc # "idle" /\ cur[u].k = k => v \in seen'[u]
  BY <1>0, <1>1, BecomesFacts
<1>7. LayersTypeOK'
  BY <1>0, <1>3, <1>4, <1>6 DEF LayersTypeOK
<1>8. Changes(n)
  <2>1. leaf[n].vi \in Nat
    BY <1>0, <1>1 DEF LayersTypeOK, LeafType
  <2>2. \A s \in TrieSlots : GoodEntry(s, leaf[n].ent[s])
    BY <1>1 DEF Inv, EntryInv, Ent
  <2>3. GoodEntry(s0, e)
    <3>1. Len(Suffix(k, d)) = 0 <=> Len(k) = d
      BY <1>1, SuffixFacts
    <3> QED BY <1>1, <3>1, SlotFacts DEF GoodEntry, Fits
  <2>4. leaf[n].ent[s0].kind # "layer" /\ e.kind # "layer"
    BY <1>1 DEF Fits, Ent
  <2>5. ASSUME NEW s \in TrieSlots
        PROVE  /\ leaf'[n].ent[s].kind = "layer" <=> leaf[n].ent[s].kind = "layer"
               /\ leaf[n].ent[s].kind = "layer" => leaf'[n].ent[s].to = leaf[n].ent[s].to
               /\ GoodEntry(s, leaf'[n].ent[s])
    <3>1. CASE s = s0
      BY <3>1, <1>5, <2>3, <2>4
    <3>2. CASE s # s0
      BY <3>2, <1>5, <2>2
    <3> QED BY <3>1, <3>2
  <2>6. \A l \in Leaves \ {n} : leaf'[l] = leaf[l]
    BY <1>4
  <2>7. /\ leaf'[n].place = leaf[n].place /\ leaf'[n].path = leaf[n].path
        /\ leaf[n].mod = "deleted" => leaf'[n].mod = "deleted"
        /\ leaf[n].vi <= leaf'[n].vi
    <3>1. leaf[n].vi <= leaf'[n].vi
      BY <1>5, <2>1
    <3> QED BY <1>1, <1>5, <3>1, Zenon
  <2>8. leaf[n].ins /\ ~leaf'[n].ins => leaf[n].vi < leaf'[n].vi
    BY <1>5
  <2> QED BY <2>5, <2>6, <2>7, <2>8 DEF Changes
<1>9. Respects(t, n)
  <2> SUFFICES ASSUME NEW u \in Threads \ {t}
               PROVE  /\ cur[u].pc # "idle" /\ cur[u].op # "gc" => abs'[cur[u].k] \in seen'[u]
                      /\ cur[u].pc \in Holding => cur[u].n # n
                      /\ cur[u].pc = "swapped" =>
                           \A q \in Keys : cur[u].d <= Len(q) /\ Leads(Path(cur[u].n), q, cur[u].d)
                                             /\ Slot(q, cur[u].d) = Slot_(u) => abs'[q] = abs[q]
    BY <1>3, <1>6 DEF Respects
  <2>1. ThreadInv(u) /\ u \in Threads
    BY DEF Inv
  <2>2. cur[u].pc # "idle" /\ cur[u].op # "gc" => abs'[cur[u].k] \in seen'[u]
    <3>1. cur[u].pc # "idle" /\ cur[u].op # "gc" => cur[u].k \in Keys /\ abs[cur[u].k] \in seen[u]
      BY <2>1 DEF ThreadInv, OpInv
    <3> QED BY <1>6, <3>1
  <2>3. cur[u].pc \in Holding => cur[u].n # n
    <3>1. o.pc \in Holding
      BY DEF Holding
    <3> QED BY <3>1 DEF Inv, ApartInv
  <2>4. ASSUME cur[u].pc = "swapped", NEW q \in Keys, cur[u].d <= Len(q),
               Leads(Path(cur[u].n), q, cur[u].d), Slot(q, cur[u].d) = Slot_(u)
        PROVE  abs'[q] = abs[q]
    <3>1. /\ cur[u].n \in Leaves /\ In(cur[u].n) /\ Ent(cur[u].n, Slot(q, cur[u].d)).kind = "value"
          /\ cur[u].d \in 1..Len(q) /\ cur[u].n # n
      <4>1. Entry(u).kind = "value"
        BY <2>1, <2>4 DEF ThreadInv, LockInv, Value
      <4>2. cur[u].d \in Nat /\ cur[u].d >= 1 /\ cur[u].n \in Leaves /\ Len(q) \in Nat
        BY <1>0, <2>1, <2>4, CurFacts, LayersAssumption DEF ThreadInv, OpInv
      <4>3. In(cur[u].n) /\ cur[u].n # n /\ cur[u].pc \in Holding
        BY <2>1, <2>3, <2>4 DEF ThreadInv, LockInv, Holding
      <4>4. Ent(cur[u].n, Slot(q, cur[u].d)).kind = "value"
        BY <2>4, <4>1 DEF Entry, Ent
      <4>5. cur[u].d \in 1..Len(q)
        BY <2>4, <4>2
      <4> QED BY <4>2, <4>3, <4>4, <4>5
    <3>2. CASE q = k
      BY <1>1, <3>1, <3>2, <2>4, OnlyHere DEF Fits
    <3>3. CASE q # k
      BY <3>3, <1>6
    <3> QED BY <3>2, <3>3
  <2> QED BY <2>2, <2>3, <2>4
<1>10. TrieInv' /\ EntryInv' /\ EmptyInv' /\ \A u \in Threads \ {t} : ThreadInv(u)'
  BY <1>1, <1>5, <1>7, <1>8, <1>9, ChangeLeaf DEF In
<1>11. ThreadInv(t)'
  <2>1. abs'[k] \in seen'[t]
    BY <1>6
  <2> QED BY <1>0, <1>3, <1>5, <2>1, ToUnlock DEF Holding, c
<1>12. ContentInv'
  <2>1. \A u \in Threads : cur[u].pc = "swapped" => cur'[u] = cur[u]
    BY <1>3
  <2>2. Fits(Ent(n, s0), k, d) /\ Fits(leaf'[n].ent[s0], k, d)
        /\ v = IF leaf'[n].ent[s0].kind = "none" THEN NoValue ELSE leaf'[n].ent[s0].val
    BY <1>1, <1>5
  <2>3. \A l \in Leaves \ {n} : leaf'[l] = leaf[l]
    BY <1>4
  <2>4. /\ n \in Leaves /\ In(n) /\ k \in Keys /\ d \in 1..Len(k) /\ Leads(Path(n), k, d)
        /\ leaf'[n].path = leaf[n].path
    BY <1>1, <1>5
  <2>5. \A s \in TrieSlots \ {s0} : leaf'[n].ent[s] = leaf[n].ent[s]
    BY <1>5
  <2>6. abs'[k] = v /\ \A q \in Keys \ {k} : abs'[q] = abs[q]
    BY <1>6
  <2>7. Inv /\ s0 = Slot(k, d)
    OBVIOUS
  <2> HIDE DEF n, k, d, s0
  <2> QED BY <2>1, <2>2, <2>3, <2>4, <2>5, <2>6, <2>7, WriteContent
<1>13. ApartInv' /\ OwnedInv'
  <2>1. \A l \in Leaves : leaf'[l].place = leaf[l].place
    BY <1>4, <1>5
  <2> QED BY <1>2, <1>3, <2>1, SameOwners DEF Inv, Making, Holding
<1> QED BY <1>7, <1>10, <1>11, <1>12, <1>13 DEF Inv

\* A leaf that is emptied registers its callback.
LEMMA RegisteredCover ==
  ASSUME Inv, NEW t \in Threads, cur[t].pc \in Holding, LET n == cur[t].n IN
           /\ callbacks' = Registered(t, leaf'[n]) /\ leaf'[n].path = leaf[n].path
           /\ \A l \in Leaves \ {n} : In(l)' =>
                In(l) /\ leaf'[l].path = leaf[l].path /\ leaf'[l].ent = leaf[l].ent,
         \A u \in Threads \ {t} : cur'[u] = cur[u],
         cur[t].op = "gc" => \A l \in Leaves : leaf'[l].place = "in" => ~Same(Path(l), cur[t].k)
  PROVE  /\ callbacks' \subseteq [prefix : Seq(Slices) \ {<<>>}, wait : SUBSET Threads]
         /\ CoverInv'
<1> DEFINE n == cur[t].n
           k == cur[t].k
           d == cur[t].d
           p == Prefix(t)
           B == [prefix : Seq(Slices) \ {<<>>}, wait : SUBSET Threads]
<1>0. LayersTypeOK /\ ThreadInv(t) /\ callbacks \subseteq B
  BY DEF Inv, LayersTypeOK
<1>1. n \in Leaves /\ k \in Seq(Slices) /\ d \in 1..Len(k) /\ In(n) /\ Leads(Path(n), k, d)
  BY <1>0, CurFacts DEF ThreadInv, OpInv, LockInv, Holding
<1>2. /\ p \in Seq(Slices) /\ Len(p) = d - 1 /\ \A i \in 1..(d - 1) : p[i] = k[i]
  <2>1. d - 1 \in Nat /\ d - 1 <= Len(k)
    BY <1>1
  <2> QED BY <1>1, <2>1, SubSeqFacts DEF Prefix
<1>3. Same(Path(n), p)
  BY <1>1, <1>2 DEF Same, Leads
<1>4. Callback(p) \in [prefix : {p}, wait : SUBSET Threads] /\ Callback(p).prefix = p
  BY DEF Callback, Busy
<1>5. callbacks' \subseteq B
  <2>1. CASE InUse(leaf'[n]) = {} /\ p # <<>>
    <3>1. callbacks' = callbacks \cup {Callback(p)}
      BY <2>1 DEF Registered
    <3>2. Callback(p) \in B
      BY <1>2, <1>4, <2>1
    <3> QED BY <1>0, <3>1, <3>2
  <2>2. CASE ~(InUse(leaf'[n]) = {} /\ p # <<>>)
    <3>1. callbacks' = callbacks
      BY <2>2 DEF Registered
    <3> QED BY <1>0, <3>1
  <2> QED BY <2>1, <2>2
<1>6. CoverInv'
  <2> SUFFICES ASSUME NEW l \in Leaves, leaf'[l].place = "in", l # 1,
                      \A s \in TrieSlots : leaf'[l].ent[s].kind = "none"
               PROVE  Covered(Path(l))'
    BY DEF CoverInv, In, Ent
  <2>1. CASE l = n
    <3>1. InUse(leaf'[n]) = {}
      BY <2>1 DEF InUse
    <3>2. p # <<>>
      <4> SUFFICES ASSUME p = <<>> PROVE FALSE
        OBVIOUS
      <4>1. Len(Path(n)) = 0
        BY <1>1, <1>2 DEF Leads
      <4>2. Same(Path(n), Path(1))
        BY <4>1 DEF Same, Leads, Inv, TrieInv, RootInv
      <4> QED BY <4>2, <1>1, <2>1, LayersAssumption DEF Inv, TrieInv, RootInv, UniqueInv
    <3>3. Callback(p) \in callbacks'
      BY <3>1, <3>2 DEF Registered
    <3>4. Path(l)' = Path(n)
      BY <2>1 DEF Path
    <3> QED BY <1>3, <1>4, <3>3, <3>4 DEF Covered
  <2>2. CASE l # n
    <3>1. In(l) /\ leaf'[l].path = leaf[l].path /\ leaf'[l].ent = leaf[l].ent
      BY <2>2 DEF In
    <3>2. Path(l)' = Path(l) /\ Covered(Path(l))
      BY <3>1 DEF Path, Inv, CoverInv, Ent
    <3>3. ASSUME NEW b \in callbacks, Same(Path(l), b.prefix) PROVE Covered(Path(l))'
      <4>1. b \in callbacks'
        BY DEF Registered
      <4> QED BY <4>1, <3>2, <3>3 DEF Covered
    <3>4. ASSUME NEW u \in Threads, cur[u].op = "gc", cur[u].pc \in Collects, Same(Path(l), cur[u].k)
          PROVE  Covered(Path(l))'
      <4>1. u # t
        BY <3>4
      <4> QED BY <4>1, <3>2, <3>4 DEF Covered
    <3> QED BY <3>2, <3>3, <3>4 DEF Covered
  <2> QED BY <2>1, <2>2
<1> QED BY <1>5, <1>6

\* A leaf that gets a value needs no callback.
LEMMA FilledCover ==
  ASSUME Inv, NEW t \in Threads, NEW n \in Leaves, NEW s0 \in TrieSlots, leaf'[n].ent[s0].kind # "none",
         \A l \in Leaves \ {n} : leaf'[l] = leaf[l], callbacks' = callbacks,
         \A u \in Threads \ {t} : cur'[u] = cur[u], cur[t].op # "gc"
  PROVE  CoverInv'
<1>1. \A l \in Leaves : In(l)' /\ (\A s \in TrieSlots : leaf'[l].ent[s].kind = "none") =>
        In(l) /\ leaf'[l].path = leaf[l].path /\ \A s \in TrieSlots : leaf[l].ent[s].kind = "none"
  <2> SUFFICES ASSUME NEW l \in Leaves, In(l)', \A s \in TrieSlots : leaf'[l].ent[s].kind = "none"
               PROVE  In(l) /\ leaf'[l].path = leaf[l].path /\ \A s \in TrieSlots : leaf[l].ent[s].kind = "none"
    OBVIOUS
  <2>1. leaf'[l] = leaf[l]
    OBVIOUS
  <2> QED BY <2>1 DEF In
<1> QED BY <1>1, SameCover DEF Inv

LEMMA PutStep ==
  ASSUME Inv, NEW t \in Threads, Put(t)
  PROVE  Inv'
<1> DEFINE o == cur[t]
           n == cur[t].n
           x == leaf[cur[t].n]
           y == IF Matches(t) THEN x ELSE ToInsert(x)
           e == Value(Suffix(cur[t].k, cur[t].d), t)
<1>0. LayersTypeOK /\ ThreadInv(t)
  BY DEF Inv
<1>1. /\ o.pc = "put" /\ (o.e.kind = "none" \/ Matches(t))
      /\ leaf' = [leaf EXCEPT ![n] = With(y, Slot_(t), e)]
      /\ Becomes(o.k, t) /\ cur' = [cur EXCEPT ![t] = [cur[t] EXCEPT !.pc = "unlock"]]
      /\ UNCHANGED <<prog, idx, callbacks>>
  BY DEF Put, At, Go
<1>2. /\ n \in Leaves /\ o.k \in Seq(Slices) /\ o.d \in 1..Len(o.k) /\ Slot_(t) \in TrieSlots
      /\ o.op = "put" /\ o.e = Entry(t) /\ x.mod # "deleted" /\ ~x.ins
  BY <1>0, <1>1, CurFacts, SlotFacts DEF ThreadInv, OpInv, LockInv, Holding, Unmarked, Slot_
<1>3. e \in Entries /\ t \in Held /\ e.kind = "value" /\ e.suf = Suffix(o.k, o.d) /\ e.val = t
  BY <1>2, SuffixFacts, LayersAssumption DEF Entries, Value, Held
<1>4. x \in LeafType
  BY <1>0, <1>2 DEF LayersTypeOK
<1>5. /\ y \in LeafType /\ y.place = x.place /\ y.path = x.path /\ y.vi = x.vi /\ y.ent = x.ent
      /\ y.lock = x.lock /\ y.mod # "deleted" /\ (x.ins => y.ins)
  BY <1>2, <1>4 DEF ToInsert, LeafType
<1>6. Fits(Entry(t), o.k, o.d) /\ Fits(e, o.k, o.d)
  BY <1>1, <1>2, <1>3 DEF Fits, Matches
<1> HIDE DEF y, e
<1>7. CoverInv'
  <2>1. leaf'[n] = With(y, Slot_(t), e) /\ \A l \in Leaves \ {n} : leaf'[l] = leaf[l]
    BY <1>0, <1>1, <1>2 DEF LayersTypeOK
  <2>2. leaf'[n].ent[Slot_(t)] = e
    BY <1>2, <1>5, <2>1 DEF With, LeafType
  <2>3. \A u \in Threads \ {t} : cur'[u] = cur[u]
    BY <1>0, <1>1 DEF LayersTypeOK
  <2>4. leaf'[n].ent[Slot_(t)].kind # "none" /\ \A l \in Leaves \ {n} : leaf'[l] = leaf[l]
    BY <1>3, <2>1, <2>2
  <2> QED BY <1>1, <1>2, <2>3, <2>4, FilledCover
<1>8. callbacks' \subseteq [prefix : Seq(Slices) \ {<<>>}, wait : SUBSET Threads]
  BY <1>0, <1>1 DEF LayersTypeOK
<1>9. t = IF e.kind = "none" THEN NoValue ELSE e.val
  BY <1>3
<1>10. prog' = prog /\ idx' = idx /\ o.pc \in {"put", "publish", "remove"} /\ e \in Entries /\ t \in Held
  BY <1>1, <1>3
<1> QED BY <1>1, <1>5, <1>6, <1>7, <1>8, <1>9, <1>10, WriteStep

LEMMA PublishInLayerStep ==
  ASSUME Inv, NEW t \in Threads, PublishInLayer(t)
  PROVE  Inv'
<1> DEFINE o == cur[t]
           n == cur[t].n
           x == leaf[cur[t].n]
           e == Value(Suffix(cur[t].k, cur[t].d), t)
<1>0. LayersTypeOK /\ ThreadInv(t)
  BY DEF Inv
<1>1. /\ o.pc = "publish"
      /\ leaf' = [leaf EXCEPT ![n] = With(x, Slot_(t), e)]
      /\ Becomes(o.k, t) /\ cur' = [cur EXCEPT ![t] = [cur[t] EXCEPT !.pc = "unlock"]]
      /\ UNCHANGED <<prog, idx, callbacks>>
  BY DEF PublishInLayer, At, Go
<1>2. /\ n \in Leaves /\ o.k \in Seq(Slices) /\ o.d \in 1..Len(o.k) /\ Slot_(t) \in TrieSlots
      /\ o.op = "put" /\ Entry(t).kind = "none" /\ x.mod # "deleted"
  BY <1>0, <1>1, CurFacts, SlotFacts DEF ThreadInv, OpInv, LockInv, Holding, Slot_
<1>3. e \in Entries /\ t \in Held /\ e.kind = "value" /\ e.suf = Suffix(o.k, o.d) /\ e.val = t
  BY <1>2, SuffixFacts, LayersAssumption DEF Entries, Value, Held
<1>4. x \in LeafType
  BY <1>0, <1>2 DEF LayersTypeOK
<1>6. Fits(Entry(t), o.k, o.d) /\ Fits(e, o.k, o.d)
  BY <1>2, <1>3 DEF Fits
<1> HIDE DEF e
<1>7. CoverInv'
  <2>1. leaf'[n] = With(x, Slot_(t), e) /\ \A l \in Leaves \ {n} : leaf'[l] = leaf[l]
    BY <1>0, <1>1, <1>2 DEF LayersTypeOK
  <2>2. leaf'[n].ent[Slot_(t)] = e
    BY <1>2, <1>4, <2>1 DEF With, LeafType
  <2>3. \A u \in Threads \ {t} : cur'[u] = cur[u]
    BY <1>0, <1>1 DEF LayersTypeOK
  <2>4. leaf'[n].ent[Slot_(t)].kind # "none" /\ \A l \in Leaves \ {n} : leaf'[l] = leaf[l]
    BY <1>3, <2>1, <2>2
  <2> QED BY <1>1, <1>2, <2>3, <2>4, FilledCover
<1>8. callbacks' \subseteq [prefix : Seq(Slices) \ {<<>>}, wait : SUBSET Threads]
  BY <1>0, <1>1 DEF LayersTypeOK
<1>9. t = IF e.kind = "none" THEN NoValue ELSE e.val
  BY <1>3
<1>10. prog' = prog /\ idx' = idx /\ o.pc \in {"put", "publish", "remove"} /\ e \in Entries /\ t \in Held
  BY <1>1, <1>3
<1> QED BY <1>1, <1>2, <1>4, <1>6, <1>7, <1>8, <1>9, <1>10, WriteStep

LEMMA FinishRemoveStep ==
  ASSUME Inv, NEW t \in Threads, FinishRemove(t)
  PROVE  Inv'
<1> DEFINE o == cur[t]
           n == cur[t].n
           x == leaf[cur[t].n]
           y == ToRemove(x)
           c == [cur[t] EXCEPT !.pc = "unlock"]
<1>0. LayersTypeOK /\ ThreadInv(t)
  BY DEF Inv
<1>1. o.pc = "remove" /\ cur' = [cur EXCEPT ![t] = c] /\ prog' = prog /\ idx' = idx
  BY DEF FinishRemove, At, Go
<1>2. /\ n \in Leaves /\ o.k \in Seq(Slices) /\ o.d \in 1..Len(o.k) /\ Slot_(t) \in TrieSlots /\ o \in CurType
      /\ o.op = "remove" /\ o.e = Entry(t) /\ x.mod # "deleted" /\ ~x.ins
      /\ o.k \in Keys /\ abs[o.k] \in seen[t]
  BY <1>0, <1>1, CurFacts, SlotFacts DEF ThreadInv, OpInv, LockInv, Holding, Unmarked, Slot_
<1>3. c \in CurType /\ c.pc = "unlock" /\ c.n = n /\ c.op = o.op /\ c.k = o.k
  BY <1>2 DEF CurType, Pcs
<1>4. cur'[t] = c /\ \A u \in Threads \ {t} : cur'[u] = cur[u]
  BY <1>0, <1>1 DEF LayersTypeOK
<1>5. CASE ~Matches(t)
  <2>1. UNCHANGED <<leaf, prog, idx, abs, seen, callbacks>>
    BY <1>1, <1>5 DEF FinishRemove
  <2>2. ThreadInv(t)'
    BY <1>0, <1>1, <1>2, <1>4, <2>1, ToUnlock DEF Holding
  <2> HIDE DEF c
  <2> QED BY <1>1, <1>2, <1>3, <2>1, <2>2, MoveStep DEF Making, Holding
<1>6. CASE Matches(t)
  <2>1. /\ leaf' = [leaf EXCEPT ![n] = With(y, Slot_(t), NoEntry)]
        /\ callbacks' = Registered(t, With(y, Slot_(t), NoEntry)) /\ Becomes(o.k, NoValue)
    BY <1>6 DEF FinishRemove, Without
  <2>2. x \in LeafType
    BY <1>0, <1>2 DEF LayersTypeOK
  <2>3. /\ y \in LeafType /\ y.place = x.place /\ y.path = x.path /\ y.vi = x.vi /\ y.ent = x.ent
        /\ y.lock = x.lock /\ y.mod # "deleted" /\ (x.ins => y.ins)
    BY <1>2, <2>2 DEF ToRemove, LeafType
  <2>4. Fits(Entry(t), o.k, o.d) /\ Fits(NoEntry, o.k, o.d)
    BY <1>2, <1>6 DEF Fits, Matches, NoEntry
  <2> HIDE DEF y
  <2>5. leaf'[n] = With(y, Slot_(t), NoEntry) /\ \A l \in Leaves \ {n} : leaf'[l] = leaf[l]
    BY <1>0, <1>2, <2>1 DEF LayersTypeOK
  <2>6. leaf'[n].path = leaf[n].path
    BY <2>3, <2>5 DEF With, LeafType
  <2>7. /\ callbacks' \subseteq [prefix : Seq(Slices) \ {<<>>}, wait : SUBSET Threads]
        /\ CoverInv'
    <3>1. callbacks' = Registered(t, leaf'[n])
      BY <2>1, <2>5
    <3>2. \A l \in Leaves \ {n} : In(l)' => In(l) /\ leaf'[l].path = leaf[l].path /\ leaf'[l].ent = leaf[l].ent
      BY <2>5 DEF In
    <3>3. o.op # "gc" /\ o.pc \in Holding
      BY <1>1, <1>2 DEF Holding
    <3> QED BY <1>4, <2>6, <3>1, <3>2, <3>3, RegisteredCover
  <2>8. NoEntry \in Entries /\ NoValue \in Held /\ NoEntry.kind = "none"
    BY NoCurType DEF Held, NoEntry
  <2>9. o.pc \in {"put", "publish", "remove"} /\ NoValue = IF NoEntry.kind = "none" THEN NoValue ELSE NoEntry.val
    BY <1>1, <2>8
  <2> QED BY <1>1, <2>1, <2>3, <2>4, <2>7, <2>8, <2>9, WriteStep
<1> QED BY <1>5, <1>6

-----------------------------------------------------------------------------
(* A layer is made.                                                        *)
LEMMA NewFacts ==
  ASSUME LayersTypeOK, NEW t \in Threads, NEW i \in 1..Len(cur[t].new)
  PROVE  cur[t].new \in Seq(Leaves) /\ cur[t].new[i] \in Leaves
<1>1. cur[t] \in CurType
  BY CurFacts
<1>2. cur[t].new \in Seq(Leaves)
  BY <1>1 DEF CurType
<1> QED BY <1>2

LEMMA SwapLayerStep ==
  ASSUME Inv, NEW t \in Threads, SwapLayer(t)
  PROVE  Inv'
<1> DEFINE o == cur[t]
           n == cur[t].n
           x == leaf[cur[t].n]
           y == [leaf[cur[t].n] EXCEPT !.ins = TRUE]
           e == Value(cur[t].e.suf, Torn)
           s0 == Slot(cur[t].k, cur[t].d)
           c == [cur[t] EXCEPT !.pc = "swapped"]
<1>0. LayersTypeOK /\ ThreadInv(t)
  BY DEF Inv
<1>1. /\ o.pc = "swap" /\ leaf' = [leaf EXCEPT ![n] = With(y, s0, e)] /\ cur' = [cur EXCEPT ![t] = c]
      /\ UNCHANGED <<prog, idx, abs, seen, callbacks>>
  BY DEF SwapLayer, At, Go, Slot_
<1>2. /\ o \in CurType /\ n \in Leaves /\ o.k \in Seq(Slices) /\ o.d \in 1..Len(o.k) /\ s0 \in TrieSlots
      /\ o.op = "put" /\ o.e = Ent(n, s0) /\ o.e.kind = "value" /\ o.e.suf \in Seq(Slices)
      /\ x.mod # "deleted" /\ x.lock /\ In(n) /\ Leads(Path(n), o.k, o.d) /\ x \in LeafType
      /\ GoodEntry(s0, o.e)
  <2>1. MakeInv(t) /\ OpInv(t) /\ LockInv(t) /\ EntryInv
    BY <1>0 DEF ThreadInv, Inv
  <2>2. o \in CurType /\ n \in Leaves /\ o.k \in Seq(Slices) /\ o.d \in 1..Len(o.k) /\ s0 \in TrieSlots
        /\ o.e.suf \in Seq(Slices) /\ x \in LeafType /\ o.op = "put"
    BY <1>0, <1>1, <2>1, CurFacts, SlotFacts DEF OpInv, LayersTypeOK
  <2>3. o.e = Ent(n, s0) /\ o.e.kind = "value"
    BY <1>1, <2>1 DEF MakeInv, Making, LockInv, Entry, Slot_, Ent
  <2>4. x.mod # "deleted" /\ x.lock /\ In(n) /\ Leads(Path(n), o.k, o.d)
    BY <1>1, <2>1 DEF LockInv, Holding
  <2> QED BY <2>1, <2>2, <2>3, <2>4 DEF EntryInv
<1>3. e \in Entries /\ e.kind = "value" /\ e.suf = o.e.suf /\ e.val = Torn
  BY <1>2, LayersAssumption DEF Entries, Value, Held
<1>4. /\ c \in CurType /\ c.pc = "swapped" /\ c.n = n /\ c.op = o.op /\ c.k = o.k /\ c.d = o.d /\ c.e = o.e
      /\ c.new = o.new
  BY <1>2 DEF CurType, Pcs
<1>5. y \in LeafType
  BY <1>2 DEF LeafType
<1>6. With(y, s0, e) \in LeafType
  BY <1>2, <1>3, <1>5 DEF With, LeafType
<1>7. cur'[t] = c /\ (\A u \in Threads \ {t} : cur'[u] = cur[u]) /\ cur' \in [Threads -> CurType]
  BY <1>0, <1>1, <1>4 DEF LayersTypeOK
<1>8. leaf'[n] = With(y, s0, e) /\ leaf' \in [Leaves -> LeafType] /\ \A l \in Leaves \ {n} : leaf'[l] = leaf[l]
  BY <1>0, <1>1, <1>2, <1>6 DEF LayersTypeOK
<1>9. /\ leaf'[n].place = x.place /\ leaf'[n].path = x.path /\ leaf'[n].vi = x.vi
      /\ leaf'[n].lock = x.lock /\ leaf'[n].mod = x.mod /\ leaf'[n].ins
      /\ leaf'[n].ent[s0] = e
      /\ \A s \in TrieSlots \ {s0} : leaf'[n].ent[s] = leaf[n].ent[s]
  <2>1. y.place = x.place /\ y.path = x.path /\ y.vi = x.vi /\ y.lock = x.lock /\ y.mod = x.mod /\ y.ins
        /\ y.ent = x.ent
    BY <1>2 DEF LeafType
  <2> HIDE DEF y, e
  <2>2. LET z == With(y, s0, e)
        IN /\ z.place = y.place /\ z.path = y.path /\ z.vi = y.vi /\ z.lock = y.lock
           /\ z.mod = y.mod /\ z.ins = y.ins /\ z.ent[s0] = e
           /\ \A s \in TrieSlots \ {s0} : z.ent[s] = y.ent[s]
    BY <1>2, <1>3, <1>5, WithFacts
  <2>3. leaf'[n] = With(y, s0, e)
    BY <1>8
  <2> QED BY <2>1, <2>2, <2>3
<1> HIDE DEF c, e, y
<1>10. LayersTypeOK'
  BY <1>0, <1>1, <1>7, <1>8 DEF LayersTypeOK
<1>11. \A l \in Leaves \ {n} : leaf'[l] = leaf[l]
  BY <1>8
<1>12. Changes(n)
  <2>1. x.vi \in Nat
    BY <1>2 DEF LeafType
  <2>2. ASSUME NEW s \in TrieSlots
        PROVE  /\ leaf'[n].ent[s].kind = "layer" <=> leaf[n].ent[s].kind = "layer"
               /\ leaf[n].ent[s].kind = "layer" => leaf'[n].ent[s].to = leaf[n].ent[s].to
               /\ GoodEntry(s, leaf'[n].ent[s])
    <3>1. CASE s = s0
      <4>1. GoodEntry(s0, e)
        BY <1>2, <1>3 DEF GoodEntry
      <4> QED BY <3>1, <4>1, <1>2, <1>3, <1>9 DEF Ent
    <3>2. CASE s # s0
      BY <3>2, <1>2, <1>9 DEF Inv, EntryInv, Ent
    <3> QED BY <3>1, <3>2
  <2>3. /\ leaf'[n].place = leaf[n].place /\ leaf'[n].path = leaf[n].path
        /\ leaf[n].mod = "deleted" => leaf'[n].mod = "deleted"
        /\ leaf[n].vi <= leaf'[n].vi
    BY <1>9, <2>1
  <2>4. leaf[n].ins /\ ~leaf'[n].ins => leaf[n].vi < leaf'[n].vi
    BY <1>9
  <2> QED BY <1>11, <2>2, <2>3, <2>4 DEF Changes
<1>13. \A u \in Threads \ {t} : cur[u].pc \in Holding => cur[u].n # n
  BY <1>1 DEF Inv, ApartInv, Holding
<1>14. Respects(t, n)
  BY <1>1, <1>7, <1>13, RespectsOthers
<1>15. TrieInv' /\ EntryInv' /\ EmptyInv' /\ \A u \in Threads \ {t} : ThreadInv(u)'
  BY <1>2, <1>9, <1>10, <1>12, <1>14, ChangeLeaf DEF In
<1>16. ~Swapping(n, s0)
  BY <1>1, <1>13 DEF Swapping, At, Holding
<1>17. ASSUME NEW q \in Keys, o.d \in 1..Len(q), Leads(Path(n), q, o.d), Slot(q, o.d) = s0
       PROVE  /\ o.e.suf # Suffix(q, o.d) => abs[q] = NoValue
              /\ o.e.suf = Suffix(q, o.d) => abs[q] = o.e.val
  <2>1. Right(n, q, o.d)
    BY <1>2, <1>17 DEF Inv, ContentInv
  <2> QED BY <2>1, <1>2, <1>16, <1>17 DEF Right
<1>18. ContentInv'
  <2> SUFFICES ASSUME NEW l \in Leaves, NEW q \in Keys, NEW b \in 1..Len(q), leaf'[l].place = "in",
                      Leads(leaf'[l].path, q, b)
               PROVE  Right(l, q, b)'
    BY DEF ContentInv, In, Path
  <2>0. In(l) /\ Leads(Path(l), q, b)
    BY <1>9, <1>11 DEF In, Path
  <2>1. Right(l, q, b) /\ Slot(q, b) \in TrieSlots
    BY <2>0, SlotFacts, LayersAssumption DEF Inv, ContentInv
  <2>2. Swapping(l, Slot(q, b)) => Swapping(l, Slot(q, b))'
    <3>1. \A u \in Threads : cur[u].pc = "swapped" => cur'[u] = cur[u]
      BY <1>1, <1>7
    <3> QED BY <3>1 DEF Swapping, At, Slot_
  <2>3. CASE l = n /\ Slot(q, b) = s0
    <3>1. b = o.d
      BY <1>2, <2>0, <2>3 DEF Leads
    <3>2. Swapping(l, Slot(q, b))'
      BY <1>4, <1>7, <2>3 DEF Swapping, At, Slot_
    <3>3. o.e.suf # Suffix(q, b) => abs'[q] = NoValue
      BY <1>1, <1>17, <2>0, <2>3, <3>1
    <3> QED BY <1>3, <1>9, <2>3, <3>2, <3>3 DEF Right, Ent
  <2>4. CASE ~(l = n /\ Slot(q, b) = s0)
    <3>1. leaf'[l].ent[Slot(q, b)] = leaf[l].ent[Slot(q, b)]
      BY <1>9, <1>11, <2>1, <2>4
    <3> QED BY <1>1, <2>1, <2>2, <3>1 DEF Right, Ent
  <2> QED BY <2>3, <2>4
<1>19. ThreadInv(t)'
  <2>1. OpInv(t)'
    BY <1>0, <1>1, <1>2, <1>4, <1>7 DEF ThreadInv, OpInv
  <2>2. LockInv(t)'
    <3>1. Entry(t)' = e
      BY <1>4, <1>7, <1>9 DEF Entry, Slot_
    <3>2. e = Value(o.e.suf, Torn)
      BY DEF e
    <3>3. leaf'[n].place = "in" /\ leaf'[n].lock /\ leaf'[n].mod # "deleted" /\ leaf'[n].path = Path(n)
      BY <1>2, <1>9 DEF In, Path
    <3>4. cur'[t].n = n /\ cur'[t].k = o.k /\ cur'[t].d = o.d /\ cur'[t].pc = "swapped" /\ cur'[t].e = o.e
      BY <1>4, <1>7
    <3>5. Leads(leaf'[n].path, o.k, o.d)
      BY <1>2, <3>3
    <3> QED BY <1>9, <3>1, <3>2, <3>3, <3>4, <3>5 DEF LockInv, Unmarked, In, Path
  <2>3. MakeInv(t)'
    <3>0. MakeInv(t) /\ o.pc \in Making
      BY <1>0, <1>1 DEF ThreadInv, Making
    <3>1. ASSUME NEW i \in 1..Len(o.new) PROVE TwigInv(t, i)'
      <4>1. TwigInv(t, i) /\ o.new[i] \in Leaves /\ leaf[o.new[i]].place = "new"
        BY <1>0, <3>0, NewFacts DEF MakeInv, TwigInv
      <4>2. leaf'[o.new[i]] = leaf[o.new[i]]
        BY <4>1, <1>2, <1>11 DEF In
      <4>3. TwigSlot(t, i)' = TwigSlot(t, i) /\ TwigEntry(t, i)' = TwigEntry(t, i)
        BY <1>4, <1>7 DEF TwigSlot, TwigEntry
      <4> QED BY <4>1, <4>2, <4>3, <1>4, <1>7 DEF TwigInv
    <3> QED BY <3>0, <3>1, <1>4, <1>7 DEF MakeInv
  <2>4. OldInv(t)'
    <3>1. ASSUME NEW q \in Keys, o.d <= Len(q), Leads(Path(n), q, o.d), Slot(q, o.d) = s0,
                 Suffix(q, o.d) = o.e.suf
          PROVE  abs'[q] = o.e.val
      <4>1. o.d \in 1..Len(q)
        BY <1>2, <3>1, LayersAssumption
      <4> QED BY <1>1, <1>17, <3>1, <4>1
    <3>2. leaf'[n].path = Path(n)
      BY <1>9 DEF Path
    <3> QED BY <3>1, <3>2, <1>4, <1>7 DEF OldInv, Path, Slot_
  <2> QED BY <1>4, <1>7, <2>1, <2>2, <2>3, <2>4, NotSearching DEF ThreadInv, Search
<1>20. ApartInv' /\ OwnedInv'
  <2>1. \A l \in Leaves : leaf'[l].place = leaf[l].place
    BY <1>9, <1>11
  <2>2. o.pc \in Making /\ c.pc \in Making /\ o.pc \in Holding
    BY <1>1, <1>4 DEF Making, Holding
  <2> QED BY <1>4, <1>7, <2>1, <2>2, SameOwners DEF Inv
<1>21. CoverInv'
  <2>1. leaf'[n].ent[s0].kind # "none"
    BY <1>3, <1>9
  <2> QED BY <1>1, <1>2, <1>7, <1>11, <2>1, FilledCover
<1> QED BY <1>10, <1>15, <1>18, <1>19, <1>20, <1>21 DEF Inv

\* The slot and the entry of the i-th of m new leaves, for key k at slice d
\* and the entry old.
MadeSlot(k, d, old, m, i) == IF i < m THEN <<k[d + i], "more">> ELSE Slot(old.suf, i)
MadeEntry(old, s, m, i) == IF i < m THEN Layer(s[i + 1]) ELSE Value(Suffix(old.suf, i), old.val)

LEMMA MadeFacts ==
  ASSUME NEW k \in Seq(Slices), NEW d \in 1..Len(k), NEW old \in Entries, NEW m \in Nat, m >= 1,
         m <= Len(old.suf), d + m <= Len(k), NEW s \in [1..m -> Leaves], NEW i \in 1..m
  PROVE  LET sl == MadeSlot(k, d, old, m, i)
             en == MadeEntry(old, s, m, i)
         IN sl \in TrieSlots /\ en \in Entries /\ GoodEntry(sl, en) /\ en.kind # "none"
<1>0. old.suf \in Seq(Slices) /\ old.val \in Held
  BY DEF Entries
<1>1. CASE i < m
  <2>1. d + i \in 1..Len(k) /\ i + 1 \in 1..m
    BY <1>1
  <2>2. k[d + i] \in Slices /\ s[i + 1] \in Leaves
    BY <2>1
  <2>3. <<k[d + i], "more">> \in TrieSlots /\ <<k[d + i], "more">>[2] = "more"
    BY <2>2, MoreSlot
  <2>4. /\ Layer(s[i + 1]) \in Entries /\ Layer(s[i + 1]).kind = "layer"
        /\ Layer(Layer(s[i + 1]).to) = Layer(s[i + 1])
    BY <2>2 DEF Layer, Entries, Held
  <2> QED BY <1>1, <2>3, <2>4 DEF MadeSlot, MadeEntry, GoodEntry
<1>2. CASE ~(i < m)
  <2>1. i = m /\ i \in 1..Len(old.suf)
    BY <1>2, <1>0
  <2>2. /\ Slot(old.suf, i) \in TrieSlots /\ (Slot(old.suf, i)[2] = "end" <=> Len(old.suf) = i)
    BY <1>0, <2>1, SlotFacts
  <2>3. Suffix(old.suf, i) \in Seq(Slices) /\ Len(Suffix(old.suf, i)) = Len(old.suf) - i
    BY <1>0, <2>1, SuffixFacts
  <2>4. /\ Value(Suffix(old.suf, i), old.val) \in Entries
        /\ Value(Suffix(old.suf, i), old.val).kind = "value"
        /\ Value(Suffix(old.suf, i), old.val).suf = Suffix(old.suf, i)
    BY <1>0, <2>3, LayersAssumption DEF Value, Entries
  <2>5. Len(Suffix(old.suf, i)) = 0 <=> Len(old.suf) = i
    BY <1>0, <2>1, <2>3
  <2> QED BY <1>2, <2>2, <2>4, <2>5 DEF MadeSlot, MadeEntry, GoodEntry
<1> QED BY <1>1, <1>2

\* Where the two suffixes part.
LEMMA Parting ==
  ASSUME Inv, NEW t \in Threads, cur[t].pc = "put", cur[t].e.kind = "value", ~Matches(t)
  PROVE  LET k == cur[t].k
             d == cur[t].d
             suf == cur[t].e.suf
             m == Common(cur[t].e.suf, Suffix(cur[t].k, cur[t].d)) + 1
         IN /\ Common(cur[t].e.suf, Suffix(cur[t].k, cur[t].d)) \in Nat
            /\ m \in Nat /\ m >= 1 /\ m <= Len(suf) /\ d + m <= Len(k) /\ suf # Suffix(k, d)
            /\ \A i \in 1..(m - 1) : suf[i] = k[d + i]
            /\ Slot(suf, m) # Slot(k, d + m)
<1> DEFINE o == cur[t]
           k == cur[t].k
           d == cur[t].d
           suf == cur[t].e.suf
           b == Suffix(cur[t].k, cur[t].d)
           j == Common(cur[t].e.suf, Suffix(cur[t].k, cur[t].d))
<1>0. LayersTypeOK /\ ThreadInv(t) /\ EntryInv
  BY DEF Inv
<1>1. /\ k \in Seq(Slices) /\ d \in 1..Len(k) /\ suf \in Seq(Slices) /\ suf # b /\ o.n \in Leaves
      /\ Slot(k, d) \in TrieSlots /\ o.e = Ent(o.n, Slot(k, d))
  BY <1>0, CurFacts, SlotFacts DEF ThreadInv, OpInv, LockInv, Matches, Entry, Slot_, Ent
<1>2. b \in Seq(Slices) /\ Len(b) = Len(k) - d /\ \A i \in 1..(Len(k) - d) : b[i] = k[d + i]
  BY <1>1, SuffixFacts
<1>3. Len(k) = d <=> Len(suf) = 0
  <2>1. GoodEntry(Slot(k, d), o.e)
    BY <1>0, <1>1 DEF EntryInv
  <2> QED BY <1>1, <2>1, SlotFacts DEF GoodEntry
<1>4. Len(suf) >= 1 /\ Len(b) >= 1
  <2>1. Len(suf) \in Nat /\ Len(k) \in Nat /\ Len(b) \in Nat
    BY <1>1, <1>2
  <2>2. Len(suf) = 0 /\ Len(b) = 0 => suf = b
    <3>1. Len(suf) = 0 => suf = <<>>
      BY <1>1, EmptySeq
    <3>2. Len(b) = 0 => b = <<>>
      BY <1>2, EmptySeq
    <3> QED BY <3>1, <3>2
  <2> QED BY <2>1, <2>2, <1>1, <1>2, <1>3
<1>5. /\ j \in Nat /\ j < Len(suf) /\ j < Len(b)
      /\ \A i \in 1..j : suf[i] = b[i]
      /\ Slot(suf, j + 1) # Slot(b, j + 1)
  BY <1>1, <1>2, <1>4, CommonFacts
<1> HIDE DEF j
<1>6. \A i \in 1..((j + 1) - 1) : suf[i] = k[d + i]
  <2> SUFFICES ASSUME NEW i \in 1..((j + 1) - 1) PROVE suf[i] = k[d + i]
    OBVIOUS
  <2>1. i \in 1..j /\ i \in 1..(Len(k) - d)
    BY <1>2, <1>5
  <2> QED BY <1>2, <1>5, <2>1
<1>7. Slot(b, j + 1) = Slot(k, d + (j + 1))
  <2>0. j + 1 \in 1..(Len(k) - d) /\ (Len(b) = j + 1 <=> Len(k) = d + (j + 1))
    BY <1>1, <1>2, <1>5
  <2>1. b[j + 1] = k[d + (j + 1)] /\ (Len(b) = j + 1 <=> Len(k) = d + (j + 1))
    BY <1>2, <2>0
  <2> QED BY <2>1 DEF Slot
<1>8. j + 1 \in Nat /\ j + 1 >= 1 /\ j + 1 <= Len(suf) /\ d + (j + 1) <= Len(k)
  BY <1>1, <1>2, <1>5
<1> QED BY <1>1, <1>5, <1>6, <1>7, <1>8 DEF j

NewAt(p) == [NewLeaf EXCEPT !.path = p]
NewLocked(p) == [NewAt(p) EXCEPT !.lock = TRUE]
LEMMA NewLeafType ==
  ASSUME NEW p \in Seq(Slices), NEW x, x = NewAt(p) \/ x = NewLocked(p)
  PROVE  /\ x \in LeafType /\ x.place = "new" /\ x.mod = "insert" /\ ~x.ins /\ x.path = p
         /\ \A s \in TrieSlots : x.ent[s] = NoEntry
<1>1. [s \in TrieSlots |-> NoEntry] \in [TrieSlots -> Entries]
  BY NoCurType
<1>2. <<>> \in Seq(Slices)
  OBVIOUS
<1>3. NewLeaf \in LeafType
  BY <1>1, <1>2 DEF NewLeaf, LeafType
<1>4. x \in LeafType
  BY <1>3 DEF LeafType, NewAt, NewLocked
<1>5. x.place = "new" /\ x.mod = "insert" /\ x.ins = FALSE /\ x.path = p
  BY DEF NewLeaf, NewAt, NewLocked
<1>6. x.ent = [s \in TrieSlots |-> NoEntry]
  BY DEF NewLeaf, NewAt, NewLocked
<1> QED BY <1>4, <1>5, <1>6

\* What is made, leaf by leaf.
IsMade(x, k, d, old, s, m, i) ==
  /\ x \in LeafType /\ x.place = "new" /\ x.mod = "insert" /\ ~x.ins
  /\ x.path = SubSeq(k, 1, d + i - 1)
  /\ i = m => x.lock
  /\ \A sl \in TrieSlots : x.ent[sl] = IF sl = MadeSlot(k, d, old, m, i) THEN MadeEntry(old, s, m, i) ELSE NoEntry

LEMMA MakeLayerMakes ==
  ASSUME Inv, NEW t \in Threads, MakeLayer(t)
  PROVE  LET k == cur[t].k
             d == cur[t].d
             old == cur[t].e
             m == Common(cur[t].e.suf, Suffix(cur[t].k, cur[t].d)) + 1
         IN \E s \in [1..m -> Leaves] :
              /\ \A i, j \in 1..m : s[i] = s[j] => i = j
              /\ \A i \in 1..m : leaf[s[i]].place = "free"
              /\ \A i \in 1..m : IsMade(leaf'[s[i]], k, d, old, s, m, i)
              /\ \A l \in Leaves : (\A i \in 1..m : s[i] # l) => leaf'[l] = leaf[l]
              /\ leaf' = [l \in Leaves |-> leaf'[l]]
              /\ cur' = [cur EXCEPT ![t] = [cur[t] EXCEPT !.pc = "swap", !.new = s]]
<1> DEFINE k == cur[t].k
           d == cur[t].d
           old == cur[t].e
           j == Common(cur[t].e.suf, Suffix(cur[t].k, cur[t].d))
           m == j + 1
           x(i) == [NewLeaf EXCEPT !.path = SubSeq(k, 1, d + i - 1)]
           Made(i, s) ==
             IF i <= j THEN With(x(i), <<k[d + i], "more">>, Layer(s[i + 1]))
             ELSE With([x(i) EXCEPT !.lock = TRUE], Slot(old.suf, i), Value(Suffix(old.suf, i), old.val))
<1>0. LayersTypeOK /\ ThreadInv(t) /\ cur[t].pc = "put" /\ old.kind = "value" /\ ~Matches(t)
  BY DEF Inv, MakeLayer, At
<1>1. PICK s \in Fresh(m) :
        /\ leaf' = [l \in Leaves |-> IF \E i \in 1..m : s[i] = l
                                       THEN Made(CHOOSE i \in 1..m : s[i] = l, s) ELSE leaf[l]]
        /\ cur' = [cur EXCEPT ![t] = [cur[t] EXCEPT !.pc = "swap", !.new = s]]
  BY Zenon DEF MakeLayer, Go
<1>2. /\ k \in Seq(Slices) /\ d \in 1..Len(k) /\ old \in Entries /\ m \in Nat /\ m >= 1
      /\ m <= Len(old.suf) /\ d + m <= Len(k) /\ j \in Nat /\ m = j + 1
  BY <1>0, CurFacts, Parting DEF ThreadInv, OpInv
<1> HIDE DEF j, m
<1>3. /\ s \in [1..m -> Leaves] /\ \A i \in 1..m : leaf[s[i]].place = "free"
      /\ \A i, i2 \in 1..m : i < i2 => s[i] < s[i2]
  BY DEF Fresh, Free
<1>4. \A i, i2 \in 1..m : s[i] = s[i2] => i = i2
  <2>1. \A i \in 1..m : s[i] \in Nat
    BY <1>3, LayersAssumption
  <2> QED BY <1>2, <1>3, <2>1
<1>5. ASSUME NEW i \in 1..m PROVE leaf'[s[i]] = Made(i, s)
  <2>1. (CHOOSE z \in 1..m : s[z] = s[i]) = i
    BY <1>4
  <2>2. s[i] \in Leaves
    BY <1>3
  <2> HIDE DEF Made
  <2> QED BY <1>1, <2>1, <2>2
<1>6. ASSUME NEW i \in 1..m PROVE IsMade(Made(i, s), k, d, old, s, m, i)
  <2> DEFINE p == SubSeq(k, 1, d + i - 1)
             sl == MadeSlot(k, d, old, m, i)
             en == MadeEntry(old, s, m, i)
             y == IF i < m THEN x(i) ELSE [x(i) EXCEPT !.lock = TRUE]
  <2>1. p \in Seq(Slices)
    <3>1. d + i - 1 \in Nat /\ d + i - 1 <= Len(k)
      BY <1>2
    <3> QED BY <1>2, <3>1, SubSeqFacts
  <2>2. sl \in TrieSlots /\ en \in Entries
    BY <1>2, <1>3, MadeFacts
  <2>3. /\ y \in LeafType /\ y.place = "new" /\ y.mod = "insert" /\ ~y.ins /\ y.path = p
        /\ \A z \in TrieSlots : y.ent[z] = NoEntry
    <3>1. y = NewAt(p) \/ y = NewLocked(p)
      BY DEF NewAt, NewLocked
    <3> HIDE DEF y, p
    <3> QED BY <2>1, <3>1, NewLeafType
  <2>4. i = m => y.lock
    <3>1. ~(m < m)
      BY <1>2
    <3> QED BY <3>1 DEF NewLeaf
  <2>5. Made(i, s) = With(y, sl, en)
    <3>1. i < m <=> i <= j
      BY <1>2
    <3> QED BY <3>1 DEF MadeSlot, MadeEntry
  <2> HIDE DEF y, sl, en, Made
  <2>6. LET z == With(y, sl, en)
        IN /\ z \in LeafType /\ z.place = y.place /\ z.path = y.path /\ z.lock = y.lock
           /\ z.mod = y.mod /\ z.ins = y.ins /\ z.ent[sl] = en
           /\ \A w \in TrieSlots \ {sl} : z.ent[w] = y.ent[w]
    BY <2>2, <2>3, WithFacts
  <2>7. \A w \in TrieSlots : With(y, sl, en).ent[w] = IF w = sl THEN en ELSE NoEntry
    BY <2>3, <2>6
  <2>8. i = m => With(y, sl, en).lock
    BY <2>4, <2>6
  <2> QED BY <2>3, <2>5, <2>6, <2>7, <2>8 DEF IsMade, sl, en
<1>7. \A i \in 1..m : IsMade(leaf'[s[i]], k, d, old, s, m, i)
  <2> HIDE DEF Made
  <2> QED BY <1>5, <1>6
<1>8. \A l \in Leaves : (\A i \in 1..m : s[i] # l) => leaf'[l] = leaf[l]
  <2> HIDE DEF Made
  <2> QED BY <1>1
<1>9. leaf' = [l \in Leaves |-> leaf'[l]]
  <2> HIDE DEF Made
  <2> QED BY <1>1
<1> QED BY <1>1, <1>3, <1>4, <1>7, <1>8, <1>9 DEF m, j

LEMMA MakeLayerStep ==
  ASSUME Inv, NEW t \in Threads, MakeLayer(t)
  PROVE  Inv'
<1> DEFINE o == cur[t]
           k == cur[t].k
           d == cur[t].d
           old == cur[t].e
           m == Common(cur[t].e.suf, Suffix(cur[t].k, cur[t].d)) + 1
<1>0. LayersTypeOK /\ ThreadInv(t)
  BY DEF Inv
<1>1. /\ o.pc = "put" /\ old.kind = "value" /\ ~Matches(t)
      /\ UNCHANGED <<prog, idx, abs, seen, callbacks>>
  BY DEF MakeLayer, At
<1>2. /\ m \in Nat /\ m >= 1 /\ m <= Len(old.suf) /\ d + m <= Len(k) /\ old.suf # Suffix(k, d)
      /\ \A i \in 1..(m - 1) : old.suf[i] = k[d + i]
      /\ Slot(old.suf, m) # Slot(k, d + m)
  BY <1>1, Parting
<1>3. PICK s \in [1..m -> Leaves] :
        /\ \A i, j \in 1..m : s[i] = s[j] => i = j
        /\ \A i \in 1..m : leaf[s[i]].place = "free"
        /\ \A i \in 1..m : IsMade(leaf'[s[i]], k, d, old, s, m, i)
        /\ \A l \in Leaves : (\A i \in 1..m : s[i] # l) => leaf'[l] = leaf[l]
        /\ leaf' = [l \in Leaves |-> leaf'[l]]
        /\ cur' = [cur EXCEPT ![t] = [cur[t] EXCEPT !.pc = "swap", !.new = s]]
  BY MakeLayerMakes
<1> HIDE DEF m
<1> DEFINE c == [cur[t] EXCEPT !.pc = "swap", !.new = s]
<1>4. /\ o \in CurType /\ o.n \in Leaves /\ k \in Seq(Slices) /\ d \in 1..Len(k) /\ old \in Entries
      /\ o.op = "put" /\ In(o.n)
  BY <1>0, <1>1, CurFacts DEF ThreadInv, OpInv, LockInv, Holding
<1>5. s \in Seq(Leaves) /\ Len(s) = m
  BY <1>2
<1>6. /\ c \in CurType /\ c.pc = "swap" /\ c.new = s /\ c.n = o.n /\ c.op = o.op /\ c.k = k /\ c.d = d
      /\ c.e = old
  BY <1>4, <1>5 DEF CurType, Pcs
<1> HIDE DEF c
<1>7. cur'[t] = c /\ (\A u \in Threads \ {t} : cur'[u] = cur[u]) /\ cur' \in [Threads -> CurType]
  BY <1>0, <1>3, <1>6 DEF LayersTypeOK, c
<1>8. \A l \in Leaves : leaf[l].place # "free" => leaf'[l] = leaf[l]
  BY <1>3
<1>9. \A l \in Leaves : leaf'[l] = leaf[l] \/ \E i \in 1..m : l = s[i] /\ IsMade(leaf'[l], k, d, old, s, m, i)
  BY <1>3
<1>10. \A l \in Leaves : leaf'[l] = leaf[l] \/ (leaf'[l].place = "new" /\ leaf'[l].mod = "insert")
  <2> SUFFICES ASSUME NEW l \in Leaves, leaf'[l] # leaf[l]
               PROVE  leaf'[l].place = "new" /\ leaf'[l].mod = "insert"
    OBVIOUS
  <2>1. PICK i \in 1..m : IsMade(leaf'[l], k, d, old, s, m, i)
    BY <1>9
  <2> QED BY <2>1 DEF IsMade
<1>11. LayersTypeOK'
  <2>1. \A l \in Leaves : leaf'[l] \in LeafType
    BY <1>0, <1>9 DEF IsMade, LayersTypeOK
  <2>2. leaf' \in [Leaves -> LeafType]
    BY <1>3, <2>1
  <2> QED BY <1>0, <1>1, <1>7, <2>2 DEF LayersTypeOK
<1>12. TrieInv'
  <2>1. SameLayers
    <3>1. leaf'[1].mod # "deleted"
      BY <1>8, LayersAssumption DEF Inv, TrieInv, RootInv, In
    <3>2. \A l \in Leaves : leaf'[l].place = "in" <=> leaf[l].place = "in"
      BY <1>8, <1>10
    <3>3. \A l \in Leaves : In(l) => leaf'[l] = leaf[l]
      BY <1>8 DEF In
    <3> QED BY <3>1, <3>2, <3>3 DEF SameLayers
  <2> QED BY <1>0, <1>11, <2>1, SameTrie DEF Inv
<1>13. EntryInv'
  <2> SUFFICES ASSUME NEW l \in Leaves, NEW z \in TrieSlots PROVE GoodEntry(z, leaf'[l].ent[z])
    BY DEF EntryInv, Ent
  <2>1. CASE leaf'[l] = leaf[l]
    BY <2>1 DEF Inv, EntryInv, Ent
  <2>2. CASE \E i \in 1..m : l = s[i] /\ IsMade(leaf'[l], k, d, old, s, m, i)
    <3>1. PICK i \in 1..m : IsMade(leaf'[l], k, d, old, s, m, i)
      BY <2>2
    <3>2. GoodEntry(MadeSlot(k, d, old, m, i), MadeEntry(old, s, m, i))
      BY <1>2, <1>4, MadeFacts
    <3>3. GoodEntry(z, NoEntry)
      BY DEF GoodEntry, NoEntry
    <3>4. leaf'[l].ent[z] = IF z = MadeSlot(k, d, old, m, i) THEN MadeEntry(old, s, m, i) ELSE NoEntry
      BY <3>1 DEF IsMade
    <3> QED BY <3>2, <3>3, <3>4
  <2> QED BY <1>9, <2>1, <2>2
<1>14. EmptyInv'
  <2> SUFFICES ASSUME NEW l \in Leaves
               PROVE  /\ leaf'[l].place \in {"free", "out"} \/ leaf'[l].mod = "deleted" =>
                           \A z \in TrieSlots : leaf'[l].ent[z].kind = "none"
                      /\ leaf'[l].place = "out" => leaf'[l].mod = "deleted"
    BY DEF EmptyInv, Ent
  <2>1. CASE leaf'[l] = leaf[l]
    BY <2>1 DEF Inv, EmptyInv, Ent
  <2> QED BY <1>10, <2>1
<1>15. ContentInv'
  <2>1. \A u \in Threads : cur[u].pc = "swapped" => cur'[u] = cur[u]
    BY <1>1, <1>7
  <2>2. \A l \in Leaves : leaf'[l].place = "in" => leaf'[l] = leaf[l]
    BY <1>10
  <2> QED BY <1>1, <2>1, <2>2, SameContent DEF Inv
<1>16. ASSUME NEW u \in Threads \ {t} PROVE ThreadInv(u)'
  <2>1. ThreadInv(u) /\ u \in Threads
    BY DEF Inv
  <2>2. Evolves
    <3>1. \A l \in Leaves : leaf[l].place \in {"in", "out"} => leaf'[l] = leaf[l]
      BY <1>8
    <3>2. \A l \in Leaves : leaf[l].vi \in Nat
      BY <1>0 DEF LayersTypeOK, LeafType
    <3> QED BY <3>1, <3>2 DEF Evolves
  <2>3. GoneAbsent
    BY <1>10 DEF GoneAbsent, In
  <2>4. Spares(u)
    <3>1. cur[u].pc # "idle" /\ cur[u].op # "gc" => abs'[cur[u].k] \in seen'[u]
      BY <1>1, <2>1 DEF ThreadInv, OpInv
    <3>2. cur[u].pc \in Holding => leaf'[cur[u].n] = leaf[cur[u].n]
      BY <1>0, <1>8, <2>1, CurFacts DEF ThreadInv, LockInv, In
    <3>3. cur[u].pc \in Making => \A i \in 1..Len(cur[u].new) : leaf'[cur[u].new[i]] = leaf[cur[u].new[i]]
      <4> SUFFICES ASSUME cur[u].pc \in Making, NEW i \in 1..Len(cur[u].new)
                   PROVE  leaf'[cur[u].new[i]] = leaf[cur[u].new[i]]
        OBVIOUS
      <4>1. cur[u].new[i] \in Leaves /\ leaf[cur[u].new[i]].place = "new"
        BY <1>0, <2>1, NewFacts DEF ThreadInv, MakeInv, TwigInv
      <4> QED BY <4>1, <1>8
    <3> QED BY <1>1, <1>7, <3>1, <3>2, <3>3 DEF Spares
  <2> QED BY <1>0, <1>11, <2>1, <2>2, <2>3, <2>4, OthersKeep DEF Inv, TrieInv
<1>17. ThreadInv(t)'
  <2>1. OpInv(t)'
    BY <1>0, <1>1, <1>4, <1>6, <1>7 DEF ThreadInv, OpInv
  <2>2. LockInv(t)'
    <3>1. leaf'[o.n] = leaf[o.n]
      BY <1>4, <1>8 DEF In
    <3>2. Entry(t)' = Entry(t)
      BY <1>6, <1>7, <3>1 DEF Entry, Slot_
    <3>3. /\ In(o.n) /\ Leads(Path(o.n), k, d) /\ leaf[o.n].lock /\ leaf[o.n].mod # "deleted"
          /\ ~leaf[o.n].ins /\ old = Entry(t) /\ old.kind # "layer"
      BY <1>0, <1>1 DEF ThreadInv, LockInv, Holding, Unmarked
    <3> QED BY <1>6, <1>7, <3>1, <3>2, <3>3 DEF LockInv, In, Path
  <2>3. MakeInv(t)'
    <3>1. ASSUME NEW i \in 1..m PROVE TwigInv(t, i)'
      <4>1. IsMade(leaf'[s[i]], k, d, old, s, m, i)
        BY <1>3
      <4>2. Leads(leaf'[s[i]].path, k, d + i)
        <5>1. d + i - 1 \in Nat /\ d + i - 1 <= Len(k) /\ (d + i) - 1 = d + i - 1
          BY <1>2, <1>4
        <5> QED BY <1>4, <4>1, <5>1, SubSeqFacts DEF IsMade, Leads
      <4>3. /\ TwigSlot(t, i)' = MadeSlot(k, d, old, m, i)
            /\ TwigEntry(t, i)' = MadeEntry(old, s, m, i)
        BY <1>5, <1>6, <1>7 DEF TwigSlot, TwigEntry, MadeSlot, MadeEntry
      <4> QED BY <4>1, <4>2, <4>3, <1>5, <1>6, <1>7 DEF TwigInv, IsMade
    <3>2. \A i, j \in 1..m : s[i] = s[j] => i = j
      BY <1>3
    <3>3. cur'[t].new = s /\ Len(s) = m /\ cur'[t].e = old /\ cur'[t].k = k /\ cur'[t].d = d
      BY <1>5, <1>6, <1>7
    <3> QED BY <1>1, <1>2, <3>1, <3>2, <3>3 DEF MakeInv
  <2>4. OldInv(t)'
    BY <1>6, <1>7 DEF OldInv
  <2> QED BY <1>6, <1>7, <2>1, <2>2, <2>3, <2>4, NotSearching DEF ThreadInv, Search
<1>18. ASSUME NEW u \in Threads, u # t, cur[u].pc \in Making, NEW i \in 1..m, NEW j \in 1..Len(cur[u].new)
       PROVE  s[i] # cur[u].new[j]
  <2>1. leaf[cur[u].new[j]].place = "new"
    BY <1>18 DEF Inv, ThreadInv, MakeInv, TwigInv
  <2>2. leaf[s[i]].place = "free"
    BY <1>3
  <2> QED BY <2>1, <2>2
<1>19. ApartInv'
  <2> SUFFICES ASSUME NEW u \in Threads, NEW v \in Threads, u # v
               PROVE  /\ cur'[u].pc \in Holding /\ cur'[v].pc \in Holding => cur'[u].n # cur'[v].n
                      /\ cur'[u].pc \in Making /\ cur'[v].pc \in Making =>
                           \A i \in 1..Len(cur'[u].new), j \in 1..Len(cur'[v].new) :
                             cur'[u].new[i] # cur'[v].new[j]
    BY DEF ApartInv
  <2>1. /\ cur[u].pc \in Holding /\ cur[v].pc \in Holding => cur[u].n # cur[v].n
        /\ cur[u].pc \in Making /\ cur[v].pc \in Making =>
             \A i \in 1..Len(cur[u].new), j \in 1..Len(cur[v].new) : cur[u].new[i] # cur[v].new[j]
    BY DEF Inv, ApartInv
  <2>2. o.pc \in Holding /\ cur'[t].n = o.n /\ cur'[t].new = s /\ Len(s) = m
    BY <1>1, <1>5, <1>6, <1>7 DEF Holding
  <2>3. CASE u = t
    BY <1>7, <1>18, <2>1, <2>2, <2>3
  <2>4. CASE v = t
    BY <1>7, <1>18, <2>1, <2>2, <2>4
  <2>5. CASE u # t /\ v # t
    BY <1>7, <2>1, <2>5
  <2> QED BY <2>3, <2>4, <2>5
<1>20. OwnedInv'
  <2> SUFFICES ASSUME NEW l \in Leaves, leaf'[l].place = "new"
               PROVE  \E u \in Threads : cur'[u].pc \in Making /\ \E i \in 1..Len(cur'[u].new) : cur'[u].new[i] = l
    BY DEF OwnedInv
  <2>1. CASE leaf'[l] = leaf[l]
    <3>1. PICK u \in Threads : cur[u].pc \in Making /\ \E i \in 1..Len(cur[u].new) : cur[u].new[i] = l
      BY <2>1 DEF Inv, OwnedInv
    <3>2. cur'[u] = cur[u]
      BY <1>1, <1>7, <3>1 DEF Making
    <3> QED BY <3>1, <3>2
  <2>2. CASE \E i \in 1..m : l = s[i]
    BY <1>5, <1>6, <1>7, <2>2 DEF Making
  <2> QED BY <1>9, <2>1, <2>2
<1>21. CoverInv'
  <2>1. \A l \in Leaves : leaf'[l].place = "in" => leaf'[l] = leaf[l]
    BY <1>10
  <2>2. \A u \in Threads : cur[u].op = "gc" /\ cur[u].pc \in Collects =>
           cur'[u].op = "gc" /\ cur'[u].pc \in Collects /\ cur'[u].k = cur[u].k
    BY <1>4, <1>7
  <2> QED BY <1>1, <2>1, <2>2, SameCover DEF Inv, In
<1> QED BY <1>11, <1>12, <1>13, <1>14, <1>15, <1>16, <1>17, <1>19, <1>20, <1>21 DEF Inv

\* A thread that has swapped out the value: where it stands and what it made.
IsSwapped(t, n, k, d, s, m, suf) ==
  /\ n \in Leaves /\ k \in Keys /\ k \in Seq(Slices) /\ d \in 1..Len(k) /\ d \in Nat
  /\ s \in Seq(Leaves) /\ m \in Nat /\ m >= 1 /\ m <= Len(suf) /\ d + m <= Len(k) /\ m = Len(s)
  /\ suf \in Seq(Slices) /\ suf # Suffix(k, d)
  /\ Slot(k, d) = <<k[d], "more">> /\ <<k[d], "more">> \in TrieSlots
  /\ In(n) /\ leaf[n].ins /\ leaf[n].mod # "deleted" /\ leaf[n] \in LeafType
  /\ Leads(Path(n), k, d) /\ Ent(n, <<k[d], "more">>) = Value(suf, Torn)
  /\ \A i \in 1..(m - 1) : suf[i] = k[d + i]
  /\ Slot(suf, m) # Slot(k, d + m)
  /\ \A i, j \in 1..m : s[i] = s[j] => i = j
  /\ \A i \in 1..m : s[i] \in Leaves /\ leaf[s[i]].place = "new" /\ TwigInv(t, i)

LEMMA SwappedFacts ==
  ASSUME Inv, NEW t \in Threads, cur[t].pc = "swapped"
  PROVE  /\ cur[t] \in CurType /\ cur[t].op = "put"
         /\ IsSwapped(t, cur[t].n, cur[t].k, cur[t].d, cur[t].new, Len(cur[t].new), cur[t].e.suf)
<1> DEFINE o == cur[t]
           n == cur[t].n
           k == cur[t].k
           d == cur[t].d
           s == cur[t].new
           m == Len(cur[t].new)
           suf == cur[t].e.suf
<1>0. LayersTypeOK /\ OpInv(t) /\ LockInv(t) /\ MakeInv(t)
  BY DEF Inv, ThreadInv
<1>1. /\ o \in CurType /\ n \in Leaves /\ k \in Keys /\ k \in Seq(Slices) /\ d \in 1..Len(k)
      /\ suf \in Seq(Slices) /\ o.op = "put" /\ leaf[n] \in LeafType
  BY <1>0, CurFacts DEF OpInv, LayersTypeOK
<1>2. s \in Seq(Leaves) /\ m \in Nat
  BY <1>1 DEF CurType
<1>3. /\ m >= 1 /\ m <= Len(suf) /\ d + m <= Len(k) /\ suf # Suffix(k, d)
      /\ \A i \in 1..(m - 1) : suf[i] = k[d + i]
      /\ Slot(suf, m) # Slot(k, d + m)
      /\ \A i, j \in 1..m : s[i] = s[j] => i = j
      /\ \A i \in 1..m : TwigInv(t, i)
  BY <1>0 DEF MakeInv, Making
<1>4. Slot(k, d) = <<k[d], "more">> /\ <<k[d], "more">> \in TrieSlots
  <2>1. d < Len(k)
    BY <1>1, <1>2, <1>3
  <2> QED BY <1>1, <2>1, SlotFacts
<1>5. /\ In(n) /\ leaf[n].ins /\ leaf[n].mod # "deleted" /\ Leads(Path(n), k, d)
      /\ Ent(n, Slot(k, d)) = Value(suf, Torn)
  BY <1>0 DEF LockInv, Holding, Entry, Slot_, Ent
<1>6. \A i \in 1..m : s[i] \in Leaves /\ leaf[s[i]].place = "new"
  BY <1>2, <1>3 DEF TwigInv
<1>7. d \in Nat
  BY <1>0, CurFacts
<1>8. Ent(n, <<k[d], "more">>) = Value(suf, Torn)
  BY <1>4, <1>5
<1> QED BY <1>1, <1>2, <1>3, <1>4, <1>5, <1>6, <1>7, <1>8 DEF IsSwapped

\* The leaves after the layer is linked.
IsLinked(n, k, d, s, m) ==
  LET s0 == <<k[d], "more">>
  IN /\ leaf' \in [Leaves -> LeafType]
     /\ \A l \in Leaves : l # n /\ (\A i \in 1..m : s[i] # l) => leaf'[l] = leaf[l]
     /\ leaf'[n].place = "in" /\ leaf'[n].mod = leaf[n].mod /\ leaf'[n].vi = leaf[n].vi + 1
     /\ leaf'[n].ent[s0] = Layer(s[1])
     /\ \A z \in TrieSlots \ {s0} : leaf'[n].ent[z] = leaf[n].ent[z]
     /\ \A i \in 1..m : /\ leaf'[s[i]].place = "in" /\ leaf'[s[i]].mod = leaf[s[i]].mod
                         /\ leaf'[s[i]].lock = leaf[s[i]].lock /\ leaf'[s[i]].ent = leaf[s[i]].ent
     /\ \A l \in Leaves : leaf'[l].path = leaf[l].path

LEMMA LinkedFacts ==
  ASSUME Inv, NEW t \in Threads, LayerMade(t)
  PROVE  IsLinked(cur[t].n, cur[t].k, cur[t].d, cur[t].new, Len(cur[t].new))
<1> DEFINE n == cur[t].n
           s == cur[t].new
           m == Len(cur[t].new)
           s0 == <<cur[t].k[cur[t].d], "more">>
           e == Layer(s[1])
           w == With(leaf[n], s0, e)
<1>0. LayersTypeOK /\ cur[t].pc = "swapped"
  BY DEF Inv, LayerMade, At
<1>1. /\ n \in Leaves /\ s \in Seq(Leaves) /\ m \in Nat /\ m >= 1 /\ s0 \in TrieSlots /\ leaf[n] \in LeafType
      /\ Slot_(t) = s0 /\ In(n) /\ leaf[n].ins
      /\ \A i \in 1..m : s[i] \in Leaves /\ leaf[s[i]].place = "new"
  BY <1>0, SwappedFacts DEF Slot_, IsSwapped
<1>2. leaf' = [l \in Leaves |-> IF l = n THEN Unlocked(w)
                                ELSE IF \E i \in 1..m : s[i] = l THEN [leaf[l] EXCEPT !.place = "in"]
                                ELSE leaf[l]]
  <2>1. DOMAIN s = 1..m
    BY <1>1
  <2> QED BY <1>1, <2>1 DEF LayerMade, Linked
<1>3. e \in Entries
  <2>1. s[1] \in Leaves
    BY <1>1
  <2> QED BY <2>1 DEF Layer, Entries, Held
<1> HIDE DEF e, s0
<1>4. /\ w \in LeafType /\ w.place = leaf[n].place /\ w.path = leaf[n].path /\ w.vi = leaf[n].vi
      /\ w.mod = leaf[n].mod /\ w.ins = leaf[n].ins /\ w.ent[s0] = e
      /\ \A z \in TrieSlots \ {s0} : w.ent[z] = leaf[n].ent[z]
  <2> DEFINE x == leaf[n]
  <2>1. x \in LeafType /\ s0 \in TrieSlots /\ e \in Entries
    BY <1>1, <1>3
  <2> HIDE DEF x
  <2>2. LET y == With(x, s0, e)
         IN /\ y \in LeafType /\ y.place = x.place /\ y.path = x.path /\ y.vi = x.vi /\ y.lock = x.lock
            /\ y.mod = x.mod /\ y.ins = x.ins /\ y.ent[s0] = e
            /\ \A z \in TrieSlots \ {s0} : y.ent[z] = x.ent[z]
    BY <2>1, WithFacts
  <2> QED BY <2>2 DEF x
<1> HIDE DEF w
<1>5. /\ Unlocked(w) \in LeafType /\ Unlocked(w).ent = w.ent /\ Unlocked(w).place = w.place
      /\ Unlocked(w).path = w.path /\ Unlocked(w).mod = w.mod /\ Unlocked(w).vi = w.vi + (IF w.ins THEN 1 ELSE 0)
  BY <1>4, UnlockedFacts
<1>6. leaf'[n] = Unlocked(w)
  BY <1>1, <1>2
<1>7. /\ leaf'[n].place = "in" /\ leaf'[n].mod = leaf[n].mod /\ leaf'[n].vi = leaf[n].vi + 1
      /\ leaf'[n].path = leaf[n].path
      /\ leaf'[n].ent[s0] = e /\ \A z \in TrieSlots \ {s0} : leaf'[n].ent[z] = leaf[n].ent[z]
  <2>1. (IF w.ins THEN 1 ELSE 0) = 1
    BY <1>1, <1>4
  <2> QED BY <1>1, <1>4, <1>5, <1>6, <2>1 DEF In
<1>8. ASSUME NEW l \in Leaves, l # n, NEW i \in 1..m, s[i] = l
      PROVE  /\ leaf'[l] \in LeafType /\ leaf'[l].place = "in" /\ leaf'[l].mod = leaf[l].mod
             /\ leaf'[l].lock = leaf[l].lock /\ leaf'[l].ent = leaf[l].ent /\ leaf'[l].path = leaf[l].path
  <2>1. leaf'[l] = [leaf[l] EXCEPT !.place = "in"]
    BY <1>2, <1>8
  <2>2. leaf[l] \in LeafType
    BY <1>0 DEF LayersTypeOK
  <2> QED BY <2>1, <2>2 DEF LeafType
<1>9. \A l \in Leaves : l # n /\ (\A i \in 1..m : s[i] # l) => leaf'[l] = leaf[l]
  BY <1>2
<1>10. \A i \in 1..m : s[i] # n /\ s[i] \in Leaves
  BY <1>1 DEF In
<1>11. \A l \in Leaves : leaf'[l] \in LeafType /\ leaf'[l].path = leaf[l].path
  <2> SUFFICES ASSUME NEW l \in Leaves PROVE leaf'[l] \in LeafType /\ leaf'[l].path = leaf[l].path
    OBVIOUS
  <2>1. CASE l = n
    BY <1>5, <1>6, <1>7, <2>1
  <2>2. CASE l # n /\ \E i \in 1..m : s[i] = l
    BY <1>8, <2>2
  <2>3. CASE l # n /\ \A i \in 1..m : s[i] # l
    BY <1>0, <1>9, <2>3 DEF LayersTypeOK
  <2> QED BY <2>1, <2>2, <2>3
<1>12. leaf' \in [Leaves -> LeafType]
  <2>1. leaf' = [l \in Leaves |-> leaf'[l]]
    BY <1>2
  <2> QED BY <1>11, <2>1
<1>13. \A i \in 1..m : /\ leaf'[s[i]].place = "in" /\ leaf'[s[i]].mod = leaf[s[i]].mod
                       /\ leaf'[s[i]].lock = leaf[s[i]].lock /\ leaf'[s[i]].ent = leaf[s[i]].ent
  BY <1>8, <1>10
<1> QED BY <1>7, <1>9, <1>11, <1>12, <1>13 DEF e, s0, IsLinked

\* The new leaves, one by one.
AreTwigs(k, d, s, m, suf, val) ==
  /\ \A i \in 1..m : /\ leaf[s[i]].mod = "insert" /\ (i = m => leaf[s[i]].lock)
                      /\ Len(Path(s[i])) = d + i - 1
                      /\ \A x \in 1..(d + i - 1) : Path(s[i])[x] = k[x]
  /\ \A i \in 1..(m - 1) : \A z \in TrieSlots :
       Ent(s[i], z) = IF z = <<k[d + i], "more">> THEN Layer(s[i + 1]) ELSE NoEntry
  /\ \A z \in TrieSlots :
       Ent(s[m], z) = IF z = Slot(suf, m) THEN Value(Suffix(suf, m), val) ELSE NoEntry

LEMMA TwigFacts ==
  ASSUME Inv, NEW t \in Threads, cur[t].pc = "swapped"
  PROVE  AreTwigs(cur[t].k, cur[t].d, cur[t].new, Len(cur[t].new), cur[t].e.suf, cur[t].e.val)
<1> DEFINE k == cur[t].k
           d == cur[t].d
           s == cur[t].new
           m == Len(cur[t].new)
           suf == cur[t].e.suf
<1>0. d \in Nat /\ m \in Nat /\ m >= 1 /\ \A i \in 1..m : TwigInv(t, i)
  BY SwappedFacts DEF IsSwapped
<1>1. ASSUME NEW i \in 1..m
      PROVE  /\ leaf[s[i]].mod = "insert" /\ (i = m => leaf[s[i]].lock)
             /\ Len(Path(s[i])) = d + i - 1
             /\ \A x \in 1..(d + i - 1) : Path(s[i])[x] = k[x]
  BY <1>0 DEF TwigInv, Leads, Path
<1>2. ASSUME NEW i \in 1..(m - 1), NEW z \in TrieSlots
      PROVE  Ent(s[i], z) = IF z = <<k[d + i], "more">> THEN Layer(s[i + 1]) ELSE NoEntry
  <2>1. i \in 1..m /\ i < m
    BY <1>0
  <2> QED BY <1>0, <2>1 DEF TwigInv, TwigSlot, TwigEntry, Ent
<1>3. ASSUME NEW z \in TrieSlots
      PROVE  Ent(s[m], z) = IF z = Slot(suf, m) THEN Value(Suffix(suf, m), cur[t].e.val) ELSE NoEntry
  <2>1. m \in 1..m /\ ~(m < m)
    BY <1>0
  <2> QED BY <1>0, <2>1 DEF TwigInv, TwigSlot, TwigEntry, Ent
<1> QED BY <1>1, <1>2, <1>3 DEF AreTwigs

\* LayerInv of the next state, from its leaves.
LeadsOn(l, z, r) ==
  /\ leaf'[r].place = "in" /\ Leads(leaf'[l].path, leaf'[r].path, Len(leaf'[r].path))
  /\ leaf'[r].path[Len(leaf'[r].path)] = z
LEMMA LayersLead ==
  ASSUME \A l \in Leaves, z \in Slices :
           leaf'[l].place = "in" /\ leaf'[l].ent[<<z, "more">>].kind = "layer" =>
             LeadsOn(l, z, leaf'[l].ent[<<z, "more">>].to)
  PROVE  LayerInv'
  BY Zenon DEF LayerInv, In, Path, Ent, LeadsOn

LEMMA LayerMadeTrie ==
  ASSUME Inv, NEW t \in Threads, LayerMade(t)
  PROVE  TrieInv'
<1> DEFINE n == cur[t].n
           k == cur[t].k
           d == cur[t].d
           s == cur[t].new
           m == Len(cur[t].new)
           suf == cur[t].e.suf
           val == cur[t].e.val
           s0 == <<k[d], "more">>
           New(l) == \E i \in 1..m : s[i] = l
<1>0. LayersTypeOK /\ RootInv /\ UniqueInv /\ LayerInv /\ AboveInv /\ cur[t].pc = "swapped"
  BY DEF Inv, TrieInv, LayerMade, At
<1>a. IsSwapped(t, n, k, d, s, m, suf) /\ IsLinked(n, k, d, s, m) /\ AreTwigs(k, d, s, m, suf, val)
  BY <1>0, SwappedFacts, LinkedFacts, TwigFacts
<1> HIDE DEF n, k, d, s, m, suf, val
<1>1. /\ n \in Leaves /\ k \in Seq(Slices) /\ d \in 1..Len(k) /\ m \in Nat /\ m >= 1 /\ d + m <= Len(k)
      /\ d \in Nat /\ d >= 1 /\ s0 \in TrieSlots /\ In(n) /\ Leads(Path(n), k, d)
      /\ Ent(n, s0).kind = "value" /\ leaf[n].mod # "deleted"
      /\ \A i, j \in 1..m : s[i] = s[j] => i = j
      /\ \A i \in 1..m : s[i] \in Leaves /\ leaf[s[i]].place = "new"
  <2>1. /\ n \in Leaves /\ k \in Seq(Slices) /\ d \in 1..Len(k) /\ m \in Nat /\ m >= 1 /\ d + m <= Len(k)
        /\ s0 \in TrieSlots /\ In(n) /\ Leads(Path(n), k, d)
        /\ Ent(n, s0) = Value(suf, Torn) /\ leaf[n].mod # "deleted"
        /\ \A i, j \in 1..m : s[i] = s[j] => i = j
        /\ \A i \in 1..m : s[i] \in Leaves /\ leaf[s[i]].place = "new"
    BY <1>a, Zenon DEF IsSwapped
  <2>2. d \in Nat /\ d >= 1
    BY <2>1
  <2>3. Ent(n, s0).kind = "value"
    BY <2>1 DEF Value
  <2> QED BY <2>1, <2>2, <2>3
<1>2. /\ \A l \in Leaves : l # n /\ ~New(l) => leaf'[l] = leaf[l]
      /\ leaf'[n].place = "in" /\ leaf'[n].mod = leaf[n].mod
      /\ leaf'[n].ent[s0].kind = "layer" /\ leaf'[n].ent[s0].to = s[1]
      /\ \A z \in TrieSlots \ {s0} : leaf'[n].ent[z] = leaf[n].ent[z]
      /\ \A l \in Leaves : leaf'[l].path = Path(l)
  BY <1>a DEF Layer, Path, IsLinked
<1>3. \A i \in 1..m : /\ leaf'[s[i]].place = "in" /\ leaf'[s[i]].mod = "insert"
                      /\ \A z \in TrieSlots : leaf'[s[i]].ent[z] = Ent(s[i], z)
  BY <1>a DEF Ent, IsLinked, AreTwigs
<1>4. /\ \A i \in 1..m : /\ Len(Path(s[i])) = d + i - 1
                         /\ \A x \in 1..(d + i - 1) : Path(s[i])[x] = k[x]
      /\ \A i \in 1..(m - 1) : \A z \in TrieSlots :
           /\ Ent(s[i], z).kind = "layer" <=> z = <<k[d + i], "more">>
           /\ Ent(s[i], z).kind = "layer" => Ent(s[i], z).to = s[i + 1]
      /\ \A z \in TrieSlots : Ent(s[m], z).kind # "layer"
  <2>1. NoEntry.kind = "none" /\ (\A a, b : Value(a, b).kind = "value")
        /\ (\A a : Layer(a).kind = "layer" /\ Layer(a).to = a)
    BY DEF NoEntry, Value, Layer
  <2>2. \A z \in TrieSlots : Ent(s[m], z).kind # "layer"
    BY <1>a, <2>1 DEF AreTwigs
  <2>3. ASSUME NEW i \in 1..(m - 1), NEW z \in TrieSlots
        PROVE  /\ Ent(s[i], z).kind = "layer" <=> z = <<k[d + i], "more">>
               /\ Ent(s[i], z).kind = "layer" => Ent(s[i], z).to = s[i + 1]
    <3>1. Ent(s[i], z) = IF z = <<k[d + i], "more">> THEN Layer(s[i + 1]) ELSE NoEntry
      BY <1>a DEF AreTwigs
    <3> QED BY <2>1, <3>1
  <2>4. \A i \in 1..m : /\ Len(Path(s[i])) = d + i - 1
                         /\ \A x \in 1..(d + i - 1) : Path(s[i])[x] = k[x]
    BY <1>a DEF AreTwigs
  <2> QED BY <2>2, <2>3, <2>4
<1>5. \A l \in Leaves : leaf'[l].place = "in" <=> In(l) \/ New(l)
  BY <1>1, <1>2, <1>3 DEF In
<1>6. \A l \in Leaves : In(l) => ~New(l)
  BY <1>1 DEF In
<1>7. \A i \in 1..m : d + i \in Nat /\ d + i - 1 \in Nat /\ d + i - 1 >= d /\ d + i <= Len(k)
  BY <1>1
<1>8. ASSUME NEW l \in Leaves, In(l), NEW i \in 1..m, Len(Path(l)) = d + i - 1,
             \A x \in 1..(d + i - 1) : Path(l)[x] = k[x]
      PROVE  FALSE
  <2>1. Len(Path(l)) >= d /\ \A x \in 1..d : Path(l)[x] = k[x]
    BY <1>1, <1>7, <1>8
  <2> QED BY <1>1, <1>8, <2>1, UpperHasLayer
<1>9. RootInv'
  <2>1. 1 \in Leaves /\ ~New(1)
    BY <1>0, <1>6, LayersAssumption DEF RootInv
  <2> QED BY <1>0, <1>1, <1>2, <1>5, <2>1 DEF RootInv, In, Path
<1>10. UniqueInv'
  <2> SUFFICES ASSUME NEW l \in Leaves, NEW r \in Leaves, In(l) \/ New(l), In(r) \/ New(r),
                      Same(Path(l), Path(r))
               PROVE  l = r
    BY <1>2, <1>5 DEF UniqueInv, In, Path
  <2>1. Len(Path(l)) = Len(Path(r)) /\ \A x \in 1..Len(Path(r)) : Path(l)[x] = Path(r)[x]
    <3>1. Len(Path(r)) \in Nat
      BY <1>0, PathType
    <3> QED BY <3>1 DEF Same, Leads
  <2>2. CASE In(l) /\ In(r)
    BY <1>0, <2>2 DEF UniqueInv
  <2>3. CASE In(l) /\ New(r)
    <3>1. PICK i \in 1..m : s[i] = r
      BY <2>3
    <3> QED BY <1>4, <1>8, <2>1, <2>3, <3>1
  <2>4. CASE New(l) /\ In(r)
    <3>1. PICK i \in 1..m : s[i] = l
      BY <2>4
    <3> QED BY <1>4, <1>8, <2>1, <2>4, <3>1
  <2>5. CASE New(l) /\ New(r)
    <3>1. PICK i \in 1..m : s[i] = l
      BY <2>5
    <3>2. PICK j \in 1..m : s[j] = r
      BY <2>5
    <3>3. d + i - 1 = d + j - 1
      BY <1>4, <2>1, <3>1, <3>2
    <3>4. i = j
      BY <1>1, <3>3
    <3> QED BY <3>1, <3>2, <3>4
  <2> QED BY <2>2, <2>3, <2>4, <2>5
<1>b. \A l, z, r : l \in Leaves /\ z \in Slices /\ (In(l) \/ New(l))
                     /\ leaf'[l].ent[<<z, "more">>].kind = "layer" /\ r = leaf'[l].ent[<<z, "more">>].to =>
        /\ r \in Leaves /\ (In(r) \/ New(r)) /\ Leads(Path(l), Path(r), Len(Path(r)))
        /\ Path(r)[Len(Path(r))] = z
  <2> SUFFICES ASSUME NEW l \in Leaves, NEW z \in Slices, In(l) \/ New(l),
                      leaf'[l].ent[<<z, "more">>].kind = "layer",
                      NEW r, r = leaf'[l].ent[<<z, "more">>].to
               PROVE  /\ r \in Leaves /\ (In(r) \/ New(r)) /\ Leads(Path(l), Path(r), Len(Path(r)))
                      /\ Path(r)[Len(Path(r))] = z
    OBVIOUS
  <2>0. <<z, "more">> \in TrieSlots
    BY MoreSlot
  <2>1. CASE l = n /\ <<z, "more">> = s0
    <3>1. r = s[1] /\ z = k[d] /\ 1 \in 1..m
      BY <1>1, <1>2, <2>1
    <3>2. Len(Path(r)) = d /\ \A x \in 1..d : Path(r)[x] = k[x]
      <4>1. d + 1 - 1 = d
        BY <1>1
      <4>2. Len(Path(s[1])) = d + 1 - 1 /\ \A x \in 1..(d + 1 - 1) : Path(s[1])[x] = k[x]
        BY <1>4, <3>1
      <4> QED BY <3>1, <4>1, <4>2
    <3>3. Len(Path(n)) = d - 1 /\ \A x \in 1..(d - 1) : Path(n)[x] = k[x]
      BY <1>1 DEF Leads
    <3>4. d \in 1..d /\ \A x \in 1..(d - 1) : x \in 1..d
      BY <1>1
    <3>5. Leads(Path(n), Path(r), d)
      BY <3>2, <3>3, <3>4 DEF Leads
    <3>6. Path(r)[d] = z
      BY <3>1, <3>2, <3>4
    <3>7. r \in Leaves /\ New(r)
      BY <1>1, <3>1
    <3> QED BY <2>1, <3>2, <3>5, <3>6, <3>7
  <2>2. CASE In(l) /\ ~(l = n /\ <<z, "more">> = s0)
    <3>1. leaf'[l].ent[<<z, "more">>] = Ent(l, <<z, "more">>)
      BY <1>2, <1>6, <2>0, <2>2 DEF Ent
    <3>2. r \in Leaves
      BY <1>0, <2>0, <3>1, EntType
    <3> QED BY <1>0, <2>2, <3>1, <3>2 DEF LayerInv
  <2>3. CASE New(l)
    <3>1. PICK i \in 1..m : s[i] = l
      BY <2>3
    <3>2. Ent(l, <<z, "more">>).kind = "layer" /\ r = Ent(l, <<z, "more">>).to
      BY <1>3, <2>0, <3>1
    <3>3. i # m
      BY <1>4, <2>0, <3>1, <3>2
    <3>4. i \in 1..(m - 1) /\ i + 1 \in 1..m
      BY <1>1, <3>3
    <3>5. r = s[i + 1] /\ <<z, "more">> = <<k[d + i], "more">>
      BY <1>4, <2>0, <3>1, <3>2, <3>4
    <3>6. Len(Path(r)) = d + i /\ \A x \in 1..(d + i) : Path(r)[x] = k[x]
      <4>1. d + (i + 1) - 1 = d + i
        BY <1>1
      <4> QED BY <1>4, <3>4, <3>5, <4>1
    <3>7. Len(Path(l)) = d + i - 1 /\ \A x \in 1..(d + i - 1) : Path(l)[x] = k[x]
      BY <1>4, <3>1
    <3>8. z = k[d + i]
      BY <3>5
    <3>9. d + i \in 1..(d + i) /\ d + i \in Nat
      BY <1>1
    <3>10. r \in Leaves /\ New(r)
      BY <1>1, <3>4, <3>5
    <3>11. \A x \in 1..(d + i - 1) : x \in 1..(d + i)
      BY <1>1, <3>4
    <3>12. Leads(Path(l), Path(r), d + i)
      <4>1. d + i - 1 = (d + i) - 1
        BY <1>1
      <4> HIDE DEF New
      <4> QED BY <3>6, <3>7, <3>11, <4>1 DEF Leads
    <3>13. Path(r)[d + i] = z
      BY <3>6, <3>8, <3>9
    <3> QED BY <3>6, <3>10, <3>12, <3>13
  <2> QED BY <2>1, <2>2, <2>3
<1>11. LayerInv'
  <2>1. ASSUME NEW l \in Leaves, NEW z \in Slices,
               leaf'[l].place = "in", leaf'[l].ent[<<z, "more">>].kind = "layer"
        PROVE  LeadsOn(l, z, leaf'[l].ent[<<z, "more">>].to)
    <3> DEFINE r == leaf'[l].ent[<<z, "more">>].to
    <3>1. In(l) \/ New(l)
      BY <1>5, <2>1 DEF In
    <3>2. /\ r \in Leaves /\ (In(r) \/ New(r)) /\ Leads(Path(l), Path(r), Len(Path(r)))
          /\ Path(r)[Len(Path(r))] = z
      BY <1>b, <2>1, <3>1
    <3>3. leaf'[r].place = "in" /\ leaf'[r].path = Path(r) /\ leaf'[l].path = Path(l)
      BY <1>2, <1>5, <3>2 DEF In
    <3> QED BY <3>2, <3>3 DEF LeadsOn
  <2> QED BY <2>1, LayersLead
<1>12. AboveInv'
  <2> SUFFICES ASSUME NEW l \in Leaves, In(l) \/ New(l), NEW i \in 1..Len(Path(l))
               PROVE  \E r \in Leaves : /\ In(r) \/ New(r)
                                        /\ Leads(Path(r), Path(l), i)
                                        /\ leaf'[r].ent[<<Path(l)[i], "more">>].kind = "layer"
    <3>1. ASSUME NEW l \in Leaves, In(l)', NEW i \in 1..Len(leaf'[l].path) PROVE Above(l, i)'
      <4>1. In(l) \/ New(l)
        BY <1>5, <3>1 DEF In
      <4>2. leaf'[l].path = Path(l)
        BY <1>2
      <4>3. PICK r \in Leaves : /\ In(r) \/ New(r)
                                /\ Leads(Path(r), Path(l), i)
                                /\ leaf'[r].ent[<<Path(l)[i], "more">>].kind = "layer"
        BY <4>1, <4>2
      <4>4. leaf'[r].place = "in" /\ leaf'[r].path = Path(r)
        BY <1>2, <1>5, <4>3
      <4> QED BY <4>2, <4>3, <4>4 DEF Above, In, Path, Ent
    <3> QED BY <3>1 DEF AboveInv, Path
  <2>0. Len(Path(l)) \in Nat /\ <<Path(l)[i], "more">> \in TrieSlots
    BY <1>0, PathType, MoreSlot
  <2>1. ASSUME NEW r \in Leaves, In(r), NEW z \in TrieSlots, Ent(r, z).kind = "layer"
        PROVE  leaf'[r].ent[z].kind = "layer"
    <3>1. CASE r # n
      <4>1. leaf'[r] = leaf[r]
        BY <1>2, <1>6, <2>1, <3>1
      <4> QED BY <2>1, <4>1 DEF Ent
    <3>2. CASE r = n /\ z # s0
      <4>1. leaf'[n].ent[z] = leaf[n].ent[z]
        BY <1>2, <3>2
      <4> QED BY <2>1, <3>2, <4>1 DEF Ent
    <3>3. CASE r = n /\ z = s0
      BY <1>2, <3>3
    <3> QED BY <3>1, <3>2, <3>3
  <2>2. CASE In(l)
    <3>1. PICK r \in Leaves : In(r) /\ Leads(Path(r), Path(l), i) /\ Ent(r, <<Path(l)[i], "more">>).kind = "layer"
      BY <1>0, <2>2 DEF AboveInv, Above
    <3> QED BY <2>0, <2>1, <3>1
  <2>3. CASE New(l)
    <3>1. PICK j \in 1..m : s[j] = l
      BY <2>3
    <3>2. Len(Path(l)) = d + j - 1 /\ \A x \in 1..(d + j - 1) : Path(l)[x] = k[x]
      BY <1>4, <3>1
    <3>3. i \in Nat /\ i >= 1 /\ i <= d + j - 1 /\ Path(l)[i] = k[i]
      BY <3>2, <2>0
    <3>4. CASE i < d
      <4>1. i \in 1..Len(Path(n)) /\ \A x \in 1..i : Path(n)[x] = Path(l)[x]
        BY <1>1, <1>7, <3>2, <3>3, <3>4 DEF Leads
      <4>2. PICK r \in Leaves : In(r) /\ Leads(Path(r), Path(n), i)
                                  /\ Ent(r, <<Path(n)[i], "more">>).kind = "layer"
        BY <1>0, <1>1, <4>1 DEF AboveInv, Above
      <4>3. Leads(Path(r), Path(l), i) /\ Path(n)[i] = Path(l)[i]
        BY <3>3, <4>1, <4>2 DEF Leads
      <4> QED BY <2>0, <2>1, <4>2, <4>3
    <3>5. CASE i = d
      <4>1. Leads(Path(n), Path(l), i)
        BY <1>1, <1>7, <3>2, <3>5 DEF Leads
      <4> QED BY <1>1, <1>2, <3>3, <3>5, <4>1
    <3>6. CASE i > d
      <4> DEFINE y == i - d
      <4>1. y \in 1..(m - 1) /\ y \in 1..m /\ d + y = i /\ d + y - 1 = i - 1
        <5>1. d \in Int /\ i \in Int /\ m \in Int /\ j \in Int /\ j <= m /\ i <= d + j - 1 /\ i > d
          BY <1>1, <3>1, <3>3, <3>6
        <5> QED BY <5>1
      <4> HIDE DEF y
      <4>a. Len(Path(s[y])) = d + y - 1 /\ \A x \in 1..(d + y - 1) : Path(s[y])[x] = k[x]
        BY <1>4, <4>1
      <4>2. Len(Path(s[y])) = i - 1 /\ \A x \in 1..(i - 1) : Path(s[y])[x] = k[x]
        BY <4>1, <4>a
      <4>b. \A x \in 1..(i - 1) : x \in 1..(d + j - 1)
        BY <1>1, <3>3
      <4>3. Leads(Path(s[y]), Path(l), i)
        BY <3>2, <4>2, <4>b DEF Leads
      <4>4. leaf'[s[y]].ent[<<Path(l)[i], "more">>].kind = "layer"
        <5>1. <<Path(l)[i], "more">> = <<k[d + y], "more">>
          BY <3>3, <4>1
        <5>2. Ent(s[y], <<Path(l)[i], "more">>).kind = "layer"
          BY <1>4, <2>0, <4>1, <5>1
        <5> QED BY <1>3, <2>0, <4>1, <5>2
      <4>5. s[y] \in Leaves /\ New(s[y])
        BY <1>1, <4>1
      <4> QED BY <4>3, <4>4, <4>5
    <3>7. i < d \/ i = d \/ i > d
      BY <1>1, <3>3
    <3> HIDE DEF New
    <3> QED BY <3>4, <3>5, <3>6, <3>7
  <2> QED BY <2>2, <2>3
<1> QED BY <1>9, <1>10, <1>11, <1>12 DEF TrieInv

\* A slot of a suffix is one of its key.
LEMMA SlotOfSuffix ==
  ASSUME NEW q \in Seq(Slices), NEW d \in Nat, d >= 1, NEW i \in Nat, i >= 1, d + i <= Len(q)
  PROVE  /\ i \in 1..Len(Suffix(q, d)) /\ Suffix(q, d)[i] = q[d + i]
         /\ Slot(Suffix(q, d), i) = Slot(q, d + i)
<1>1. d \in 1..Len(q) /\ i \in 1..(Len(q) - d) /\ (Len(q) - d = i <=> Len(q) = d + i)
  OBVIOUS
<1>2. Len(Suffix(q, d)) = Len(q) - d /\ \A x \in 1..(Len(q) - d) : Suffix(q, d)[x] = q[d + x]
  BY <1>1, SuffixFacts
<1>3. Suffix(q, d)[i] = q[d + i]
  BY <1>1, <1>2
<1> QED BY <1>1, <1>2, <1>3 DEF Slot

LEMMA LayerMadeContent ==
  ASSUME Inv, NEW t \in Threads, LayerMade(t)
  PROVE  ContentInv'
<1> DEFINE n == cur[t].n
           k == cur[t].k
           d == cur[t].d
           s == cur[t].new
           m == Len(cur[t].new)
           suf == cur[t].e.suf
           val == cur[t].e.val
           s0 == <<k[d], "more">>
           New(l) == \E i \in 1..m : s[i] = l
<1>0. LayersTypeOK /\ ContentInv /\ cur[t].pc = "swapped" /\ abs' = abs /\ Slot_(t) = Slot(k, d)
      /\ \A u \in Threads \ {t} : cur'[u] = cur[u]
  BY DEF Inv, LayersTypeOK, LayerMade, At, InNewLeaf, Go, Slot_
<1>a. IsSwapped(t, n, k, d, s, m, suf) /\ IsLinked(n, k, d, s, m) /\ AreTwigs(k, d, s, m, suf, val)
  BY <1>0, SwappedFacts, LinkedFacts, TwigFacts
<1>b. \A q \in Keys : d <= Len(q) /\ Leads(Path(n), q, d) /\ Slot(q, d) = Slot(k, d)
                        /\ Suffix(q, d) = suf => abs[q] = val
  BY <1>0 DEF Inv, ThreadInv, OldInv
<1>c. \A l, z : Swapping(l, z) /\ ~(l = n /\ z = Slot(k, d)) => Swapping(l, z)'
  BY <1>0 DEF Swapping, At, Slot_
<1> HIDE DEF n, k, d, s, m, suf, val
<1>1. /\ n \in Leaves /\ k \in Seq(Slices) /\ d \in 1..Len(k) /\ m \in Nat /\ m >= 1 /\ d + m <= Len(k)
      /\ d \in Nat /\ d >= 1 /\ s0 \in TrieSlots /\ In(n) /\ Leads(Path(n), k, d) /\ suf \in Seq(Slices)
      /\ Ent(n, s0).kind = "value" /\ Ent(n, s0).suf = suf /\ m <= Len(suf) /\ Slot(k, d) = s0
      /\ \A i \in 1..(m - 1) : suf[i] = k[d + i]
      /\ \A i \in 1..m : s[i] \in Leaves /\ leaf[s[i]].place = "new"
  BY <1>a DEF Value, IsSwapped
<1>2. /\ \A l \in Leaves : l # n /\ ~New(l) => leaf'[l] = leaf[l]
      /\ leaf'[n].ent[s0].kind = "layer"
      /\ \A z \in TrieSlots \ {s0} : leaf'[n].ent[z] = leaf[n].ent[z]
      /\ \A l \in Leaves : leaf'[l].path = Path(l)
      /\ \A i \in 1..m : leaf'[s[i]].ent = leaf[s[i]].ent
  BY <1>a DEF Layer, Path, IsLinked
<1>3. /\ \A i \in 1..m : /\ Len(Path(s[i])) = d + i - 1
                         /\ \A x \in 1..(d + i - 1) : Path(s[i])[x] = k[x]
      /\ \A i \in 1..(m - 1) : \A z \in TrieSlots :
           Ent(s[i], z) = IF z = <<k[d + i], "more">> THEN Layer(s[i + 1]) ELSE NoEntry
      /\ \A z \in TrieSlots :
           Ent(s[m], z) = IF z = Slot(suf, m) THEN Value(Suffix(suf, m), val) ELSE NoEntry
  BY <1>a DEF AreTwigs
<1>4. \A l \in Leaves : In(l)' => In(l) \/ New(l)
  BY <1>1, <1>2 DEF In
<1>5. \A l \in Leaves : In(l) => ~New(l)
  BY <1>1 DEF In
<1> SUFFICES ASSUME NEW l \in Leaves, NEW q \in Keys, NEW e \in 1..Len(q), In(l)', Leads(Path(l), q, e)
             PROVE  Right(l, q, e)'
  BY <1>2 DEF ContentInv, Path, In
<1>6. q \in Seq(Slices) /\ Slot(q, e) \in TrieSlots /\ Len(q) \in Nat
  <2>1. q \in Seq(Slices)
    BY LayersAssumption
  <2> QED BY <2>1, SlotFacts
<1>7. CASE l = n /\ Slot(q, e) = s0
  BY <1>2, <1>7 DEF Right, Ent
<1>8. CASE In(l) /\ ~(l = n /\ Slot(q, e) = s0)
  <2>1. leaf'[l].ent[Slot(q, e)] = Ent(l, Slot(q, e))
    <3>1. CASE l = n
      BY <1>2, <1>6, <1>8, <3>1 DEF Ent
    <3>2. CASE l # n
      BY <1>2, <1>5, <1>8, <3>2 DEF Ent
    <3> QED BY <3>1, <3>2
  <2>2. Right(l, q, e)
    BY <1>0, <1>8 DEF ContentInv
  <2>3. Swapping(l, Slot(q, e)) => Swapping(l, Slot(q, e))'
    BY <1>c, <1>1, <1>8
  <2> QED BY <1>0, <2>1, <2>2, <2>3 DEF Right, Ent
<1>9. CASE New(l)
  <2>1. PICK i \in 1..m : s[i] = l
    BY <1>9
  <2>2. e = d + i /\ (\A x \in 1..(d + i - 1) : q[x] = k[x]) /\ i \in Nat /\ i >= 1 /\ i <= m
    <3>1. Len(Path(l)) = d + i - 1 /\ Len(Path(l)) = e - 1 /\ \A x \in 1..(e - 1) : Path(l)[x] = q[x]
      BY <1>3, <2>1 DEF Leads
    <3>2. e = d + i /\ e - 1 = d + i - 1
      <4>1. e \in Int /\ d \in Int /\ i \in Int /\ e - 1 = d + i - 1
        BY <1>1, <1>6, <3>1
      <4> QED BY <4>1
    <3>3. e - 1 = d + i - 1 /\ i \in Nat /\ i >= 1 /\ i <= m
      BY <1>1, <2>1, <3>2
    <3>4. \A x \in 1..(d + i - 1) : Path(l)[x] = k[x]
      BY <1>3, <2>1
    <3>5. ASSUME NEW x \in 1..(d + i - 1) PROVE q[x] = k[x]
      <4>1. Path(l)[x] = q[x]
        BY <3>1, <3>3
      <4> QED BY <4>1, <3>4
    <3> QED BY <3>2, <3>3, <3>5
  <2>3. d \in 1..Len(q) /\ d < Len(q) /\ d + i <= Len(q) /\ q[d] = k[d] /\ Leads(Path(n), q, d)
    <3>1. d \in 1..(d + i - 1) /\ \A x \in 1..(d - 1) : x \in 1..(d + i - 1)
      BY <1>1, <2>2
    <3>2. d + i <= Len(q) /\ d < Len(q) /\ d \in 1..Len(q)
      BY <1>1, <1>6, <2>2
    <3>3. Leads(Path(n), q, d)
      BY <1>1, <2>2, <3>1 DEF Leads
    <3> QED BY <2>2, <3>1, <3>2, <3>3
  <2>4. Slot(q, d) = s0
    BY <1>6, <2>3, SlotFacts
  <2>5. Suffix(q, d) # suf => abs[q] = NoValue
    <3>1. Right(n, q, d)
      BY <1>0, <1>1, <2>3 DEF ContentInv
    <3> QED BY <1>1, <2>4, <3>1 DEF Right
  <2>6. Suffix(q, d) = suf => abs[q] = val
    BY <1>b, <1>1, <2>3, <2>4
  <2>7. /\ Suffix(q, d)[i] = q[d + i] /\ i \in 1..Len(Suffix(q, d))
        /\ Slot(Suffix(q, d), i) = Slot(q, d + i)
    BY <1>1, <1>6, <2>2, <2>3, SlotOfSuffix
  <2>8. leaf'[l].ent[Slot(q, e)] = Ent(s[i], Slot(q, d + i))
    BY <1>2, <2>1, <2>2 DEF Ent
  <2>a. NoEntry.kind = "none" /\ (\A a, b : Value(a, b).kind = "value" /\ Value(a, b).suf = a /\ Value(a, b).val = b)
        /\ (\A a : Layer(a).kind = "layer")
    BY DEF NoEntry, Value, Layer
  <2>9. CASE i < m
    <3>1. i \in 1..(m - 1)
      BY <1>1, <2>2, <2>9
    <3>2. Ent(s[i], Slot(q, d + i)) = IF Slot(q, d + i) = <<k[d + i], "more">> THEN Layer(s[i + 1]) ELSE NoEntry
      BY <1>3, <1>6, <2>2, <3>1
    <3>3. Suffix(q, d) = suf => Slot(q, d + i) = <<k[d + i], "more">>
      <4> SUFFICES ASSUME Suffix(q, d) = suf PROVE Slot(q, d + i) = <<k[d + i], "more">>
        OBVIOUS
      <4>1. i < Len(suf) /\ i \in 1..Len(suf)
        BY <1>1, <2>2, <2>9
      <4>2. Slot(suf, i) = <<suf[i], "more">>
        BY <1>1, <4>1, SlotFacts
      <4> QED BY <1>1, <2>7, <3>1, <4>2
    <3> QED BY <1>0, <2>5, <2>8, <2>a, <3>2, <3>3 DEF Right, Ent
  <2>10. CASE i = m
    <3>1. Ent(s[i], Slot(q, d + i)) = IF Slot(q, d + i) = Slot(suf, i) THEN Value(Suffix(suf, i), val) ELSE NoEntry
      BY <1>3, <1>6, <2>2, <2>10
    <3>2. Suffix(q, d) = suf => Slot(q, d + i) = Slot(suf, i)
      BY <2>7
    <3>3. Slot(q, d + i) = Slot(suf, i) => (Suffix(q, d + i) = Suffix(suf, i) <=> Suffix(q, d) = suf)
      <4>1. \A x \in 1..(i - 1) : suf[x] = q[d + x]
        <5> SUFFICES ASSUME NEW x \in 1..(i - 1) PROVE suf[x] = q[d + x]
          OBVIOUS
        <5>1. x \in 1..(m - 1) /\ d + x \in 1..(d + i - 1)
          BY <1>1, <2>2, <2>10
        <5> QED BY <1>1, <2>2, <5>1
      <4>2. i \in 1..Len(suf)
        BY <1>1, <2>2
      <4> QED BY <1>1, <1>6, <2>3, <4>1, <4>2, JoinSuffix
    <3> QED BY <1>0, <2>2, <2>5, <2>6, <2>8, <2>a, <3>1, <3>2, <3>3 DEF Right, Ent
  <2> QED BY <2>2, <2>9, <2>10, <1>1
<1> QED BY <1>4, <1>7, <1>8, <1>9

LEMMA LayerMadeStep ==
  ASSUME Inv, NEW t \in Threads, LayerMade(t)
  PROVE  Inv'
<1> DEFINE o == cur[t]
           n == cur[t].n
           k == cur[t].k
           d == cur[t].d
           s == cur[t].new
           m == Len(cur[t].new)
           suf == cur[t].e.suf
           val == cur[t].e.val
           s0 == <<k[d], "more">>
           c == [cur[t] EXCEPT !.pc = "publish", !.n = s[m], !.d = @ + m]
           New(l) == \E i \in 1..m : s[i] = l
<1>0. /\ LayersTypeOK /\ o.pc = "swapped" /\ ThreadInv(t)
      /\ UNCHANGED <<prog, idx, abs, seen, callbacks>>
      /\ cur' = [cur EXCEPT ![t] = c]
  BY DEF Inv, LayerMade, At, InNewLeaf, Go
<1>a. /\ IsSwapped(t, n, k, d, s, m, suf) /\ IsLinked(n, k, d, s, m) /\ AreTwigs(k, d, s, m, suf, val)
      /\ o \in CurType /\ o.op = "put"
  BY <1>0, SwappedFacts, LinkedFacts, TwigFacts
<1>b. abs[k] \in seen[t] /\ \A i \in 1..Len(cur[t].new) : cur[t].new[i] = s[i]
  BY <1>0, <1>a DEF ThreadInv, OpInv
<1>c. m \in 1..m /\ s[m] \in Leaves /\ d + m \in Nat
  BY <1>a DEF IsSwapped
<1>d. /\ c \in CurType /\ c.pc = "publish" /\ c.n = s[m] /\ c.d = d + m /\ c.k = k /\ c.op = "put"
  BY <1>a, <1>c DEF CurType, Pcs
<1> HIDE DEF c
<1>e. cur' \in [Threads -> CurType] /\ cur'[t] = c /\ \A u \in Threads \ {t} : cur'[u] = cur[u]
  BY <1>0, <1>d DEF LayersTypeOK
<1>f. \A u \in Threads \ {t} :
        /\ cur[u].pc \in Holding => cur[u].n # n
        /\ cur[u].pc \in Making => \A i \in 1..Len(cur[u].new), j \in 1..m : cur[u].new[i] # s[j]
  BY <1>0 DEF Inv, ApartInv, Holding, Making
<1>g. o.pc \in Making /\ DOMAIN s = 1..m
  BY <1>0, <1>a DEF Making, IsSwapped
<1> HIDE DEF n, k, d, s, m, suf, val
<1>1. /\ n \in Leaves /\ k \in Keys /\ k \in Seq(Slices) /\ d \in Nat /\ d >= 1 /\ m \in Nat /\ m >= 1
      /\ d + m <= Len(k) /\ s0 \in TrieSlots /\ In(n) /\ leaf[n].mod # "deleted" /\ suf \in Seq(Slices)
      /\ m \in 1..Len(suf) /\ Slot(suf, m) # Slot(k, d + m)
      /\ \A i \in 1..m : s[i] \in Leaves /\ leaf[s[i]].place = "new"
  BY <1>a DEF IsSwapped
<1>2. /\ leaf' \in [Leaves -> LeafType]
      /\ \A l \in Leaves : l # n /\ ~New(l) => leaf'[l] = leaf[l]
      /\ leaf'[n].place = "in" /\ leaf'[n].mod = leaf[n].mod /\ leaf'[n].vi = leaf[n].vi + 1
      /\ leaf'[n].ent[s0] = Layer(s[1])
      /\ \A z \in TrieSlots \ {s0} : leaf'[n].ent[z] = leaf[n].ent[z]
      /\ \A l \in Leaves : leaf'[l].path = leaf[l].path
      /\ \A i \in 1..m : leaf'[s[i]].ent = leaf[s[i]].ent /\ leaf'[s[i]].place = "in"
  BY <1>a DEF IsLinked
<1>3. /\ \A i \in 1..m : leaf'[s[i]].mod = "insert"
      /\ \A i \in 1..(m - 1) : \A z \in TrieSlots :
           leaf'[s[i]].ent[z] = IF z = <<k[d + i], "more">> THEN Layer(s[i + 1]) ELSE NoEntry
      /\ \A z \in TrieSlots :
           leaf'[s[m]].ent[z] = IF z = Slot(suf, m) THEN Value(Suffix(suf, m), val) ELSE NoEntry
      /\ leaf'[s[m]].lock
      /\ Len(Path(s[m])) = d + m - 1 /\ \A x \in 1..(d + m - 1) : Path(s[m])[x] = k[x]
  <2>1. \A i \in 1..m : leaf'[s[i]].mod = leaf[s[i]].mod /\ leaf'[s[i]].lock = leaf[s[i]].lock
    BY <1>a DEF IsLinked
  <2>2. /\ \A i \in 1..m : /\ leaf[s[i]].mod = "insert" /\ (i = m => leaf[s[i]].lock)
                            /\ Len(Path(s[i])) = d + i - 1
                            /\ \A x \in 1..(d + i - 1) : Path(s[i])[x] = k[x]
        /\ \A i \in 1..(m - 1) : \A z \in TrieSlots :
             leaf[s[i]].ent[z] = IF z = <<k[d + i], "more">> THEN Layer(s[i + 1]) ELSE NoEntry
        /\ \A z \in TrieSlots :
             leaf[s[m]].ent[z] = IF z = Slot(suf, m) THEN Value(Suffix(suf, m), val) ELSE NoEntry
    BY <1>a DEF AreTwigs, Ent
  <2>3. \A i \in 1..(m - 1) : i \in 1..m
    BY <1>1
  <2>4. \A i \in 1..(m - 1) : \A z \in TrieSlots :
           leaf'[s[i]].ent[z] = IF z = <<k[d + i], "more">> THEN Layer(s[i + 1]) ELSE NoEntry
    BY <1>2, <2>2, <2>3
  <2>5. leaf'[s[m]].ent = leaf[s[m]].ent /\ leaf'[s[m]].lock
    BY <1>2, <1>c, <2>1, <2>2
  <2>6. Len(Path(s[m])) = d + m - 1 /\ \A x \in 1..(d + m - 1) : Path(s[m])[x] = k[x]
    BY <1>c, <2>2
  <2>7. \A z \in TrieSlots :
           leaf'[s[m]].ent[z] = IF z = Slot(suf, m) THEN Value(Suffix(suf, m), val) ELSE NoEntry
    BY <2>2, <2>5
  <2>8. \A i \in 1..m : leaf'[s[i]].mod = "insert"
    BY <2>1, <2>2
  <2> QED BY <2>4, <2>5, <2>6, <2>7, <2>8
<1>4. \A l \in Leaves : leaf[l].place # "new" => ~New(l)
  BY <1>1
<1>5. LayersTypeOK'
  BY <1>0, <1>2, <1>e DEF LayersTypeOK
<1>6. TrieInv' /\ ContentInv'
  BY LayerMadeTrie, LayerMadeContent
<1>7. \A z \in TrieSlots, l \in Leaves : leaf'[l].ent[z] = leaf[l].ent[z] \/ (z = s0 /\ leaf'[l].ent[z] = Layer(s[1]))
  <2> SUFFICES ASSUME NEW z \in TrieSlots, NEW l \in Leaves
               PROVE  leaf'[l].ent[z] = leaf[l].ent[z] \/ (z = s0 /\ leaf'[l].ent[z] = Layer(s[1]))
    OBVIOUS
  <2>1. CASE l = n
    BY <1>2, <2>1
  <2>2. CASE New(l)
    BY <1>2, <2>2
  <2>3. CASE l # n /\ ~New(l)
    BY <1>2, <2>3
  <2> QED BY <2>1, <2>2, <2>3
<1>8. EntryInv'
  <2>1. GoodEntry(s0, Layer(s[1]))
    BY DEF GoodEntry, Layer
  <2>2. \A l \in Leaves, z \in TrieSlots : GoodEntry(z, leaf[l].ent[z])
    BY DEF Inv, EntryInv, Ent
  <2>3. \A l \in Leaves, z \in TrieSlots : GoodEntry(z, leaf'[l].ent[z])
    BY <1>7, <2>1, <2>2
  <2> QED BY <2>3 DEF EntryInv, Ent
<1>9. EmptyInv'
  <2> SUFFICES ASSUME NEW l \in Leaves
               PROVE  /\ leaf'[l].place \in {"free", "out"} \/ leaf'[l].mod = "deleted" =>
                           \A z \in TrieSlots : leaf'[l].ent[z].kind = "none"
                      /\ leaf'[l].place = "out" => leaf'[l].mod = "deleted"
    BY DEF EmptyInv, Ent
  <2>1. CASE l = n
    BY <1>1, <1>2, <2>1
  <2>2. CASE New(l)
    BY <1>2, <1>3, <2>2
  <2>3. CASE l # n /\ ~New(l)
    BY <1>2, <2>3 DEF Inv, EmptyInv, Ent
  <2> QED BY <2>1, <2>2, <2>3
<1>10. ASSUME NEW u \in Threads \ {t} PROVE ThreadInv(u)'
  <2>1. ThreadInv(u) /\ u \in Threads
    BY DEF Inv
  <2>2. Evolves
    <3>1. \A l \in Leaves : leaf[l].place \in {"in", "out"} /\ l # n => leaf'[l] = leaf[l]
      BY <1>2, <1>4
    <3>2. \A l \in Leaves : leaf[l].vi \in Nat
      BY <1>0 DEF LayersTypeOK, LeafType
    <3>3. leaf[n].vi < leaf'[n].vi /\ leaf'[n].path = leaf[n].path /\ leaf'[n].place = "in"
          /\ leaf[n].place = "in" /\ leaf[n].mod # "deleted"
      BY <1>1, <1>2, <3>2 DEF In
    <3>4. leaf[n].vi <= leaf'[n].vi /\ leaf'[n].vi # leaf[n].vi
      BY <1>1, <1>2, <3>2
    <3>5. \A l \in Leaves : leaf[l].vi <= leaf[l].vi
      BY <3>2
    <3> QED BY <3>1, <3>3, <3>4, <3>5 DEF Evolves
  <2>3. GoneAbsent
    <3>1. ASSUME NEW l \in Leaves, In(l) PROVE leaf'[l].place = "in"
      <4>1. CASE l = n
        BY <1>2, <4>1
      <4>2. CASE l # n
        BY <1>2, <1>4, <3>1, <4>2 DEF In
      <4> QED BY <4>1, <4>2
    <3> QED BY <3>1 DEF GoneAbsent
  <2>4. Spares(u)
    <3>1. cur[u].pc # "idle" /\ cur[u].op # "gc" => abs'[cur[u].k] \in seen'[u]
      BY <1>0, <2>1 DEF ThreadInv, OpInv
    <3>2. cur[u].pc \in Holding => leaf'[cur[u].n] = leaf[cur[u].n]
      BY <1>0, <1>2, <1>4, <1>f, <2>1, CurFacts DEF ThreadInv, LockInv, In
    <3>3. cur[u].pc \in Making => \A i \in 1..Len(cur[u].new) : leaf'[cur[u].new[i]] = leaf[cur[u].new[i]]
      <4> SUFFICES ASSUME cur[u].pc \in Making, NEW i \in 1..Len(cur[u].new)
                   PROVE  leaf'[cur[u].new[i]] = leaf[cur[u].new[i]]
        OBVIOUS
      <4>1. cur[u].new[i] \in Leaves /\ leaf[cur[u].new[i]].place = "new"
        BY <1>0, <2>1, NewFacts DEF ThreadInv, MakeInv, TwigInv
      <4>2. cur[u].new[i] # n /\ ~New(cur[u].new[i])
        BY <1>1, <1>f, <4>1 DEF In
      <4> QED BY <1>2, <4>1, <4>2
    <3> QED BY <1>0, <1>e, <3>1, <3>2, <3>3 DEF Spares
  <2> QED BY <1>0, <1>5, <2>1, <2>2, <2>3, <2>4, OthersKeep DEF Inv, TrieInv
<1>11. ThreadInv(t)'
  <2>1. d + m \in 1..Len(k)
    BY <1>1
  <2>2. OpInv(t)'
    BY <1>0, <1>1, <1>b, <1>d, <1>e, <2>1 DEF OpInv
  <2>3. LockInv(t)'
    <3>1. leaf'[s[m]].place = "in" /\ leaf'[s[m]].lock /\ leaf'[s[m]].mod # "deleted"
      BY <1>2, <1>3, <1>c
    <3>2. Leads(leaf'[s[m]].path, k, d + m)
      <4>1. leaf'[s[m]].path = Path(s[m]) /\ d + m - 1 = (d + m) - 1
        BY <1>1, <1>2, <1>c DEF Path
      <4> QED BY <1>3, <4>1 DEF Leads
    <3>3. leaf'[s[m]].ent[Slot(k, d + m)].kind = "none"
      <4>1. Slot(k, d + m) \in TrieSlots
        BY <1>1, <2>1, SlotFacts
      <4> QED BY <1>1, <1>3, <4>1 DEF NoEntry
    <3> QED BY <1>d, <1>e, <3>1, <3>2, <3>3 DEF LockInv, In, Path, Entry, Slot_, Unmarked
  <2>4. MakeInv(t)' /\ OldInv(t)'
    BY <1>d, <1>e DEF MakeInv, OldInv, Making
  <2> QED BY <1>d, <1>e, <2>2, <2>3, <2>4, NotSearching DEF ThreadInv, Search
<1>12. ApartInv'
  <2>1. ASSUME NEW u \in Threads \ {t}, cur[u].pc \in Holding PROVE cur[u].n # s[m]
    <3>1. In(cur[u].n)
      BY <2>1 DEF Inv, ThreadInv, LockInv
    <3> QED BY <1>1, <1>c, <3>1 DEF In
  <2>2. \A u, v \in Threads : u # v =>
          /\ cur[u].pc \in Holding /\ cur[v].pc \in Holding => cur[u].n # cur[v].n
          /\ cur[u].pc \in Making /\ cur[v].pc \in Making =>
               \A i \in 1..Len(cur[u].new), j \in 1..Len(cur[v].new) : cur[u].new[i] # cur[v].new[j]
    BY DEF Inv, ApartInv
  <2>3. cur'[t].pc \notin Making /\ cur'[t].n = s[m]
    BY <1>d, <1>e DEF Making
  <2> SUFFICES ASSUME NEW u \in Threads, NEW v \in Threads, u # v
               PROVE  /\ cur'[u].pc \in Holding /\ cur'[v].pc \in Holding => cur'[u].n # cur'[v].n
                      /\ cur'[u].pc \in Making /\ cur'[v].pc \in Making =>
                           \A i \in 1..Len(cur'[u].new), j \in 1..Len(cur'[v].new) :
                             cur'[u].new[i] # cur'[v].new[j]
    BY DEF ApartInv
  <2>4. CASE u = t
    BY <1>e, <2>1, <2>3, <2>4
  <2>5. CASE v = t
    BY <1>e, <2>1, <2>3, <2>5
  <2>6. CASE u # t /\ v # t
    BY <1>e, <2>2, <2>6
  <2> QED BY <2>4, <2>5, <2>6
<1>13. OwnedInv'
  <2> SUFFICES ASSUME NEW l \in Leaves, leaf'[l].place = "new"
               PROVE  \E u \in Threads : cur'[u].pc \in Making /\ \E i \in 1..Len(cur'[u].new) : cur'[u].new[i] = l
    BY DEF OwnedInv
  <2>1. l # n /\ ~New(l) /\ leaf[l].place = "new"
    BY <1>2
  <2>2. PICK u \in Threads : cur[u].pc \in Making /\ \E i \in 1..Len(cur[u].new) : cur[u].new[i] = l
    BY <2>1 DEF Inv, OwnedInv
  <2>3. u # t
    BY <2>1, <2>2 DEF s, m
  <2> QED BY <1>e, <2>2, <2>3
<1>14. CoverInv'
  <2>1. ASSUME NEW l \in Leaves, leaf'[l].place = "in", \A z \in TrieSlots : leaf'[l].ent[z].kind = "none"
        PROVE  l # n /\ ~New(l)
    <3>1. l # n
      BY <1>1, <1>2, <2>1 DEF Layer
    <3>2. ASSUME NEW i \in 1..m, s[i] = l PROVE FALSE
      <4>1. CASE i = m
        <5>1. Slot(suf, m) \in TrieSlots
          BY <1>1, SlotFacts
        <5>2. leaf'[l].ent[Slot(suf, m)] = Value(Suffix(suf, m), val)
          BY <1>3, <3>2, <4>1, <5>1
        <5> QED BY <2>1, <5>1, <5>2 DEF Value
      <4>2. CASE i # m
        <5>1. i \in 1..(m - 1) /\ d + i \in 1..Len(k)
          BY <1>1, <4>2
        <5>2. <<k[d + i], "more">> \in TrieSlots
          BY <1>1, <5>1, SlotFacts, MoreSlot
        <5>3. leaf'[l].ent[<<k[d + i], "more">>] = Layer(s[i + 1])
          BY <1>3, <3>2, <5>1, <5>2
        <5> QED BY <2>1, <5>2, <5>3 DEF Layer
      <4> QED BY <4>1, <4>2
    <3> QED BY <3>1, <3>2
  <2>2. \A l \in Leaves : In(l)' /\ (\A z \in TrieSlots : leaf'[l].ent[z].kind = "none") =>
          In(l) /\ leaf'[l].path = leaf[l].path /\ \A z \in TrieSlots : leaf[l].ent[z].kind = "none"
    BY <1>2, <2>1 DEF In
  <2>3. \A u \in Threads : cur[u].op = "gc" /\ cur[u].pc \in Collects =>
          cur'[u].op = "gc" /\ cur'[u].pc \in Collects /\ cur'[u].k = cur[u].k
    BY <1>a, <1>e
  <2>4. CoverInv
    BY DEF Inv
  <2> QED BY <1>0, <2>2, <2>3, <2>4, SameCover
<1> QED BY <1>5, <1>6, <1>8, <1>9, <1>10, <1>11, <1>12, <1>13, <1>14 DEF Inv

-----------------------------------------------------------------------------
(* A layer is collected.                                                   *)

\* A collector that has marked the empty leaf: the entry it removes leads
\* to that leaf.
IsMarked(n, k, d, s0, to) ==
  /\ n \in Leaves /\ to \in Leaves /\ n # to /\ to # 1 /\ k \in Seq(Slices) /\ d \in 1..Len(k)
  /\ d = Len(k) /\ d \in Nat /\ d >= 1 /\ s0 = <<k[d], "more">> /\ s0 \in TrieSlots
  /\ In(n) /\ Leads(Path(n), k, d) /\ leaf[n].mod # "deleted" /\ ~leaf[n].ins
  /\ Ent(n, s0).kind = "layer" /\ Ent(n, s0).to = to
  /\ In(to) /\ Leads(Path(to), k, d + 1) /\ leaf[to].mod = "deleted"
  /\ \A z \in TrieSlots : Ent(to, z).kind = "none"
IsRemoved(n, s0, to) ==
  /\ leaf' \in [Leaves -> LeafType]
  /\ \A l \in Leaves \ {n, to} : leaf'[l] = leaf[l]
  /\ leaf'[n].place = "in" /\ leaf'[n].path = leaf[n].path /\ leaf'[n].lock = leaf[n].lock
  /\ leaf'[n].mod # "deleted" /\ leaf'[n].vi = leaf[n].vi
  /\ leaf'[n].ent[s0] = NoEntry /\ \A z \in TrieSlots \ {s0} : leaf'[n].ent[z] = leaf[n].ent[z]
  /\ leaf'[to].place = "out" /\ leaf'[to].path = leaf[to].path /\ leaf'[to].mod = leaf[to].mod
  /\ leaf'[to].vi = leaf[to].vi /\ leaf'[to].ins = leaf[to].ins /\ leaf'[to].ent = leaf[to].ent

LEMMA MarkedFacts ==
  ASSUME Inv, NEW t \in Threads, cur[t].pc = "gcremove"
  PROVE  /\ cur[t] \in CurType /\ cur[t].op = "gc"
         /\ IsMarked(cur[t].n, cur[t].k, cur[t].d, LayerSlot(t), cur[t].to)
<1> DEFINE o == cur[t]
           to == cur[t].to
<1>0. LayersTypeOK /\ ThreadInv(t)
  BY DEF Inv
<1>1. /\ o.op = "gc" /\ o.d \in 1..Len(o.k) /\ o.n \in Leaves /\ o.k \in Seq(Slices) /\ o \in CurType
      /\ LayerSlot(t) = <<o.k[o.d], "more">> /\ LayerSlot(t) \in TrieSlots /\ to \in Leaves /\ o.d \in Nat
  BY <1>0, CurFacts, SlotFacts, MoreSlot DEF ThreadInv, OpInv, LayerSlot
<1>2. /\ In(o.n) /\ Leads(Path(o.n), o.k, o.d) /\ leaf[o.n].mod # "deleted"
      /\ ~leaf[o.n].ins /\ o.d = Len(o.k) /\ leaf[to].mod = "deleted"
      /\ Ent(o.n, LayerSlot(t)).kind = "layer" /\ Ent(o.n, LayerSlot(t)).to = to
  BY <1>0 DEF ThreadInv, LockInv, Holding, Unmarked
<1>3. In(to) /\ Leads(Path(to), o.k, o.d + 1)
  BY <1>1, <1>2, Below
<1>4. \A z \in TrieSlots : Ent(to, z).kind = "none"
  BY <1>1, <1>2 DEF Inv, EmptyInv
<1>5. to # 1
  BY <1>2 DEF Inv, TrieInv, RootInv
<1> QED BY <1>1, <1>2, <1>3, <1>4, <1>5 DEF IsMarked

LEMMA RemovedFacts ==
  ASSUME Inv, NEW t \in Threads, RemoveLayer(t)
  PROVE  /\ IsRemoved(cur[t].n, LayerSlot(t), cur[t].to)
         /\ leaf'[cur[t].n] = Without(t, LayerSlot(t))
<1> DEFINE n == cur[t].n
           to == cur[t].to
           s0 == LayerSlot(t)
           x == leaf[n]
           y == ToRemove(leaf[n])
           w == Without(t, LayerSlot(t))
<1>0. LayersTypeOK /\ cur[t].pc = "gcremove" /\ leaf' = [leaf EXCEPT ![n] = w, ![to].place = "out"]
  BY DEF Inv, RemoveLayer, At
<1>1. n \in Leaves /\ to \in Leaves /\ n # to /\ s0 \in TrieSlots /\ In(n) /\ x.mod # "deleted" /\ In(to)
  BY <1>0, MarkedFacts DEF IsMarked
<1>2. x \in LeafType /\ leaf[to] \in LeafType /\ w = With(y, s0, NoEntry) /\ NoEntry \in Entries
  BY <1>0, <1>1, NoCurType DEF LayersTypeOK, Without
<1> HIDE DEF w, s0, n, to
<1>3. /\ y \in LeafType /\ y.place = x.place /\ y.path = x.path /\ y.vi = x.vi /\ y.ent = x.ent
      /\ y.lock = x.lock /\ y.mod # "deleted"
  BY <1>1, <1>2 DEF ToRemove, LeafType
<1> HIDE DEF y
<1>4. /\ w \in LeafType /\ w.place = y.place /\ w.path = y.path /\ w.vi = y.vi
      /\ w.lock = y.lock /\ w.mod = y.mod /\ w.ent[s0] = NoEntry
      /\ \A z \in TrieSlots \ {s0} : w.ent[z] = y.ent[z]
  BY <1>1, <1>2, <1>3, WithFacts
<1>5. leaf'[n] = w /\ leaf'[to] = [leaf[to] EXCEPT !.place = "out"]
      /\ \A l \in Leaves \ {n, to} : leaf'[l] = leaf[l]
  BY <1>0, <1>1 DEF LayersTypeOK
<1>6. /\ leaf'[to] \in LeafType
      /\ leaf'[to].place = "out" /\ leaf'[to].path = leaf[to].path /\ leaf'[to].mod = leaf[to].mod
      /\ leaf'[to].vi = leaf[to].vi /\ leaf'[to].ins = leaf[to].ins /\ leaf'[to].ent = leaf[to].ent
  BY <1>2, <1>5 DEF LeafType
<1>7. leaf' \in [Leaves -> LeafType]
  <2>1. \A l \in Leaves : leaf'[l] \in LeafType
    BY <1>0, <1>4, <1>5, <1>6 DEF LayersTypeOK
  <2>2. leaf' = [l \in Leaves |-> leaf'[l]]
    BY <1>0 DEF LayersTypeOK
  <2> QED BY <2>1, <2>2
<1>8. leaf'[n].place = "in" /\ \A z \in TrieSlots \ {s0} : leaf'[n].ent[z] = leaf[n].ent[z]
  BY <1>1, <1>3, <1>4, <1>5 DEF In
<1> QED BY <1>3, <1>4, <1>5, <1>6, <1>7, <1>8 DEF IsRemoved, w, s0, n, to

LEMMA RemoveLayerTrie ==
  ASSUME Inv, NEW n, NEW k, NEW d, NEW s0, NEW to, IsMarked(n, k, d, s0, to), IsRemoved(n, s0, to)
  PROVE  TrieInv'
<1>0. LayersTypeOK /\ RootInv /\ UniqueInv /\ LayerInv /\ AboveInv
  BY DEF Inv, TrieInv
<1>1. /\ n \in Leaves /\ to \in Leaves /\ n # to /\ to # 1 /\ k \in Seq(Slices) /\ d \in Nat /\ d >= 1
      /\ d \in 1..Len(k) /\ s0 = <<k[d], "more">> /\ s0 \in TrieSlots /\ In(n) /\ In(to)
      /\ Len(Path(n)) = d - 1 /\ (\A i \in 1..(d - 1) : Path(n)[i] = k[i])
      /\ Len(Path(to)) = d /\ (\A i \in 1..d : Path(to)[i] = k[i])
      /\ \A z \in TrieSlots : Ent(to, z).kind = "none"
  BY DEF IsMarked, Leads
<1>2. /\ \A l \in Leaves \ {n, to} : leaf'[l] = leaf[l]
      /\ leaf'[n].place = "in" /\ leaf'[n].mod # "deleted"
      /\ leaf'[n].ent[s0].kind = "none" /\ \A z \in TrieSlots \ {s0} : leaf'[n].ent[z] = Ent(n, z)
      /\ leaf'[to].place = "out"
      /\ \A l \in Leaves : leaf'[l].path = Path(l)
  <2>1. leaf'[n].path = leaf[n].path /\ leaf'[to].path = leaf[to].path
        /\ \A l \in Leaves \ {n, to} : leaf'[l] = leaf[l]
    BY DEF IsRemoved
  <2>2. \A l \in Leaves : leaf'[l].path = Path(l)
    BY <2>1 DEF Path
  <2> QED BY <2>2 DEF IsRemoved, NoEntry, Ent
<1>3. \A l \in Leaves : leaf'[l].place = "in" <=> In(l) /\ l # to
  BY <1>1, <1>2 DEF In
<1>4. ASSUME NEW l \in Leaves, l # to, NEW z \in TrieSlots, ~(l = n /\ z = s0)
      PROVE  leaf'[l].ent[z] = Ent(l, z)
  <2>1. CASE l = n
    BY <1>2, <1>4, <2>1
  <2>2. CASE l # n
    BY <1>2, <1>4, <2>2 DEF Ent
  <2> QED BY <2>1, <2>2
<1>5. RootInv'
  <2>1. 1 \in Leaves
    BY LayersAssumption
  <2>2. leaf'[1].mod # "deleted"
    BY <1>0, <1>1, <1>2, <2>1 DEF RootInv
  <2> QED BY <1>0, <1>1, <1>2, <1>3, <2>1, <2>2 DEF RootInv, In, Path
<1>6. UniqueInv'
  BY <1>0, <1>2, <1>3 DEF UniqueInv, In, Path
<1>7. LayerInv'
  <2> SUFFICES ASSUME NEW l \in Leaves, NEW z \in Slices, leaf'[l].place = "in",
                      leaf'[l].ent[<<z, "more">>].kind = "layer",
                      NEW r, r = leaf'[l].ent[<<z, "more">>].to
               PROVE  /\ leaf'[r].place = "in" /\ Leads(leaf'[l].path, leaf'[r].path, Len(leaf'[r].path))
                      /\ leaf'[r].path[Len(leaf'[r].path)] = z
    BY DEF LayerInv, In, Path, Ent
  <2>1. In(l) /\ l # to /\ <<z, "more">> \in TrieSlots /\ ~(l = n /\ <<z, "more">> = s0)
    BY <1>2, <1>3, MoreSlot
  <2>2. Ent(l, <<z, "more">>).kind = "layer" /\ r = Ent(l, <<z, "more">>).to /\ r \in Leaves
    <3>1. leaf'[l].ent[<<z, "more">>] = Ent(l, <<z, "more">>)
      BY <1>4, <2>1
    <3> QED BY <1>0, <2>1, <3>1, EntType
  <2>3. In(r) /\ Leads(Path(l), Path(r), Len(Path(r))) /\ Path(r)[Len(Path(r))] = z
    BY <1>0, <2>1, <2>2 DEF LayerInv
  <2>4. r # to
    <3> SUFFICES ASSUME r = to PROVE FALSE
      OBVIOUS
    <3>1. Len(Path(l)) = d - 1 /\ (\A i \in 1..(d - 1) : Path(l)[i] = Path(to)[i]) /\ Path(to)[d] = z
      BY <1>1, <2>3 DEF Leads
    <3>2. z = k[d] /\ \A i \in 1..(d - 1) : Path(l)[i] = k[i]
      BY <1>1, <3>1
    <3>3. Same(Path(l), Path(n))
      <4>1. (d - 1) + 1 - 1 = d - 1
        BY <1>1
      <4> QED BY <1>1, <3>1, <3>2, <4>1 DEF Same, Leads
    <3>4. l = n
      BY <1>0, <1>1, <2>1, <3>3 DEF UniqueInv
    <3> QED BY <1>1, <2>1, <3>2, <3>4
  <2> QED BY <1>2, <1>3, <2>2, <2>3, <2>4
<1>8. AboveInv'
  <2> SUFFICES ASSUME NEW l \in Leaves, In(l), l # to, NEW i \in 1..Len(Path(l))
               PROVE  \E r \in Leaves : /\ leaf'[r].place = "in" /\ Leads(Path(r), Path(l), i)
                                        /\ leaf'[r].ent[<<Path(l)[i], "more">>].kind = "layer"
    <3>1. ASSUME NEW l \in Leaves, In(l)', NEW i \in 1..Len(leaf'[l].path) PROVE Above(l, i)'
      <4>1. In(l) /\ l # to
        BY <1>3, <3>1 DEF In
      <4>2. leaf'[l].path = Path(l)
        BY <1>2
      <4>3. PICK r \in Leaves : /\ leaf'[r].place = "in" /\ Leads(Path(r), Path(l), i)
                                /\ leaf'[r].ent[<<Path(l)[i], "more">>].kind = "layer"
        BY <4>1, <4>2
      <4>4. leaf'[r].path = Path(r)
        BY <1>2
      <4> QED BY <4>2, <4>3, <4>4 DEF Above, In, Path, Ent
    <3> QED BY <3>1 DEF AboveInv, Path
  <2>0. Len(Path(l)) \in Nat /\ <<Path(l)[i], "more">> \in TrieSlots
    BY <1>0, PathType, MoreSlot
  <2>1. PICK r \in Leaves : In(r) /\ Leads(Path(r), Path(l), i) /\ Ent(r, <<Path(l)[i], "more">>).kind = "layer"
    BY <1>0 DEF AboveInv, Above
  <2>2. r # to
    BY <1>1, <2>0, <2>1
  <2>3. ~(r = n /\ <<Path(l)[i], "more">> = s0)
    <3> SUFFICES ASSUME r = n, <<Path(l)[i], "more">> = s0 PROVE FALSE
      OBVIOUS
    <3>1. i = d /\ Path(l)[d] = k[d]
      <4>1. i \in Nat /\ i - 1 = d - 1
        BY <1>1, <2>0, <2>1 DEF Leads
      <4>2. i = d
        BY <1>1, <4>1
      <4> QED BY <1>1, <4>2
    <3>2. \A x \in 1..d : Path(l)[x] = k[x]
      <4> SUFFICES ASSUME NEW x \in 1..d PROVE Path(l)[x] = k[x]
        OBVIOUS
      <4>1. CASE x = d
        BY <3>1, <4>1
      <4>2. CASE x # d
        <5>1. x \in 1..(d - 1)
          BY <1>1, <4>2
        <5> QED BY <1>1, <2>1, <3>1, <5>1 DEF Leads
      <4> QED BY <4>1, <4>2
    <3>3. CASE Len(Path(l)) = d
      <4>1. Same(Path(l), Path(to))
        <5>1. d + 1 - 1 = d
          BY <1>1
        <5> QED BY <1>1, <3>2, <3>3, <5>1 DEF Same, Leads
      <4> QED BY <1>0, <1>1, <4>1 DEF UniqueInv
    <3>4. CASE Len(Path(l)) > d
      <4>1. d + 1 \in Nat /\ d + 1 >= 1 /\ Len(Path(l)) >= d + 1 /\ (d + 1) - 1 = d /\ d + 1 \in 1..Len(Path(l))
        BY <1>1, <2>0, <3>4
      <4>2. Leads(Path(to), Path(l), d + 1)
        BY <1>1, <3>2, <4>1 DEF Leads
      <4>3. Ent(to, <<Path(l)[d + 1], "more">>).kind = "layer"
        BY <1>1, <4>1, <4>2, UpperHasLayer
      <4>4. <<Path(l)[d + 1], "more">> \in TrieSlots
        BY <1>0, <4>1, PathType, MoreSlot
      <4> QED BY <1>1, <4>3, <4>4
    <3> QED BY <1>1, <2>0, <3>1, <3>3, <3>4
  <2>4. leaf'[r].ent[<<Path(l)[i], "more">>].kind = "layer" /\ leaf'[r].place = "in"
    BY <1>3, <1>4, <2>0, <2>1, <2>2, <2>3
  <2> QED BY <2>1, <2>4
<1> QED BY <1>5, <1>6, <1>7, <1>8 DEF TrieInv

LEMMA RemoveLayerStep ==
  ASSUME Inv, NEW t \in Threads, RemoveLayer(t)
  PROVE  Inv'
<1> DEFINE o == cur[t]
           n == cur[t].n
           k == cur[t].k
           d == cur[t].d
           to == cur[t].to
           s0 == LayerSlot(t)
           c == [cur[t] EXCEPT !.pc = "unlock"]
<1>0. /\ LayersTypeOK /\ ThreadInv(t) /\ o.pc = "gcremove" /\ cur' = [cur EXCEPT ![t] = c]
      /\ UNCHANGED <<prog, idx, abs, seen>> /\ ContentInv
  BY DEF Inv, RemoveLayer, At, Go
<1>a. o \in CurType /\ o.op = "gc" /\ IsMarked(n, k, d, s0, to) /\ IsRemoved(n, s0, to)
  BY <1>0, MarkedFacts, RemovedFacts
<1>b. callbacks' = Registered(t, leaf'[n])
  BY RemovedFacts DEF RemoveLayer
<1>c. c \in CurType /\ c.pc = "unlock" /\ c.n = n
  BY <1>a DEF CurType, Pcs
<1>d. cur'[t] = c /\ (\A u \in Threads \ {t} : cur'[u] = cur[u]) /\ cur' \in [Threads -> CurType]
  BY <1>0, <1>c DEF LayersTypeOK
<1>e. \A u \in Threads \ {t} : cur[u].pc \in Holding => cur[u].n # n
  BY <1>0 DEF Inv, ApartInv, Holding
<1> HIDE DEF s0
<1>1. /\ n \in Leaves /\ to \in Leaves /\ n # to /\ k \in Seq(Slices) /\ d \in Nat /\ d >= 1 /\ d = Len(k)
      /\ s0 = <<k[d], "more">> /\ s0 \in TrieSlots /\ In(n) /\ In(to)
      /\ leaf[n].mod # "deleted" /\ ~leaf[n].ins /\ leaf[to].mod = "deleted"
      /\ Leads(Path(n), k, d) /\ Leads(Path(to), k, d + 1)
      /\ \A z \in TrieSlots : Ent(to, z).kind = "none"
  BY <1>a DEF IsMarked
<1>2. /\ leaf' \in [Leaves -> LeafType]
      /\ \A l \in Leaves \ {n, to} : leaf'[l] = leaf[l]
      /\ leaf'[n].place = "in" /\ leaf'[n].path = leaf[n].path /\ leaf'[n].lock = leaf[n].lock
      /\ leaf'[n].mod # "deleted" /\ leaf'[n].vi = leaf[n].vi
      /\ leaf'[n].ent[s0] = NoEntry /\ \A z \in TrieSlots \ {s0} : leaf'[n].ent[z] = leaf[n].ent[z]
      /\ leaf'[to].place = "out" /\ leaf'[to].path = leaf[to].path /\ leaf'[to].mod = leaf[to].mod
      /\ leaf'[to].vi = leaf[to].vi /\ leaf'[to].ins = leaf[to].ins /\ leaf'[to].ent = leaf[to].ent
  BY <1>a DEF IsRemoved
<1>3. \A l \in Leaves : leaf'[l].place = "in" <=> In(l) /\ l # to
  BY <1>1, <1>2 DEF In
<1>4. NoEntry.kind = "none" /\ \A z \in TrieSlots : GoodEntry(z, NoEntry)
  BY DEF GoodEntry, NoEntry
<1>5. \A l \in Leaves, z \in TrieSlots : leaf'[l].ent[z] = Ent(l, z) \/ leaf'[l].ent[z] = NoEntry
  <2> SUFFICES ASSUME NEW l \in Leaves, NEW z \in TrieSlots
               PROVE  leaf'[l].ent[z] = Ent(l, z) \/ leaf'[l].ent[z] = NoEntry
    OBVIOUS
  <2>1. CASE l = n
    BY <1>2, <2>1 DEF Ent
  <2>2. CASE l = to
    BY <1>2, <2>2 DEF Ent
  <2>3. CASE l \notin {n, to}
    BY <1>2, <2>3 DEF Ent
  <2> QED BY <2>1, <2>2, <2>3
<1>6. callbacks' \subseteq [prefix : Seq(Slices) \ {<<>>}, wait : SUBSET Threads] /\ CoverInv'
  <2>1. \A l \in Leaves \ {n} : In(l)' => In(l) /\ leaf'[l].path = leaf[l].path /\ leaf'[l].ent = leaf[l].ent
    BY <1>2, <1>3 DEF In
  <2>2. ASSUME NEW l \in Leaves, leaf'[l].place = "in", Same(Path(l), k) PROVE FALSE
    <3>1. Same(Path(to), k)
      BY <1>1 DEF Same
    <3>2. In(l) /\ l # to
      BY <1>3, <2>2
    <3> QED BY <1>1, <2>2, <3>1, <3>2, OneLeaf
  <2>3. o.pc \in Holding
    BY <1>0 DEF Holding
  <2> QED BY <1>2, <1>b, <1>d, <2>1, <2>2, <2>3, RegisteredCover
<1>7. LayersTypeOK'
  BY <1>0, <1>2, <1>6, <1>d DEF LayersTypeOK
<1>8. TrieInv'
  BY <1>a, RemoveLayerTrie
<1>9. EntryInv'
  BY <1>4, <1>5 DEF Inv, EntryInv, Ent
<1>10. EmptyInv'
  <2> SUFFICES ASSUME NEW l \in Leaves
               PROVE  /\ leaf'[l].place \in {"free", "out"} \/ leaf'[l].mod = "deleted" =>
                           \A z \in TrieSlots : leaf'[l].ent[z].kind = "none"
                      /\ leaf'[l].place = "out" => leaf'[l].mod = "deleted"
    BY DEF EmptyInv, Ent
  <2>1. CASE l = n
    BY <1>2, <2>1
  <2>2. CASE l = to
    BY <1>1, <1>2, <2>2 DEF Ent
  <2>3. CASE l \notin {n, to}
    BY <1>2, <2>3 DEF Inv, EmptyInv, Ent
  <2> QED BY <2>1, <2>2, <2>3
<1>11. ContentInv'
  <2> SUFFICES ASSUME NEW l \in Leaves, NEW q \in Keys, NEW e \in 1..Len(q), leaf'[l].place = "in",
                      Leads(leaf'[l].path, q, e)
               PROVE  Right(l, q, e)'
    BY DEF ContentInv, Path, In
  <2>1. In(l) /\ l # to /\ leaf'[l].path = Path(l)
    BY <1>2, <1>3 DEF Path
  <2>2. q \in Seq(Slices) /\ Slot(q, e) \in TrieSlots
    BY LayersAssumption, SlotFacts
  <2>3. CASE l = n /\ Slot(q, e) = s0
    <3>1. e = d
      <4>1. e \in Nat /\ e - 1 = d - 1
        BY <1>1, <2>1, <2>3 DEF Leads
      <4> QED BY <1>1, <4>1
    <3>2. q[d] = k[d] /\ d < Len(q) /\ d + 1 \in 1..Len(q)
      <4>1. Slot(q, d)[1] = k[d] /\ Slot(q, d)[2] = "more"
        BY <1>1, <2>3, <3>1
      <4>2. q[d] = k[d] /\ Len(q) # d
        BY <2>2, <3>1, <4>1, SlotFacts
      <4> QED BY <1>1, <2>2, <3>1, <4>2
    <3>3. Leads(Path(to), q, d + 1)
      <4>1. \A x \in 1..d : k[x] = q[x]
        <5> SUFFICES ASSUME NEW x \in 1..d PROVE k[x] = q[x]
          OBVIOUS
        <5>1. CASE x = d
          BY <3>2, <5>1
        <5>2. CASE x # d
          <6>1. x \in 1..(d - 1)
            BY <1>1, <5>2
          <6> QED BY <1>1, <2>1, <2>3, <3>1, <6>1 DEF Leads
        <5> QED BY <5>1, <5>2
      <4>2. (d + 1) - 1 = d
        BY <1>1
      <4> QED BY <1>1, <4>1, <4>2 DEF Leads
    <3>4. Right(to, q, d + 1) /\ Slot(q, d + 1) \in TrieSlots
      BY <1>0, <1>1, <2>2, <3>2, <3>3, SlotFacts DEF ContentInv
    <3>5. abs[q] = NoValue
      BY <1>1, <3>4 DEF Right
    <3> QED BY <1>0, <1>2, <1>4, <2>3, <3>5 DEF Right, Ent
  <2>4. CASE ~(l = n /\ Slot(q, e) = s0)
    <3>1. leaf'[l].ent[Slot(q, e)] = Ent(l, Slot(q, e))
      <4>1. CASE l = n
        BY <1>2, <2>2, <2>4, <4>1 DEF Ent
      <4>2. CASE l # n
        BY <1>2, <2>1, <4>2 DEF Ent
      <4> QED BY <4>1, <4>2
    <3>2. Right(l, q, e)
      BY <1>0, <2>1 DEF ContentInv
    <3>3. Swapping(l, Slot(q, e)) => Swapping(l, Slot(q, e))'
      BY <1>0, <1>d DEF Swapping, At, Slot_
    <3> QED BY <1>0, <3>1, <3>2, <3>3 DEF Right, Ent
  <2> QED BY <2>3, <2>4
<1>12. ASSUME NEW u \in Threads \ {t} PROVE ThreadInv(u)'
  <2>1. ThreadInv(u) /\ u \in Threads
    BY DEF Inv
  <2>2. Evolves
    <3> SUFFICES ASSUME NEW l \in Leaves, leaf[l].place \in {"in", "out"}
                 PROVE  /\ leaf'[l].path = leaf[l].path /\ leaf'[l].place \in {"in", "out"}
                        /\ leaf[l].place = "out" => leaf'[l].place = "out"
                        /\ leaf[l].mod = "deleted" => leaf'[l].mod = "deleted"
                        /\ leaf[l].vi <= leaf'[l].vi
                        /\ leaf[l].ins /\ ~leaf'[l].ins => leaf[l].vi < leaf'[l].vi
                        /\ leaf'[l].vi = leaf[l].vi =>
                             \A s \in TrieSlots : leaf'[l].ent[s].kind = "layer" => leaf[l].ent[s].kind = "layer"
      BY DEF Evolves
    <3>1. leaf[l].vi \in Nat /\ leaf[l].vi <= leaf[l].vi
      BY <1>0 DEF LayersTypeOK, LeafType
    <3>2. \A z \in TrieSlots : leaf'[l].ent[z].kind = "layer" => leaf[l].ent[z].kind = "layer"
      BY <1>4, <1>5 DEF Ent
    <3>3. CASE l = n
      BY <1>1, <1>2, <3>1, <3>2, <3>3 DEF In
    <3>4. CASE l = to
      BY <1>1, <1>2, <3>1, <3>2, <3>4 DEF In
    <3>5. CASE l \notin {n, to}
      BY <1>2, <3>1, <3>5
    <3> QED BY <3>3, <3>4, <3>5
  <2>3. GoneAbsent
    <3> SUFFICES ASSUME NEW l \in Leaves, In(l), leaf'[l].place = "out", NEW q \in Keys, NEW e \in 1..Len(q),
                        Leads(Path(l), q, e)
                 PROVE  abs[q] = NoValue
      BY DEF GoneAbsent
    <3>1. l = to
      BY <1>3
    <3>2. Slot(q, e) \in TrieSlots
      BY LayersAssumption, SlotFacts
    <3>3. Right(to, q, e)
      BY <1>0, <3>1 DEF ContentInv
    <3> QED BY <1>1, <3>2, <3>3 DEF Right
  <2>4. Spares(u)
    <3>1. cur[u].pc # "idle" /\ cur[u].op # "gc" => abs'[cur[u].k] \in seen'[u]
      BY <1>0, <2>1 DEF ThreadInv, OpInv
    <3>2. cur[u].pc \in Holding => leaf'[cur[u].n] = leaf[cur[u].n]
      <4>1. cur[u].pc \in Holding => leaf[cur[u].n].mod # "deleted"
        BY <2>1 DEF ThreadInv, LockInv
      <4>2. cur[u].n \in Leaves
        BY <1>0, <2>1, CurFacts
      <4> QED BY <1>1, <1>2, <1>e, <4>1, <4>2
    <3>3. cur[u].pc \in Making => \A i \in 1..Len(cur[u].new) : leaf'[cur[u].new[i]] = leaf[cur[u].new[i]]
      <4> SUFFICES ASSUME cur[u].pc \in Making, NEW i \in 1..Len(cur[u].new)
                   PROVE  leaf'[cur[u].new[i]] = leaf[cur[u].new[i]]
        OBVIOUS
      <4>1. cur[u].new[i] \in Leaves /\ leaf[cur[u].new[i]].place = "new"
        BY <1>0, <2>1, NewFacts DEF ThreadInv, MakeInv, TwigInv
      <4> QED BY <1>1, <1>2, <4>1 DEF In
    <3> QED BY <1>0, <1>d, <3>1, <3>2, <3>3 DEF Spares
  <2> QED BY <1>0, <1>7, <2>1, <2>2, <2>3, <2>4, OthersKeep DEF Inv, TrieInv
<1>13. ThreadInv(t)'
  BY <1>0, <1>1, <1>2, <1>a, <1>d, ToUnlock DEF Holding, In
<1>14. ApartInv' /\ OwnedInv'
  <2>1. \A l \in Leaves : leaf'[l].place = "new" => leaf[l].place = "new"
    BY <1>2
  <2> HIDE DEF c
  <2>2. o.pc \in Holding /\ o.pc \notin Making /\ cur'[t].pc \notin Making /\ cur'[t].n = n
    BY <1>0, <1>c, <1>d DEF Holding, Making
  <2> QED BY <1>d, <2>1, <2>2, SameOwners DEF Inv
<1> QED BY <1>6, <1>7, <1>8, <1>9, <1>10, <1>11, <1>12, <1>13, <1>14 DEF Inv

-----------------------------------------------------------------------------
(* The invariant.                                                          *)
LEMMA InitInv ==
  ASSUME TrieInit
  PROVE  Inv
<1> DEFINE Leaf1(p) == [NewLeaf EXCEPT !.place = p]
<1>0. 1 \in Leaves
  BY LayersAssumption
<1>1. ASSUME NEW p \in {"in", "free"}
      PROVE  /\ Leaf1(p) \in LeafType /\ Leaf1(p).place = p /\ Leaf1(p).path = <<>> /\ Leaf1(p).mod = "insert"
             /\ \A s \in TrieSlots : Leaf1(p).ent[s] = NoEntry
  <2>1. [s \in TrieSlots |-> NoEntry] \in [TrieSlots -> Entries]
    BY NoCurType
  <2>2. <<>> \in Seq(Slices)
    OBVIOUS
  <2>3. NewLeaf \in LeafType
    BY <2>1, <2>2 DEF NewLeaf, LeafType
  <2>4. Leaf1(p) \in LeafType
    BY <2>3 DEF LeafType
  <2>5. Leaf1(p).place = p /\ Leaf1(p).path = <<>> /\ Leaf1(p).mod = "insert"
    BY DEF NewLeaf
  <2>6. Leaf1(p).ent = [s \in TrieSlots |-> NoEntry]
    BY DEF NewLeaf
  <2> QED BY <2>4, <2>5, <2>6
<1>2. leaf = [l \in Leaves |-> Leaf1(IF l = 1 THEN "in" ELSE "free")]
  BY DEF TrieInit, EmptyTrie
<1> HIDE DEF Leaf1
<1>3. \A l \in Leaves : /\ leaf[l] \in LeafType /\ leaf[l].place = (IF l = 1 THEN "in" ELSE "free")
                        /\ leaf[l].path = <<>> /\ leaf[l].mod = "insert"
                        /\ \A s \in TrieSlots : leaf[l].ent[s] = NoEntry
  BY <1>1, <1>2
<1>4. \A t \in Threads : cur[t] = NoCur /\ cur[t].pc = "idle" /\ cur[t].op = "get"
  BY DEF TrieInit, EmptyTrie, NoCur
<1>5. LayersTypeOK
  <2>1. leaf \in [Leaves -> LeafType]
    BY <1>2, <1>3
  <2>2. cur \in [Threads -> CurType]
    BY NoCurType DEF TrieInit, EmptyTrie
  <2>3. prog \in [Threads -> Seq(SUBSET Ops)]
    BY LayersAssumption DEF TrieInit
  <2>4. abs \in [Keys -> Held] /\ seen \in [Threads -> SUBSET Held] /\ idx \in [Threads -> Nat]
        /\ callbacks = {}
    BY DEF TrieInit, EmptyTrie, Held
  <2> QED BY <2>1, <2>2, <2>3, <2>4 DEF LayersTypeOK
<1>6. NoEntry.kind = "none" /\ Len(<<>>) = 0
  BY DEF NoEntry
<1>7. TrieInv
  <2>1. RootInv
    BY <1>0, <1>3, <1>6 DEF RootInv, In, Path
  <2>2. UniqueInv
    BY <1>3 DEF UniqueInv, In
  <2>3. LayerInv
    BY <1>3, <1>6, MoreSlot DEF LayerInv, Ent
  <2>4. AboveInv
    <3>1. \A l \in Leaves : Path(l) = <<>>
      BY <1>3 DEF Path
    <3> QED BY <1>6, <3>1 DEF AboveInv
  <2> QED BY <2>1, <2>2, <2>3, <2>4 DEF TrieInv
<1>8. EntryInv /\ EmptyInv
  BY <1>3, <1>6 DEF EntryInv, EmptyInv, Ent, GoodEntry
<1>9. ContentInv
  <2> SUFFICES ASSUME NEW l \in Leaves, NEW k \in Keys, NEW d \in 1..Len(k) PROVE Right(l, k, d)
    BY DEF ContentInv
  <2>1. Slot(k, d) \in TrieSlots
    BY LayersAssumption, SlotFacts
  <2>2. abs[k] = NoValue
    BY DEF TrieInit, EmptyTrie
  <2> QED BY <1>3, <1>6, <2>1, <2>2 DEF Right, Ent
<1>10. \A t \in Threads : ThreadInv(t)
  <2> SUFFICES ASSUME NEW t \in Threads PROVE ThreadInv(t)
    OBVIOUS
  <2>1. OpInv(t)
    BY <1>4 DEF OpInv
  <2>2. StandInv(t)
    BY <1>4 DEF StandInv, Search
  <2>3. VersionInv(t)
    BY <1>4 DEF VersionInv
  <2>4. LockInv(t)
    BY <1>4 DEF LockInv, Holding, Unmarked
  <2>5. MakeInv(t) /\ OldInv(t)
    BY <1>4 DEF MakeInv, OldInv, Making
  <2> QED BY <2>1, <2>2, <2>3, <2>4, <2>5 DEF ThreadInv
<1>11. ApartInv /\ OwnedInv
  BY <1>3, <1>4 DEF ApartInv, OwnedInv, Holding, Making
<1>12. CoverInv
  BY <1>3 DEF CoverInv, In
<1> QED BY <1>5, <1>7, <1>8, <1>9, <1>10, <1>11, <1>12 DEF Inv

LEMMA StutterStep ==
  ASSUME Inv, UNCHANGED trieVars
  PROVE  Inv'
<1>0. /\ leaf' = leaf /\ cur' = cur /\ prog' = prog /\ idx' = idx /\ abs' = abs /\ seen' = seen
      /\ callbacks' = callbacks
  BY DEF trieVars
<1>1. LayersTypeOK'
  BY <1>0 DEF Inv, LayersTypeOK
<1>2. TrieInv'
  BY <1>0 DEF Inv, TrieInv, RootInv, UniqueInv, LayerInv, AboveInv, Above, In, Path, Ent
<1>3. EntryInv' /\ EmptyInv'
  BY <1>0 DEF Inv, EntryInv, EmptyInv, Ent
<1>4. ContentInv'
  BY <1>0, SameContent DEF Inv
<1>5. ASSUME NEW t \in Threads PROVE ThreadInv(t)'
  <2>1. Evolves
    BY <1>0 DEF Inv, LayersTypeOK, LeafType, Evolves
  <2>2. GoneAbsent
    BY <1>0 DEF GoneAbsent, In
  <2>3. ThreadInv(t) /\ OpInv(t)
    BY DEF Inv, ThreadInv
  <2>4. Spares(t)
    BY <1>0, <2>3 DEF Spares, OpInv
  <2> QED BY <1>1, <2>1, <2>2, <2>3, <2>4, OthersKeep DEF Inv, TrieInv
<1>6. ApartInv' /\ OwnedInv' /\ CoverInv'
  BY <1>0 DEF Inv, ApartInv, OwnedInv, CoverInv, Covered, In, Path, Ent
<1> QED BY <1>1, <1>2, <1>3, <1>4, <1>5, <1>6 DEF Inv

\* Every step of every thread keeps the invariant.
LEMMA NextInv ==
  ASSUME Inv, [TrieNext]_trieVars
  PROVE  Inv'
<1>1. CASE UNCHANGED trieVars
  BY <1>1, StutterStep
<1>2. ASSUME NEW t \in Threads, Begin(t) \/ Step(t) \/ RunCallback(t) PROVE Inv'
  <2>1. CASE Begin(t)
    BY <2>1, BeginStep
  <2>2. CASE RunCallback(t)
    BY <2>2, RunCallbackStep
  <2>3. CASE Reach(t) \/ ReadEntry(t) \/ Validate(t) \/ TryLayer(t) \/ LockLeaf(t)
    BY <2>3, ReachStep, ReadEntryStep, ValidateStep, TryLayerStep, LockLeafStep
  <2>4. CASE Put(t) \/ FinishRemove(t) \/ UnlockLeaf(t) \/ Return(t)
    BY <2>4, PutStep, FinishRemoveStep, UnlockStep, ReturnStep
  <2>5. CASE MakeLayer(t) \/ SwapLayer(t) \/ LayerMade(t) \/ PublishInLayer(t)
    BY <2>5, MakeLayerStep, SwapLayerStep, LayerMadeStep, PublishInLayerStep
  <2>6. CASE GcLayer(t) \/ KillLayer(t) \/ RemoveLayer(t)
    BY <2>6, GcLayerStep, KillLayerStep, RemoveLayerStep
  <2> QED BY <1>2, <2>1, <2>2, <2>3, <2>4, <2>5, <2>6 DEF Step
<1> QED BY <1>1, <1>2 DEF TrieNext

\* The invariant holds in every state.
THEOREM LayersInv == TrieSpec => []Inv
<1>1. TrieInit => Inv
  BY InitInv
<1>2. Inv /\ [TrieNext]_trieVars => Inv'
  BY NextInv
<1> QED BY <1>1, <1>2, PTL DEF TrieSpec

\* Leaves and threads keep their shape, whatever the threads, keys and
\* programs are.
THEOREM LayersTypes == TrieSpec => []LayersTypeOK
<1>1. Inv => LayersTypeOK
  BY DEF Inv
<1> QED BY <1>1, LayersInv, PTL

\* find_unlocked: a get that moves through layers while they are made and
\* collected returns what its key held at some time while it ran.
THEOREM LayerGetsCurrent == TrieSpec => []LayerGetsAreCurrent
<1>1. Inv => LayerGetsAreCurrent
  BY DEF Inv, ThreadInv, OpInv, LayerGetsAreCurrent, At
<1> QED BY <1>1, LayersInv, PTL

\* finish_remove and gc_layer: with nothing under way and no callback left,
\* no entry leads to an empty layer, because every emptied layer has had a
\* callback of its prefix until it was collected or used again.
THEOREM LayersCollected == TrieSpec => []NoEmptyLayer
<1>1. ASSUME Inv PROVE NoEmptyLayer
  <2> SUFFICES ASSUME callbacks = {}, \A t \in Threads : cur[t].pc = "idle",
                      NEW l \in Leaves, NEW s \in TrieSlots, Ent(l, s).kind = "layer",
                      InUse(leaf[Ent(l, s).to]) = {}
               PROVE  FALSE
    BY DEF NoEmptyLayer, InUse, Ent, At
  <2> DEFINE m == Ent(l, s).to
  <2>0. LayersTypeOK /\ LayerInv /\ RootInv
    BY <1>1 DEF Inv, TrieInv
  <2>1. m \in Leaves /\ Len(Path(m)) \in Nat
    BY <2>0, EntType, PathType
  <2>2. In(l)
    <3>1. leaf[l].place \notin {"free", "out"}
      BY <1>1 DEF Inv, EmptyInv
    <3>2. leaf[l].place # "new"
      BY <1>1 DEF Inv, OwnedInv, Making
    <3>3. leaf[l].place \in {"free", "new", "in", "out"}
      BY <2>0 DEF LayersTypeOK, LeafType
    <3> QED BY <3>1, <3>2, <3>3 DEF In
  <2>3. s = <<s[1], "more">> /\ s[1] \in Slices
    BY <1>1 DEF Inv, EntryInv, GoodEntry, TrieSlots
  <2>4. In(m) /\ Leads(Path(l), Path(m), Len(Path(m)))
    BY <2>0, <2>2, <2>3 DEF LayerInv
  <2>5. m # 1
    <3>1. Len(Path(l)) \in Nat /\ Len(Path(l)) = Len(Path(m)) - 1
      BY <2>0, <2>4, PathType DEF Leads
    <3>2. Len(Path(m)) # 0
      BY <2>1, <3>1
    <3> QED BY <2>0, <3>2 DEF RootInv
  <2>6. \A z \in TrieSlots : Ent(m, z).kind = "none"
    BY DEF InUse, Ent
  <2>7. Covered(Path(m))
    BY <1>1, <2>1, <2>4, <2>5, <2>6 DEF Inv, CoverInv
  <2> QED BY <2>7 DEF Covered, Collects, Search
<1>2. Inv => NoEmptyLayer
  BY <1>1
<1> QED BY <1>2, LayersInv, PTL

\* What the lowest leaf on a key's path has for it.
LEMMA LowestShows ==
  ASSUME Inv, NEW k \in Keys, NEW d \in 1..Len(k), NEW l \in Leaves, In(l), Leads(Path(l), k, d),
         Ent(l, Slot(k, d)).kind # "layer"
  PROVE  Shows(l, k, d) \in {abs[k], Torn}
<1> DEFINE e == Ent(l, Slot(k, d))
<1>0. k \in Seq(Slices) /\ Slot(k, d) \in TrieSlots
  BY LayersAssumption, SlotFacts
<1>1. e.kind \in {"none", "value", "layer"} /\ Right(l, k, d)
  BY <1>0, EntType DEF Inv, ContentInv
<1>2. Swapping(l, Slot(k, d)) => e.val = Torn
  <2> SUFFICES ASSUME NEW u \in Threads, cur[u].pc = "swapped", cur[u].n = l, Slot_(u) = Slot(k, d)
               PROVE  e.val = Torn
    BY DEF Swapping, At
  <2>1. LockInv(u)
    BY DEF Inv, ThreadInv
  <2>2. Entry(u) = Value(cur[u].e.suf, Torn)
    BY <2>1 DEF LockInv
  <2> QED BY <2>2 DEF Entry, Ent, Value
<1>3. Shows(l, k, d) = IF e.kind = "value" /\ e.suf = Suffix(k, d) THEN e.val ELSE NoValue
  BY DEF Shows, Ent
<1> QED BY <1>1, <1>2, <1>3 DEF Right

\* find_insert, make_new_layer and gc_layer: no put is lost in a layer that
\* is made or collected.  A descent from the root by any key ends at a leaf
\* that has what was put last, or an entry on its way to a layer.
THEOREM NothingIsLost == TrieSpec => []NothingLost
<1>1. ASSUME Inv PROVE NothingLost
  <2> SUFFICES ASSUME NEW k \in Keys
               PROVE  \E d \in 1..Len(k) : \E p \in [1..d -> Leaves] :
                        /\ Descends(k, p) /\ leaf[p[d]].ent[Slot(k, d)].kind # "layer"
                        /\ Shows(p[d], k, d) \in {abs[k], Torn}
    BY DEF NothingLost
  <2> DEFINE On(l, i) == In(l) /\ Leads(Path(l), k, i)
             T == {x \in Nat : \E i \in 1..Len(k) : x = Len(k) - i /\ \E l \in Leaves : On(l, i)}
             Nth(i) == CHOOSE l \in Leaves : On(l, i)
  <2>0. /\ LayersTypeOK /\ RootInv /\ UniqueInv /\ AboveInv /\ EntryInv
        /\ k \in Seq(Slices) /\ Len(k) \in Nat /\ Len(k) >= 1 /\ 1 \in Leaves
    BY <1>1, LayersAssumption, EmptySeq DEF Inv, TrieInv
  <2>1. On(1, 1) /\ 1 \in 1..Len(k)
    BY <2>0 DEF RootInv, Leads
  <2>2. \A l, m \in Leaves, i \in Nat : i >= 1 /\ On(l, i) /\ On(m, i) => l = m
    <3> SUFFICES ASSUME NEW l \in Leaves, NEW m \in Leaves, NEW i \in Nat, i >= 1, On(l, i), On(m, i)
                 PROVE  l = m
      OBVIOUS
    <3>1. Same(Path(l), Path(m))
      <4>1. Len(Path(m)) + 1 - 1 = i - 1
        BY DEF Leads
      <4> QED BY <4>1 DEF Same, Leads
    <3> QED BY <2>0, <3>1 DEF UniqueInv
  <2>3. PICK d \in 1..Len(k), l \in Leaves :
          On(l, d) /\ \A i \in 1..Len(k), m \in Leaves : On(m, i) => i <= d
    <3> HIDE DEF On
    <3>1. Len(k) - 1 \in T
      BY <2>0, <2>1
    <3>2. PICK x \in T : \A y \in T : x <= y
      <4>1. T \in SUBSET Nat /\ T # {}
        BY <3>1
      <4> HIDE DEF T
      <4> QED BY <4>1, Least
    <3>3. PICK d \in 1..Len(k) : x = Len(k) - d /\ \E l \in Leaves : On(l, d)
      BY <3>2
    <3>4. PICK l \in Leaves : On(l, d)
      BY <3>3
    <3>5. ASSUME NEW i \in 1..Len(k), NEW m \in Leaves, On(m, i) PROVE i <= d
      <4>1. Len(k) - i \in T
        BY <2>0, <3>5
      <4>2. Len(k) - d <= Len(k) - i
        BY <3>2, <3>3, <4>1
      <4> QED BY <2>0, <4>2
    <3> QED BY <3>4, <3>5
  <2>4. d \in Nat /\ d >= 1 /\ d <= Len(k) /\ Len(Path(l)) = d - 1 /\ \A x \in 1..(d - 1) : Path(l)[x] = k[x]
    BY <2>0, <2>3 DEF Leads
  <2>5. ASSUME NEW i \in 1..d PROVE Nth(i) \in Leaves /\ On(Nth(i), i)
    <3>1. \E m \in Leaves : On(m, i)
      <4>1. CASE i = d
        BY <2>3, <4>1
      <4>2. CASE i # d
        <5>1. i \in 1..Len(Path(l)) /\ \A x \in 1..(i - 1) : x \in 1..(d - 1)
          BY <2>4, <4>2
        <5>2. PICK m \in Leaves : In(m) /\ Leads(Path(m), Path(l), i)
          BY <2>0, <2>3, <5>1 DEF AboveInv, Above
        <5>3. Leads(Path(m), k, i)
          BY <2>4, <5>1, <5>2 DEF Leads
        <5> QED BY <5>2, <5>3
      <4> QED BY <4>1, <4>2
    <3> HIDE DEF On
    <3> QED BY <3>1
  <2> HIDE DEF Nth
  <2> DEFINE p == [i \in 1..d |-> Nth(i)]
  <2>6. p \in [1..d -> Leaves] /\ Len(p) = d /\ \A i \in 1..d : p[i] = Nth(i)
    BY <2>4, <2>5
  <2> HIDE DEF p
  <2>7. p[1] = 1
    <3>1. 1 \in 1..d /\ 1 \in Nat
      BY <2>4
    <3>2. Nth(1) \in Leaves /\ On(Nth(1), 1)
      BY <2>5, <3>1
    <3>3. Nth(1) = 1
      BY <2>0, <2>1, <2>2, <3>2
    <3> QED BY <2>6, <3>1, <3>3
  <2>8. ASSUME NEW i \in 1..(d - 1) PROVE leaf[p[i]].ent[Slot(k, i)] = Layer(p[i + 1])
    <3> DEFINE n == p[i]
               e == Ent(n, Slot(k, i))
    <3>1. /\ i \in 1..d /\ i + 1 \in 1..d /\ i \in 1..Len(k) /\ i < Len(k) /\ i \in Nat /\ i >= 1
          /\ Len(Path(l)) >= i /\ \A x \in 1..i : x \in 1..(d - 1)
      BY <2>4
    <3>2. n \in Leaves /\ On(n, i) /\ p[i + 1] \in Leaves /\ On(p[i + 1], i + 1)
      BY <2>5, <2>6, <3>1
    <3>3. \A x \in 1..i : Path(l)[x] = k[x]
      BY <2>4, <3>1
    <3>4. Ent(n, <<k[i], "more">>).kind = "layer"
      BY <1>1, <2>3, <3>1, <3>2, <3>3, UpperHasLayer
    <3>5. Slot(k, i) = <<k[i], "more">> /\ Slot(k, i) \in TrieSlots
      BY <2>0, <3>1, SlotFacts
    <3>6. e.to \in Leaves /\ On(e.to, i + 1)
      BY <1>1, <2>0, <3>1, <3>2, <3>4, <3>5, Below
    <3>7. e.to = p[i + 1]
      <4>1. i + 1 \in Nat /\ i + 1 >= 1
        BY <3>1
      <4> HIDE DEF On
      <4> QED BY <2>2, <3>2, <3>6, <4>1
    <3>8. e = Layer(e.to)
      BY <2>0, <3>2, <3>4, <3>5 DEF EntryInv, GoodEntry
    <3> QED BY <3>7, <3>8 DEF Ent
  <2>9. Descends(k, p)
    BY <2>6, <2>7, <2>8 DEF Descends
  <2>10. p[d] \in Leaves /\ On(p[d], d)
    BY <2>4, <2>5, <2>6
  <2>11. Ent(p[d], Slot(k, d)).kind # "layer"
    <3> SUFFICES ASSUME Ent(p[d], Slot(k, d)).kind = "layer" PROVE FALSE
      OBVIOUS
    <3> DEFINE m == Ent(p[d], Slot(k, d)).to
    <3>1. Slot(k, d) \in TrieSlots
      BY <2>0, SlotFacts
    <3>2. m \in Leaves /\ On(m, d + 1) /\ d < Len(k)
      BY <1>1, <2>0, <2>10, <3>1, Below
    <3>3. d + 1 \in 1..Len(k)
      BY <2>4, <3>2
    <3>4. d + 1 <= d
      BY <2>3, <3>2, <3>3
    <3> QED BY <2>4, <3>4
  <2>12. Shows(p[d], k, d) \in {abs[k], Torn}
    BY <1>1, <2>10, <2>11, LowestShows
  <2> QED BY <2>6, <2>9, <2>11, <2>12 DEF Ent
<1>2. Inv => NothingLost
  BY <1>1
<1> QED BY <1>2, LayersInv, PTL
=============================================================================
