-------------------------- MODULE RcuLimbo_proofs --------------------------
(***************************************************************************)
(* Proofs about RcuLimbo.tla for any number of threads and addresses, any  *)
(* sizes of superpages and groups and any count.                           *)
(*                                                                         *)
(* An object is in at most one place: the tree, one position of one pool,  *)
(* or one position of one limbo list (Places).  What a thread may hold,    *)
(* and what the checkpoint needs, is in the tree or was removed in an      *)
(* epoch that is not over for everybody.  The limbo list does not have the *)
(* epoch of an object, only of the elements behind an epoch; R is a        *)
(* function that has it, and F the epoch of the last flush.  That such a   *)
(* pair exists is a part of the invariant (Ages, Protected).               *)
(***************************************************************************)
EXTENDS RcuLimbo, TLAPS

\* The objects in a list of groups.
ObjectsOf(c) ==
  {o \in Addresses : \E k \in 1..Len(c) : \E i \in Used(c[k]) : c[k].e_[i].ptr_ = o}

\* No object is in two positions of a list of groups.
Once(c) ==
  \A k, m \in 1..Len(c) : \A i \in Used(c[k]) : \A j \in Used(c[m]) :
    c[k].e_[i].ptr_ = c[m].e_[j].ptr_ /\ c[k].e_[i].ptr_ # NullPtr => k = m /\ i = j

\* The order of a thread's groups, and where a loop that cleans stands.
Shape ==
  \A t \in Threads :
    /\ limbo_tail_[t] \in 1..Len(chain[t])
    /\ Cleaning(t) => chain[t][1].head_ # chain[t][1].tail_
    /\ \A k \in 1..Len(chain[t]) : chain[t][k].head_ <= chain[t][k].tail_

\* An object is in one place at most, and below the bump pointer.
Places ==
  /\ \A t, u \in Threads :
       /\ t # u => /\ ToSet(pool_[t]) \cap ToSet(pool_[u]) = {}
                   /\ ObjectsOf(chain[t]) \cap ObjectsOf(chain[u]) = {}
       /\ ToSet(pool_[t]) \cap ObjectsOf(chain[u]) = {}
       /\ ToSet(pool_[t]) \cap held[u] = {}
  /\ \A t \in Threads :
       /\ IsInjective(pool_[t]) /\ Once(chain[t])
       /\ ToSet(pool_[t]) \cap live = {} /\ ToSet(pool_[t]) \cap ckpt = {}
       /\ ObjectsOf(chain[t]) \cap live = {}
       /\ \A o \in ToSet(pool_[t]) \cup ObjectsOf(chain[t]) \cup held[t] : o < nvm_free_addr
  /\ \A o \in live : o < nvm_free_addr
  /\ \A o \in ckpt : o < nfree

\* The epochs of threads that have not stopped are the active one or later.
Clocks ==
  \A t \in Threads :
    /\ gc_epoch_[t] # 0 => active_epoch <= gc_epoch_[t] /\ gc_epoch_[t] <= globalepoch
    /\ gc_epoch_[t] = 0 => held[t] = {} /\ ~Cleaning(t) /\ t \notin flushing
    /\ Cleaning(t) => held[t] = {} /\ t \notin flushing
    /\ Cleaning(t) => gc[t].epoch <= gc[t].epoch_bound /\ gc[t].epoch_bound < active_epoch

\* The epoch that an element stands for.
Age(x, R) == IF x.ptr_ = NullPtr THEN x.epoch ELSE R[x.ptr_]

\* An object is as old as the element before it, and the last element as old
\* as the group says.
AgedGroup(g, R) ==
  \A i \in Used(g) :
    /\ g.head_ < i /\ g.e_[i].ptr_ # NullPtr => Age(g.e_[i - 1], R) = R[g.e_[i].ptr_]
    /\ i + 1 = g.tail_ => Age(g.e_[i], R) = g.epoch_

Ages(R) ==
  \A t \in Threads :
    /\ \A k \in 1..Len(chain[t]) : AgedGroup(chain[t][k], R)
    /\ Cleaning(t) /\ HeadElement(t).ptr_ # NullPtr => R[HeadElement(t).ptr_] = gc[t].epoch

\* What is held or in the checkpoint is in the tree or not old enough.
Protected(R, F) ==
  /\ \A t \in Threads : \A o \in held[t] : o \in live \/ gc_epoch_[t] <= R[o]
  /\ \A o \in ckpt : o \in live \/ F <= R[o]
  /\ F <= globalepoch /\ (flushing = {} => F = globalepoch)
  /\ \A t \in flushing : gc_epoch_[t] <= F

Inv ==
  /\ TypeOK /\ Shape /\ GroupsInOrder /\ Places /\ Clocks
  /\ \E R \in [Addresses -> Nat] : \E F \in Nat : Ages(R) /\ Protected(R, F)

\* The objects of d are objects of c, their groups moved by s, and the first
\* element of c is not among them.
Drops(c, d, s) ==
  \A k \in 1..Len(d) : \A i \in Used(d[k]) : d[k].e_[i].ptr_ # NullPtr =>
    /\ k + s \in 1..Len(c) /\ i \in Used(c[k + s])
    /\ d[k].e_[i].ptr_ = c[k + s].e_[i].ptr_
    /\ ~(k + s = 1 /\ i = c[1].head_)

\* The groups of a list, lt being the one that is filled.
Ordered(d, lt, R) ==
  \A k \in 1..Len(d) :
    /\ d[k].head_ <= d[k].tail_ /\ AgedGroup(d[k], R)
    /\ k > lt => d[k].head_ = 0 /\ d[k].tail_ = 0
    /\ 1 < k /\ k <= lt => d[k].head_ # d[k].tail_
    /\ d[k].head_ # d[k].tail_ /\ k # 1 => d[k].e_[d[k].head_].ptr_ = NullPtr

-----------------------------------------------------------------------------
(* Pools *)

\* The elements of a sequence.
LEMMA ToSetIs == ASSUME NEW S, NEW p \in Seq(S)
  PROVE /\ ToSet(p) = {p[i] : i \in 1..Len(p)} /\ ToSet(p) \subseteq S
        /\ IsInjective(p) <=> \A i, j \in 1..Len(p) : p[i] = p[j] => i = j
<1>1. DOMAIN p = 1..Len(p) /\ \A i \in 1..Len(p) : p[i] \in S
  OBVIOUS
<1>. QED  BY <1>1 DEF ToSet, IsInjective

\* pool_allocate takes the first object.
LEMMA PoolTail ==
  ASSUME NEW S, NEW p \in Seq(S), p # <<>>, IsInjective(p)
  PROVE  /\ Tail(p) \in Seq(S) /\ IsInjective(Tail(p)) /\ ToSet(Tail(p)) \subseteq ToSet(p)
         /\ Head(p) \in ToSet(p) /\ Head(p) \notin ToSet(Tail(p))
<1>1. /\ Tail(p) \in Seq(S) /\ Len(p) \in Nat \ {0} /\ Len(Tail(p)) = Len(p) - 1
      /\ \A i \in 1..(Len(p) - 1) : Tail(p)[i] = p[i + 1]
      /\ Head(p) = p[1]
  OBVIOUS
<1>2. \A i, j \in 1..Len(p) : p[i] = p[j] => i = j
  BY ToSetIs
<1>3. /\ ToSet(p) = {p[i] : i \in 1..Len(p)}
      /\ ToSet(Tail(p)) = {Tail(p)[i] : i \in 1..Len(Tail(p))}
  <2>1. ToSet(p) = {p[i] : i \in 1..Len(p)}
    BY ToSetIs
  <2>2. \A q \in Seq(S) : ToSet(q) = {q[i] : i \in 1..Len(q)}
    BY ToSetIs
  <2>. QED  BY <1>1, <2>1, <2>2
<1>4. \A i, j \in 1..Len(Tail(p)) : Tail(p)[i] = Tail(p)[j] => i = j
  BY <1>1, <1>2
<1>5. IsInjective(Tail(p))
  BY <1>1, <1>4, ToSetIs
<1>6. ToSet(Tail(p)) \subseteq ToSet(p) /\ Head(p) \in ToSet(p)
  BY <1>1, <1>3
<1>7. Head(p) \notin ToSet(Tail(p))
  BY <1>1, <1>2, <1>3
<1>. QED  BY <1>1, <1>5, <1>6, <1>7

\* free_rcu puts an object in front.
LEMMA PoolPush ==
  ASSUME NEW S, NEW p \in Seq(S), IsInjective(p), NEW o \in S, o \notin ToSet(p)
  PROVE  <<o>> \o p \in Seq(S) /\ IsInjective(<<o>> \o p) /\ ToSet(<<o>> \o p) = ToSet(p) \cup {o}
<1>. DEFINE q == <<o>> \o p
<1>1. /\ q \in Seq(S) /\ Len(p) \in Nat /\ Len(q) = Len(p) + 1 /\ q[1] = o
      /\ \A i \in 2..Len(q) : q[i] = p[i - 1]
      /\ \A i \in 1..Len(p) : q[i + 1] = p[i]
  OBVIOUS
<1>. HIDE DEF q
<1>2. /\ ToSet(p) = {p[i] : i \in 1..Len(p)} /\ ToSet(q) = {q[i] : i \in 1..Len(q)}
      /\ \A i, j \in 1..Len(p) : p[i] = p[j] => i = j
  BY <1>1, ToSetIs
<1>3. \A i, j \in 1..Len(q) : q[i] = q[j] => i = j
  <2>1. \A i \in 2..Len(q) : q[i] # o
    BY <1>1, <1>2
  <2>2. \A i, j \in 2..Len(q) : q[i] = q[j] => i = j
    BY <1>1, <1>2, SMTT(20)
  <2>. QED  BY <1>1, <2>1, <2>2
<1>4. ToSet(q) = ToSet(p) \cup {o}
  <2>1. \A x \in ToSet(q) : x = o \/ x \in ToSet(p)
    BY <1>1, <1>2
  <2>2. \A x \in ToSet(p) : x \in ToSet(q)
    BY <1>1, <1>2
  <2>3. o \in ToSet(q)
    BY <1>1, <1>2
  <2>. QED  BY <2>1, <2>2, <2>3
<1>5. IsInjective(q)
  BY <1>1, <1>3, ToSetIs
<1>. QED  BY <1>1, <1>4, <1>5 DEF q

\* What a concatenation holds.
LEMMA Concat ==
  ASSUME NEW S, NEW a \in Seq(S), NEW b \in Seq(S)
  PROVE  /\ a \o b \in Seq(S) /\ Len(a \o b) = Len(a) + Len(b)
         /\ \A j \in 1..Len(a) : (a \o b)[j] = a[j]
         /\ \A j \in (Len(a) + 1)..(Len(a) + Len(b)) : (a \o b)[j] = b[j - Len(a)]
  OBVIOUS

\* Which element stands where when one moves to the front.
LEMMA Moved ==
  ASSUME NEW S, NEW p \in Seq(S), NEW i \in 2..Len(p)
  PROVE  LET q == <<p[i]>> \o RemoveAt(p, i)
         IN /\ q \in Seq(S) /\ Len(q) = Len(p) /\ q[1] = p[i]
            /\ \A j \in 2..i : q[j] = p[j - 1]
            /\ \A j \in (i + 1)..Len(p) : q[j] = p[j]
<1>. DEFINE front == SubSeq(p, 1, i - 1)
            back == SubSeq(p, i + 1, Len(p))
            r == front \o back
            q == <<p[i]>> \o r
<1>1. /\ front \in Seq(S) /\ Len(front) = i - 1
      /\ \A j \in 1..(i - 1) : front[j] = p[j]
  OBVIOUS
<1>2. /\ back \in Seq(S) /\ Len(back) = Len(p) - i
      /\ \A j \in 1..(Len(p) - i) : back[j] = p[i + j]
  OBVIOUS
<1>. HIDE DEF front, back
<1>3. /\ r \in Seq(S) /\ Len(r) = Len(p) - 1
      /\ \A j \in 1..(i - 1) : r[j] = p[j]
      /\ \A j \in i..(Len(p) - 1) : r[j] = p[j + 1]
  <2>1. Len(p) \in Nat /\ i \in Nat
    OBVIOUS
  <2>2. /\ r \in Seq(S) /\ Len(r) = Len(front) + Len(back)
        /\ \A j \in 1..Len(front) : r[j] = front[j]
        /\ \A j \in (Len(front) + 1)..(Len(front) + Len(back)) : r[j] = back[j - Len(front)]
    BY <1>1, <1>2, Concat
  <2>. HIDE DEF r
  <2>3. ASSUME NEW j \in i..(Len(p) - 1) PROVE r[j] = p[j + 1]
    <3>1. j \in Nat /\ j - (i - 1) \in 1..(Len(p) - i) /\ i + (j - (i - 1)) = j + 1
          /\ j \in (Len(front) + 1)..(Len(front) + Len(back))
      BY <1>1, <1>2, <2>1
    <3>2. r[j] = back[j - (i - 1)]
      BY <1>1, <2>2, <3>1
    <3>. QED  BY <1>2, <3>1, <3>2
  <2>4. Len(r) = Len(p) - 1
    BY <1>1, <1>2, <2>1, <2>2
  <2>. QED  BY <1>1, <2>2, <2>3, <2>4
<1>. HIDE DEF r
<1>4. p[i] \in S /\ Len(p) \in Nat
  OBVIOUS
<1>5. /\ q \in Seq(S) /\ Len(q) = Len(p) /\ q[1] = p[i]
      /\ \A j \in 2..Len(p) : q[j] = r[j - 1]
  BY <1>3, <1>4
<1>. HIDE DEF q
<1>6. \A j \in 2..i : j \in 2..Len(p) /\ j - 1 \in 1..(i - 1)
  OBVIOUS
<1>7. \A j \in (i + 1)..Len(p) : j \in 2..Len(p) /\ j - 1 \in i..(Len(p) - 1) /\ (j - 1) + 1 = j
  BY <1>4
<1>8. /\ q \in Seq(S) /\ Len(q) = Len(p) /\ q[1] = p[i]
      /\ \A j \in 2..i : q[j] = p[j - 1]
      /\ \A j \in (i + 1)..Len(p) : q[j] = p[j]
  BY <1>3, <1>5, <1>6, <1>7
<1>. QED  BY <1>8 DEF q, r, front, back, RemoveAt

\* pool_deallocate of an object the thread took before: another order.
LEMMA PoolMoved ==
  ASSUME NEW S, NEW p \in Seq(S), IsInjective(p), NEW i \in 2..Len(p)
  PROVE  LET q == <<p[i]>> \o RemoveAt(p, i)
         IN q \in Seq(S) /\ IsInjective(q) /\ ToSet(q) \subseteq ToSet(p)
<1>. DEFINE q == <<p[i]>> \o RemoveAt(p, i)
<1>1. /\ q \in Seq(S) /\ Len(q) = Len(p) /\ q[1] = p[i]
      /\ \A j \in 2..i : q[j] = p[j - 1]
      /\ \A j \in (i + 1)..Len(p) : q[j] = p[j]
  BY Moved
<1>. HIDE DEF q
<1>2. /\ ToSet(p) = {p[j] : j \in 1..Len(p)} /\ ToSet(q) = {q[j] : j \in 1..Len(q)}
      /\ \A j, k \in 1..Len(p) : p[j] = p[k] => j = k
      /\ Len(p) \in Nat
  <2>1. ToSet(q) = {q[j] : j \in 1..Len(q)}
    BY <1>1, ToSetIs
  <2>2. ToSet(p) = {p[j] : j \in 1..Len(p)} /\ \A j, k \in 1..Len(p) : p[j] = p[k] => j = k
    BY ToSetIs
  <2>. QED  BY <2>1, <2>2
<1>3. \A j \in 1..Len(q) : j = 1 \/ j \in 2..i \/ j \in (i + 1)..Len(p)
  BY <1>1, <1>2
<1>. DEFINE from(j) == IF j = 1 THEN i ELSE IF j <= i THEN j - 1 ELSE j
<1>7. \A j \in 1..Len(q) : from(j) \in 1..Len(p) /\ q[j] = p[from(j)]
  BY <1>1, <1>2, <1>3
<1>8. \A j, k \in 1..Len(q) : from(j) = from(k) => j = k
  BY <1>2
<1>. HIDE DEF from
<1>4. \A j, k \in 1..Len(q) : q[j] = q[k] => j = k
  BY <1>2, <1>7, <1>8
<1>5. ToSet(q) \subseteq ToSet(p)
  BY <1>2, <1>7
<1>6. IsInjective(q)
  BY <1>1, <1>4, ToSetIs
<1>. QED  BY <1>1, <1>5, <1>6 DEF q

\* initialize_pool links the units of a superpage once each.
LEMMA UnitsOf ==
  ASSUME RcuAssumption, NEW a \in Nat \ {0}, a + Superpage - 1 <= LastAddress
  PROVE  /\ Units(a) \in Seq(Addresses) /\ Units(a) # <<>> /\ IsInjective(Units(a))
         /\ \A o \in ToSet(Units(a)) : a <= o /\ o < a + Superpage
<1>1. /\ Superpage \in Nat \ {0}
      /\ \A i \in 1..Superpage : a + (i - 1) \in Addresses
  BY DEF RcuAssumption, Addresses
<1>2. Units(a) \in Seq(Addresses) /\ Len(Units(a)) = Superpage
      /\ \A i \in 1..Superpage : Units(a)[i] = a + (i - 1)
  BY <1>1 DEF Units
<1>3. ToSet(Units(a)) = {Units(a)[i] : i \in 1..Superpage}
  BY <1>2, ToSetIs
<1>4. IsInjective(Units(a))
  <2>1. \A i, j \in 1..Superpage : Units(a)[i] = Units(a)[j] => i = j
    BY <1>1, <1>2
  <2>. QED  BY <1>2, <2>1, ToSetIs
<1>5. Units(a) # <<>>
  BY <1>1, <1>2
<1>6. \A o \in ToSet(Units(a)) : a <= o /\ o < a + Superpage
  BY <1>1, <1>2, <1>3
<1>. QED  BY <1>2, <1>4, <1>5, <1>6

-----------------------------------------------------------------------------
(* Limbo groups *)

\* The fields of a group.
LEMMA GroupFields ==
  ASSUME RcuAssumption, NEW g \in Groups
  PROVE  /\ g.head_ \in 0..Capacity /\ g.tail_ \in 0..Capacity /\ g.epoch_ \in Epochs
         /\ g.e_ \in [Slots -> Elements]
         /\ \A i \in Slots : g.e_[i].ptr_ \in Addresses \cup {NullPtr} /\ g.e_[i].epoch \in Epochs
<1>1. /\ g.head_ \in 0..Capacity /\ g.tail_ \in 0..Capacity /\ g.epoch_ \in Epochs
      /\ g.e_ \in [Slots -> Elements]
  BY DEF Groups
<1>2. \A x \in Elements : x.ptr_ \in Addresses \cup {NullPtr} /\ x.epoch \in Epochs
  BY DEF Elements
<1>. QED  BY <1>1, <1>2

\* What is in the slots in use.
LEMMA ElementsOf ==
  ASSUME RcuAssumption
  PROVE  /\ Nothing \in Elements
         /\ \A e \in Epochs : Epoch(e) \in Elements /\ Epoch(e).ptr_ = NullPtr /\ Epoch(e).epoch = e
         /\ \A o \in Addresses : Object(o) \in Elements /\ Object(o).ptr_ = o
<1>1. 0 \in Epochs
  BY DEF Epochs, RcuAssumption
<1>. QED  BY <1>1 DEF Nothing, Epoch, Object, Elements

\* A new group.
LEMMA EmptyGroupIs ==
  ASSUME RcuAssumption
  PROVE  EmptyGroup \in Groups /\ EmptyGroup.head_ = 0 /\ EmptyGroup.tail_ = 0 /\ Used(EmptyGroup) = {}
<1>1. Nothing \in Elements /\ 0 \in Epochs /\ 0 \in 0..Capacity
  BY ElementsOf DEF Epochs, RcuAssumption
<1>2. EmptyGroup.head_ = 0 /\ EmptyGroup.tail_ = 0
  BY DEF EmptyGroup
<1>3. EmptyGroup \in Groups
  BY <1>1 DEF EmptyGroup, Groups
<1>4. Used(EmptyGroup) = {}
  BY <1>2 DEF Used, Slots, RcuAssumption
<1>. QED  BY <1>2, <1>3, <1>4

\* push_back: the object is the last element, an epoch may stand before it.
LEMMA PushedIs ==
  ASSUME RcuAssumption, NEW g \in Groups, NEW o \in Addresses, NEW ep \in Epochs,
         g.head_ <= g.tail_, Room(g)
  PROVE  LET h == Pushed(g, o, ep)
         IN /\ h \in Groups /\ h.head_ = g.head_ /\ h.epoch_ = ep
            /\ h.tail_ = g.tail_ + 1 \/ h.tail_ = g.tail_ + 2
            /\ h.tail_ - 1 \in Used(h) /\ h.e_[h.tail_ - 1].ptr_ = o
            /\ \A i \in Used(g) : i \in Used(h) /\ h.e_[i] = g.e_[i]
            /\ \A i \in Used(h) : i \in Used(g) \/ i = g.tail_ \/ i = g.tail_ + 1
            /\ h.tail_ = g.tail_ + 1 => g.head_ < g.tail_ /\ g.epoch_ = ep
            /\ h.tail_ = g.tail_ + 2 => h.e_[g.tail_] = Epoch(ep)
<1>. DEFINE new == g.head_ = g.tail_ \/ g.epoch_ # ep
            at == IF new THEN g.tail_ + 1 ELSE g.tail_
            e == [i \in Slots |-> IF i = at THEN Object(o)
                                  ELSE IF i = g.tail_ THEN Epoch(ep) ELSE g.e_[i]]
            h == [g EXCEPT !.e_ = e, !.tail_ = at + 1, !.epoch_ = ep]
<1>1. Pushed(g, o, ep) = h
  BY DEF Pushed
<1>2. /\ g.head_ \in 0..Capacity /\ g.tail_ \in 0..Capacity /\ g.tail_ + 2 <= Capacity
      /\ g.e_ \in [Slots -> Elements] /\ Capacity \in Nat
  BY GroupFields DEF Room, RcuAssumption
<1>3. /\ at \in Slots /\ g.tail_ \in Slots /\ at + 1 \in 0..Capacity
      /\ at = g.tail_ \/ at = g.tail_ + 1
      /\ at = g.tail_ <=> ~new
  BY <1>2 DEF Slots
<1>. HIDE DEF new, at
<1>4. e \in [Slots -> Elements]
  BY <1>2, ElementsOf
<1>5. e[at] = Object(o) /\ (at # g.tail_ => e[g.tail_] = Epoch(ep))
      /\ \A i \in Slots : i < g.tail_ => e[i] = g.e_[i]
  BY <1>2, <1>3 DEF Slots
<1>. HIDE DEF e
<1>6. h.head_ = g.head_ /\ h.tail_ = at + 1 /\ h.epoch_ = ep /\ h.e_ = e
  BY DEF Groups
<1>7. h \in Groups
  BY <1>3, <1>4 DEF Groups
<1>. HIDE DEF h
<1>8. h.tail_ - 1 \in Used(h) /\ h.e_[h.tail_ - 1].ptr_ = o
  BY <1>2, <1>3, <1>5, <1>6, ElementsOf DEF Used
<1>9. \A i \in Used(g) : i \in Used(h) /\ h.e_[i] = g.e_[i]
  BY <1>2, <1>3, <1>5, <1>6 DEF Used, Slots
<1>10. \A i \in Used(h) : i \in Used(g) \/ i = g.tail_ \/ i = g.tail_ + 1
  BY <1>2, <1>3, <1>6 DEF Used, Slots
<1>11. h.tail_ = g.tail_ + 1 => g.head_ < g.tail_ /\ g.epoch_ = ep
  BY <1>2, <1>3, <1>6 DEF new
<1>12. h.tail_ = g.tail_ + 2 => h.e_[g.tail_] = Epoch(ep)
  BY <1>2, <1>3, <1>5, <1>6
<1>13. h.tail_ = g.tail_ + 1 \/ h.tail_ = g.tail_ + 2
  BY <1>2, <1>3, <1>6
<1>. QED  BY <1>1, <1>6, <1>7, <1>8, <1>9, <1>10, <1>11, <1>12, <1>13

\* ++head_ of clean_until
LEMMA AdvancedIs ==
  ASSUME RcuAssumption, NEW g \in Groups, g.head_ < g.tail_
  PROVE  LET h == Advanced(g)
         IN /\ h \in Groups /\ h.head_ <= h.tail_
            /\ g.head_ \in Used(g)
            /\ \A i \in Used(h) : i \in Used(g) /\ i # g.head_ /\ h.e_[i] = g.e_[i]
            /\ h.head_ = h.tail_ => h = EmptyGroup
            /\ h.head_ # h.tail_ =>
                 /\ h.head_ = g.head_ + 1 /\ h.tail_ = g.tail_ /\ h.epoch_ = g.epoch_
                 /\ h.head_ \in Used(h)
<1>1. /\ g.head_ \in 0..Capacity /\ g.tail_ \in 0..Capacity
      /\ g.e_ \in [Slots -> Elements] /\ Capacity \in Nat
  BY GroupFields DEF RcuAssumption
<1>2. g.head_ \in Used(g) /\ g.head_ \in Slots
  BY <1>1 DEF Used, Slots
<1>3. CASE g.head_ + 1 = g.tail_
  <2>1. Advanced(g) = EmptyGroup
    BY <1>3 DEF Advanced
  <2>. QED  BY <1>2, <2>1, EmptyGroupIs
<1>4. CASE g.head_ + 1 # g.tail_
  <2>. DEFINE e == [g.e_ EXCEPT ![g.head_] = Nothing]
              h == [g EXCEPT !.head_ = @ + 1, !.e_ = e]
  <2>1. Advanced(g) = h
    BY <1>4 DEF Advanced
  <2>2. e \in [Slots -> Elements] /\ \A i \in Slots : i # g.head_ => e[i] = g.e_[i]
    BY <1>1, <1>2, ElementsOf
  <2>. HIDE DEF e
  <2>3. h.head_ = g.head_ + 1 /\ h.tail_ = g.tail_ /\ h.epoch_ = g.epoch_ /\ h.e_ = e
    BY DEF Groups
  <2>4. h \in Groups
    <3>1. g.head_ + 1 \in 0..Capacity
      BY <1>1
    <3>. QED  BY <2>2, <3>1 DEF Groups
  <2>. HIDE DEF h
  <2>5. h.head_ < h.tail_ /\ h.head_ \in Used(h)
    BY <1>1, <1>4, <2>3 DEF Used, Slots
  <2>6. \A i \in Used(h) : i \in Used(g) /\ i # g.head_ /\ h.e_[i] = g.e_[i]
    BY <1>1, <2>2, <2>3 DEF Used, Slots
  <2>. QED  BY <1>1, <1>2, <2>1, <2>3, <2>4, <2>5, <2>6
<1>. QED  BY <1>3, <1>4

-----------------------------------------------------------------------------
(* Lists of groups *)

\* What is left when elements go, the first of the list among them, and the
\* groups move by s.
LEMMA Shrunk ==
  ASSUME RcuAssumption, NEW c \in Seq(Groups), NEW d \in Seq(Groups), NEW s \in Nat, Once(c),
         1 <= Len(c), c[1].head_ \in Used(c[1]),
         Drops(c, d, s)
  PROVE  /\ Once(d) /\ ObjectsOf(d) \subseteq ObjectsOf(c)
         /\ c[1].e_[c[1].head_].ptr_ \notin ObjectsOf(d)
<1>1. \A o \in Addresses : o # NullPtr
  BY DEF Addresses, NullPtr, RcuAssumption
<1>2. Once(d)
  <2>. SUFFICES ASSUME NEW k \in 1..Len(d), NEW m \in 1..Len(d),
                       NEW i \in Used(d[k]), NEW j \in Used(d[m]),
                       d[k].e_[i].ptr_ = d[m].e_[j].ptr_, d[k].e_[i].ptr_ # NullPtr
                PROVE  k = m /\ i = j
    BY DEF Once
  <2>1. /\ k + s \in 1..Len(c) /\ i \in Used(c[k + s]) /\ m + s \in 1..Len(c) /\ j \in Used(c[m + s])
        /\ c[k + s].e_[i].ptr_ = c[m + s].e_[j].ptr_ /\ c[k + s].e_[i].ptr_ # NullPtr
    BY DEF Drops
  <2>2. k + s = m + s /\ i = j
    <3>. DEFINE p == k + s
                q == m + s
    <3>1. /\ p \in 1..Len(c) /\ i \in Used(c[p]) /\ q \in 1..Len(c) /\ j \in Used(c[q])
          /\ c[p].e_[i].ptr_ = c[q].e_[j].ptr_ /\ c[p].e_[i].ptr_ # NullPtr
      BY <2>1
    <3>. HIDE DEF p, q
    <3>2. p = q /\ i = j
      BY <3>1 DEF Once
    <3>. QED  BY <3>2 DEF p, q
  <2>. QED  BY <2>2
<1>3. ObjectsOf(d) \subseteq ObjectsOf(c)
  BY <1>1 DEF ObjectsOf, Drops
<1>4. c[1].e_[c[1].head_].ptr_ \notin ObjectsOf(d)
  <2>. SUFFICES ASSUME NEW k \in 1..Len(d), NEW i \in Used(d[k]),
                       c[1].e_[c[1].head_].ptr_ \in Addresses,
                       d[k].e_[i].ptr_ = c[1].e_[c[1].head_].ptr_
                PROVE  FALSE
    BY DEF ObjectsOf
  <2>1. d[k].e_[i].ptr_ # NullPtr
    BY <1>1
  <2>2. k + s \in 1..Len(c) /\ i \in Used(c[k + s]) /\ c[k + s].e_[i].ptr_ = c[1].e_[c[1].head_].ptr_
        /\ c[k + s].e_[i].ptr_ # NullPtr /\ ~(k + s = 1 /\ i = c[1].head_)
    BY <2>1 DEF Drops
  <2>3. 1 \in 1..Len(c)
    OBVIOUS
  <2>. QED  BY <2>2, <2>3 DEF Once
<1>. QED  BY <1>2, <1>3, <1>4

\* push_back to one of the groups
LEMMA PushedList ==
  ASSUME RcuAssumption, NEW c \in Seq(Groups), NEW k \in 1..Len(c), NEW o \in Addresses,
         NEW ep \in Epochs, c[k].head_ <= c[k].tail_, Room(c[k]), Once(c), o \notin ObjectsOf(c)
  PROVE  LET d == [c EXCEPT ![k] = Pushed(c[k], o, ep)]
         IN /\ d \in Seq(Groups) /\ Len(d) = Len(c) /\ d[k] = Pushed(c[k], o, ep)
            /\ \A m \in 1..Len(c) : m # k => d[m] = c[m]
            /\ Once(d) /\ ObjectsOf(d) \subseteq ObjectsOf(c) \cup {o}
<1>. DEFINE h == Pushed(c[k], o, ep)
            d == [c EXCEPT ![k] = h]
<1>1. c[k] \in Groups /\ Len(c) \in Nat
  OBVIOUS
<1>2. /\ h \in Groups /\ h.head_ = c[k].head_
      /\ h.tail_ = c[k].tail_ + 1 \/ h.tail_ = c[k].tail_ + 2
      /\ h.e_[h.tail_ - 1].ptr_ = o
      /\ \A i \in Used(h) : i \in Used(c[k]) \/ i = c[k].tail_ \/ i = c[k].tail_ + 1
      /\ \A i \in Used(c[k]) : h.e_[i] = c[k].e_[i]
      /\ h.tail_ = c[k].tail_ + 2 => h.e_[c[k].tail_] = Epoch(ep)
  BY <1>1, PushedIs
<1>. HIDE DEF h
<1>3. /\ d \in Seq(Groups) /\ Len(d) = Len(c) /\ d[k] = h
      /\ \A m \in 1..Len(c) : m # k => d[m] = c[m]
  BY <1>2
<1>. HIDE DEF d
<1>4. \A i \in Used(h) : h.e_[i].ptr_ # NullPtr =>
        i = h.tail_ - 1 \/ (i \in Used(c[k]) /\ h.e_[i].ptr_ = c[k].e_[i].ptr_)
  <2>1. c[k].tail_ \in Nat /\ h.tail_ \in Nat /\ Epoch(ep).ptr_ = NullPtr
    BY <1>1, <1>2, GroupFields, ElementsOf
  <2>. QED  BY <1>2, <2>1 DEF Used
<1>5. \A m \in 1..Len(d) : \A i \in Used(d[m]) : d[m].e_[i].ptr_ # NullPtr =>
        \/ m = k /\ i = h.tail_ - 1 /\ d[m].e_[i].ptr_ = o
        \/ i \in Used(c[m]) /\ d[m].e_[i].ptr_ = c[m].e_[i].ptr_ /\ c[m].e_[i].ptr_ # o
  <2>. SUFFICES ASSUME NEW m \in 1..Len(d), NEW i \in Used(d[m]), d[m].e_[i].ptr_ # NullPtr,
                       ~(m = k /\ i = h.tail_ - 1)
                PROVE  i \in Used(c[m]) /\ d[m].e_[i].ptr_ = c[m].e_[i].ptr_ /\ c[m].e_[i].ptr_ # o
    BY <1>2, <1>3
  <2>1. m \in 1..Len(c) /\ i \in Used(c[m]) /\ d[m].e_[i].ptr_ = c[m].e_[i].ptr_
    BY <1>3, <1>4
  <2>. QED  BY <2>1 DEF ObjectsOf
<1>6. Once(d)
  <2>. SUFFICES ASSUME NEW m \in 1..Len(d), NEW n \in 1..Len(d),
                       NEW i \in Used(d[m]), NEW j \in Used(d[n]),
                       d[m].e_[i].ptr_ = d[n].e_[j].ptr_, d[m].e_[i].ptr_ # NullPtr
                PROVE  m = n /\ i = j
    BY DEF Once
  <2>1. CASE d[m].e_[i].ptr_ = o
    BY <1>5, <2>1
  <2>2. CASE d[m].e_[i].ptr_ # o
    BY <1>3, <1>5, <2>2 DEF Once
  <2>. QED  BY <2>1, <2>2
<1>7. ObjectsOf(d) \subseteq ObjectsOf(c) \cup {o}
  <2>1. \A x \in Addresses : x # NullPtr
    BY DEF Addresses, NullPtr, RcuAssumption
  <2>. QED  BY <1>3, <1>5, <2>1 DEF ObjectsOf
<1>. QED  BY <1>3, <1>6, <1>7 DEF d, h

\* refill_rcu: a new group has no objects.
LEMMA AppendedList ==
  ASSUME RcuAssumption, NEW c \in Seq(Groups), Once(c)
  PROVE  LET d == Append(c, EmptyGroup)
         IN /\ d \in Seq(Groups) /\ Len(d) = Len(c) + 1 /\ d[Len(d)] = EmptyGroup
            /\ \A k \in 1..Len(c) : d[k] = c[k]
            /\ Once(d) /\ ObjectsOf(d) = ObjectsOf(c)
<1>. DEFINE d == Append(c, EmptyGroup)
<1>1. /\ d \in Seq(Groups) /\ Len(d) = Len(c) + 1 /\ d[Len(d)] = EmptyGroup
      /\ \A k \in 1..Len(c) : d[k] = c[k]
      /\ Len(c) \in Nat
  BY EmptyGroupIs
<1>. HIDE DEF d
<1>2. \A k \in 1..Len(d) : Used(d[k]) # {} => k \in 1..Len(c) /\ d[k] = c[k]
  BY <1>1, EmptyGroupIs
<1>3. Once(d)
  <2>. SUFFICES ASSUME NEW k \in 1..Len(d), NEW m \in 1..Len(d),
                       NEW i \in Used(d[k]), NEW j \in Used(d[m]),
                       d[k].e_[i].ptr_ = d[m].e_[j].ptr_, d[k].e_[i].ptr_ # NullPtr
                PROVE  k = m /\ i = j
    BY DEF Once
  <2>1. k \in 1..Len(c) /\ d[k] = c[k] /\ m \in 1..Len(c) /\ d[m] = c[m]
    BY <1>2
  <2>. QED  BY <2>1 DEF Once
<1>4. ObjectsOf(d) = ObjectsOf(c)
  BY <1>1, <1>2 DEF ObjectsOf
<1>. QED  BY <1>1, <1>3, <1>4 DEF d

\* The first group goes and an empty one comes to the end.
LEMMA RotatedList ==
  ASSUME NEW c \in Seq(Groups), c # <<>>, NEW g \in Groups
  PROVE  /\ Append(Tail(c), g) \in Seq(Groups) /\ Len(Append(Tail(c), g)) = Len(c)
         /\ \A k \in 1..(Len(c) - 1) : Append(Tail(c), g)[k] = c[k + 1]
         /\ Append(Tail(c), g)[Len(c)] = g
<1>1. Tail(c) \in Seq(Groups) /\ Len(Tail(c)) = Len(c) - 1 /\ Len(c) \in Nat \ {0}
  OBVIOUS
<1>2. \A k \in 1..(Len(c) - 1) : Tail(c)[k] = c[k + 1]
  OBVIOUS
<1>. QED  BY <1>1, <1>2

-----------------------------------------------------------------------------
(* Ages *)

\* Ages do not depend on what R says of other objects.
LEMMA AgedOther ==
  ASSUME RcuAssumption, NEW g \in Groups, NEW R \in [Addresses -> Nat], AgedGroup(g, R),
         NEW o \in Addresses, NEW ep \in Nat, \A i \in Used(g) : g.e_[i].ptr_ # o, g.head_ <= g.tail_
  PROVE  AgedGroup(g, [R EXCEPT ![o] = ep])
<1>. DEFINE S == [R EXCEPT ![o] = ep]
<1>1. \A x \in Addresses \cup {NullPtr} : x # o /\ x # NullPtr => S[x] = R[x]
  OBVIOUS
<1>2. \A i \in Used(g) : /\ g.e_[i].ptr_ \in Addresses \cup {NullPtr} /\ g.e_[i].ptr_ # o
                         /\ g.head_ < i => i - 1 \in Used(g)
  <2>1. g.head_ \in Nat /\ g.tail_ \in Nat /\ Capacity \in Nat
    BY GroupFields DEF RcuAssumption
  <2>2. \A i \in Used(g) : i \in Slots
    BY DEF Used
  <2>3. \A i \in Used(g) : g.head_ < i => i - 1 \in Used(g)
    BY <2>1 DEF Used, Slots
  <2>. QED  BY <2>2, <2>3, GroupFields
<1>. HIDE DEF S
<1>3. \A i \in Used(g) : Age(g.e_[i], S) = Age(g.e_[i], R)
  BY <1>1, <1>2 DEF Age
<1>4. AgedGroup(g, S)
  BY <1>1, <1>2, <1>3 DEF AgedGroup
<1>. QED  BY <1>4 DEF S

\* push_back keeps the ages.
LEMMA AgedPushed ==
  ASSUME RcuAssumption, NEW g \in Groups, NEW R \in [Addresses -> Nat], AgedGroup(g, R),
         NEW o \in Addresses, NEW ep \in Epochs, \A i \in Used(g) : g.e_[i].ptr_ # o,
         g.head_ <= g.tail_, Room(g)
  PROVE  AgedGroup(Pushed(g, o, ep), [R EXCEPT ![o] = ep])
<1>. DEFINE S == [R EXCEPT ![o] = ep]
            h == Pushed(g, o, ep)
<1>1. /\ h \in Groups /\ h.head_ = g.head_ /\ h.epoch_ = ep
      /\ h.tail_ = g.tail_ + 1 \/ h.tail_ = g.tail_ + 2
      /\ h.e_[h.tail_ - 1].ptr_ = o
      /\ \A i \in Used(g) : i \in Used(h) /\ h.e_[i] = g.e_[i]
      /\ \A i \in Used(h) : i \in Used(g) \/ i = g.tail_ \/ i = g.tail_ + 1
      /\ h.tail_ = g.tail_ + 1 => g.head_ < g.tail_ /\ g.epoch_ = ep
      /\ h.tail_ = g.tail_ + 2 => h.e_[g.tail_] = Epoch(ep)
  BY PushedIs
<1>2. ep \in Nat /\ S[o] = ep /\ o # NullPtr /\ Epoch(ep).ptr_ = NullPtr /\ Epoch(ep).epoch = ep
  BY ElementsOf DEF Epochs, Addresses, NullPtr, RcuAssumption
<1>3. AgedGroup(g, S)
  BY <1>2, AgedOther
<1>4. g.head_ \in Nat /\ g.tail_ \in Nat /\ h.tail_ \in 0..Capacity /\ Capacity \in Nat
  BY <1>1, GroupFields DEF RcuAssumption
<1>. HIDE DEF S, h
<1>5. ASSUME NEW i \in Used(h), i + 1 = h.tail_
      PROVE  Age(h.e_[i], S) = h.epoch_
  <2>1. i = h.tail_ - 1
    BY <1>4, <1>5 DEF Used, Slots
  <2>. QED  BY <1>1, <1>2, <2>1 DEF Age
<1>6. ASSUME NEW i \in Used(h), h.head_ < i, h.e_[i].ptr_ # NullPtr
      PROVE  Age(h.e_[i - 1], S) = S[h.e_[i].ptr_]
  <2>0. i \in Nat
    BY DEF Used, Slots
  <2>1. CASE i \in Used(g)
    <3>1. i - 1 \in Used(g)
      BY <1>1, <1>4, <1>6, <2>1 DEF Used, Slots
    <3>. QED  BY <1>1, <1>3, <1>6, <2>1, <3>1 DEF AgedGroup
  <2>2. CASE i \notin Used(g) /\ h.tail_ = g.tail_ + 1
    <3>1. i = g.tail_
      BY <1>1, <1>4, <2>0, <2>2 DEF Used
    <3>2. g.tail_ - 1 \in Used(g) /\ (g.tail_ - 1) + 1 = g.tail_
      BY <1>1, <1>4, <2>2 DEF Used, Slots
    <3>3. Age(g.e_[g.tail_ - 1], S) = g.epoch_
      BY <1>3, <3>2 DEF AgedGroup
    <3>. QED  BY <1>1, <1>2, <1>4, <2>2, <3>1, <3>2, <3>3
  <2>3. CASE i \notin Used(g) /\ h.tail_ = g.tail_ + 2
    <3>1. i = g.tail_ + 1
      BY <1>1, <1>2, <1>4, <1>6, <2>0, <2>3
    <3>2. h.e_[i - 1] = Epoch(ep) /\ h.e_[i].ptr_ = o
      BY <1>1, <1>4, <2>3, <3>1
    <3>. QED  BY <1>2, <3>2 DEF Age
  <2>. QED  BY <1>1, <2>1, <2>2, <2>3
<1>7. AgedGroup(h, S)
  BY <1>5, <1>6 DEF AgedGroup
<1>. QED  BY <1>7 DEF S, h

\* The loop keeps the ages, and the next object is as old as the last element.
LEMMA AgedAdvanced ==
  ASSUME RcuAssumption, NEW g \in Groups, NEW R \in [Addresses -> Nat], AgedGroup(g, R),
         g.head_ < g.tail_
  PROVE  /\ AgedGroup(Advanced(g), R)
         /\ LET h == Advanced(g)
            IN h.head_ # h.tail_ /\ h.e_[h.head_].ptr_ # NullPtr =>
                 R[h.e_[h.head_].ptr_] = Age(g.e_[g.head_], R)
<1>. DEFINE h == Advanced(g)
<1>1. /\ h \in Groups /\ h.head_ <= h.tail_
      /\ \A i \in Used(h) : i \in Used(g) /\ i # g.head_ /\ h.e_[i] = g.e_[i]
      /\ h.head_ = h.tail_ => h = EmptyGroup
      /\ h.head_ # h.tail_ =>
           /\ h.head_ = g.head_ + 1 /\ h.tail_ = g.tail_ /\ h.epoch_ = g.epoch_
           /\ h.head_ \in Used(h)
  BY AdvancedIs
<1>2. g.head_ \in Nat /\ g.tail_ \in Nat /\ h.head_ \in Nat /\ h.tail_ \in Nat /\ Capacity \in Nat
  BY <1>1, GroupFields DEF RcuAssumption
<1>. HIDE DEF h
<1>3. CASE h.head_ = h.tail_
  <2>1. AgedGroup(h, R)
    BY <1>1, <1>3, EmptyGroupIs DEF AgedGroup
  <2>. QED  BY <1>3, <2>1 DEF h
<1>4. CASE h.head_ # h.tail_
  <2>1. \A i \in Used(h) : h.head_ < i => i - 1 \in Used(h)
    BY <1>2 DEF Used, Slots
  <2>2. \A i \in Used(h) : h.head_ < i => g.head_ < i
    BY <1>1, <1>2, <1>4 DEF Used, Slots
  <2>3. AgedGroup(h, R)
    BY <1>1, <1>4, <2>1, <2>2 DEF AgedGroup
  <2>4. h.head_ \in Used(g) /\ g.head_ < h.head_ /\ h.head_ - 1 = g.head_
    BY <1>1, <1>2, <1>4
  <2>. QED  BY <1>1, <1>4, <2>3, <2>4 DEF AgedGroup, h
<1>. QED  BY <1>3, <1>4 DEF h

-----------------------------------------------------------------------------
(* The invariant at the start and after a failure: no lists, no pools *)

Fresh ==
  /\ globalepoch \in Epochs \ {0} /\ active_epoch = globalepoch /\ flushing = {}
  /\ chain = [t \in Threads |-> <<EmptyGroup>>] /\ limbo_tail_ = [t \in Threads |-> 1]
  /\ gc_epoch_ = [t \in Threads |-> globalepoch] /\ perform_gc_epoch_ = [t \in Threads |-> 0]
  /\ gc = [t \in Threads |-> Idle] /\ pool_ = [t \in Threads |-> <<>>]
  /\ nvm_free_addr \in 1..(LastAddress + 1) /\ nfree = nvm_free_addr
  /\ ckpt \subseteq Addresses /\ live = ckpt /\ (\A o \in ckpt : o < nfree)
  /\ held = [t \in Threads |-> {}]

\* The invariant of a start, the first or one after a failure.
LEMMA FreshInv == RcuAssumption /\ Fresh => Inv
<1>. SUFFICES ASSUME RcuAssumption, Fresh PROVE Inv
  OBVIOUS
<1>. DEFINE e == globalepoch
<1>. USE DEF Fresh
<1>1. /\ Capacity \in Nat /\ FreeCount \in Nat \ {0} /\ LastAddress \in Nat /\ MaxEpoch \in Nat
      /\ e \in Nat \ {0} /\ e \in Epochs /\ 0 \in Epochs
  BY DEF RcuAssumption, Epochs
<1>2. /\ EmptyGroup \in Groups /\ EmptyGroup.head_ = 0 /\ EmptyGroup.tail_ = 0
      /\ Used(EmptyGroup) = {}
  BY EmptyGroupIs
<1>3. \A t \in Threads : /\ chain[t] = <<EmptyGroup>> /\ Len(chain[t]) = 1 /\ chain[t][1] = EmptyGroup
                         /\ limbo_tail_[t] = 1 /\ gc_epoch_[t] = e /\ gc[t] = Idle
                         /\ pool_[t] = <<>> /\ held[t] = {} /\ ~Cleaning(t)
  <2>1. Idle.count = 0
    BY DEF Idle
  <2>. QED  BY <2>1 DEF Cleaning
<1>4. TypeOK
  <2>1. <<EmptyGroup>> \in Seq(Groups)
    BY <1>2
  <2>2. Idle \in Locals
    BY <1>1 DEF Idle, Locals
  <2>3. /\ chain \in [Threads -> Seq(Groups)] /\ limbo_tail_ \in [Threads -> Nat \ {0}]
        /\ gc_epoch_ \in [Threads -> Epochs] /\ perform_gc_epoch_ \in [Threads -> Epochs]
        /\ gc \in [Threads -> Locals]
    BY <1>1, <2>1, <2>2
  <2>4. pool_ \in [Threads -> Seq(Addresses)] /\ held \in [Threads -> SUBSET Addresses]
    OBVIOUS
  <2>5. nfree \in 1..nvm_free_addr /\ globalepoch \in Epochs \ {0} /\ active_epoch \in 1..globalepoch
    BY <1>1
  <2>. QED  BY <2>3, <2>4, <2>5 DEF TypeOK
<1>5. Shape /\ GroupsInOrder
  BY <1>1, <1>2, <1>3 DEF Shape, GroupsInOrder
<1>6. Places
  <2>1. \A t \in Threads : ObjectsOf(chain[t]) = {} /\ Once(chain[t])
    BY <1>2, <1>3 DEF ObjectsOf, Once
  <2>2. \A t \in Threads : ToSet(pool_[t]) = {} /\ IsInjective(pool_[t])
    BY <1>3 DEF ToSet, IsInjective
  <2>. QED  BY <1>3, <2>1, <2>2 DEF Places
<1>7. Clocks
  BY <1>1, <1>3 DEF Clocks
<1>8. [o \in Addresses |-> 0] \in [Addresses -> Nat]
  OBVIOUS
<1>9. \A R \in [Addresses -> Nat] : Ages(R) /\ Protected(R, e)
  <2>. SUFFICES ASSUME NEW R \in [Addresses -> Nat] PROVE Ages(R) /\ Protected(R, e)
    OBVIOUS
  <2>1. Ages(R)
    BY <1>2, <1>3 DEF Ages, AgedGroup
  <2>2. Protected(R, e)
    BY <1>1, <1>3 DEF Protected
  <2>. QED  BY <2>1, <2>2
<1>10. \E R \in [Addresses -> Nat] : \E F \in Nat : Ages(R) /\ Protected(R, F)
  BY <1>1, <1>8, <1>9
<1>. QED  BY <1>4, <1>5, <1>6, <1>7, <1>10 DEF Inv

-----------------------------------------------------------------------------
(* The invariant *)

\* The first start.
LEMMA InitInv == ASSUME RcuAssumption, Init PROVE Inv
<1>1. 1 \in Epochs \ {0} /\ 1 \in 1..(LastAddress + 1)
  BY DEF Epochs, RcuAssumption
<1>2. Fresh
  BY <1>1 DEF Init, Fresh
<1>. QED  BY <1>2, FreshInv

\* A failure: the objects of the checkpoint are below the bump pointer that the
\* memory has.
LEMMA CrashInv == ASSUME RcuAssumption, Inv, Crash PROVE Inv'
<1>1. Fresh'
  <2>1. /\ globalepoch' = globalepoch + 1 /\ globalepoch <= MaxEpoch
        /\ globalepoch \in Epochs \ {0} /\ MaxEpoch \in Nat
        /\ nvm_free_addr \in 1..(LastAddress + 1) /\ nfree \in 1..nvm_free_addr /\ LastAddress \in Nat
        /\ ckpt \subseteq Addresses
    BY DEF Crash, Inv, TypeOK, RcuAssumption
  <2>2. globalepoch' \in Epochs \ {0} /\ nfree \in 1..(LastAddress + 1)
    BY <2>1 DEF Epochs
  <2>3. \A o \in ckpt : o < nfree
    BY DEF Inv, Places
  <2>. QED  BY <2>1, <2>2, <2>3 DEF Crash, Fresh
<1>2. RcuAssumption'
  BY DEF RcuAssumption
<1>. QED  BY <1>1, <1>2, FreshInv, PTL

\* pool_allocate: the object was in no other place.
LEMMA AllocateInv == ASSUME RcuAssumption, Inv, NEW t \in Threads, Allocate(t) PROVE Inv'
<1>. DEFINE p == Refilled(t)
<1>1. /\ pool_[t] = <<>> => CanGrow
      /\ nvm_free_addr' = IF pool_[t] = <<>> THEN nvm_free_addr + Superpage ELSE nvm_free_addr
      /\ pool_' = [pool_ EXCEPT ![t] = Tail(p)] /\ live' = live \cup {Head(p)}
      /\ UNCHANGED <<chain, limbo_tail_, gc_epoch_, perform_gc_epoch_, gc, nfree, globalepoch,
                     active_epoch, flushing, held, ckpt>>
  BY DEF Allocate, limbo, rcu, clock
<1>2. PICK R \in [Addresses -> Nat] : \E F \in Nat : Ages(R) /\ Protected(R, F)
  BY DEF Inv
<1>3. PICK F \in Nat : Ages(R) /\ Protected(R, F)
  BY <1>2
<1>4. /\ nvm_free_addr \in 1..(LastAddress + 1) /\ nfree \in 1..nvm_free_addr
      /\ LastAddress \in Nat /\ Superpage \in Nat \ {0}
      /\ pool_ \in [Threads -> Seq(Addresses)] /\ live \subseteq Addresses
      /\ ckpt \subseteq Addresses /\ held \in [Threads -> SUBSET Addresses]
  BY DEF Inv, TypeOK, RcuAssumption
<1>5. /\ p \in Seq(Addresses) /\ p # <<>> /\ IsInjective(p)
      /\ nvm_free_addr <= nvm_free_addr' /\ nvm_free_addr' \in 1..(LastAddress + 1)
      /\ \A o \in ToSet(p) :
           /\ o \in Addresses /\ o < nvm_free_addr' /\ o \notin live /\ o \notin ckpt
           /\ \A u \in Threads : /\ o \notin held[u] /\ o \notin ObjectsOf(chain[u])
                                 /\ u # t => o \notin ToSet(pool_[u])
  <2>1. CASE pool_[t] # <<>>
    <3>1. p = pool_[t] /\ nvm_free_addr' = nvm_free_addr
      BY <1>1, <2>1 DEF Refilled
    <3>2. ToSet(p) \subseteq Addresses
      BY <1>4, <3>1, ToSetIs
    <3>. QED  BY <1>4, <2>1, <3>1, <3>2 DEF Inv, Places
  <2>2. CASE pool_[t] = <<>>
    <3>1. p = Units(nvm_free_addr) /\ nvm_free_addr' = nvm_free_addr + Superpage
          /\ nvm_free_addr + Superpage - 1 <= LastAddress /\ nvm_free_addr \in Nat \ {0}
      BY <1>1, <1>4, <2>2 DEF Refilled, CanGrow
    <3>2. /\ p \in Seq(Addresses) /\ p # <<>> /\ IsInjective(p)
          /\ \A o \in ToSet(p) : nvm_free_addr <= o /\ o < nvm_free_addr'
      BY <3>1, UnitsOf
    <3>. HIDE DEF p
    <3>3. ToSet(p) \subseteq Addresses
      BY <3>2, ToSetIs
    <3>4. \A o \in Addresses : nvm_free_addr <= o =>
            /\ o \notin live /\ o \notin ckpt
            /\ \A u \in Threads : o \notin held[u] /\ o \notin ObjectsOf(chain[u]) /\ o \notin ToSet(pool_[u])
      <4>1. \A o \in Addresses : o \in Nat
        BY <1>4 DEF Addresses
      <4>. QED  BY <1>4, <4>1 DEF Inv, Places
    <3>. QED  BY <1>4, <3>1, <3>2, <3>3, <3>4
  <2>. QED  BY <2>1, <2>2
<1>. HIDE DEF p
<1>6. /\ Tail(p) \in Seq(Addresses) /\ IsInjective(Tail(p)) /\ ToSet(Tail(p)) \subseteq ToSet(p)
      /\ Head(p) \in ToSet(p) /\ Head(p) \notin ToSet(Tail(p))
  BY <1>5, PoolTail
<1>7. pool_'[t] = Tail(p) /\ \A u \in Threads : u # t => pool_'[u] = pool_[u]
  BY <1>1, <1>4
<1>8. TypeOK'
  <2>1. pool_' \in [Threads -> Seq(Addresses)]
    BY <1>1, <1>4, <1>6
  <2>2. live' \subseteq Addresses /\ nfree' \in 1..nvm_free_addr'
    BY <1>1, <1>4, <1>5, <1>6
  <2>. QED  BY <1>1, <1>5, <2>1, <2>2 DEF Inv, TypeOK
<1>9. Places'
  <2>1. \A u \in Threads : \A o \in ToSet(pool_'[u]) :
          /\ o \notin live' /\ o \notin ckpt /\ o < nvm_free_addr'
          /\ \A v \in Threads : /\ o \notin held[v] /\ o \notin ObjectsOf(chain[v])
                                /\ u # v => o \notin ToSet(pool_'[v])
    <3>. SUFFICES ASSUME NEW u \in Threads, NEW o \in ToSet(pool_'[u])
                  PROVE  /\ o \notin live' /\ o \notin ckpt /\ o < nvm_free_addr'
                         /\ \A v \in Threads : /\ o \notin held[v] /\ o \notin ObjectsOf(chain[v])
                                               /\ u # v => o \notin ToSet(pool_'[v])
      OBVIOUS
    <3>1. CASE u = t
      BY <1>1, <1>5, <1>6, <1>7, <3>1
    <3>2. CASE u # t
      <4>1. o \in ToSet(pool_[u]) /\ o \notin ToSet(p) /\ o < nvm_free_addr /\ o \in Addresses
        <5>1. ToSet(pool_[u]) \subseteq Addresses
          BY <1>4, ToSetIs
        <5>. QED  BY <1>5, <1>7, <3>2, <5>1 DEF Inv, Places
      <4>2. o < nvm_free_addr'
        BY <1>4, <1>5, <4>1 DEF Addresses
      <4>3. o \notin live /\ o \notin ckpt
            /\ \A v \in Threads : /\ o \notin held[v] /\ o \notin ObjectsOf(chain[v])
                                  /\ u # v => o \notin ToSet(pool_[v])
        BY <4>1 DEF Inv, Places
      <4>. QED  BY <1>1, <1>6, <1>7, <4>1, <4>2, <4>3
    <3>. QED  BY <3>1, <3>2
  <2>2. \A u \in Threads : IsInjective(pool_'[u]) /\ Once(chain[u])
    BY <1>6, <1>7 DEF Inv, Places
  <2>3. \A u, v \in Threads : u # v => ObjectsOf(chain[u]) \cap ObjectsOf(chain[v]) = {}
    BY DEF Inv, Places
  <2>4. \A u \in Threads : ObjectsOf(chain[u]) \cap live' = {}
    BY <1>1, <1>5, <1>6 DEF Inv, Places
  <2>5. /\ \A u \in Threads : \A o \in ObjectsOf(chain[u]) \cup held[u] : o < nvm_free_addr'
        /\ \A o \in live' : o < nvm_free_addr'
    <3>1. \A u \in Threads : ObjectsOf(chain[u]) \subseteq Nat /\ held[u] \subseteq Nat
      BY <1>4 DEF ObjectsOf, Addresses
    <3>2. live \subseteq Nat
      BY <1>4 DEF Addresses
    <3>3. /\ \A u \in Threads : \A o \in ObjectsOf(chain[u]) \cup held[u] : o < nvm_free_addr
          /\ \A o \in live : o < nvm_free_addr
      BY DEF Inv, Places
    <3>4. /\ \A u \in Threads : \A o \in ObjectsOf(chain[u]) \cup held[u] : o < nvm_free_addr'
          /\ \A o \in live : o < nvm_free_addr'
      <4>1. \A o \in Nat : o < nvm_free_addr => o < nvm_free_addr'
        BY <1>4, <1>5
      <4>. QED  BY <3>1, <3>2, <3>3, <4>1
    <3>. QED  BY <1>1, <1>5, <1>6, <3>4
  <2>6. \A o \in ckpt : o < nfree
    BY DEF Inv, Places
  <2>. QED  BY <1>1, <2>1, <2>2, <2>3, <2>4, <2>5, <2>6 DEF Places
<1>10. Shape' /\ GroupsInOrder' /\ Clocks' /\ Ages(R)'
  <2>1. Shape' /\ GroupsInOrder'
    BY <1>1 DEF Inv, Shape, GroupsInOrder, Cleaning
  <2>2. Clocks'
    BY <1>1, <1>3 DEF Inv, Clocks, Cleaning
  <2>3. Ages(R)'
    BY <1>1, <1>3 DEF Ages, Cleaning, HeadElement
  <2>. QED  BY <2>1, <2>2, <2>3
<1>11. Protected(R, F)'
  BY <1>1, <1>3 DEF Protected
<1>. QED  BY <1>8, <1>9, <1>10, <1>11 DEF Inv

\* A pool is reordered.
LEMMA DiscardInv == ASSUME RcuAssumption, Inv, NEW t \in Threads, Discard(t) PROVE Inv'
<1>1. PICK i \in 2..Len(pool_[t]) : pool_' = [pool_ EXCEPT ![t] = <<@[i]>> \o RemoveAt(@, i)]
  BY DEF Discard
<1>2. UNCHANGED <<chain, limbo_tail_, gc_epoch_, perform_gc_epoch_, gc, nvm_free_addr, nfree,
                  globalepoch, active_epoch, flushing, live, held, ckpt>>
  BY DEF Discard, limbo, rcu, clock
<1>. DEFINE q == <<pool_[t][i]>> \o RemoveAt(pool_[t], i)
<1>3. pool_ \in [Threads -> Seq(Addresses)] /\ \A u \in Threads : IsInjective(pool_[u])
  BY DEF Inv, TypeOK, Places
<1>4. q \in Seq(Addresses) /\ IsInjective(q) /\ ToSet(q) \subseteq ToSet(pool_[t])
  BY <1>3, PoolMoved
<1>5. pool_' = [pool_ EXCEPT ![t] = q]
  BY <1>1
<1>. HIDE DEF q
<1>6. pool_' \in [Threads -> Seq(Addresses)] /\ pool_'[t] = q
      /\ \A u \in Threads : u # t => pool_'[u] = pool_[u]
  BY <1>3, <1>4, <1>5
<1>7. TypeOK'
  BY <1>2, <1>6 DEF Inv, TypeOK
<1>8. \A u \in Threads : IsInjective(pool_'[u]) /\ ToSet(pool_'[u]) \subseteq ToSet(pool_[u])
  BY <1>3, <1>4, <1>6
<1>9. Places'
  BY <1>2, <1>8, ZenonT(30) DEF Inv, Places
<1>10. Shape' /\ GroupsInOrder' /\ Clocks'
  BY <1>2 DEF Inv, Shape, GroupsInOrder, Clocks, Cleaning
<1>11. \A R : (Ages(R) => Ages(R)') /\ \A F : Protected(R, F) => Protected(R, F)'
  BY <1>2 DEF Ages, Protected, Cleaning, HeadElement
<1>. QED  BY <1>7, <1>9, <1>10, <1>11 DEF Inv

\* An object of the tree is held from the thread's epoch on.
LEMMA ReadInv == ASSUME RcuAssumption, Inv, NEW t \in Threads, NEW o \in Addresses, Read(t, o) PROVE Inv'
<1>1. /\ o \in live /\ gc_epoch_[t] # 0 /\ ~Cleaning(t) /\ held' = [held EXCEPT ![t] = {o}]
      /\ UNCHANGED <<chain, limbo_tail_, gc_epoch_, perform_gc_epoch_, gc, pool_, nvm_free_addr, nfree,
                     globalepoch, active_epoch, flushing, live, ckpt>>
  BY DEF Read, Working, limbo, rcu, heap, clock
<1>2. held' \in [Threads -> SUBSET Addresses] /\ held'[t] = {o}
      /\ \A u \in Threads : u # t => held'[u] = held[u]
  BY <1>1 DEF Inv, TypeOK
<1>3. TypeOK'
  BY <1>1, <1>2 DEF Inv, TypeOK
<1>4. Places'
  <2>1. o < nvm_free_addr /\ \A u \in Threads : o \notin ToSet(pool_[u])
    BY <1>1 DEF Inv, Places
  <2>2. \A u, v \in Threads : ToSet(pool_[u]) \cap held'[v] = {}
    BY <1>2, <2>1 DEF Inv, Places
  <2>3. \A u \in Threads : \A x \in ToSet(pool_[u]) \cup ObjectsOf(chain[u]) \cup held'[u] : x < nvm_free_addr
    BY <1>2, <2>1 DEF Inv, Places
  <2>. QED  BY <1>1, <2>2, <2>3 DEF Inv, Places
<1>5. Shape' /\ GroupsInOrder'
  BY <1>1 DEF Inv, Shape, GroupsInOrder, Cleaning
<1>6. Clocks'
  BY <1>1, <1>2 DEF Inv, Clocks, Cleaning
<1>7. \A R : (Ages(R) => Ages(R)') /\ \A F : Protected(R, F) => Protected(R, F)'
  BY <1>1, <1>2 DEF Ages, Protected, Cleaning, HeadElement
<1>. QED  BY <1>3, <1>4, <1>5, <1>6, <1>7 DEF Inv

\* The thread lets go of what it held.
LEMMA EndOperationInv == ASSUME RcuAssumption, Inv, NEW t \in Threads, EndOperation(t) PROVE Inv'
<1>1. /\ held' = [held EXCEPT ![t] = {}]
      /\ UNCHANGED <<chain, limbo_tail_, gc_epoch_, perform_gc_epoch_, gc, pool_, nvm_free_addr, nfree,
                     globalepoch, active_epoch, flushing, live, ckpt>>
  BY DEF EndOperation, limbo, rcu, heap, clock
<1>2. held' \in [Threads -> SUBSET Addresses] /\ \A u \in Threads : held'[u] \subseteq held[u]
  BY <1>1 DEF Inv, TypeOK
<1>3. TypeOK'
  BY <1>1, <1>2 DEF Inv, TypeOK
<1>4. Places'
  BY <1>1, <1>2 DEF Inv, Places
<1>5. Shape' /\ GroupsInOrder' /\ Clocks'
  BY <1>1, <1>2 DEF Inv, Shape, GroupsInOrder, Clocks, Cleaning
<1>6. \A R : (Ages(R) => Ages(R)') /\ \A F : Protected(R, F) => Protected(R, F)'
  BY <1>1, <1>2 DEF Ages, Protected, Cleaning, HeadElement
<1>. QED  BY <1>3, <1>4, <1>5, <1>6 DEF Inv

\* The flush makes the tree the checkpoint.
LEMMA FlushInv == ASSUME RcuAssumption, Inv, Flush PROVE Inv'
<1>1. /\ flushing' = {} /\ ckpt' = live /\ nfree' = nvm_free_addr
      /\ UNCHANGED <<chain, limbo_tail_, gc_epoch_, perform_gc_epoch_, gc, pool_, nvm_free_addr,
                     globalepoch, active_epoch, live, held>>
  BY DEF Flush, limbo, rcu
<1>2. TypeOK'
  <2>1. nfree' \in 1..nvm_free_addr' /\ flushing' \in SUBSET Threads
    BY <1>1 DEF Inv, TypeOK, RcuAssumption
  <2>. QED  BY <1>1, <2>1 DEF Inv, TypeOK
<1>3. Places'
  BY <1>1 DEF Inv, Places
<1>4. Shape' /\ GroupsInOrder' /\ Clocks'
  BY <1>1 DEF Inv, Shape, GroupsInOrder, Clocks, Cleaning
<1>5. \A R : Ages(R) => Ages(R)'
  BY <1>1 DEF Ages, Cleaning, HeadElement
<1>6. globalepoch \in Nat
  BY DEF Inv, TypeOK, Epochs, RcuAssumption
<1>7. \A R : \A F : Protected(R, F) => \A e : e = globalepoch => Protected(R, e)'
  BY <1>1, <1>6 DEF Protected
<1>8. PICK R \in [Addresses -> Nat] : \E F \in Nat : Ages(R) /\ Protected(R, F)
  BY DEF Inv
<1>9. \E e \in Nat : Ages(R)' /\ Protected(R, e)'
  BY <1>5, <1>6, <1>7, <1>8
<1>. QED  BY <1>2, <1>3, <1>4, <1>8, <1>9 DEF Inv

\* The memory catches up with the bump pointer.
LEMMA EvictInv == ASSUME RcuAssumption, Inv, EvictFreeAddr PROVE Inv'
<1>1. /\ nfree' = nvm_free_addr
      /\ UNCHANGED <<chain, limbo_tail_, gc_epoch_, perform_gc_epoch_, gc, pool_, nvm_free_addr,
                     globalepoch, active_epoch, flushing, live, held, ckpt>>
  BY DEF EvictFreeAddr, limbo, rcu, clock
<1>2. nfree \in 1..nvm_free_addr /\ nvm_free_addr \in Nat \ {0} /\ nfree' \in 1..nvm_free_addr'
      /\ ckpt \subseteq Nat
  BY <1>1 DEF Inv, TypeOK, RcuAssumption, Addresses
<1>3. TypeOK'
  BY <1>1, <1>2 DEF Inv, TypeOK
<1>4. Places'
  <2>1. \A o \in ckpt : o < nfree'
    BY <1>1, <1>2 DEF Inv, Places
  <2>2. /\ \A t : ToSet(pool_[t])' = ToSet(pool_[t]) /\ ObjectsOf(chain[t])' = ObjectsOf(chain[t])
        /\ \A t : IsInjective(pool_[t])' = IsInjective(pool_[t]) /\ Once(chain[t])' = Once(chain[t])
    BY <1>1 DEF ObjectsOf, Once
  <2>. QED  BY <1>1, <2>1, <2>2 DEF Inv, Places
<1>5. Shape' /\ GroupsInOrder' /\ Clocks'
  BY <1>1 DEF Inv, Shape, GroupsInOrder, Clocks, Cleaning
<1>6. \A R : (Ages(R) => Ages(R)') /\ \A F : Protected(R, F) => Protected(R, F)'
  BY <1>1 DEF Ages, Protected, Cleaning, HeadElement
<1>. QED  BY <1>3, <1>4, <1>5, <1>6 DEF Inv

\* The active epoch does not go back, and while a flush is due it stays at or
\* before the epoch of the thread that is to flush.
LEMMA SetGlobalEpochInv == ASSUME RcuAssumption, Inv, NEW t \in Threads, SetGlobalEpoch(t) PROVE Inv'
<1>1. /\ t \notin flushing /\ ~Cleaning(t) /\ gc_epoch_[t] # 0
      /\ globalepoch < MaxEpoch /\ globalepoch' = globalepoch + 1
      /\ flushing' = IF flushing = {} THEN {t} ELSE flushing
      /\ UNCHANGED <<chain, limbo_tail_, gc_epoch_, perform_gc_epoch_, gc, pool_, nvm_free_addr, nfree,
                     live, held, ckpt>>
  BY DEF SetGlobalEpoch, Working, limbo, rcu, heap
<1>2. PICK m \in Epochs : MinActive(globalepoch + 1, m) /\ active_epoch' = m
  BY DEF SetGlobalEpoch
<1>3. /\ globalepoch \in Nat \ {0} /\ active_epoch \in 1..globalepoch /\ MaxEpoch \in Nat /\ m \in Nat
      /\ gc_epoch_ \in [Threads -> Epochs] /\ \A u \in Threads : gc_epoch_[u] \in Nat
  BY DEF Inv, TypeOK, Epochs, RcuAssumption
<1>4. m <= globalepoch + 1 /\ \A u \in Threads : gc_epoch_[u] # 0 => m <= gc_epoch_[u]
  BY <1>2 DEF MinActive
<1>5. m = globalepoch + 1 \/ \E u \in Threads : gc_epoch_[u] # 0 /\ m = gc_epoch_[u]
  BY <1>2 DEF MinActive
<1>6. active_epoch <= m
  BY <1>3, <1>5 DEF Inv, Clocks
<1>7. TypeOK'
  <2>1. globalepoch' \in Epochs \ {0} /\ active_epoch' \in 1..globalepoch' /\ flushing' \in SUBSET Threads
    BY <1>1, <1>2, <1>3, <1>4, <1>6 DEF Epochs, Inv, TypeOK
  <2>. QED  BY <1>1, <2>1 DEF Inv, TypeOK
<1>8. Places' /\ Shape' /\ GroupsInOrder'
  <2>1. Places'
    BY <1>1 DEF Inv, Places
  <2>2. Shape' /\ GroupsInOrder'
    BY <1>1 DEF Inv, Shape, GroupsInOrder, Cleaning
  <2>. QED  BY <2>1, <2>2
<1>9. Clocks'
  <2>. SUFFICES ASSUME NEW u \in Threads
                PROVE  /\ gc_epoch_[u] # 0 => m <= gc_epoch_[u] /\ gc_epoch_[u] <= globalepoch'
                       /\ gc_epoch_[u] = 0 => held[u] = {} /\ ~Cleaning(u) /\ u \notin flushing'
                       /\ Cleaning(u) => held[u] = {} /\ u \notin flushing'
                       /\ Cleaning(u) => gc[u].epoch <= gc[u].epoch_bound /\ gc[u].epoch_bound < m
    BY <1>1, <1>2 DEF Clocks, Cleaning
  <2>1. gc[u].epoch_bound \in Nat
    BY DEF Inv, TypeOK, Epochs, Locals
  <2>2. gc_epoch_[u] # 0 => gc_epoch_[u] <= globalepoch'
    BY <1>1, <1>3 DEF Inv, Clocks
  <2>3. Cleaning(u) => gc[u].epoch <= gc[u].epoch_bound /\ gc[u].epoch_bound < m
    BY <1>3, <1>6, <2>1 DEF Inv, Clocks
  <2>4. u \in flushing' => u \in flushing \/ u = t
    BY <1>1
  <2>. QED  BY <1>1, <1>4, <2>2, <2>3, <2>4 DEF Inv, Clocks
<1>10. \A R : Ages(R) => Ages(R)'
  BY <1>1 DEF Ages, Cleaning, HeadElement
<1>11. \A R : \A F \in Nat : Protected(R, F) => Protected(R, F)'
  <2>1. gc_epoch_[t] <= globalepoch
    BY <1>1 DEF Inv, Clocks
  <2>. QED  BY <1>1, <1>3, <2>1 DEF Protected
<1>. QED  BY <1>7, <1>8, <1>9, <1>10, <1>11 DEF Inv

\* hard_rcu_quiesce goes into its loop at an epoch.
LEMMA BeginGcKeeps ==
  ASSUME RcuAssumption, Inv, NEW t \in Threads, NEW stop \in BOOLEAN, Working(t), BeginGc(t, stop),
         chain' = chain, limbo_tail_' = limbo_tail_
  PROVE  /\ gc' \in [Threads -> Locals]
         /\ perform_gc_epoch_' \in [Threads -> Epochs]
         /\ \A u \in Threads : u # t => gc'[u] = gc[u]
         /\ Cleaning(t)' => Cleans(t) /\ gc'[t].epoch <= gc'[t].epoch_bound
                                      /\ gc'[t].epoch_bound < active_epoch
         /\ Shape' /\ GroupsInOrder' /\ \A R : Ages(R) => Ages(R)'
<1>1. /\ globalepoch \in Nat /\ active_epoch \in 1..globalepoch /\ active_epoch \in Epochs
      /\ EpochBound(active_epoch) \in Nat /\ EpochBound(active_epoch) \in Epochs
      /\ EpochBound(active_epoch) + 1 = active_epoch /\ FreeCount \in Nat \ {0} /\ 0 \in Epochs
  BY DEF Inv, TypeOK, Epochs, RcuAssumption, EpochBound
<1>2. /\ gc \in [Threads -> Locals]
      /\ perform_gc_epoch_ \in [Threads -> Epochs] /\ ~Cleaning(t)
      /\ chain \in [Threads -> Seq(Groups)]
  BY DEF Inv, TypeOK, Working
<1>. DEFINE begun == [count |-> FreeCount, epoch_bound |-> EpochBound(active_epoch), epoch |-> 0,
                      stop |-> stop]
<1>3. /\ begun \in Locals
      /\ begun.count > 0 /\ begun.epoch <= begun.epoch_bound /\ begun.epoch_bound < active_epoch
  BY <1>1 DEF Locals
<1>4. gc' = IF Cleans(t) THEN [gc EXCEPT ![t] = begun] ELSE gc
  BY DEF BeginGc
<1>5. perform_gc_epoch_' \in [Threads -> Epochs]
  BY <1>1, <1>2 DEF BeginGc
<1>. HIDE DEF begun
<1>6. /\ gc' \in [Threads -> Locals]
      /\ \A u \in Threads : u # t => gc'[u] = gc[u]
      /\ gc'[t] = IF Cleans(t) THEN begun ELSE gc[t]
  BY <1>2, <1>3, <1>4
<1>7. /\ \A u \in Threads : u # t => (Cleaning(u)' <=> Cleaning(u))
      /\ Cleaning(t)' => Cleans(t) /\ gc'[t] = begun
  BY <1>2, <1>6 DEF Cleaning
<1>8. Shape'
  BY <1>7 DEF Inv, Shape, Cleans
<1>9. GroupsInOrder'
  BY <1>2, <1>7 DEF Inv, GroupsInOrder
<1>10. Cleans(t) => HeadElement(t).ptr_ = NullPtr
  <2>1. 1 \in 1..Len(chain[t])
    <3>1. Len(chain[t]) \in Nat /\ limbo_tail_[t] \in 1..Len(chain[t])
      BY <1>2 DEF Inv, Shape
    <3>. QED  BY <3>1
  <2>. QED  BY <1>2, <2>1 DEF Inv, GroupsInOrder, Cleans, HeadElement
<1>11. \A R : Ages(R) => Ages(R)'
  BY <1>6, <1>7, <1>10 DEF Ages, HeadElement
<1>. QED  BY <1>3, <1>5, <1>6, <1>7, <1>8, <1>9, <1>11

\* rcu_quiesce holds nothing, so its epoch may move.
LEMMA QuiesceInv == ASSUME RcuAssumption, Inv, NEW t \in Threads, Quiesce(t) PROVE Inv'
<1>1. /\ Working(t) /\ held[t] = {} /\ gc_epoch_' = [gc_epoch_ EXCEPT ![t] = globalepoch]
      /\ BeginGc(t, FALSE)
      /\ UNCHANGED <<chain, limbo_tail_, pool_, nvm_free_addr, nfree, globalepoch, active_epoch,
                     flushing, live, held, ckpt>>
  BY DEF Quiesce, limbo, heap, clock
<1>2. /\ gc' \in [Threads -> Locals]
      /\ perform_gc_epoch_' \in [Threads -> Epochs]
      /\ \A u \in Threads : u # t => gc'[u] = gc[u]
      /\ Cleaning(t)' => gc'[t].epoch <= gc'[t].epoch_bound /\ gc'[t].epoch_bound < active_epoch
      /\ Shape' /\ GroupsInOrder' /\ \A R : Ages(R) => Ages(R)'
  BY <1>1, BeginGcKeeps
<1>3. /\ gc_epoch_' \in [Threads -> Epochs] /\ gc_epoch_'[t] = globalepoch
      /\ \A u \in Threads : u # t => gc_epoch_'[u] = gc_epoch_[u]
      /\ globalepoch \in Nat \ {0} /\ active_epoch <= globalepoch
  BY <1>1 DEF Inv, TypeOK, Epochs, RcuAssumption
<1>4. TypeOK'
  BY <1>1, <1>2, <1>3 DEF Inv, TypeOK
<1>5. Places'
  BY <1>1 DEF Inv, Places
<1>6. Clocks'
  BY <1>1, <1>2, <1>3 DEF Inv, Clocks, Cleaning, Working
<1>7. \A R : \A F : Protected(R, F) => Protected(R, F)'
  BY <1>1, <1>3 DEF Protected, Working
<1>. QED  BY <1>2, <1>4, <1>5, <1>6, <1>7 DEF Inv

\* rcu_stop holds nothing.
LEMMA RcuStopInv == ASSUME RcuAssumption, Inv, NEW t \in Threads, RcuStop(t) PROVE Inv'
<1>1. /\ Working(t) /\ held[t] = {} /\ BeginGc(t, TRUE)
      /\ gc_epoch_' = IF Cleans(t) THEN gc_epoch_ ELSE [gc_epoch_ EXCEPT ![t] = 0]
      /\ UNCHANGED <<chain, limbo_tail_, pool_, nvm_free_addr, nfree, globalepoch, active_epoch,
                     flushing, live, held, ckpt>>
  BY DEF RcuStop, limbo, heap, clock
<1>2. /\ gc' \in [Threads -> Locals]
      /\ perform_gc_epoch_' \in [Threads -> Epochs]
      /\ \A u \in Threads : u # t => gc'[u] = gc[u]
      /\ Cleaning(t)' => Cleans(t) /\ gc'[t].epoch <= gc'[t].epoch_bound
                                   /\ gc'[t].epoch_bound < active_epoch
      /\ Shape' /\ GroupsInOrder' /\ \A R : Ages(R) => Ages(R)'
  BY <1>1, BeginGcKeeps
<1>3. /\ gc_epoch_' \in [Threads -> Epochs] /\ (gc_epoch_'[t] = gc_epoch_[t] \/ gc_epoch_'[t] = 0)
      /\ Cleans(t) => gc_epoch_'[t] = gc_epoch_[t]
      /\ \A u \in Threads : u # t => gc_epoch_'[u] = gc_epoch_[u]
  BY <1>1 DEF Inv, TypeOK, Epochs, RcuAssumption
<1>4. TypeOK'
  BY <1>1, <1>2, <1>3 DEF Inv, TypeOK
<1>5. Places'
  BY <1>1 DEF Inv, Places
<1>6. Clocks'
  BY <1>1, <1>2, <1>3 DEF Inv, Clocks, Cleaning, Working
<1>7. \A R : \A F : Protected(R, F) => Protected(R, F)'
  BY <1>1, <1>3 DEF Protected, Working
<1>. QED  BY <1>2, <1>4, <1>5, <1>6, <1>7 DEF Inv

\* The epoch of a thread that starts is the current one.
LEMMA RcuStartInv == ASSUME RcuAssumption, Inv, NEW t \in Threads, RcuStart(t) PROVE Inv'
<1>1. /\ gc_epoch_[t] = 0 /\ gc_epoch_' = [gc_epoch_ EXCEPT ![t] = globalepoch]
      /\ UNCHANGED <<chain, limbo_tail_, perform_gc_epoch_, gc, pool_, nvm_free_addr, nfree, globalepoch,
                     active_epoch, flushing, live, held, ckpt>>
  BY DEF RcuStart, limbo, heap, clock
<1>2. /\ gc_epoch_' \in [Threads -> Epochs] /\ gc_epoch_'[t] = globalepoch
      /\ \A u \in Threads : u # t => gc_epoch_'[u] = gc_epoch_[u]
      /\ globalepoch \in Nat \ {0} /\ active_epoch <= globalepoch
  BY <1>1 DEF Inv, TypeOK, Epochs, RcuAssumption
<1>3. held[t] = {} /\ t \notin flushing /\ ~Cleaning(t)
  BY <1>1 DEF Inv, Clocks
<1>4. TypeOK'
  BY <1>1, <1>2 DEF Inv, TypeOK
<1>5. Places' /\ Shape' /\ GroupsInOrder'
  <2>1. Places'
    BY <1>1 DEF Inv, Places
  <2>2. Shape' /\ GroupsInOrder'
    BY <1>1 DEF Inv, Shape, GroupsInOrder, Cleaning
  <2>. QED  BY <2>1, <2>2
<1>6. Clocks'
  BY <1>1, <1>2, <1>3 DEF Inv, Clocks, Cleaning
<1>7. \A R : (Ages(R) => Ages(R)') /\ \A F : Protected(R, F) => Protected(R, F)'
  <2>1. ASSUME NEW R, Ages(R) PROVE Ages(R)'
    BY <1>1, <2>1 DEF Ages, Cleaning, HeadElement
  <2>2. ASSUME NEW R, NEW F, Protected(R, F) PROVE Protected(R, F)'
    BY <1>1, <1>2, <1>3, <2>2 DEF Protected
  <2>. QED  BY <2>1, <2>2
<1>. QED  BY <1>4, <1>5, <1>6, <1>7 DEF Inv

\* record_rcu finds or makes a group with room for two elements.
LEMMA FillGroupIs ==
  ASSUME RcuAssumption, Inv, NEW t \in Threads
  PROVE  LET k == FillGroup(t)
             c == WithFillGroup(t)
         IN /\ c \in Seq(Groups) /\ k \in 1..Len(c) /\ Len(chain[t]) <= Len(c)
            /\ k = limbo_tail_[t] \/ k = limbo_tail_[t] + 1
            /\ k = limbo_tail_[t] + 1 => c[k].head_ = 0 /\ c[k].tail_ = 0
            /\ c[k].head_ <= c[k].tail_ /\ Room(c[k])
            /\ Once(c) /\ ObjectsOf(c) = ObjectsOf(chain[t])
            /\ \A m \in 1..Len(c) : \/ m \in 1..Len(chain[t]) /\ c[m] = chain[t][m]
                                    \/ m = Len(chain[t]) + 1 /\ m = k /\ c[m] = EmptyGroup
<1>. DEFINE lt == limbo_tail_[t]
<1>1. /\ chain[t] \in Seq(Groups) /\ Len(chain[t]) \in Nat /\ lt \in 1..Len(chain[t]) /\ Once(chain[t])
      /\ \A m \in 1..Len(chain[t]) : chain[t][m].head_ <= chain[t][m].tail_
      /\ \A m \in 1..Len(chain[t]) : m > lt => chain[t][m].head_ = 0 /\ chain[t][m].tail_ = 0
  BY DEF Inv, TypeOK, Shape, Places, GroupsInOrder
<1>2. EmptyGroup.head_ = 0 /\ EmptyGroup.tail_ = 0 /\ 0 + 2 <= Capacity /\ Capacity \in Nat
  BY EmptyGroupIs DEF RcuAssumption
<1>3. CASE Room(chain[t][lt])
  <2>1. FillGroup(t) = lt /\ WithFillGroup(t) = chain[t]
    BY <1>1, <1>3 DEF FillGroup, WithFillGroup
  <2>. QED  BY <1>1, <1>3, <2>1
<1>4. CASE ~Room(chain[t][lt]) /\ lt + 1 <= Len(chain[t])
  <2>1. FillGroup(t) = lt + 1 /\ WithFillGroup(t) = chain[t]
    BY <1>1, <1>4 DEF FillGroup, WithFillGroup
  <2>2. lt + 1 \in 1..Len(chain[t]) /\ chain[t][lt + 1].head_ = 0 /\ chain[t][lt + 1].tail_ = 0
    BY <1>1, <1>4
  <2>3. Room(chain[t][lt + 1])
    BY <1>2, <2>2 DEF Room
  <2>. QED  BY <1>1, <2>1, <2>2, <2>3
<1>5. CASE ~Room(chain[t][lt]) /\ lt = Len(chain[t])
  <2>. DEFINE c == Append(chain[t], EmptyGroup)
  <2>1. FillGroup(t) = lt + 1 /\ WithFillGroup(t) = c
    BY <1>1, <1>5 DEF FillGroup, WithFillGroup
  <2>2. /\ c \in Seq(Groups) /\ Len(c) = Len(chain[t]) + 1 /\ c[Len(c)] = EmptyGroup
        /\ \A k \in 1..Len(chain[t]) : c[k] = chain[t][k]
        /\ Once(c) /\ ObjectsOf(c) = ObjectsOf(chain[t])
    BY <1>1, AppendedList
  <2>. HIDE DEF c
  <2>3. Room(EmptyGroup)
    BY <1>2 DEF Room
  <2>. QED  BY <1>1, <1>2, <1>5, <2>1, <2>2, <2>3
<1>. QED  BY <1>1, <1>3, <1>4, <1>5

\* record_rcu: an object that is removed now is as old as the epoch.
LEMMA RetireInv ==
  ASSUME RcuAssumption, Inv, NEW t \in Threads, NEW o \in Addresses, Retire(t, o)
  PROVE  Inv'
<1>. DEFINE k == FillGroup(t)
            c == WithFillGroup(t)
            h == Pushed(c[k], o, globalepoch)
            d == [c EXCEPT ![k] = h]
<1>1. /\ Working(t) /\ o \in live /\ live' = live \ {o}
      /\ chain' = [chain EXCEPT ![t] = d] /\ limbo_tail_' = [limbo_tail_ EXCEPT ![t] = k]
      /\ UNCHANGED <<gc_epoch_, perform_gc_epoch_, gc, pool_, nvm_free_addr, nfree, globalepoch,
                     active_epoch, flushing, held, ckpt>>
  BY DEF Retire, rcu, heap, clock
<1>2. PICK R \in [Addresses -> Nat] : \E F \in Nat : Ages(R) /\ Protected(R, F)
  BY DEF Inv
<1>3. PICK F \in Nat : Ages(R) /\ Protected(R, F)
  BY <1>2
<1>4. /\ c \in Seq(Groups) /\ k \in 1..Len(c) /\ Len(chain[t]) <= Len(c)
      /\ k = limbo_tail_[t] \/ k = limbo_tail_[t] + 1
      /\ k = limbo_tail_[t] + 1 => c[k].head_ = 0 /\ c[k].tail_ = 0
      /\ c[k].head_ <= c[k].tail_ /\ Room(c[k])
      /\ Once(c) /\ ObjectsOf(c) = ObjectsOf(chain[t])
      /\ \A m \in 1..Len(c) : \/ m \in 1..Len(chain[t]) /\ c[m] = chain[t][m]
                              \/ m = Len(chain[t]) + 1 /\ m = k /\ c[m] = EmptyGroup
  BY FillGroupIs
<1>. HIDE DEF k, c
<1>5. /\ chain \in [Threads -> Seq(Groups)] /\ chain[t] \in Seq(Groups) /\ Len(chain[t]) \in Nat
      /\ limbo_tail_ \in [Threads -> Nat \ {0}] /\ limbo_tail_[t] \in 1..Len(chain[t])
      /\ globalepoch \in Epochs /\ globalepoch \in Nat
  BY DEF Inv, TypeOK, Shape, Epochs
<1>6. o \notin ObjectsOf(c) /\ \A u \in Threads : o \notin ObjectsOf(chain[u])
  BY <1>1, <1>4 DEF Inv, Places
<1>7. c[k] \in Groups /\ Len(c) \in Nat
  BY <1>4
<1>8. /\ h \in Groups /\ h.head_ = c[k].head_
      /\ h.tail_ = c[k].tail_ + 1 \/ h.tail_ = c[k].tail_ + 2
      /\ \A i \in Used(c[k]) : h.e_[i] = c[k].e_[i]
      /\ h.tail_ = c[k].tail_ + 1 => c[k].head_ < c[k].tail_
      /\ h.tail_ = c[k].tail_ + 2 => h.e_[c[k].tail_] = Epoch(globalepoch)
  BY <1>4, <1>5, <1>7, PushedIs
<1>9. /\ d \in Seq(Groups) /\ Len(d) = Len(c) /\ d[k] = h
      /\ \A m \in 1..Len(c) : m # k => d[m] = c[m]
      /\ Once(d) /\ ObjectsOf(d) \subseteq ObjectsOf(chain[t]) \cup {o}
  <2>1. /\ c \in Seq(Groups) /\ k \in 1..Len(c) /\ c[k].head_ <= c[k].tail_ /\ Room(c[k])
        /\ Once(c) /\ o \notin ObjectsOf(c) /\ globalepoch \in Epochs
    BY <1>4, <1>5, <1>6
  <2>2. /\ d \in Seq(Groups) /\ Len(d) = Len(c) /\ d[k] = h
        /\ \A m \in 1..Len(c) : m # k => d[m] = c[m]
        /\ Once(d) /\ ObjectsOf(d) \subseteq ObjectsOf(c) \cup {o}
    BY <2>1, PushedList
  <2>. QED  BY <1>4, <2>2
<1>10. /\ \A m \in 1..Len(d) : m # k => m \in 1..Len(chain[t]) /\ d[m] = chain[t][m]
       /\ k \in 1..Len(d)
  BY <1>4, <1>9
<1>11. h.head_ < h.tail_ /\ h.e_[h.head_].ptr_ = NullPtr
  <2>1. /\ c[k].head_ \in 0..Capacity /\ c[k].tail_ \in 0..Capacity /\ Capacity \in Nat
        /\ Epoch(globalepoch).ptr_ = NullPtr
    BY <1>5, <1>7, GroupFields, ElementsOf DEF RcuAssumption
  <2>2. CASE c[k].head_ = c[k].tail_
    BY <1>8, <2>1, <2>2
  <2>3. CASE c[k].head_ < c[k].tail_
    <3>1. k \in 1..Len(chain[t]) /\ c[k] = chain[t][k]
      BY <1>4, <2>3, EmptyGroupIs
    <3>2. ~Cleaning(t)
      BY <1>1 DEF Working
    <3>3. c[k].e_[c[k].head_].ptr_ = NullPtr
      BY <2>1, <2>3, <3>1, <3>2 DEF Inv, GroupsInOrder
    <3>4. c[k].head_ \in Used(c[k])
      BY <2>1, <2>3 DEF Used, Slots
    <3>. QED  BY <1>8, <2>1, <2>3, <3>3, <3>4
  <2>. QED  BY <1>4, <2>1, <2>2, <2>3
<1>. HIDE DEF h, d
<1>12. /\ chain' \in [Threads -> Seq(Groups)] /\ chain'[t] = d
       /\ limbo_tail_' \in [Threads -> Nat \ {0}] /\ limbo_tail_'[t] = k
       /\ \A u \in Threads : u # t => chain'[u] = chain[u] /\ limbo_tail_'[u] = limbo_tail_[u]
  BY <1>1, <1>4, <1>5, <1>9
<1>13. TypeOK'
  <2>1. live' \subseteq Addresses
    BY <1>1 DEF Inv, TypeOK
  <2>. QED  BY <1>1, <1>12, <2>1 DEF Inv, TypeOK
<1>14. ~Cleaning(t) /\ \A u \in Threads : Cleaning(u)' <=> Cleaning(u)
  BY <1>1 DEF Cleaning, Working
<1>15. h.head_ \in Nat /\ h.tail_ \in 0..Capacity
  BY <1>8, GroupFields
<1>16. Shape'
  <2>1. ASSUME NEW u \in Threads, u # t
        PROVE  /\ limbo_tail_'[u] \in 1..Len(chain'[u])
               /\ Cleaning(u)' => chain'[u][1].head_ # chain'[u][1].tail_
               /\ \A m \in 1..Len(chain'[u]) : chain'[u][m].head_ <= chain'[u][m].tail_
    BY <1>12, <1>14, <2>1 DEF Inv, Shape
  <2>2. \A m \in 1..Len(d) : d[m].head_ <= d[m].tail_
    <3>. SUFFICES ASSUME NEW m \in 1..Len(d) PROVE d[m].head_ <= d[m].tail_
      OBVIOUS
    <3>1. CASE m = k
      BY <1>9, <1>11, <1>15, <3>1
    <3>2. CASE m # k
      BY <1>10, <3>2 DEF Inv, Shape
    <3>. QED  BY <3>1, <3>2
  <2>. QED  BY <1>10, <1>12, <1>14, <2>1, <2>2 DEF Shape
<1>17. GroupsInOrder'
  <2>1. ASSUME NEW u \in Threads, NEW m \in 1..Len(chain'[u]), u # t
        PROVE  /\ chain'[u][m].tail_ <= Capacity
               /\ m > limbo_tail_'[u] => chain'[u][m].head_ = 0 /\ chain'[u][m].tail_ = 0
               /\ 1 < m /\ m <= limbo_tail_'[u] => chain'[u][m].head_ # chain'[u][m].tail_
               /\ chain'[u][m].head_ # chain'[u][m].tail_ /\ ~(m = 1 /\ Cleaning(u)') =>
                    chain'[u][m].e_[chain'[u][m].head_].ptr_ = NullPtr
    <3>1. chain'[u] = chain[u] /\ limbo_tail_'[u] = limbo_tail_[u] /\ (Cleaning(u)' <=> Cleaning(u))
          /\ m \in 1..Len(chain[u])
      BY <1>12, <1>14, <2>1
    <3>. QED  BY <3>1 DEF Inv, GroupsInOrder
  <2>2. ASSUME NEW m \in 1..Len(d)
        PROVE  /\ d[m].tail_ <= Capacity
               /\ m > k => d[m].head_ = 0 /\ d[m].tail_ = 0
               /\ 1 < m /\ m <= k => d[m].head_ # d[m].tail_
               /\ d[m].head_ # d[m].tail_ => d[m].e_[d[m].head_].ptr_ = NullPtr
    <3>1. CASE m = k
      BY <1>9, <1>11, <1>15, <3>1 DEF RcuAssumption
    <3>2. CASE m # k
      <4>1. m \in 1..Len(chain[t]) /\ d[m] = chain[t][m]
        BY <1>10, <3>2
      <4>2. (m > k => m > limbo_tail_[t]) /\ (m <= k => m <= limbo_tail_[t])
        BY <1>4, <1>5, <3>2
      <4>. QED  BY <1>14, <4>1, <4>2 DEF Inv, GroupsInOrder
    <3>. QED  BY <3>1, <3>2
  <2>. QED  BY <1>12, <1>14, <2>1, <2>2 DEF GroupsInOrder
<1>18. Places'
  <2>1. \A u \in Threads : Once(chain'[u]) /\ ObjectsOf(chain'[u]) \subseteq ObjectsOf(chain[u]) \cup {o}
                           /\ (u # t => ObjectsOf(chain'[u]) = ObjectsOf(chain[u]))
    BY <1>9, <1>12 DEF Inv, Places
  <2>2. \A u \in Threads : o \notin ToSet(pool_[u]) /\ o < nvm_free_addr
    BY <1>1 DEF Inv, Places
  <2>3. \A u, v \in Threads : u # v => ObjectsOf(chain'[u]) \cap ObjectsOf(chain'[v]) = {}
    <3>. SUFFICES ASSUME NEW u \in Threads, NEW v \in Threads, u # v, NEW x \in ObjectsOf(chain'[u]),
                         x \in ObjectsOf(chain'[v])
                  PROVE  FALSE
      OBVIOUS
    <3>1. \/ u = t /\ x \in ObjectsOf(chain[v]) /\ x \in ObjectsOf(chain[u]) \cup {o}
          \/ u # t /\ x \in ObjectsOf(chain[u]) /\ x \in ObjectsOf(chain[v]) \cup {o}
      BY <2>1
    <3>. QED  BY <1>6, <3>1 DEF Inv, Places
  <2>4. \A u, v \in Threads : ToSet(pool_[u]) \cap ObjectsOf(chain'[v]) = {}
    BY <2>1, <2>2 DEF Inv, Places
  <2>5. \A u \in Threads : ObjectsOf(chain'[u]) \cap live' = {}
    BY <1>1, <2>1 DEF Inv, Places
  <2>6. \A u \in Threads : \A x \in ObjectsOf(chain'[u]) : x < nvm_free_addr
    BY <2>1, <2>2 DEF Inv, Places
  <2>. QED  BY <1>1, <2>1, <2>3, <2>4, <2>5, <2>6, ZenonT(30) DEF Inv, Places
<1>19. Clocks'
  BY <1>1 DEF Inv, Clocks, Cleaning
<1>20. PICK S \in [Addresses -> Nat] : S = [R EXCEPT ![o] = globalepoch]
  BY <1>5
<1>21. S[o] = globalepoch /\ \A x \in Addresses : x # o => S[x] = R[x]
  BY <1>20
<1>22. Ages(S)'
  <2>1. \A u \in Threads : \A m \in 1..Len(chain[u]) :
          /\ chain[u][m] \in Groups /\ AgedGroup(chain[u][m], R)
          /\ chain[u][m].head_ <= chain[u][m].tail_
          /\ \A i \in Used(chain[u][m]) : chain[u][m].e_[i].ptr_ # o
    <3>1. \A u \in Threads : \A m \in 1..Len(chain[u]) : \A i \in Used(chain[u][m]) :
            chain[u][m].e_[i].ptr_ # o
      BY <1>6 DEF ObjectsOf
    <3>2. \A u \in Threads : \A m \in 1..Len(chain[u]) : chain[u][m] \in Groups
      BY <1>5
    <3>. QED  BY <1>3, <3>1, <3>2 DEF Inv, Shape, Ages
  <2>2. \A u \in Threads : \A m \in 1..Len(chain[u]) : AgedGroup(chain[u][m], S)
    BY <1>5, <1>20, <2>1, AgedOther
  <2>3. AgedGroup(h, S)
    <3>1. AgedGroup(c[k], R) /\ \A i \in Used(c[k]) : c[k].e_[i].ptr_ # o
      <4>1. CASE c[k] = EmptyGroup
        BY <4>1, EmptyGroupIs DEF AgedGroup
      <4>2. CASE k \in 1..Len(chain[t]) /\ c[k] = chain[t][k]
        BY <2>1, <4>2
      <4>. QED  BY <1>4, <4>1, <4>2
    <3>. QED  BY <1>4, <1>5, <1>7, <1>20, <3>1, AgedPushed DEF h
  <2>4. \A m \in 1..Len(d) : AgedGroup(d[m], S)
    BY <1>9, <1>10, <2>2, <2>3
  <2>5. \A u \in Threads : \A m \in 1..Len(chain'[u]) : AgedGroup(chain'[u][m], S)
    BY <1>12, <2>2, <2>4
  <2>6. ASSUME NEW u \in Threads, Cleaning(u), HeadElement(u).ptr_ # NullPtr
        PROVE  S[HeadElement(u).ptr_] = gc[u].epoch
    <3>1. 1 \in 1..Len(chain[u]) /\ chain[u][1] \in Groups /\ chain[u][1].head_ # chain[u][1].tail_
          /\ chain[u][1].head_ <= chain[u][1].tail_
      <4>1. limbo_tail_[u] \in 1..Len(chain[u]) /\ Len(chain[u]) \in Nat
        BY <1>5 DEF Inv, Shape
      <4>. QED  BY <1>5, <2>6, <4>1 DEF Inv, Shape
    <3>2. chain[u][1].head_ \in Used(chain[u][1])
      BY <3>1, GroupFields DEF Used, Slots, RcuAssumption
    <3>3. HeadElement(u).ptr_ # o /\ HeadElement(u).ptr_ \in Addresses
      <4>1. chain[u][1].head_ \in Slots
        BY <3>2 DEF Used
      <4>. QED  BY <2>1, <2>6, <3>1, <3>2, <4>1, GroupFields DEF HeadElement
    <3>. QED  BY <1>3, <1>21, <2>6, <3>3 DEF Ages
  <2>7. ASSUME NEW u \in Threads, Cleaning(u)'
        PROVE  u # t /\ HeadElement(u)' = HeadElement(u) /\ Cleaning(u)
    BY <1>12, <1>14, <2>7 DEF HeadElement
  <2>8. \A u \in Threads : Cleaning(u)' /\ HeadElement(u)'.ptr_ # NullPtr => S[HeadElement(u)'.ptr_] = gc'[u].epoch
    BY <1>1, <2>6, <2>7
  <2>. QED  BY <2>5, <2>8 DEF Ages
<1>23. Protected(S, F)'
  <2>1. \A u \in Threads : gc_epoch_[u] \in Nat /\ gc_epoch_[u] <= globalepoch /\ held[u] \subseteq Addresses
    BY <1>5 DEF Inv, TypeOK, Clocks, Epochs
  <2>2. \A u \in Threads : \A x \in held[u] : x \in live' \/ gc_epoch_[u] <= S[x]
    BY <1>1, <1>3, <1>21, <2>1 DEF Protected
  <2>3. \A x \in ckpt : x \in live' \/ F <= S[x]
    BY <1>1, <1>3, <1>21 DEF Protected, Inv, TypeOK
  <2>. QED  BY <1>1, <1>3, <2>2, <2>3 DEF Protected
<1>. QED  BY <1>13, <1>16, <1>17, <1>18, <1>19, <1>22, <1>23 DEF Inv

-----------------------------------------------------------------------------
(* Reclamation *)

\* While the loop runs the list has a first element.
LEMMA CleaningAt ==
  ASSUME RcuAssumption, Inv, NEW t \in Threads, Cleaning(t)
  PROVE  LET g == chain[t][1]
         IN /\ chain[t] \in Seq(Groups) /\ Len(chain[t]) \in Nat \ {0} /\ 1 \in 1..Len(chain[t])
            /\ limbo_tail_[t] \in 1..Len(chain[t])
            /\ g \in Groups /\ g.head_ < g.tail_ /\ g.head_ \in Used(g) /\ g.head_ \in Slots
            /\ HeadElement(t) = g.e_[g.head_] /\ HeadElement(t) \in Elements
            /\ gc[t] \in Locals /\ gc[t].epoch_bound \in Nat /\ gc[t].epoch_bound + 1 \in Epochs
            /\ gc[t].epoch <= gc[t].epoch_bound /\ gc[t].epoch_bound < active_epoch
            /\ held[t] = {} /\ t \notin flushing
<1>1. /\ chain[t] \in Seq(Groups) /\ limbo_tail_[t] \in 1..Len(chain[t])
      /\ chain[t][1].head_ # chain[t][1].tail_
  BY DEF Inv, TypeOK, Shape
<1>2. Len(chain[t]) \in Nat \ {0} /\ 1 \in 1..Len(chain[t]) /\ chain[t][1] \in Groups
  <2>1. Len(chain[t]) \in Nat
    BY <1>1
  <2>. QED  BY <1>1, <2>1
<1>3. chain[t][1].head_ <= chain[t][1].tail_
  BY <1>2 DEF Inv, Shape
<1>4. /\ chain[t][1].head_ \in 0..Capacity /\ chain[t][1].tail_ \in 0..Capacity /\ Capacity \in Nat
      /\ chain[t][1].e_ \in [Slots -> Elements]
  BY <1>2, GroupFields DEF RcuAssumption
<1>5. /\ chain[t][1].head_ < chain[t][1].tail_ /\ chain[t][1].head_ \in Slots
      /\ chain[t][1].head_ \in Used(chain[t][1])
  BY <1>1, <1>3, <1>4 DEF Used, Slots
<1>6. gc[t] \in Locals /\ gc[t].epoch_bound \in Nat
  BY DEF Inv, TypeOK, Locals, Epochs
<1>7. /\ gc[t].epoch <= gc[t].epoch_bound /\ gc[t].epoch_bound < active_epoch
      /\ held[t] = {} /\ t \notin flushing
  BY DEF Inv, Clocks
<1>8. gc[t].epoch_bound + 1 \in Epochs
  <2>1. globalepoch \in Epochs /\ active_epoch \in 1..globalepoch /\ MaxEpoch \in Nat
    BY DEF Inv, TypeOK, RcuAssumption
  <2>. QED  BY <1>6, <1>7, <2>1 DEF Epochs
<1>. QED  BY <1>1, <1>2, <1>4, <1>5, <1>6, <1>7, <1>8 DEF HeadElement

\* The pool gets what leaves the list, if it is an object.
LEMMA CleanPlaces ==
  ASSUME RcuAssumption, Inv, NEW t \in Threads, NEW d \in Seq(Groups), NEW x,
         chain' = [chain EXCEPT ![t] = d], Once(d), ObjectsOf(d) \subseteq ObjectsOf(chain[t]),
         UNCHANGED <<nvm_free_addr, nfree, live, held, ckpt>>,
         \/ pool_' = pool_
         \/ /\ pool_' = [pool_ EXCEPT ![t] = <<x>> \o @]
            /\ x \in ObjectsOf(chain[t]) /\ x \notin ObjectsOf(d)
            /\ x \notin ckpt /\ \A u \in Threads : x \notin held[u]
  PROVE  Places' /\ pool_' \in [Threads -> Seq(Addresses)]
<1>1. /\ chain \in [Threads -> Seq(Groups)] /\ pool_ \in [Threads -> Seq(Addresses)]
      /\ \A u \in Threads : IsInjective(pool_[u]) /\ Once(chain[u])
  BY DEF Inv, TypeOK, Places
<1>2. /\ \A u \in Threads : Once(chain'[u]) /\ ObjectsOf(chain'[u]) \subseteq ObjectsOf(chain[u])
      /\ \A u \in Threads : u # t => chain'[u] = chain[u]
      /\ chain'[t] = d
  BY <1>1
<1>3. CASE pool_' = pool_
  BY <1>1, <1>2, <1>3 DEF Inv, Places
<1>4. CASE pool_' # pool_
  <2>1. /\ pool_' = [pool_ EXCEPT ![t] = <<x>> \o pool_[t]]
        /\ x \in ObjectsOf(chain[t]) /\ x \notin ObjectsOf(d)
        /\ x \notin ckpt /\ \A u \in Threads : x \notin held[u]
    BY <1>4
  <2>2. x \in Addresses /\ x \notin live /\ x < nvm_free_addr
        /\ (\A u \in Threads : x \notin ToSet(pool_[u]))
        /\ \A u \in Threads : x \notin ObjectsOf(chain'[u])
    <3>1. x \in Addresses
      BY <2>1 DEF ObjectsOf
    <3>2. x \notin live /\ x < nvm_free_addr /\ \A u \in Threads : x \notin ToSet(pool_[u])
      BY <2>1 DEF Inv, Places
    <3>3. \A u \in Threads : x \notin ObjectsOf(chain'[u])
      BY <1>2, <2>1 DEF Inv, Places
    <3>. QED  BY <3>1, <3>2, <3>3
  <2>3. /\ <<x>> \o pool_[t] \in Seq(Addresses) /\ IsInjective(<<x>> \o pool_[t])
        /\ ToSet(<<x>> \o pool_[t]) = ToSet(pool_[t]) \cup {x}
    BY <1>1, <2>2, PoolPush
  <2>4. /\ pool_' \in [Threads -> Seq(Addresses)]
        /\ \A u \in Threads : /\ IsInjective(pool_'[u])
                              /\ u # t => ToSet(pool_'[u]) = ToSet(pool_[u])
        /\ ToSet(pool_'[t]) = ToSet(pool_[t]) \cup {x}
    BY <1>1, <2>1, <2>3
  <2>5. \A u \in Threads : \A o \in ToSet(pool_'[u]) :
          /\ o \notin live /\ o \notin ckpt /\ o < nvm_free_addr
          /\ \A v \in Threads : /\ o \notin held[v] /\ o \notin ObjectsOf(chain'[v])
                                /\ u # v => o \notin ToSet(pool_'[v])
    <3>. SUFFICES ASSUME NEW u \in Threads, NEW o \in ToSet(pool_'[u])
                  PROVE  /\ o \notin live /\ o \notin ckpt /\ o < nvm_free_addr
                         /\ \A v \in Threads : /\ o \notin held[v] /\ o \notin ObjectsOf(chain'[v])
                                               /\ u # v => o \notin ToSet(pool_'[v])
      OBVIOUS
    <3>1. CASE o = x
      <4>1. u = t
        BY <2>2, <2>4, <3>1
      <4>. QED  BY <2>1, <2>2, <2>4, <3>1, <4>1
    <3>2. CASE o # x
      <4>1. o \in ToSet(pool_[u])
        BY <2>4, <3>2
      <4>. QED  BY <1>2, <2>4, <3>2, <4>1 DEF Inv, Places
    <3>. QED  BY <3>1, <3>2
  <2>6. \A u, v \in Threads : u # v => ObjectsOf(chain'[u]) \cap ObjectsOf(chain'[v]) = {}
    BY <1>2 DEF Inv, Places
  <2>7. \A u \in Threads : /\ ObjectsOf(chain'[u]) \cap live = {}
                           /\ \A o \in ObjectsOf(chain'[u]) \cup held[u] : o < nvm_free_addr
    BY <1>2 DEF Inv, Places
  <2>8. (\A o \in live : o < nvm_free_addr) /\ \A o \in ckpt : o < nfree
    BY DEF Inv, Places
  <2>. QED  BY <1>2, <2>4, <2>5, <2>6, <2>7, <2>8, ZenonT(30) DEF Places
<1>. QED  BY <1>3, <1>4

\* What the head element is at least: older than any epoch that is active.
LEMMA FreedIsOld ==
  ASSUME RcuAssumption, Inv, NEW t \in Threads, Cleaning(t), NEW R \in [Addresses -> Nat],
         NEW F \in Nat, Ages(R), Protected(R, F), HeadElement(t).ptr_ # NullPtr
  PROVE  LET x == HeadElement(t).ptr_
         IN x \in ObjectsOf(chain[t]) /\ x \notin ckpt /\ \A u \in Threads : x \notin held[u]
<1>. DEFINE x == HeadElement(t).ptr_
<1>1. /\ 1 \in 1..Len(chain[t]) /\ chain[t][1].head_ \in Used(chain[t][1]) /\ HeadElement(t) \in Elements
      /\ HeadElement(t) = chain[t][1].e_[chain[t][1].head_]
      /\ gc[t].epoch <= gc[t].epoch_bound /\ gc[t].epoch_bound < active_epoch
      /\ gc[t] \in Locals
  BY CleaningAt
<1>2. x \in Addresses
  BY <1>1 DEF Elements
<1>3. x \in ObjectsOf(chain[t]) /\ x \notin live
  BY <1>1, <1>2 DEF ObjectsOf, Inv, Places
<1>4. R[x] < active_epoch /\ R[x] \in Nat /\ active_epoch \in Nat
  <2>1. R[x] = gc[t].epoch
    BY DEF Ages
  <2>2. gc[t].epoch \in Nat /\ gc[t].epoch_bound \in Nat /\ active_epoch \in Nat
    BY <1>1 DEF Locals, Epochs, Inv, TypeOK
  <2>. QED  BY <1>1, <2>1, <2>2
<1>. HIDE DEF x
<1>5. ASSUME NEW u \in Threads, x \in held[u] PROVE FALSE
  <2>1. gc_epoch_[u] # 0 /\ active_epoch <= gc_epoch_[u] /\ gc_epoch_[u] \in Nat
    BY <1>5, SMTT(20) DEF Inv, Clocks, TypeOK, Epochs
  <2>2. gc_epoch_[u] <= R[x]
    BY <1>3, <1>5 DEF Protected
  <2>. QED  BY <1>4, <2>1, <2>2
<1>6. ASSUME x \in ckpt PROVE FALSE
  <2>1. F <= R[x]
    BY <1>3, <1>6 DEF Protected
  <2>2. CASE flushing = {}
    <3>1. F = globalepoch /\ active_epoch <= globalepoch /\ globalepoch \in Nat
      BY <2>2 DEF Protected, Inv, TypeOK, Epochs
    <3>. QED  BY <1>4, <2>1, <3>1
  <2>3. CASE flushing # {}
    <3>1. PICK u \in Threads : u \in flushing
      BY <2>3 DEF Inv, TypeOK
    <3>2. gc_epoch_[u] <= F /\ active_epoch <= gc_epoch_[u] /\ gc_epoch_[u] \in Nat
      BY <3>1 DEF Protected, Inv, Clocks, TypeOK, Epochs
    <3>. QED  BY <1>4, <2>1, <3>2
  <2>. QED  BY <2>2, <2>3
<1>. QED  BY <1>3, <1>5, <1>6 DEF x

\* done:
LEMMA EndGcKeeps ==
  ASSUME RcuAssumption, Inv, NEW t \in Threads, Cleaning(t), NEW e \in Epochs, EndGc(t, e),
         UNCHANGED <<globalepoch, active_epoch, flushing, live, held, ckpt>>
  PROVE  /\ gc' \in [Threads -> Locals] /\ perform_gc_epoch_' \in [Threads -> Epochs]
         /\ gc_epoch_' \in [Threads -> Epochs]
         /\ ~Cleaning(t)' /\ (\A u \in Threads : u # t => gc'[u] = gc[u] /\ (Cleaning(u)' <=> Cleaning(u)))
         /\ Clocks' /\ \A R : \A F : Protected(R, F) => Protected(R, F)'
<1>1. /\ gc \in [Threads -> Locals] /\ perform_gc_epoch_ \in [Threads -> Epochs]
      /\ gc_epoch_ \in [Threads -> Epochs] /\ 0 \in Epochs /\ Idle \in Locals /\ Idle.count = 0
  BY DEF Inv, TypeOK, Epochs, RcuAssumption, Idle, Locals
<1>2. /\ gc' \in [Threads -> Locals] /\ gc'[t] = Idle /\ \A u \in Threads : u # t => gc'[u] = gc[u]
  BY <1>1 DEF EndGc
<1>3. /\ gc_epoch_' \in [Threads -> Epochs] /\ (gc_epoch_'[t] = gc_epoch_[t] \/ gc_epoch_'[t] = 0)
      /\ \A u \in Threads : u # t => gc_epoch_'[u] = gc_epoch_[u]
  BY <1>1 DEF EndGc
<1>4. perform_gc_epoch_' \in [Threads -> Epochs]
  BY <1>1 DEF EndGc
<1>5. ~Cleaning(t)' /\ (\A u \in Threads : u # t => gc'[u] = gc[u] /\ (Cleaning(u)' <=> Cleaning(u)))
  BY <1>1, <1>2 DEF Cleaning
<1>6. held[t] = {} /\ t \notin flushing /\ flushing \subseteq Threads
  BY CleaningAt DEF Inv, TypeOK
<1>7. Clocks'
  BY <1>3, <1>5, <1>6 DEF Inv, Clocks
<1>8. \A R : \A F : Protected(R, F) => Protected(R, F)'
  BY <1>3, <1>6 DEF Protected
<1>. QED  BY <1>2, <1>3, <1>4, <1>5, <1>7, <1>8

\* The parts of the invariant about the lists, when one list becomes d.
LEMMA ListKeeps ==
  ASSUME RcuAssumption, Inv, NEW t \in Threads, NEW R \in [Addresses -> Nat], Ages(R),
         NEW d \in Seq(Groups), NEW lt \in 1..Len(d),
         chain' = [chain EXCEPT ![t] = d], limbo_tail_' = [limbo_tail_ EXCEPT ![t] = lt],
         \A u \in Threads : u # t => gc'[u] = gc[u],
         Ordered(d, lt, R),
         Cleaning(t)' \/ d[1].head_ = d[1].tail_ \/ d[1].e_[d[1].head_].ptr_ = NullPtr,
         Cleaning(t)' =>
           /\ d[1].head_ # d[1].tail_
           /\ d[1].e_[d[1].head_].ptr_ # NullPtr => R[d[1].e_[d[1].head_].ptr_] = gc'[t].epoch
  PROVE  /\ chain' \in [Threads -> Seq(Groups)] /\ limbo_tail_' \in [Threads -> Nat \ {0}]
         /\ Shape' /\ GroupsInOrder' /\ Ages(R)'
<1>1. /\ chain' \in [Threads -> Seq(Groups)] /\ chain'[t] = d
      /\ limbo_tail_' \in [Threads -> Nat \ {0}] /\ limbo_tail_'[t] = lt
      /\ \A u \in Threads : u # t => chain'[u] = chain[u] /\ limbo_tail_'[u] = limbo_tail_[u]
  BY DEF Inv, TypeOK
<1>2. \A u \in Threads : u # t => (Cleaning(u)' <=> Cleaning(u))
  BY DEF Cleaning
<1>. USE DEF Ordered
<1>3. \A k \in 1..Len(d) : d[k].tail_ <= Capacity
  <2>1. \A k \in 1..Len(d) : d[k] \in Groups
    OBVIOUS
  <2>2. \A g \in Groups : g.tail_ <= Capacity
    BY GroupFields DEF RcuAssumption
  <2>. QED  BY <2>1, <2>2
<1>4. Shape'
  <2>. SUFFICES ASSUME NEW u \in Threads
                PROVE  /\ limbo_tail_'[u] \in 1..Len(chain'[u])
                       /\ Cleaning(u)' => chain'[u][1].head_ # chain'[u][1].tail_
                       /\ \A k \in 1..Len(chain'[u]) : chain'[u][k].head_ <= chain'[u][k].tail_
    BY DEF Shape
  <2>1. CASE u = t
    BY <1>1, <2>1
  <2>2. CASE u # t
    BY <1>1, <1>2, <2>2 DEF Inv, Shape
  <2>. QED  BY <2>1, <2>2
<1>5. GroupsInOrder'
  <2>. SUFFICES ASSUME NEW u \in Threads, NEW k \in 1..Len(chain'[u])
                PROVE  /\ chain'[u][k].tail_ <= Capacity
                       /\ k > limbo_tail_'[u] => chain'[u][k].head_ = 0 /\ chain'[u][k].tail_ = 0
                       /\ 1 < k /\ k <= limbo_tail_'[u] => chain'[u][k].head_ # chain'[u][k].tail_
                       /\ chain'[u][k].head_ # chain'[u][k].tail_ /\ ~(k = 1 /\ Cleaning(u)') =>
                            chain'[u][k].e_[chain'[u][k].head_].ptr_ = NullPtr
    BY DEF GroupsInOrder
  <2>1. CASE u = t
    BY <1>1, <1>3, <2>1
  <2>2. CASE u # t
    <3>1. chain'[u] = chain[u] /\ limbo_tail_'[u] = limbo_tail_[u] /\ (Cleaning(u)' <=> Cleaning(u))
          /\ k \in 1..Len(chain[u])
      BY <1>1, <1>2, <2>2
    <3>. QED  BY <3>1 DEF Inv, GroupsInOrder
  <2>. QED  BY <2>1, <2>2
<1>6. Ages(R)'
  <2>. SUFFICES ASSUME NEW u \in Threads
                PROVE  /\ \A k \in 1..Len(chain'[u]) : AgedGroup(chain'[u][k], R)
                       /\ Cleaning(u)' /\ HeadElement(u)'.ptr_ # NullPtr =>
                            R[HeadElement(u)'.ptr_] = gc'[u].epoch
    BY DEF Ages
  <2>1. CASE u = t
    BY <1>1, <2>1 DEF HeadElement
  <2>2. CASE u # t
    BY <1>1, <1>2, <2>2, SMTT(20) DEF Ages, HeadElement
  <2>. QED  BY <2>1, <2>2
<1>. QED  BY <1>1, <1>4, <1>5, <1>6

\* The facts about a list, its groups one by one.
LEMMA ListOf ==
  ASSUME RcuAssumption, Inv, NEW t \in Threads, NEW R, Ages(R), NEW k \in 1..Len(chain[t])
  PROVE  /\ chain[t][k] \in Groups /\ AgedGroup(chain[t][k], R)
         /\ chain[t][k].head_ <= chain[t][k].tail_
         /\ k > limbo_tail_[t] => chain[t][k].head_ = 0 /\ chain[t][k].tail_ = 0
         /\ 1 < k /\ k <= limbo_tail_[t] => chain[t][k].head_ # chain[t][k].tail_
         /\ chain[t][k].head_ # chain[t][k].tail_ /\ ~(k = 1 /\ Cleaning(t)) =>
              chain[t][k].e_[chain[t][k].head_].ptr_ = NullPtr
<1>1. chain[t] \in Seq(Groups)
  BY DEF Inv, TypeOK
<1>2. chain[t][k] \in Groups
  BY <1>1
<1>3. AgedGroup(chain[t][k], R) /\ chain[t][k].head_ <= chain[t][k].tail_
  BY DEF Ages, Inv, Shape
<1>. QED  BY <1>2, <1>3 DEF Inv, GroupsInOrder

\* What a step of the loop leaves of the list, the pools aside.
Kept(t, R) ==
  /\ \E d \in Seq(Groups) :
       /\ chain' = [chain EXCEPT ![t] = d] /\ Once(d) /\ ObjectsOf(d) \subseteq ObjectsOf(chain[t])
       /\ HeadElement(t).ptr_ \in Addresses => HeadElement(t).ptr_ \notin ObjectsOf(d)
  /\ chain' \in [Threads -> Seq(Groups)] /\ limbo_tail_' \in [Threads -> Nat \ {0}]
  /\ gc' \in [Threads -> Locals] /\ perform_gc_epoch_' \in [Threads -> Epochs]
  /\ gc_epoch_' \in [Threads -> Epochs]
  /\ Shape' /\ GroupsInOrder' /\ Clocks' /\ Ages(R)'
  /\ \A F : Protected(R, F) => Protected(R, F)'

\* The loop stays in its group: the next element is as old as the last epoch.
LEMMA StayKeeps ==
  ASSUME RcuAssumption, Inv, NEW t \in Threads, Cleaning(t), NEW R \in [Addresses -> Nat], Ages(R),
         NEW locals \in Locals, locals.count > 0, locals.epoch = Age(HeadElement(t), R),
         locals.epoch <= locals.epoch_bound, locals.epoch_bound = gc[t].epoch_bound,
         Advanced(chain[t][1]).head_ # Advanced(chain[t][1]).tail_,
         chain' = [chain EXCEPT ![t] = [@ EXCEPT ![1] = Advanced(chain[t][1])]],
         gc' = [gc EXCEPT ![t] = locals],
         UNCHANGED <<limbo_tail_, gc_epoch_, perform_gc_epoch_, globalepoch, active_epoch, flushing,
                     live, held, ckpt>>
  PROVE  Kept(t, R)
<1>. DEFINE c == chain[t]
            g == chain[t][1]
            h == Advanced(g)
            d == [c EXCEPT ![1] = h]
<1>1. /\ c \in Seq(Groups) /\ Len(c) \in Nat \ {0} /\ 1 \in 1..Len(c) /\ limbo_tail_[t] \in 1..Len(c)
      /\ g \in Groups /\ g.head_ < g.tail_ /\ g.head_ \in Used(g) /\ HeadElement(t) = g.e_[g.head_]
      /\ gc[t].epoch_bound < active_epoch /\ held[t] = {} /\ t \notin flushing
  BY CleaningAt
<1>2. /\ h \in Groups /\ h.head_ <= h.tail_
      /\ \A i \in Used(h) : i \in Used(g) /\ i # g.head_ /\ h.e_[i] = g.e_[i]
  BY <1>1, AdvancedIs
<1>3. /\ AgedGroup(h, R)
      /\ h.e_[h.head_].ptr_ # NullPtr => R[h.e_[h.head_].ptr_] = Age(HeadElement(t), R)
  <2>1. AgedGroup(g, R)
    BY <1>1, ListOf
  <2>. QED  BY <1>1, <2>1, AgedAdvanced
<1>4. h.head_ # h.tail_ /\ chain' = [chain EXCEPT ![t] = d]
  OBVIOUS
<1>. HIDE DEF h
<1>5. d \in Seq(Groups) /\ Len(d) = Len(c) /\ d[1] = h /\ \A k \in 1..Len(c) : k # 1 => d[k] = c[k]
  BY <1>1, <1>2
<1>. HIDE DEF d
<1>6. Once(c)
  BY DEF Inv, Places
<1>7. /\ Once(d) /\ ObjectsOf(d) \subseteq ObjectsOf(c) /\ HeadElement(t).ptr_ \notin ObjectsOf(d)
  <2>1. Drops(c, d, 0)
    BY <1>1, <1>2, <1>5 DEF Drops
  <2>5. c[1].head_ \in Used(c[1]) /\ 1 <= Len(c)
    BY <1>1
  <2>. HIDE DEF c
  <2>2. Once(d) /\ ObjectsOf(d) \subseteq ObjectsOf(c) /\ c[1].e_[c[1].head_].ptr_ \notin ObjectsOf(d)
    BY <1>1, <1>5, <1>6, <2>1, <2>5, Shrunk
  <2>. QED  BY <1>1, <2>2 DEF c
<1>8. /\ gc' \in [Threads -> Locals] /\ gc'[t] = locals /\ \A u \in Threads : u # t => gc'[u] = gc[u]
  BY DEF Inv, TypeOK
<1>9. Cleaning(t)' /\ \A u \in Threads : u # t => (Cleaning(u)' <=> Cleaning(u))
  BY <1>8 DEF Cleaning
<1>10. limbo_tail_' = [limbo_tail_ EXCEPT ![t] = limbo_tail_[t]]
  BY DEF Inv, TypeOK
<1>11. /\ chain' \in [Threads -> Seq(Groups)] /\ limbo_tail_' \in [Threads -> Nat \ {0}]
       /\ Shape' /\ GroupsInOrder' /\ Ages(R)'
  <2>1. ASSUME NEW k \in 1..Len(d)
        PROVE  /\ d[k].head_ <= d[k].tail_ /\ AgedGroup(d[k], R)
               /\ k > limbo_tail_[t] => d[k].head_ = 0 /\ d[k].tail_ = 0
               /\ 1 < k /\ k <= limbo_tail_[t] => d[k].head_ # d[k].tail_
               /\ d[k].head_ # d[k].tail_ /\ k # 1 => d[k].e_[d[k].head_].ptr_ = NullPtr
    <3>1. CASE k = 1
      BY <1>1, <1>2, <1>3, <1>5, <1>9, <3>1
    <3>2. CASE k # 1
      BY <1>5, <3>2, ListOf
    <3>. QED  BY <3>1, <3>2
  <2>2. limbo_tail_[t] \in 1..Len(d)
    BY <1>1, <1>5
  <2>3. d[1].head_ # d[1].tail_
        /\ d[1].e_[d[1].head_].ptr_ # NullPtr => R[d[1].e_[d[1].head_].ptr_] = gc'[t].epoch
    BY <1>3, <1>4, <1>5, <1>8
  <2>4. Ordered(d, limbo_tail_[t], R)
    BY <2>1 DEF Ordered
  <2>. QED  BY <1>4, <1>5, <1>8, <1>9, <1>10, <2>2, <2>3, <2>4, ListKeeps
<1>12. Clocks'
  BY <1>1, <1>8, <1>9 DEF Inv, Clocks
<1>13. \A F : Protected(R, F) => Protected(R, F)'
  BY DEF Protected
<1>. QED  BY <1>4, <1>5, <1>7, <1>8, <1>11, <1>12, <1>13 DEF Kept, Inv, TypeOK

\* The loop leaves an emptied group: the next one begins with an epoch.
LEMMA MoveKeeps ==
  ASSUME RcuAssumption, Inv, NEW t \in Threads, Cleaning(t), NEW R \in [Addresses -> Nat], Ages(R),
         NEW locals \in Locals, locals.count > 0, locals.epoch_bound = gc[t].epoch_bound,
         Advanced(chain[t][1]).head_ = Advanced(chain[t][1]).tail_, limbo_tail_[t] > 1,
         chain' = [chain EXCEPT ![t] = Append(Tail(@), Advanced(chain[t][1]))],
         limbo_tail_' = [limbo_tail_ EXCEPT ![t] = @ - 1],
         gc' = [gc EXCEPT ![t] = [locals EXCEPT !.epoch = 0]],
         UNCHANGED <<gc_epoch_, perform_gc_epoch_, globalepoch, active_epoch, flushing,
                     live, held, ckpt>>
  PROVE  Kept(t, R)
<1>. DEFINE c == chain[t]
            g == chain[t][1]
            lt == limbo_tail_[t] - 1
            d == Append(Tail(c), EmptyGroup)
            now == [locals EXCEPT !.epoch = 0]
<1>1. /\ c \in Seq(Groups) /\ Len(c) \in Nat \ {0} /\ 1 \in 1..Len(c) /\ limbo_tail_[t] \in 1..Len(c)
      /\ g \in Groups /\ g.head_ < g.tail_ /\ g.head_ \in Used(g) /\ HeadElement(t) = g.e_[g.head_]
      /\ gc[t].epoch_bound < active_epoch /\ gc[t].epoch_bound \in Nat
      /\ held[t] = {} /\ t \notin flushing
  BY CleaningAt
<1>2. Advanced(g) = EmptyGroup
  BY <1>1, AdvancedIs
<1>3. chain' = [chain EXCEPT ![t] = d] /\ limbo_tail_' = [limbo_tail_ EXCEPT ![t] = lt]
      /\ gc' = [gc EXCEPT ![t] = now]
  BY <1>2
<1>4. now \in Locals /\ now.count > 0 /\ now.epoch = 0 /\ now.epoch_bound = gc[t].epoch_bound
  BY SMTT(20) DEF Locals, Epochs, RcuAssumption
<1>. HIDE DEF now
<1>5. /\ EmptyGroup \in Groups /\ EmptyGroup.head_ = 0 /\ EmptyGroup.tail_ = 0 /\ Used(EmptyGroup) = {}
  BY EmptyGroupIs
<1>6. /\ d \in Seq(Groups) /\ Len(d) = Len(c) /\ d[Len(c)] = EmptyGroup
      /\ \A k \in 1..(Len(c) - 1) : d[k] = c[k + 1]
  <2>1. c # <<>>
    BY <1>1
  <2>. QED  BY <1>1, <1>5, <2>1, RotatedList
<1>. HIDE DEF d
<1>7. \A k \in 1..Len(d) : k = Len(c) \/ (k \in 1..(Len(c) - 1) /\ k + 1 \in 1..Len(c))
  BY <1>1, <1>6
<1>8. /\ Once(d) /\ ObjectsOf(d) \subseteq ObjectsOf(c) /\ HeadElement(t).ptr_ \notin ObjectsOf(d)
  <2>1. Drops(c, d, 1)
    BY <1>5, <1>6, <1>7 DEF Drops
  <2>2. Once(c)
    BY DEF Inv, Places
  <2>5. c[1].head_ \in Used(c[1]) /\ 1 <= Len(c)
    BY <1>1
  <2>. HIDE DEF c
  <2>3. Once(d) /\ ObjectsOf(d) \subseteq ObjectsOf(c) /\ c[1].e_[c[1].head_].ptr_ \notin ObjectsOf(d)
    BY <1>1, <1>6, <2>1, <2>2, <2>5, Shrunk
  <2>. QED  BY <1>1, <2>3 DEF c
<1>9. /\ gc' \in [Threads -> Locals] /\ gc'[t] = now /\ \A u \in Threads : u # t => gc'[u] = gc[u]
  <2>1. gc \in [Threads -> Locals]
    BY DEF Inv, TypeOK
  <2>. QED  BY <1>3, <1>4, <2>1
<1>10. Cleaning(t)' /\ \A u \in Threads : u # t => (Cleaning(u)' <=> Cleaning(u))
  BY <1>4, <1>9 DEF Cleaning
<1>11. /\ chain' \in [Threads -> Seq(Groups)] /\ limbo_tail_' \in [Threads -> Nat \ {0}]
       /\ Shape' /\ GroupsInOrder' /\ Ages(R)'
  <2>1. ASSUME NEW k \in 1..Len(d)
        PROVE  /\ d[k].head_ <= d[k].tail_ /\ AgedGroup(d[k], R)
               /\ k > lt => d[k].head_ = 0 /\ d[k].tail_ = 0
               /\ 1 < k /\ k <= lt => d[k].head_ # d[k].tail_
               /\ d[k].head_ # d[k].tail_ => d[k].e_[d[k].head_].ptr_ = NullPtr
    <3>1. CASE k = Len(c)
      <4>1. d[k] = EmptyGroup /\ lt < k
        BY <1>1, <1>6, <3>1
      <4>2. AgedGroup(EmptyGroup, R)
        BY <1>5 DEF AgedGroup
      <4>. QED  BY <1>1, <1>5, <4>1, <4>2
    <3>2. CASE k \in 1..(Len(c) - 1)
      <4>1. d[k] = c[k + 1] /\ k + 1 \in 1..Len(c) /\ k + 1 # 1
        BY <1>1, <1>6, <3>2
      <4>2. /\ AgedGroup(c[k + 1], R) /\ c[k + 1].head_ <= c[k + 1].tail_
            /\ k + 1 > limbo_tail_[t] => c[k + 1].head_ = 0 /\ c[k + 1].tail_ = 0
            /\ 1 < k + 1 /\ k + 1 <= limbo_tail_[t] => c[k + 1].head_ # c[k + 1].tail_
            /\ c[k + 1].head_ # c[k + 1].tail_ => c[k + 1].e_[c[k + 1].head_].ptr_ = NullPtr
        BY <4>1, ListOf
      <4>3. (k > lt => k + 1 > limbo_tail_[t]) /\ (k <= lt => 1 < k + 1 /\ k + 1 <= limbo_tail_[t])
        BY <1>1
      <4>. QED  BY <4>1, <4>2, <4>3
    <3>. QED  BY <1>7, <3>1, <3>2
  <2>2. lt \in 1..Len(d) /\ 1 \in 1..Len(d)
    BY <1>1, <1>6
  <2>3. d[1].head_ # d[1].tail_ /\ d[1].e_[d[1].head_].ptr_ = NullPtr
    <3>1. 1 \in 1..(Len(c) - 1) /\ 2 \in 1..Len(c) /\ 2 <= limbo_tail_[t]
      BY <1>1
    <3>2. d[1] = c[2] /\ c[2].head_ # c[2].tail_
      <4>1. d[1] = c[1 + 1]
        BY <1>6, <3>1
      <4>2. c[2].head_ # c[2].tail_
        BY <3>1, ListOf
      <4>. QED  BY <4>1, <4>2
    <3>. QED  BY <2>1, <2>2, <3>2
  <2>4. Ordered(d, lt, R)
    BY <2>1 DEF Ordered
  <2>. HIDE DEF lt
  <2>. QED  BY <1>3, <1>6, <1>9, <1>10, <2>2, <2>3, <2>4, ListKeeps
<1>12. Clocks'
  BY <1>1, <1>4, <1>9, <1>10 DEF Inv, Clocks
<1>13. \A F : Protected(R, F) => Protected(R, F)'
  BY DEF Protected
<1>. QED  BY <1>3, <1>6, <1>8, <1>9, <1>11, <1>12, <1>13 DEF Kept, Inv, TypeOK

\* The loop ends: the first group is empty or begins with an epoch again.
LEMMA EndKeeps ==
  ASSUME RcuAssumption, Inv, NEW t \in Threads, Cleaning(t), NEW R \in [Addresses -> Nat], Ages(R),
         NEW e \in Epochs, EndGc(t, e), NEW h \in Groups,
         chain' = [chain EXCEPT ![t] = [@ EXCEPT ![1] = h]],
         h.head_ <= h.tail_, AgedGroup(h, R),
         h.head_ # h.tail_ => h.e_[h.head_].ptr_ = NullPtr,
         \A i \in Used(h) : h.e_[i].ptr_ # NullPtr =>
           i \in Used(chain[t][1]) /\ i # chain[t][1].head_ /\ h.e_[i].ptr_ = chain[t][1].e_[i].ptr_,
         UNCHANGED <<limbo_tail_, globalepoch, active_epoch, flushing, live, held, ckpt>>
  PROVE  Kept(t, R)
<1>. DEFINE c == chain[t]
            g == chain[t][1]
            d == [c EXCEPT ![1] = h]
<1>1. /\ c \in Seq(Groups) /\ Len(c) \in Nat \ {0} /\ 1 \in 1..Len(c) /\ limbo_tail_[t] \in 1..Len(c)
      /\ g \in Groups /\ g.head_ < g.tail_ /\ g.head_ \in Used(g) /\ HeadElement(t) = g.e_[g.head_]
  BY CleaningAt
<1>2. chain' = [chain EXCEPT ![t] = d]
  OBVIOUS
<1>3. d \in Seq(Groups) /\ Len(d) = Len(c) /\ d[1] = h /\ \A k \in 1..Len(c) : k # 1 => d[k] = c[k]
  BY <1>1
<1>. HIDE DEF d
<1>4. /\ Once(d) /\ ObjectsOf(d) \subseteq ObjectsOf(c) /\ HeadElement(t).ptr_ \notin ObjectsOf(d)
  <2>1. Drops(c, d, 0)
    BY <1>1, <1>3 DEF Drops
  <2>2. Once(c)
    BY DEF Inv, Places
  <2>5. c[1].head_ \in Used(c[1]) /\ 1 <= Len(c)
    BY <1>1
  <2>. HIDE DEF c
  <2>3. Once(d) /\ ObjectsOf(d) \subseteq ObjectsOf(c) /\ c[1].e_[c[1].head_].ptr_ \notin ObjectsOf(d)
    BY <1>1, <1>3, <2>1, <2>2, <2>5, Shrunk
  <2>. QED  BY <1>1, <2>3 DEF c
<1>5. /\ gc' \in [Threads -> Locals] /\ perform_gc_epoch_' \in [Threads -> Epochs]
      /\ gc_epoch_' \in [Threads -> Epochs]
      /\ ~Cleaning(t)' /\ (\A u \in Threads : u # t => gc'[u] = gc[u])
      /\ Clocks' /\ \A F : Protected(R, F) => Protected(R, F)'
  BY EndGcKeeps
<1>6. limbo_tail_' = [limbo_tail_ EXCEPT ![t] = limbo_tail_[t]]
  BY DEF Inv, TypeOK
<1>7. /\ chain' \in [Threads -> Seq(Groups)] /\ limbo_tail_' \in [Threads -> Nat \ {0}]
      /\ Shape' /\ GroupsInOrder' /\ Ages(R)'
  <2>1. ASSUME NEW k \in 1..Len(d)
        PROVE  /\ d[k].head_ <= d[k].tail_ /\ AgedGroup(d[k], R)
               /\ k > limbo_tail_[t] => d[k].head_ = 0 /\ d[k].tail_ = 0
               /\ 1 < k /\ k <= limbo_tail_[t] => d[k].head_ # d[k].tail_
               /\ d[k].head_ # d[k].tail_ => d[k].e_[d[k].head_].ptr_ = NullPtr
    <3>1. CASE k = 1
      BY <1>1, <1>3, <3>1
    <3>2. CASE k # 1
      BY <1>3, <3>2, ListOf
    <3>. QED  BY <3>1, <3>2
  <2>2. limbo_tail_[t] \in 1..Len(d)
    BY <1>1, <1>3
  <2>3. Ordered(d, limbo_tail_[t], R)
    BY <2>1 DEF Ordered
  <2>4. d[1].head_ = d[1].tail_ \/ d[1].e_[d[1].head_].ptr_ = NullPtr
    BY <1>3
  <2>. QED  BY <1>2, <1>3, <1>5, <1>6, <2>2, <2>3, <2>4, ListKeeps
<1>. QED  BY <1>2, <1>3, <1>4, <1>5, <1>7 DEF Kept

\* The three ways the loop goes on.
LEMMA GoOnKeeps ==
  ASSUME RcuAssumption, Inv, NEW t \in Threads, Cleaning(t), NEW R \in [Addresses -> Nat], Ages(R),
         NEW locals \in Locals, locals.count > 0, locals.epoch = Age(HeadElement(t), R),
         locals.epoch <= locals.epoch_bound, locals.epoch_bound = gc[t].epoch_bound,
         GoOn(t, locals),
         UNCHANGED <<globalepoch, active_epoch, flushing, live, held, ckpt>>
  PROVE  Kept(t, R)
<1>. DEFINE g == Advanced(chain[t][1])
<1>1. CASE /\ g.head_ # g.tail_
           /\ chain' = [chain EXCEPT ![t] = [@ EXCEPT ![1] = g]]
           /\ gc' = [gc EXCEPT ![t] = locals]
           /\ UNCHANGED <<limbo_tail_, gc_epoch_, perform_gc_epoch_>>
  BY <1>1, StayKeeps
<1>2. CASE /\ g.head_ = g.tail_ /\ limbo_tail_[t] > 1
           /\ chain' = [chain EXCEPT ![t] = Append(Tail(@), g)]
           /\ limbo_tail_' = [limbo_tail_ EXCEPT ![t] = @ - 1]
           /\ gc' = [gc EXCEPT ![t] = [locals EXCEPT !.epoch = 0]]
           /\ UNCHANGED <<gc_epoch_, perform_gc_epoch_>>
  BY <1>2, MoveKeeps
<1>3. CASE /\ g.head_ = g.tail_ /\ limbo_tail_[t] = 1
           /\ chain' = [chain EXCEPT ![t] = [@ EXCEPT ![1] = g]]
           /\ EndGc(t, gc[t].epoch_bound + 1)
           /\ UNCHANGED limbo_tail_
  <2>1. /\ chain[t][1] \in Groups /\ chain[t][1].head_ < chain[t][1].tail_
        /\ gc[t].epoch_bound + 1 \in Epochs
    BY CleaningAt
  <2>2. g = EmptyGroup
    BY <1>3, <2>1, AdvancedIs
  <2>3. /\ EmptyGroup \in Groups /\ EmptyGroup.head_ = 0 /\ EmptyGroup.tail_ = 0 /\ Used(EmptyGroup) = {}
    BY EmptyGroupIs
  <2>4. AgedGroup(EmptyGroup, R)
    BY <2>3 DEF AgedGroup
  <2>5. chain' = [chain EXCEPT ![t] = [@ EXCEPT ![1] = EmptyGroup]]
    BY <1>3, <2>2
  <2>6. /\ EmptyGroup.head_ <= EmptyGroup.tail_
        /\ EmptyGroup.head_ # EmptyGroup.tail_ => EmptyGroup.e_[EmptyGroup.head_].ptr_ = NullPtr
        /\ \A i \in Used(EmptyGroup) : EmptyGroup.e_[i].ptr_ # NullPtr =>
             /\ i \in Used(chain[t][1]) /\ i # chain[t][1].head_
             /\ EmptyGroup.e_[i].ptr_ = chain[t][1].e_[i].ptr_
    BY <2>3
  <2>7. UNCHANGED <<limbo_tail_, globalepoch, active_epoch, flushing, live, held, ckpt>>
    BY <1>3
  <2>. HIDE DEF g
  <2>. QED  BY <1>3, <2>1, <2>3, <2>4, <2>5, <2>6, <2>7, EndKeeps
<1>. QED  BY <1>1, <1>2, <1>3 DEF GoOn

\* The pools besides: what is freed is nobody's.
LEMMA KeptInv ==
  ASSUME RcuAssumption, Inv, NEW t \in Threads, Cleaning(t), NEW R \in [Addresses -> Nat],
         NEW F \in Nat, Ages(R), Protected(R, F), Kept(t, R),
         UNCHANGED <<nvm_free_addr, nfree, globalepoch, active_epoch, flushing, live, held, ckpt>>,
         \/ pool_' = pool_
         \/ HeadElement(t).ptr_ # NullPtr /\ pool_' = [pool_ EXCEPT ![t] = <<HeadElement(t).ptr_>> \o @]
  PROVE  Inv'
<1>1. PICK d \in Seq(Groups) :
        /\ chain' = [chain EXCEPT ![t] = d] /\ Once(d) /\ ObjectsOf(d) \subseteq ObjectsOf(chain[t])
        /\ HeadElement(t).ptr_ \in Addresses => HeadElement(t).ptr_ \notin ObjectsOf(d)
  BY DEF Kept
<1>2. Places' /\ pool_' \in [Threads -> Seq(Addresses)]
  <2>. DEFINE x == HeadElement(t).ptr_
  <2>1. CASE pool_' = pool_
    BY <1>1, <2>1, CleanPlaces
  <2>2. CASE x # NullPtr /\ pool_' = [pool_ EXCEPT ![t] = <<x>> \o @]
    <3>1. x \in ObjectsOf(chain[t]) /\ x \notin ckpt /\ \A u \in Threads : x \notin held[u]
      BY <2>2, FreedIsOld
    <3>2. x \notin ObjectsOf(d)
      BY <1>1, <3>1 DEF ObjectsOf
    <3>. HIDE DEF x
    <3>. QED  BY <1>1, <2>2, <3>1, <3>2, CleanPlaces
  <2>. QED  BY <2>1, <2>2
<1>3. /\ chain' \in [Threads -> Seq(Groups)] /\ limbo_tail_' \in [Threads -> Nat \ {0}]
      /\ gc' \in [Threads -> Locals] /\ perform_gc_epoch_' \in [Threads -> Epochs]
      /\ gc_epoch_' \in [Threads -> Epochs]
      /\ Shape' /\ GroupsInOrder' /\ Clocks' /\ Ages(R)' /\ Protected(R, F)'
  BY DEF Kept
<1>4. TypeOK'
  BY <1>2, <1>3 DEF Inv, TypeOK
<1>. QED  BY <1>2, <1>3, <1>4 DEF Inv

\* At an epoch the loop goes on or ends.
LEMMA CleanEpochInv == ASSUME RcuAssumption, Inv, NEW t \in Threads, CleanEpoch(t) PROVE Inv'
<1>1. PICK R \in [Addresses -> Nat], F \in Nat : Ages(R) /\ Protected(R, F)
  BY DEF Inv
<1>2. /\ Cleaning(t) /\ HeadElement(t).ptr_ = NullPtr
      /\ UNCHANGED <<pool_, nvm_free_addr, nfree, globalepoch, active_epoch, flushing, live, held, ckpt>>
  BY DEF CleanEpoch, heap, clock
<1>3. /\ chain[t] \in Seq(Groups) /\ Len(chain[t]) \in Nat \ {0} /\ 1 \in 1..Len(chain[t])
      /\ chain[t][1] \in Groups
      /\ HeadElement(t) = chain[t][1].e_[chain[t][1].head_] /\ HeadElement(t) \in Elements
      /\ gc[t] \in Locals /\ gc[t].epoch_bound + 1 \in Epochs
  BY <1>2, CleaningAt
<1>4. Kept(t, R)
  <2>1. CASE /\ HeadElement(t).epoch <= gc[t].epoch_bound
             /\ GoOn(t, [gc[t] EXCEPT !.epoch = HeadElement(t).epoch])
    <3>. DEFINE locals == [gc[t] EXCEPT !.epoch = HeadElement(t).epoch]
    <3>1. /\ locals \in Locals /\ locals.count > 0 /\ locals.epoch = HeadElement(t).epoch
          /\ locals.epoch_bound = gc[t].epoch_bound
      BY <1>2, <1>3 DEF Locals, Elements, Cleaning
    <3>2. Age(HeadElement(t), R) = HeadElement(t).epoch
      BY <1>2 DEF Age
    <3>3. GoOn(t, locals)
      BY <2>1
    <3>. HIDE DEF locals
    <3>. QED  BY <1>1, <1>2, <2>1, <3>1, <3>2, <3>3, GoOnKeeps
  <2>2. CASE EndGc(t, gc[t].epoch_bound + 1) /\ UNCHANGED <<chain, limbo_tail_>>
    <3>. DEFINE h == chain[t][1]
    <3>1. /\ AgedGroup(h, R) /\ h.head_ <= h.tail_
      BY <1>1, <1>3, ListOf
    <3>2. chain' = [chain EXCEPT ![t] = [@ EXCEPT ![1] = h]]
      <4>1. chain \in [Threads -> Seq(Groups)]
        BY DEF Inv, TypeOK
      <4>2. [chain[t] EXCEPT ![1] = h] = chain[t]
        BY <1>3
      <4>. QED  BY <2>2, <4>1, <4>2
    <3>3. \A i \in Used(h) : h.e_[i].ptr_ # NullPtr =>
            i \in Used(chain[t][1]) /\ i # chain[t][1].head_ /\ h.e_[i].ptr_ = chain[t][1].e_[i].ptr_
      BY <1>2, <1>3
    <3>4. h \in Groups /\ h.e_[h.head_].ptr_ = NullPtr
      BY <1>2, <1>3
    <3>5. UNCHANGED <<limbo_tail_, globalepoch, active_epoch, flushing, live, held, ckpt>>
      BY <1>2, <2>2
    <3>. HIDE DEF h
    <3>. QED  BY <1>1, <1>2, <1>3, <2>2, <3>1, <3>2, <3>3, <3>4, <3>5, EndKeeps
  <2>. QED  BY <2>1, <2>2 DEF CleanEpoch, limbo
<1>. QED  BY <1>1, <1>2, <1>4, KeptInv

\* At an object the loop frees it, and goes on or ends.
LEMMA CleanObjectInv == ASSUME RcuAssumption, Inv, NEW t \in Threads, CleanObject(t) PROVE Inv'
<1>1. PICK R \in [Addresses -> Nat], F \in Nat : Ages(R) /\ Protected(R, F)
  BY DEF Inv
<1>2. /\ Cleaning(t) /\ HeadElement(t).ptr_ # NullPtr
      /\ pool_' = [pool_ EXCEPT ![t] = <<HeadElement(t).ptr_>> \o @]
      /\ UNCHANGED <<nvm_free_addr, nfree, globalepoch, active_epoch, flushing, live, held, ckpt>>
  BY DEF CleanObject, clock
<1>3. /\ chain[t] \in Seq(Groups) /\ Len(chain[t]) \in Nat \ {0} /\ 1 \in 1..Len(chain[t])
      /\ chain[t][1] \in Groups /\ chain[t][1].head_ \in Slots
      /\ HeadElement(t) = chain[t][1].e_[chain[t][1].head_] /\ HeadElement(t) \in Elements
      /\ gc[t] \in Locals /\ gc[t].epoch_bound \in Epochs
      /\ gc[t].epoch <= gc[t].epoch_bound
  <2>1. gc[t] \in Locals
    BY <1>2, CleaningAt
  <2>. QED  BY <1>2, <2>1, CleaningAt DEF Locals
<1>4. R[HeadElement(t).ptr_] = gc[t].epoch
  BY <1>1, <1>2 DEF Ages
<1>5. Kept(t, R)
  <2>1. CASE gc[t].count > 1 /\ GoOn(t, [gc[t] EXCEPT !.count = @ - 1])
    <3>. DEFINE locals == [gc[t] EXCEPT !.count = @ - 1]
    <3>1. /\ locals \in Locals /\ locals.count > 0 /\ locals.epoch = gc[t].epoch
          /\ locals.epoch_bound = gc[t].epoch_bound
      <4>1. gc[t].count \in Nat /\ gc[t].count - 1 \in 0..FreeCount /\ gc[t].count - 1 > 0
        BY <1>3, <2>1 DEF Locals, RcuAssumption
      <4>. QED  BY <1>3, <4>1 DEF Locals
    <3>2. Age(HeadElement(t), R) = gc[t].epoch
      BY <1>2, <1>4 DEF Age
    <3>3. GoOn(t, locals)
      BY <2>1
    <3>. HIDE DEF locals
    <3>. QED  BY <1>1, <1>2, <1>3, <3>1, <3>2, <3>3, GoOnKeeps
  <2>2. CASE /\ chain' = [chain EXCEPT ![t] = [@ EXCEPT ![1] = Marked(chain[t][1], gc[t].epoch)]]
             /\ EndGc(t, gc[t].epoch_bound)
             /\ UNCHANGED limbo_tail_
    <3>. DEFINE g == chain[t][1]
                h == Marked(g, gc[t].epoch)
    <3>1. /\ AgedGroup(g, R) /\ g.head_ <= g.tail_
      BY <1>1, <1>3, ListOf
    <3>2. chain' = [chain EXCEPT ![t] = [@ EXCEPT ![1] = h]]
      BY <2>2
    <3>3. /\ h \in Groups /\ h.head_ = g.head_ /\ h.tail_ = g.tail_ /\ h.epoch_ = g.epoch_
          /\ h.e_[g.head_] = Epoch(gc[t].epoch) /\ \A i \in Slots : i # g.head_ => h.e_[i] = g.e_[i]
      <4>1. /\ g.e_ \in [Slots -> Elements] /\ g.head_ \in 0..Capacity /\ g.tail_ \in 0..Capacity
            /\ g.epoch_ \in Epochs
        BY <1>3, GroupFields
      <4>2. Epoch(gc[t].epoch) \in Elements
        BY <1>3 DEF Locals, Elements, Epoch
      <4>. HIDE DEF g
      <4>3. [g.e_ EXCEPT ![g.head_] = Epoch(gc[t].epoch)] \in [Slots -> Elements]
        BY <4>1, <4>2
      <4>. QED  BY <1>3, <4>1, <4>2, <4>3 DEF Groups, Marked, g
    <3>. HIDE DEF h
    <3>4. Used(h) = Used(g) /\ \A i \in Used(g) : i \in Slots
      BY <3>3 DEF Used
    <3>5. Epoch(gc[t].epoch).ptr_ = NullPtr /\ Epoch(gc[t].epoch).epoch = gc[t].epoch
      BY DEF Epoch
    <3>6. Age(h.e_[g.head_], R) = Age(g.e_[g.head_], R)
      BY <1>2, <1>3, <1>4, <3>3, <3>5 DEF Age
    <3>7. AgedGroup(h, R)
      <4>. SUFFICES ASSUME NEW i \in Used(g)
                    PROVE  /\ g.head_ < i /\ h.e_[i].ptr_ # NullPtr =>
                                Age(h.e_[i - 1], R) = R[h.e_[i].ptr_]
                           /\ i + 1 = g.tail_ => Age(h.e_[i], R) = g.epoch_
        BY <3>3, <3>4 DEF AgedGroup
      <4>1. \A j \in Slots : Age(h.e_[j], R) = Age(g.e_[j], R)
        BY <3>3, <3>6
      <4>2. /\ g.head_ < i /\ g.e_[i].ptr_ # NullPtr => Age(g.e_[i - 1], R) = R[g.e_[i].ptr_]
            /\ i + 1 = g.tail_ => Age(g.e_[i], R) = g.epoch_
        BY <3>1 DEF AgedGroup
      <4>3. i \in Slots /\ (g.head_ < i => i - 1 \in Slots /\ i # g.head_)
        BY <1>3, <3>4 DEF Slots, RcuAssumption
      <4>. QED  BY <3>3, <4>1, <4>2, <4>3
    <3>8. h.head_ <= h.tail_ /\ h.e_[h.head_].ptr_ = NullPtr
      BY <3>1, <3>3, <3>5
    <3>9. \A i \in Used(h) : h.e_[i].ptr_ # NullPtr =>
            i \in Used(chain[t][1]) /\ i # chain[t][1].head_ /\ h.e_[i].ptr_ = chain[t][1].e_[i].ptr_
      BY <3>3, <3>4, <3>5
    <3>10. UNCHANGED <<limbo_tail_, globalepoch, active_epoch, flushing, live, held, ckpt>>
      BY <1>2, <2>2
    <3>. QED  BY <1>1, <1>2, <1>3, <2>2, <3>2, <3>3, <3>7, <3>8, <3>9, <3>10, EndKeeps
  <2>. QED  BY <2>1, <2>2 DEF CleanObject
<1>. QED  BY <1>1, <1>2, <1>5, KeptInv

-----------------------------------------------------------------------------
(* The invariant and what it gives *)

\* A step that changes nothing.
LEMMA StutterInv == ASSUME Inv, UNCHANGED vars PROVE Inv'
<1>1. TypeOK' /\ Shape' /\ GroupsInOrder'
  BY DEF Inv, vars, TypeOK, Shape, GroupsInOrder, Cleaning
<1>2. Places' /\ Clocks'
  BY DEF Inv, vars, Places, Clocks, Cleaning
<1>3. ASSUME NEW R, Ages(R) PROVE Ages(R)'
  BY <1>3 DEF vars, Ages, Cleaning, HeadElement
<1>4. ASSUME NEW R, NEW F, Protected(R, F) PROVE Protected(R, F)'
  BY <1>4 DEF vars, Protected
<1>. QED  BY <1>1, <1>2, <1>3, <1>4 DEF Inv

\* One case per action.
LEMMA NextInv == ASSUME RcuAssumption, Inv, [Next]_vars PROVE Inv'
<1>1. ASSUME NEW t \in Threads,
             \/ Allocate(t) \/ Discard(t) \/ EndOperation(t) \/ Quiesce(t)
             \/ RcuStart(t) \/ RcuStop(t) \/ CleanEpoch(t) \/ CleanObject(t)
             \/ SetGlobalEpoch(t)
      PROVE  Inv'
  BY <1>1, AllocateInv, DiscardInv, EndOperationInv, QuiesceInv, RcuStartInv, RcuStopInv,
     CleanEpochInv, CleanObjectInv, SetGlobalEpochInv
<1>2. ASSUME NEW t \in Threads, NEW o \in Addresses, Read(t, o) \/ Retire(t, o)
      PROVE  Inv'
  BY <1>2, ReadInv, RetireInv
<1>3. CASE Flush \/ EvictFreeAddr \/ Crash
  BY <1>3, FlushInv, EvictInv, CrashInv
<1>4. CASE UNCHANGED vars
  BY <1>4, StutterInv
<1>. QED  BY <1>1, <1>2, <1>3, <1>4 DEF Next

\* Where objects are says what may be reused.
LEMMA InvNoEarlyReuse == ASSUME Inv PROVE NoEarlyReuse
<1>1. ASSUME NEW u \in Threads PROVE InLimbo(u) \subseteq ObjectsOf(chain[u])
  <2>1. \A o : Object(o).ptr_ = o
    BY DEF Object
  <2>. QED  BY <2>1 DEF InLimbo, ObjectsOf
<1>2. \A t, u \in Threads :
        /\ ToSet(pool_[t]) \cap held[u] = {} /\ ToSet(pool_[t]) \cap live = {}
        /\ ToSet(pool_[t]) \cap ObjectsOf(chain[u]) = {}
        /\ t # u => ToSet(pool_[t]) \cap ToSet(pool_[u]) = {}
        /\ IsInjective(pool_[t])
  BY DEF Inv, Places
<1>. QED  BY <1>1, <1>2 DEF NoEarlyReuse

\* What the checkpoint has is below the bump pointer in the memory, too.
LEMMA InvCheckpointKept == ASSUME Inv PROVE CheckpointKept
<1>1. \A o \in ckpt : o < nfree /\ \A t \in Threads : o \notin ToSet(pool_[t])
  BY DEF Inv, Places
<1>2. ckpt \subseteq Addresses /\ nfree \in Nat /\ nvm_free_addr \in Nat /\ nfree <= nvm_free_addr
  BY DEF Inv, TypeOK
<1>. QED  BY <1>1, <1>2 DEF CheckpointKept, Reusable, Addresses

\* The inductive invariant: where objects are, how old they are, and which
\* epochs the threads are in.
THEOREM RcuInvariant == ASSUME RcuAssumption PROVE Spec => []Inv
<1>1. Init => Inv
  BY InitInv
<1>2. Inv /\ [Next]_vars => Inv'
  BY NextInv
<1>. QED  BY <1>1, <1>2, PTL DEF Spec

\* Groups, lists, pools and clocks keep to their types (kvthread.hh).
THEOREM RcuTypeCorrect == ASSUME RcuAssumption PROVE Spec => []TypeOK
<1>1. Inv => TypeOK
  BY DEF Inv
<1>. QED  BY <1>1, RcuInvariant, PTL

\* The assertions of push_back, refill_rcu and first_epoch hold whatever the
\* threads' loops, removals and failures do to the lists.
THEOREM RcuGroupsInOrder == ASSUME RcuAssumption PROVE Spec => []GroupsInOrder
<1>1. Inv => GroupsInOrder
  BY DEF Inv
<1>. QED  BY <1>1, RcuInvariant, PTL

\* clean_until frees nothing that a thread may still read, and no pool gets
\* an object that is in another pool, in a limbo list or in the tree.
THEOREM RcuNoEarlyReuse == ASSUME RcuAssumption PROVE Spec => []NoEarlyReuse
<1>. QED  BY InvNoEarlyReuse, RcuInvariant, PTL

\* Nothing the last checkpoint needs is handed out before the next one, by
\* the pools or by a bump pointer that a failure moves back.
THEOREM RcuCheckpointKept == ASSUME RcuAssumption PROVE Spec => []CheckpointKept
<1>. QED  BY InvCheckpointKept, RcuInvariant, PTL
=============================================================================
