------------------------------- MODULE Layers -------------------------------
(***************************************************************************)
(* The trie of layers: keys longer than a slice share a layer below the    *)
(* entry of their common slice.  make_new_layer creates layers, an emptied *)
(* layer is collected by a callback that RCU runs later (gc_layer), and    *)
(* threads may stand in a layer that goes away (deleted_layer).            *)
(*                                                                         *)
(* A key is a sequence of slices of 8 bytes.  Each layer is a single leaf  *)
(* here (BLinkTree.tla has the leaves of one layer); a leaf's entry is     *)
(* addressed by slice and by whether the key ends there (keylenx <= 8) or  *)
(* goes on (a suffix or a layer).                                          *)
(***************************************************************************)
EXTENDS Integers, Sequences

CONSTANTS Threads, Main, Collector,
          Slices,
          Keys,          \* a set of sequences of slices
          Leaves,        \* numbers; 1 is the root of the first layer
          Programs       \* what each thread does: a sequence of choices of [op, key]

Ops == [op : {"get", "put", "remove"}, key : Keys]
ASSUME LayersAssumption ==
  /\ Keys \subseteq Seq(Slices) \ {<<>>}
  /\ Leaves \subseteq Nat /\ 1 \in Leaves
  /\ Programs \subseteq [Threads -> Seq(SUBSET Ops)]

VARIABLES leaf, cur, prog, idx, abs, seen,
          callbacks      \* registered gc_layer callbacks

trieVars == <<leaf, cur, prog, idx, abs, seen, callbacks>>

NoValue == "absent"
Torn == "torn"                  \* a value read as a layer or a layer as a value
Held == Threads \cup {NoValue, Torn}

TrieSlots == Slices \X {"end", "more"}
Entries == [kind : {"none", "value", "layer"}, suf : Seq(Slices), val : Held, to : Leaves]
NoEntry == [kind |-> "none", suf |-> <<>>, val |-> NoValue, to |-> 1]
Value(suf, v) == [kind |-> "value", suf |-> suf, val |-> v, to |-> 1]
Layer(l) == [kind |-> "layer", suf |-> <<>>, val |-> NoValue, to |-> l]

\* (History.)  place: "free", "new" (made, nobody sees it), "in" the trie or
\* "out" of it; path: the slices that lead to the leaf.
NewLeaf == [lock |-> FALSE, ins |-> FALSE, vi |-> 0, mod |-> "insert",
            ent |-> [s \in TrieSlots |-> NoEntry], place |-> "new", path |-> <<>>]
NoCur == [pc |-> "idle", op |-> "get", k |-> <<>>, n |-> 1, d |-> 1, v |-> 0, e |-> NoEntry,
          all |-> {}, got |-> NoValue, new |-> <<>>, to |-> 1]

EmptyTrie ==
  /\ leaf = [l \in Leaves |-> [NewLeaf EXCEPT !.place = IF l = 1 THEN "in" ELSE "free"]]
  /\ cur = [t \in Threads |-> NoCur]
  /\ idx = [t \in Threads |-> 0]
  /\ abs = [k \in Keys |-> NoValue]
  /\ seen = [t \in Threads |-> {}]
  /\ callbacks = {}
TrieInit == EmptyTrie /\ prog \in Programs

Unlocked(x) == [x EXCEPT !.lock = FALSE, !.ins = FALSE, !.vi = @ + (IF x.ins THEN 1 ELSE 0)]

\* The entry for the part of a key from slice d on, and its suffix.
Slot(k, d) == <<k[d], IF Len(k) = d THEN "end" ELSE "more">>
Suffix(k, d) == SubSeq(k, d + 1, Len(k))
With(x, slot, e) == [x EXCEPT !.ent[slot] = e]
InUse(x) == {s \in TrieSlots : x.ent[s].kind # "none"}

At(t, pc) == cur[t].pc = pc
Go(t, c) == cur' = [cur EXCEPT ![t] = c]
Becomes(k, v) ==
  /\ abs' = [abs EXCEPT ![k] = v]
  /\ seen' = [t \in Threads |-> IF ~At(t, "idle") /\ cur[t].k = k THEN seen[t] \cup {v} ELSE seen[t]]

\* has_changed, since the version was taken (never while marked).
Changed(t) == leaf[cur[t].n].ins \/ leaf[cur[t].n].vi # cur[t].v

\* The n lowest leaves that are free.  (Bound: none if fewer are left.)
Free == {l \in Leaves : leaf[l].place = "free"}
Fresh(n) == {s \in [1..n -> Free] :
               /\ \A i, j \in 1..n : i < j => s[i] < s[j]
               /\ \A l \in Free : l < s[n] => \E i \in 1..n : s[i] = l}

-----------------------------------------------------------------------------
Start(t, op, k) == Go(t, [NoCur EXCEPT !.pc = "reach", !.op = op, !.k = k])

Begin(t) ==
  /\ At(t, "idle") /\ idx[t] < Len(prog[t])
  /\ t # Main => idx[Main] = Len(prog[Main]) /\ At(Main, "idle")
  /\ \E o \in prog[t][idx[t] + 1] :
       /\ Start(t, o.op, o.key)
       /\ seen' = [seen EXCEPT ![t] = {abs[o.key]}]
  /\ idx' = [idx EXCEPT ![t] = @ + 1]
  /\ UNCHANGED <<leaf, prog, abs, callbacks>>

Return(t) ==
  /\ At(t, "done")
  /\ Go(t, NoCur)
  /\ seen' = [seen EXCEPT ![t] = {}]
  /\ callbacks' = {[c EXCEPT !.wait = @ \ {t}] : c \in callbacks}
  /\ UNCHANGED <<leaf, prog, idx, abs>>

\* reach_leaf of the layer, then the entry of the key's slice.
Reach(t) ==
  LET n == cur[t].n
  IN /\ At(t, "reach") /\ ~leaf[n].ins
     /\ Go(t, [cur[t] EXCEPT !.pc = "entry", !.v = leaf[n].vi])
     /\ UNCHANGED <<leaf, prog, idx, abs, seen, callbacks>>

Slot_(t) == Slot(cur[t].k, cur[t].d)
Entry(t) == leaf[cur[t].n].ent[Slot_(t)]

\* lv_ and then keylenx_, in one step: a writer marks the node before it changes
\* either (mark_insert), so a reader that met a mix of two entries finds the
\* version changed in the step that follows.
ReadEntry(t) ==
  /\ At(t, "entry")
  /\ Go(t, [cur[t] EXCEPT !.pc = IF cur[t].op = "get" THEN "valid" ELSE "layer",
                          !.e = Entry(t), !.all = InUse(leaf[cur[t].n])])
  /\ UNCHANGED <<leaf, prog, idx, abs, seen, callbacks>>

Down(t) == Go(t, [cur[t] EXCEPT !.pc = "reach", !.n = cur[t].e.to, !.d = @ + 1])
Again(t) == Go(t, [cur[t] EXCEPT !.pc = "reach"])
Matches(t) == cur[t].e.kind = "value" /\ cur[t].e.suf = Suffix(cur[t].k, cur[t].d)

\* find_unlocked.
Validate(t) ==
  /\ At(t, "valid")
  /\ IF Changed(t) THEN Again(t)
     ELSE IF cur[t].e.kind = "layer" THEN Down(t)
     ELSE Go(t, [cur[t] EXCEPT !.pc = "done", !.got = IF Matches(t) THEN cur[t].e.val ELSE NoValue])
  /\ UNCHANGED <<leaf, prog, idx, abs, seen, callbacks>>

\* find_locked: down a layer if nothing changed, else lock.
TryLayer(t) ==
  /\ At(t, "layer")
  /\ IF cur[t].e.kind = "layer" /\ ~Changed(t) THEN Down(t)
                                               ELSE Go(t, [cur[t] EXCEPT !.pc = "lock"])
  /\ UNCHANGED <<leaf, prog, idx, abs, seen, callbacks>>

\* In the leaf of a deleted layer the search starts again at the top; the
\* leaf stays locked.
LockLeaf(t) ==
  LET n == cur[t].n
  IN /\ At(t, "lock") /\ ~leaf[n].lock
     /\ IF Changed(t) \/ InUse(leaf[n]) # cur[t].all
          THEN Again(t) /\ UNCHANGED leaf
        ELSE /\ leaf' = [leaf EXCEPT ![n].lock = TRUE]
             /\ IF leaf[n].mod = "deleted" THEN Go(t, [cur[t] EXCEPT !.pc = "reach", !.n = 1, !.d = 1])
                ELSE Go(t, [cur[t] EXCEPT !.pc = cur[t].op, !.e = Entry(t)])
     /\ UNCHANGED <<prog, idx, abs, seen, callbacks>>

-----------------------------------------------------------------------------
ToInsert(x) == IF x.mod = "insert" THEN x ELSE [x EXCEPT !.ins = TRUE, !.mod = "insert"]

\* find_insert without a new layer: update, or insert into the leaf.
Put(t) ==
  LET n == cur[t].n  k == cur[t].k
  IN /\ At(t, "put") /\ (cur[t].e.kind = "none" \/ Matches(t))
     /\ leaf' = [leaf EXCEPT ![n] = With(IF Matches(t) THEN @ ELSE ToInsert(@), Slot_(t),
                                         Value(Suffix(k, cur[t].d), t))]
     /\ Becomes(k, t)
     /\ Go(t, [cur[t] EXCEPT !.pc = "unlock"])
     /\ UNCHANGED <<prog, idx, callbacks>>

\* Slices that two suffixes share before the last slice of either.
Common(a, b) ==
  CHOOSE j \in 0..(Len(a) - 1) :
    /\ j < Len(b) /\ \A i \in 1..j : a[i] = b[i]
    /\ a[j + 1] # b[j + 1] \/ j + 1 = Len(a) \/ j + 1 = Len(b)

\* make_new_layer, the nodes nobody sees yet: a twig for the slices that
\* both suffixes share, and a locked leaf with the entry that was there.
MakeLayer(t) ==
  LET k == cur[t].k  d == cur[t].d
      old == cur[t].e
      j == Common(old.suf, Suffix(k, d))
      Made(i, s) ==
        LET x == [NewLeaf EXCEPT !.path = SubSeq(k, 1, d + i - 1)]
        IN IF i <= j THEN With(x, <<k[d + i], "more">>, Layer(s[i + 1]))
           ELSE With([x EXCEPT !.lock = TRUE], Slot(old.suf, i), Value(Suffix(old.suf, i), old.val))
  IN /\ At(t, "put") /\ old.kind = "value" /\ ~Matches(t)
     /\ \E s \in Fresh(j + 1) :
          /\ leaf' = [l \in Leaves |-> IF \E i \in 1..(j + 1) : s[i] = l
                                         THEN Made(CHOOSE i \in 1..(j + 1) : s[i] = l, s) ELSE leaf[l]]
          /\ Go(t, [cur[t] EXCEPT !.pc = "swap", !.new = s])
     /\ UNCHANGED <<prog, idx, abs, seen, callbacks>>

\* Broken variant of SwapLayer: no mark_insert.
SwapUnmarked(t) ==
  /\ At(t, "swap")
  /\ leaf' = [leaf EXCEPT ![cur[t].n] = With(@, Slot_(t), Value(cur[t].e.suf, Torn))]
  /\ Go(t, [cur[t] EXCEPT !.pc = "swapped"])
  /\ UNCHANGED <<prog, idx, abs, seen, callbacks>>

\* The value becomes a layer in two writes, marked as an insertion.
SwapLayer(t) ==
  /\ At(t, "swap")
  /\ leaf' = [leaf EXCEPT ![cur[t].n] = With([@ EXCEPT !.ins = TRUE], Slot_(t),
                                             Value(cur[t].e.suf, Torn))]
  /\ Go(t, [cur[t] EXCEPT !.pc = "swapped"])
  /\ UNCHANGED <<prog, idx, abs, seen, callbacks>>

\* The leaf above, and the new ones, now seen.
Linked(t, above) ==
  [l \in Leaves |-> IF l = cur[t].n THEN above
                    ELSE IF \E i \in DOMAIN cur[t].new : cur[t].new[i] = l
                      THEN [leaf[l] EXCEPT !.place = "in"]
                    ELSE leaf[l]]
InNewLeaf(t) ==
  LET s == cur[t].new
  IN Go(t, [cur[t] EXCEPT !.pc = "publish", !.n = s[Len(s)], !.d = @ + Len(s)])

\* Broken variant of LayerMade: the leaf above stays locked.
LayerMadeLocked(t) ==
  LET x == Unlocked(With(leaf[cur[t].n], Slot_(t), Layer(cur[t].new[1])))
  IN /\ At(t, "swapped")
     /\ leaf' = Linked(t, [x EXCEPT !.lock = TRUE])
     /\ InNewLeaf(t)
     /\ UNCHANGED <<prog, idx, abs, seen, callbacks>>

LayerMade(t) ==
  /\ At(t, "swapped")
  /\ leaf' = Linked(t, Unlocked(With(leaf[cur[t].n], Slot_(t), Layer(cur[t].new[1]))))
  /\ InNewLeaf(t)
  /\ UNCHANGED <<prog, idx, abs, seen, callbacks>>

PublishInLayer(t) ==
  /\ At(t, "publish")
  /\ leaf' = [leaf EXCEPT ![cur[t].n] = With(@, Slot_(t), Value(Suffix(cur[t].k, cur[t].d), t))]
  /\ Becomes(cur[t].k, t)
  /\ Go(t, [cur[t] EXCEPT !.pc = "unlock"])
  /\ UNCHANGED <<prog, idx, callbacks>>

UnlockLeaf(t) ==
  /\ At(t, "unlock")
  /\ leaf' = [leaf EXCEPT ![cur[t].n] = Unlocked(@)]
  /\ Go(t, [cur[t] EXCEPT !.pc = "done"])
  /\ UNCHANGED <<prog, idx, abs, seen, callbacks>>

-----------------------------------------------------------------------------
Busy == {t \in Threads : ~At(t, "idle")}
ToRemove(x) == IF x.mod = "insert" THEN [x EXCEPT !.ins = TRUE, !.mod = "remove"] ELSE x
Without(t, slot) == With(ToRemove(leaf[cur[t].n]), slot, NoEntry)
Prefix(t) == SubSeq(cur[t].k, 1, cur[t].d - 1)
Callback(prefix) == [prefix |-> prefix, wait |-> Busy \ {Collector}]

\* Broken variant of Registered: the collector registers no callback.
RegisteredOnce(t, x) ==
  IF InUse(x) = {} /\ Prefix(t) # <<>> /\ cur[t].op # "gc" THEN callbacks \cup {Callback(Prefix(t))}
                                                           ELSE callbacks

\* finish_remove: an emptied layer below the first registers a callback for
\* its prefix.
Registered(t, x) ==
  IF InUse(x) = {} /\ Prefix(t) # <<>> THEN callbacks \cup {Callback(Prefix(t))} ELSE callbacks

FinishRemove(t) ==
  /\ At(t, "remove")
  /\ IF Matches(t) THEN /\ leaf' = [leaf EXCEPT ![cur[t].n] = Without(t, Slot_(t))]
                        /\ callbacks' = Registered(t, Without(t, Slot_(t)))
                        /\ Becomes(cur[t].k, NoValue)
                   ELSE UNCHANGED <<leaf, abs, seen, callbacks>>
  /\ Go(t, [cur[t] EXCEPT !.pc = "unlock"])
  /\ UNCHANGED <<prog, idx>>

\* RCU runs a callback once the operations of its time have returned.
RunCallback(t) ==
  /\ t = Collector /\ At(t, "idle")
  /\ \E c \in callbacks :
       /\ c.wait = {}
       /\ Start(t, "gc", c.prefix)
       /\ callbacks' = callbacks \ {c}
  /\ UNCHANGED <<leaf, prog, idx, abs, seen>>

\* gc_layer: the leaf found may be higher up than the prefix says, the
\* entry may be gone, and the layer may be in use again.
LayerSlot(t) == <<cur[t].k[cur[t].d], "more">>
GcLayer(t) ==
  LET e == leaf[cur[t].n].ent[LayerSlot(t)]
  IN /\ At(t, "gc")
     /\ IF \/ cur[t].d < Len(cur[t].k)
           \/ e.kind # "layer"
           \/ InUse(leaf[e.to]) # {}
          THEN Go(t, [cur[t] EXCEPT !.pc = "unlock"])
          ELSE Go(t, [cur[t] EXCEPT !.pc = "gclock", !.to = e.to])
     /\ UNCHANGED <<leaf, prog, idx, abs, seen, callbacks>>

\* Broken variant of KillLayer: the size is not looked at again.
KillUnseen(t) ==
  /\ At(t, "gclock") /\ ~leaf[cur[t].to].lock
  /\ Go(t, [cur[t] EXCEPT !.pc = "gcremove"]) /\ leaf' = [leaf EXCEPT ![cur[t].to].mod = "deleted"]
  /\ UNCHANGED <<prog, idx, abs, seen, callbacks>>

\* The empty leaf is locked, looked at again and marked.
KillLayer(t) ==
  LET to == cur[t].to
  IN /\ At(t, "gclock") /\ ~leaf[to].lock
     /\ IF InUse(leaf[to]) # {}
          THEN Go(t, [cur[t] EXCEPT !.pc = "unlock"]) /\ UNCHANGED leaf
          ELSE Go(t, [cur[t] EXCEPT !.pc = "gcremove"]) /\ leaf' = [leaf EXCEPT ![to].mod = "deleted"]
     /\ UNCHANGED <<prog, idx, abs, seen, callbacks>>

RemoveLayer(t) ==
  /\ At(t, "gcremove")
  /\ leaf' = [leaf EXCEPT ![cur[t].n] = Without(t, LayerSlot(t)), ![cur[t].to].place = "out"]
  /\ callbacks' = Registered(t, Without(t, LayerSlot(t)))
  /\ Go(t, [cur[t] EXCEPT !.pc = "unlock"])
  /\ UNCHANGED <<prog, idx, abs, seen>>

Step(t) == Reach(t) \/ ReadEntry(t) \/ Validate(t) \/ TryLayer(t) \/ LockLeaf(t) \/ Put(t)
             \/ MakeLayer(t) \/ SwapLayer(t) \/ LayerMade(t) \/ PublishInLayer(t) \/ UnlockLeaf(t)
             \/ FinishRemove(t) \/ GcLayer(t) \/ KillLayer(t) \/ RemoveLayer(t) \/ Return(t)
TrieNext == \E t \in Threads : Begin(t) \/ Step(t) \/ RunCallback(t)
TrieSpec == TrieInit /\ [][TrieNext]_trieVars

-----------------------------------------------------------------------------
(* Properties                                                              *)

\* A get that moves through layers while they are made and collected
\* returns what the key held at some time while it ran; never half of the
\* change from a value to a layer.
LayerGetsAreCurrent ==
  \A t \in Threads : At(t, "done") /\ cur[t].op = "get" => cur[t].got \in seen[t]

\* The leaves of a descent by key k, and what the last one has for k.
Descends(k, p) ==
  /\ p[1] = 1
  /\ \A i \in 1..(Len(p) - 1) : leaf[p[i]].ent[Slot(k, i)] = Layer(p[i + 1])
Shows(l, k, d) ==
  LET e == leaf[l].ent[Slot(k, d)]
  IN IF e.kind = "value" /\ e.suf = Suffix(k, d) THEN e.val ELSE NoValue

\* No put is lost in a layer that is collected: between the changes of a
\* leaf every key is where a descent finds it, with the value put last.
NothingLost ==
  \A k \in Keys : \E d \in 1..Len(k) : \E p \in [1..d -> Leaves] :
    /\ Descends(k, p) /\ leaf[p[d]].ent[Slot(k, d)].kind # "layer"
    /\ Shows(p[d], k, d) \in {abs[k], Torn}

\* Threads wait for ever only for the leaf of a deleted layer, which
\* find_locked leaves locked (masstree_get.hh:128).
StuckOnlyInDeletedLayer ==
  \/ \A t \in Threads : At(t, "idle") /\ idx[t] = Len(prog[t])
  \/ ENABLED TrieNext
  \/ \E t \in Threads : At(t, "lock") /\ leaf[cur[t].n].mod = "deleted"

\* Every emptied layer is collected in the end: with nothing under way and
\* no callback left, no entry leads to an empty layer.
NoEmptyLayer ==
  (callbacks = {} /\ \A t \in Threads : At(t, "idle")) =>
    \A l \in Leaves : \A s \in InUse(leaf[l]) :
      leaf[l].mod # "deleted" /\ leaf[l].ent[s].kind = "layer" => InUse(leaf[leaf[l].ent[s].to]) # {}

Pcs == {"idle", "reach", "entry", "valid", "layer", "lock", "put", "remove", "gc", "swap",
        "swapped", "publish", "gclock", "gcremove", "unlock", "done"}
LeafType == [lock : BOOLEAN, ins : BOOLEAN, vi : Nat, mod : {"insert", "remove", "deleted"},
             ent : [TrieSlots -> Entries], place : {"free", "new", "in", "out"}, path : Seq(Slices)]
CurType == [pc : Pcs, op : {"get", "put", "remove", "gc"}, k : Seq(Slices), n : Leaves, d : Nat,
            v : Nat, e : Entries, all : SUBSET TrieSlots, got : Held, new : Seq(Leaves), to : Leaves]

\* Leaves and threads keep their shape.
LayersTypeOK ==
  /\ leaf \in [Leaves -> LeafType]
  /\ cur \in [Threads -> CurType]
  /\ prog \in [Threads -> Seq(SUBSET Ops)] /\ idx \in [Threads -> Nat]
  /\ abs \in [Keys -> Held] /\ seen \in [Threads -> SUBSET Held]
  /\ callbacks \subseteq [prefix : Seq(Slices) \ {<<>>}, wait : SUBSET Threads]
=============================================================================
