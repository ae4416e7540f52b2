------------------------------ MODULE BLinkTree ------------------------------
(***************************************************************************)
(* One layer of the Masstree: gets and scans that take no lock beside puts *)
(* and removes that lock, split and unlink nodes (masstree_get.hh,         *)
(* masstree_insert.hh, masstree_split.hh, masstree_remove.hh,              *)
(* masstree_scan.hh, btree_leaflink.hh, nodeversion.hh).                   *)
(*                                                                         *)
(* A thread runs the operations of its program; the other threads start    *)
(* when Main is through with its own.  cur[t] holds the local variables of *)
(* t's operation.  A step reads or writes one node, or writes nodes the    *)
(* thread has locked.  Nodes are not reused while an operation can hold    *)
(* them (RcuLimbo.tla), so ids are never reused here.                      *)
(***************************************************************************)
EXTENDS KPermuter, FiniteSets, TLC

CONSTANTS Threads, Main, Keys,
          Nodes,                  \* 1..n
          LeafWidth, InnerWidth,
          Programs                \* a set of [Threads -> Seq(SUBSET Ops)]

VARIABLES node,     \* the memory
          root_,    \* basic_table::root_
          cur,
          prog,     \* the program that is run
          idx,      \* operations of it begun
          abs,      \* the contents: the thread that put the value, or Absent
          seen      \* what abs held while the operation ran

vars == <<node, root_, cur, prog, idx, abs, seen>>

Null == 0
NoValue == "absent"
Kinds == {"get", "put", "remove", "scan", "rscan"}
Ops == [op : Kinds, key : Keys]

Slots == 0..(LeafWidth - 1)
Bit0 == [lock |-> FALSE, ins |-> FALSE, spl |-> FALSE, del |-> FALSE, root |-> FALSE,
         vi |-> 0, vs |-> 0]
Free == [kind |-> "free"]
NewLeaf ==
  Bit0 @@ [kind |-> "leaf", parent |-> Null, mod |-> "insert",
           ikey |-> [s \in Slots |-> 0], lv |-> [s \in Slots |-> NoValue],
           perm |-> make_empty(LeafWidth), next |-> Null, mark |-> FALSE, prev |-> Null]
NewInternode(height, keys, child, parent) ==
  Bit0 @@ [kind |-> "internode", parent |-> parent, height |-> height,
           keys |-> keys, child |-> child]

Fresh == Min({n \in Nodes : node[n].kind = "free"})
isleaf(n) == node[n].kind = "leaf"

-----------------------------------------------------------------------------
(* Node versions.                                                          *)

\* All the bits but the lock bit.
Version(n) ==
  [ins |-> node[n].ins, spl |-> node[n].spl, del |-> node[n].del, root |-> node[n].root,
   vi |-> node[n].vi, vs |-> node[n].vs]
stable(n) == ~node[n].ins /\ ~node[n].spl
has_changed(n, v) == Version(n) # v
has_split(v, w) == <<v.vs, v.del, v.root>> # <<w.vs, w.del, w.root>>

Locked(x) == [x EXCEPT !.lock = TRUE]
Inserting(x) == [x EXCEPT !.ins = TRUE]
Splitting(x) == [x EXCEPT !.spl = TRUE]
Deleted(x) == [x EXCEPT !.del = TRUE, !.spl = TRUE]
\* Broken variant of Unlocked: the inserting bit stays.
UnlockedInserting(x) == [x EXCEPT !.lock = FALSE]
Unlocked(x) ==
  IF x.spl
    THEN [x EXCEPT !.lock = FALSE, !.ins = FALSE, !.spl = FALSE, !.root = FALSE,
                   !.vs = @ + 1, !.vi = 0]
    ELSE [x EXCEPT !.lock = FALSE, !.ins = FALSE, !.vi = @ + (IF x.ins THEN 1 ELSE 0)]

ikey_bound(n) == node[n].ikey[0]
maybe_parent(n) == IF node[n].parent = Null THEN n ELSE node[n].parent

-----------------------------------------------------------------------------
NoCur == [pc |-> "idle"]
Go(t, f) == cur' = [cur EXCEPT ![t] = f @@ cur[t]]
At_(t, pc) == cur[t].pc = pc
Writes(t) == cur[t].op \in {"put", "remove"}
Scans(t) == cur[t].op \in {"scan", "rscan"}

Init ==
  /\ node = [n \in Nodes |-> IF n = 1 THEN [NewLeaf EXCEPT !.root = TRUE] ELSE Free]
  /\ root_ = 1
  /\ cur = [t \in Threads |-> NoCur]
  /\ prog \in Programs
  /\ idx = [t \in Threads |-> 0]
  /\ abs = [k \in Keys |-> NoValue]
  /\ seen = [t \in Threads |-> <<>>]

\* basic_table::fix_root, for the operations that lock.
fix_root == IF node[root_].root THEN root_ ELSE maybe_parent(root_)

Watched(o) ==
  CASE o.op = "get" -> {o.key}
    [] o.op = "scan" -> {k \in Keys : k >= o.key}
    [] o.op = "rscan" -> {k \in Keys : k <= o.key}
    [] OTHER -> {}

\* An operation starts: a cursor at the root of the table.
Begin(t) ==
  /\ At_(t, "idle") /\ idx[t] < Len(prog[t])
  /\ t # Main => idx[Main] = Len(prog[Main]) /\ At_(Main, "idle")
  /\ \E o \in prog[t][idx[t] + 1] :
       LET rt == IF o.op \in {"put", "remove"} THEN fix_root ELSE root_
       IN /\ root_' = rt
          /\ cur' = [cur EXCEPT ![t] = [pc |-> "root", op |-> o.op, k |-> o.key, rt |-> rt,
                                        n |-> rt, first |-> TRUE, zero |-> FALSE, out |-> <<>>]]
          /\ seen' = [seen EXCEPT ![t] = [k \in Watched(o) |-> {abs[k]}]]
  /\ idx' = [idx EXCEPT ![t] = @ + 1]
  /\ UNCHANGED <<node, prog, abs>>

Return(t) ==
  /\ At_(t, "done")
  /\ cur' = [cur EXCEPT ![t] = NoCur]
  /\ seen' = [seen EXCEPT ![t] = <<>>]
  /\ UNCHANGED <<node, root_, prog, idx, abs>>

\* The contents change to v at k.
Becomes(k, v) ==
  /\ abs' = [abs EXCEPT ![k] = v]
  /\ seen' = [t \in Threads |->
                IF k \in DOMAIN seen[t] THEN [seen[t] EXCEPT ![k] = @ \cup {v}] ELSE seen[t]]

-----------------------------------------------------------------------------
(* reach_leaf: to the leaf responsible for the key, version by version.    *)

Arrived(n) == IF isleaf(n) THEN "leaf" ELSE "descend"
Retry(t) == Go(t, [pc |-> "root", n |-> cur[t].rt])

FindRoot(t) ==
  LET n == cur[t].n
  IN /\ At_(t, "root") /\ stable(n)
     /\ IF node[n].root THEN Go(t, [pc |-> Arrived(n), v |-> Version(n)])
                        ELSE Go(t, [n |-> maybe_parent(n)])
     /\ UNCHANGED <<node, root_, prog, idx, abs, seen>>

Descend(t) ==
  LET in == node[cur[t].n]
      c == in.child[UpperBound(cur[t].k, in.keys) + 1]
  IN /\ At_(t, "descend")
     /\ IF c = Null THEN Retry(t) ELSE Go(t, [pc |-> "child", c |-> c])
     /\ UNCHANGED <<node, root_, prog, idx, abs, seen>>

ChildVersion(t) ==
  /\ At_(t, "child") /\ stable(cur[t].c)
  /\ Go(t, [pc |-> "check", cv |-> Version(cur[t].c)])
  /\ UNCHANGED <<node, root_, prog, idx, abs, seen>>

\* stable_last_key_compare of an internode; ikey0_[-1] is arbitrary.
BeyondLast(k, in) == IF in.keys = <<>> THEN BOOLEAN ELSE {k > Last(in.keys)}

CheckParent(t) ==
  LET n == cur[t].n
  IN /\ At_(t, "check")
     /\ \/ /\ ~has_changed(n, cur[t].v)
           /\ Go(t, [pc |-> Arrived(cur[t].c), n |-> cur[t].c, v |-> cur[t].cv])
        \/ /\ has_changed(n, cur[t].v) /\ stable(n)
           /\ \E far \in BeyondLast(cur[t].k, node[n]) :
                IF has_split(cur[t].v, Version(n)) /\ far
                  THEN Retry(t)
                  ELSE Go(t, [pc |-> "descend", v |-> Version(n)])
     /\ UNCHANGED <<node, root_, prog, idx, abs, seen>>

\* advance_to_key.  An empty leaf's last key is the one of slot 0, as
\* perm[-1] is the size.
LastKey(x) == x.ikey[IF x.perm.size = 0 THEN 0 ELSE At(x.perm, x.perm.size - 1)]

\* Broken variant of Advance: the leaf is read again although it has split.
AdvanceStays(t) ==
  /\ At_(t, "advance") /\ stable(cur[t].n)
  /\ Go(t, [pc |-> "leaf", v |-> Version(cur[t].n)])
  /\ UNCHANGED <<node, root_, prog, idx, abs, seen>>

Advance(t) ==
  LET n == cur[t].n
  IN /\ At_(t, "advance") /\ stable(n)
     /\ Go(t, [pc |-> IF has_split(Version(n), cur[t].v) /\ cur[t].k > LastKey(node[n])
                        THEN "walk" ELSE "leaf",
               v |-> Version(n)])
     /\ UNCHANGED <<node, root_, prog, idx, abs, seen>>

Walk(t) ==
  LET nx == node[cur[t].n].next
  IN /\ At_(t, "walk")
     /\ IF ~cur[t].v.del /\ nx # Null /\ cur[t].k >= ikey_bound(nx)
          THEN Go(t, [pc |-> "walkv", n |-> nx])
          ELSE Go(t, [pc |-> "leaf"])
     /\ UNCHANGED <<node, root_, prog, idx, abs, seen>>

WalkVersion(t) ==
  /\ At_(t, "walkv") /\ stable(cur[t].n)
  /\ Go(t, [pc |-> "walk", v |-> Version(cur[t].n)])
  /\ UNCHANGED <<node, root_, prog, idx, abs, seen>>

-----------------------------------------------------------------------------
(* find_unlocked, find_initial and find_locked in the leaf.                *)

\* forward: the permutation is read; find_locked searches and then locks.
ReadPermutation(t) ==
  LET n == cur[t].n
  IN /\ At_(t, "leaf")
     /\ IF cur[t].v.del THEN Retry(t)
        ELSE IF Writes(t)
          THEN Go(t, [pc |-> "lock", perm |-> node[n].perm,
                      kx |-> LowerBound(cur[t].k, node[n].perm, node[n].ikey)])
          ELSE Go(t, [pc |-> IF Scans(t) /\ ~cur[t].first THEN "lower" ELSE "search",
                      perm |-> node[n].perm])
     /\ UNCHANGED <<node, root_, prog, idx, abs, seen>>

Search(t) ==
  /\ At_(t, "search")
  /\ Go(t, [pc |-> "value", kx |-> LowerBound(cur[t].k, cur[t].perm, node[cur[t].n].ikey)])
  /\ UNCHANGED <<node, root_, prog, idx, abs, seen>>

ReadValue(t) ==
  /\ At_(t, "value")
  /\ Go(t, [pc |-> "valid",
            got |-> IF cur[t].kx.p >= 0 THEN node[cur[t].n].lv[cur[t].kx.p] ELSE NoValue])
  /\ UNCHANGED <<node, root_, prog, idx, abs, seen>>

\* Where a scan goes on: forward after the key, in reverse before it.
Following(t, i) == IF cur[t].op = "scan" THEN i + 1 ELSE i - 1
Emitted(t, k, v) == Append(cur[t].out, [key |-> k, value |-> v])

Validate(t) ==
  LET kx == cur[t].kx
  IN /\ At_(t, "valid")
     /\ IF has_changed(cur[t].n, cur[t].v) THEN Go(t, [pc |-> "advance"])
        ELSE IF ~Scans(t) THEN Go(t, [pc |-> "done"])
        ELSE IF kx.p >= 0
          THEN Go(t, [pc |-> "next", first |-> FALSE, ki |-> Following(t, kx.i),
                      out |-> Emitted(t, cur[t].k, cur[t].got)])
          ELSE Go(t, [pc |-> "next", first |-> FALSE,
                      ki |-> IF cur[t].op = "scan" THEN kx.i ELSE kx.i - 1])
     /\ UNCHANGED <<node, root_, prog, idx, abs, seen>>

\* Lock the leaf, unless it changed since it was searched.
LockLeaf(t) ==
  LET n == cur[t].n
  IN /\ At_(t, "lock") /\ ~node[n].lock
     /\ IF has_changed(n, cur[t].v) \/ node[n].perm # cur[t].perm
          THEN Go(t, [pc |-> "advance"]) /\ UNCHANGED node
          ELSE Go(t, [pc |-> cur[t].op]) /\ node' = [node EXCEPT ![n] = Locked(@)]
     /\ UNCHANGED <<root_, prog, idx, abs, seen>>

-----------------------------------------------------------------------------
(* scan and rscan after the first leaf: find_next and find_retry.  zero    *)
(* says that the key has length 0, so that it precedes every key with its  *)
(* ikey: the bound of the leaf that a reverse scan leaves.                 *)

Lower(t) ==
  LET kx == LowerBound(cur[t].k, cur[t].perm, node[cur[t].n].ikey)
  IN /\ At_(t, "lower")
     /\ Go(t, [pc |-> "next",
               ki |-> IF cur[t].op = "rscan" /\ (kx.p < 0 \/ cur[t].zero) THEN kx.i - 1
                                                                          ELSE kx.i])
     /\ UNCHANGED <<node, root_, prog, idx, abs, seen>>

FindNext(t) ==
  LET n == cur[t].n
      ki == cur[t].ki
      nx == IF cur[t].op = "scan" THEN node[n].next ELSE node[n].prev
  IN /\ At_(t, "next")
     /\ IF cur[t].v.del THEN Retry(t)
        ELSE IF ki \in 0..(cur[t].perm.size - 1)
          THEN LET s == At(cur[t].perm, ki)
               IN Go(t, [pc |-> "entry", ek |-> node[n].ikey[s], got |-> node[n].lv[s]])
        ELSE IF has_changed(n, cur[t].v) THEN Go(t, [pc |-> "changed"])
        ELSE Go(t, [pc |-> IF nx = Null THEN "done" ELSE "changed", n |-> nx,
                    k |-> IF cur[t].op = "scan" THEN cur[t].k ELSE ikey_bound(n),
                    zero |-> cur[t].op = "rscan"])
     /\ UNCHANGED <<node, root_, prog, idx, abs, seen>>

\* Broken variant of is_duplicate: the last key itself is no duplicate.
is_earlier(t) ==
  IF cur[t].op = "scan" THEN cur[t].k > cur[t].ek ELSE cur[t].k < cur[t].ek

is_duplicate(t) ==
  IF cur[t].op = "scan" THEN cur[t].k >= cur[t].ek ELSE cur[t].k <= cur[t].ek

EmitEntry(t) ==
  /\ At_(t, "entry")
  /\ IF has_changed(cur[t].n, cur[t].v) THEN Go(t, [pc |-> "changed"])
     ELSE IF is_duplicate(t) THEN Go(t, [pc |-> "next", ki |-> Following(t, cur[t].ki)])
     ELSE Go(t, [pc |-> "next", ki |-> Following(t, cur[t].ki), k |-> cur[t].ek,
                 zero |-> FALSE, out |-> Emitted(t, cur[t].ek, cur[t].got)])
  /\ UNCHANGED <<node, root_, prog, idx, abs, seen>>

\* The helper's stable: a reverse scan also moves right to the key's leaf.
ScanStable(t) ==
  /\ At_(t, "changed") /\ stable(cur[t].n)
  /\ Go(t, [pc |-> IF cur[t].op = "scan" THEN "leaf" ELSE "right", v |-> Version(cur[t].n)])
  /\ UNCHANGED <<node, root_, prog, idx, abs, seen>>

ScanRight(t) ==
  LET nx == node[cur[t].n].next
  IN /\ At_(t, "right")
     /\ IF nx = Null \/ cur[t].k < ikey_bound(nx) \/ (cur[t].k = ikey_bound(nx) /\ cur[t].zero)
          THEN Go(t, [pc |-> "leaf"])
          ELSE Go(t, [pc |-> "changed", n |-> nx])
     /\ UNCHANGED <<node, root_, prog, idx, abs, seen>>

-----------------------------------------------------------------------------
(* find_insert: update in place, insert into a free slot, or split.        *)

Assign(x, s, k) == [x EXCEPT !.ikey[s] = k]

\* Slot 0 holds the bound of the leaf and is not reused for another key.
Usable(x, s, k) == s # 0 \/ x.prev = Null \/ x.ikey[0] = k

FindInsert(t) ==
  LET n == cur[t].n
      x == IF node[n].mod = "insert" THEN node[n] ELSE [Inserting(node[n]) EXCEPT !.mod = "insert"]
      b == Back(x.perm)
      swapped == exchange(x.perm, x.perm.size, LeafWidth - 1)
      k == cur[t].k
  IN /\ At_(t, "put")
     /\ \/ /\ cur[t].kx.p >= 0
           /\ Go(t, [pc |-> "setvalue", state |-> 1, s |-> cur[t].kx.p])
           /\ UNCHANGED node
        \/ /\ cur[t].kx.p < 0 /\ x.perm.size < LeafWidth /\ Usable(x, b, k)
           /\ node' = [node EXCEPT ![n] = Assign(x, b, k)]
           /\ Go(t, [pc |-> "setvalue", state |-> 2, s |-> b, i |-> cur[t].kx.i])
        \/ /\ cur[t].kx.p < 0 /\ x.perm.size < LeafWidth /\ ~Usable(x, b, k)
           /\ Back(swapped) # 0
           /\ node' = [node EXCEPT ![n] = [Assign(x, Back(swapped), k) EXCEPT !.perm = swapped]]
           /\ Go(t, [pc |-> "setvalue", state |-> 2, s |-> Back(swapped), i |-> cur[t].kx.i])
        \/ /\ cur[t].kx.p < 0
           /\ x.perm.size < LeafWidth => ~Usable(x, b, k) /\ Back(swapped) = 0
           /\ node' = [node EXCEPT ![n] = x]
           /\ Go(t, [pc |-> "split", state |-> 2, i |-> cur[t].kx.i])
     /\ UNCHANGED <<root_, prog, idx, abs, seen>>

\* leaf::split_into: where to split.
SplitPoint(x, p) ==
  CASE p = 0 /\ x.prev = Null -> 1
    [] p = x.perm.size /\ x.next = Null -> x.perm.size
    [] OTHER -> LeafWidth \div 2 + 1

\* The right leaf: entries mid.. of the leaf with k inserted at position p.
RightLeaf(n, p, k) ==
  LET x == node[n]
      w == x.perm.size
      mid == SplitPoint(x, p)
      used == SubSeq(x.perm.slot, 1, w)
      from == SubSeq(InsertAt(used, p + 1, -1), mid + 1, w + 1)
      sorted == make_sorted(LeafWidth, w + 1 - mid)
  IN [x EXCEPT
       !.ikey = [s \in Slots |-> IF s >= Len(from) THEN 0
                                 ELSE IF from[s + 1] = -1 THEN k ELSE x.ikey[from[s + 1]]],
       !.lv = [s \in Slots |-> IF s >= Len(from) \/ from[s + 1] = -1 THEN NoValue
                               ELSE x.lv[from[s + 1]]],
       !.perm = IF p >= mid THEN remove_to_back(sorted, p - mid) ELSE sorted,
       !.mod = "insert", !.parent = Null, !.next = Null, !.mark = FALSE, !.prev = n]

SplitLeaf(t) ==
  LET n == cur[t].n
      nr == Fresh
      mid == SplitPoint(node[n], cur[t].i)
      right == RightLeaf(n, cur[t].i, cur[t].k)
  IN /\ At_(t, "split")
     /\ node' = [node EXCEPT ![nr] = right]
     /\ Go(t, [pc |-> "locknext", m |-> n, c |-> nr, q |-> Null, h |-> 0, xk |-> right.ikey[0],
               type |-> IF cur[t].i < mid THEN 0
                        ELSE IF mid = node[n].perm.size THEN 2 ELSE 1])
     /\ UNCHANGED <<root_, prog, idx, abs, seen>>

\* link_split: lock the next pointer by marking it, then write both links.
LockNext(t) ==
  LET n == cur[t].n
      nx == node[n].next
  IN /\ At_(t, "locknext") /\ (nx = Null \/ ~node[n].mark)
     /\ node' = [node EXCEPT ![n].mark = (nx # Null), ![cur[t].c].next = nx]
     /\ Go(t, [pc |-> IF nx = Null THEN "link" ELSE "linkprev"])
     /\ UNCHANGED <<root_, prog, idx, abs, seen>>

LinkPrev(t) ==
  /\ At_(t, "linkprev")
  /\ node' = [node EXCEPT ![node[cur[t].c].next].prev = cur[t].c]
  /\ Go(t, [pc |-> "link"])
  /\ UNCHANGED <<root_, prog, idx, abs, seen>>

Link(t) ==
  /\ At_(t, "link")
  /\ node' = [node EXCEPT ![cur[t].n].next = cur[t].c, ![cur[t].n].mark = FALSE]
  /\ Go(t, [pc |-> "parent"])
  /\ UNCHANGED <<root_, prog, idx, abs, seen>>

-----------------------------------------------------------------------------
(* make_split, upwards from the node m with the new sibling c at key xk.   *)

\* locked_parent: read the parent, lock it, and look whether it still is.
ReadParent(t) ==
  LET p == node[cur[t].m].parent
      up == IF cur[t].op = "put" THEN "up" ELSE "removeup"
  IN /\ At_(t, "parent")
     /\ Go(t, [pc |-> IF p = Null THEN up ELSE "lockparent", p |-> p])
     /\ UNCHANGED <<node, root_, prog, idx, abs, seen>>

\* Broken variant of LockParent: the parent is not looked at again.
LockOldParent(t) ==
  LET p == cur[t].p
  IN /\ At_(t, "lockparent") /\ ~node[p].lock
     /\ node' = [node EXCEPT ![p] = Locked(@)]
     /\ Go(t, [pc |-> IF cur[t].op = "put" THEN "up" ELSE "removeup"])
     /\ UNCHANGED <<root_, prog, idx, abs, seen>>

LockParent(t) ==
  LET p == cur[t].p
      up == IF cur[t].op = "put" THEN "up" ELSE "removeup"
  IN /\ At_(t, "lockparent") /\ ~node[p].lock
     /\ IF node[cur[t].m].parent = p
          THEN node' = [node EXCEPT ![p] = Locked(@)] /\ Go(t, [pc |-> up])
          ELSE UNCHANGED node /\ Go(t, [pc |-> "parent"])
     /\ UNCHANGED <<root_, prog, idx, abs, seen>>

InsertChild(in, kp, k, c) ==
  [in EXCEPT !.keys = InsertAt(@, kp + 1, k), !.child = InsertAt(@, kp + 2, c)]

\* A new level above m: the layer's root, or below a parent that is higher.
NewLevel(t) ==
  LET m == cur[t].m  p == cur[t].p  c == cur[t].c  nn == Fresh
  IN /\ At_(t, "up")
     /\ p # Null => node[p].height > cur[t].h + 1
     /\ LET in == NewInternode(cur[t].h + 1, <<cur[t].xk>>, <<m, c>>, p)
            linked == [node EXCEPT ![nn] = [in EXCEPT !.root = (p = Null)],
                                   ![m].parent = nn, ![c].parent = nn]
        IN node' = IF p = Null THEN linked
                   ELSE LET kp == UpperBound(cur[t].xk, node[p].keys)
                        IN [linked EXCEPT ![p] = [Inserting(@) EXCEPT !.child[kp + 1] = nn]]
     /\ Go(t, [pc |-> "truncate"])
     /\ UNCHANGED <<root_, prog, idx, abs, seen>>

InsertUp(t) ==
  LET p == cur[t].p
  IN /\ At_(t, "up") /\ p # Null /\ node[p].height <= cur[t].h + 1
     /\ Len(node[p].keys) < InnerWidth
     /\ node' = [node EXCEPT
                  ![p] = InsertChild(Inserting(@), UpperBound(cur[t].xk, @.keys), cur[t].xk, cur[t].c),
                  ![cur[t].c].parent = p]
     /\ Go(t, [pc |-> "truncate"])
     /\ UNCHANGED <<root_, prog, idx, abs, seen>>

\* internode::split_into: the parent is full.  Its sibling q gets the upper
\* part of keys and children; the key between them goes up.
SplitInternode(t) ==
  LET p == cur[t].p  q == Fresh
      kp == UpperBound(cur[t].xk, node[p].keys)
      mid == IF cur[t].type = 2 THEN InnerWidth ELSE (InnerWidth + 1) \div 2
      all == InsertChild(node[p], kp, cur[t].xk, cur[t].c)
      w == InnerWidth + 1
  IN /\ At_(t, "up") /\ p # Null /\ node[p].height <= cur[t].h + 1
     /\ Len(node[p].keys) >= InnerWidth
     /\ node' = [node EXCEPT
                  ![q] = [Inserting(node[p]) EXCEPT
                            !.root = FALSE, !.parent = Null,
                            !.height = cur[t].h + 1,
                            !.keys = SubSeq(all.keys, mid + 2, w),
                            !.child = SubSeq(all.child, mid + 2, w + 1)],
                  ![p] = Inserting(@),
                  ![cur[t].c].parent = IF kp > mid THEN q ELSE @]
     /\ Go(t, [pc |-> "adopt", q |-> q, xq |-> all.keys[mid + 1], j |-> 1,
               left |-> [all EXCEPT !.keys = SubSeq(all.keys, 1, mid),
                                    !.child = SubSeq(all.child, 1, mid + 1)],
               low |-> kp < mid])
     /\ UNCHANGED <<root_, prog, idx, abs, seen>>

\* Each child of q: lock and unlock it when it is not locked, then set_parent.
Adopt(t) ==
  /\ At_(t, "adopt") /\ cur[t].j <= Len(node[cur[t].q].child)
  /\ Go(t, [pc |-> IF node[node[cur[t].q].child[cur[t].j]].lock THEN "setparent" ELSE "lockchild"])
  /\ UNCHANGED <<node, root_, prog, idx, abs, seen>>

LockChild(t) ==
  /\ At_(t, "lockchild") /\ ~node[node[cur[t].q].child[cur[t].j]].lock
  /\ Go(t, [pc |-> "setparent"])
  /\ UNCHANGED <<node, root_, prog, idx, abs, seen>>

SetParent(t) ==
  /\ At_(t, "setparent")
  /\ node' = [node EXCEPT ![node[cur[t].q].child[cur[t].j]].parent = cur[t].q]
  /\ Go(t, [pc |-> "adopt", j |-> cur[t].j + 1])
  /\ UNCHANGED <<root_, prog, idx, abs, seen>>

\* mark_split, and the lower part stays.
CutInternode(t) ==
  LET p == cur[t].p
  IN /\ At_(t, "adopt") /\ cur[t].j > Len(node[cur[t].q].child)
     /\ node' = [node EXCEPT
                  ![p] = [Splitting(@) EXCEPT !.keys = cur[t].left.keys, !.child = cur[t].left.child],
                  ![cur[t].c].parent = IF cur[t].low THEN p ELSE @]
     /\ Go(t, [pc |-> "truncate"])
     /\ UNCHANGED <<root_, prog, idx, abs, seen>>

\* The leaf gives up the moved entries once the parent knows the new leaf.
TruncateLeaf(t) ==
  LET m == cur[t].m  c == cur[t].c  x == node[m]
      n0 == x.perm.size - node[c].perm.size
      cut == set_size(x.perm, n0)
      perml == IF x.perm.size # LeafWidth THEN exchange(cut, n0, LeafWidth - 1) ELSE cut
      y == [Splitting(x) EXCEPT !.perm = perml]
  IN /\ At_(t, "truncate") /\ isleaf(m)
     /\ \/ /\ cur[t].type = 0
           /\ node' = [node EXCEPT ![m] = Assign(y, Back(perml), cur[t].k)]
           /\ Go(t, [pc |-> "unlocksplit", s |-> Back(perml)])
        \/ /\ cur[t].type # 0
           /\ node' = [node EXCEPT ![m] = y]
           /\ Go(t, [pc |-> "unlocksplit", n |-> c, i |-> cur[t].i - n0, s |-> cur[t].i - n0])
     /\ UNCHANGED <<root_, prog, idx, abs, seen>>

InnerSplitDone(t) ==
  /\ At_(t, "truncate") /\ ~isleaf(cur[t].m)
  /\ Go(t, [pc |-> "unlocksplit"])
  /\ UNCHANGED <<node, root_, prog, idx, abs, seen>>

\* All but the cursor's leaf are unlocked; a split parent is the next m.
UnlockSplit(t) ==
  LET m == cur[t].m  c == cur[t].c  p == cur[t].p  q == cur[t].q
      free == ({m, c} \cup (IF q = Null THEN {p} ELSE {})) \ {cur[t].n, Null}
  IN /\ At_(t, "unlocksplit")
     /\ node' = [x \in Nodes |-> IF x \in free THEN Unlocked(node[x]) ELSE node[x]]
     /\ IF q = Null THEN Go(t, [pc |-> "setvalue"])
        ELSE Go(t, [pc |-> "parent", m |-> p, c |-> q, q |-> Null, xk |-> cur[t].xq,
                    h |-> cur[t].h + 1])
     /\ UNCHANGED <<root_, prog, idx, abs, seen>>

\* The caller writes the value; finish publishes an inserted key.
SetValue(t) ==
  /\ At_(t, "setvalue")
  /\ node' = [node EXCEPT ![cur[t].n].lv[cur[t].s] = t]
  /\ IF cur[t].state = 1
       THEN Go(t, [pc |-> "unlock"]) /\ Becomes(cur[t].k, t)
       ELSE Go(t, [pc |-> "publish"]) /\ UNCHANGED <<abs, seen>>
  /\ UNCHANGED <<root_, prog, idx>>

FinishInsert(t) ==
  /\ At_(t, "publish")
  /\ node' = [node EXCEPT ![cur[t].n].perm = insert_from_back(@, cur[t].i)]
  /\ Becomes(cur[t].k, t)
  /\ Go(t, [pc |-> "unlock"])
  /\ UNCHANGED <<root_, prog, idx>>

UnlockLeaf(t) ==
  /\ At_(t, "unlock")
  /\ node' = [node EXCEPT ![cur[t].n] = Unlocked(@)]
  /\ Go(t, [pc |-> "done"])
  /\ UNCHANGED <<root_, prog, idx, abs, seen>>

-----------------------------------------------------------------------------
(* finish_remove and remove_leaf.                                          *)

\* An emptied leaf goes, unless it is the first of the layer.
FinishRemove(t) ==
  LET n == cur[t].n
      x == IF node[n].mod = "insert" THEN [Inserting(node[n]) EXCEPT !.mod = "remove"] ELSE node[n]
      rest == remove(x.perm, cur[t].kx.i)
  IN /\ At_(t, "remove")
     /\ \/ /\ cur[t].kx.p < 0
           /\ Go(t, [pc |-> "unlock"]) /\ UNCHANGED <<node, abs, seen>>
        \/ /\ cur[t].kx.p >= 0
           /\ node' = [node EXCEPT ![n] = [x EXCEPT !.perm = rest]]
           /\ Becomes(cur[t].k, NoValue)
           /\ Go(t, [pc |-> IF rest.size > 0 \/ x.prev = Null THEN "unlock" ELSE "markdeleted"])
     /\ UNCHANGED <<root_, prog, idx>>

MarkDeleted(t) ==
  /\ At_(t, "markdeleted")
  /\ node' = [node EXCEPT ![cur[t].n] = Deleted(@)]
  /\ Go(t, [pc |-> "unlinknext", m |-> cur[t].n, ik |-> ikey_bound(cur[t].n), rep |-> Null])
  /\ UNCHANGED <<root_, prog, idx, abs, seen>>

\* Broken variant of UnlinkNext: the next pointer is only read.
ReadNext(t) ==
  /\ At_(t, "unlinknext")
  /\ Go(t, [pc |-> "unlinkprev", c |-> node[cur[t].n].next])
  /\ UNCHANGED <<node, root_, prog, idx, abs, seen>>

\* unlink: lock the next pointer, then the one of the previous leaf.
UnlinkNext(t) ==
  LET n == cur[t].n
  IN /\ At_(t, "unlinknext") /\ (node[n].next = Null \/ ~node[n].mark)
     /\ node' = [node EXCEPT ![n].mark = (node[n].next # Null)]
     /\ Go(t, [pc |-> "unlinkprev", c |-> node[n].next])
     /\ UNCHANGED <<root_, prog, idx, abs, seen>>

UnlinkPrev(t) ==
  LET n == cur[t].n  pr == node[n].prev
  IN /\ At_(t, "unlinkprev") /\ node[pr].next = n /\ ~node[pr].mark
     /\ node' = [node EXCEPT ![pr].mark = TRUE]
     /\ Go(t, [pc |-> IF cur[t].c = Null THEN "unlink" ELSE "unlinkback", p |-> pr])
     /\ UNCHANGED <<root_, prog, idx, abs, seen>>

UnlinkBack(t) ==
  /\ At_(t, "unlinkback")
  /\ node' = [node EXCEPT ![cur[t].c].prev = cur[t].p]
  /\ Go(t, [pc |-> "unlink"])
  /\ UNCHANGED <<root_, prog, idx, abs, seen>>

Unlink(t) ==
  /\ At_(t, "unlink")
  /\ node' = [node EXCEPT ![cur[t].p].next = cur[t].c, ![cur[t].p].mark = FALSE]
  /\ Go(t, [pc |-> "parent"])
  /\ UNCHANGED <<root_, prog, idx, abs, seen>>

\* The parent p loses m, or has it replaced by m's only child.
RemoveChild(in, kp, rep) ==
  IF rep # Null \/ kp = 0 THEN [in EXCEPT !.child[kp + 1] = rep]
  ELSE [in EXCEPT !.keys = RemoveAt(@, kp), !.child = RemoveAt(@, kp + 1)]

RemoveUp(t) ==
  LET p == cur[t].p  rep == cur[t].rep
      kp == UpperBound(cur[t].ik, node[p].keys)
      y == RemoveChild(Inserting(node[p]), kp, rep)
      moved == [node EXCEPT ![p] = y]
  IN /\ At_(t, "removeup")
     /\ node' = IF rep = Null THEN moved ELSE [moved EXCEPT ![rep].parent = p]
     /\ IF kp <= 1 /\ y.keys # <<>> /\ y.child[1] = Null
          THEN Go(t, [pc |-> "redirect", r |-> p, nik |-> y.keys[1]])
          ELSE Go(t, [pc |-> "unlockremove"])
     /\ UNCHANGED <<root_, prog, idx, abs, seen>>

\* redirect: the nearest ancestor that bounds p from below gets p's new
\* first key.  r is the ancestor reached, locked hand over hand.
ReadRedirect(t) ==
  /\ At_(t, "redirect")
  /\ Go(t, [pc |-> "lockredirect", rp |-> node[cur[t].r].parent])
  /\ UNCHANGED <<node, root_, prog, idx, abs, seen>>

LockRedirect(t) ==
  LET r == cur[t].r  a == cur[t].rp
      kp == UpperBound(cur[t].ik, node[a].keys)
      climbs == kp = 0 \/ (kp = 1 /\ node[a].child[1] = Null)
      y == IF kp = 0 THEN node[a] ELSE [node[a] EXCEPT !.keys[kp] = cur[t].nik]
      below == IF r = cur[t].p THEN node ELSE [node EXCEPT ![r] = Unlocked(@)]
  IN /\ At_(t, "lockredirect") /\ ~node[a].lock
     /\ \/ /\ node[r].parent # a
           /\ Go(t, [pc |-> "redirect"]) /\ UNCHANGED node
        \/ /\ node[r].parent = a /\ climbs
           /\ node' = [below EXCEPT ![a] = Locked(y)]
           /\ Go(t, [pc |-> "redirect", r |-> a])
        \/ /\ node[r].parent = a /\ ~climbs
           /\ node' = [below EXCEPT ![a] = y]
           /\ Go(t, [pc |-> "unlockremove", ik |-> cur[t].nik])
     /\ UNCHANGED <<root_, prog, idx, abs, seen>>

\* Broken variant of UnlockRemove: the removed node stays locked.
UnlockParentOnly(t) ==
  LET p == cur[t].p  x == node[p]
      stays == Len(x.keys) > (IF x.child[1] = Null THEN 1 ELSE 0) \/ x.root
  IN /\ At_(t, "unlockremove") /\ stays
     /\ node' = [node EXCEPT ![p] = Unlocked(@)]
     /\ Go(t, [pc |-> "done"])
     /\ UNCHANGED <<root_, prog, idx, abs, seen>>

\* An internode with one child left is deleted in its turn.
UnlockRemove(t) ==
  LET m == cur[t].m  p == cur[t].p  x == node[p]
      stays == Len(x.keys) > (IF x.child[1] = Null THEN 1 ELSE 0) \/ x.root
  IN /\ At_(t, "unlockremove")
     /\ \/ /\ stays
           /\ node' = [node EXCEPT ![m] = Unlocked(@), ![p] = Unlocked(@)]
           /\ Go(t, [pc |-> "done"])
        \/ /\ ~stays
           /\ node' = [node EXCEPT ![m] = Unlocked(@),
                                   ![p] = [Deleted(@) EXCEPT !.child[Len(x.child)] = Null]]
           /\ Go(t, [pc |-> "parent", m |-> p, rep |-> Last(x.child)])
     /\ UNCHANGED <<root_, prog, idx, abs, seen>>

-----------------------------------------------------------------------------
Reach(t) == FindRoot(t) \/ Descend(t) \/ ChildVersion(t) \/ CheckParent(t)
              \/ Advance(t) \/ Walk(t) \/ WalkVersion(t)
Look(t) == ReadPermutation(t) \/ Search(t) \/ ReadValue(t) \/ Validate(t) \/ LockLeaf(t)
Scan(t) == Lower(t) \/ FindNext(t) \/ EmitEntry(t) \/ ScanStable(t) \/ ScanRight(t)
Insertion(t) == FindInsert(t) \/ SplitLeaf(t) \/ LockNext(t) \/ LinkPrev(t) \/ Link(t)
            \/ NewLevel(t) \/ InsertUp(t) \/ SplitInternode(t) \/ Adopt(t) \/ LockChild(t)
            \/ SetParent(t) \/ CutInternode(t) \/ TruncateLeaf(t) \/ InnerSplitDone(t)
            \/ UnlockSplit(t) \/ SetValue(t) \/ FinishInsert(t) \/ UnlockLeaf(t)
Removal(t) == FinishRemove(t) \/ MarkDeleted(t) \/ UnlinkNext(t) \/ UnlinkPrev(t) \/ UnlinkBack(t)
               \/ Unlink(t) \/ RemoveUp(t) \/ ReadRedirect(t) \/ LockRedirect(t) \/ UnlockRemove(t)

\* A step of an operation that has begun.
Step(t) == Reach(t) \/ Look(t) \/ Scan(t) \/ Insertion(t) \/ ReadParent(t) \/ LockParent(t) \/ Removal(t)
Next == \E t \in Threads : Begin(t) \/ Step(t) \/ Return(t)

Spec == Init /\ [][Next]_vars

-----------------------------------------------------------------------------
(* Properties                                                              *)

\* Nodes and versions keep their shape: a leaf's permutation names each slot
\* once, an internode has one child more than keys and no empty child but
\* the first, and only a locked node is being changed.
TypeOK ==
  \A n \in Nodes :
    /\ node[n].kind = "leaf" =>
         /\ Range(node[n].perm.slot) = Slots /\ node[n].perm.size \in 0..LeafWidth
         /\ Len(node[n].perm.slot) = LeafWidth
    /\ node[n].kind = "internode" =>
         /\ Len(node[n].child) = Len(node[n].keys) + 1
         /\ Len(node[n].keys) <= InnerWidth
         /\ ~node[n].del => \A j \in 2..Len(node[n].child) : node[n].child[j] # Null
    /\ node[n].kind # "free" => (node[n].ins \/ node[n].spl => node[n].lock)

\* get and scans of the tree take no lock, yet a get returns what the key
\* held at some time while it ran.
GetsAreCurrent ==
  \A t \in Threads : At_(t, "done") /\ cur[t].op = "get" => cur[t].got \in seen[t][cur[t].k]

\* A scan beside splits and removes returns its keys in order and once, no
\* key that was absent all the time, and every key that was present all the
\* time.
ScansAreComplete ==
  \A t \in Threads : At_(t, "done") /\ cur[t].op \in {"scan", "rscan"} =>
    LET out == cur[t].out
        Found(k) == \E j \in DOMAIN out : out[j].key = k
    IN /\ \A i, j \in DOMAIN out : i < j =>
            IF cur[t].op = "scan" THEN out[i].key < out[j].key ELSE out[i].key > out[j].key
       /\ \A j \in DOMAIN out : out[j].value \in seen[t][out[j].key]
       /\ \A k \in DOMAIN seen[t] : NoValue \notin seen[t][k] => Found(k)

\* The assertions of make_split and remove_leaf: the parent found and locked
\* is alive and has the node where the key leads.
ParentKnowsChild ==
  \A t \in Threads :
    /\ At_(t, "removeup") =>
         LET p == node[cur[t].p]
         IN ~p.del /\ p.child[UpperBound(cur[t].ik, p.keys) + 1] = cur[t].m
    /\ At_(t, "up") /\ cur[t].p # Null =>
         LET p == node[cur[t].p]
         IN ~p.del /\ p.child[UpperBound(cur[t].xk, p.keys) + 1] = cur[t].m

\* The tree at rest.
Top == LET up[n \in Nodes] == IF node[n].root \/ node[n].parent = Null THEN n ELSE up[node[n].parent]
       IN up[root_]
LeafOf(k) ==
  LET down[n \in Nodes] == IF isleaf(n) THEN n
                           ELSE down[node[n].child[UpperBound(k, node[n].keys) + 1]]
  IN down[Top]
LiveLeaves == {n \in Nodes : node[n].kind = "leaf" /\ ~node[n].del}
KeysOf(n) == {node[n].ikey[At(node[n].perm, i)] : i \in 0..(node[n].perm.size - 1)}

\* After concurrent puts and removes, with no operation under way, the tree
\* is a search tree of its contents: nothing is locked, the leaves are
\* doubly linked in key order, every key that is present is in the leaf a
\* descent reaches, with its value, and every child knows its parent.
TreeAtRest ==
  (\A t \in Threads : At_(t, "idle") \/ At_(t, "done")) =>
    /\ \A n \in Nodes : node[n].kind # "free" => ~node[n].lock
    /\ \A n \in LiveLeaves :
         /\ ~node[n].mark
         /\ node[n].next # Null => /\ node[node[n].next].prev = n /\ ~node[node[n].next].del
                                   /\ \A k \in KeysOf(n) : k < ikey_bound(node[n].next)
         /\ node[n].prev # Null => /\ node[node[n].prev].next = n
                                   /\ \A k \in KeysOf(n) : k >= ikey_bound(n)
    /\ \A k \in Keys :
         LET x == node[LeafOf(k)]  kx == LowerBound(k, x.perm, x.ikey)
         IN ~x.del /\ abs[k] = IF kx.p >= 0 THEN x.lv[kx.p] ELSE NoValue
    /\ \A n \in Nodes : node[n].kind = "internode" /\ ~node[n].del =>
         \A j \in DOMAIN node[n].child : node[n].child[j] # Null => node[node[n].child[j]].parent = n

\* Threads wait for each other in a circle only when one of them, splitting
\* an internode, waits for the lock of a child (masstree_split.hh:156).
StuckOnlyInSplit ==
  \/ ENABLED Next
  \/ \A t \in Threads : At_(t, "idle") /\ idx[t] = Len(prog[t])
  \/ \E t \in Threads : At_(t, "lockchild")
=============================================================================
