-------------------------------- MODULE Json --------------------------------
(***************************************************************************)
(* Json values (json.hh, json.cc): arrays and objects are counted blocks   *)
(* that copies share until one of them is changed; an object keeps its     *)
(* items in the order of insertion in os_, erased ones marked, and finds   *)
(* them through hash chains.                                               *)
(*                                                                         *)
(* A Json is [t, v]: t is "null", "i", "s", "a" or "o"; v is the primitive *)
(* value or the block, none for an empty complex value.  Positions in os_  *)
(* are counted from 1; next_ is -1 at the end of a chain and -2 in an      *)
(* erased item.  The sizes are scaled: MinCap for the first capacity 8,    *)
(* HashStart for the first hash size 8, LongChain for the chain length 4   *)
(* above which the table is rehashed.  KeyHash gives the hash codes.       *)
(*                                                                         *)
(* stray notes the reads outside live memory that the code makes; what     *)
(* they find is chosen freely.                                             *)
(***************************************************************************)
EXTENDS Integers, Sequences, FiniteSets, SequencesExt, FiniteSetsExt, TLC

CONSTANTS Vars, Blocks,     \* the program's variables; names of blocks
          KeyHash,          \* key -> hash code
          KeyIndex,         \* key -> array index it spells, -1 for none
          UsedKeys,         \* the keys the program uses; the others are indices
          Prims,            \* primitive Jsons the program uses
          MaxOps,           \* operations of a run
          MinCap, HashStart, LongChain

VARIABLES heap,  \* block -> array or object
          var,   \* the program's Jsons
          want,  \* the value each should have
          ops,
          stray  \* "table": an index into an empty hash table; "own": an element of a freed block

vars == <<heap, var, want, ops, stray>>

Keys == DOMAIN KeyHash
Fill(n, x) == [i \in 1..n |-> x]
IndexKey(i) == CHOOSE k \in Keys : KeyIndex[k] = i
Json(t, v) == [t |-> t, v |-> v]
Null == Json("null", "none")
With(x, Op(_)) == Op(x)
Complex(j) == j.t \in {"a", "o"} /\ j.v # "none"
At(h, j) == h[j.v]

-------------------------------------------------------------------------------
(* Blocks and their counts.                                                *)

Fresh(h) == CHOOSE b \in Blocks : b \notin DOMAIN h
ArrayJson(cap) == [k |-> "a", ref |-> 1, cap |-> cap, a |-> <<>>]
ObjectJson == [k |-> "o", ref |-> 1, cap |-> 0, os |-> <<>>, hash |-> <<>>, size |-> 0]

LiveItem(item) == item.next > -2
Elements(b) == IF b.k = "a" THEN b.a
               ELSE LET live == SelectSeq(b.os, LiveItem)
                    IN  [i \in DOMAIN live |-> live[i].v]

ref(h, j) == IF Complex(j) THEN [h EXCEPT ![j.v].ref = @ + 1] ELSE h
RefAll(h, js) == FoldLeft(ref, h, js)

\* deref; the last one destroys the block and with it its elements.
RECURSIVE deref(_, _)
deref(h, j) ==
    IF ~Complex(j) THEN h
    ELSE IF At(h, j).ref > 1 THEN [h EXCEPT ![j.v].ref = @ - 1]
    ELSE FoldLeft(deref, [b \in DOMAIN h \ {j.v} |-> h[b]], Elements(At(h, j)))

-------------------------------------------------------------------------------
(* ObjectJson.                                                             *)

bucket(o, key) == 1 + (KeyHash[key] % Len(o.hash))

\* The chain that starts at p: the position of key in it, -1 if there is none.
RECURSIVE Walk(_, _, _)
Walk(o, p, key) == IF p = -1 THEN -1
                   ELSE IF o.os[p].key = key THEN p ELSE Walk(o, o.os[p].next, key)
RECURSIVE Chain(_, _)
Chain(o, p) == IF p = -1 THEN <<>> ELSE <<p>> \o Chain(o, o.os[p].next)

find(o, key) == IF o.hash = <<>> THEN -1 ELSE Walk(o, o.hash[bucket(o, key)], key)

\* Chains of a table twice as large, each in the order of positions.
rehash(o) ==
    With([o EXCEPT !.hash = Fill(2 * Len(@), -1)], LAMBDA o1 :
        LET In(b) == {i \in DOMAIN o.os : LiveItem(o.os[i]) /\ bucket(o1, o.os[i].key) = b}
            First(S) == IF S = {} THEN -1 ELSE Min(S)
            Linked(i) == IF LiveItem(o.os[i])
                         THEN [o.os[i] EXCEPT !.next =
                                  First({x \in In(bucket(o1, o.os[i].key)) : x > i})]
                         ELSE o.os[i]
        IN  [o1 EXCEPT
                !.hash = [b \in DOMAIN @ |-> First(In(b))],
                !.os = FoldLeftDomain(LAMBDA os, i : Append(os, Linked(i)), <<>>, @)])

\* The pointer to p, in the table or in an item, now points to q.
Relink(o, key, p, q) ==
    LET b == bucket(o, key)
    IN  IF o.hash[b] = p THEN [o EXCEPT !.hash[b] = q]
        ELSE LET from == CHOOSE i \in Range(Chain(o, o.hash[b])) : o.os[i].next = p
             IN  [o EXCEPT !.os[from].next = q]

\* find_insert and get_insert: the object with key in it, null if it is new.
Added(o, key) ==
    [Relink(o, key, -1, Len(o.os) + 1)
     EXCEPT !.os = Append(@, [key |-> key, v |-> Null, next |-> -1]),
            !.cap = IF Len(o.os) # @ THEN @ ELSE IF @ = 0 THEN MinCap ELSE 2 * @,
            !.size = @ + 1]
find_insert(o0, key) ==
    With(IF o0.hash = <<>> THEN [o0 EXCEPT !.hash = Fill(HashStart, -1)] ELSE o0, LAMBDA o :
        IF find(o, key) # -1 THEN o
        ELSE IF Len(Chain(o, o.hash[bucket(o, key)])) > LongChain THEN rehash(Added(o, key))
        ELSE Added(o, key))

Erased(item) == [item EXCEPT !.next = -2, !.v = Null]
\* erase of the item at p; its element loses a reference.
EraseAt(h, id, p) ==
    LET o == h[id]
    IN  deref([h EXCEPT ![id] = [Relink(o, o.os[p].key, p, o.os[p].next)
                                 EXCEPT !.os = ReplaceAt(@, p, Erased(@[p])), !.size = @ - 1]],
              o.os[p].v)
erase(h, id, key) == IF find(h[id], key) = -1 THEN h ELSE EraseAt(h, id, find(h[id], key))

-------------------------------------------------------------------------------
(* Before a change: a block of the right kind that nobody shares.  These   *)
(* return [h, j], the heap and the Json afterwards.                        *)

Made(h, j) == [h |-> h, j |-> j]
Store(h, b) == h @@ (Fresh(h) :> b)

\* An item is assigned: the new value brings its reference.
PutItem(h, id, key, val) ==
    With(find_insert(h[id], key), LAMBDA o : With(find(o, key), LAMBDA p :
        deref([h EXCEPT ![id] = [o EXCEPT !.os = ReplaceAt(@, p, [@[p] EXCEPT !.v = val])]],
              o.os[p].v)))

\* The copied items take no reference to what they hold.
MutHardUniqueifyObject(h, j) ==
    LET id == Fresh(h)
        copy == Store(h, [At(h, j) EXCEPT !.ref = 1])
        a == At(h, j).a
        filled == FoldLeft(LAMBDA g, i : PutItem(ref(g, a[i]), id, IndexKey(i - 1), a[i]),
                           Store(h, ObjectJson), [i \in 1..Len(a) |-> i])
    IN  Made(IF ~Complex(j) THEN Store(h, ObjectJson)
             ELSE deref(IF j.t = "o" THEN copy ELSE filled, j),
             Json("o", id))

hard_uniqueify_object(h, j) ==
    LET id == Fresh(h)
        copy == RefAll(Store(h, [At(h, j) EXCEPT !.ref = 1]), Elements(At(h, j)))
        a == At(h, j).a
        filled == FoldLeft(LAMBDA g, i : PutItem(ref(g, a[i]), id, IndexKey(i - 1), a[i]),
                           Store(h, ObjectJson), [i \in 1..Len(a) |-> i])
    IN  Made(IF ~Complex(j) THEN Store(h, ObjectJson)
             ELSE deref(IF j.t = "o" THEN copy ELSE filled, j),
             Json("o", id))

uniqueify_object(h, j) ==
    IF j.t # "o" \/ j.v = "none" \/ At(h, j).ref # 1 THEN hard_uniqueify_object(h, j)
    ELSE Made(h, j)

PowerOf2(n) == CHOOSE c \in {2 ^ e : e \in 0..6} : c >= n /\ c \div 2 < n

\* The elements of the object under keys that spell an index, and null for
\* the indices between them.
FromObject(o) ==
    LET At0(i) == find(o, IndexKey(i))
        used == {KeyIndex[o.os[p].key] : p \in {q \in DOMAIN o.os : LiveItem(o.os[q])}} \ {-1}
        n == IF used = {} THEN 0 ELSE Max(used) + 1
    IN  [i \in 1..n |-> IF i - 1 \in used THEN o.os[At0(i - 1)].v ELSE Null]

hard_uniqueify_array(h, j, ncap) ==
    With(IF ~Complex(j) THEN <<>> ELSE IF j.t = "a" THEN At(h, j).a ELSE FromObject(At(h, j)),
         LAMBDA elements :
        LET id == Fresh(h)
            b == [ArrayJson(PowerOf2(Max({ncap, MinCap, Len(elements)}))) EXCEPT !.a = elements]
        IN  Made(IF ~Complex(j) THEN Store(h, b)
                 ELSE IF j.t = "a" /\ At(h, j).ref = 1
                 THEN [i \in (DOMAIN h \ {j.v}) \cup {id} |-> IF i = id THEN b ELSE h[i]]
                 ELSE deref(RefAll(Store(h, b), elements), j),
                 Json("a", id)))

uniqueify_array(h, j, ncap) ==
    IF j.t # "a" \/ j.v = "none" \/ At(h, j).ref # 1 \/ ncap > At(h, j).cap
    THEN hard_uniqueify_array(h, j, ncap) ELSE Made(h, j)

-------------------------------------------------------------------------------
(* The operations, again as [h, j].                                        *)

Size(h, j) == IF Complex(j) THEN IF j.t = "a" THEN Len(At(h, j).a) ELSE At(h, j).size ELSE 0

\* set and operator[] = val; val brings its reference.
set(h, j, key, val) ==
    With(uniqueify_object(h, j), LAMBDA u : Made(PutItem(u.h, u.j.v, key, val), u.j))

\* j[key1][key2] = val.
SetInside(h, j, key1, key2, val) ==
    With(uniqueify_object(h, j), LAMBDA u :
    With(find_insert(u.h[u.j.v], key1), LAMBDA o :
    With(find(o, key1), LAMBDA p :
    With(set([u.h EXCEPT ![u.j.v] = o], o.os[p].v, key2, val), LAMBDA inner :
        Made([inner.h EXCEPT ![u.j.v].os[p].v = inner.j], u.j)))))

insert(h, j, key, val) ==
    With(uniqueify_object(h, j), LAMBDA u :
        IF find(u.h[u.j.v], key) # -1 THEN u
        ELSE Made(PutItem(u.h, u.j.v, key, val), u.j))

unset(h, j, key) ==
    With(uniqueify_object(h, j), LAMBDA u : Made(erase(u.h, u.j.v, key), u.j))

\* erase of the first item an iterator comes to.
EraseFirst(h, j) ==
    With(uniqueify_object(h, j), LAMBDA u :
        LET os == u.h[u.j.v].os
        IN  Made(EraseAt(u.h, u.j.v, Min({p \in DOMAIN os : LiveItem(os[p])})), u.j))

\* merge; x is read after the change that made j's block its own.
merge(h, j, x, same) ==
    IF x.v = "none" THEN Made(h, j)
    ELSE With(uniqueify_object(h, j), LAMBDA u :
        Made(FoldLeft(LAMBDA g, item : PutItem(ref(g, item.v), u.j.v, item.key, item.v),
                      u.h, SelectSeq(At(u.h, IF same THEN u.j ELSE x).os, LiveItem)), u.j))

\* uniqueify_array_insert, and the element put there.
InsertElement(h, j, pos, val) ==
    With(uniqueify_array(h, j, Size(h, j) + 1), LAMBDA u :
        LET at == IF pos = -1 THEN Size(h, j) ELSE pos
        IN  Made([u.h EXCEPT ![u.j.v].a = InsertAt(@, at + 1, val)], u.j))
push_back(h, j, val) == InsertElement(h, j, -1, val)

\* erase(first, last); pop_back drops the last.
EraseElement(h, j, pos) ==
    With(uniqueify_array(h, j, 0), LAMBDA u :
        Made(deref([u.h EXCEPT ![u.j.v].a = RemoveAt(@, pos)], u.h[u.j.v].a[pos]), u.j))

resize(h, j, n) ==
    With(uniqueify_array(h, j, n), LAMBDA u :
        LET a == u.h[u.j.v].a
            kept == [i \in 1..n |-> IF i <= Len(a) THEN a[i] ELSE Null]
        IN  Made(FoldLeft(deref, [u.h EXCEPT ![u.j.v].a = kept], SubSeq(a, n + 1, Len(a))), u.j))

\* hard_get_insert(x) = val: an object takes the key, all else is an array.
SetIndex(h, j, x, val) ==
    IF j.t = "o" THEN set(h, j, IndexKey(x), val)
    ELSE With(uniqueify_array(h, j, IF j.t = "a" /\ x < Size(h, j) THEN 0 ELSE x + 1), LAMBDA u :
        LET a == u.h[u.j.v].a
            n == IF Len(a) <= x THEN x + 1 ELSE Len(a)
        IN  Made(deref([u.h EXCEPT ![u.j.v].a =
                            [i \in 1..n |-> IF i = x + 1 THEN val
                                            ELSE IF i <= Len(a) THEN a[i] ELSE Null]],
                       IF x < Len(a) THEN a[x + 1] ELSE Null),
                  u.j))

\* clear keeps a block of its own and leaves a shared one.
clear(h, j) ==
    LET b == At(h, j)
        emptied == IF b.k = "a" THEN [b EXCEPT !.a = <<>>]
                   ELSE [b EXCEPT !.os = <<>>, !.size = 0, !.hash = Fill(Len(@), -1)]
    IN  IF ~Complex(j) THEN Made(h, IF j.t \in {"a", "o"} THEN j ELSE Null)
        ELSE IF b.ref = 1 THEN Made(FoldLeft(deref, [h EXCEPT ![j.v] = emptied], Elements(b)), j)
        ELSE Made(deref(h, j), [j EXCEPT !.v = "none"])

\* hard_to_i, hard_to_u and hard_to_d; hard_to_b.
Number(v) == IF v = "1" THEN 1 ELSE 0
hard_to_i(h, j) == IF j.t \in {"a", "o"} THEN Size(h, j) ELSE Number(j.v)
hard_to_b(h, j) == CASE j.t \in {"a", "o"} -> Size(h, j) # 0
                     [] j.t = "i" -> Number(j.v) # 0
                     [] OTHER -> j.t = "s"

\* operator==: arrays and objects are equal when they are the same block.
Equal(a, b) == a.t = b.t /\ a.v = b.v

-------------------------------------------------------------------------------
(* What the operations should do to values without any sharing.            *)

\* [n |-> TRUE], [i |-> x], [s |-> x], [a |-> values], [o |-> pairs].
NullValue == [n |-> TRUE]
IsObject(v) == "o" \in DOMAIN v
IsArray(v) == "a" \in DOMAIN v
PrimValue(j) == CASE j.t = "i" -> [i |-> j.v] [] j.t = "s" -> [s |-> j.v] [] OTHER -> NullValue

Pairs(v) == IF IsObject(v) THEN v.o
            ELSE IF IsArray(v) THEN [i \in DOMAIN v.a |-> <<IndexKey(i - 1), v.a[i]>>]
            ELSE <<>>
Has(ps, key) == \E i \in DOMAIN ps : ps[i][1] = key
ValueAt(ps, key) == IF Has(ps, key) THEN ps[CHOOSE i \in DOMAIN ps : ps[i][1] = key][2]
                    ELSE NullValue
WithPair(ps, key, x) ==
    IF Has(ps, key) THEN [i \in DOMAIN ps |-> IF ps[i][1] = key THEN <<key, x>> ELSE ps[i]]
    ELSE Append(ps, <<key, x>>)
Without(ps, key) == SelectSeq(ps, LAMBDA p : p[1] # key)

SetValue(v, key, x) == [o |-> WithPair(Pairs(v), key, x)]
Items(v) == IF IsArray(v) THEN v.a ELSE <<>>
SetIndexValue(v, x, y) ==
    IF IsObject(v) THEN SetValue(v, IndexKey(x), y)
    ELSE LET a == Items(v)
             n == IF Len(a) <= x THEN x + 1 ELSE Len(a)
         IN  [a |-> [i \in 1..n |-> IF i = x + 1 THEN y
                                    ELSE IF i <= Len(a) THEN a[i] ELSE NullValue]]

\* The value a Json shows.
RECURSIVE Tree(_, _)
Tree(h, j) ==
    CASE j.t = "a" -> [a |-> IF j.v = "none" THEN <<>>
                             ELSE [i \in DOMAIN At(h, j).a |-> Tree(h, At(h, j).a[i])]]
      [] j.t = "o" -> [o |-> IF j.v = "none" THEN <<>>
                             ELSE LET live == SelectSeq(At(h, j).os, LiveItem)
                                  IN  [i \in DOMAIN live |->
                                          <<live[i].key, Tree(h, live[i].v)>>]]
      [] OTHER -> PrimValue(j)

-------------------------------------------------------------------------------
(* The program.                                                            *)

Init == /\ heap = <<>>
        /\ var = [x \in Vars |-> Null]
        /\ want = [x \in Vars |-> NullValue]
        /\ ops = 0
        /\ stray = {}

BecomesBy(x, made, value, strays) ==
    /\ ops < MaxOps
    /\ stray' = stray \cup strays
    /\ ops' = ops + 1
    /\ heap' = made.h
    /\ var' = [var EXCEPT ![x] = made.j]
    /\ want' = [want EXCEPT ![x] = value]
Becomes(x, made, value) == BecomesBy(x, made, value, {})

\* An argument: a primitive, or a copy of a variable, which holds a reference.
Args == Prims \cup Range([x \in Vars |-> var[x]])
ArgHeap(j) == ref(heap, j)

AssignPrim(x) == \E p \in Prims \cup {Json("a", "none"), Json("o", "none")} :
    Becomes(x, Made(deref(heap, var[x]), p), Tree(heap, p))
\* x = Json::array(p, array(p)), and x = Json::object(key, p, key, array(p)).
ArrayOf(h, js) == FoldLeft(LAMBDA u, j : push_back(u.h, u.j, j),
                           Made(h, Json("a", "none")), js)
Construct(x) == ops < MaxOps /\ \E p \in Prims : \E key1, key2 \in UsedKeys : \E object \in BOOLEAN :
    \E inner \in {ArrayOf(heap, <<p>>)} :
    \E outer \in {set(inner.h, Json("o", "none"), key1, p)} :
    \E made \in {IF object THEN set(outer.h, outer.j, key2, inner.j)
                ELSE ArrayOf(inner.h, <<p, inner.j>>)} :
        /\ key1 # key2
        /\ Becomes(x, Made(deref(made.h, var[x]), made.j), Tree(made.h, made.j))

AssignCopy(x, y) == Becomes(x, Made(deref(ref(heap, var[y]), var[x]), var[y]), want[y])
\* The source is an element of x: its block is gone when it is read, unless it is shared.
AssignOwn(x) == Complex(var[x]) /\ \E j \in Range(Elements(At(heap, var[x]))) :
    LET h == deref(ref(heap, j), var[x])
    IN  IF var[x].v \in DOMAIN h THEN Becomes(x, Made(h, j), Tree(heap, j))
        ELSE \E found \in {j, Null} : BecomesBy(x, Made(h, found), Tree(heap, j), {"own"})
Swap(x, y) ==
    /\ x # y /\ ops < MaxOps
    /\ ops' = ops + 1
    /\ var' = [var EXCEPT ![x] = var[y], ![y] = var[x]]
    /\ want' = [want EXCEPT ![x] = want[y], ![y] = want[x]]
    /\ UNCHANGED <<heap, stray>>

SetKey(x) == \E key \in UsedKeys : \E arg \in Args :
    Becomes(x, set(ArgHeap(arg), var[x], key, arg), SetValue(want[x], key, Tree(heap, arg)))
SetKeyInside(x) == \E key1, key2 \in UsedKeys : \E arg \in Prims :
    Becomes(x, SetInside(heap, var[x], key1, key2, arg),
            SetValue(want[x], key1,
                     SetValue(ValueAt(Pairs(want[x]), key1), key2, PrimValue(arg))))
InsertKey(x) == \E key \in UsedKeys : \E arg \in Prims :
    /\ IsObject(want[x])
    /\ Becomes(x, insert(heap, var[x], key, arg),
               IF Has(Pairs(want[x]), key) THEN want[x]
               ELSE SetValue(want[x], key, PrimValue(arg)))

UnsetKey(x) == \E key \in UsedKeys : \E made \in {uniqueify_object(heap, var[x])} :
    /\ IsObject(want[x])
    /\ made.h[made.j.v].hash # <<>>
    /\ Becomes(x, unset(heap, var[x], key), [o |-> Without(Pairs(want[x]), key)])
\* erase indexes the hash table without looking whether there is one: it finds the end of a
\* chain, or an item to erase.
UnsetStray(x) == \E made \in {uniqueify_object(heap, var[x])} : \E found \in BOOLEAN :
    /\ IsObject(want[x])
    /\ made.h[made.j.v].hash = <<>>
    /\ BecomesBy(x, IF found THEN Made([made.h EXCEPT ![made.j.v].size = @ - 1], made.j) ELSE made,
                 want[x], {"table"})
EraseItem(x) ==
    /\ IsObject(want[x]) /\ Pairs(want[x]) # <<>>
    /\ Becomes(x, EraseFirst(heap, var[x]), [o |-> Tail(Pairs(want[x]))])
Merge(x, y) ==
    LET ok(v) == IsObject(v) \/ v = NullValue
    IN  /\ ok(want[x]) /\ ok(want[y])
        /\ Becomes(x, merge(heap, var[x], var[y], x = y),
                   IF var[y].v = "none" THEN want[x]
                   ELSE FoldLeft(LAMBDA v, p : SetValue(v, p[1], p[2]),
                                 [o |-> Pairs(want[x])], Pairs(want[y])))

ArrayOrNull(x) == IsArray(want[x]) \/ want[x] = NullValue
PushBack(x) == \E arg \in Args :
    /\ ArrayOrNull(x)
    /\ Becomes(x, push_back(ArgHeap(arg), var[x], arg),
               [a |-> Append(Items(want[x]), Tree(heap, arg))])
InsertFront(x) == \E arg \in Prims :
    /\ ArrayOrNull(x)
    /\ Becomes(x, InsertElement(heap, var[x], 0, arg),
               [a |-> <<PrimValue(arg)>> \o Items(want[x])])
EraseOne(x) == \E pos \in {1, Len(Items(want[x]))} :
    /\ IsArray(want[x]) /\ Items(want[x]) # <<>>
    /\ Becomes(x, EraseElement(heap, var[x], pos), [a |-> RemoveAt(Items(want[x]), pos)])
Resize(x) == \E n \in 0..2 :
    /\ ArrayOrNull(x)
    /\ Becomes(x, resize(heap, var[x], n),
               [a |-> [i \in 1..n |-> IF i <= Len(Items(want[x])) THEN Items(want[x])[i]
                                      ELSE NullValue]])
SetAt(x) == \E i \in 0..1 : \E arg \in Prims :
    Becomes(x, SetIndex(heap, var[x], i, arg), SetIndexValue(want[x], i, PrimValue(arg)))

Clear(x) == Becomes(x, clear(heap, var[x]),
                    IF IsObject(want[x]) THEN [o |-> <<>>]
                    ELSE IF IsArray(want[x]) THEN [a |-> <<>>] ELSE NullValue)

Next ==
    \E x \in Vars :
        \/ AssignPrim(x) \/ Construct(x) \/ SetKey(x) \/ SetKeyInside(x) \/ InsertKey(x)
        \/ UnsetKey(x) \/ UnsetStray(x) \/ AssignOwn(x) \/ EraseItem(x) \/ PushBack(x) \/ InsertFront(x) \/ EraseOne(x) \/ Resize(x)
        \/ SetAt(x) \/ Clear(x)
        \/ \E y \in Vars : AssignCopy(x, y) \/ Swap(x, y) \/ Merge(x, y)

Spec == Init /\ [][Next]_vars

-------------------------------------------------------------------------------

Holds(j, b) == j.t \in {"a", "o"} /\ j.v = b
Places == UNION {{<<c, i>> : i \in DOMAIN Elements(heap[c])} : c \in DOMAIN heap}
Held == {var[x] : x \in Vars} \cup {Elements(heap[p[1]])[p[2]] : p \in Places}
References(b) == Cardinality({x \in Vars : Holds(var[x], b)})
                 + Cardinality({p \in Places : Holds(Elements(heap[p[1]])[p[2]], b)})

\* "Two Json values cannot share subobjects": whatever blocks they share, and
\* however objects grow, are rehashed and keep erased items, every variable
\* shows the value its own operations gave it; every item is found through its
\* hash chain and no erased one is; conversions and == agree with the value;
\* a block's count is the number of its holders: none is leaked or used freed.
Value ==
    /\ \A j \in Held : Complex(j) => j.v \in DOMAIN heap
    /\ \A x \in Vars : /\ Tree(heap, var[x]) = want[x]
                       /\ hard_to_i(heap, var[x]) =
                            (IF IsObject(want[x]) THEN Len(want[x].o)
                             ELSE IF IsArray(want[x]) THEN Len(want[x].a)
                             ELSE Number(var[x].v))
                       /\ hard_to_b(heap, var[x]) = (want[x] \notin
                              {NullValue, [i |-> "0"], [a |-> <<>>], [o |-> <<>>]})
    /\ \A x, y \in Vars : Equal(var[x], var[y]) => want[x] = want[y]
    /\ \A b \in DOMAIN heap :
        /\ heap[b].ref = References(b)
        /\ heap[b].k = "o" =>
            LET os == heap[b].os
                live == {p \in DOMAIN os : LiveItem(os[p])}
            IN  /\ heap[b].size = Cardinality(live) /\ Len(os) <= heap[b].cap
                /\ \A key \in Keys :
                    find(heap[b], key) = IF \E p \in live : os[p].key = key
                                         THEN CHOOSE p \in live : os[p].key = key ELSE -1

\* This holds for as long as nothing outside live memory is read.
JsonIsAValue == stray = {} => Value
=============================================================================
