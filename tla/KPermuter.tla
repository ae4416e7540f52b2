------------------------------ MODULE KPermuter ------------------------------
(***************************************************************************)
(* The permutation word of a leaf (kpermuter.hh) as what it stands for: an *)
(* order of the slots, of which the first size are in use.  Positions and  *)
(* slots count from 0.                                                     *)
(***************************************************************************)
EXTENDS Integers, Sequences, SequencesExt, FiniteSetsExt

At(p, i) == p.slot[i + 1]
Back(p) == p.slot[Len(p.slot)]

\* Slots are handed out from the back: 0, 1, ...
make_empty(width) == [size |-> 0, slot |-> [j \in 1..width |-> width - j]]

\* n sorted slots in use; the free ones follow, n at the back.
make_sorted(width, n) ==
  [size |-> n,
   slot |-> [j \in 1..width |-> IF j <= n THEN j - 1 ELSE width + n - j]]

set_size(p, n) == [p EXCEPT !.size = n]

\* The slot at the back moves to position i.
insert_from_back(p, i) ==
  [size |-> p.size + 1, slot |-> InsertAt(Front(p.slot), i + 1, Back(p))]

\* The slot at position i becomes the first free one.
remove(p, i) ==
  [size |-> p.size - 1,
   slot |-> InsertAt(RemoveAt(p.slot, i + 1), p.size, At(p, i))]

\* The slot at position i moves to the back.
remove_to_back(p, i) ==
  [size |-> p.size - 1, slot |-> Append(RemoveAt(p.slot, i + 1), At(p, i))]

exchange(p, i, j) ==
  [p EXCEPT !.slot[i + 1] = At(p, j), !.slot[j + 1] = At(p, i)]

\* Linear search: the first position whose key is not less than k, and the
\* slot there when its key is k.
LowerBound(k, p, ikey) ==
  LET stop == {l \in 0..(p.size - 1) : k <= ikey[At(p, l)]}
      i == IF stop = {} THEN p.size ELSE Min(stop)
  IN [i |-> i, p |-> IF stop # {} /\ ikey[At(p, i)] = k THEN At(p, i) ELSE -1]

\* The first position of the sequence keys whose key is greater than k.
UpperBound(k, keys) ==
  LET stop == {l \in 0..(Len(keys) - 1) : k < keys[l + 1]}
  IN IF stop = {} THEN Len(keys) ELSE Min(stop)
=============================================================================
