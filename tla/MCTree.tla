------------------------------- MODULE MCTree -------------------------------
(***************************************************************************)
(* The tree for TLC: a behaviour is one of the leaves of one layer         *)
(* (BLinkTree) or one of the layers (Layers), chosen by part.              *)
(***************************************************************************)
EXTENDS Layers

VARIABLES part, node, root_, tcur, tprog, tidx, tabs, tseen
treeVars == <<node, root_, tcur, tprog, tidx, tabs, tseen>>

None == "none"
G(k) == [op |-> "get", key |-> k]
P(k) == [op |-> "put", key |-> k]
R(k) == [op |-> "remove", key |-> k]
S(k) == [op |-> "scan", key |-> k]
RS(k) == [op |-> "rscan", key |-> k]
Each(s) == [i \in DOMAIN s |-> {s[i]}]
AllThreads == {"main", "a", "b", "c", "gc"}
Run(m, a, b, c) ==
  [t \in AllThreads |-> CASE t = "main" -> m [] t = "a" -> a [] t = "b" -> b [] t = "c" -> c
                       [] OTHER -> <<>>]

-----------------------------------------------------------------------------
(* Leaves and internodes of width 3.  n puts in key order make n / 3 full  *)
(* leaves; the fifth leaf splits the internode.                            *)
Puts(n) == [i \in 1..n |-> {P(2 * i)}]
TreePrograms == {
  \* One leaf splits or goes beside a reader, or beside another that does.
  Run(Puts(7), <<{P(1), P(5), P(9), R(14)}>>,
      <<{G(6), G(8), G(12), S(4), RS(12), R(8), R(14), R(7), P(3), P(6), P(11)}>>, <<>>),
  \* Two neighbours change beside a reader.
  Run(Puts(7) \o Each(<<R(10), R(12)>>), <<{R(8)}>>, <<{R(14)}>>, <<{G(14)}>>),
  Run(Puts(7) \o Each(<<R(10), R(12)>>), <<{R(8)}>>, <<{P(9)}>>, <<{S(4)}>>),
  Run(Puts(7) \o Each(<<R(10), R(12)>>), <<{R(8)}>>, <<{P(5)}>>, <<{RS(14)}>>),
  Run(Puts(7), <<{P(5)}>>, <<{P(9)}>>, <<{G(6)}>>),
  \* A full internode splits.
  Run(Puts(12), <<{P(5), P(11)}>>, <<{G(10), G(24), P(15), P(23), R(20)}>>, <<>>),
  \* The first leaf of the second internode goes: redirect.
  Run(Puts(16) \o Each(<<R(28), R(30)>>), <<{R(26)}>>,
      <<{P(25), P(31), R(32), G(32), S(22), RS(32)}>>, <<>>),
  \* A leaf that replaced its internode splits.
  Run(Puts(18) \o Each(<<R(26), R(28), R(30)>>), <<{P(35), P(37)}>>,
      <<{G(36), S(30), R(32), P(31), P(25)}>>, <<>>),
  \* The slot that holds the bound is free.
  Run(Puts(7) \o Each(<<R(8), R(10)>>), <<{P(9)}>>, <<{P(11), G(12)}>>, <<>>),
  Run(Puts(7) \o Each(<<R(8)>>), <<{P(9)}>>, <<{P(11), G(12)}>>, <<>>),
  \* redirect while the ancestor splits, and through two ancestors.
  Run(Puts(48) \o Each(<<R(50), R(52)>>), <<{P(5)}>>, <<{R(54)}>>, <<>>),
  Run(Puts(52) \o Each(<<R(98), R(100)>>), <<{R(102)}>>, <<{G(104), P(99)}>>, <<>>)}

\* A first leaf that is split at the front and then emptied.
EmptiedFirstLeaf == {Run(Puts(3), <<{P(1)}, {R(1)}>>, <<{G(2)}>>, <<>>)}

KeyRange == 1..104
Tree == INSTANCE BLinkTree WITH Keys <- KeyRange, Nodes <- 1..32, LeafWidth <- 3,
          InnerWidth <- 3, Programs <- TreePrograms,
          cur <- tcur, prog <- tprog, idx <- tidx, abs <- tabs, seen <- tseen
Emptied == INSTANCE BLinkTree WITH Keys <- 1..6, Nodes <- 1..4, LeafWidth <- 3,
          InnerWidth <- 3, Programs <- EmptiedFirstLeaf,
          cur <- tcur, prog <- tprog, idx <- tidx, abs <- tabs, seen <- tseen

-----------------------------------------------------------------------------
(* Keys of one to three slices; a and ab are prefixes of others.           *)
A == <<"a">>
AB == <<"a", "b">>
AC == <<"a", "c">>
ABD == <<"a", "b", "d">>
ABE == <<"a", "b", "e">>
LayerPrograms == {
  \* A layer is made below a value, beside readers and other puts.
  Run(<<{P(ABD)}>>, <<{P(ABE), P(AC)}>>, <<{G(ABD), G(ABE), R(ABD)}>>, <<{P(ABD), P(A), P(AB)}>>),
  \* Two layers are emptied and collected beside puts into them.
  Run(Each(<<P(ABD), P(ABE), R(ABD), R(ABE)>>), <<{P(ABE), P(AC), G(ABD)}>>, <<{P(ABD), R(ABD)}>>, <<>>),
  Run(Each(<<P(ABD), P(ABE), R(ABD)>>), <<{R(ABE)}>>, <<{P(ABD), P(AC), G(ABE)}>>, <<{P(AB), P(ABE)}>>)}

LayerKeys == {A, AB, AC, ABD, ABE}
LayerSlices == {"a", "b", "c", "d", "e"}
LayerLeaves == 1..7

-----------------------------------------------------------------------------
\* In a behaviour of one part the other part has nothing to do.
NoTree ==
  /\ node = None /\ root_ = None /\ tcur = None /\ tprog = None /\ tidx = None
  /\ tabs = None /\ tseen = None
NoTrie == EmptyTrie /\ prog = [t \in Threads |-> <<>>]
InitTree == part = "tree" /\ Tree!Init /\ NoTrie
InitTrie == part = "trie" /\ TrieInit /\ NoTree
NextTree == part = "tree" /\ Tree!Next /\ UNCHANGED <<part, trieVars>>
NextTrie == part = "trie" /\ TrieNext /\ UNCHANGED <<part, treeVars>>

TreeSpec == (InitTree \/ InitTrie) /\ [][NextTree \/ NextTrie]_<<part, trieVars, treeVars>>

EmptiedSpec ==
  /\ part = "tree" /\ Emptied!Init /\ NoTrie
  /\ [][part = "tree" /\ Emptied!Next /\ UNCHANGED <<part, trieVars>>]_<<part, trieVars, treeVars>>

\* Nodes, leaves and threads keep their shape.
TreeTypeOK == (part = "tree" => Tree!TypeOK) /\ LayersTypeOK

\* A get beside splits and removes returns what the key held while it ran.
GetsAreCurrent == part = "tree" => Tree!GetsAreCurrent

\* A scan returns every key that stays, in order and once.
ScansAreComplete == part = "tree" => Tree!ScansAreComplete

\* The parent that a split or a remove has locked knows the child.
ParentKnowsChild == part = "tree" => Tree!ParentKnowsChild

\* After concurrent changes the tree is a search tree of its contents.
TreeAtRest == part = "tree" => Tree!TreeAtRest

\* A circular wait needs an internode split that locks a child.
StuckOnlyInSplit == part = "tree" => Tree!StuckOnlyInSplit

\* advance_to_key: a get beside a put and a remove that empty the first leaf.
EmptiedGetsAreCurrent == part = "tree" => Emptied!GetsAreCurrent
=============================================================================
