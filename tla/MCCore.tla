------------------------------- MODULE MCCore -------------------------------
(***************************************************************************)
(* The tree for TLC: a behaviour is one of a leaf and its logs (InCLL), of *)
(* the leaves of one layer (BLinkTree) or of the layers (Layers), chosen   *)
(* by part.                                                                *)
(***************************************************************************)
EXTENDS MCInCLL, MCTree

leafVars == <<vars, nops>>

\* In a behaviour of one part the others have nothing to do.
InitLeaf == part = "leaf" /\ MCInit /\ NoTree /\ NoTrie
InitIndex ==
  /\ InitTree \/ InitTrie
  /\ MCInit /\ hdr.permutation = {} /\ lv = [p \in Slots |-> v1]

NextLeaf ==
  part = "leaf" /\ AssumedNext /\ Counted /\ UNCHANGED <<part, trieVars, treeVars>>
NextIndex == (NextTree \/ NextTrie) /\ UNCHANGED leafVars

CoreSpec ==
  (InitLeaf \/ InitIndex) /\ [][NextLeaf \/ NextIndex]_<<part, leafVars, trieVars, treeVars>>
=============================================================================
