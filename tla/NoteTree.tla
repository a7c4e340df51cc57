-------------------------------- MODULE NoteTree --------------------------------
(***************************************************************************)
(* The note accumulator (engine/src/merkle.rs): an append-only Merkle tree *)
(* of depth DEPTH whose untouched subtrees have default roots, the         *)
(* membership paths of its leaves, and the frontier, which appends and     *)
(* gives the root without the tree.                                        *)
(*                                                                         *)
(* A digest is the tuple of what was hashed: two digests are equal exactly *)
(* if their preimages are.                                                 *)
(***************************************************************************)
EXTENDS Integers, Sequences, SequencesExt, Functions

CONSTANT DEPTH

ASSUME DepthAssumption == DEPTH \in Nat \ {0}

Levels == 0 .. DEPTH - 1

Compress(left, right) == <<<<"node">>, left, right>>

EMPTY_LEAF == <<"empty">>

zeros[level \in 0 .. DEPTH] ==
  IF level = 0 THEN EMPTY_LEAF ELSE Compress(zeros[level - 1], zeros[level - 1])

(* The node of level l above leaf i. *)
Above(i, l) == i \div (2 ^ l)

IsLeft(i) == i % 2 = 0

Sibling(i) == IF IsLeft(i) THEN i + 1 ELSE i - 1

-----------------------------------------------------------------------------
(* The tree: its touched nodes, and the index the next leaf takes. *)

EmptyTree == [nodes |-> <<>>, next |-> 0]

Node(tree, level, i) ==
  IF <<level, i>> \in DOMAIN tree.nodes THEN tree.nodes[<<level, i>>] ELSE zeros[level]

Root(tree) == Node(tree, DEPTH, 0)

IsFull(tree) == tree.next = 2 ^ DEPTH

(* The nodes from the new leaf up to the root. *)
TreeAppend(tree, leaf) ==
  LET index == tree.next
      climbed[l \in 0 .. DEPTH] ==
        IF l = 0 THEN leaf
        ELSE LET i == Above(index, l - 1)
                 sibling == Node(tree, l - 1, Sibling(i))
             IN  IF IsLeft(i) THEN Compress(climbed[l - 1], sibling)
                 ELSE Compress(sibling, climbed[l - 1])
      path == {<<l, Above(index, l)>> : l \in 0 .. DEPTH}
  IN  [nodes |-> [n \in path \union DOMAIN tree.nodes |->
                    IF n \in path THEN climbed[n[1]] ELSE tree.nodes[n]],
       next  |-> index + 1]

(* Siblings from the leaf up. *)
AuthenticationPath(tree, index) ==
  [siblings |-> [l \in Levels |-> Node(tree, l, Sibling(Above(index, l)))],
   index    |-> index]

RootFromPath(leaf, path) ==
  LET up[l \in 0 .. DEPTH] ==
        IF l = 0 THEN leaf
        ELSE IF IsLeft(Above(path.index, l - 1))
             THEN Compress(up[l - 1], path.siblings[l - 1])
             ELSE Compress(path.siblings[l - 1], up[l - 1])
  IN  up[DEPTH]

-----------------------------------------------------------------------------
(* The frontier: the left sibling the next node of each level will have. *)

EmptyFrontier == [filled |-> [l \in Levels |-> zeros[l]], leaf_count |-> 0]

FrontierRoot(f) ==
  LET up[l \in 0 .. DEPTH] ==
        IF l = 0 THEN zeros[0]
        ELSE IF IsLeft(Above(f.leaf_count, l - 1))
             THEN Compress(up[l - 1], zeros[l - 1])
             ELSE Compress(f.filled[l - 1], up[l - 1])
  IN  up[DEPTH]

(* The node that enters each level when leaf is appended. *)
Climb(f, leaf) ==
  LET up[l \in 0 .. DEPTH] ==
        IF l = 0 THEN leaf
        ELSE IF IsLeft(Above(f.leaf_count, l - 1))
             THEN Compress(up[l - 1], zeros[l - 1])
             ELSE Compress(f.filled[l - 1], up[l - 1])
  IN  up

FrontierAppend(f, leaf) ==
  [filled     |-> [l \in Levels |-> IF IsLeft(Above(f.leaf_count, l)) THEN Climb(f, leaf)[l]
                                    ELSE f.filled[l]],
   leaf_count |-> f.leaf_count + 1]

FromLeaves(leaves) == FoldLeft(FrontierAppend, EmptyFrontier, leaves)

(* settle_tree_transition: the root an epoch starts from, and its frontier. *)
SettleTreeTransition(f, epochLeaves) ==
  <<FrontierRoot(f), FoldLeft(FrontierAppend, f, epochLeaves)>>

-----------------------------------------------------------------------------
(* Reference: the root of the complete tree over the leaves padded with     *)
(* empty ones, level by level.                                             *)

ReferenceRoot(leaves) ==
  LET level[l \in 0 .. DEPTH] ==
        IF l = 0
        THEN [i \in 0 .. 2 ^ DEPTH - 1 |-> IF i < Len(leaves) THEN leaves[i + 1] ELSE EMPTY_LEAF]
        ELSE [i \in 0 .. 2 ^ (DEPTH - l) - 1 |->
                Compress(level[l - 1][2 * i], level[l - 1][2 * i + 1])]
  IN  level[DEPTH][0]
================================================================================
