----------------------------- MODULE MerkleTree -----------------------------
(***************************************************************************)
(* The sorted, domain-separated Merkle tree of cli/hash.js and of          *)
(* verifyLeaf in contracts/ContributionRegistry.sol.                       *)
(*                                                                         *)
(* keccak256 is an injective constructor: a hash is the tuple of what is   *)
(* hashed, and the domain tag is its first component.  A leaf digest is    *)
(* the tuple of its 32-byte value, a number, because the tree sorts by it. *)
(* nodeHash sorts its two children, so that a node is the set of them.     *)
(***************************************************************************)
EXTENDS Integers, Sequences, FiniteSets

Digest(value) == <<"digest", value>>

leafHash(c) == <<"leaf", c>>

nodeHash(a, b) == <<"node", {a, b}>>

\* One level up: neighbours in pairs, a lone last node with itself.
NextLayer(layer) ==
  [i \in 1 .. (Len(layer) + 1) \div 2 |->
     nodeHash(layer[2 * i - 1], IF 2 * i <= Len(layer) THEN layer[2 * i] ELSE layer[2 * i - 1])]

\* The loop of buildTree: a layer is pushed as long as the last one has several nodes.
LayersAbove(layer) ==
  LET layers[n \in 1 .. Len(layer)] ==
        IF n = 1 THEN <<layer>>
        ELSE LET below == layers[n - 1]
                 last  == below[Len(below)]
             IN  IF Len(last) > 1 THEN Append(below, NextLayer(last)) ELSE below
  IN  layers[Len(layer)]

\* The order of the leaves: ascending, and equal ones stay as they are.
Before(leaves, i, k) ==
  LET this  == leaves[i][2]
      other == leaves[k][2]
  IN  this < other \/ (this = other /\ i < k)

sortedLeaves(leaves) ==
  LET order == CHOOSE o \in [DOMAIN leaves -> DOMAIN leaves] :
                 \A n \in 2 .. Len(leaves) : Before(leaves, o[n - 1], o[n])
  IN  [n \in 1 .. Len(leaves) |-> leaves[order[n]]]

\* buildTree: the layers from the tagged leaves up to the root.
buildTree(leaves) ==
  LET sorted == sortedLeaves(leaves)
  IN  LayersAbove([i \in 1 .. Len(sorted) |-> leafHash(sorted[i])])

Root(layers) == layers[Len(layers)][1]

\* The siblings from the leaf at the (zero-based) index up to the root.
proofForIndex(layers, index) ==
  LET idx[l \in 1 .. Len(layers)] == IF l = 1 THEN index ELSE idx[l - 1] \div 2
      sibling(l) == IF idx[l] % 2 = 0 THEN idx[l] + 1 ELSE idx[l] - 1
  IN  [l \in 1 .. Len(layers) - 1 |->
         IF sibling(l) < Len(layers[l]) THEN layers[l][sibling(l) + 1] ELSE layers[l][idx[l] + 1]]

\* What folding a leaf through a proof computes, on the chain and in recomputeFold.
Fold(leaf, proof) ==
  LET computed[n \in 0 .. Len(proof)] ==
        IF n = 0 THEN leafHash(leaf) ELSE nodeHash(computed[n - 1], proof[n])
  IN  computed[Len(proof)]

verifyLeaf(root, leaf, proof) == Fold(leaf, proof) = root
=============================================================================
