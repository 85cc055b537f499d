----------------------------- MODULE MerkleTrees -----------------------------
(***************************************************************************)
(* The three Merkle trees of the project: by layers (agent/lib/merkle.mjs),*)
(* leaf by leaf (agent/lib/stream-merkle.mjs) and in place, on board       *)
(* (flight/custody.c).  A hash is a term: SHA-256 of a leaf or of two      *)
(* nodes, which tells any two trees apart.                                 *)
(***************************************************************************)
EXTENDS Integers, Sequences, FiniteSets, FiniteSetsExt, SequencesExt

CONSTANTS MaxLeaves,  \* bound: leaves of a tree
          NoNodeYet, NoRoot

VARIABLES
  pending,  \* by level, the subtree that waits for its sibling, or NoNodeYet
  leafCount,
  proofs,   \* the proofs of the watched leaves so far
  treeRoot

treeVars == <<pending, leafCount, proofs, treeRoot>>

Leaf(id) == <<id>>
Node(l, r) == <<l, r>>

-----------------------------------------------------------------------------
(* merkle.mjs.  Indices count from 0, sequences from 1.                    *)

NextLayer(layer) ==
  FoldLeft(LAMBDA next, i : Append(next, Node(layer[2 * i - 1], layer[Min({2 * i, Len(layer)})])),
           <<>>, [i \in 1 .. (Len(layer) + 1) \div 2 |-> i])

\* The layers of buildTree, the leaves first.
Layers(leaves) ==
  FoldLeft(LAMBDA layers, k : IF Len(Last(layers)) = 1 THEN layers
                              ELSE Append(layers, NextLayer(Last(layers))),
           <<leaves>>, leaves)

BuildTree(leaves) == Last(Layers(leaves))[1]

IsRight(index, level) == (index \div 2 ^ level) % 2 = 1

Proof(layers, index) ==
  [k \in 1 .. Len(layers) - 1 |->
     LET at == index \div 2 ^ (k - 1)
         sibling == IF IsRight(index, k - 1) THEN at - 1 ELSE at + 1
     IN  layers[k][IF sibling < Len(layers[k]) THEN sibling + 1 ELSE at + 1]]

VerifyProof(leaf, branch, index, root) ==
  root = FoldLeft(LAMBDA acc, k : IF IsRight(index, k - 1) THEN Node(branch[k], acc)
                                  ELSE Node(acc, branch[k]),
                  leaf, [k \in DOMAIN branch |-> k])

-----------------------------------------------------------------------------
(* custody.c: ck_root and ck_batch write each layer over the one below.    *)

\* One pass: slot i of the layer above from slots 2i and 2i + 1, in order.
CkPass(slots, width) ==
  FoldLeft(LAMBDA s, i : [s EXCEPT ![i] = Node(s[2 * i - 1], s[Min({2 * i, width})])],
           slots, [i \in 1 .. (width + 1) \div 2 |-> i])

CkRoot(leaves) ==
  FoldLeft(LAMBDA acc, k : IF acc.width = 1 THEN acc
                           ELSE [slots |-> CkPass(acc.slots, acc.width), width |-> (acc.width + 1) \div 2],
           [slots |-> leaves, width |-> Len(leaves)],
           [k \in 2 .. Len(leaves) |-> k]).slots[1]

\* Sorted ids, of equal ones the first.
CkBatch(ids) ==
  LET kept == FoldLeft(LAMBDA acc, id : IF acc # <<>> /\ Last(acc) = id THEN acc ELSE Append(acc, id),
                       <<>>, SortSeq(ids, <))
  IN  CkRoot([i \in DOMAIN kept |-> Leaf(kept[i])])

-----------------------------------------------------------------------------
(* stream-merkle.mjs.  A step works on [h, w, proofs]: the node at hand,   *)
(* the watched leaves below it, and the proofs.                            *)

Known(ps, below, h) == [i \in DOMAIN ps |-> IF i \in below THEN Append(ps[i], h) ELSE ps[i]]

\* #join: left is a pending node, right the node at hand.
Join(left, right) ==
  [h |-> Node(left.h, right.h), w |-> left.w \cup right.w,
   proofs |-> Known(Known(right.proofs, left.w, right.h), right.w, left.h)]

\* #dup
Dup(node) == [node EXCEPT !.h = Node(node.h, node.h), !.proofs = Known(@, node.w, node.h)]

TreeInit == pending = <<>> /\ leafCount = 0 /\ proofs = <<>> /\ treeRoot = NoRoot

\* add: the leaf is joined with every pending node up to the first free level.
AddLeaf(watch) ==
  /\ treeRoot = NoRoot /\ leafCount < MaxLeaves
  /\ LET free == Min({l \in 1 .. Len(pending) + 1 : l > Len(pending) \/ pending[l] = NoNodeYet})
         leaf == [h |-> Leaf(leafCount), w |-> IF watch THEN {leafCount + 1} ELSE {},
                  proofs |-> Append(proofs, <<>>)]
         top == FoldLeft(LAMBDA node, left : Join(left, node), leaf, SubSeq(pending, 1, free - 1))
     IN  /\ proofs' = top.proofs
         /\ pending' = [l \in 1 .. Max({free, Len(pending)}) |->
                          IF l < free THEN NoNodeYet
                          ELSE IF l = free THEN [h |-> top.h, w |-> top.w] ELSE pending[l]]
  /\ leafCount' = leafCount + 1
  /\ UNCHANGED treeRoot

\* Fault: a pending node that is alone goes up as it is.
ClimbUnpaired(acc, l) ==
  LET p == pending[l]
      alone == [h |-> p.h, w |-> p.w, proofs |-> acc.proofs]
  IN  IF p = NoNodeYet THEN acc ELSE IF acc.h = NoNodeYet THEN alone ELSE Join(p, acc)

\* One level on the way up: a pending node meets what was carried here; alone,
\* either is paired with itself, unless it is the only node of the top layer.
Climb(acc, l) ==
  LET p == pending[l]
      above == \E m \in l + 1 .. Len(pending) : pending[m] # NoNodeYet
      alone == [h |-> p.h, w |-> p.w, proofs |-> acc.proofs]
  IN  CASE p = NoNodeYet /\ acc.h = NoNodeYet -> acc
        [] p = NoNodeYet /\ acc.h # NoNodeYet -> IF above THEN Dup(acc) ELSE acc
        [] p # NoNodeYet /\ acc.h = NoNodeYet -> IF above THEN Dup(alone) ELSE alone
        [] OTHER -> Join(p, acc)

\* root: the tree is closed.
CloseTree ==
  /\ treeRoot = NoRoot /\ leafCount > 0
  /\ LET top == FoldLeft(Climb, [h |-> NoNodeYet, w |-> {}, proofs |-> proofs],
                         [l \in DOMAIN pending |-> l])
     IN  treeRoot' = top.h /\ proofs' = top.proofs
  /\ UNCHANGED <<pending, leafCount>>

TreeNext == (\E watch \in BOOLEAN : AddLeaf(watch)) \/ CloseTree

-----------------------------------------------------------------------------

Leaves == [i \in 1 .. leafCount |-> Leaf(i - 1)]
Watched == {i \in DOMAIN proofs : proofs[i] # <<>>}

\* The tree closed leaf by leaf, whichever leaves are watched, and the one
\* built in place on board have the root that is built by layers, a batch the
\* same root however its ids are repeated and ordered; a watched leaf has the
\* proof that the layers give, which places it at its own index and at no
\* other of the tree (merkle.mjs:36-39, stream-merkle.mjs:1-3, custody.c:58,
\* custody.c:157-166).
TreesAgree ==
  treeRoot # NoRoot =>
    LET layers == Layers(Leaves)
        root == BuildTree(Leaves)
        ids == [i \in 1 .. leafCount |-> leafCount - i]
    IN  /\ treeRoot = root /\ CkRoot(Leaves) = root
        /\ \A again \in 0 .. leafCount - 1 : CkBatch(Append(ids, again)) = root
        /\ \A i \in Watched :
             /\ proofs[i] = Proof(layers, i - 1)
             /\ \A index \in 0 .. leafCount - 1 :
                  VerifyProof(Leaf(i - 1), proofs[i], index, root) <=> index = i - 1
=============================================================================
