------------------------------ MODULE TreeDiag ------------------------------
(***************************************************************************)
(* The read-only diagnostics over the run-queue tree: treebalanced() with *)
(* check_rb_tree_properties() (src/proc.c) and sys_gettreenodes() with    *)
(* collect_rb_tree_nodes() (src/sysproc.c).                               *)
(*                                                                         *)
(* A tree links nodes 1..n through l and r; the nodes are numbered in      *)
(* in-order, i.e. in the vruntime order a search tree keeps. Every shape   *)
(* and colouring over at most N nodes is an input: the validator exists   *)
(* to judge trees that may be malformed.                                   *)
(*                                                                         *)
(* The recursion of the C code is kept as RECURSIVE operators: this module *)
(* is only model-checked.                                                  *)
(***************************************************************************)
EXTENDS Naturals, Integers, Sequences, FiniteSets

CONSTANTS
    N,          \* largest number of tree nodes enumerated
    MaxReq      \* largest max_nodes argument of gettreenodes

ASSUME TreeDiagAssumption == N \in Nat /\ MaxReq \in Nat

RED == "RED"
BLACK == "BLACK"

(* All shapes of search trees over the keys lo..hi: a root and, for every *)
(* key, the pair <<left child, right child>> (0 is the null pointer).     *)
RECURSIVE Shapes(_, _)
Shapes(lo, hi) ==
    IF lo > hi
    THEN {[root |-> 0, kids |-> [x \in {} |-> <<0, 0>>]]}
    ELSE UNION {
           { [root |-> k,
              kids |-> [x \in lo..hi |->
                          IF x = k THEN <<L.root, R.root>>
                          ELSE IF x < k THEN L.kids[x] ELSE R.kids[x]]]
             : L \in Shapes(lo, k - 1), R \in Shapes(k + 1, hi) }
           : k \in lo..hi }

Trees ==
    UNION { { [root |-> S.root, kids |-> S.kids, color |-> col]
              : S \in Shapes(1, n), col \in [1..n -> {RED, BLACK}] }
            : n \in 0..N }

Left(t, x) == t.kids[x][1]
Right(t, x) == t.kids[x][2]
IsRed(t, x) == x # 0 /\ t.color[x] = RED

-----------------------------------------------------------------------------
RECURSIVE CheckRB(_, _, _, _)
RECURSIVE Collect(_, _, _, _)

(* Mutant of CheckRB: only the left child of a red node is tested.       *)
CheckRBLeftOnly(t, x, black_count, pbc) ==
    IF x = 0
    THEN IF pbc = -1 THEN <<1, black_count>>
         ELSE IF black_count # pbc THEN <<0, pbc>> ELSE <<1, pbc>>
    ELSE IF t.color[x] = RED /\ IsRed(t, Left(t, x))
    THEN <<0, pbc>>
    ELSE LET bc == IF t.color[x] = BLACK THEN black_count + 1 ELSE black_count
             L == CheckRB(t, Left(t, x), bc, pbc)
         IN  IF L[1] = 0 THEN <<0, L[2]>> ELSE CheckRB(t, Right(t, x), bc, L[2])

(* check_rb_tree_properties(node, black_count, path_black_count): returns *)
(* <<result, *path_black_count>>. The first NIL reached fixes the black   *)
(* count every later NIL must have.                                       *)
CheckRB(t, x, black_count, pbc) ==
    IF x = 0
    THEN IF pbc = -1 THEN <<1, black_count>>
         ELSE IF black_count # pbc THEN <<0, pbc>> ELSE <<1, pbc>>
    ELSE IF t.color[x] = RED /\ (IsRed(t, Left(t, x)) \/ IsRed(t, Right(t, x)))
    THEN <<0, pbc>>
    ELSE LET bc == IF t.color[x] = BLACK THEN black_count + 1 ELSE black_count
             L == CheckRB(t, Left(t, x), bc, pbc)
         IN  IF L[1] = 0 THEN <<0, L[2]>> ELSE CheckRB(t, Right(t, x), bc, L[2])

(* treebalanced(): a non-null red root fails; otherwise the recursive     *)
(* check from the root with path_black_count = -1.                        *)
treebalanced(t) ==
    IF t.root # 0 /\ t.color[t.root] # BLACK THEN 0
    ELSE CheckRB(t, t.root, 0, -1)[1]

(* Mutant of Collect: the node is written before its left subtree.      *)
CollectPreOrder(t, x, out, max_nodes) ==
    IF x = 0 \/ Len(out) >= max_nodes THEN out
    ELSE LET o1 == Collect(t, Left(t, x), Append(out, x), max_nodes)
         IN  Collect(t, Right(t, x), o1, max_nodes)

(* collect_rb_tree_nodes(node, nodes, index, max_nodes): the sequence of  *)
(* nodes written to nodes[], *index being its length. The bound is only   *)
(* tested on entry.                                                       *)
Collect(t, x, out, max_nodes) ==
    IF x = 0 \/ Len(out) >= max_nodes THEN out
    ELSE LET o1 == Collect(t, Left(t, x), out, max_nodes)
         IN  Collect(t, Right(t, x), Append(o1, x), max_nodes)

-----------------------------------------------------------------------------
(* Reference definitions, from the red-black properties and the in-order  *)
(* traversal the comments and the spec name.                              *)
RECURSIVE PathBlackCounts(_, _)
PathBlackCounts(t, x) ==
    IF x = 0 THEN {0}
    ELSE { k + (IF t.color[x] = BLACK THEN 1 ELSE 0)
           : k \in PathBlackCounts(t, Left(t, x)) \cup PathBlackCounts(t, Right(t, x)) }

IsRedBlack(t) ==
    /\ ~IsRed(t, t.root)
    /\ \A x \in DOMAIN t.color :
          IsRed(t, x) => ~IsRed(t, Left(t, x)) /\ ~IsRed(t, Right(t, x))
    /\ Cardinality(PathBlackCounts(t, t.root)) = 1

-----------------------------------------------------------------------------
VARIABLES
    tree,       \* the links and colours of the run-queue tree
    balanced,   \* last result of sys_treebalanced, -1 before any call
    req,        \* max_nodes of the last sys_gettreenodes
    nodes       \* the node records it copied out (one node id per record)

vars == <<tree, balanced, req, nodes>>

Init ==
    /\ tree \in Trees
    /\ balanced = -1
    /\ req = 0
    /\ nodes = <<>>

(* sys_treebalanced()                                                      *)
TreeBalanced ==
    /\ balanced' = treebalanced(tree)
    /\ UNCHANGED <<tree, req, nodes>>

(* sys_gettreenodes(max_nodes, buf): argptr refuses a negative size; the  *)
(* nodes are collected from the root and node_index records copied out.   *)
GetTreeNodes(m) ==
    /\ req' = m
    /\ nodes' = Collect(tree, tree.root, <<>>, m)
    /\ UNCHANGED <<tree, balanced>>

Next == TreeBalanced \/ \E m \in 0..MaxReq : GetTreeNodes(m)

Spec == Init /\ [][Next]_vars

-----------------------------------------------------------------------------
(* treebalanced() answers 1 exactly for the trees that satisfy the        *)
(* red-black properties: root black, no red node with a red child, and    *)
(* the same number of black nodes on every path from the root to a NIL.   *)
BalancedIsRedBlack ==
    balanced # -1 => (balanced = 1 <=> IsRedBlack(tree))

(* gettreenodes lists nodes in in-order, so in increasing vruntime, as    *)
(* test_rb_tree.c checks.                                                  *)
NodesSorted ==
    \A i, j \in 1..Len(nodes) : i < j => nodes[i] < nodes[j]

(* gettreenodes never returns more than max_nodes records: the spec says  *)
(* the snapshot truncates at max_nodes, and argptr only checked a buffer  *)
(* of max_nodes records.                                                   *)
NodesBounded ==
    Len(nodes) <= req

=============================================================================
