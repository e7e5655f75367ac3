------------------------------ MODULE TreeMap ------------------------------
(***************************************************************************)
(* The ordered map of the standard library: a binary search tree over a    *)
(* vector of nodes whose freed indices are used again.  `nodes` is defined *)
(* on the occupied indices, so `nodes[i].take()` takes i out of its        *)
(* domain; an index here is one more than in the source, NoNode no index.  *)
(* The interpreter and the IR runtime have all of it but remove.           *)
(***************************************************************************)
EXTENDS Integers, Sequences

CONSTANTS TreeKeys, TreeVals

ASSUME TreeAssumption == TreeKeys \subseteq Int

VARIABLES nodes,  \* the occupied nodes
          slots,  \* length of the vector
          root, tlen, tfree,
          tlast   \* the latest call with its argument and answer

NoNode == 0
treeVars == <<nodes, slots, root, tlen, tfree, tlast>>

TreeInit ==
    /\ nodes = [i \in {} |-> NoNode] /\ slots = 0
    /\ root = NoNode /\ tlen = 0 /\ tfree = <<>>
    /\ tlast = <<"init", "null", "null">>

Leaf(k, v) == [key |-> k, value |-> v, left |-> NoNode, right |-> NoNode]
\* The child of i on the side of k, and the nodes f with c in its place.
Child(f, i, k) == IF k < f[i].key THEN f[i].left ELSE f[i].right
SetChild(f, i, k, c) == IF k < f[i].key THEN [f EXCEPT ![i].left = c] ELSE [f EXCEPT ![i].right = c]
With(f, i, node) == [j \in DOMAIN f \cup {i} |-> IF j = i THEN node ELSE f[j]]
Taken(f, i) == [j \in DOMAIN f \ {i} |-> f[j]]

\* From `top` down along `below` to where it ends: the last node met and the one
\* above it.  No way down a tree has more nodes than there are.
Down(most, top, below) ==
    LET onward == [at \in [above : 0..most, node : DOMAIN below] |->
                     IF below[at.node] = NoNode THEN at ELSE [above |-> at.node, node |-> below[at.node]]]
        step[n \in 0..most] == IF n = 0 THEN top ELSE onward[step[n - 1]]
    IN  step[most]

\* Where the search for k ends: at its node, or where a leaf with it would hang.
Search(k) ==
    Down(slots, [above |-> NoNode, node |-> root],
         [i \in DOMAIN nodes |-> IF nodes[i].key = k THEN NoNode ELSE Child(nodes, i, k)])

\* The leftmost node below the right child of i.
Successor(i) ==
    Down(slots, [above |-> i, node |-> nodes[i].right], [j \in DOMAIN nodes |-> nodes[j].left])

InTree(k) == root # NoNode /\ nodes[Search(k).node].key = k

AllocSlot == IF tfree = <<>> THEN slots + 1 ELSE tfree[Len(tfree)]
TakesSlot ==
    IF tfree = <<>> THEN slots' = slots + 1 /\ tfree' = tfree
                    ELSE slots' = slots /\ tfree' = SubSeq(tfree, 1, Len(tfree) - 1)

Replaces(i, v) ==
    /\ nodes' = [nodes EXCEPT ![i].value = v]
    /\ UNCHANGED <<slots, root, tlen, tfree>>

\* A leaf where the search ended; of an empty tree, the root.
Adds(k, v) ==
    LET i == AllocSlot
    IN  /\ TakesSlot
        /\ nodes' = With(IF root = NoNode THEN nodes ELSE SetChild(nodes, Search(k).node, k, i), i, Leaf(k, v))
        /\ root' = IF root = NoNode THEN i ELSE root
        /\ tlen' = tlen + 1

Insert(k, v) ==
    /\ IF InTree(k) THEN Replaces(Search(k).node, v) ELSE Adds(k, v)
    /\ tlast' = <<"insert", k, "null">>

Get(k) ==
    /\ tlast' = <<"get", k, IF InTree(k) THEN nodes[Search(k).node].value ELSE "null">>
    /\ UNCHANGED <<nodes, slots, root, tlen, tfree>>

\* A node with at most one child gives its place to that child.
Unlinks(parent, i, k) ==
    LET child == IF nodes[i].left = NoNode THEN nodes[i].right ELSE nodes[i].left
    IN  /\ nodes' = Taken(IF parent = NoNode THEN nodes ELSE SetChild(nodes, parent, k, child), i)
        /\ root' = IF parent = NoNode THEN child ELSE root
        /\ tfree' = Append(tfree, i)

\* Mutant: the right subtree of the successor is lost.
TakesSuccessorAlone(i) ==
    LET at == Successor(i)
        s  == nodes[at.node]
        bypassed == IF at.node = nodes[i].right
                    THEN [nodes EXCEPT ![i].right = NoNode]
                    ELSE [nodes EXCEPT ![at.above].left = NoNode]
    IN  /\ nodes' = Taken([bypassed EXCEPT ![i].key = s.key, ![i].value = s.value], at.node)
        /\ tfree' = Append(tfree, at.node)
        /\ root' = root

\* A node with two children takes over the entry of its successor, the
\* leftmost node of its right subtree, which is freed in its place.
TakesSuccessor(i) ==
    LET at == Successor(i)
        s  == nodes[at.node]
        bypassed == IF at.node = nodes[i].right
                    THEN [nodes EXCEPT ![i].right = s.right]
                    ELSE [nodes EXCEPT ![at.above].left = s.right]
    IN  /\ nodes' = Taken([bypassed EXCEPT ![i].key = s.key, ![i].value = s.value], at.node)
        /\ tfree' = Append(tfree, at.node)
        /\ root' = root

RemoveKey(k) ==
    LET at == Search(k)
        i  == at.node
    IN  IF ~InTree(k)
        THEN tlast' = <<"remove", k, "null">> /\ UNCHANGED <<nodes, slots, root, tlen, tfree>>
        ELSE /\ IF nodes[i].left = NoNode \/ nodes[i].right = NoNode
                THEN Unlinks(at.above, i, k)
                ELSE TakesSuccessor(i)
             /\ tlen' = tlen - 1
             /\ tlast' = <<"remove", k, nodes[i].value>>
             /\ UNCHANGED slots

CountTree == tlast' = <<"len", "null", tlen>> /\ UNCHANGED <<nodes, slots, root, tlen, tfree>>

ClearTree ==
    /\ nodes' = [i \in {} |-> NoNode] /\ slots' = 0
    /\ root' = NoNode /\ tlen' = 0 /\ tfree' = <<>>
    /\ tlast' = <<"clear", "null", "null">>

TreeNext ==
    \/ \E k \in TreeKeys : Get(k) \/ RemoveKey(k) \/ \E v \in TreeVals : Insert(k, v)
    \/ CountTree
    \/ ClearTree

TreeSpec == TreeInit /\ [][TreeNext]_treeVars

\* The entries a search finds.
Entries == [k \in {x \in TreeKeys : InTree(x)} |-> nodes[Search(k).node].value]

MapSpec == INSTANCE OrderedMap WITH Keys <- TreeKeys, Vals <- TreeVals, dict <- Entries, last <- tlast

\* The tree is a map: what a search finds is what was inserted last and not
\* removed, through every way a node is replaced and every index used again.
TreeIsMap == MapSpec!Spec
=============================================================================
