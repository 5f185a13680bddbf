------------------------------ MODULE PhoneBook ------------------------------
(***************************************************************************)
(* module2/4_3: a phone book kept in a binary search tree of malloc'ed     *)
(* nodes, with a periodic rebuild into a balanced tree.                    *)
(*                                                                         *)
(* The heap is a function on the allocated nodes; free removes a node from *)
(* its domain, and a node no pointer reaches any more stays in it.  The    *)
(* key is lastname and name in the order of compare; the other fields of a *)
(* contact, which nothing compares, are left out.  The operators that      *)
(* change links return the heap they leave and the pointer they return.    *)
(* malloc succeeds while there is a node left.                             *)
(***************************************************************************)
EXTENDS Integers, Sequences, FiniteSets, TLC, BagsExt
LOCAL INSTANCE Functions

CONSTANTS
    Nodes,         \* addresses malloc may return; their number is a bound
    NULL,          \* the null pointer
    Keys,          \* names, as numbers in their order
    BalanceEvery   \* 10 in contacts.c; a bound on operationCount

ASSUME BookAssumption ==
    /\ NULL \notin Nodes
    /\ Keys \subseteq Nat
    /\ BalanceEvery \in Nat \ {0}

VARIABLES
    heap,            \* the allocated nodes
    root,            \* root
    operationCount,  \* operationCount
    renamed          \* history: editContact changed a name

vars == <<heap, root, operationCount, renamed>>

Init == heap = <<>> /\ root = NULL /\ operationCount = 0 /\ renamed = FALSE

-----------------------------------------------------------------------------
(* The tree. *)

Free(h, n) == Restrict(h, DOMAIN h \ {n})

\* tree->side = the result of a call.
Link(tree, side, sub) == [h |-> [sub.h EXCEPT ![tree][side] = sub.ret], ret |-> tree]

\* The subtree insert goes down to.
Side(h, node, tree) == IF h[node].key < h[tree].key THEN "left" ELSE "right"

RECURSIVE insert(_, _, _)
insert(h, tree, node) ==
    IF tree = NULL
      THEN [h |-> h, ret |-> node]
      ELSE LET side == Side(h, node, tree)
           IN  Link(tree, side, insert(h, h[tree][side], node))

RECURSIVE storeInOrder(_, _)
storeInOrder(h, tree) ==
    IF tree = NULL
      THEN <<>>
      ELSE storeInOrder(h, h[tree].left) \o <<tree>> \o storeInOrder(h, h[tree].right)

countNodes(h, tree) == Len(storeInOrder(h, tree))

\* The place of the root of a balanced range.
Middle(left, right) == (left + right) \div 2

\* Mutant of EmptyRange: a range of one node is taken for empty.
ShortRange(left, right) == left >= right

EmptyRange(left, right) == left > right

RECURSIVE buildBalanced(_, _, _, _)
buildBalanced(h, array, left, right) ==
    IF EmptyRange(left, right)
      THEN [h |-> h, ret |-> NULL]
      ELSE LET mid   == Middle(left, right)
               node  == array[mid + 1]
               lower == buildBalanced(h, array, left, mid - 1)
               upper == buildBalanced(lower.h, array, mid + 1, right)
           IN  [h   |-> [upper.h EXCEPT ![node].left = lower.ret, ![node].right = upper.ret],
                ret |-> node]

balanceTree(t) ==
    LET array == storeInOrder(t.h, t.ret)
    IN  IF Len(array) < 2 THEN t ELSE buildBalanced(t.h, array, 0, Len(array) - 1)

RECURSIVE findMin(_, _)
findMin(h, tree) == IF h[tree].left = NULL THEN tree ELSE findMin(h, h[tree].left)

-----------------------------------------------------------------------------
(* deleteNode frees the first node on its way that has the name, and takes *)
(* its only subtree, or its successor, for it.                             *)

\* Mutant of Unlinked: the other subtree is returned.
UnlinkedSwapped(h, tree) ==
    [h |-> Free(h, tree), ret |-> IF h[tree].left = NULL THEN h[tree].left ELSE h[tree].right]

\* Mutant of Unlinked: the node is freed and its parent still points to it.
UnlinkedLate(h, tree) == [h |-> Free(h, tree), ret |-> tree]

\* A node with at most one subtree.
Unlinked(h, tree) ==
    [h |-> Free(h, tree), ret |-> IF h[tree].left = NULL THEN h[tree].right ELSE h[tree].left]

\* *tree = *temp copies the links of the successor with its fields.
Successor(h, tree, temp) == [h EXCEPT ![tree] = h[temp]]

RECURSIVE deleteNode(_, _, _)
deleteNode(h, tree, key) ==
    IF tree = NULL
      THEN [h |-> h, ret |-> NULL]
    ELSE IF key # h[tree].key
      THEN LET side == IF key < h[tree].key THEN "left" ELSE "right"
           IN  Link(tree, side, deleteNode(h, h[tree][side], key))
    ELSE IF NULL \in {h[tree].left, h[tree].right}
      THEN Unlinked(h, tree)
    ELSE LET temp == findMin(h, h[tree].right)
             copy == Successor(h, tree, temp)
         IN  Link(tree, "right", deleteNode(copy, copy[tree].right, h[temp].key))

-----------------------------------------------------------------------------
(* The commands of the menu. *)

\* What is shown, and chosen from by number.
Shown == storeInOrder(heap, root)

\* The end of addContact and of deleteContact.
Settle(t) ==
    LET due  == operationCount + 1 >= BalanceEvery
        kept == IF due THEN balanceTree(t) ELSE t
    IN  /\ heap' = kept.h
        /\ root' = kept.ret
        /\ operationCount' = IF due THEN 0 ELSE operationCount + 1

AddContact(key) ==
    /\ \E n \in Nodes \ DOMAIN heap :
           LET new == [key |-> key, left |-> NULL, right |-> NULL]
           IN  Settle(insert(heap @@ (n :> new), root, n))
    /\ UNCHANGED renamed

\* The names may be changed in place: the node stays where it is.
EditContact(i, key) ==
    /\ i \in DOMAIN Shown
    /\ heap' = [heap EXCEPT ![Shown[i]].key = key]
    /\ renamed' = (renamed \/ key # heap[Shown[i]].key)
    /\ UNCHANGED <<root, operationCount>>

\* Confirmed; the node to delete is searched for again by the name of the chosen one.
DeleteContact(i) ==
    /\ i \in DOMAIN Shown
    /\ Settle(deleteNode(heap, root, heap[Shown[i]].key))
    /\ UNCHANGED renamed

Numbers == 1..Cardinality(Nodes)

Next == \/ \E key \in Keys : AddContact(key)
        \/ \E i \in Numbers, key \in Keys : EditContact(i, key)
        \/ \E i \in Numbers : DeleteContact(i)

Spec == Init /\ [][Next]_vars

-----------------------------------------------------------------------------
(* Properties. *)

\* The links from root, to freed nodes too.
RECURSIVE Reach(_, _)
Reach(seen, new) ==
    LET live == new \cap DOMAIN heap
        next == UNION {{heap[n].left, heap[n].right} : n \in live} \ {NULL}
    IN  IF new \subseteq seen THEN seen ELSE Reach(seen \cup new, next)

\* deleteNode overwrites a node with a copy of another one, links included, and frees
\* nodes on its way: what root reaches is still a tree of allocated nodes, none of them
\* freed and none linked twice.  As long as editContact changed no name, insertions,
\* deletions and rebuilds in any sequence keep it in the order of the names, equal names
\* included, so that a search for a name goes the right way.
TreeSound ==
    LET tree == Reach({}, {root} \ {NULL})
    IN  /\ tree \subseteq DOMAIN heap
        /\ \A n \in tree :
               Cardinality({l \in (tree \X {"left", "right"}) \cup {<<NULL, "root">>} :
                              n = IF l[2] = "root" THEN root ELSE heap[l[1]][l[2]]}) = 1
        /\ ~renamed => \A i \in 2..Len(Shown) : heap[Shown[i - 1]].key <= heap[Shown[i]].key

\* The names a user can see, each as often as it is there.
Book ==
    LET at(key) == {i \in DOMAIN Shown : heap[Shown[i]].key = key}
    IN  [key \in {k \in Keys : at(k) # {}} |-> Cardinality(at(key))]

\* addContact adds its contact and loses none, also when it rebuilds the tree.
AddKeepsAll ==
    [][\A n \in DOMAIN heap' \ DOMAIN heap :
           Book' = BagAdd(Book, heap'[n].key)]_vars

\* Where no name was edited, a contact whose name is unique and whose node has not two
\* subtrees is deleted, and nothing else.
SimpleDelete ==
    [][\A i \in Numbers :
           /\ ~renamed /\ i \in DOMAIN Shown
           /\ NULL \in {heap[Shown[i]].left, heap[Shown[i]].right}
           /\ \A j \in DOMAIN Shown : heap[Shown[j]].key = heap[Shown[i]].key => j = i
           /\ DeleteContact(i)
           => Book' = BagRemove(Book, heap[Shown[i]].key)]_vars

=============================================================================
