----------------------------- MODULE LinkedList -----------------------------
(***************************************************************************)
(* The doubly linked lists of skel/add/linked_list.c and                   *)
(* specific_linked_list.c, down to their pointers, as operators on a list. *)
(*                                                                         *)
(* A list is a record of head, tail, size and the memory of its nodes:     *)
(* node[a] is NULL as long as the address a is free.  A node and the data  *)
(* it owns are allocated and freed together, so they share an address.     *)
(* Positions count from 0, as in the code.                                 *)
(*                                                                         *)
(* The code tells the first, the last and the middle node apart wherever   *)
(* it links or unlinks one.  Here a NULL neighbour stands for the list     *)
(* itself: the node before the first is its head, the one behind the last  *)
(* its tail.                                                               *)
(***************************************************************************)
EXTENDS Naturals, Sequences, FiniteSetsExt, Functions

CONSTANTS
    Addr,   \* the addresses malloc returns for nodes
    NULL

ASSUME AddrAssumption == NULL \notin Addr

Pointer == Addr \cup {NULL}

\* Nodes with data from the set D, and lists of them.
Node(D) == [data : D, prev : Pointer, next : Pointer]
List(D) == [head : Pointer, tail : Pointer, size : Nat, node : [Addr -> Node(D) \cup {NULL}]]

EmptyList == [head |-> NULL, tail |-> NULL, size |-> 0, node |-> [a \in Addr |-> NULL]]

Allocated(l) == {a \in Addr : l.node[a] # NULL}
Unallocated(l) == {a \in Addr : l.node[a] = NULL}

SetNext(l, a, next) ==
    IF a = NULL THEN [l EXCEPT !.head = next] ELSE [l EXCEPT !.node[a].next = next]

SetPrev(l, a, prev) ==
    IF a = NULL THEN [l EXCEPT !.tail = prev] ELSE [l EXCEPT !.node[a].prev = prev]

\* The nodes from the head on.
Walk(l) ==
    LET at[i \in 1..l.size] == IF i = 1 THEN l.head ELSE l.node[at[i - 1]].next
    IN  at

\* The nodes from the tail back.
WalkBack(l) ==
    LET at[i \in 1..l.size] == IF i = 1 THEN l.tail ELSE l.node[at[i - 1]].prev
    IN  at

\* ll_get_nth_node walks from the end that is nearer.
GetNthNode(l, n) ==
    IF n >= l.size THEN NULL
    ELSE IF n <= (l.size - 1) \div 2 THEN Walk(l)[n + 1]
    ELSE WalkBack(l)[l.size - n]

\* ll_add_nth_node with the free address a for the new node.
AddNthNode(l, n, a, data) ==
    LET prev == IF n = 0 THEN NULL ELSE IF n = l.size THEN l.tail ELSE GetNthNode(l, n - 1)
        next == IF prev = NULL THEN l.head ELSE l.node[prev].next
        made == [l EXCEPT !.node[a] = [data |-> data, prev |-> prev, next |-> next],
                          !.size = @ + 1]
    IN  SetNext(SetPrev(made, next, a), prev, a)

\* Takes a node out of the list; its memory is left to the caller.
Unlink(l, a) ==
    LET prev == l.node[a].prev
        next == l.node[a].next
    IN  [SetPrev(SetNext(l, prev, next), next, prev) EXCEPT !.size = @ - 1]

Free(l, a) == [l EXCEPT !.node[a] = NULL]

\* ll_remove_nth_node and free.
RemoveNthNode(l, n) == LET a == GetNthNode(l, n) IN Free(Unlink(l, a), a)

\* ll_remove_node and free.
RemoveNode(l, a) == Free(Unlink(l, a), a)

\* ll_get_node: the first node with the key, NULL if there is none.
GetNode(l, key) ==
    LET hits == {i \in 1..l.size : l.node[Walk(l)[i]].data.key = key}
    IN  IF hits = {} THEN NULL ELSE Walk(l)[Min(hits)]

\* A slip: the node that was copied is not freed.
MoveNodeToEndLeaking(l, key, a) ==
    LET old == GetNode(l, key)
        cut == Unlink(l, old)
    IN  AddNthNode(cut, cut.size, a, l.node[old].data)

\* move_node_to_end: the node is unlinked, copied to the free address a at the
\* end of the list, and freed.
MoveNodeToEnd(l, key, a) ==
    LET old == GetNode(l, key)
        cut == Unlink(l, old)
    IN  Free(AddNthNode(cut, cut.size, a, l.node[old].data), old)

(***************************************************************************)
(* The nodes of a well linked list are exactly the allocated ones, in an   *)
(* order that both directions of the links agree on.                       *)
(***************************************************************************)
WellLinked(l) ==
    \E s \in [1..l.size -> Allocated(l)] :
        /\ IsInjective(s) /\ Range(s) = Allocated(l)
        /\ l.head = (IF l.size = 0 THEN NULL ELSE s[1])
        /\ l.tail = (IF l.size = 0 THEN NULL ELSE s[l.size])
        /\ \A i \in 1..l.size :
              /\ l.node[s[i]].prev = (IF i = 1 THEN NULL ELSE s[i - 1])
              /\ l.node[s[i]].next = (IF i = l.size THEN NULL ELSE s[i + 1])
=============================================================================
