--------------------------- MODULE MCServerMemory ---------------------------
(***************************************************************************)
(* ServerMemory on three documents, the cache of one or of two places.     *)
(* The assumptions check the pointer operators of LinkedList against       *)
(* operators on sequences, on every list of up to three nodes.              *)
(***************************************************************************)
EXTENDS ServerMemory, HashFunctions, TLC

CONSTANTS d1, d2, d3

\* Documents d1 and d2 share bucket 0, which is where b wraps; d3 is alone.
MCHashDoc == d1 :> 0 @@ d2 :> 4 @@ d3 :> 1

Symmetry == Permutations(Contents) \cup Permutations(Addr)

\* Every list is built by adding nodes in front of, behind and between others.
MCAddresses == SetToAllKPermutations(Addr)

Build(as) == FoldLeft(LAMBDA l, a : AddNthNode(l, l.size, a, Info(d1, a)), EmptyList, as)

ASSUME WalksAgree ==
    \A as \in MCAddresses :
        LET l == Build(as)
        IN  /\ WellLinked(l)
            /\ Walk(l) = as
            /\ WalkBack(l) = Reverse(as)
            /\ \A n \in 0..Len(as) : GetNthNode(l, n) = IF n < Len(as) THEN as[n + 1] ELSE NULL

ASSUME AddInsertsAtPosition ==
    \A as \in MCAddresses : \A n \in 0..Len(as), a \in Addr \ Range(as) :
        LET l == AddNthNode(Build(as), n, a, Info(d1, a))
        IN  WellLinked(l) /\ Walk(l) = InsertAt(as, n + 1, a)

ASSUME RemoveTakesOut ==
    \A as \in MCAddresses : \A n \in 0..(Len(as) - 1) :
        LET l == RemoveNthNode(Build(as), n)
        IN  WellLinked(l) /\ Walk(l) = RemoveAt(as, n + 1) /\ RemoveNode(Build(as), as[n + 1]) = l

\* Two servers never have the same hash, whatever their ids: on words of eight
\* bits hash_uint is one-to-one, as every round of it can be undone.
ASSUME ServersHashApart == \A x, y \in Words : HashUint(x) = HashUint(y) => x = y

\* Two names may well have the same hash, even two of the same length.
ASSUME NamesMayCollide == HashString(<<1, 34>>) = HashString(<<2, 1>>)
=============================================================================
