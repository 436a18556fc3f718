----------------------------- MODULE HashTable ------------------------------
(***************************************************************************)
(* The hash tables of skel/add/hashtable.c as operators on a table: an     *)
(* array of hmax buckets, each a list of entries with the newest in front, *)
(* and a count of the entries.  Buckets are numbered from 0.               *)
(***************************************************************************)
EXTENDS Naturals, Sequences, SequencesExt

CONSTANTS
    Docs,       \* the keys: document names
    HashDoc     \* hash_string of every key

ASSUME HashDocAssumption == HashDoc \in [Docs -> Nat]

HtCreate(hmax) == [buckets |-> [b \in 0..(hmax - 1) |-> <<>>], size |-> 0, hmax |-> hmax]

Bucket(t, key) == HashDoc[key] % t.hmax

\* Where a key is in its bucket, 0 if it is not there.
Position(t, key) == SelectInSeq(t.buckets[Bucket(t, key)], LAMBDA e : e.key = key)

HtHasKey(t, key) == Position(t, key) # 0

HtGet(t, key) == t.buckets[Bucket(t, key)][Position(t, key)].value

\* A slip: an entry that is overwritten is counted again.
HtPutCountingAll(t, key, value) ==
    IF HtHasKey(t, key)
    THEN [t EXCEPT !.buckets[Bucket(t, key)][Position(t, key)].value = value, !.size = @ + 1]
    ELSE [t EXCEPT !.buckets[Bucket(t, key)] = <<[key |-> key, value |-> value]>> \o @,
                   !.size = @ + 1]

HtPut(t, key, value) ==
    IF HtHasKey(t, key)
    THEN [t EXCEPT !.buckets[Bucket(t, key)][Position(t, key)].value = value]
    ELSE [t EXCEPT !.buckets[Bucket(t, key)] = <<[key |-> key, value |-> value]>> \o @,
                   !.size = @ + 1]

HtRemoveEntry(t, key) ==
    IF HtHasKey(t, key)
    THEN [t EXCEPT !.buckets[Bucket(t, key)] = RemoveAt(@, Position(t, key)), !.size = @ - 1]
    ELSE t

\* The map the table stands for.
Lookup(t, key, none) == IF HtHasKey(t, key) THEN HtGet(t, key) ELSE none

(***************************************************************************)
(* Every entry is in the bucket of its key, no key has two entries, and    *)
(* the count is right.  lru_cache_is_full compares the count with hmax.    *)
(***************************************************************************)
WellFilled(t) ==
    LET places == {<<b, i>> : b \in 0..(t.hmax - 1), i \in 1..t.size}
        used == {p \in places : p[2] <= Len(t.buckets[p[1]])}
        keyAt(p) == t.buckets[p[1]][p[2]].key
    IN  /\ \A b \in 0..(t.hmax - 1) : Len(t.buckets[b]) <= t.size
        /\ Cardinality(used) = t.size
        /\ \A p \in used : p[1] = Bucket(t, keyAt(p))
        /\ \A p, q \in used : keyAt(p) = keyAt(q) => p = q
=============================================================================
