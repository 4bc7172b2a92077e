----------------------------- MODULE HashmapUse -----------------------------
(***************************************************************************)
(* A table as the loader uses those of variables and labels: a name is     *)
(* inserted when it is not found, with the number of entries so far as its *)
(* value.  `Hashmap_remove` has no caller in the interpreter.              *)
(***************************************************************************)
EXTENDS Hashmap, FiniteSets

CONSTANTS
    Hashes,      \* the hash functions to try
    MaxCalls     \* bound: calls

ASSUME UseAssumption == Hashes \subseteq [Keys -> Nat]

VARIABLES
    hash,        \* the hash of each name
    table,       \* the Hashmap
    given,       \* the names inserted, in order: value v is given[v + 1]'s
    gone         \* the names removed

vars == <<hash, table, given, gone>>

Init ==
    /\ hash \in Hashes
    /\ table = EmptyMap
    /\ given = <<>>
    /\ gone = {}

Add(k) ==
    /\ Len(given) + Cardinality(gone) < MaxCalls
    /\ ~table.stuck
    /\ ~Lookup(hash, table, k).found
    /\ table' = Insert(hash, table, k, Len(given))
    /\ given' = Append(given, k)
    /\ UNCHANGED <<hash, gone>>

Remove(k) ==
    /\ Len(given) + Cardinality(gone) < MaxCalls
    /\ ~table.stuck
    /\ k \notin gone
    /\ table' = Delete(hash, table, k)
    /\ gone' = gone \cup {k}
    /\ UNCHANGED <<hash, given>>

Next == \E k \in Keys : Add(k) \/ Remove(k)

Spec == Init /\ [][Next]_vars

(***************************************************************************)
(* Properties.                                                             *)
(***************************************************************************)
Used == {given[i] : i \in DOMAIN given}

\* While no two of the names in use share a slot, the table is a dictionary:
\* a name that was inserted has its value, any other name is not found.
\* (Every lookup of a name that was never declared relies on the second.)
IsDictionary ==
    \A k \in Keys : gone = {} /\ Spread(hash, Used \cup {k}) =>
        Lookup(hash, table, k) =
            IF k \in Used
            THEN [found |-> TRUE, val |-> (CHOOSE i \in DOMAIN given : given[i] = k) - 1]
            ELSE None

\* Whatever collides and however often the table has been rehashed, an entry
\* is that of one name, is held once, and a name finds only entries of names
\* of its own length.
EntriesAreGiven ==
    /\ \A i \in DOMAIN table.slots : LET p == table.slots[i] IN
        p.size # 0 =>
            /\ p.val < Len(given)
            /\ p.key = given[p.val + 1]
            /\ p.size = KeySize[p.key]
            /\ \A j \in DOMAIN table.slots \ {i} : table.slots[j].size # 0 => table.slots[j].val # p.val
    /\ \A k \in Keys : LET r == Lookup(hash, table, k) IN
        r.found => KeySize[given[r.val + 1]] = KeySize[k]

\* Rehashing ends unless a name hashes to 0: such a name stays in slot 0 of
\* every table, and each empty slot that is moved there asks for a larger one.
RehashEnds == (\A k \in Used : hash[k] # 0) => ~table.stuck
=============================================================================
