------------------------------ MODULE Hashmap ------------------------------
(***************************************************************************)
(* The table of hashmap.h: one entry per slot, no chains.  An insertion    *)
(* into a slot that is taken moves every entry to a larger table first; a  *)
(* lookup compares lengths only.                                           *)
(*                                                                         *)
(* A name is a member of Keys, its hash is given by a function on them.    *)
(* An absent array is a table of empty slots.                              *)
(***************************************************************************)
EXTENDS Naturals, Sequences

CONSTANTS
    Keys,          \* the names
    KeySize,       \* strlen of a name, plus one
    DefaultCap,    \* HASHMAP_DEFAULT_SIZE
    Growth,        \* HASHMAP_GROWTH_FACTOR
    MaxRehash      \* bound: rehashes within one another

ASSUME HashmapAssumption ==
    /\ KeySize \in [Keys -> Nat \ {0}]
    /\ DefaultCap \in Nat \ {0}
    /\ Growth \in Nat
    /\ MaxRehash \in Nat

Pair == [key : Keys \cup {""}, size : Nat, val : Nat]
EmptyPair == [key |-> "", size |-> 0, val |-> 0]   \* a slot is empty by its size

\* `stuck` once rehashing has not come to an end within the bound; it stays so.
Map == [cap : Nat, slots : Seq(Pair), stuck : BOOLEAN]
Table(cap) == [cap |-> cap, slots |-> [i \in 1..cap |-> EmptyPair], stuck |-> FALSE]
EmptyMap == Table(DefaultCap)

\* Slots are numbered from 1 here.  No characters hash to 0.
SlotOf(hash, h, p) == (IF p.size = 0 THEN 0 ELSE hash[p.key] % h.cap) + 1
KeyPairShort(k, v) == [key |-> k, size |-> KeySize[k] - 1, val |-> v]   \* mutant: strlen
KeyPair(k, v) == [key |-> k, size |-> KeySize[k], val |-> v]

SameSize(h) == Table(h.cap)   \* mutant
Larger(h) == [Table(h.cap + Growth) EXCEPT !.stuck = h.stuck]

\* Hashmap_rehash: all slots of the table are inserted into a larger one, the
\* empty ones as entries of slot 0.
Moved(insert, h) ==
    LET moved[j \in 0..Len(h.slots)] ==
            IF j = 0 THEN Larger(h) ELSE insert[<<moved[j - 1], h.slots[j]>>]
    IN  moved[Len(h.slots)]

\* _Hashmap_insert, with d rehashes left: `insert` is the same with one less.
\* The new entry goes to the slot it had in the smaller table.
Inserted(hash, d, insert, h, p) ==
    LET i == SlotOf(hash, h, p)
        room == IF h.slots[i].size = 0 THEN h
                ELSE IF d = 0 THEN [h EXCEPT !.stuck = TRUE]
                ELSE Moved(insert, h)
    IN  [room EXCEPT !.slots[i] = p]

Put(hash) ==
    LET put[d \in 0..MaxRehash] ==
            [x \in Map \X Pair |-> Inserted(hash, d, IF d = 0 THEN <<>> ELSE put[d - 1], x[1], x[2])]
    IN  put

Insert(hash, h, k, v) == Put(hash)[MaxRehash][<<h, KeyPair(k, v)>>]

\* _Hashmap_at: the entry in the key's slot, if its key is as long.
None == [found |-> FALSE, val |-> 0]
LookupAny(hash, h, k) ==   \* mutant: lengths are not compared
    LET p == h.slots[SlotOf(hash, h, KeyPair(k, 0))] IN
    IF p.size # 0 THEN [found |-> TRUE, val |-> p.val] ELSE None
Lookup(hash, h, k) ==
    LET p == h.slots[SlotOf(hash, h, KeyPair(k, 0))] IN
    IF p.size = KeySize[k] THEN [found |-> TRUE, val |-> p.val] ELSE None

\* _Hashmap_remove empties the slot, whatever key it holds.
Delete(hash, h, k) == [h EXCEPT !.slots[SlotOf(hash, h, KeyPair(k, 0))] = EmptyPair]

\* Names of which no two share a slot of a fresh table.
Spread(hash, names) ==
    \A a, b \in names : a # b => hash[a] % DefaultCap # hash[b] % DefaultCap
=============================================================================
