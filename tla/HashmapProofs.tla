--------------------------- MODULE HashmapProofs ---------------------------
(***************************************************************************)
(* Theorems about a table and the calls made on it, for every set of       *)
(* names, every hash function, and tables of any size and growth.          *)
(***************************************************************************)
EXTENDS HashmapUse, TableProofs

(***************************************************************************)
(* The invariant.                                                          *)
(***************************************************************************)
\* An entry is that of a name that was inserted.
Given(q) == q.val < Len(given) /\ q.key = given[q.val + 1] /\ q.size = KeySize[q.key]

\* Every name is in the slot a fresh table has for it, and nothing else is.
Direct ==
    /\ table.cap = DefaultCap
    /\ \A n \in DOMAIN given :
            table.slots[(hash[given[n]] % DefaultCap) + 1] = KeyPair(given[n], n - 1)
    /\ \A i \in Filled(table) : i = (hash[table.slots[i].key] % DefaultCap) + 1

UseType ==
    /\ hash \in [Keys -> Nat]
    /\ table \in Map
    /\ given \in Seq(Keys)

UseInv ==
    /\ UseType
    /\ Sane(table)
    /\ \A q \in Content(table) : Given(q)
    /\ gone = {} /\ Spread(hash, Used) => Direct

\* A name's slot is in the table.
LEMMA SlotInTable ==
    ASSUME UseInv, NEW k \in Keys, NEW v \in Nat
    PROVE  /\ SlotOf(hash, table, KeyPair(k, v)) = (hash[k] % table.cap) + 1
           /\ SlotOf(hash, table, KeyPair(k, v)) \in DOMAIN table.slots
<1>1. table.cap \in Nat /\ table.cap > 0 /\ Len(table.slots) = table.cap /\ DOMAIN table.slots = 1..table.cap
    BY MapFacts DEF UseInv, UseType, Sane
<1>2. hash[k] \in Nat
    BY DEF UseInv, UseType
<1>3. hash[k] % table.cap \in 0..table.cap - 1
    BY <1>1, <1>2
<1>4. SlotOf(hash, table, KeyPair(k, v)) = (hash[k] % table.cap) + 1
    BY KeyPairType DEF SlotOf
<1>5. QED
    BY <1>1, <1>3, <1>4

\* The names in use, of a table that is a dictionary.
LEMMA DirectSlots ==
    ASSUME UseInv, gone = {}, NEW k \in Keys, Spread(hash, Used \cup {k})
    PROVE  /\ Direct
           /\ SlotOf(hash, table, KeyPair(k, 0)) = (hash[k] % DefaultCap) + 1
           /\ k \notin Used => table.slots[(hash[k] % DefaultCap) + 1].size = 0
<1>1. Direct
    <2>1. Spread(hash, Used)
        BY DEF Spread
    <2>2. QED
        BY <2>1 DEF UseInv
<1>2. SlotOf(hash, table, KeyPair(k, 0)) = (hash[k] % DefaultCap) + 1
    BY <1>1, SlotInTable DEF Direct
<1>3. ASSUME k \notin Used, table.slots[(hash[k] % DefaultCap) + 1].size # 0 PROVE FALSE
    <2> DEFINE i == (hash[k] % DefaultCap) + 1
               q == table.slots[i]
    <2>1. i \in Filled(table)
        BY <1>2, <1>3, SlotInTable DEF Filled
    <2>2. q \in Content(table) /\ Given(q) /\ q \in Pair
        BY <2>1, MapFacts DEF Content, Filled, UseInv, UseType
    <2>3. i = (hash[q.key] % DefaultCap) + 1
        BY <1>1, <2>1 DEF Direct
    <2>4. q.key \in Used /\ q.key \in Keys
        <3>1. given \in Seq(Keys) /\ Len(given) \in Nat /\ DOMAIN given = 1..Len(given)
            BY LenProperties DEF UseInv, UseType
        <3>2. q.val \in Nat /\ q.val < Len(given) /\ q.key = given[q.val + 1]
            BY <2>2 DEF Given, Pair
        <3> HIDE DEF q
        <3>3. q.val + 1 \in 1..Len(given)
            BY <3>1, <3>2
        <3>4. given[q.val + 1] \in Keys
            BY <3>1, <3>3, ElementOfSeq
        <3>5. QED
            BY <3>1, <3>2, <3>3, <3>4 DEF Used
    <2>5. hash[k] % DefaultCap \in Int /\ hash[q.key] % DefaultCap \in Int
        BY <2>4, HashmapAssumption DEF UseInv, UseType
    <2>6. hash[q.key] % DefaultCap = hash[k] % DefaultCap
        BY <2>3, <2>5
    <2>7. q.key # k
        BY <1>3, <2>4
    <2>8. QED
        BY <2>4, <2>6, <2>7 DEF Spread
<1>4. QED
    BY <1>1, <1>2, <1>3

LEMMA UsedNames ==
    ASSUME UseInv, gone = {}, NEW k \in Used, Spread(hash, Used)
    PROVE  \E n \in DOMAIN given :
                given[n] = k /\ table.slots[(hash[k] % DefaultCap) + 1] = KeyPair(k, n - 1)
<1>1. PICK n \in DOMAIN given : given[n] = k
    BY DEF Used
<1>2. QED
    BY <1>1 DEF UseInv, Direct

LEMMA GivenFacts ==
    ASSUME UseType
    PROVE  /\ given \in Seq(Keys)
           /\ Len(given) \in Nat
           /\ DOMAIN given = 1..Len(given)
           /\ \A n \in DOMAIN given : given[n] \in Keys
           /\ Used \subseteq Keys
BY LenProperties, ElementOfSeq DEF UseType, Used

LEMMA AddKeeps == ASSUME UseInv, NEW k \in Keys, Add(k) PROVE UseInv'
<1> DEFINE v == Len(given)
           p == KeyPair(k, v)
           i == SlotOf(hash, table, p)
<1>1. UseType /\ Sane(table) /\ table \in Map
    BY DEF UseInv, UseType
<1>2. given \in Seq(Keys) /\ v \in Nat /\ DOMAIN given = 1..v
    BY <1>1, GivenFacts
<1>3. /\ p \in Pair /\ p.key = k /\ p.val = v /\ p.size = KeySize[k] /\ KeySize[k] # 0
    BY <1>2, KeyPairType
<1>4. table' = Put(hash)[MaxRehash][<<table, p>>] /\ given' = Append(given, k) /\ UNCHANGED <<hash, gone>>
    BY DEF Add, Insert
<1>5. MaxRehash \in 0..MaxRehash
    BY HashmapAssumption
<1>6. /\ given' \in Seq(Keys) /\ Len(given') = v + 1 /\ DOMAIN given' = 1..v + 1
      /\ given'[v + 1] = k
      /\ \A n \in 1..v : given'[n] = given[n]
    <2>1. given' \in Seq(Keys)
        BY <1>2, <1>4, AppendProperties
    <2>2. QED
        BY <1>2, <1>4, <2>1, AppendProperties, LenProperties
<1>7. New(table, p)
    <2>1. \A q \in Content(table) : q \in Pair /\ Given(q)
        BY <1>1, MapFacts DEF UseInv, Content, Filled
    <2>2. \A q \in Content(table) : q.val < v /\ q.val \in Nat
        BY <2>1 DEF Given, Pair
    <2>3. QED
        BY <1>2, <1>3, <2>2 DEF New
<1> HIDE DEF p, v
<1>8. table' \in Map /\ Sane(table') /\ Content(table') \subseteq Content(table) \cup {p}
    BY <1>1, <1>3, <1>4, <1>5, <1>7, PutFacts DEF Inserters
<1>9. \A q \in Content(table') : Given(q)'
    <2> SUFFICES ASSUME NEW q \in Content(table') PROVE Given(q)'
        OBVIOUS
    <2>1. CASE q \in Content(table)
        <3>1. q \in Pair /\ Given(q)
            BY <1>1, <2>1, MapFacts DEF UseInv, Content, Filled
        <3>2. q.val \in Nat /\ q.val < v
            BY <3>1 DEF Given, Pair, v
        <3>3. q.val + 1 \in 1..v /\ q.val < v + 1
            BY <1>2, <3>2
        <3>4. QED
            BY <1>6, <3>1, <3>3 DEF Given
    <2>2. CASE q = p
        <3>1. v < v + 1
            BY <1>2
        <3>2. QED
            BY <1>3, <1>6, <2>2, <3>1 DEF Given
    <2>3. QED
        BY <1>8, <2>1, <2>2
<1>10. ASSUME gone' = {}, Spread(hash, Used') PROVE Direct'
    <2>1. Used' = Used \cup {k}
        <3>1. Used' = {given'[n] : n \in 1..v + 1} /\ Used = {given[n] : n \in 1..v}
            BY <1>2, <1>6 DEF Used
        <3>2. 1..v + 1 = 1..v \cup {v + 1}
            BY <1>2
        <3>3. QED
            BY <1>6, <3>1, <3>2
    <2>2. gone = {} /\ Spread(hash, Used \cup {k}) /\ Spread(hash, Used)
        BY <1>4, <1>10, <2>1 DEF Spread
    <2>3. /\ Direct
          /\ SlotOf(hash, table, KeyPair(k, 0)) = (hash[k] % DefaultCap) + 1
          /\ k \notin Used => table.slots[(hash[k] % DefaultCap) + 1].size = 0
        BY <2>2, DirectSlots
    <2>4. i = (hash[k] % DefaultCap) + 1 /\ i \in DOMAIN table.slots
        BY <1>2, <2>3, SlotInTable DEF p, Direct
    <2>5. k \notin Used
        <3> SUFFICES ASSUME k \in Used PROVE FALSE
            OBVIOUS
        <3>1. PICK n \in DOMAIN given : table.slots[(hash[k] % DefaultCap) + 1] = KeyPair(k, n - 1)
            BY <2>2, UsedNames
        <3>2. KeyPair(k, n - 1).size = KeySize[k]
            BY DEF KeyPair
        <3>3. Lookup(hash, table, k).found = TRUE
            BY <2>3, <3>1, <3>2 DEF Lookup
        <3>4. QED
            BY <3>3 DEF Add
    <2>6. table.slots[i].size = 0
        BY <2>3, <2>4, <2>5
    <2>7. table' = [table EXCEPT !.slots[i] = p]
        BY <1>1, <1>3, <1>4, <1>5, <2>6, PutFacts
    <2> HIDE DEF i
    <2>8. /\ table'.cap = table.cap
          /\ DOMAIN table'.slots = DOMAIN table.slots
          /\ table'.slots[i] = p
          /\ \A j \in DOMAIN table.slots : j # i => table'.slots[j] = table.slots[j]
        <3>1. table'.cap = table.cap /\ table'.slots = [table.slots EXCEPT ![i] = p]
            BY <1>1, <2>7 DEF Map
        <3>2. DOMAIN [table.slots EXCEPT ![i] = p] = DOMAIN table.slots
            OBVIOUS
        <3>3. QED
            BY <2>4, <3>1, <3>2 DEF i
    <2>9. \A n \in DOMAIN given' :
                table'.slots[(hash[given'[n]] % DefaultCap) + 1] = KeyPair(given'[n], n - 1)
        <3> SUFFICES ASSUME NEW n \in 1..v + 1
                     PROVE  table'.slots[(hash[given'[n]] % DefaultCap) + 1] = KeyPair(given'[n], n - 1)
            BY <1>6
        <3>1. CASE n = v + 1
            <4>1. n - 1 = v
                BY <1>2, <3>1
            <4>2. QED
                BY <1>6, <2>4, <2>8, <3>1, <4>1 DEF p
        <3>2. CASE n # v + 1
            <4>1. n \in 1..v /\ given'[n] = given[n]
                BY <1>2, <1>6, <3>2
            <4>2. given[n] \in Used /\ given[n] # k /\ given[n] \in Keys
                BY <1>1, <1>2, <2>5, <4>1, GivenFacts DEF Used
            <4>3. hash[given[n]] % DefaultCap # hash[k] % DefaultCap
                BY <2>2, <4>2 DEF Spread
            <4>4. hash[given[n]] % DefaultCap \in Int /\ hash[k] % DefaultCap \in Int
                BY <1>1, <4>2, HashmapAssumption DEF UseType
            <4>5. (hash[given[n]] % DefaultCap) + 1 # i
                BY <2>4, <4>3, <4>4
            <4>6. (hash[given[n]] % DefaultCap) + 1 \in DOMAIN table.slots
                BY <2>3, <4>2, SlotInTable DEF Direct
            <4>7. QED
                BY <1>2, <2>3, <2>8, <4>1, <4>5, <4>6 DEF Direct
        <3>3. QED
            BY <3>1, <3>2
    <2>10. \A j \in Filled(table') : j = (hash[table'.slots[j].key] % DefaultCap) + 1
        <3> SUFFICES ASSUME NEW j \in Filled(table')
                     PROVE  j = (hash[table'.slots[j].key] % DefaultCap) + 1
            OBVIOUS
        <3>1. CASE j = i
            BY <1>3, <2>4, <2>8, <3>1
        <3>2. CASE j # i
            <4>1. j \in Filled(table) /\ table'.slots[j] = table.slots[j]
                BY <2>8, <3>2 DEF Filled
            <4>2. QED
                BY <2>3, <4>1 DEF Direct
        <3>3. QED
            BY <3>1, <3>2
    <2>11. QED
        BY <1>4, <2>3, <2>8, <2>9, <2>10 DEF Direct
<1>11. UseType'
    BY <1>1, <1>4, <1>6, <1>8 DEF UseType
<1>12. QED
    BY <1>4, <1>8, <1>9, <1>10, <1>11 DEF UseInv

LEMMA RemoveKeeps == ASSUME UseInv, NEW k \in Keys, Remove(k) PROVE UseInv'
<1> DEFINE i == SlotOf(hash, table, KeyPair(k, 0))
<1>1. UseType /\ Sane(table) /\ table \in Map
    BY DEF UseInv, UseType
<1>2. table' = [table EXCEPT !.slots[i] = EmptyPair] /\ gone' # {} /\ UNCHANGED <<hash, given>>
    BY DEF Remove, Delete
<1>3. EmptyPair \in Pair /\ New(table, EmptyPair) /\ EmptyPair.size = 0
    BY DEF EmptyPair, Pair, New
<1> HIDE DEF i
<1>4. table' \in Map /\ Content(table') \subseteq Content(table) \cup {EmptyPair} /\ Sane(table')
    BY <1>1, <1>2, <1>3, Replaced
<1>5. Content(table') \subseteq Content(table)
    BY <1>3, <1>4 DEF Content, Filled
<1>6. \A q \in Content(table') : Given(q)'
    BY <1>2, <1>5 DEF UseInv, Given
<1>7. UseType'
    BY <1>1, <1>2, <1>4 DEF UseType
<1>8. QED
    BY <1>2, <1>4, <1>6, <1>7 DEF UseInv

LEMMA UseInitHolds == ASSUME Init PROVE UseInv
<1>1. DefaultCap \in Nat /\ DefaultCap > 0
    BY HashmapAssumption
<1>2. table \in Map /\ Content(table) = {} /\ Sane(table) /\ table = Table(DefaultCap)
    BY <1>1, TableType DEF Init, EmptyMap
<1>3. given = <<>> /\ hash \in [Keys -> Nat]
    BY UseAssumption DEF Init
<1>4. Filled(table) = {} /\ table.cap = DefaultCap
    BY <1>2 DEF Content, Table
<1>5. DOMAIN given = {} /\ given \in Seq(Keys)
    BY <1>3
<1>6. Direct
    BY <1>4, <1>5 DEF Direct
<1>7. QED
    BY <1>2, <1>3, <1>5, <1>6 DEF UseInv, UseType

LEMMA UseInvariant == Spec => []UseInv
<1>1. Init => UseInv
    BY UseInitHolds
<1>2. UseInv /\ [Next]_vars => UseInv'
    <2>1. ASSUME UseInv, Next PROVE UseInv'
        BY <2>1, AddKeeps, RemoveKeeps DEF Next
    <2>2. ASSUME UseInv, UNCHANGED vars PROVE UseInv'
        BY <2>2 DEF vars, UseInv, UseType, Given, Direct, Used
    <2>3. QED
        BY <2>1, <2>2
<1>3. QED
    BY <1>1, <1>2, PTL DEF Spec

(***************************************************************************)
(* Theorems.                                                               *)
(***************************************************************************)
\* While no two names in use share a slot, the tables of hashmap.h answer as
\* dictionaries do, for every set of names and every hash: what was inserted
\* is found with its value, and no other name is found.
THEOREM DictionaryHolds == Spec => []IsDictionary
<1>1. UseInv => IsDictionary
    <2> SUFFICES ASSUME UseInv, NEW k \in Keys, gone = {}, Spread(hash, Used \cup {k})
                 PROVE  Lookup(hash, table, k) =
                            IF k \in Used
                            THEN [found |-> TRUE, val |-> (CHOOSE i \in DOMAIN given : given[i] = k) - 1]
                            ELSE None
        BY DEF IsDictionary
    <2>1. /\ Direct
          /\ SlotOf(hash, table, KeyPair(k, 0)) = (hash[k] % DefaultCap) + 1
          /\ k \notin Used => table.slots[(hash[k] % DefaultCap) + 1].size = 0
        BY DirectSlots
    <2>2. KeySize[k] \in Nat /\ KeySize[k] # 0
        BY HashmapAssumption
    <2>3. CASE k \notin Used
        BY <2>1, <2>2, <2>3 DEF Lookup
    <2>4. CASE k \in Used
        <3> DEFINE n == CHOOSE i \in DOMAIN given : given[i] = k
        <3>1. \E i \in DOMAIN given : given[i] = k
            BY <2>4 DEF Used
        <3>2. n \in DOMAIN given /\ given[n] = k
            BY <3>1
        <3> HIDE DEF n
        <3>3. table.slots[(hash[k] % DefaultCap) + 1] = KeyPair(k, n - 1)
            BY <2>1, <3>2 DEF Direct
        <3>4. KeyPair(k, n - 1).size = KeySize[k] /\ KeyPair(k, n - 1).val = n - 1
            BY DEF KeyPair
        <3>5. Lookup(hash, table, k) = [found |-> TRUE, val |-> n - 1]
            BY <2>1, <3>3, <3>4 DEF Lookup
        <3>6. QED
            BY <2>4, <3>5 DEF n
    <2>5. QED
        BY <2>3, <2>4
<1>2. QED
    BY <1>1, UseInvariant, PTL

\* Collisions and rehashes of any depth lose entries of hashmap.h, but never
\* mix them: an entry is that of one name that was inserted, no value is held
\* twice, and a lookup finds only entries of names as long as its own.
THEOREM EntriesHold == Spec => []EntriesAreGiven
<1>1. UseInv => EntriesAreGiven
    <2> SUFFICES ASSUME UseInv PROVE EntriesAreGiven
        OBVIOUS
    <2>1. ASSUME NEW i \in DOMAIN table.slots, table.slots[i].size # 0
          PROVE  /\ Given(table.slots[i])
                 /\ table.slots[i].size = KeySize[table.slots[i].key]
                 /\ \A j \in DOMAIN table.slots \ {i} :
                        table.slots[j].size # 0 => table.slots[j].val # table.slots[i].val
        <3>1. i \in Filled(table) /\ table.slots[i] \in Content(table)
            BY <2>1 DEF Filled, Content
        <3>2. QED
            BY <3>1 DEF UseInv, Sane, Given, Filled
    <2>2. ASSUME NEW k \in Keys, Lookup(hash, table, k).found
          PROVE  KeySize[given[Lookup(hash, table, k).val + 1]] = KeySize[k]
        <3> DEFINE i == SlotOf(hash, table, KeyPair(k, 0))
        <3>1. i \in DOMAIN table.slots
            BY SlotInTable
        <3>2. KeySize[k] \in Nat /\ KeySize[k] # 0
            BY HashmapAssumption
        <3> HIDE DEF i
        <3>3. Lookup(hash, table, k) =
                IF table.slots[i].size = KeySize[k]
                THEN [found |-> TRUE, val |-> table.slots[i].val] ELSE None
            BY DEF Lookup, i
        <3>4. table.slots[i].size = KeySize[k] /\ Lookup(hash, table, k).val = table.slots[i].val
            BY <2>2, <3>3 DEF None
        <3>5. QED
            BY <2>1, <3>1, <3>2, <3>4 DEF Given
    <2>3. QED
        BY <2>1, <2>2 DEF EntriesAreGiven, Given
<1>2. QED
    BY <1>1, UseInvariant, PTL
=============================================================================
