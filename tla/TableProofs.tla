---------------------------- MODULE TableProofs ----------------------------
(***************************************************************************)
(* Facts about the table of hashmap.h: what insertion and rehashing may do *)
(* to its entries, for every hash function and tables of any size and      *)
(* growth.                                                                 *)
(*                                                                         *)
(* An insertion is a function from a table and an entry to a table; what   *)
(* it may do to the entries is a property of that function, kept from one  *)
(* depth of rehashing to the next.                                         *)
(***************************************************************************)
EXTENDS Hashmap, InductionProofs, SequenceTheorems

Filled(h) == {i \in DOMAIN h.slots : h.slots[i].size # 0}
Content(h) == {h.slots[i] : i \in Filled(h)}

\* A table with as many slots as it says, every value held once.
Sane(h) ==
    /\ h.cap > 0
    /\ Len(h.slots) = h.cap
    /\ \A i, j \in Filled(h) : i # j => h.slots[i].val # h.slots[j].val

\* An entry whose value the table does not hold yet.
New(h, p) == p.size # 0 => \A q \in Content(h) : q.val # p.val

\* The functions that insert: a sane table stays sane and holds nothing but
\* what it held and the new entry.
Inserters ==
    {f \in [Map \X Pair -> Map] : \A h \in Map, p \in Pair :
        Sane(h) /\ New(h, p) =>
            Sane(f[<<h, p>>]) /\ Content(f[<<h, p>>]) \subseteq Content(h) \cup {p}}

LEMMA MapFacts ==
    ASSUME NEW h \in Map
    PROVE  /\ h.slots \in Seq(Pair) /\ h.cap \in Nat
           /\ DOMAIN h.slots = 1..Len(h.slots) /\ Len(h.slots) \in Nat
           /\ \A i \in DOMAIN h.slots : h.slots[i] \in Pair
BY LenProperties, ElementOfSeq DEF Map

LEMMA TableType ==
    ASSUME NEW cap \in Nat
    PROVE  Table(cap) \in Map /\ Content(Table(cap)) = {} /\ (cap > 0 => Sane(Table(cap)))
<1> DEFINE slots == [i \in 1..cap |-> EmptyPair]
<1>1. EmptyPair \in Pair /\ EmptyPair.size = 0
    BY DEF EmptyPair, Pair
<1>2. slots \in Seq(Pair) /\ Len(slots) = cap /\ \A i \in DOMAIN slots : slots[i].size = 0
    BY <1>1
<1>3. Table(cap) = [cap |-> cap, slots |-> slots, stuck |-> FALSE]
    BY DEF Table
<1> HIDE DEF slots
<1>4. Table(cap).slots = slots /\ Table(cap).cap = cap
    BY <1>3
<1>5. Filled(Table(cap)) = {}
    BY <1>2, <1>4 DEF Filled
<1>6. Table(cap) \in Map
    BY <1>2, <1>3 DEF Map
<1>7. Content(Table(cap)) = {}
    BY <1>5 DEF Content
<1>8. cap > 0 => Sane(Table(cap))
    BY <1>2, <1>4, <1>5 DEF Sane
<1>9. QED
    BY <1>6, <1>7, <1>8

\* Replacing one slot, wherever it is.
LEMMA Replaced ==
    ASSUME NEW h \in Map, NEW i, NEW p \in Pair
    PROVE  LET r == [h EXCEPT !.slots[i] = p] IN
           /\ r \in Map
           /\ r.cap = h.cap
           /\ Content(r) \subseteq Content(h) \cup {p}
           /\ Sane(h) /\ New(h, p) => Sane(r)
<1> DEFINE r == [h EXCEPT !.slots[i] = p]
           slots == [h.slots EXCEPT ![i] = p]
<1>1. h.slots \in Seq(Pair) /\ h.cap \in Nat /\ DOMAIN h.slots = 1..Len(h.slots) /\ Len(h.slots) \in Nat
    BY MapFacts
<1>2. /\ slots \in Seq(Pair) /\ Len(slots) = Len(h.slots) /\ DOMAIN slots = DOMAIN h.slots
      /\ \A j \in DOMAIN h.slots : slots[j] = IF j = i THEN p ELSE h.slots[j]
    <2>1. CASE i \in DOMAIN h.slots
        BY <1>1, <2>1, ExceptSeq
    <2>2. CASE i \notin DOMAIN h.slots
        <3>1. slots = h.slots
            BY <1>1, <2>2
        <3>2. QED
            BY <1>1, <2>2, <3>1
    <2>3. QED
        BY <2>1, <2>2
<1>3. r = [h EXCEPT !.slots = slots]
    BY DEF Map
<1> HIDE DEF slots
<1>4. r \in Map /\ r.slots = slots /\ r.cap = h.cap
    BY <1>2, <1>3 DEF Map
<1> HIDE DEF r
<1>5. Content(r) \subseteq Content(h) \cup {p}
    BY <1>2, <1>4 DEF Content, Filled
<1>6. ASSUME Sane(h), New(h, p) PROVE Sane(r)
    <2>1. ASSUME NEW a \in Filled(r), NEW b \in Filled(r), a # b PROVE slots[a].val # slots[b].val
        <3>1. CASE a # i /\ b # i
            BY <1>2, <1>4, <1>6, <2>1, <3>1 DEF Sane, Filled
        <3>2. CASE a = i
            BY <1>2, <1>4, <1>6, <2>1, <3>2 DEF New, Content, Filled
        <3>3. CASE b = i
            BY <1>2, <1>4, <1>6, <2>1, <3>3 DEF New, Content, Filled
        <3>4. QED
            BY <3>1, <3>2, <3>3
    <2>2. QED
        BY <1>2, <1>4, <1>6, <2>1 DEF Sane
<1>7. QED
    BY <1>4, <1>5, <1>6 DEF r

(***************************************************************************)
(* Insertion and rehashing.                                                *)
(***************************************************************************)
LEMMA MovedKeeps ==
    ASSUME NEW insert \in Inserters, NEW h \in Map
    PROVE  /\ Moved(insert, h) \in Map
           /\ Sane(h) => Sane(Moved(insert, h)) /\ Content(Moved(insert, h)) \subseteq Content(h)
<1> DEFINE m == Len(h.slots)
           Is(f) == f = [j \in 0..m |-> IF j = 0 THEN Larger(h) ELSE insert[<<f[j - 1], h.slots[j]>>]]
           F == [x \in (1..m) \X Map |-> insert[<<x[2], h.slots[x[1]]>>]]
           moved == CHOOSE f : Is(f)
<1>1. m \in Nat /\ DOMAIN h.slots = 1..m /\ h.cap \in Nat /\ \A j \in 1..m : h.slots[j] \in Pair
    BY MapFacts
<1>2. Larger(h) \in Map /\ Content(Larger(h)) = {} /\ (Sane(h) => Sane(Larger(h)))
    <2>1. h.cap + Growth \in Nat /\ (h.cap > 0 => h.cap + Growth > 0)
        BY <1>1, HashmapAssumption
    <2>2. Sane(h) => h.cap > 0
        BY DEF Sane
    <2> DEFINE t == Table(h.cap + Growth)
    <2>3. t \in Map /\ Content(t) = {} /\ (Sane(h) => Sane(t))
        BY <2>1, <2>2, TableType
    <2>4. h.stuck \in BOOLEAN
        BY DEF Map
    <2>5. Larger(h) = [t EXCEPT !.stuck = h.stuck]
        BY DEF Larger
    <2> HIDE DEF t
    <2>6. Larger(h) \in Map /\ Larger(h).slots = t.slots /\ Larger(h).cap = t.cap
        BY <2>3, <2>4, <2>5 DEF Map
    <2>7. QED
        BY <2>3, <2>6 DEF Content, Filled, Sane
<1> HIDE DEF m
<1>3. ASSUME NEW new \in Map, NEW j \in 1..m PROVE insert[<<new, h.slots[j]>>] \in Map
    BY <1>1 DEF Inserters
<1>4. F \in [(1..m) \X Map -> Map]
    BY <1>3
<1>5. PICK f : Iterates(f, m, Map, Larger(h), F)
    <2> HIDE DEF F
    <2>1. QED
        BY <1>1, <1>2, <1>4, Iteration
<1>6. f \in [0..m -> Map] /\ f[0] = Larger(h)
    BY <1>5 DEF Iterates
<1>7. ASSUME NEW j \in 1..m PROVE f[j] = insert[<<f[j - 1], h.slots[j]>>]
    <2>1. f[j - 1] \in Map
        BY <1>1, <1>6
    <2>2. <<j, f[j - 1]>> \in (1..m) \X Map
        BY <2>1
    <2>3. F[<<j, f[j - 1]>>] = insert[<<f[j - 1], h.slots[j]>>]
        BY <2>2
    <2> HIDE DEF F
    <2>4. QED
        BY <1>5, <2>3 DEF Iterates
<1>8. Is(f)
    BY <1>6, <1>7
<1>9. Is(moved)
    <2> HIDE DEF Is
    <2>1. QED
        BY <1>8
<1>10. moved[0] = Larger(h) /\ \A j \in 1..m : moved[j] = insert[<<moved[j - 1], h.slots[j]>>]
    <2>1. 0 \in 0..m /\ \A j \in 1..m : j \in 0..m /\ j # 0
        BY <1>1
    <2> HIDE DEF moved
    <2>2. QED
        BY <1>9, <2>1
<1>11. Moved(insert, h) = moved[m]
    BY DEF Moved, m
<1> HIDE DEF moved
\* Up to slot j the larger table holds only entries of slots up to j.
<1> DEFINE Before(j, new) ==
        Sane(h) => Sane(new) /\ \A q \in Content(new) : \E i \in Filled(h) : i <= j /\ q = h.slots[i]
<1>12. 0..m \subseteq {j \in 0..m : moved[j] \in Map /\ Before(j, moved[j])}
    <2> DEFINE T == {j \in 0..m : moved[j] \in Map /\ Before(j, moved[j])}
    <2>1. 0 \in T
        BY <1>1, <1>2, <1>10
    <2>2. ASSUME NEW j \in 0..m - 1, moved[j] \in Map, Before(j, moved[j]) PROVE j + 1 \in T
        <3> DEFINE p == h.slots[j + 1]
                   new == moved[j]
        <3>1. j + 1 \in 1..m /\ j + 1 \in 0..m /\ j + 1 - 1 = j /\ j <= j + 1
            BY <1>1
        <3>2. p \in Pair
            BY <1>1, <3>1
        <3>3. moved[j + 1] = insert[<<new, p>>]
            BY <1>10, <3>1
        <3>4. moved[j + 1] \in Map
            BY <2>2, <3>2, <3>3 DEF Inserters
        <3>5. ASSUME Sane(h) PROVE Before(j + 1, moved[j + 1])
            <4>1. Sane(new) /\ \A q \in Content(new) : \E i \in Filled(h) : i <= j /\ q = h.slots[i]
                BY <2>2, <3>5
            <4>2. New(new, p)
                <5> SUFFICES ASSUME p.size # 0, NEW q \in Content(new) PROVE q.val # p.val
                    BY DEF New
                <5>1. PICK i \in Filled(h) : i <= j /\ q = h.slots[i]
                    BY <4>1
                <5>2. j + 1 \in Filled(h)
                    BY <1>1, <3>1 DEF Filled
                <5>3. i # j + 1
                    BY <5>1, <3>1
                <5>4. QED
                    BY <3>5, <5>1, <5>2, <5>3 DEF Sane
            <4>3. Sane(moved[j + 1]) /\ Content(moved[j + 1]) \subseteq Content(new) \cup {p}
                BY <2>2, <3>2, <3>3, <4>1, <4>2 DEF Inserters
            <4>4. ASSUME NEW q \in Content(moved[j + 1]) PROVE \E i \in Filled(h) : i <= j + 1 /\ q = h.slots[i]
                <5>1. q.size # 0
                    BY DEF Content, Filled
                <5>2. CASE q \in Content(new)
                    <6>1. PICK i \in Filled(h) : i <= j /\ q = h.slots[i]
                        BY <4>1, <5>2
                    <6>2. i \in 1..m
                        BY <1>1 DEF Filled
                    <6>3. QED
                        BY <3>1, <6>1, <6>2
                <5>3. CASE q = p
                    <6>1. j + 1 \in Filled(h)
                        BY <1>1, <3>1, <5>1, <5>3 DEF Filled
                    <6>2. QED
                        BY <3>1, <5>3, <6>1
                <5>4. QED
                    BY <4>3, <5>2, <5>3
            <4>5. QED
                BY <4>3, <4>4
        <3>6. QED
            BY <3>1, <3>4, <3>5
    <2> HIDE DEF T
    <2>3. 0..m \subseteq T
        BY <1>1, <2>1, <2>2, InductTo DEF T
    <2>4. QED
        BY <2>3 DEF T
<1>13. moved[m] \in Map /\ Before(m, moved[m])
    <2>1. m \in 0..m
        BY <1>1
    <2> HIDE DEF Before
    <2>2. QED
        BY <1>12, <2>1
<1>14. QED
    BY <1>11, <1>13 DEF Content

LEMMA InsertedKeeps ==
    ASSUME NEW hash_, NEW d \in Nat, NEW insert, d = 0 \/ insert \in Inserters
    PROVE  [x \in Map \X Pair |-> Inserted(hash_, d, insert, x[1], x[2])] \in Inserters
<1> DEFINE f == [x \in Map \X Pair |-> Inserted(hash_, d, insert, x[1], x[2])]
           room(h, i) == IF h.slots[i].size = 0 THEN h
                         ELSE IF d = 0 THEN [h EXCEPT !.stuck = TRUE]
                         ELSE Moved(insert, h)
<1>1. ASSUME NEW h \in Map, NEW i
      PROVE  /\ room(h, i) \in Map
             /\ Sane(h) => Sane(room(h, i)) /\ Content(room(h, i)) \subseteq Content(h)
    <2>1. CASE h.slots[i].size = 0
        BY <2>1
    <2>2. CASE h.slots[i].size # 0 /\ d = 0
        <3> DEFINE r == [h EXCEPT !.stuck = TRUE]
        <3>1. r \in Map /\ r.slots = h.slots /\ r.cap = h.cap
            BY DEF Map
        <3> HIDE DEF r
        <3>2. Content(r) = Content(h) /\ (Sane(h) => Sane(r))
            BY <3>1 DEF Content, Filled, Sane
        <3>3. room(h, i) = r
            BY <2>2 DEF r
        <3>4. QED
            BY <3>1, <3>2, <3>3
    <2>3. CASE h.slots[i].size # 0 /\ d # 0
        BY <2>3, MovedKeeps
    <2>4. QED
        BY <2>1, <2>2, <2>3
<1> HIDE DEF room
<1>2. ASSUME NEW h \in Map, NEW p \in Pair
      PROVE  /\ Inserted(hash_, d, insert, h, p) \in Map
             /\ Sane(h) /\ New(h, p) =>
                    /\ Sane(Inserted(hash_, d, insert, h, p))
                    /\ Content(Inserted(hash_, d, insert, h, p)) \subseteq Content(h) \cup {p}
    <2> DEFINE i == SlotOf(hash_, h, p)
               r == room(h, i)
    <2>1. Inserted(hash_, d, insert, h, p) = [r EXCEPT !.slots[i] = p]
        BY DEF Inserted, room
    <2>2. r \in Map
        BY <1>1
    <2>3. Sane(h) => Sane(r) /\ Content(r) \subseteq Content(h)
        BY <1>1
    <2> HIDE DEF r, i
    <2>4. Sane(h) /\ New(h, p) => New(r, p)
        BY <2>3 DEF New
    <2> DEFINE s == [r EXCEPT !.slots[i] = p]
    <2>5. s \in Map /\ Content(s) \subseteq Content(r) \cup {p} /\ (Sane(r) /\ New(r, p) => Sane(s))
        BY <2>2, Replaced
    <2> HIDE DEF s
    <2>6. QED
        BY <2>1, <2>3, <2>4, <2>5 DEF s
<1>3. f \in [Map \X Pair -> Map]
    BY <1>2
<1>4. \A h \in Map, p \in Pair : f[<<h, p>>] = Inserted(hash_, d, insert, h, p)
    OBVIOUS
<1> HIDE DEF f
<1>5. f \in Inserters
    BY <1>2, <1>3, <1>4 DEF Inserters
<1>6. QED
    BY <1>5 DEF f

LEMMA PutFacts ==
    ASSUME NEW hash_, NEW d \in 0..MaxRehash
    PROVE  /\ Put(hash_)[d] \in Inserters
           /\ \A h \in Map, p \in Pair :
                h.slots[SlotOf(hash_, h, p)].size = 0 =>
                    Put(hash_)[d][<<h, p>>] = [h EXCEPT !.slots[SlotOf(hash_, h, p)] = p]
<1> DEFINE m == MaxRehash
           Layer(n, insert) == [x \in Map \X Pair |-> Inserted(hash_, n, insert, x[1], x[2])]
           Is(f) == f = [n \in 0..m |->
                [x \in Map \X Pair |-> Inserted(hash_, n, IF n = 0 THEN <<>> ELSE f[n - 1], x[1], x[2])]]
           F == [y \in (1..m) \X Inserters |-> Layer(y[1], y[2])]
           put == CHOOSE f : Is(f)
           first == Layer(0, <<>>)
<1>1. m \in Nat
    BY HashmapAssumption
<1>2. first \in Inserters
    BY InsertedKeeps
<1>3. ASSUME NEW insert \in Inserters, NEW n \in 1..m PROVE Layer(n, insert) \in Inserters
    <2>1. n \in Nat
        BY <1>1
    <2>2. QED
        BY <2>1, InsertedKeeps
<1> HIDE DEF m, Layer, first
<1>4. F \in [(1..m) \X Inserters -> Inserters]
    BY <1>3
<1>5. PICK f : Iterates(f, m, Inserters, first, F)
    <2> HIDE DEF F
    <2>1. QED
        BY <1>1, <1>2, <1>4, Iteration
<1>6. f \in [0..m -> Inserters] /\ f[0] = first
    BY <1>5 DEF Iterates
<1>7. ASSUME NEW n \in 1..m PROVE f[n] = Layer(n, f[n - 1])
    <2>1. f[n - 1] \in Inserters
        BY <1>1, <1>6
    <2>2. <<n, f[n - 1]>> \in (1..m) \X Inserters
        BY <2>1
    <2>3. F[<<n, f[n - 1]>>] = Layer(n, f[n - 1])
        BY <2>2
    <2> HIDE DEF F
    <2>4. QED
        BY <1>5, <2>3 DEF Iterates
<1>8. f = [n \in 0..m |-> Layer(n, IF n = 0 THEN <<>> ELSE f[n - 1])]
    <2>1. \A n \in 0..m : f[n] = Layer(n, IF n = 0 THEN <<>> ELSE f[n - 1])
        BY <1>1, <1>6, <1>7 DEF first
    <2>2. QED
        BY <1>6, <2>1
<1>9. Is(f)
    BY <1>8 DEF Layer
<1>10. Is(put)
    <2> HIDE DEF Is
    <2>1. QED
        BY <1>9
<1>11. Put(hash_) = put
    BY DEF Put, m
<1> HIDE DEF put
<1>12. \A n \in 0..m : put[n] = Layer(n, IF n = 0 THEN <<>> ELSE put[n - 1])
    BY <1>10 DEF Layer
<1>13. 0..m \subseteq {n \in 0..m : put[n] \in Inserters}
    <2> DEFINE T == {n \in 0..m : put[n] \in Inserters}
    <2>1. 0 \in T
        BY <1>1, <1>2, <1>12 DEF first
    <2>2. ASSUME NEW n \in 0..m - 1, put[n] \in Inserters PROVE n + 1 \in T
        <3>1. n + 1 \in 1..m /\ n + 1 \in 0..m /\ n + 1 # 0 /\ n + 1 - 1 = n
            BY <1>1
        <3>2. put[n + 1] = Layer(n + 1, put[n])
            BY <1>12, <3>1
        <3>3. QED
            BY <1>3, <2>2, <3>1, <3>2
    <2> HIDE DEF T
    <2>3. 0..m \subseteq T
        BY <1>1, <2>1, <2>2, InductTo DEF T
    <2>4. QED
        BY <2>3 DEF T
<1>14. put[d] \in Inserters
    BY <1>13 DEF m
<1>15. ASSUME NEW h \in Map, NEW p \in Pair, h.slots[SlotOf(hash_, h, p)].size = 0
       PROVE  put[d][<<h, p>>] = [h EXCEPT !.slots[SlotOf(hash_, h, p)] = p]
    <2> DEFINE insert == IF d = 0 THEN <<>> ELSE put[d - 1]
    <2>1. put[d] = Layer(d, insert)
        BY <1>12 DEF m
    <2> HIDE DEF insert
    <2>2. put[d][<<h, p>>] = Inserted(hash_, d, insert, h, p)
        BY <2>1 DEF Layer
    <2>3. QED
        BY <1>15, <2>2 DEF Inserted
<1>16. QED
    BY <1>11, <1>14, <1>15

LEMMA KeyPairType ==
    ASSUME NEW k \in Keys, NEW v \in Nat
    PROVE  /\ KeyPair(k, v) \in Pair
           /\ KeyPair(k, v).key = k /\ KeyPair(k, v).val = v
           /\ KeyPair(k, v).size = KeySize[k] /\ KeySize[k] \in Nat /\ KeySize[k] # 0
BY HashmapAssumption DEF KeyPair, Pair
=============================================================================
