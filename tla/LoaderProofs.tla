---------------------------- MODULE LoaderProofs ----------------------------
(***************************************************************************)
(* Theorems about loading, for every set of texts, every hash of the names *)
(* and every bound: what Code_from and resolveSym leave is what the run    *)
(* loop assumes of a program.                                              *)
(***************************************************************************)
EXTENDS Loader, TableProofs

\* Operands of lines in memory, with n variables declared: a name has an
\* entry of its table, a literal its first cell.
Toks(n) ==
    [t : {"Num"}, v : {v \in Value : Sound(v)}]
        \cup [t : {"Var"}, name : Keys, idx : 0..n - 1]
        \cup [t : {"Sym"}, name : Keys, idx : Nat]
        \cup [t : {"Idx"}, depth : 0..MaxNest, base : {"Var"}, name : Keys, idx : 0..n - 1]
        \cup [t : {"Idx"}, depth : 0..MaxNest, base : {"Num"}, idx : Longs]
        \cup [t : {"Ltl"}, text : Seq(LtlCells), idx : -LongMax..0]

StoredLines(n) ==
    {line \in [kind : {"line"}, op : Ops, args : Seq(Toks(n))] \cup [op : Ops, args : Seq(Toks(n))] :
        Known(line) /\ (line.op = "var" => line.args[1].idx \in 0..n - 1)}

\* The lines that wait for the file they source.
WaitingLines == {line \in StoredLines(1) : line.op = "src"}

FrameRecords == [file : {Main} \cup Keys, open : BOOLEAN, read : Nat, line : WaitingLines \cup {NoLine}]
FrameType ==
    /\ frames \in Seq(FrameRecords)
    /\ \A k \in 2..Len(frames) : frames[k].line \in WaitingLines
    /\ \A k \in 1..Len(frames) :
            IF frames[k].open THEN frames[k].file \in DOMAIN Files /\ frames[k].read <= Len(Files[frames[k].file])
            ELSE frames[k].read = 0
    /\ \A k \in 1..Len(frames) - 1 : frames[k].open /\ frames[k].read < Len(Files[frames[k].file])

\* A table whose entries are of names and have values below n.
TableBelow(h, n) ==
    /\ h \in Map /\ Sane(h)
    /\ \A q \in Content(h) : q.val < n /\ q.key \in Keys /\ q.size = KeySize[q.key]

EntryType ==
    /\ var \in Seq(0..Registers + 1) /\ Len(var) \in Registers + 2..MaxLines
    /\ label \in Seq(Nat) /\ Len(label) <= Len(code)
    /\ \A i \in 1..Len(label) : label[i] < Len(code) /\ code[label[i] + 1].op = "lbl"
    /\ TableBelow(varLookUp, Len(var))
    /\ TableBelow(labelLookUp, Len(label))

LoadType ==
    /\ text \in DOMAIN Sources
    /\ code \in Seq(StoredLines(Len(var))) /\ Len(code) <= MaxLines
    /\ ptr \in Nat
    /\ mem \in Seq(LtlCells) /\ Len(mem) \in Registers + 2..MaxMem
    /\ phase \in {"load", "resolve", "run", "UndefinedVar", "UndefinedLabel", "undefined"} \cup ReadErrors
    /\ frames = <<>> => phase \in {"resolve", "run", "UndefinedVar", "UndefinedLabel", "undefined"}
    /\ frames # <<>> => phase \in {"load", "undefined"} \cup ReadErrors
    /\ frames = <<>> => ptr \in 0..Len(code) /\ code # <<>> /\ code[Len(code)].op = "halt"

\* An entry is that of the line that declared its name, or of a register.
Registered == {RegisterNames[i] : i \in 1..Registers + 2}
DeclaredBy(op) == {code[i].args[1].name : i \in {i \in 1..Len(code) : code[i].op = op}}
VarEntry(n, k) ==
    \/ n < Registers + 2 /\ RegisterNames[n + 1] = k
    \/ \E i \in 1..Len(code) : code[i].op = "var" /\ code[i].args[1].name = k /\ code[i].args[1].idx = n

EntryNames ==
    /\ \A q \in Content(varLookUp) : VarEntry(q.val, q.key)
    /\ \A q \in Content(labelLookUp) : code[label[q.val + 1] + 1].args[1].name = q.key

\* A table that has not grown, with every entry in its own slot.
InPlace(h) ==
    /\ h.cap = DefaultCap
    /\ \A i \in Filled(h) : i = (Hash[h.slots[i].key] % DefaultCap) + 1

EntryPlaces ==
    /\ Spread(Hash, Registered \cup DeclaredBy("var")) => InPlace(varLookUp)
    /\ Spread(Hash, DeclaredBy("lbl")) => InPlace(labelLookUp)

\* A name with the entry it is looked up to, a literal with its cells.
Looks(h, tok) == Lookup(Hash, h, tok.name).found /\ Lookup(Hash, h, tok.name).val = tok.idx
Placed(m, tok) ==
    /\ -tok.idx >= Registers + 2
    /\ Len(tok.text) + 1 - tok.idx <= Len(m)
    /\ \A i \in 1..Len(tok.text) : m[i - tok.idx] = tok.text[i]
    /\ m[Len(tok.text) + 1 - tok.idx] = Zero
Settled(m, tok) ==
    /\ IsVar(tok) => Looks(varLookUp, tok)
    /\ tok.t = "Ltl" => Placed(m, tok)
Apart(a, b) == Len(a.text) - a.idx < -b.idx \/ Len(b.text) - b.idx < -a.idx

\* The lines resolveSym has gone through.
Through == IF phase = "run" THEN Len(code) ELSE IF phase = "resolve" THEN ptr ELSE 0
SettledLines == {i \in 1..Through : ~Skipped(code[i])}

SettledInv ==
    /\ \A i \in SettledLines : \A k \in 1..Len(code[i].args) :
            /\ Settled(mem, code[i].args[k])
            /\ k = TargetAt(code[i].op) => Looks(labelLookUp, code[i].args[k])
    /\ \A i, j \in SettledLines : \A k \in 1..Len(code[i].args), l \in 1..Len(code[j].args) :
            (i # j \/ k # l) /\ code[i].args[k].t = "Ltl" /\ code[j].args[l].t = "Ltl" =>
                Apart(code[i].args[k], code[j].args[l])

LoadInv ==
    LoadType /\ EntryType /\ FrameType /\ ErrorNamesLine /\ EntryNames /\ EntryPlaces /\ SettledInv

(***************************************************************************)
(* Operands and lines.                                                     *)
(***************************************************************************)
LEMMA Bounds ==
    /\ Registers \in Nat /\ LongMax \in Nat
    /\ MaxMem \in Nat /\ Registers + 2 <= MaxMem /\ MaxMem <= LongMax
    /\ MaxLines \in Nat /\ Registers + 2 <= MaxLines /\ MaxLines <= LongMax
BY LoaderAssumption, InstructionsAssumption, ValuesAssumption

LEMMA ToksGrow ==
    ASSUME NEW m \in Nat, NEW n \in Nat, m <= n
    PROVE  Toks(m) \subseteq Toks(n)
<1>1. 0..m - 1 \subseteq 0..n - 1
    OBVIOUS
<1>2. QED
    BY <1>1 DEF Toks

LEMMA ReadToksIn == ASSUME NEW n \in Nat, n > 0 PROVE ReadToks \subseteq Toks(n)
<1>1. {0} \subseteq 0..n - 1 /\ {0} \subseteq Nat /\ {0} \subseteq -LongMax..0
    BY Bounds
<1>2. QED
    BY <1>1 DEF Toks, ReadToks

\* More operands are allowed, and a var line may have more entries to name.
LEMMA StoredGrow ==
    ASSUME NEW m \in Nat, NEW n \in Nat, m <= n
    PROVE  StoredLines(m) \subseteq StoredLines(n)
<1> SUFFICES ASSUME NEW line \in StoredLines(m) PROVE line \in StoredLines(n)
    OBVIOUS
<1>1. Seq(Toks(m)) \subseteq Seq(Toks(n))
    BY ToksGrow, SeqMonotonic
<1>2. 0..m - 1 \subseteq 0..n - 1
    OBVIOUS
<1>3. QED
    BY <1>1, <1>2 DEF StoredLines

LEMMA StoredFacts ==
    ASSUME NEW n \in Nat, NEW line \in StoredLines(n)
    PROVE  /\ Known(line)
           /\ line.op \in Ops
           /\ line.args \in Seq(Toks(n))
           /\ DOMAIN line.args = 1..Len(line.args) /\ Len(line.args) \in Nat
           /\ \A k \in DOMAIN line.args : line.args[k] \in Toks(n)
           /\ line.op = "var" => line.args[1].idx \in 0..n - 1
<1>1. /\ Known(line) /\ line.op \in Ops /\ line.args \in Seq(Toks(n))
      /\ line.op = "var" => line.args[1].idx \in 0..n - 1
    BY DEF StoredLines
<1>2. QED
    BY <1>1, LenProperties, ElementOfSeq

\* A record with an operation and operands is a line, if it is known.
LEMMA NewLine ==
    ASSUME NEW n \in Nat, NEW op \in Ops, NEW args \in Seq(Toks(n)),
           Known([op |-> op, args |-> args]), op = "var" => args[1].idx \in 0..n - 1
    PROVE  [op |-> op, args |-> args] \in StoredLines(n)
<1> DEFINE line == [op |-> op, args |-> args]
<1>1. line.op = op /\ line.args = args /\ line \in [op : Ops, args : Seq(Toks(n))]
    OBVIOUS
<1> HIDE DEF line
<1>2. line \in StoredLines(n)
    BY <1>1 DEF StoredLines, line
<1>3. QED
    BY <1>2 DEF line

\* Lines of operations with operands in common.
LEMMA KnownOp ==
    ASSUME NEW a, NEW b, a.op = b.op, Known(a),
           DOMAIN b.args = DOMAIN a.args, Len(b.args) = Len(a.args),
           \A k \in DOMAIN a.args : b.args[k].t = a.args[k].t
    PROVE  Known(b)
BY DEF Known

LEMMA SignatureOf ==
    /\ Signature("halt") = <<>>
    /\ Signature("lbl") = <<SYM>> /\ Signature("src") = <<SYM>>
    /\ Signature("var") = <<SYM, PTR>>
    /\ Signature("jmp") = <<VALUE>>
    /\ Signature("jc") = <<VALUE, VALUE>>
    /\ Signature("call") = <<PTR, VALUE>>
BY DEF Signature, InPlaceOps, CastOps, MathOps, MathfOps

LEMMA SignatureFacts ==
    ASSUME NEW op \in Ops
    PROVE  Len(Signature(op)) \in 0..3 /\ DOMAIN Signature(op) = 1..Len(Signature(op))
<1> DEFINE S == {<<>>, <<PTR, VALUE>>, <<PTR, PTR, VALUE>>, <<SYM, PTR>>, <<PTR>>, <<VALUE>>, <<VALUE, VALUE>>, <<SYM>>}
<1>1. Signature(op) \in S
    <2>1. CASE op \in {"halt", "nop", "size", "mov", "push", "call", "cpy", "var"}
        BY <2>1 DEF Signature, InPlaceOps, CastOps, MathOps, MathfOps
    <2>2. CASE op \in {"loc", "pop", "ret"} \cup InPlaceOps \cup CastOps
        BY <2>2 DEF Signature, InPlaceOps, CastOps
    <2>3. CASE op \in {"allc", "not", "jmp", "sys"}
        BY <2>3 DEF Signature, InPlaceOps, CastOps
    <2>4. CASE op \in {"jc", "print_num"} \cup MathOps \cup MathfOps
        BY <2>4 DEF Signature, InPlaceOps, CastOps, MathOps, MathfOps
    <2>5. CASE op \in {"lbl", "src"}
        BY <2>5, SignatureOf
    <2>6. QED
        BY <2>1, <2>2, <2>3, <2>4, <2>5 DEF Ops, SkipOps
<1>2. \A s \in S : Len(s) \in 0..3 /\ DOMAIN s = 1..Len(s)
    OBVIOUS
<1>3. QED
    BY <1>1, <1>2

LEMMA HaltStored == ASSUME NEW n \in Nat PROVE HaltLine \in StoredLines(n)
<1>1. Known(HaltLine)
    BY SignatureOf, EmptySeq DEF Known, HaltLine, Ops
<1>2. <<>> \in Seq(Toks(n))
    BY EmptySeq
<1>3. "halt" # "var" /\ "halt" \in Ops
    BY DEF Ops
<1>4. QED
    BY <1>1, <1>2, <1>3, NewLine DEF HaltLine

\* A line of the text: what it is, and that it can be stored.
LEMMA ReadLineFacts ==
    ASSUME NEW line \in ReadLines, line.kind = "line"
    PROVE  line \in [kind : {"line"}, op : STRING, args : Seq(ReadToks)]
BY DEF ReadLines

LEMMA SymFacts ==
    /\ \A n \in Nat : \A tok \in Toks(n) : tok.t \in SYM => tok \in [t : {"Sym"}, name : Keys, idx : Nat]
    /\ \A tok \in ReadToks : tok.t \in SYM => tok \in [t : {"Sym"}, name : Keys, idx : {0}]
    /\ \A n \in Nat : \A tok \in [t : {"Sym"}, name : Keys, idx : Nat] : tok \in Toks(n)
BY DEF Toks, ReadToks, SYM

(***************************************************************************)
(* The look-up tables.                                                     *)
(***************************************************************************)
\* A table has a slot for every name.
LEMMA SlotIn ==
    ASSUME NEW h \in Map, Sane(h), NEW k \in Keys, NEW v \in Nat
    PROVE  /\ SlotOf(Hash, h, KeyPair(k, v)) = (Hash[k] % h.cap) + 1
           /\ SlotOf(Hash, h, KeyPair(k, v)) \in DOMAIN h.slots
<1>1. h.cap \in Nat /\ h.cap > 0 /\ Len(h.slots) = h.cap /\ DOMAIN h.slots = 1..h.cap
    BY MapFacts DEF Sane
<1>2. Hash[k] \in Nat
    BY LoaderAssumption
<1>3. Hash[k] % h.cap \in 0..h.cap - 1
    BY <1>1, <1>2
<1>4. SlotOf(Hash, h, KeyPair(k, v)) = (Hash[k] % h.cap) + 1
    BY KeyPairType DEF SlotOf
<1>5. QED
    BY <1>1, <1>3, <1>4

LEMMA LookupBelow ==
    ASSUME NEW n \in Nat, NEW h, TableBelow(h, n), NEW k \in Keys, Lookup(Hash, h, k).found
    PROVE  Lookup(Hash, h, k).val \in 0..n - 1
<1> DEFINE p == h.slots[SlotOf(Hash, h, KeyPair(k, 0))]
<1>1. h \in Map /\ Sane(h)
    BY DEF TableBelow
<1>2. SlotOf(Hash, h, KeyPair(k, 0)) \in DOMAIN h.slots
    BY <1>1, SlotIn
<1>3. p \in Pair
    BY <1>1, <1>2, MapFacts
<1>4. Lookup(Hash, h, k) = IF p.size = KeySize[k] THEN [found |-> TRUE, val |-> p.val] ELSE None
    BY DEF Lookup
<1>5. KeySize[k] \in Nat /\ KeySize[k] # 0
    BY HashmapAssumption
<1> HIDE DEF p
<1>6. p.size = KeySize[k] /\ Lookup(Hash, h, k).val = p.val
    BY <1>4 DEF None
<1>7. p \in Content(h)
    BY <1>2, <1>5, <1>6 DEF Content, Filled, p
<1>8. p.val \in Nat /\ p.val < n
    BY <1>3, <1>7 DEF TableBelow, Pair
<1>9. QED
    BY <1>6, <1>8

LEMMA InsertBelow ==
    ASSUME NEW n \in Nat, NEW h, TableBelow(h, n), NEW k \in Keys
    PROVE  /\ TableBelow(Insert(Hash, h, k, n), n + 1)
           /\ Content(Insert(Hash, h, k, n)) \subseteq Content(h) \cup {KeyPair(k, n)}
<1> DEFINE p == KeyPair(k, n)
           r == Put(Hash)[MaxRehash][<<h, p>>]
<1>1. Insert(Hash, h, k, n) = r
    BY DEF Insert
<1>2. h \in Map /\ Sane(h) /\ \A q \in Content(h) : q.val < n /\ q.key \in Keys /\ q.size = KeySize[q.key]
    BY DEF TableBelow
<1>3. p \in Pair /\ p.val = n /\ p.key = k /\ p.size = KeySize[k]
    BY KeyPairType
<1>4. MaxRehash \in 0..MaxRehash
    BY HashmapAssumption
<1>5. New(h, p)
    BY <1>2, <1>3 DEF New
<1> HIDE DEF p
<1>6. Put(Hash)[MaxRehash] \in Inserters
    BY <1>4, PutFacts
<1>7. r \in Map /\ Sane(r) /\ Content(r) \subseteq Content(h) \cup {p}
    BY <1>2, <1>3, <1>5, <1>6 DEF Inserters
<1> HIDE DEF r
<1>8. \A q \in Content(h) : q \in Pair
    BY <1>2, MapFacts DEF Content, Filled
<1>9. \A q \in Content(r) : q.val < n + 1 /\ q.key \in Keys /\ q.size = KeySize[q.key]
    <2> SUFFICES ASSUME NEW q \in Content(r)
                 PROVE  q.val < n + 1 /\ q.key \in Keys /\ q.size = KeySize[q.key]
        OBVIOUS
    <2>1. CASE q \in Content(h)
        <3>1. q.val \in Nat /\ q.val < n
            BY <1>2, <1>8, <2>1 DEF Pair
        <3>2. q.val < n + 1
            BY <3>1
        <3>3. QED
            BY <1>2, <2>1, <3>2
    <2>2. CASE q = p
        BY <1>3, <2>2
    <2>3. QED
        BY <1>7, <2>1, <2>2
<1>10. QED
    BY <1>1, <1>7, <1>9 DEF TableBelow, p

\* In a table where every entry is in its own slot, a name without an entry
\* is not found, and one that is found has an entry of its own, unless it
\* shares its slot with another.
LEMMA OwnEntry ==
    ASSUME NEW n \in Nat, NEW h, TableBelow(h, n), InPlace(h), NEW k \in Keys
    PROVE  /\ ~Lookup(Hash, h, k).found => \A q \in Content(h) : q.key # k
           /\ \A N : k \in N /\ {q.key : q \in Content(h)} \subseteq N /\ Spread(Hash, N) /\ Lookup(Hash, h, k).found =>
                \E q \in Content(h) : q.key = k /\ q.val = Lookup(Hash, h, k).val
<1> DEFINE i == (Hash[k] % DefaultCap) + 1
           p == h.slots[i]
<1>1. h \in Map /\ Sane(h) /\ h.cap = DefaultCap
    BY DEF TableBelow, InPlace
<1>2. SlotOf(Hash, h, KeyPair(k, 0)) = i /\ i \in DOMAIN h.slots
    BY <1>1, SlotIn
<1>3. Lookup(Hash, h, k) = IF p.size = KeySize[k] THEN [found |-> TRUE, val |-> p.val] ELSE None
    BY <1>2 DEF Lookup
<1> HIDE DEF p
<1>4. KeySize[k] # 0 /\ (Lookup(Hash, h, k).found <=> p.size = KeySize[k])
      /\ (Lookup(Hash, h, k).found => Lookup(Hash, h, k).val = p.val)
    BY <1>3, HashmapAssumption DEF None
<1>5. ASSUME NEW q \in Content(h), q.key = k PROVE Lookup(Hash, h, k).found
    <2>1. PICK j \in Filled(h) : q = h.slots[j]
        BY DEF Content
    <2>2. j = i
        BY <1>5, <2>1 DEF InPlace
    <2>3. p.size = KeySize[k]
        BY <1>5, <2>1, <2>2 DEF TableBelow, p
    <2>4. QED
        BY <1>4, <2>3
<1>6. ASSUME NEW N, k \in N, {q.key : q \in Content(h)} \subseteq N, Spread(Hash, N), Lookup(Hash, h, k).found
      PROVE  \E q \in Content(h) : q.key = k /\ q.val = Lookup(Hash, h, k).val
    <2>1. i \in Filled(h)
        BY <1>2, <1>4, <1>6 DEF Filled, p
    <2>2. p \in Content(h) /\ i = (Hash[p.key] % DefaultCap) + 1
        BY <2>1 DEF Content, InPlace, p
    <2>3. p.key \in Keys /\ p.key \in N
        BY <1>6, <2>2 DEF TableBelow
    <2>4. Hash[p.key] % DefaultCap \in Int /\ Hash[k] % DefaultCap \in Int
        BY <2>3, HashmapAssumption, LoaderAssumption
    <2>5. Hash[p.key] % DefaultCap = Hash[k] % DefaultCap
        BY <2>2, <2>4
    <2>6. p.key = k
        BY <1>6, <2>3, <2>5 DEF Spread
    <2>7. QED
        BY <1>4, <1>6, <2>2, <2>6
<1>7. QED
    BY <1>5, <1>6

LEMMA InsertInPlace ==
    ASSUME NEW n \in Nat, NEW h, TableBelow(h, n), InPlace(h), NEW k \in Keys, \A q \in Content(h) : q.key # k,
           NEW N, k \in N, \A q \in Content(h) : q.key \in N, Spread(Hash, N)
    PROVE  InPlace(Insert(Hash, h, k, n))
<1> DEFINE i == (Hash[k] % DefaultCap) + 1
           p == KeyPair(k, n)
           slots == [h.slots EXCEPT ![i] = p]
           r == [h EXCEPT !.slots[i] = p]
<1>1. h \in Map /\ Sane(h) /\ h.cap = DefaultCap
    BY DEF TableBelow, InPlace
<1>2. SlotOf(Hash, h, p) = i /\ i \in DOMAIN h.slots
    BY <1>1, SlotIn
<1>3. p \in Pair /\ p.key = k
    BY KeyPairType
<1>4. h.slots[i].size = 0
    <2> SUFFICES ASSUME h.slots[i].size # 0 PROVE FALSE
        OBVIOUS
    <2> DEFINE q == h.slots[i]
    <2>1. i \in Filled(h)
        BY <1>2 DEF Filled
    <2>2. q \in Content(h) /\ i = (Hash[q.key] % DefaultCap) + 1
        BY <2>1 DEF Content, InPlace
    <2> HIDE DEF q
    <2>3. q.key \in Keys /\ q.key \in N /\ q.key # k
        BY <2>2 DEF TableBelow
    <2>4. Hash[q.key] % DefaultCap \in Int /\ Hash[k] % DefaultCap \in Int
        BY <2>3, HashmapAssumption, LoaderAssumption
    <2>5. Hash[q.key] % DefaultCap = Hash[k] % DefaultCap
        BY <2>2, <2>4
    <2>6. QED
        BY <2>3, <2>5 DEF Spread
<1>5. Insert(Hash, h, k, n) = r
    <2>1. MaxRehash \in 0..MaxRehash
        BY HashmapAssumption
    <2> HIDE DEF p, i
    <2>2. Put(Hash)[MaxRehash][<<h, p>>] = r
        BY <1>1, <1>2, <1>3, <1>4, <2>1, PutFacts
    <2>3. QED
        BY <2>2 DEF Insert, p
<1> HIDE DEF p
<1>6. r.cap = h.cap /\ r.slots = slots
    BY <1>1 DEF Map
<1>7. DOMAIN slots = DOMAIN h.slots /\ slots[i] = p /\ \A j \in DOMAIN h.slots : j # i => slots[j] = h.slots[j]
    BY <1>2
<1> HIDE DEF r, slots
<1>8. ASSUME NEW j \in Filled(r) PROVE j = (Hash[r.slots[j].key] % DefaultCap) + 1
    <2>1. j \in DOMAIN h.slots
        BY <1>6, <1>7 DEF Filled
    <2>2. CASE j = i
        BY <1>3, <1>6, <1>7, <2>2
    <2>3. CASE j # i
        <3>1. j \in Filled(h) /\ r.slots[j] = h.slots[j]
            BY <1>6, <1>7, <2>1, <2>3 DEF Filled
        <3>2. QED
            BY <3>1 DEF InPlace
    <2>4. QED
        BY <2>2, <2>3
<1>9. QED
    BY <1>1, <1>5, <1>6, <1>8 DEF InPlace

LEMMA EmptyBelow == TableBelow(EmptyMap, 0)
<1>1. EmptyMap \in Map /\ Content(EmptyMap) = {} /\ Sane(EmptyMap)
    BY HashmapAssumption, TableType DEF EmptyMap
<1>2. QED
    BY <1>1 DEF TableBelow

\* Tables that hold the names of registers, and how each is made.
LEMMA RegisterTableSteps ==
    \E table : /\ RegisterTable = table[Registers + 2]
               /\ table[0] = EmptyMap
               /\ \A i \in 1..Registers + 2 : table[i] = Insert(Hash, table[i - 1], RegisterNames[i], i - 1)
<1> DEFINE m == Registers + 2
           Is(f) == f = [i \in 0..m |-> IF i = 0 THEN EmptyMap ELSE Insert(Hash, f[i - 1], RegisterNames[i], i - 1)]
           F == [x \in (1..m) \X Map |-> Insert(Hash, x[2], RegisterNames[x[1]], x[1] - 1)]
           table == CHOOSE f : Is(f)
<1>1. m \in Nat
    BY Bounds
<1>2. EmptyMap \in Map
    BY HashmapAssumption, TableType DEF EmptyMap
<1>3. ASSUME NEW h \in Map, NEW i \in 1..m PROVE Insert(Hash, h, RegisterNames[i], i - 1) \in Map
    <2>1. i - 1 \in Nat /\ RegisterNames[i] \in Keys
        BY <1>1, LoaderAssumption
    <2>2. KeyPair(RegisterNames[i], i - 1) \in Pair
        BY <2>1, KeyPairType
    <2>3. MaxRehash \in 0..MaxRehash
        BY HashmapAssumption
    <2>4. Put(Hash)[MaxRehash] \in Inserters
        BY <2>3, PutFacts
    <2>5. Put(Hash)[MaxRehash] \in [Map \X Pair -> Map]
        BY <2>4 DEF Inserters
    <2>6. QED
        BY <2>2, <2>5 DEF Insert
<1> HIDE DEF m
<1>4. F \in [(1..m) \X Map -> Map]
    BY <1>3
<1>5. PICK f : Iterates(f, m, Map, EmptyMap, F)
    <2> HIDE DEF F
    <2>1. QED
        BY <1>1, <1>2, <1>4, Iteration
<1>6. f \in [0..m -> Map] /\ f[0] = EmptyMap
    BY <1>5 DEF Iterates
<1>7. ASSUME NEW i \in 1..m PROVE f[i] = Insert(Hash, f[i - 1], RegisterNames[i], i - 1)
    <2>1. f[i - 1] \in Map
        BY <1>1, <1>6
    <2>2. <<i, f[i - 1]>> \in (1..m) \X Map
        BY <2>1
    <2>3. F[<<i, f[i - 1]>>] = Insert(Hash, f[i - 1], RegisterNames[i], i - 1)
        BY <2>2
    <2> HIDE DEF F
    <2>4. QED
        BY <1>5, <2>3 DEF Iterates
<1>8. Is(f)
    BY <1>6, <1>7
<1>9. Is(table)
    <2> HIDE DEF Is
    <2>1. QED
        BY <1>8
<1>10. table[0] = EmptyMap /\ \A i \in 1..m : table[i] = Insert(Hash, table[i - 1], RegisterNames[i], i - 1)
    <2>1. 0 \in 0..m /\ \A i \in 1..m : i \in 0..m /\ i # 0
        BY <1>1
    <2> HIDE DEF table
    <2>2. QED
        BY <1>9, <2>1
<1>11. RegisterTable = table[m]
    BY DEF RegisterTable, m
<1> HIDE DEF table
<1>12. QED
    BY <1>10, <1>11 DEF m

LEMMA RegisterNameFacts ==
    /\ \A i \in 1..Registers + 2 : i \in 1..12
    /\ \A i, j \in 1..12 : i # j => RegisterNames[i] # RegisterNames[j]
<1>1. Registers + 2 <= 12
    BY Bounds, LoaderAssumption
<1>2. \A i \in 1..Registers + 2 : i \in 1..12
    BY <1>1, Bounds
<1>3. \A i, j \in 1..12 : i # j => RegisterNames[i] # RegisterNames[j]
    BY DEF RegisterNames
<1>4. QED
    BY <1>2, <1>3

\* The table a program starts with.
LEMMA RegisterTableFacts ==
    /\ TableBelow(RegisterTable, Registers + 2)
    /\ \A q \in Content(RegisterTable) : RegisterNames[q.val + 1] = q.key
    /\ Spread(Hash, Registered) => InPlace(RegisterTable)
<1> DEFINE m == Registers + 2
           Good(h, i) ==
               /\ TableBelow(h, i)
               /\ \A q \in Content(h) : RegisterNames[q.val + 1] = q.key
               /\ Spread(Hash, Registered) => InPlace(h)
<1>1. PICK table : /\ RegisterTable = table[m]
                   /\ table[0] = EmptyMap
                   /\ \A i \in 1..m : table[i] = Insert(Hash, table[i - 1], RegisterNames[i], i - 1)
    BY RegisterTableSteps
<1>2. m \in Nat
    BY Bounds
<1> DEFINE T == {i \in 0..m : Good(table[i], i)}
<1>3. 0 \in T
    <2>1. Content(EmptyMap) = {} /\ EmptyMap.cap = DefaultCap
        BY HashmapAssumption, TableType DEF EmptyMap, Table
    <2>2. InPlace(EmptyMap)
        BY <2>1 DEF InPlace, Content
    <2>3. QED
        BY <1>1, <1>2, <2>1, <2>2, EmptyBelow
<1>4. \A i \in 0..m - 1 : i \in T => i + 1 \in T
    <2> SUFFICES ASSUME NEW i \in 0..m - 1, Good(table[i], i) PROVE i + 1 \in T
        OBVIOUS
    <2> DEFINE h == table[i]
               k == RegisterNames[i + 1]
               r == Insert(Hash, h, k, i)
    <2>1. i \in Nat /\ i + 1 \in 1..m /\ i + 1 - 1 = i /\ i + 1 \in 0..m
        BY <1>2
    <2>2. k \in Keys /\ k \in Registered
        BY <2>1, LoaderAssumption DEF Registered
    <2>3. table[i + 1] = r
        BY <1>1, <2>1
    <2>4. TableBelow(r, i + 1) /\ Content(r) \subseteq Content(h) \cup {KeyPair(k, i)}
        BY <2>1, <2>2, InsertBelow
    <2>5. KeyPair(k, i).key = k /\ KeyPair(k, i).val = i
        BY DEF KeyPair
    <2>6. \A q \in Content(r) : RegisterNames[q.val + 1] = q.key
        BY <2>4, <2>5
    <2>7. ASSUME NEW q \in Content(h) PROVE q.key # k /\ q.key \in Registered
        <3>1. q \in Pair /\ q.val < i /\ RegisterNames[q.val + 1] = q.key
            BY MapFacts DEF TableBelow, Content, Filled
        <3>2. q.val \in Nat
            BY <3>1 DEF Pair
        <3>3. q.val + 1 \in 1..m /\ q.val + 1 # i + 1
            BY <1>2, <2>1, <3>1, <3>2
        <3>4. q.val + 1 \in 1..12 /\ i + 1 \in 1..12
            BY <2>1, <3>3, RegisterNameFacts
        <3>5. QED
            BY <3>1, <3>3, <3>4, RegisterNameFacts DEF Registered
    <2>8. Spread(Hash, Registered) => InPlace(r)
        <3> SUFFICES ASSUME Spread(Hash, Registered) PROVE InPlace(r)
            OBVIOUS
        <3> HIDE DEF k
        <3>1. QED
            BY <2>1, <2>2, <2>7, InsertInPlace
    <2> HIDE DEF r
    <2>9. QED
        BY <2>1, <2>3, <2>4, <2>6, <2>8
<1> HIDE DEF T
<1>5. 0..m \subseteq T
    BY <1>2, <1>3, <1>4, InductTo
<1>6. m \in T
    BY <1>2, <1>5
<1>7. QED
    BY <1>1, <1>6 DEF T

(***************************************************************************)
(* Resolving one line.                                                     *)
(***************************************************************************)
ResolveErrors == {"ok", "UndefinedVar", "UndefinedLabel", "undefined"}

\* An operand but for its entry.
Reindexed(a, b) ==
    /\ a.t = b.t
    /\ IsVar(a) <=> IsVar(b)
    /\ b.t = "Sym" => a.name = b.name
    /\ b.t = "Ltl" => a.text = b.text

\* What resolving keeps of memory and of the line.
Kept(a, line) ==
    /\ a \in [err : ResolveErrors, mem : Seq(LtlCells), args : Seq(Toks(Len(var)))]
    /\ Len(mem) <= Len(a.mem) /\ Len(a.mem) <= MaxMem
    /\ \A i \in 1..Len(mem) : a.mem[i] = mem[i]
    /\ Len(a.args) = Len(line.args)
    /\ \A k \in 1..Len(line.args) : Reindexed(a.args[k], line.args[k])
    /\ TargetAt(line.op) = 0 => \A k \in 1..Len(line.args) : line.args[k].t = "Sym" => a.args[k] = line.args[k]

\* What it has done once it has come to operand j.
Done(a, line, j) ==
    /\ TargetAt(line.op) # 0 => Looks(labelLookUp, a.args[TargetAt(line.op)])
    /\ \A k \in 1..Len(line.args) : k <= j =>
            /\ Settled(a.mem, a.args[k])
            /\ a.args[k].t = "Ltl" => -a.args[k].idx >= Len(mem)
    /\ \A k, l \in 1..Len(line.args) :
            k <= j /\ l <= j /\ k # l /\ a.args[k].t = "Ltl" /\ a.args[l].t = "Ltl" => Apart(a.args[k], a.args[l])

Acc(a, line, j) == Kept(a, line) /\ (a.err = "ok" => Done(a, line, j))

\* The operand with another entry.
LEMMA ReindexVar ==
    ASSUME NEW n \in Nat, NEW tok \in Toks(n), IsVar(tok), NEW i \in 0..n - 1
    PROVE  LET r == [tok EXCEPT !.idx = i] IN
           /\ tok.name \in Keys /\ tok.t # "Ltl" /\ tok.t # "Sym"
           /\ r \in Toks(n) /\ r.idx = i /\ r.name = tok.name /\ Reindexed(r, tok)
<1> DEFINE r == [tok EXCEPT !.idx = i]
<1>1. CASE tok \in [t : {"Var"}, name : Keys, idx : 0..n - 1]
    <2>1. r \in [t : {"Var"}, name : Keys, idx : 0..n - 1] /\ r.idx = i /\ r.name = tok.name
        BY <1>1
    <2>2. QED
        BY <1>1, <2>1 DEF Toks, Reindexed, IsVar
<1>2. CASE tok \in [t : {"Idx"}, depth : 0..MaxNest, base : {"Var"}, name : Keys, idx : 0..n - 1]
    <2>1. /\ r \in [t : {"Idx"}, depth : 0..MaxNest, base : {"Var"}, name : Keys, idx : 0..n - 1]
          /\ r.idx = i /\ r.name = tok.name
        BY <1>2
    <2>2. QED
        BY <1>2, <2>1 DEF Toks, Reindexed, IsVar
<1>3. QED
    BY <1>1, <1>2 DEF Toks, IsVar

LEMMA ReindexSym ==
    ASSUME NEW n \in Nat, NEW tok \in Toks(n), tok.t = "Sym", NEW i \in Nat
    PROVE  LET r == [tok EXCEPT !.idx = i] IN
           /\ tok.name \in Keys
           /\ r \in Toks(n) /\ r.idx = i /\ r.name = tok.name /\ Reindexed(r, tok) /\ r.t = "Sym"
<1> DEFINE r == [tok EXCEPT !.idx = i]
<1>1. tok \in [t : {"Sym"}, name : Keys, idx : Nat]
    BY DEF Toks
<1>2. r \in [t : {"Sym"}, name : Keys, idx : Nat] /\ r.idx = i /\ r.name = tok.name
    BY <1>1
<1>3. QED
    BY <1>1, <1>2 DEF Toks, Reindexed, IsVar

LEMMA ReindexLtl ==
    ASSUME NEW n \in Nat, NEW tok \in Toks(n), tok.t = "Ltl", NEW i \in -LongMax..0
    PROVE  LET r == [tok EXCEPT !.idx = i] IN
           /\ tok.text \in Seq(LtlCells)
           /\ r \in Toks(n) /\ r.idx = i /\ r.text = tok.text /\ Reindexed(r, tok) /\ r.t = "Ltl" /\ ~IsVar(r)
<1> DEFINE r == [tok EXCEPT !.idx = i]
<1>1. tok \in [t : {"Ltl"}, text : Seq(LtlCells), idx : -LongMax..0]
    BY DEF Toks
<1>2. r \in [t : {"Ltl"}, text : Seq(LtlCells), idx : -LongMax..0] /\ r.idx = i /\ r.text = tok.text
    BY <1>1
<1>3. QED
    BY <1>1, <1>2 DEF Toks, Reindexed, IsVar

\* A record of the three fields with one or two of them replaced.
LEMMA AccFields ==
    ASSUME NEW E, NEW M, NEW A, NEW a \in [err : E, mem : M, args : A]
    PROVE  /\ \A e : [a EXCEPT !.err = e].err = e /\ [a EXCEPT !.err = e].mem = a.mem
                     /\ [a EXCEPT !.err = e].args = a.args
           /\ \A e \in E : [a EXCEPT !.err = e] \in [err : E, mem : M, args : A]
           /\ \A m : [a EXCEPT !.mem = m].err = a.err /\ [a EXCEPT !.mem = m].mem = m
                     /\ [a EXCEPT !.mem = m].args = a.args
OBVIOUS

LEMMA UpdatedFields ==
    ASSUME NEW a, NEW j, NEW tok
    PROVE  /\ Updated(a, j, tok) = [err |-> a.err, mem |-> a.mem, args |-> [a.args EXCEPT ![j] = tok]]
           /\ Updated(a, j, tok).err = a.err
           /\ Updated(a, j, tok).mem = a.mem
           /\ Updated(a, j, tok).args = [a.args EXCEPT ![j] = tok]
BY DEF Updated

\* Cells that are appended leave what is placed where it is.
LEMMA PlacedGrows ==
    ASSUME NEW m \in Seq(LtlCells), NEW r \in Seq(LtlCells), Len(m) <= Len(r),
           \A i \in 1..Len(m) : r[i] = m[i],
           NEW tok, tok.text \in Seq(LtlCells), tok.idx \in Int, Placed(m, tok)
    PROVE  Placed(r, tok)
<1>1. Len(m) \in Nat /\ Len(r) \in Nat /\ Len(tok.text) \in Nat
    BY LenProperties
<1>2. -tok.idx >= 0
    BY Bounds DEF Placed
<1>3. \A i \in 1..Len(tok.text) : i - tok.idx \in 1..Len(m)
    BY <1>1, <1>2 DEF Placed
<1>4. Len(tok.text) + 1 - tok.idx \in 1..Len(m) /\ Len(tok.text) + 1 - tok.idx <= Len(r)
    BY <1>1, <1>2 DEF Placed
<1>5. QED
    BY <1>3, <1>4 DEF Placed

LEMMA TargetFacts ==
    ASSUME NEW n \in Nat, NEW line \in StoredLines(n)
    PROVE  /\ TargetAt(line.op) \in 0..2
           /\ TargetAt(line.op) # 0 => TargetAt(line.op) \in 1..Len(line.args)
           /\ line.op \in {"var", "lbl", "src"} => TargetAt(line.op) = 0
<1>1. Known(line)
    BY StoredFacts
<1>2. TargetAt(line.op) # 0 => line.op \in {"jmp", "jc", "call"}
    BY DEF TargetAt
<1>3. line.op = "jmp" => Len(line.args) = 1 /\ TargetAt(line.op) = 1
    BY <1>1, SignatureOf DEF Known, TargetAt
<1>4. line.op \in {"jc", "call"} => Len(line.args) = 2 /\ TargetAt(line.op) = 2
    BY <1>1, SignatureOf DEF Known, TargetAt
<1>5. line.op \in {"var", "lbl", "src"} => TargetAt(line.op) = 0
    BY DEF TargetAt
<1> DEFINE T == TargetAt(line.op)
<1>6. T = 0 \/ (T = 1 /\ Len(line.args) = 1) \/ (T = 2 /\ Len(line.args) = 2)
    BY <1>2, <1>3, <1>4
<1> HIDE DEF T
<1>7. T \in 0..2 /\ (T # 0 => T \in 1..Len(line.args))
    BY <1>6
<1>8. QED
    BY <1>5, <1>7 DEF T

LEMMA LtlFacts ==
    ASSUME NEW n \in Nat, NEW tok \in Toks(n), tok.t = "Ltl"
    PROVE  tok.text \in Seq(LtlCells) /\ tok.idx \in Int /\ Len(tok.text) \in Nat
<1>1. tok \in [t : {"Ltl"}, text : Seq(LtlCells), idx : -LongMax..0]
    BY DEF Toks
<1>2. QED
    BY <1>1, LenProperties, Bounds

\* One operand gets its entry, and memory some more cells behind the old.
LEMMA OperandDone ==
    ASSUME LoadInv, NEW line \in StoredLines(Len(var)), ~Skipped(line),
           NEW j \in 1..Len(line.args), NEW a, Kept(a, line), a.err = "ok", Done(a, line, j - 1),
           NEW tok \in Toks(Len(var)), Reindexed(tok, a.args[j]), tok.t # "Sym",
           NEW m \in Seq(LtlCells), Len(a.mem) <= Len(m), Len(m) <= MaxMem,
           \A i \in 1..Len(a.mem) : m[i] = a.mem[i],
           Settled(m, tok), tok.t = "Ltl" => -tok.idx >= Len(a.mem)
    PROVE  Acc([err |-> "ok", mem |-> m, args |-> [a.args EXCEPT ![j] = tok]], line, j)
<1> DEFINE n == Len(var)
           args == [a.args EXCEPT ![j] = tok]
           r == [err |-> "ok", mem |-> m, args |-> args]
           T == TargetAt(line.op)
<1>1. n \in Nat /\ mem \in Seq(LtlCells) /\ Len(mem) \in Nat
    BY LenProperties DEF LoadInv, EntryType, LoadType
<1>2. a.mem \in Seq(LtlCells) /\ Len(a.mem) \in Nat /\ Len(m) \in Nat /\ Len(mem) <= Len(a.mem)
    BY LenProperties DEF Kept
<1>3. a.args \in Seq(Toks(n)) /\ Len(a.args) = Len(line.args) /\ DOMAIN a.args = 1..Len(line.args)
    BY LenProperties DEF Kept
<1>4. Len(line.args) \in Nat /\ line.args \in Seq(Toks(n))
    BY <1>1, StoredFacts
<1>5. /\ args \in Seq(Toks(n)) /\ Len(args) = Len(line.args)
      /\ \A k \in 1..Len(line.args) : args[k] = IF k = j THEN tok ELSE a.args[k]
    BY <1>3, ExceptSeq
<1>6. \A k \in 1..Len(line.args) : a.args[k] \in Toks(n) /\ args[k] \in Toks(n)
    BY <1>3, <1>5, ElementOfSeq
<1>7. r.err = "ok" /\ r.mem = m /\ r.args = args
    OBVIOUS
<1> HIDE DEF args, n
<1>8. Kept(r, line)
    <2>1. r \in [err : ResolveErrors, mem : Seq(LtlCells), args : Seq(Toks(Len(var)))]
        BY <1>5 DEF ResolveErrors, n
    <2>2. ASSUME NEW k \in 1..Len(line.args) PROVE Reindexed(args[k], line.args[k])
        <3>1. Reindexed(a.args[k], line.args[k])
            BY DEF Kept
        <3>2. QED
            BY <1>5, <3>1 DEF Reindexed
    <2>3. ASSUME T = 0, NEW k \in 1..Len(line.args), line.args[k].t = "Sym" PROVE args[k] = line.args[k]
        <3>1. Reindexed(a.args[k], line.args[k]) /\ a.args[k] = line.args[k]
            BY <2>3 DEF Kept
        <3>2. k # j
            BY <2>3, <3>1 DEF Reindexed
        <3>3. QED
            BY <1>5, <3>1, <3>2
    <2>4. \A i \in 1..Len(mem) : m[i] = mem[i]
        <3>1. \A i \in 1..Len(mem) : i \in 1..Len(a.mem) /\ a.mem[i] = mem[i]
            BY <1>1, <1>2 DEF Kept
        <3>2. QED
            BY <3>1
    <2>5. Len(mem) <= Len(m)
        BY <1>1, <1>2
    <2> HIDE DEF r
    <2>6. QED
        BY <1>5, <1>7, <2>1, <2>2, <2>3, <2>4, <2>5 DEF Kept
\* Those before it are still what they were.
<1>9. ASSUME NEW k \in 1..Len(line.args), k < j
      PROVE  /\ args[k] = a.args[k] /\ Settled(m, args[k])
             /\ args[k].t = "Ltl" => /\ Len(args[k].text) + 1 - args[k].idx <= Len(a.mem)
                                     /\ -args[k].idx >= Len(mem)
    <2>1. args[k] = a.args[k] /\ k <= j - 1
        BY <1>4, <1>5, <1>9
    <2>2. Settled(a.mem, a.args[k]) /\ (a.args[k].t = "Ltl" => -a.args[k].idx >= Len(mem))
        BY <2>1 DEF Done
    <2>3. ASSUME a.args[k].t = "Ltl" PROVE Placed(m, a.args[k])
        <3>1. a.args[k].text \in Seq(LtlCells) /\ a.args[k].idx \in Int
            BY <1>1, <1>6, <2>3, LtlFacts
        <3>2. Placed(a.mem, a.args[k])
            BY <2>2, <2>3 DEF Settled
        <3>3. QED
            BY <1>2, <3>1, <3>2, PlacedGrows
    <2>4. QED
        BY <2>1, <2>2, <2>3 DEF Settled, Placed
<1>10. T # 0 => Looks(labelLookUp, args[T])
    <2> SUFFICES ASSUME T # 0 PROVE Looks(labelLookUp, args[T])
        OBVIOUS
    <2>1. T \in 1..Len(line.args) /\ line.args[T].t = "Sym"
        BY <1>1, TargetFacts DEF Skipped, n
    <2>2. Reindexed(a.args[T], line.args[T]) /\ Looks(labelLookUp, a.args[T])
        BY <2>1 DEF Kept, Done
    <2>3. T # j
        BY <2>1, <2>2 DEF Reindexed
    <2> HIDE DEF T
    <2>4. QED
        BY <1>5, <2>1, <2>2, <2>3
<1>11. ASSUME NEW k \in 1..Len(line.args), k <= j
       PROVE  Settled(m, args[k]) /\ (args[k].t = "Ltl" => -args[k].idx >= Len(mem))
    <2>1. CASE k < j
        BY <1>9, <2>1
    <2>2. CASE k = j
        <3>1. args[k] = tok
            BY <1>5, <2>2
        <3>2. tok.t = "Ltl" => tok.idx \in Int
            BY <1>1, LtlFacts DEF n
        <3>3. QED
            BY <1>1, <1>2, <3>1, <3>2
    <2>3. QED
        BY <1>4, <1>11, <2>1, <2>2
<1>12. ASSUME NEW k \in 1..Len(line.args), k < j, args[k].t = "Ltl", tok.t = "Ltl"
       PROVE  Apart(args[k], tok) /\ Apart(tok, args[k])
    <2>1. args[k].idx \in Int /\ Len(args[k].text) \in Nat /\ tok.idx \in Int
        BY <1>1, <1>6, <1>12, LtlFacts DEF n
    <2>2. Len(args[k].text) + 1 - args[k].idx <= Len(a.mem) /\ -tok.idx >= Len(a.mem)
        BY <1>9, <1>12
    <2>3. \A c, i, t, w \in Int : c + 1 - i <= w /\ -t >= w => c - i < -t
        OBVIOUS
    <2>4. Len(args[k].text) - args[k].idx < -tok.idx
        <3>1. Len(args[k].text) \in Int /\ Len(a.mem) \in Int
            BY <1>2, <2>1
        <3>2. QED
            BY <2>1, <2>2, <2>3, <3>1
    <2>5. QED
        BY <2>4 DEF Apart
<1>13. ASSUME NEW k \in 1..Len(line.args), NEW l \in 1..Len(line.args),
              k <= j, l <= j, k # l, args[k].t = "Ltl", args[l].t = "Ltl"
       PROVE  Apart(args[k], args[l])
    <2>1. args[j] = tok
        BY <1>5
    <2>2. CASE k = j
        <3>1. l < j
            BY <1>4, <1>13, <2>2
        <3>2. QED
            BY <1>12, <1>13, <2>1, <2>2, <3>1
    <2>3. CASE l = j
        <3>1. k < j
            BY <1>4, <1>13, <2>3
        <3>2. QED
            BY <1>12, <1>13, <2>1, <2>3, <3>1
    <2>4. CASE k # j /\ l # j
        <3>1. k <= j - 1 /\ l <= j - 1 /\ k < j /\ l < j
            BY <1>4, <1>13, <2>4
        <3>2. args[k] = a.args[k] /\ args[l] = a.args[l]
            BY <1>9, <3>1
        <3>3. QED
            BY <1>13, <3>1, <3>2 DEF Done
    <2>5. QED
        BY <2>2, <2>3, <2>4
<1> HIDE DEF r
<1>14. Done(r, line, j)
    BY <1>7, <1>10, <1>11, <1>13 DEF Done
<1>15. QED
    BY <1>8, <1>14 DEF Acc, r, args

\* An error leaves everything else as it is.
LEMMA Failed ==
    ASSUME NEW line, NEW j, NEW a, Kept(a, line), NEW e \in ResolveErrors \ {"ok"}
    PROVE  Acc([a EXCEPT !.err = e], line, j)
<1> DEFINE r == [a EXCEPT !.err = e]
<1>1. a \in [err : ResolveErrors, mem : Seq(LtlCells), args : Seq(Toks(Len(var)))]
    BY DEF Kept
<1>2. r.err = e /\ r.mem = a.mem /\ r.args = a.args
      /\ r \in [err : ResolveErrors, mem : Seq(LtlCells), args : Seq(Toks(Len(var)))]
    BY <1>1
<1> HIDE DEF r
<1>3. Kept(r, line)
    BY <1>2 DEF Kept
<1>4. QED
    BY <1>2, <1>3 DEF Acc, r

\* A literal's characters and a zero, behind the cells there are.
LEMMA EndedCells ==
    ASSUME NEW m \in Seq(LtlCells), NEW chars \in Seq(LtlCells)
    PROVE  LET r == m \o Ended(chars) IN
           /\ r \in Seq(LtlCells) /\ Len(r) = Len(m) + Len(chars) + 1
           /\ \A x \in 1..Len(m) : r[x] = m[x]
           /\ \A x \in 1..Len(chars) : r[x + Len(m)] = chars[x]
           /\ r[Len(chars) + 1 + Len(m)] = Zero
<1> DEFINE e == Ended(chars)
           r == m \o e
           w == Len(m)
           c == Len(chars)
<1>1. w \in Nat /\ c \in Nat
    BY LenProperties
<1>2. Zero \in LtlCells
    BY Bounds DEF LtlCells, Zero, LongV, Longs, LongMin
<1>3. e \in Seq(LtlCells) /\ Len(e) = c + 1 /\ (\A x \in 1..c : e[x] = chars[x]) /\ e[c + 1] = Zero
    BY <1>2, AppendProperties DEF Ended
<1> HIDE DEF e
<1>4. /\ r \in Seq(LtlCells) /\ Len(r) = w + Len(e)
      /\ \A x \in 1..w + Len(e) : r[x] = IF x <= w THEN m[x] ELSE e[x - w]
    BY <1>3, ConcatProperties
<1> HIDE DEF r, w, c
<1>5. Len(r) = w + c + 1
    BY <1>1, <1>3, <1>4
<1>6. \A x \in 1..w : x \in 1..w + Len(e) /\ x <= w
    BY <1>1, <1>3
<1>7. ASSUME NEW x \in 1..c + 1 PROVE r[x + w] = e[x]
    <2> DEFINE y == x + w
    <2>1. y \in 1..w + Len(e) /\ ~(y <= w) /\ y - w = x
        BY <1>1, <1>3
    <2> HIDE DEF y
    <2>2. r[y] = e[x]
        BY <1>4, <2>1
    <2>3. QED
        BY <2>2 DEF y
<1>8. c + 1 \in 1..c + 1 /\ \A x \in 1..c : x \in 1..c + 1
    BY <1>1
<1>9. r[c + 1 + w] = Zero /\ \A x \in 1..c : r[x + w] = chars[x]
    BY <1>3, <1>7, <1>8
<1>10. \A x \in 1..w : r[x] = m[x]
    BY <1>4, <1>6
<1>11. QED
    BY <1>4, <1>5, <1>9, <1>10 DEF r, e, w, c

\* The j-th operand, once those before it are done.
LEMMA ResolveTokDone ==
    ASSUME LoadInv, NEW line \in StoredLines(Len(var)), ~Skipped(line), NEW j \in 1..3,
           NEW a, Acc(a, line, j - 1)
    PROVE  Acc(ResolveTok(a, j), line, j)
<1> DEFINE n == Len(var)
           tok == a.args[j]
<1>1. n \in Nat /\ Len(mem) \in Nat /\ TableBelow(varLookUp, n)
    BY LenProperties DEF LoadInv, EntryType, LoadType
<1>2. Kept(a, line) /\ (a.err = "ok" => Done(a, line, j - 1))
    BY DEF Acc
<1>3. a.args \in Seq(Toks(n)) /\ DOMAIN a.args = 1..Len(line.args) /\ Len(line.args) \in Nat
    BY <1>2, LenProperties DEF Kept
<1>4. CASE a.err # "ok"
    <2>1. ResolveTok(a, j) = a
        BY <1>4 DEF ResolveTok
    <2>2. QED
        BY <1>2, <1>4, <2>1 DEF Acc
<1>5. CASE a.err = "ok" /\ j \notin DOMAIN a.args
    <2>1. ResolveTok(a, j) = a
        BY <1>5 DEF ResolveTok
    <2>2. \A k \in 1..Len(line.args) : k <= j => k <= j - 1
        BY <1>3, <1>5
    <2>3. Done(a, line, j)
        BY <1>2, <1>5, <2>2 DEF Done
    <2>4. QED
        BY <1>2, <2>1, <2>3 DEF Acc
<1>6. CASE a.err = "ok" /\ j \in DOMAIN a.args
    <2>1. j \in 1..Len(line.args) /\ tok \in Toks(n)
        BY <1>3, <1>6, ElementOfSeq
    <2>2. a.mem \in Seq(LtlCells) /\ Len(a.mem) \in Nat /\ Len(mem) <= Len(a.mem) /\ Len(a.mem) <= MaxMem
        BY <1>2, LenProperties DEF Kept
    <2>3. CASE IsVar(tok)
        <3> DEFINE r == Lookup(Hash, varLookUp, tok.name)
                   done == [tok EXCEPT !.idx = r.val]
        <3>1. ResolveTok(a, j) = IF r.found THEN Updated(a, j, done) ELSE [a EXCEPT !.err = "UndefinedVar"]
            BY <1>6, <2>3 DEF ResolveTok, Named
        <3>2. CASE ~r.found
            <4>1. "UndefinedVar" \in ResolveErrors \ {"ok"}
                BY DEF ResolveErrors
            <4>2. Acc([a EXCEPT !.err = "UndefinedVar"], line, j)
                BY <1>2, <4>1, Failed
            <4>3. QED
                BY <3>1, <3>2, <4>2
        <3>3. CASE r.found
            <4>1. 0 \in Nat /\ tok.name \in Keys
                <5>1. tok \in [t : {"Var"}, name : Keys, idx : 0..n - 1]
                        \cup [t : {"Idx"}, depth : 0..MaxNest, base : {"Var"}, name : Keys, idx : 0..n - 1]
                    BY <2>1, <2>3 DEF Toks, IsVar
                <5>2. QED
                    BY <5>1
            <4>2. r.val \in 0..n - 1
                BY <1>1, <3>3, <4>1, LookupBelow
            <4> DEFINE i == r.val
                       b == [tok EXCEPT !.idx = i]
            <4> HIDE DEF i, tok, n
            <4>3. i \in 0..n - 1
                BY <4>2 DEF i
            <4>4. b \in Toks(n) /\ b.idx = i /\ b.name = tok.name /\ Reindexed(b, tok) /\ tok.t # "Ltl" /\ tok.t # "Sym"
                BY <1>1, <2>1, <2>3, <4>3, ReindexVar
            <4> HIDE DEF b
            <4>5. b.t # "Ltl" /\ b.t # "Sym" /\ Looks(varLookUp, b)
                BY <3>3, <4>4 DEF Reindexed, Looks, i
            <4>6. Settled(a.mem, b)
                BY <4>5 DEF Settled
            <4>7. Acc([err |-> "ok", mem |-> a.mem, args |-> [a.args EXCEPT ![j] = b]], line, j)
                BY <1>2, <1>6, <2>1, <2>2, <4>4, <4>5, <4>6, OperandDone DEF n, tok
            <4>8. ResolveTok(a, j) = Updated(a, j, b)
                BY <3>1, <3>3 DEF b, i
            <4>9. QED
                BY <1>6, <4>7, <4>8 DEF Updated
        <3>4. QED
            BY <3>2, <3>3
    <2>4. CASE ~IsVar(tok) /\ tok.t = "Ltl"
        <3> DEFINE m == a.mem \o Ended(tok.text)
                   i == -Len(a.mem)
                   b == [tok EXCEPT !.idx = i]
        <3> HIDE DEF n, tok, i
        <3>1. ResolveTok(a, j) = IF Len(m) > MaxMem THEN [a EXCEPT !.err = "undefined"]
                                 ELSE Updated([a EXCEPT !.mem = m], j, b)
            BY <1>6, <2>4 DEF ResolveTok, CreateLtl, tok, i
        <3>2. CASE Len(m) > MaxMem
            <4>1. "undefined" \in ResolveErrors \ {"ok"}
                BY DEF ResolveErrors
            <4>2. Acc([a EXCEPT !.err = "undefined"], line, j)
                BY <1>2, <4>1, Failed
            <4>3. QED
                BY <3>1, <3>2, <4>2
        <3>3. CASE ~(Len(m) > MaxMem)
            <4>1. tok.text \in Seq(LtlCells) /\ Len(tok.text) \in Nat
                BY <1>1, <2>1, <2>4, LtlFacts
            <4>2. i \in -LongMax..0
                BY <2>2, Bounds DEF i
            <4>3. b \in Toks(n) /\ b.idx = i /\ b.text = tok.text /\ Reindexed(b, tok) /\ b.t = "Ltl" /\ ~IsVar(b)
                BY <1>1, <2>1, <2>4, <4>2, ReindexLtl
            <4>4. a.mem \in Seq(LtlCells)
                BY <2>2
            <4>5. /\ m \in Seq(LtlCells) /\ Len(m) = Len(a.mem) + Len(tok.text) + 1
                  /\ \A x \in 1..Len(a.mem) : m[x] = a.mem[x]
                  /\ \A x \in 1..Len(tok.text) : m[x + Len(a.mem)] = tok.text[x]
                  /\ m[Len(tok.text) + 1 + Len(a.mem)] = Zero
                BY <4>1, <4>4, EndedCells
            <4> HIDE DEF m, b
            <4> DEFINE w == Len(a.mem)
                       c == Len(tok.text)
            <4>6. Len(m) <= MaxMem /\ Len(a.mem) <= Len(m) /\ c + 1 + w <= Len(m)
                <5>1. w \in Nat /\ c \in Nat /\ MaxMem \in Nat /\ Len(m) = w + c + 1 /\ ~(Len(m) > MaxMem)
                    BY <2>2, <3>3, <4>1, <4>5, Bounds
                <5> HIDE DEF w, c
                <5>2. Len(m) <= MaxMem /\ w <= Len(m) /\ c + 1 + w <= Len(m)
                    BY <5>1
                <5>3. QED
                    BY <5>2 DEF w
            <4>7. Len(mem) >= Registers + 2
                BY DEF LoadInv, LoadType
            <4>8. \A x \in Int : x - i = x + w
                <5>1. w \in Int /\ i = -w
                    BY <2>2 DEF i
                <5> HIDE DEF w
                <5>2. QED
                    BY <5>1
            <4>9. Placed(m, b)
                <5>1. -i >= Registers + 2
                    BY <1>1, <2>2, <4>7, Bounds DEF i
                <5>2. c + 1 \in Int /\ \A x \in 1..c : x \in Int
                    BY <4>1
                <5>3. c + 1 - i <= Len(m) /\ m[c + 1 - i] = Zero
                    <6>1. c \in Nat /\ w \in Nat /\ i = -w
                        BY <2>2, <4>1 DEF i
                    <6> HIDE DEF c, w
                    <6>2. c + 1 - i = c + 1 + w
                        BY <6>1
                    <6>3. m[c + 1 + w] = Zero
                        BY <4>5 DEF c, w
                    <6>4. QED
                        BY <4>6, <6>2, <6>3
                <5>4. \A x \in 1..c : m[x - i] = tok.text[x]
                    BY <4>5, <4>8, <5>2
                <5>5. QED
                    BY <4>3, <5>1, <5>3, <5>4 DEF Placed
            <4>10. -b.idx >= Len(a.mem)
                BY <2>2, <4>3 DEF i
            <4>11. Settled(m, b)
                BY <4>3, <4>9 DEF Settled
            <4>12. Acc([err |-> "ok", mem |-> m, args |-> [a.args EXCEPT ![j] = b]], line, j)
                BY <1>2, <1>6, <2>1, <4>3, <4>5, <4>6, <4>10, <4>11, OperandDone DEF n, tok
            <4>13. [a EXCEPT !.mem = m].err = a.err /\ [a EXCEPT !.mem = m].mem = m /\ [a EXCEPT !.mem = m].args = a.args
                BY <1>2, AccFields DEF Kept
            <4>14. QED
                BY <1>6, <3>1, <3>3, <4>12, <4>13 DEF Updated
        <3>4. QED
            BY <3>2, <3>3
    <2>5. CASE ~IsVar(tok) /\ tok.t # "Ltl"
        <3>1. ResolveTok(a, j) = a
            BY <1>6, <2>5 DEF ResolveTok
        <3>2. \A k \in 1..Len(line.args) : k <= j => k <= j - 1 \/ k = j
            BY <2>1, <1>3
        <3>3. Settled(a.mem, a.args[j])
            BY <2>5 DEF Settled
        <3>4. Done(a, line, j)
            BY <1>2, <1>6, <2>5, <3>2, <3>3 DEF Done
        <3>5. QED
            BY <1>2, <3>1, <3>4 DEF Acc
    <2>6. QED
        BY <2>3, <2>4, <2>5
<1>7. QED
    BY <1>4, <1>5, <1>6

\* The target comes first.
LEMMA UpdateLabelDone ==
    ASSUME LoadInv, NEW line \in StoredLines(Len(var)), ~Skipped(line)
    PROVE  Acc(UpdateLabel(line), line, 0)
<1> DEFINE n == Len(var)
           T == TargetAt(line.op)
           B == Begun(line)
<1>1. n \in Nat /\ mem \in Seq(LtlCells) /\ Len(mem) \in Nat /\ Len(mem) <= MaxMem
      /\ TableBelow(labelLookUp, Len(label)) /\ Len(label) \in Nat
    BY LenProperties DEF LoadInv, EntryType, LoadType
<1>2. line.args \in Seq(Toks(n)) /\ DOMAIN line.args = 1..Len(line.args) /\ Len(line.args) \in Nat
      /\ \A k \in DOMAIN line.args : line.args[k] \in Toks(n)
    BY <1>1, StoredFacts
<1>3. B.err = "ok" /\ B.mem = mem /\ B.args = line.args
      /\ B \in [err : ResolveErrors, mem : Seq(LtlCells), args : Seq(Toks(Len(var)))]
    BY <1>1, <1>2 DEF Begun, ResolveErrors
<1> HIDE DEF B
<1>4. Kept(B, line)
    BY <1>1, <1>3 DEF Kept, Reindexed
<1>5. CASE T = 0
    <2>1. UpdateLabel(line) = B
        BY <1>5 DEF UpdateLabel, B
    <2>2. \A k \in 1..Len(line.args) : ~(k <= 0)
        BY <1>2
    <2>3. Done(B, line, 0)
        BY <1>5, <2>2 DEF Done
    <2>4. QED
        BY <1>4, <2>1, <2>3 DEF Acc
<1>6. CASE T # 0
    <2> DEFINE tok == line.args[T]
               r == Lookup(Hash, labelLookUp, tok.name)
               i == r.val
               b == [tok EXCEPT !.idx = i]
               args == [line.args EXCEPT ![T] = b]
               done == [err |-> "ok", mem |-> mem, args |-> args]
    <2>1. T \in 1..Len(line.args) /\ tok \in Toks(n) /\ tok.t = "Sym"
        BY <1>1, <1>2, <1>6, TargetFacts DEF Skipped, n
    <2> HIDE DEF T, tok, n
    <2>2. UpdateLabel(line) = IF r.found THEN Updated(B, T, b) ELSE [B EXCEPT !.err = "UndefinedLabel"]
        BY <1>3, <1>6 DEF UpdateLabel, Named, B, T, tok
    <2>3. CASE ~r.found
        <3>1. "UndefinedLabel" \in ResolveErrors \ {"ok"}
            BY DEF ResolveErrors
        <3>2. Acc([B EXCEPT !.err = "UndefinedLabel"], line, 0)
            BY <1>4, <3>1, Failed
        <3>3. QED
            BY <2>2, <2>3, <3>2
    <2>4. CASE r.found
        <3>1. tok.name \in Keys
            BY <1>1, <2>1, SymFacts DEF SYM
        <3>2. i \in Nat
            <4>1. i \in 0..Len(label) - 1
                BY <1>1, <2>4, <3>1, LookupBelow
            <4> HIDE DEF i
            <4>2. QED
                BY <1>1, <4>1
        <3> HIDE DEF i
        <3>3. b \in Toks(n) /\ b.idx = i /\ b.name = tok.name /\ Reindexed(b, tok) /\ b.t = "Sym"
            BY <1>1, <2>1, <3>2, ReindexSym
        <3> HIDE DEF b
        <3>4. args \in Seq(Toks(n)) /\ Len(args) = Len(line.args)
              /\ \A k \in 1..Len(line.args) : args[k] = IF k = T THEN b ELSE line.args[k]
            BY <1>2, <2>1, <3>3, ExceptSeq
        <3> HIDE DEF args
        <3>5. done.err = "ok" /\ done.mem = mem /\ done.args = args
              /\ done \in [err : ResolveErrors, mem : Seq(LtlCells), args : Seq(Toks(Len(var)))]
            BY <1>1, <3>4 DEF ResolveErrors, n
        <3> HIDE DEF done
        <3>6. \A k \in 1..Len(line.args) : Reindexed(args[k], line.args[k])
            BY <3>3, <3>4 DEF Reindexed, tok
        <3>7. Kept(done, line)
            BY <1>1, <1>6, <3>4, <3>5, <3>6 DEF Kept, T
        <3>8. Looks(labelLookUp, args[T])
            BY <2>1, <2>4, <3>3, <3>4 DEF Looks, i
        <3>9. \A k \in 1..Len(line.args) : ~(k <= 0)
            BY <1>2
        <3>10. Done(done, line, 0)
            BY <3>5, <3>8, <3>9 DEF Done, T
        <3>11. UpdateLabel(line) = done
            BY <1>3, <2>2, <2>4 DEF Updated, done, args
        <3>12. QED
            BY <3>7, <3>10, <3>11 DEF Acc
    <2>5. QED
        BY <2>3, <2>4
<1>7. QED
    BY <1>5, <1>6

LEMMA ResolvedDone ==
    ASSUME LoadInv, NEW line \in StoredLines(Len(var)), ~Skipped(line)
    PROVE  Acc(Resolved(line), line, 3)
<1> DEFINE a0 == UpdateLabel(line)
           a1 == ResolveTok(a0, 1)
           a2 == ResolveTok(a1, 2)
           a3 == ResolveTok(a2, 3)
<1>1. Acc(a0, line, 1 - 1)
    BY UpdateLabelDone
<1> HIDE DEF a0
<1>2. Acc(a1, line, 2 - 1)
    BY <1>1, ResolveTokDone
<1> HIDE DEF a1
<1>3. Acc(a2, line, 3 - 1)
    BY <1>2, ResolveTokDone
<1> HIDE DEF a2
<1>4. Acc(a3, line, 3)
    BY <1>3, ResolveTokDone
<1>5. QED
    BY <1>4 DEF a2, a1, a0, Resolved

(***************************************************************************)
(* The invariant holds at first.                                           *)
(***************************************************************************)
LEMMA NothingSettled == ASSUME phase' \notin {"run", "resolve"} PROVE SettledInv'
BY DEF SettledInv, SettledLines, Through

LEMMA ZeroCell == Zero \in LtlCells
BY Bounds DEF LtlCells, Zero, LongV, Longs, LongMin

LEMMA FunctionSeq ==
    ASSUME NEW S, NEW n \in Nat, NEW f \in [1..n -> S]
    PROVE  f \in Seq(S) /\ Len(f) = n
<1>1. f \in Seq(S)
    BY SeqDef
<1>2. Len(f) \in Nat /\ 1..Len(f) = 1..n
    BY <1>1, LenProperties
<1>3. QED
    BY <1>1, <1>2

LEMMA LoadInitHolds == ASSUME Init PROVE LoadInv
<1> DEFINE m == Registers + 2
<1>1. m \in Nat /\ m >= 2 /\ m <= MaxMem /\ m <= MaxLines
    BY Bounds
<1>2. mem \in Seq(LtlCells) /\ Len(mem) = m
    <2>1. [i \in 1..m |-> Zero] \in [1..m -> LtlCells]
        BY ZeroCell
    <2>2. mem \in [1..m -> LtlCells]
        BY <2>1 DEF Init
    <2> HIDE DEF m
    <2>3. QED
        BY <1>1, <2>2, FunctionSeq
<1>3. var \in Seq(0..Registers + 1) /\ Len(var) = m
    <2>1. var = [i \in 1..m |-> i - 1]
        BY DEF Init
    <2>2. \A i \in 1..m : i - 1 \in 0..Registers + 1
        BY Bounds
    <2>3. var \in [1..m -> 0..Registers + 1]
        BY <2>1, <2>2
    <2> HIDE DEF m
    <2>4. QED
        BY <1>1, <2>3, FunctionSeq
<1>4. code = <<>> /\ label = <<>> /\ Len(code) = 0 /\ Len(label) = 0 /\ ptr = 0 /\ phase = "load"
    BY EmptySeq DEF Init
<1>5. LoadType
    <2>1. frames # <<>>
        BY DEF Init
    <2>2. Len(code) <= MaxLines /\ code \in Seq(StoredLines(Len(var)))
        BY <1>4, Bounds, EmptySeq
    <2>3. QED
        BY <1>1, <1>2, <1>4, <2>1, <2>2 DEF LoadType, Init
<1>6. EntryType
    <2>1. TableBelow(varLookUp, Len(var)) /\ TableBelow(labelLookUp, Len(label))
        BY <1>3, <1>4, RegisterTableFacts, EmptyBelow DEF Init
    <2>2. Len(var) \in Registers + 2..MaxLines
        BY <1>1, <1>3, Bounds
    <2>3. label \in Seq(Nat) /\ Len(label) <= Len(code) /\ \A i \in 1..Len(label) : FALSE
        BY <1>4, EmptySeq
    <2>4. QED
        BY <1>3, <2>1, <2>2, <2>3 DEF EntryType
<1>7. frames = <<Frame(Main, NoLine)>> /\ Len(frames) = 1 /\ frames[1] = Frame(Main, NoLine)
    BY DEF Init
<1>8. FrameType
    <2>1. Frame(Main, NoLine) \in FrameRecords /\ ~Frame(Main, NoLine).open /\ Frame(Main, NoLine).read = 0
        BY DEF Frame, FrameRecords
    <2>2. frames \in Seq(FrameRecords)
        BY <1>7, <2>1
    <2>3. (\A k \in 2..Len(frames) : FALSE) /\ (\A k \in 1..Len(frames) - 1 : FALSE)
        BY <1>7
    <2>4. \A k \in 1..Len(frames) : k = 1
        BY <1>7
    <2>5. \A k \in 1..Len(frames) : ~frames[k].open /\ frames[k].read = 0
        BY <1>7, <2>1, <2>4
    <2>6. QED
        BY <2>2, <2>3, <2>5 DEF FrameType
<1>9. ErrorNamesLine
    BY <1>4, <1>7 DEF ErrorNamesLine, Top, Frame
<1>10. DeclaredBy("var") = {} /\ DeclaredBy("lbl") = {}
    BY <1>4 DEF DeclaredBy
<1>11. Content(labelLookUp) = {} /\ labelLookUp.cap = DefaultCap
    BY HashmapAssumption, TableType DEF EmptyMap, Table, Init
<1>12. EntryNames
    <2>1. \A q \in Content(varLookUp) : q.val < Registers + 2 /\ RegisterNames[q.val + 1] = q.key
        BY RegisterTableFacts DEF Init, TableBelow
    <2>2. QED
        BY <1>11, <2>1 DEF EntryNames, VarEntry
<1>13. EntryPlaces
    BY <1>10, <1>11, RegisterTableFacts DEF EntryPlaces, InPlace, Init, Content
<1>14. SettledInv
    BY <1>4 DEF SettledInv, SettledLines, Through
<1>15. QED
    BY <1>5, <1>6, <1>8, <1>9, <1>12, <1>13, <1>14 DEF LoadInv

(***************************************************************************)
(* Reading a line.                                                         *)
(***************************************************************************)
LEMMA FrameFacts ==
    ASSUME LoadInv
    PROVE  /\ frames \in Seq(FrameRecords) /\ Len(frames) \in Nat /\ DOMAIN frames = 1..Len(frames)
           /\ frames # <<>> => Len(frames) >= 1 /\ Top \in FrameRecords
           /\ phase = "load" => frames # <<>>
           /\ phase \in {"resolve", "run"} => frames = <<>>
<1>1. frames \in Seq(FrameRecords)
    BY DEF LoadInv, FrameType
<1>2. Len(frames) \in Nat /\ DOMAIN frames = 1..Len(frames)
    BY <1>1, LenProperties
<1>3. ASSUME frames # <<>> PROVE Len(frames) >= 1 /\ Top \in FrameRecords
    <2>1. Len(frames) >= 1
        BY <1>1, <1>3, EmptySeq
    <2>2. Len(frames) \in 1..Len(frames)
        BY <1>2, <2>1
    <2>3. QED
        BY <1>1, <2>1, <2>2, ElementOfSeq DEF Top
<1>4. phase = "load" => frames # <<>>
    BY DEF LoadInv, LoadType
<1>5. phase \in {"resolve", "run"} => frames = <<>>
    BY DEF LoadInv, LoadType, ReadErrors
<1>6. QED
    BY <1>1, <1>2, <1>3, <1>4, <1>5

\* The fields of a frame, one of them replaced.
LEMMA FrameFields ==
    ASSUME NEW f \in FrameRecords
    PROVE  /\ \A b \in BOOLEAN : /\ [f EXCEPT !.open = b] \in FrameRecords /\ [f EXCEPT !.open = b].open = b
                                 /\ [f EXCEPT !.open = b].file = f.file /\ [f EXCEPT !.open = b].read = f.read
                                 /\ [f EXCEPT !.open = b].line = f.line
           /\ /\ [f EXCEPT !.read = @ + 1] \in FrameRecords /\ [f EXCEPT !.read = @ + 1].read = f.read + 1
              /\ [f EXCEPT !.read = @ + 1].file = f.file /\ [f EXCEPT !.read = @ + 1].open = f.open
              /\ [f EXCEPT !.read = @ + 1].line = f.line
           /\ f.read \in Nat /\ f.open \in BOOLEAN
BY DEF FrameRecords

\* The lines of a file there is.
LEMMA FileFacts ==
    ASSUME LoadInv, NEW file \in DOMAIN Files
    PROVE  Files[file] \in Seq(ReadLines) /\ Len(Files[file]) \in Nat
<1>1. Files[file] \in Seq(ReadLines)
    BY LoaderAssumption DEF Files, LoadInv, LoadType
<1>2. QED
    BY <1>1, LenProperties

LEMMA ReadsFacts ==
    ASSUME LoadInv, NEW kinds, Reads(kinds)
    PROVE  /\ frames # <<>> /\ phase = "load"
           /\ Top.file \in DOMAIN Files /\ Top.read \in Nat /\ Len(Files[Top.file]) \in Nat
           /\ Top.read + 1 <= Len(Files[Top.file])
           /\ Current \in ReadLines /\ Current.kind \in kinds
<1>1. phase = "load" /\ frames # <<>> /\ Top \in FrameRecords /\ Len(frames) \in Nat /\ Len(frames) >= 1
    BY FrameFacts DEF Reads
<1>2. Len(frames) \in 1..Len(frames)
    BY <1>1
<1>3. Top.file \in DOMAIN Files
    BY <1>2 DEF LoadInv, FrameType, Top, Reads
<1>4. Files[Top.file] \in Seq(ReadLines) /\ Len(Files[Top.file]) \in Nat
    BY <1>3, FileFacts
<1>5. Top.read \in Nat
    BY <1>1, FrameFields
<1>6. Top.read < Len(Files[Top.file])
    BY DEF Reads
<1>7. Top.read + 1 \in 1..Len(Files[Top.file])
    BY <1>4, <1>5, <1>6
<1>8. Current \in ReadLines
    BY <1>4, <1>7, ElementOfSeq DEF Current
<1>9. QED
    BY <1>1, <1>3, <1>4, <1>5, <1>7, <1>8 DEF Reads, Current

\* The top call goes on.
LEMMA TopReplaced ==
    ASSUME LoadInv, frames # <<>>, NEW f \in FrameRecords, f.line = Top.line,
           f.open /\ f.file \in DOMAIN Files /\ f.read <= Len(Files[f.file]),
           frames' = [frames EXCEPT ![Len(frames)] = f], text' = text
    PROVE  FrameType' /\ frames' # <<>> /\ Len(frames') = Len(frames) /\ Top' = f
<1> DEFINE n == Len(frames)
<1>1. frames \in Seq(FrameRecords) /\ n \in Nat /\ n >= 1
    BY FrameFacts
<1>2. n \in 1..n
    BY <1>1
<1>3. frames' \in Seq(FrameRecords) /\ Len(frames') = n
      /\ \A k \in 1..n : frames'[k] = IF k = n THEN f ELSE frames[k]
    BY <1>1, <1>2, ExceptSeq
<1>4. Files' = Files
    BY DEF Files
<1>5. Top' = f
    BY <1>2, <1>3 DEF Top
<1>6. frames' # <<>>
    BY <1>1, <1>3, EmptySeq
<1> HIDE DEF n
<1>7. ASSUME NEW k \in 1..n
      PROVE  frames'[k].line = frames[k].line /\
             IF frames'[k].open
             THEN frames'[k].file \in DOMAIN Files /\ frames'[k].read <= Len(Files[frames'[k].file])
             ELSE frames'[k].read = 0
    <2>1. CASE k = n
        BY <1>3, <2>1 DEF Top, n
    <2>2. CASE k # n
        BY <1>3, <2>2 DEF LoadInv, FrameType, n
    <2>3. QED
        BY <2>1, <2>2
<1>8. ASSUME NEW k \in 2..n PROVE frames'[k].line \in WaitingLines
    <2>1. k \in 1..n
        BY <1>1
    <2>2. QED
        BY <1>7, <2>1 DEF LoadInv, FrameType, n
<1>9. ASSUME NEW k \in 1..n - 1 PROVE frames'[k].open /\ frames'[k].read < Len(Files[frames'[k].file])
    <2>1. k \in 1..n /\ k # n
        BY <1>1
    <2>2. QED
        BY <1>3, <2>1 DEF LoadInv, FrameType, n
<1>10. FrameType'
    BY <1>3, <1>4, <1>7, <1>8, <1>9 DEF FrameType
<1>11. QED
    BY <1>3, <1>5, <1>6, <1>10 DEF n

\* The top file has one more line behind it.
LEMMA AdvancedKeeps ==
    ASSUME LoadInv, NEW kinds, Reads(kinds), frames' = Advanced, text' = text
    PROVE  FrameType' /\ frames' # <<>> /\ Len(frames') = Len(frames) /\ Top'.read = Top.read + 1
<1> DEFINE f == [Top EXCEPT !.read = @ + 1]
<1>1. frames \in Seq(FrameRecords) /\ frames # <<>> /\ Top \in FrameRecords
    BY FrameFacts, ReadsFacts
<1>2. f \in FrameRecords /\ f.read = Top.read + 1 /\ f.file = Top.file /\ f.open = Top.open /\ f.line = Top.line
    BY <1>1, FrameFields
<1>3. frames' = [frames EXCEPT ![Len(frames)] = f]
    BY DEF Advanced, Top
<1>4. Top.open /\ Top.file \in DOMAIN Files /\ Top.read + 1 <= Len(Files[Top.file])
    BY ReadsFacts DEF Reads
<1> HIDE DEF f
<1>5. QED
    BY <1>1, <1>2, <1>3, <1>4, TopReplaced

\* Nothing is stored or declared.
LEMMA TablesKeep ==
    ASSUME LoadInv, UNCHANGED <<code, var, label, varLookUp, labelLookUp>>
    PROVE  EntryType' /\ EntryNames' /\ EntryPlaces'
<1>1. EntryType'
    BY DEF LoadInv, EntryType
<1>2. EntryNames'
    BY DEF LoadInv, EntryNames, VarEntry
<1>3. DeclaredBy("var")' = DeclaredBy("var") /\ DeclaredBy("lbl")' = DeclaredBy("lbl")
    BY DEF DeclaredBy
<1>4. EntryPlaces'
    BY <1>3 DEF LoadInv, EntryPlaces
<1>5. QED
    BY <1>1, <1>2, <1>4

\* Loading and resolving may come to an error.
LEMMA FailKeeps ==
    ASSUME LoadInv, NEW err, Fail(err),
           \/ phase = "load" /\ err \in {"undefined"} \cup ReadErrors
           \/ phase = "resolve" /\ err \in ResolveErrors \ {"ok"}
    PROVE  LoadInv'
<1>1. phase' = err /\ UNCHANGED <<text, frames, code, ptr, mem, var, label, varLookUp, labelLookUp>>
    BY DEF Fail, tables
<1>2. phase' \notin {"run", "resolve"}
    BY <1>1 DEF ReadErrors, ResolveErrors
<1>3. SettledInv'
    BY <1>2, NothingSettled
<1>4. LoadType'
    <2>1. phase = "load" => frames # <<>>
        BY FrameFacts
    <2>2. phase = "resolve" => frames = <<>>
        BY FrameFacts
    <2>3. frames' = <<>> => phase' \in {"resolve", "run", "UndefinedVar", "UndefinedLabel", "undefined"}
        BY <1>1, <2>1 DEF ResolveErrors
    <2>4. frames' # <<>> => phase' \in {"load", "undefined"} \cup ReadErrors
        BY <1>1, <2>2
    <2>5. phase' \in {"load", "resolve", "run", "UndefinedVar", "UndefinedLabel", "undefined"} \cup ReadErrors
        BY <2>3, <2>4
    <2>6. QED
        BY <1>1, <2>3, <2>4, <2>5 DEF LoadInv, LoadType
<1>5. EntryType' /\ EntryNames' /\ EntryPlaces'
    BY <1>1, TablesKeep
<1>6. FrameType' /\ ErrorNamesLine'
    BY <1>1 DEF LoadInv, FrameType, Files, ErrorNamesLine, Top
<1>7. QED
    BY <1>3, <1>4, <1>5, <1>6 DEF LoadInv

\* Only the calls of Code_from and the count of lines change.
LEMMA CallsKeep ==
    ASSUME LoadInv, phase = "load", FrameType', ErrorNamesLine', frames' # <<>>, ptr' \in Nat,
           UNCHANGED <<text, code, mem, tables, phase>>
    PROVE  LoadInv'
<1>1. UNCHANGED <<text, code, mem, var, label, varLookUp, labelLookUp, phase>>
    BY DEF tables
<1>2. EntryType' /\ EntryNames' /\ EntryPlaces'
    BY <1>1, TablesKeep
<1>3. SettledInv'
    BY <1>1, NothingSettled
<1>4. LoadType'
    BY <1>1 DEF LoadInv, LoadType
<1>5. QED
    BY <1>2, <1>3, <1>4 DEF LoadInv

LEMMA OpenKeeps == ASSUME LoadInv, Open PROVE LoadInv'
<1>1. CASE Fail("CannotOpenFile")
    BY <1>1, FailKeeps DEF Open, ReadErrors
<1>2. CASE /\ Top.file \in DOMAIN Files
           /\ frames' = [frames EXCEPT ![Len(frames)].open = TRUE]
           /\ UNCHANGED <<text, code, ptr, mem, tables, phase>>
    <2> DEFINE f == [Top EXCEPT !.open = TRUE]
    <2>1. phase = "load" /\ frames # <<>> /\ Top \in FrameRecords
        BY FrameFacts DEF Open
    <2>2. f \in FrameRecords /\ f.read = Top.read /\ f.file = Top.file /\ f.open /\ f.line = Top.line
        BY <2>1, FrameFields
    <2>3. frames' = [frames EXCEPT ![Len(frames)] = f]
        BY <1>2 DEF Top
    <2>4. Top.read <= Len(Files[Top.file])
        <3>1. Len(frames) \in 1..Len(frames) /\ ~Top.open
            BY <2>1, FrameFacts DEF Open
        <3>2. Top.read = 0
            BY <3>1 DEF LoadInv, FrameType, Top
        <3>3. Len(Files[Top.file]) \in Nat
            BY <1>2, FileFacts
        <3>4. QED
            BY <3>2, <3>3
    <2> HIDE DEF f
    <2>5. FrameType' /\ frames' # <<>> /\ Len(frames') = Len(frames) /\ Top' = f
        BY <1>2, <2>1, <2>2, <2>3, <2>4, TopReplaced
    <2>6. ErrorNamesLine'
        BY <1>2, <2>2, <2>5 DEF LoadInv, ErrorNamesLine
    <2>7. ptr' \in Nat
        BY <1>2 DEF LoadInv, LoadType
    <2>8. QED
        BY <1>2, <2>1, <2>5, <2>6, <2>7, CallsKeep
<1>3. QED
    BY <1>1, <1>2 DEF Open

LEMMA ReadBlankKeeps == ASSUME LoadInv, ReadBlank PROVE LoadInv'
<1>1. Reads({"blank"}) /\ frames' = Advanced /\ ptr' = ptr + 1 /\ UNCHANGED <<text, code, mem, tables, phase>>
    BY DEF ReadBlank
<1>2. FrameType' /\ frames' # <<>> /\ Len(frames') = Len(frames) /\ Top'.read = Top.read + 1
    BY <1>1, AdvancedKeeps
<1>3. ErrorNamesLine'
    BY <1>1, <1>2 DEF LoadInv, ErrorNamesLine
<1>4. ptr' \in Nat /\ phase = "load"
    BY <1>1 DEF LoadInv, LoadType, Reads
<1>5. QED
    BY <1>1, <1>2, <1>3, <1>4, CallsKeep

LEMMA ReadFailsKeep == ASSUME LoadInv, ReadBad \/ ReadUnknown PROVE LoadInv'
<1>1. CASE ReadBad
    <2>1. Reads({"bad"}) /\ Fail(Current.err)
        BY <1>1 DEF ReadBad
    <2>2. phase = "load" /\ Current \in ReadLines /\ Current.kind = "bad"
        BY <2>1, ReadsFacts
    <2>3. Current.err \in ReadErrors
        BY <2>2 DEF ReadLines
    <2>4. QED
        BY <2>1, <2>2, <2>3, FailKeeps
<1>2. CASE ReadUnknown
    <2>1. Reads({"line"}) /\ Fail("UnknownOp")
        BY <1>2 DEF ReadUnknown
    <2>2. phase = "load"
        BY <2>1, ReadsFacts
    <2>3. QED
        BY <2>1, <2>2, FailKeeps DEF ReadErrors
<1>3. QED
    BY <1>1, <1>2

LEMMA CurrentFacts ==
    ASSUME LoadInv, Reads({"line"}), Known(Current), NEW n \in Nat, n > 0
    PROVE  /\ Current.op \in Ops /\ Current.args \in Seq(Toks(n))
           /\ Current.op # "var" => Current \in StoredLines(n)
           /\ Current.op \in {"lbl", "var", "src"} =>
                /\ Len(Current.args) \in Nat /\ Len(Current.args) >= 1
                /\ Current.args[1] \in [t : {"Sym"}, name : Keys, idx : {0}]
                /\ Declared \in Keys
<1>1. Current \in ReadLines /\ Current.kind = "line"
    BY ReadsFacts
<1>2. Current \in [kind : {"line"}, op : STRING, args : Seq(ReadToks)]
    BY <1>1, ReadLineFacts
<1>3. Current.op \in Ops /\ Current.args \in Seq(ReadToks)
    BY <1>2 DEF Known
<1>4. Current.args \in Seq(Toks(n))
    BY <1>3, ReadToksIn, SeqMonotonic
<1>5. Current \in [kind : {"line"}, op : Ops, args : Seq(Toks(n))]
    <2>1. Current = [kind |-> Current.kind, op |-> Current.op, args |-> Current.args]
        BY <1>2
    <2>2. QED
        BY <1>1, <1>3, <1>4, <2>1
<1>6. Current.op # "var" => Current \in StoredLines(n)
    BY <1>5 DEF StoredLines
<1>7. ASSUME Current.op \in {"lbl", "var", "src"}
      PROVE  /\ Len(Current.args) \in Nat /\ Len(Current.args) >= 1
             /\ Current.args[1] \in [t : {"Sym"}, name : Keys, idx : {0}]
             /\ Declared \in Keys
    <2>1. Len(Signature(Current.op)) >= 1 /\ Signature(Current.op)[1] = SYM
        BY <1>7, SignatureOf
    <2>2. Len(Current.args) = Len(Signature(Current.op)) /\ \A k \in DOMAIN Current.args : Current.args[k].t \in Signature(Current.op)[k]
        BY DEF Known
    <2>3. Len(Current.args) \in Nat /\ Len(Current.args) >= 1 /\ DOMAIN Current.args = 1..Len(Current.args)
        BY <1>3, <2>1, <2>2, LenProperties
    <2>4. 1 \in DOMAIN Current.args
        BY <2>3
    <2>5. Current.args[1] \in ReadToks /\ Current.args[1].t \in SYM
        BY <1>3, <2>1, <2>2, <2>3, <2>4, ElementOfSeq
    <2>6. Current.args[1] \in [t : {"Sym"}, name : Keys, idx : {0}]
        BY <2>5, SymFacts
    <2>7. QED
        BY <2>3, <2>6 DEF Declared
<1>8. QED
    BY <1>3, <1>4, <1>6, <1>7

LEMMA ReadSrcKeeps == ASSUME LoadInv, ReadSrc PROVE LoadInv'
<1> DEFINE n == Len(frames)
           f == Frame(Declared, Current)
<1>1. Reads({"line"}) /\ Known(Current) /\ Current.op = "src" /\ frames' = Append(frames, f)
      /\ UNCHANGED <<text, code, ptr, mem, tables, phase>>
    BY DEF ReadSrc, ReadsOp
<1>2. frames \in Seq(FrameRecords) /\ n \in Nat /\ n >= 1 /\ phase = "load" /\ Top \in FrameRecords
    BY <1>1, FrameFacts, ReadsFacts
<1>3. Current \in WaitingLines /\ Declared \in Keys
    <2>1. Current \in StoredLines(1) /\ Declared \in Keys
        BY <1>1, CurrentFacts
    <2>2. QED
        BY <1>1, <2>1 DEF WaitingLines
<1>4. f \in FrameRecords /\ ~f.open /\ f.read = 0 /\ f.line = Current
    BY <1>3 DEF Frame, FrameRecords
<1> HIDE DEF f
<1>5. frames' \in Seq(FrameRecords) /\ frames' # <<>> /\ Len(frames') = n + 1 /\ frames'[n + 1] = f
      /\ \A k \in 1..n : frames'[k] = frames[k]
    BY <1>1, <1>2, <1>4, AppendProperties
<1>6. Files' = Files
    BY <1>1 DEF Files
<1>7. Top.open /\ Top.read < Len(Files[Top.file])
    BY <1>1 DEF Reads
<1> HIDE DEF n
<1>8. \A k \in 1..n + 1 : k \in 1..n \/ k = n + 1
    BY <1>2
<1>9. ASSUME NEW k \in 1..n + 1
      PROVE  IF frames'[k].open THEN frames'[k].file \in DOMAIN Files /\ frames'[k].read <= Len(Files[frames'[k].file])
             ELSE frames'[k].read = 0
    BY <1>4, <1>5, <1>8 DEF LoadInv, FrameType, n
<1>10. ASSUME NEW k \in 2..n + 1 PROVE frames'[k].line \in WaitingLines
    <2>1. k \in 2..n \/ k = n + 1
        BY <1>2
    <2>2. k \in 2..n => k \in 1..n
        BY <1>2
    <2>3. QED
        BY <1>3, <1>4, <1>5, <2>1, <2>2 DEF LoadInv, FrameType, n
<1>11. ASSUME NEW k \in 1..n PROVE frames'[k].open /\ frames'[k].read < Len(Files[frames'[k].file])
    <2>1. CASE k = n
        BY <1>5, <1>7, <2>1 DEF Top, n
    <2>2. CASE k # n
        <3>1. k \in 1..n - 1
            BY <1>2, <2>2
        <3>2. QED
            BY <1>5, <3>1 DEF LoadInv, FrameType, n
    <2>3. QED
        BY <2>1, <2>2
<1>12. Len(frames') - 1 = n
    BY <1>2, <1>5
<1>13. FrameType'
    <2>1. \A k \in 2..Len(frames') : frames'[k].line \in WaitingLines
        BY <1>5, <1>10
    <2>2. \A k \in 1..Len(frames') :
            IF frames'[k].open THEN frames'[k].file \in DOMAIN Files' /\ frames'[k].read <= Len(Files'[frames'[k].file])
            ELSE frames'[k].read = 0
        BY <1>5, <1>6, <1>9
    <2>3. \A k \in 1..Len(frames') - 1 : frames'[k].open /\ frames'[k].read < Len(Files'[frames'[k].file])
        BY <1>6, <1>11, <1>12
    <2>4. QED
        BY <1>5, <2>1, <2>2, <2>3 DEF FrameType
<1>14. ErrorNamesLine'
    <2>1. Len(frames') # 1
        BY <1>2, <1>5
    <2>2. QED
        BY <2>1 DEF ErrorNamesLine
<1>15. ptr' \in Nat
    BY <1>1 DEF LoadInv, LoadType
<1>16. QED
    BY <1>1, <1>2, <1>5, <1>13, <1>14, <1>15, CallsKeep

(***************************************************************************)
(* Storing lines.                                                          *)
(***************************************************************************)
LEMMA CodeFacts ==
    ASSUME LoadInv
    PROVE  /\ Len(var) \in Nat /\ Len(var) >= 2 /\ Len(label) \in Nat /\ Len(code) \in Nat /\ Len(mem) \in Nat
           /\ code \in Seq(StoredLines(Len(var))) /\ DOMAIN code = 1..Len(code)
           /\ \A i \in 1..Len(code) : code[i] \in StoredLines(Len(var))
           /\ var \in Seq(0..Registers + 1) /\ label \in Seq(Nat)
           /\ \A i \in 1..Len(label) : label[i] \in Nat /\ label[i] + 1 \in 1..Len(code)
<1>1. code \in Seq(StoredLines(Len(var))) /\ var \in Seq(0..Registers + 1) /\ label \in Seq(Nat) /\ mem \in Seq(LtlCells)
    BY DEF LoadInv, LoadType, EntryType
<1>2. Len(var) \in Nat /\ Len(label) \in Nat /\ Len(code) \in Nat /\ Len(mem) \in Nat /\ DOMAIN code = 1..Len(code)
    BY <1>1, LenProperties
<1>3. Len(var) >= 2
    BY <1>2, Bounds DEF LoadInv, EntryType
<1>4. \A i \in 1..Len(code) : code[i] \in StoredLines(Len(var))
    BY <1>1, ElementOfSeq
<1>5. ASSUME NEW i \in 1..Len(label) PROVE label[i] \in Nat /\ label[i] + 1 \in 1..Len(code)
    <2>1. label[i] \in Nat
        BY <1>1, ElementOfSeq
    <2>2. label[i] < Len(code)
        BY DEF LoadInv, EntryType
    <2>3. QED
        BY <1>2, <2>1, <2>2
<1>6. QED
    BY <1>1, <1>2, <1>3, <1>4, <1>5

\* Lines that declare nothing leave the tables true.
LEMMA UndeclaredKeep ==
    ASSUME LoadInv, UNCHANGED <<var, label, varLookUp, labelLookUp>>,
           Len(code') \in Nat, Len(code) <= Len(code'), \A i \in 1..Len(code) : code'[i] = code[i],
           \A i \in 1..Len(code') : i > Len(code) => code'[i].op \notin {"var", "lbl"}
    PROVE  EntryType' /\ EntryNames' /\ EntryPlaces'
<1>1. Len(code) \in Nat /\ Len(label) \in Nat /\ \A i \in 1..Len(label) : label[i] \in Nat /\ label[i] + 1 \in 1..Len(code)
    BY CodeFacts
<1>2. \A i \in 1..Len(code) : i \in 1..Len(code')
    BY <1>1
<1>3. \A i \in 1..Len(code') : code'[i].op \in {"var", "lbl"} => i \in 1..Len(code)
    BY <1>1
<1>4. EntryType'
    <2>1. Len(label) <= Len(code) /\ \A i \in 1..Len(label) : label[i] < Len(code) /\ code[label[i] + 1].op = "lbl"
        BY DEF LoadInv, EntryType
    <2>2. Len(label) <= Len(code')
        BY <1>1, <2>1
    <2>3. \A i \in 1..Len(label) : label[i] < Len(code') /\ code'[label[i] + 1].op = "lbl"
        BY <1>1, <2>1
    <2>4. QED
        BY <2>2, <2>3 DEF LoadInv, EntryType
<1>5. DeclaredBy("var")' = DeclaredBy("var") /\ DeclaredBy("lbl")' = DeclaredBy("lbl")
    BY <1>2, <1>3 DEF DeclaredBy
<1>6. EntryPlaces'
    BY <1>5 DEF LoadInv, EntryPlaces
<1>7. EntryNames'
    <2>1. ASSUME NEW q \in Content(varLookUp) PROVE VarEntry(q.val, q.key)'
        <3>1. VarEntry(q.val, q.key)
            BY DEF LoadInv, EntryNames
        <3>2. QED
            BY <1>2, <3>1 DEF VarEntry
    <2>2. ASSUME NEW q \in Content(labelLookUp) PROVE code'[label[q.val + 1] + 1].args[1].name = q.key
        <3>1. code[label[q.val + 1] + 1].args[1].name = q.key
            BY DEF LoadInv, EntryNames
        <3>2. q.val \in Nat /\ q.val < Len(label)
            <4>1. labelLookUp \in Map /\ q.val < Len(label)
                BY DEF LoadInv, EntryType, TableBelow
            <4>2. q \in Pair
                BY <4>1, MapFacts DEF Content, Filled
            <4>3. QED
                BY <4>1, <4>2 DEF Pair
        <3>3. q.val + 1 \in 1..Len(label)
            BY <1>1, <3>2
        <3>4. QED
            BY <1>1, <3>1, <3>3
    <2>3. QED
        BY <2>1, <2>2 DEF EntryNames
<1>8. QED
    BY <1>4, <1>6, <1>7

\* What Vec_push of a line leaves, once the tables are in order.
LEMMA PushedKeeps ==
    ASSUME LoadInv, Reads({"line"}), Room(1), Len(var') \in Nat, Len(var) <= Len(var'),
           NEW line \in StoredLines(Len(var')), Pushed(line),
           EntryType', EntryNames', EntryPlaces'
    PROVE  LoadInv'
<1>1. code' = Append(code, line) /\ frames' = Advanced /\ ptr' = ptr + 1 /\ UNCHANGED <<text, mem, phase>>
    BY DEF Pushed
<1>2. code \in Seq(StoredLines(Len(var))) /\ Len(code) \in Nat /\ Len(var) \in Nat
    BY CodeFacts
<1>3. code \in Seq(StoredLines(Len(var')))
    BY <1>2, StoredGrow, SeqMonotonic
<1>4. code' \in Seq(StoredLines(Len(var'))) /\ Len(code') = Len(code) + 1
      /\ \A i \in 1..Len(code) : code'[i] = code[i]
    BY <1>1, <1>3, AppendProperties
<1>5. Len(code') <= MaxLines
    BY <1>4 DEF Room
<1>6. FrameType' /\ frames' # <<>> /\ Len(frames') = Len(frames) /\ Top'.read = Top.read + 1
    BY <1>1, AdvancedKeeps
<1>7. phase = "load" /\ ptr' \in Nat
    BY <1>1, ReadsFacts DEF LoadInv, LoadType
<1>8. LoadType'
    <2>1. text' \in DOMAIN Sources /\ mem' \in Seq(LtlCells) /\ Len(mem') \in Registers + 2..MaxMem
        BY <1>1 DEF LoadInv, LoadType
    <2>2. QED
        BY <1>1, <1>4, <1>5, <1>6, <1>7, <2>1 DEF LoadType
<1>9. ErrorNamesLine'
    <2> SUFFICES ASSUME Len(frames') = 1, \A i \in DOMAIN code' : code'[i].op # "src"
                 PROVE  ptr' = Top'.read
        BY DEF ErrorNamesLine
    <2>1. DOMAIN code = 1..Len(code) /\ DOMAIN code' = 1..Len(code')
        BY <1>2, <1>4, LenProperties
    <2>2. \A i \in DOMAIN code : i \in DOMAIN code' /\ code'[i] = code[i]
        BY <1>2, <1>4, <2>1
    <2>3. ptr = Top.read
        BY <1>6, <2>2 DEF LoadInv, ErrorNamesLine
    <2>4. QED
        BY <1>1, <1>6, <2>3
<1>10. SettledInv'
    BY <1>1, <1>7, NothingSettled
<1>11. QED
    BY <1>6, <1>8, <1>9, <1>10 DEF LoadInv

LEMMA ReadOtherKeeps == ASSUME LoadInv, ReadOther PROVE LoadInv'
<1>1. Reads({"line"}) /\ Known(Current) /\ Current.op \notin {"lbl", "var", "src"}
    BY DEF ReadOther, ReadsOp
<1>2. phase = "load"
    BY <1>1, ReadsFacts
<1>3. CASE ~Room(1)
    <2>1. Fail("undefined")
        BY <1>3 DEF ReadOther
    <2>2. QED
        BY <1>2, <2>1, FailKeeps
<1>4. CASE Room(1)
    <2>1. Pushed(Current) /\ UNCHANGED <<var, label, varLookUp, labelLookUp>>
        BY <1>4 DEF ReadOther, tables
    <2>2. Len(var) \in Nat /\ Len(var) >= 2 /\ code \in Seq(StoredLines(Len(var))) /\ Len(code) \in Nat
        BY CodeFacts
    <2>3. Current \in StoredLines(Len(var))
        <3>1. Len(var) > 0
            BY <2>2
        <3>2. QED
            BY <1>1, <2>2, <3>1, CurrentFacts
    <2>4. code' = Append(code, Current)
        BY <2>1 DEF Pushed
    <2>5. Len(code') = Len(code) + 1 /\ code'[Len(code) + 1] = Current /\ \A i \in 1..Len(code) : code'[i] = code[i]
        BY <2>2, <2>3, <2>4, AppendProperties
    <2>6. \A i \in 1..Len(code') : i > Len(code) => i = Len(code) + 1
        BY <2>2, <2>5
    <2>7. Len(code') \in Nat /\ Len(code) <= Len(code')
        BY <2>2, <2>5
    <2>8. \A i \in 1..Len(code') : i > Len(code) => code'[i].op \notin {"var", "lbl"}
        BY <1>1, <2>5, <2>6
    <2>9. EntryType' /\ EntryNames' /\ EntryPlaces'
        BY <2>1, <2>5, <2>7, <2>8, UndeclaredKeep
    <2>10. Len(var') \in Nat /\ Len(var) <= Len(var') /\ Current \in StoredLines(Len(var'))
        BY <2>1, <2>2, <2>3
    <2>11. QED
        BY <1>1, <1>4, <2>1, <2>9, <2>10, PushedKeeps
<1>5. QED
    BY <1>3, <1>4

\* A declaration as it is stored.
LEMMA EnteredFacts ==
    ASSUME LoadInv, Reads({"line"}), Known(Current), Current.op \in {"lbl", "var"}, NEW n \in Nat, n > 0,
           NEW i \in Nat, Current.op = "var" => i < n
    PROVE  /\ Entered(i) \in StoredLines(n)
           /\ Entered(i).op = Current.op /\ Entered(i).args[1].name = Declared /\ Entered(i).args[1].idx = i
<1> DEFINE tok == Current.args[1]
           b == [tok EXCEPT !.idx = i]
           args == [Current.args EXCEPT ![1] = b]
<1>1. /\ Current.op \in Ops /\ Current.args \in Seq(Toks(n))
      /\ Len(Current.args) \in Nat /\ Len(Current.args) >= 1
      /\ tok \in [t : {"Sym"}, name : Keys, idx : {0}]
    BY CurrentFacts
<1>2. DOMAIN Current.args = 1..Len(Current.args) /\ 1 \in 1..Len(Current.args)
    BY <1>1, LenProperties
<1>3. b \in [t : {"Sym"}, name : Keys, idx : Nat] /\ b.t = tok.t /\ b.name = Declared /\ b.idx = i
    BY <1>1 DEF Declared
<1>4. b \in Toks(n)
    BY <1>3, SymFacts
<1> HIDE DEF b
<1>5. args \in Seq(Toks(n)) /\ Len(args) = Len(Current.args)
      /\ \A k \in 1..Len(Current.args) : args[k] = IF k = 1 THEN b ELSE Current.args[k]
    BY <1>1, <1>2, <1>4, ExceptSeq
<1>6. DOMAIN args = DOMAIN Current.args
    OBVIOUS
<1>7. Entered(i) = [op |-> Current.op, args |-> args]
    BY DEF Entered, b
<1> HIDE DEF args
<1>8. Known([op |-> Current.op, args |-> args])
    <2>1. \A k \in DOMAIN Current.args : args[k].t = Current.args[k].t
        BY <1>2, <1>3, <1>5
    <2> DEFINE r == [op |-> Current.op, args |-> args]
    <2>2. r.op = Current.op /\ r.args = args
        OBVIOUS
    <2> HIDE DEF r
    <2>3. Known(r)
        BY <1>5, <1>6, <2>1, <2>2, KnownOp
    <2>4. QED
        BY <2>3 DEF r
<1>9. args[1] = b
    BY <1>2, <1>5
<1>10. Current.op = "var" => args[1].idx \in 0..n - 1
    BY <1>3, <1>9
<1>11. [op |-> Current.op, args |-> args] \in StoredLines(n)
    BY <1>1, <1>5, <1>8, <1>10, NewLine
<1>12. QED
    BY <1>3, <1>7, <1>9, <1>11

\* Every entry is of a name some line declares, or of a register.
LEMMA EntryFacts ==
    ASSUME LoadInv
    PROVE  /\ \A q \in Content(varLookUp) : q.key \in Registered \cup DeclaredBy("var")
           /\ \A q \in Content(labelLookUp) : q.key \in DeclaredBy("lbl") /\ q.val + 1 \in 1..Len(label)
<1>1. ASSUME NEW h, NEW n, TableBelow(h, n), NEW q \in Content(h) PROVE q.val \in Nat /\ q.val < n
    <2>1. h \in Map /\ q.val < n
        BY <1>1 DEF TableBelow
    <2>2. q \in Pair
        BY <2>1, MapFacts DEF Content, Filled
    <2>3. QED
        BY <2>1, <2>2 DEF Pair
<1>2. TableBelow(varLookUp, Len(var)) /\ TableBelow(labelLookUp, Len(label))
    BY DEF LoadInv, EntryType
<1>3. ASSUME NEW q \in Content(varLookUp) PROVE q.key \in Registered \cup DeclaredBy("var")
    <2>1. q.val \in Nat
        BY <1>1, <1>2
    <2>2. VarEntry(q.val, q.key)
        BY DEF LoadInv, EntryNames
    <2>3. CASE q.val < Registers + 2 /\ RegisterNames[q.val + 1] = q.key
        <3>1. q.val + 1 \in 1..Registers + 2
            BY <2>1, <2>3, Bounds
        <3>2. QED
            BY <2>3, <3>1 DEF Registered
    <2>4. QED
        BY <2>2, <2>3 DEF VarEntry, DeclaredBy
<1>4. ASSUME NEW q \in Content(labelLookUp) PROVE q.key \in DeclaredBy("lbl") /\ q.val + 1 \in 1..Len(label)
    <2>1. q.val \in Nat /\ q.val < Len(label) /\ Len(label) \in Nat
        BY <1>1, <1>2, CodeFacts
    <2>2. q.val + 1 \in 1..Len(label)
        BY <2>1
    <2>3. label[q.val + 1] + 1 \in 1..Len(code) /\ code[label[q.val + 1] + 1].op = "lbl"
        BY <2>2, CodeFacts DEF LoadInv, EntryType
    <2>4. code[label[q.val + 1] + 1].args[1].name = q.key
        BY DEF LoadInv, EntryNames
    <2> DEFINE i == label[q.val + 1] + 1
    <2> HIDE DEF i
    <2>5. i \in 1..Len(code) /\ code[i].op = "lbl" /\ code[i].args[1].name = q.key
        BY <2>3, <2>4 DEF i
    <2>6. q.key \in DeclaredBy("lbl")
        BY <2>5 DEF DeclaredBy
    <2>7. QED
        BY <2>2, <2>6
<1>5. QED
    BY <1>3, <1>4

\* One line more, and what was true of the lines before it.
LEMMA LineAppended ==
    ASSUME LoadInv, NEW n \in Nat, Len(var) <= n, NEW line \in StoredLines(n), code' = Append(code, line)
    PROVE  /\ Len(code') = Len(code) + 1 /\ code'[Len(code) + 1] = line
           /\ \A op \in {"var", "lbl"} :
                DeclaredBy(op)' = DeclaredBy(op) \cup (IF line.op = op THEN {line.args[1].name} ELSE {})
           /\ \A i \in 1..Len(label) : label[i] < Len(code') /\ code'[label[i] + 1].op = "lbl"
           /\ \A q \in Content(varLookUp) : VarEntry(q.val, q.key)'
           /\ \A q \in Content(labelLookUp) : code'[label[q.val + 1] + 1].args[1].name = q.key
<1>1. Len(var) \in Nat /\ Len(code) \in Nat /\ code \in Seq(StoredLines(n))
    <2>1. Len(var) \in Nat /\ Len(code) \in Nat /\ code \in Seq(StoredLines(Len(var)))
        BY CodeFacts
    <2>2. QED
        BY <2>1, StoredGrow, SeqMonotonic
<1>2. Len(code') = Len(code) + 1 /\ code'[Len(code) + 1] = line /\ \A i \in 1..Len(code) : code'[i] = code[i]
    BY <1>1, AppendProperties
<1>3. \A i \in 1..Len(code') : i \in 1..Len(code) \/ i = Len(code) + 1
    BY <1>1, <1>2
<1>4. Len(code) + 1 \in 1..Len(code') /\ \A i \in 1..Len(code) : i \in 1..Len(code')
    BY <1>1, <1>2
<1>5. ASSUME NEW op \in {"var", "lbl"}
      PROVE  DeclaredBy(op)' = DeclaredBy(op) \cup (IF line.op = op THEN {line.args[1].name} ELSE {})
    <2>1. DeclaredBy(op)' = {code'[i].args[1].name : i \in {i \in 1..Len(code') : code'[i].op = op}}
        BY DEF DeclaredBy
    <2>2. QED
        BY <1>2, <1>3, <1>4, <2>1 DEF DeclaredBy
<1>6. ASSUME NEW i \in 1..Len(label) PROVE label[i] < Len(code') /\ code'[label[i] + 1].op = "lbl"
    <2>1. label[i] \in Nat /\ label[i] + 1 \in 1..Len(code) /\ code[label[i] + 1].op = "lbl"
        BY CodeFacts DEF LoadInv, EntryType
    <2>2. QED
        BY <1>1, <1>2, <2>1
<1>7. ASSUME NEW q \in Content(varLookUp) PROVE VarEntry(q.val, q.key)'
    <2>1. VarEntry(q.val, q.key)
        BY DEF LoadInv, EntryNames
    <2>2. QED
        BY <1>2, <1>4, <2>1 DEF VarEntry
<1>8. ASSUME NEW q \in Content(labelLookUp) PROVE code'[label[q.val + 1] + 1].args[1].name = q.key
    <2>1. q.val + 1 \in 1..Len(label)
        BY EntryFacts
    <2>2. label[q.val + 1] + 1 \in 1..Len(code)
        BY <2>1, CodeFacts
    <2>3. code[label[q.val + 1] + 1].args[1].name = q.key
        BY DEF LoadInv, EntryNames
    <2>4. QED
        BY <1>2, <2>2, <2>3
<1>9. QED
    BY <1>2, <1>5, <1>6, <1>7, <1>8

\* A new name in a table, in place if the names are spread.
LEMMA DeclaredInPlace ==
    ASSUME NEW n \in Nat, NEW h, TableBelow(h, n), NEW k \in Keys, ~Lookup(Hash, h, k).found,
           NEW N, \A q \in Content(h) : q.key \in N, Spread(Hash, N) => InPlace(h), Spread(Hash, N \cup {k})
    PROVE  InPlace(Insert(Hash, h, k, n))
<1>1. Spread(Hash, N)
    BY DEF Spread
<1>2. InPlace(h)
    BY <1>1
<1>3. \A q \in Content(h) : q.key # k
    BY <1>2, OwnEntry
<1> DEFINE S == N \cup {k}
<1>4. k \in S /\ (\A q \in Content(h) : q.key \in S) /\ Spread(Hash, S)
    OBVIOUS
<1> HIDE DEF S
<1>5. QED
    BY <1>2, <1>3, <1>4, InsertInPlace

LEMMA ReadVarKeeps == ASSUME LoadInv, ReadVar PROVE LoadInv'
<1> DEFINE n == Len(var)
           k == Declared
<1>1. Reads({"line"}) /\ Known(Current) /\ Current.op = "var"
    BY DEF ReadVar, ReadsOp
<1>2. phase = "load"
    BY <1>1, ReadsFacts
<1>3. CASE Fail("DuplicatedSymbols") \/ Fail("undefined")
    BY <1>2, <1>3, FailKeeps DEF ReadErrors
<1>4. CASE /\ ~Lookup(Hash, varLookUp, Declared).found /\ Room(1) /\ n # MaxLines
           /\ var' = Append(var, 0)
           /\ varLookUp' = Insert(Hash, varLookUp, Declared, n)
           /\ UNCHANGED <<label, labelLookUp>>
           /\ Pushed(Entered(n))
    <2>1. n \in Nat /\ n >= 2 /\ var \in Seq(0..Registers + 1) /\ n \in Registers + 2..MaxLines
        BY CodeFacts DEF LoadInv, EntryType
    <2>2. var' \in Seq(0..Registers + 1) /\ Len(var') = n + 1
        <3>1. 0 \in 0..Registers + 1
            BY Bounds
        <3>2. QED
            BY <1>4, <2>1, <3>1, AppendProperties
    <2>3. Len(var') \in Registers + 2..MaxLines
        BY <1>4, <2>1, <2>2, Bounds
    <2> DEFINE line == Entered(n)
    <2> HIDE DEF n
    <2>4. line \in StoredLines(n + 1) /\ line.op = "var" /\ line.args[1].name = k /\ line.args[1].idx = n /\ k \in Keys
        <3>1. n + 1 \in Nat /\ n + 1 > 0 /\ n < n + 1
            BY <2>1
        <3>2. QED
            BY <1>1, <2>1, <3>1, EnteredFacts, CurrentFacts
    <2> HIDE DEF line, k
    <2>5. code' = Append(code, line) /\ n + 1 \in Nat /\ Len(var) <= n + 1
        BY <1>4, <2>1 DEF Pushed, line, n
    <2>6. /\ Len(code') = Len(code) + 1 /\ code'[Len(code) + 1] = line
          /\ DeclaredBy("var")' = DeclaredBy("var") \cup {k}
          /\ DeclaredBy("lbl")' = DeclaredBy("lbl")
          /\ \A i \in 1..Len(label) : label[i] < Len(code') /\ code'[label[i] + 1].op = "lbl"
          /\ \A q \in Content(varLookUp) : VarEntry(q.val, q.key)'
          /\ \A q \in Content(labelLookUp) : code'[label[q.val + 1] + 1].args[1].name = q.key
        BY <2>4, <2>5, LineAppended
    <2>7. TableBelow(varLookUp, n)
        BY DEF LoadInv, EntryType, n
    <2>8. TableBelow(varLookUp', n + 1) /\ Content(varLookUp') \subseteq Content(varLookUp) \cup {KeyPair(k, n)}
        BY <1>4, <2>1, <2>4, <2>7, InsertBelow DEF k
    <2>9. Len(code) \in Nat
        BY CodeFacts
    <2>10. EntryType'
        <3>1. Len(label) <= Len(code')
            <4>1. Len(label) <= Len(code) /\ Len(label) \in Nat
                BY CodeFacts DEF LoadInv, EntryType
            <4>2. QED
                BY <2>6, <2>9, <4>1
        <3>2. label \in Seq(Nat) /\ TableBelow(labelLookUp, Len(label))
            BY DEF LoadInv, EntryType
        <3>3. QED
            BY <1>4, <2>2, <2>3, <2>6, <2>8, <3>1, <3>2 DEF EntryType
    <2>11. EntryNames'
        <3>1. ASSUME NEW x, NEW y, x = n, y = k PROVE VarEntry(x, y)'
            <4>1. Len(code) + 1 \in 1..Len(code')
                BY <2>6, <2>9
            <4>2. QED
                BY <2>4, <2>6, <3>1, <4>1 DEF VarEntry
        <3>2. KeyPair(k, n).key = k /\ KeyPair(k, n).val = n
            BY DEF KeyPair
        <3>3. ASSUME NEW q \in Content(varLookUp') PROVE VarEntry(q.val, q.key)'
            <4>1. q \in Content(varLookUp) \/ q = KeyPair(k, n)
                BY <2>8
            <4>2. q = KeyPair(k, n) => q.key = k /\ q.val = n
                BY <3>2
            <4>3. QED
                BY <2>6, <3>1, <4>1, <4>2
        <3>4. QED
            BY <1>4, <2>6, <3>3 DEF EntryNames
    <2>12. EntryPlaces'
        <3> DEFINE N == Registered \cup DeclaredBy("var")
        <3>1. \A q \in Content(varLookUp) : q.key \in N
            BY EntryFacts
        <3>2. Spread(Hash, N) => InPlace(varLookUp)
            BY DEF LoadInv, EntryPlaces
        <3>3. Registered' \cup DeclaredBy("var")' = N \cup {k}
            BY <2>6 DEF Registered
        <3> HIDE DEF N
        <3>4. Spread(Hash, N \cup {k}) => InPlace(varLookUp')
            BY <1>4, <2>1, <2>4, <2>7, <3>1, <3>2, DeclaredInPlace DEF k
        <3>5. QED
            BY <1>4, <2>6, <3>3, <3>4 DEF LoadInv, EntryPlaces
    <2>13. Len(var') \in Nat /\ Len(var) <= Len(var') /\ line \in StoredLines(Len(var'))
        BY <2>1, <2>2, <2>4 DEF n
    <2>14. QED
        BY <1>1, <1>4, <2>10, <2>11, <2>12, <2>13, PushedKeeps DEF line
<1>5. QED
    BY <1>3, <1>4 DEF ReadVar

LEMMA ReadLabelKeeps == ASSUME LoadInv, ReadLabel PROVE LoadInv'
<1> DEFINE m == Len(label)
           k == Declared
<1>1. Reads({"line"}) /\ Known(Current) /\ Current.op = "lbl"
    BY DEF ReadLabel, ReadsOp
<1>2. phase = "load"
    BY <1>1, ReadsFacts
<1>3. CASE Fail("DuplicatedSymbols") \/ Fail("undefined")
    BY <1>2, <1>3, FailKeeps DEF ReadErrors
<1>4. CASE /\ ~Lookup(Hash, labelLookUp, Declared).found /\ Room(1)
           /\ label' = Append(label, Labelled)
           /\ labelLookUp' = Insert(Hash, labelLookUp, Declared, m)
           /\ UNCHANGED <<var, varLookUp>>
           /\ Pushed(Entered(m))
    <2>1. m \in Nat /\ label \in Seq(Nat) /\ Len(code) \in Nat /\ Len(var) \in Nat /\ Len(var) >= 2
        BY CodeFacts
    <2>2. label' \in Seq(Nat) /\ Len(label') = m + 1 /\ label'[m + 1] = Len(code)
          /\ \A i \in 1..m : label'[i] = label[i]
        BY <1>4, <2>1, AppendProperties DEF Labelled
    <2> DEFINE line == Entered(m)
    <2> HIDE DEF m
    <2>3. line \in StoredLines(Len(var)) /\ line.op = "lbl" /\ line.args[1].name = k /\ k \in Keys
        <3>1. Len(var) > 0
            BY <2>1
        <3>2. QED
            BY <1>1, <2>1, <3>1, EnteredFacts, CurrentFacts
    <2> HIDE DEF line, k
    <2>4. code' = Append(code, line) /\ Len(var) <= Len(var)
        BY <1>4, <2>1 DEF Pushed, line
    <2>5. /\ Len(code') = Len(code) + 1 /\ code'[Len(code) + 1] = line
          /\ DeclaredBy("var")' = DeclaredBy("var")
          /\ DeclaredBy("lbl")' = DeclaredBy("lbl") \cup {k}
          /\ \A i \in 1..Len(label) : label[i] < Len(code') /\ code'[label[i] + 1].op = "lbl"
          /\ \A q \in Content(varLookUp) : VarEntry(q.val, q.key)'
          /\ \A q \in Content(labelLookUp) : code'[label[q.val + 1] + 1].args[1].name = q.key
        BY <2>1, <2>3, <2>4, LineAppended
    <2>6. TableBelow(labelLookUp, m)
        BY DEF LoadInv, EntryType, m
    <2>7. TableBelow(labelLookUp', m + 1) /\ Content(labelLookUp') \subseteq Content(labelLookUp) \cup {KeyPair(k, m)}
        BY <1>4, <2>1, <2>3, <2>6, InsertBelow DEF k
    <2>8. \A i \in 1..m + 1 : i \in 1..m \/ i = m + 1
        BY <2>1
    <2>9. EntryType'
        <3>1. Len(label') <= Len(code')
            <4>1. m <= Len(code)
                BY DEF LoadInv, EntryType, m
            <4>2. QED
                BY <2>1, <2>2, <2>5, <4>1
        <3>2. Len(code) < Len(code') /\ code'[Len(code) + 1].op = "lbl"
            BY <2>1, <2>3, <2>5
        <3>3. \A i \in 1..Len(label') : label'[i] < Len(code') /\ code'[label'[i] + 1].op = "lbl"
            BY <2>2, <2>5, <2>8, <3>2 DEF m
        <3>4. var' \in Seq(0..Registers + 1) /\ Len(var') \in Registers + 2..MaxLines /\ TableBelow(varLookUp', Len(var'))
            BY <1>4 DEF LoadInv, EntryType
        <3>5. QED
            BY <2>2, <2>7, <3>1, <3>3, <3>4 DEF EntryType
    <2>10. EntryNames'
        <3>1. ASSUME NEW q \in Content(labelLookUp) PROVE code'[label'[q.val + 1] + 1].args[1].name = q.key
            <4>1. q.val + 1 \in 1..m
                BY EntryFacts DEF m
            <4>2. QED
                BY <2>2, <2>5, <4>1
        <3>2. KeyPair(k, m).key = k /\ KeyPair(k, m).val = m
            BY DEF KeyPair
        <3>3. code'[label'[m + 1] + 1].args[1].name = k
            BY <2>2, <2>3, <2>5
        <3>4. \A q \in Content(labelLookUp') : code'[label'[q.val + 1] + 1].args[1].name = q.key
            BY <2>7, <3>1, <3>2, <3>3
        <3>5. QED
            BY <1>4, <2>5, <3>4 DEF EntryNames
    <2>11. EntryPlaces'
        <3> DEFINE N == DeclaredBy("lbl")
        <3>1. \A q \in Content(labelLookUp) : q.key \in N
            BY EntryFacts
        <3>2. Spread(Hash, N) => InPlace(labelLookUp)
            BY DEF LoadInv, EntryPlaces
        <3>3. DeclaredBy("lbl")' = N \cup {k}
            BY <2>5
        <3> HIDE DEF N
        <3>4. Spread(Hash, N \cup {k}) => InPlace(labelLookUp')
            BY <1>4, <2>1, <2>3, <2>6, <3>1, <3>2, DeclaredInPlace DEF k
        <3>5. Registered' = Registered
            BY DEF Registered
        <3>6. QED
            BY <1>4, <2>5, <3>3, <3>4, <3>5 DEF LoadInv, EntryPlaces
    <2>12. Len(var') \in Nat /\ Len(var) <= Len(var') /\ line \in StoredLines(Len(var'))
        BY <1>4, <2>1, <2>3
    <2>13. QED
        BY <1>1, <1>4, <2>9, <2>10, <2>11, <2>12, PushedKeeps DEF line
<1>5. QED
    BY <1>3, <1>4 DEF ReadLabel

(***************************************************************************)
(* The end of a file.                                                      *)
(***************************************************************************)
LEMMA EndSourceKeeps == ASSUME LoadInv, EndSource PROVE LoadInv'
<1> DEFINE n == Len(frames)
           g == frames[n - 1]
           f == [g EXCEPT !.read = @ + 1]
           rest == SubSeq(frames, 1, n - 1)
<1>1. AtEnd /\ n > 1 /\ phase = "load"
    BY DEF EndSource, AtEnd
<1>2. CASE Fail("undefined")
    BY <1>1, <1>2, FailKeeps
<1>3. CASE /\ Room(2) /\ code' = Inlined
           /\ frames' = [SubSeq(frames, 1, n - 1) EXCEPT ![n - 1].read = @ + 1]
           /\ ptr' = ptr + 1
           /\ UNCHANGED <<text, mem, tables, phase>>
    <2>1. frames \in Seq(FrameRecords) /\ n \in Nat
        BY FrameFacts
    <2>2. n - 1 \in Nat /\ n - 1 \in 1..n /\ n - 1 \in 1..n - 1 /\ n \in 2..n /\ n - 1 <= n
        BY <1>1, <2>1
    <2>3. g \in FrameRecords /\ g.open /\ g.read < Len(Files[g.file])
        BY <2>1, <2>2, ElementOfSeq DEF LoadInv, FrameType
    <2>4. g.file \in DOMAIN Files
        BY <2>2, <2>3 DEF LoadInv, FrameType
    <2>5. f \in FrameRecords /\ f.open /\ f.file = g.file /\ f.line = g.line /\ f.read = g.read + 1
        BY <2>3, FrameFields
    <2>6. f.read <= Len(Files[f.file])
        <3>1. g.read \in Nat /\ Len(Files[g.file]) \in Nat
            BY <2>3, <2>4, FrameFields, FileFacts
        <3>2. QED
            BY <2>3, <2>5, <3>1
    <2>7. rest \in Seq(FrameRecords) /\ Len(rest) = n - 1 /\ \A k \in 1..n - 1 : rest[k] = frames[k]
        <3>1. \A k \in 1..n - 1 : k \in 1..n
            BY <2>1
        <3>2. \A k \in 1..n - 1 : frames[k] \in FrameRecords
            BY <2>1, <3>1, ElementOfSeq
        <3>3. rest \in Seq(FrameRecords) /\ Len(rest) = n - 1 /\ \A k \in 1..n - 1 - 1 + 1 : rest[k] = frames[1 + k - 1]
            <4>1. n - 1 \in Int /\ 1 \in Int /\ 1 <= n - 1 /\ (n - 1) - 1 + 1 = n - 1
                BY <2>2
            <4>2. QED
                BY <3>2, <4>1, SubSeqProperties
        <3>4. \A k \in 1..n - 1 : k \in 1..n - 1 - 1 + 1 /\ 1 + k - 1 = k
            BY <2>1
        <3>5. QED
            BY <3>3, <3>4
    <2>8. frames' = [rest EXCEPT ![n - 1] = f]
        <3>1. rest[n - 1] = g
            BY <2>2, <2>7
        <3>2. QED
            BY <1>3, <3>1
    <2> HIDE DEF rest, f
    <2>9. frames' \in Seq(FrameRecords) /\ Len(frames') = n - 1
          /\ \A k \in 1..n - 1 : frames'[k] = IF k = n - 1 THEN f ELSE rest[k]
        BY <2>2, <2>5, <2>7, <2>8, ExceptSeq
    <2>10. Files' = Files
        BY <1>3 DEF Files
    <2>11. \A k \in 1..n - 1 : frames'[k] = IF k = n - 1 THEN f ELSE frames[k]
        BY <2>7, <2>9
    <2>12. FrameType'
        <3>1. ASSUME NEW k \in 1..n - 1
              PROVE  /\ frames'[k].line = frames[k].line
                     /\ IF frames'[k].open
                        THEN frames'[k].file \in DOMAIN Files /\ frames'[k].read <= Len(Files[frames'[k].file])
                        ELSE frames'[k].read = 0
            <4>1. k \in 1..n
                BY <2>1
            <4>2. CASE k = n - 1
                BY <2>4, <2>5, <2>6, <2>11, <4>2
            <4>3. CASE k # n - 1
                BY <2>11, <4>1, <4>3 DEF LoadInv, FrameType
            <4>4. QED
                BY <4>2, <4>3
        <3>2. ASSUME NEW k \in 2..n - 1 PROVE frames'[k].line \in WaitingLines
            <4>1. k \in 1..n - 1 /\ k \in 2..n
                BY <2>1
            <4>2. QED
                BY <3>1, <4>1 DEF LoadInv, FrameType
        <3>3. ASSUME NEW k \in 1..n - 1 - 1 PROVE frames'[k].open /\ frames'[k].read < Len(Files[frames'[k].file])
            <4>1. k \in 1..n - 1 /\ k # n - 1
                BY <2>1
            <4>2. QED
                BY <2>11, <4>1 DEF LoadInv, FrameType
        <3> HIDE DEF n
        <3>4. \A k \in 2..Len(frames') : frames'[k].line \in WaitingLines
            BY <2>9, <3>2
        <3>5. \A k \in 1..Len(frames') :
                IF frames'[k].open THEN frames'[k].file \in DOMAIN Files' /\ frames'[k].read <= Len(Files'[frames'[k].file])
                ELSE frames'[k].read = 0
            BY <2>9, <2>10, <3>1
        <3>6. \A k \in 1..Len(frames') - 1 : frames'[k].open /\ frames'[k].read < Len(Files'[frames'[k].file])
            BY <2>9, <2>10, <3>3
        <3>7. QED
            BY <2>9, <3>4, <3>5, <3>6 DEF FrameType
    <2>13. frames' # <<>>
        BY <2>2, <2>9, EmptySeq
    <2> DEFINE N == Len(var)
    <2>14. code \in Seq(StoredLines(N)) /\ Len(code) \in Nat /\ N \in Nat /\ N >= 2
        BY CodeFacts
    <2>15. Top.line \in StoredLines(N) /\ Top.line.op = "src" /\ HaltLine \in StoredLines(N)
        <3>1. Top.line \in WaitingLines
            BY <2>2 DEF LoadInv, FrameType, Top
        <3>2. Top.line \in StoredLines(1) /\ Top.line.op = "src"
            BY <3>1 DEF WaitingLines
        <3>3. 1 <= N
            BY <2>14
        <3>4. StoredLines(1) \subseteq StoredLines(N)
            BY <2>14, <3>3, StoredGrow
        <3>5. QED
            BY <2>14, <3>2, <3>4, HaltStored
    <2> DEFINE halted == Append(code, HaltLine)
               waiting == Top.line
    <2> HIDE DEF waiting, N
    <2>16. halted \in Seq(StoredLines(N)) /\ Len(halted) = Len(code) + 1 /\ halted[Len(code) + 1] = HaltLine
           /\ \A i \in 1..Len(code) : halted[i] = code[i]
        BY <2>14, <2>15, AppendProperties
    <2>17. code' = Append(halted, waiting)
        BY <1>3 DEF Inlined, Halted, waiting
    <2> HIDE DEF halted
    <2>18. code' \in Seq(StoredLines(N)) /\ Len(code') = Len(halted) + 1 /\ code'[Len(halted) + 1] = waiting
           /\ \A i \in 1..Len(halted) : code'[i] = halted[i]
        BY <2>15, <2>16, <2>17, AppendProperties DEF waiting
    <2> DEFINE c == Len(code)
    <2>19. c \in Nat /\ Len(code') = c + 2 /\ Len(halted) = c + 1
        BY <2>14, <2>16, <2>18
    <2> HIDE DEF c
    <2>20. code'[c + 1] = HaltLine /\ code'[c + 2] = waiting /\ \A i \in 1..c : code'[i] = code[i]
        <3>1. c + 1 + 1 = c + 2 /\ c + 1 \in 1..c + 1 /\ \A i \in 1..c : i \in 1..c + 1
            BY <2>19
        <3>2. QED
            BY <2>16, <2>18, <2>19, <3>1 DEF c
    <2>21. Len(code') <= MaxLines
        BY <1>3, <2>19 DEF Room, c
    <2>22. UNCHANGED <<text, mem, phase, var, label, varLookUp, labelLookUp>>
        BY <1>3 DEF tables
    <2>23. EntryType' /\ EntryNames' /\ EntryPlaces'
        <3>1. \A i \in 1..Len(code') : i > c => i = c + 1 \/ i = c + 2
            BY <2>19
        <3>2. HaltLine.op = "halt"
            BY DEF HaltLine
        <3>3. \A i \in 1..Len(code') : i > c => code'[i].op \notin {"var", "lbl"}
            BY <2>15, <2>20, <3>1, <3>2 DEF waiting
        <3>4. Len(code') \in Nat /\ c <= Len(code')
            BY <2>19
        <3>5. QED
            BY <2>20, <2>22, <3>3, <3>4, UndeclaredKeep DEF c
    <2>24. ErrorNamesLine'
        <3>1. c + 2 \in DOMAIN code'
            BY <2>18, <2>19, LenProperties
        <3>2. code'[c + 2].op = "src"
            BY <2>15, <2>20 DEF waiting
        <3>3. QED
            BY <3>1, <3>2 DEF ErrorNamesLine
    <2>25. ptr' \in Nat
        BY <1>3 DEF LoadInv, LoadType
    <2>26. code' \in Seq(StoredLines(Len(var')))
        BY <2>18, <2>22 DEF N
    <2>27. LoadType'
        <3>1. text' \in DOMAIN Sources /\ mem' \in Seq(LtlCells) /\ Len(mem') \in Registers + 2..MaxMem
            BY <2>22 DEF LoadInv, LoadType
        <3>2. phase' = "load"
            BY <1>1, <2>22
        <3>3. QED
            BY <2>13, <2>21, <2>25, <2>26, <3>1, <3>2 DEF LoadType
    <2>28. SettledInv'
        BY <1>1, <2>22, NothingSettled
    <2>29. QED
        BY <2>12, <2>23, <2>24, <2>27, <2>28 DEF LoadInv
<1>4. QED
    BY <1>2, <1>3 DEF EndSource

LEMMA EndMainKeeps == ASSUME LoadInv, EndMain PROVE LoadInv'
<1>1. phase = "load"
    BY DEF EndMain, AtEnd
<1>2. CASE Fail("undefined")
    BY <1>1, <1>2, FailKeeps
<1>3. CASE /\ Room(1) /\ code' = Halted
           /\ frames' = <<>>
           /\ ptr' = FirstLine
           /\ phase' = "resolve"
           /\ UNCHANGED <<text, mem, tables>>
    <2> DEFINE N == Len(var)
               c == Len(code)
    <2>1. code \in Seq(StoredLines(N)) /\ c \in Nat /\ N \in Nat /\ HaltLine \in StoredLines(N)
        BY CodeFacts, HaltStored
    <2>2. HaltLine.op = "halt"
        BY DEF HaltLine
    <2> HIDE DEF N
    <2>3. code' \in Seq(StoredLines(N)) /\ code' # <<>> /\ Len(code') = c + 1 /\ code'[c + 1] = HaltLine
          /\ \A i \in 1..c : code'[i] = code[i]
        BY <1>3, <2>1, AppendProperties DEF Halted
    <2>4. UNCHANGED <<text, mem, var, label, varLookUp, labelLookUp>> /\ ptr' = 0
        BY <1>3 DEF tables, FirstLine
    <2>5. EntryType' /\ EntryNames' /\ EntryPlaces'
        <3>1. \A i \in 1..Len(code') : i > c => i = c + 1
            BY <2>1, <2>3
        <3>2. \A i \in 1..Len(code') : i > c => code'[i].op \notin {"var", "lbl"}
            BY <2>2, <2>3, <3>1
        <3>3. Len(code') \in Nat /\ c <= Len(code')
            BY <2>1, <2>3
        <3>4. QED
            BY <2>3, <2>4, <3>2, <3>3, UndeclaredKeep
    <2>6. FrameType' /\ ErrorNamesLine'
        <3>1. Len(frames') = 0 /\ \A S : frames' \in Seq(S)
            BY <1>3, EmptySeq
        <3>2. (\A k \in 1..Len(frames') : FALSE) /\ (\A k \in 2..Len(frames') : FALSE) /\ (\A k \in 1..Len(frames') - 1 : FALSE)
            BY <3>1
        <3>3. QED
            BY <3>1, <3>2 DEF FrameType, ErrorNamesLine
    <2>7. SettledInv'
        <3>1. Through' = 0
            BY <1>3, <2>4 DEF Through
        <3>2. QED
            BY <3>1 DEF SettledInv, SettledLines
    <2>8. LoadType'
        <3>1. text' \in DOMAIN Sources /\ mem' \in Seq(LtlCells) /\ Len(mem') \in Registers + 2..MaxMem
            BY <2>4 DEF LoadInv, LoadType
        <3>2. Len(code') <= MaxLines /\ ptr' \in Nat /\ ptr' \in 0..Len(code')
            BY <1>3, <2>1, <2>3, <2>4 DEF Room
        <3>3. code' \in Seq(StoredLines(Len(var')))
            BY <2>3, <2>4 DEF N
        <3>4. code'[Len(code')].op = "halt"
            BY <2>2, <2>3
        <3>5. QED
            BY <1>3, <2>3, <3>1, <3>2, <3>3, <3>4 DEF LoadType
    <2>9. QED
        BY <2>5, <2>6, <2>7, <2>8 DEF LoadInv
<1>4. QED
    BY <1>2, <1>3 DEF EndMain

LEMMA EndResolveKeeps == ASSUME LoadInv, EndResolve PROVE LoadInv'
<1>1. phase = "resolve" /\ ptr = Len(code) /\ ptr' = 0 /\ phase' = "run"
      /\ UNCHANGED <<text, frames, code, mem, var, label, varLookUp, labelLookUp>>
    BY DEF EndResolve, FirstLine, tables
<1>2. frames = <<>>
    BY <1>1, FrameFacts
<1>3. EntryType' /\ EntryNames' /\ EntryPlaces'
    BY <1>1, TablesKeep
<1>4. FrameType'
    BY <1>1 DEF LoadInv, FrameType, Files
<1>5. ErrorNamesLine'
    <2>1. Len(frames') # 1
        BY <1>1, <1>2
    <2>2. QED
        BY <2>1 DEF ErrorNamesLine
<1>6. SettledInv'
    <2>1. Through' = Through
        BY <1>1 DEF Through
    <2>2. QED
        BY <1>1, <2>1 DEF LoadInv, SettledInv, SettledLines, Settled, Looks
<1>7. LoadType'
    <2>1. Len(code) \in Nat
        BY CodeFacts
    <2>2. ptr' \in Nat /\ ptr' \in 0..Len(code')
        BY <1>1, <2>1
    <2>3. QED
        BY <1>1, <1>2, <2>2 DEF LoadInv, LoadType
<1>8. QED
    BY <1>3, <1>4, <1>5, <1>6, <1>7 DEF LoadInv

(***************************************************************************)
(* The next line is resolved.                                              *)
(***************************************************************************)
LEMMA ResolvedFacts ==
    ASSUME LoadInv, NEW line \in StoredLines(Len(var)), ~Skipped(line), Resolved(line).err = "ok"
    PROVE  LET done == Resolved(line)
               r == [op |-> line.op, args |-> done.args]
           IN  /\ r \in StoredLines(Len(var)) /\ ~Skipped(r)
               /\ line.op \in {"var", "lbl"} => done.args[1] = line.args[1]
               /\ done.args \in Seq(Toks(Len(var))) /\ Len(done.args) \in 0..3 /\ Len(line.args) = Len(done.args)
               /\ done.mem \in Seq(LtlCells) /\ Len(mem) <= Len(done.mem) /\ Len(done.mem) <= MaxMem
               /\ \A i \in 1..Len(mem) : done.mem[i] = mem[i]
               /\ Done(done, line, 3)
<1> DEFINE n == Len(var)
           done == Resolved(line)
           args == done.args
           r == [op |-> line.op, args |-> args]
           T == TargetAt(line.op)
<1>1. n \in Nat
    BY CodeFacts
<1>2. Acc(done, line, 3)
    BY ResolvedDone
<1> HIDE DEF done
<1>3. Kept(done, line) /\ Done(done, line, 3)
    BY <1>2 DEF Acc, done
<1>4. /\ done.mem \in Seq(LtlCells) /\ Len(mem) <= Len(done.mem) /\ Len(done.mem) <= MaxMem
      /\ \A i \in 1..Len(mem) : done.mem[i] = mem[i]
      /\ args \in Seq(Toks(n)) /\ Len(args) = Len(line.args)
      /\ \A k \in 1..Len(line.args) : Reindexed(args[k], line.args[k])
      /\ T = 0 => \A k \in 1..Len(line.args) : line.args[k].t = "Sym" => args[k] = line.args[k]
    BY <1>3 DEF Kept
<1> HIDE DEF args, n
<1>5. Known(line) /\ line.op \in Ops /\ DOMAIN line.args = 1..Len(line.args) /\ Len(line.args) \in Nat
      /\ (line.op = "var" => line.args[1].idx \in 0..n - 1)
    BY <1>1, StoredFacts DEF n
<1>6. DOMAIN args = 1..Len(line.args)
    BY <1>4, LenProperties
<1>7. \A k \in 1..Len(line.args) : args[k].t = line.args[k].t
    BY <1>4 DEF Reindexed
<1>8. r.op = line.op /\ r.args = args
    OBVIOUS
<1> HIDE DEF r
<1>9. Known(r)
    BY <1>4, <1>5, <1>6, <1>7, <1>8, KnownOp
<1>10. Len(args) \in 0..3
    BY <1>4, <1>5, SignatureFacts DEF Known
<1>11. (T # 0 => T \in 1..Len(line.args)) /\ (line.op \in {"var", "lbl"} => T = 0)
    BY <1>1, TargetFacts DEF n
<1>12. line.op \in {"var", "lbl"} => args[1] = line.args[1]
    <2> SUFFICES ASSUME line.op \in {"var", "lbl"} PROVE args[1] = line.args[1]
        OBVIOUS
    <2>1. Len(Signature(line.op)) >= 1 /\ Signature(line.op)[1] = SYM
        BY SignatureOf
    <2>2. 1 \in 1..Len(line.args)
        BY <1>5, <2>1 DEF Known
    <2>3. line.args[1].t = "Sym"
        BY <1>5, <2>1, <2>2 DEF Known, SYM
    <2>4. QED
        BY <1>4, <1>11, <2>2, <2>3
<1>13. r \in StoredLines(n)
    <2>1. line.op = "var" => args[1].idx \in 0..n - 1
        BY <1>5, <1>12
    <2> HIDE DEF T
    <2>2. QED
        BY <1>1, <1>4, <1>5, <1>9, <2>1, NewLine DEF r
<1>14. ~Skipped(r)
    BY <1>7, <1>8, <1>11 DEF Skipped
<1>15. QED
    BY <1>3, <1>4, <1>10, <1>12, <1>13, <1>14 DEF r, args, done, n

\* Passing over a line, or an error.
LEMMA SkipKeeps ==
    ASSUME LoadInv, phase = "resolve", ptr < Len(code), Skipped(code[ptr + 1]),
           ptr' = ptr + 1, UNCHANGED <<text, frames, code, mem, tables, phase>>
    PROVE  LoadInv'
<1>1. UNCHANGED <<text, frames, code, mem, var, label, varLookUp, labelLookUp, phase>>
    BY DEF tables
<1>2. frames = <<>>
    BY FrameFacts
<1>3. Len(code) \in Nat /\ ptr \in 0..Len(code)
    BY <1>2, CodeFacts DEF LoadInv, LoadType
<1>4. EntryType' /\ EntryNames' /\ EntryPlaces'
    BY <1>1, TablesKeep
<1>5. FrameType'
    BY <1>1 DEF LoadInv, FrameType, Files
<1>6. ErrorNamesLine'
    <2>1. Len(frames') # 1
        BY <1>1, <1>2
    <2>2. QED
        BY <2>1 DEF ErrorNamesLine
<1>7. SettledInv'
    <2>1. Through = ptr /\ Through' = ptr + 1
        BY <1>1 DEF Through
    <2>2. \A i \in 1..ptr + 1 : i \in 1..ptr \/ i = ptr + 1
        BY <1>3
    <2>3. \A i \in 1..ptr : i \in 1..ptr + 1
        BY <1>3
    <2>4. SettledLines' = SettledLines
        BY <1>1, <2>1, <2>2, <2>3 DEF SettledLines
    <2>5. QED
        BY <1>1, <2>4 DEF LoadInv, SettledInv, Settled, Looks
<1>8. LoadType'
    <2>1. ptr' \in Nat /\ ptr' \in 0..Len(code')
        BY <1>1, <1>3
    <2>2. QED
        BY <1>1, <1>2, <2>1 DEF LoadInv, LoadType
<1>9. QED
    BY <1>4, <1>5, <1>6, <1>7, <1>8 DEF LoadInv

\* The literals of a line behind those of the lines before it.
LEMMA BehindApart ==
    ASSUME NEW a, NEW b, a.idx \in Int, b.idx \in Int, Len(a.text) \in Nat, NEW w \in Nat,
           Len(a.text) + 1 - a.idx <= w, -b.idx >= w
    PROVE  Apart(a, b) /\ Apart(b, a)
<1>1. \A c, i, t \in Int : c + 1 - i <= w /\ -t >= w => c - i < -t
    OBVIOUS
<1>2. Len(a.text) \in Int
    OBVIOUS
<1>3. Len(a.text) - a.idx < -b.idx
    BY <1>1, <1>2
<1>4. QED
    BY <1>3 DEF Apart

LEMMA ResolveLineKeeps == ASSUME LoadInv, ResolveLine PROVE LoadInv'
<1> DEFINE N == Len(var)
           p == ptr + 1
           line == code[p]
           done == Resolved(line)
           r == [op |-> line.op, args |-> done.args]
<1>1. phase = "resolve" /\ ptr < Len(code)
    BY DEF ResolveLine
<1>2. frames = <<>> /\ Len(code) \in Nat /\ ptr \in 0..Len(code) /\ N \in Nat /\ Len(mem) \in Nat
    BY <1>1, CodeFacts, FrameFacts DEF LoadInv, LoadType
<1>3. p \in 1..Len(code)
    BY <1>1, <1>2
<1>4. line \in StoredLines(N) /\ code \in Seq(StoredLines(N)) /\ DOMAIN code = 1..Len(code)
    BY <1>3, CodeFacts
<1>5. CASE Skipped(line)
    <2>1. ptr' = ptr + 1 /\ UNCHANGED <<text, frames, code, mem, tables, phase>>
        BY <1>5 DEF ResolveLine
    <2>2. QED
        BY <1>1, <1>5, <2>1, SkipKeeps
<1>6. CASE ~Skipped(line) /\ done.err # "ok"
    <2>1. Fail(done.err)
        BY <1>6 DEF ResolveLine
    <2>2. done.err \in ResolveErrors
        <3>1. Acc(done, line, 3)
            BY <1>4, <1>6, ResolvedDone
        <3> HIDE DEF done
        <3>2. QED
            BY <3>1 DEF Acc, Kept
    <2>3. QED
        BY <1>1, <1>6, <2>1, <2>2, FailKeeps
<1>7. CASE ~Skipped(line) /\ done.err = "ok"
    <2>1. /\ code' = [code EXCEPT ![p] = r] /\ mem' = done.mem /\ ptr' = ptr + 1
          /\ UNCHANGED <<text, frames, var, label, varLookUp, labelLookUp, phase>>
        BY <1>7 DEF ResolveLine, tables
    <2>2. /\ r \in StoredLines(N) /\ ~Skipped(r)
          /\ line.op \in {"var", "lbl"} => done.args[1] = line.args[1]
          /\ done.args \in Seq(Toks(N)) /\ Len(done.args) \in 0..3 /\ Len(line.args) = Len(done.args)
          /\ done.mem \in Seq(LtlCells) /\ Len(mem) <= Len(done.mem) /\ Len(done.mem) <= MaxMem
          /\ \A i \in 1..Len(mem) : done.mem[i] = mem[i]
          /\ Done(done, line, 3)
        BY <1>4, <1>7, ResolvedFacts
    <2>3. r.op = line.op /\ r.args = done.args
        OBVIOUS
    <2> HIDE DEF done, r
    <2>4. code' \in Seq(StoredLines(N)) /\ Len(code') = Len(code)
          /\ \A i \in 1..Len(code) : code'[i] = IF i = p THEN r ELSE code[i]
        BY <1>3, <1>4, <2>1, <2>2, ExceptSeq
    <2> HIDE DEF line, p, N
    <2>5. \A i \in 1..Len(code) :
            /\ code'[i].op = code[i].op
            /\ code[i].op \in {"var", "lbl"} => code'[i].args[1] = code[i].args[1]
        BY <2>2, <2>3, <2>4 DEF line
    <2>6. EntryType'
        BY <2>1, <2>4, <2>5, CodeFacts DEF LoadInv, EntryType
    <2>7. DeclaredBy("var")' = DeclaredBy("var") /\ DeclaredBy("lbl")' = DeclaredBy("lbl")
        BY <2>4, <2>5 DEF DeclaredBy
    <2>8. EntryPlaces'
        BY <2>1, <2>7 DEF LoadInv, EntryPlaces
    <2>9. EntryNames'
        <3>1. ASSUME NEW q \in Content(varLookUp) PROVE VarEntry(q.val, q.key)'
            <4>1. VarEntry(q.val, q.key)
                BY DEF LoadInv, EntryNames
            <4>2. QED
                BY <2>4, <2>5, <4>1 DEF VarEntry
        <3>2. ASSUME NEW q \in Content(labelLookUp) PROVE code'[label[q.val + 1] + 1].args[1].name = q.key
            <4>1. q.val + 1 \in 1..Len(label)
                BY EntryFacts
            <4>2. label[q.val + 1] + 1 \in 1..Len(code) /\ code[label[q.val + 1] + 1].op = "lbl"
                BY <4>1, CodeFacts DEF LoadInv, EntryType
            <4>3. code[label[q.val + 1] + 1].args[1].name = q.key
                BY DEF LoadInv, EntryNames
            <4>4. QED
                BY <2>5, <4>2, <4>3
        <3>3. QED
            BY <2>1, <3>1, <3>2 DEF EntryNames
    <2>10. FrameType'
        BY <2>1 DEF LoadInv, FrameType, Files
    <2>11. ErrorNamesLine'
        <3>1. Len(frames') # 1
            BY <1>2, <2>1
        <3>2. QED
            BY <3>1 DEF ErrorNamesLine
    <2>12. LoadType'
        <3>1. mem' \in Seq(LtlCells) /\ Len(mem') \in Registers + 2..MaxMem
            <4>1. Len(mem') \in Nat
                BY <2>1, <2>2, LenProperties
            <4>2. Len(mem) >= Registers + 2 /\ Len(mem) <= Len(mem') /\ Len(mem') <= MaxMem
                BY <2>1, <2>2 DEF LoadInv, LoadType
            <4>3. QED
                BY <1>2, <2>1, <2>2, <4>1, <4>2, Bounds
        <3>2. ptr' \in Nat /\ ptr' \in 0..Len(code')
            BY <1>1, <1>2, <2>1, <2>4
        <3>3. code # <<>> /\ code[Len(code)].op = "halt"
            BY <1>2 DEF LoadInv, LoadType
        <3>4. Len(code) \in 1..Len(code)
            BY <1>1, <1>2
        <3>5. code' # <<>> /\ code'[Len(code')].op = "halt"
            <4>1. Len(code') # 0
                BY <2>4, <3>4
            <4>2. QED
                BY <2>4, <2>5, <3>3, <3>4, <4>1, EmptySeq
        <3>6. code' \in Seq(StoredLines(Len(var')))
            BY <2>1, <2>4 DEF N
        <3>7. text' \in DOMAIN Sources /\ Len(code') <= MaxLines
            BY <2>1, <2>4 DEF LoadInv, LoadType
        <3>8. phase' = "resolve" /\ frames' = <<>>
            BY <1>1, <1>2, <2>1
        <3>9. QED
            BY <3>1, <3>2, <3>5, <3>6, <3>7, <3>8 DEF LoadType
    <2>13. SettledInv'
        <3> DEFINE O == SettledLines
        <3>1. Through = ptr /\ Through' = ptr + 1 /\ ptr \in Nat
            BY <1>1, <1>2, <2>1 DEF Through
        <3>2. \A i \in 1..ptr + 1 : i \in 1..Len(code) /\ (i = p \/ (i \in 1..ptr /\ i # p))
            BY <1>1, <1>2 DEF p
        <3>3. ASSUME NEW i \in SettledLines' PROVE i \in 1..Len(code) /\ (i = p \/ (i \in O /\ i # p /\ code'[i] = code[i]))
            <4>1. i \in 1..ptr + 1 /\ ~Skipped(code'[i])
                BY <3>1 DEF SettledLines
            <4>2. i \in 1..Len(code) /\ (i = p \/ (i \in 1..ptr /\ i # p))
                BY <3>2, <4>1
            <4>3. CASE i = p
                BY <4>2, <4>3
            <4>4. CASE i \in 1..ptr /\ i # p
                <5>1. code'[i] = code[i]
                    BY <2>4, <4>2, <4>4
                <5>2. i \in SettledLines
                    BY <3>1, <4>1, <4>4, <5>1 DEF SettledLines
                <5>3. QED
                    BY <4>2, <4>4, <5>1, <5>2
            <4>5. QED
                BY <4>2, <4>3, <4>4
        <3>4. code'[p] = r /\ Len(r.args) = Len(line.args) /\ Len(r.args) \in 0..3
            BY <1>3, <2>2, <2>3, <2>4
        <3>5. ASSUME NEW k \in 1..Len(r.args)
              PROVE  /\ k \in 1..Len(line.args) /\ k <= 3
                     /\ Settled(mem', r.args[k])
                     /\ k = TargetAt(r.op) => Looks(labelLookUp, r.args[k])
                     /\ r.args[k].t = "Ltl" => -r.args[k].idx >= Len(mem)
            <4>1. k \in 1..Len(line.args) /\ k <= 3 /\ k # 0
                <5>1. \A m \in 0..3 : \A x \in 1..m : x <= 3 /\ x # 0
                    OBVIOUS
                <5>2. QED
                    BY <3>4, <5>1
            <4>2. QED
                BY <2>1, <2>2, <2>3, <4>1 DEF Done
        <3>6. ASSUME NEW i \in O, NEW k \in 1..Len(code[i].args)
              PROVE  /\ code[i].args[k] \in Toks(N)
                     /\ Settled(mem', code[i].args[k])
                     /\ k = TargetAt(code[i].op) => Looks(labelLookUp, code[i].args[k])
                     /\ code[i].args[k].t = "Ltl" => Len(code[i].args[k].text) + 1 - code[i].args[k].idx <= Len(mem)
            <4> DEFINE tok == code[i].args[k]
            <4>1. i \in 1..Len(code)
                BY <1>2, <3>1 DEF SettledLines
            <4>2. code[i] \in StoredLines(N) /\ code[i].args \in Seq(Toks(N))
                BY <1>2, <4>1, CodeFacts, StoredFacts DEF N
            <4>3. tok \in Toks(N)
                BY <4>2, ElementOfSeq
            <4>4. Settled(mem, tok) /\ (k = TargetAt(code[i].op) => Looks(labelLookUp, tok))
                BY DEF LoadInv, SettledInv
            <4>5. ASSUME tok.t = "Ltl" PROVE Placed(mem, tok) /\ Placed(mem', tok)
                <5>1. Placed(mem, tok) /\ mem \in Seq(LtlCells)
                    BY <4>4, <4>5 DEF Settled, LoadInv, LoadType
                <5>2. tok.text \in Seq(LtlCells) /\ tok.idx \in Int
                    BY <1>2, <4>3, <4>5, LtlFacts
                <5> HIDE DEF tok
                <5>3. QED
                    BY <2>1, <2>2, <5>1, <5>2, PlacedGrows
            <4>6. QED
                BY <4>3, <4>4, <4>5 DEF Settled, Placed
        <3>7. ASSUME NEW i \in SettledLines', NEW k \in 1..Len(code'[i].args)
              PROVE  /\ Settled(mem', code'[i].args[k])
                     /\ k = TargetAt(code'[i].op) => Looks(labelLookUp, code'[i].args[k])
            BY <3>3, <3>4, <3>5, <3>6
        <3>8. ASSUME NEW i \in O, NEW k \in 1..Len(code[i].args), NEW l \in 1..Len(r.args),
                     code[i].args[k].t = "Ltl", r.args[l].t = "Ltl"
              PROVE  Apart(code[i].args[k], r.args[l]) /\ Apart(r.args[l], code[i].args[k])
            <4> DEFINE a == code[i].args[k]
                       b == r.args[l]
            <4>1. a \in Toks(N) /\ Len(a.text) + 1 - a.idx <= Len(mem)
                BY <3>6, <3>8
            <4>2. b \in Toks(N) /\ -b.idx >= Len(mem)
                BY <2>2, <2>3, <3>5, <3>8, ElementOfSeq
            <4> HIDE DEF a, b
            <4>3. a.idx \in Int /\ Len(a.text) \in Nat /\ b.idx \in Int
                BY <1>2, <3>8, <4>1, <4>2, LtlFacts DEF a, b
            <4>4. Apart(a, b) /\ Apart(b, a)
                BY <1>2, <4>1, <4>2, <4>3, BehindApart
            <4>5. QED
                BY <4>4 DEF a, b
        <3>9. ASSUME NEW i \in SettledLines', NEW j \in SettledLines',
                     NEW k \in 1..Len(code'[i].args), NEW l \in 1..Len(code'[j].args),
                     i # j \/ k # l, code'[i].args[k].t = "Ltl", code'[j].args[l].t = "Ltl"
              PROVE  Apart(code'[i].args[k], code'[j].args[l])
            <4>1. CASE i # p /\ j # p
                <5>1. i \in O /\ code'[i] = code[i] /\ j \in O /\ code'[j] = code[j]
                    BY <3>3, <4>1
                <5>2. QED
                    BY <3>9, <5>1 DEF LoadInv, SettledInv
            <4>2. CASE i # p /\ j = p
                <5>1. i \in O /\ code'[i] = code[i] /\ code'[j] = r
                    BY <3>3, <3>4, <4>2
                <5>2. QED
                    BY <3>8, <3>9, <5>1
            <4>3. CASE i = p /\ j # p
                <5>1. j \in O /\ code'[j] = code[j] /\ code'[i] = r
                    BY <3>3, <3>4, <4>3
                <5>2. QED
                    BY <3>8, <3>9, <5>1
            <4>4. CASE i = p /\ j = p
                <5>1. code'[i] = r /\ code'[j] = r /\ k # l
                    BY <3>4, <3>9, <4>4
                <5>2. k \in 1..Len(line.args) /\ l \in 1..Len(line.args) /\ k <= 3 /\ l <= 3
                    BY <3>5, <5>1
                <5>3. QED
                    BY <2>2, <2>3, <3>9, <5>1, <5>2 DEF Done
            <4>5. QED
                BY <4>1, <4>2, <4>3, <4>4
        <3>10. /\ \A i \in SettledLines' : \A k \in 1..Len(code'[i].args) :
                    /\ Settled(mem', code'[i].args[k])
                    /\ k = TargetAt(code'[i].op) => Looks(labelLookUp, code'[i].args[k])
               /\ \A i, j \in SettledLines' : \A k \in 1..Len(code'[i].args), l \in 1..Len(code'[j].args) :
                    (i # j \/ k # l) /\ code'[i].args[k].t = "Ltl" /\ code'[j].args[l].t = "Ltl" =>
                        Apart(code'[i].args[k], code'[j].args[l])
            BY <3>7, <3>9
        <3>11. QED
            BY <2>1, <3>10 DEF SettledInv, Settled, Looks
    <2>14. QED
        BY <2>6, <2>8, <2>9, <2>10, <2>11, <2>12, <2>13 DEF LoadInv
<1>8. QED
    BY <1>5, <1>6, <1>7

(***************************************************************************)
(* The theorems.                                                           *)
(***************************************************************************)
LEMMA LoadInvariant == Spec => []LoadInv
<1>1. Init => LoadInv
    BY LoadInitHolds
<1>2. LoadInv /\ [Next]_vars => LoadInv'
    <2> SUFFICES ASSUME LoadInv, [Next]_vars PROVE LoadInv'
        OBVIOUS
    <2>1. CASE Next
        <3>1. CASE Open
            BY <3>1, OpenKeeps
        <3>2. CASE ReadBad \/ ReadUnknown
            BY <3>2, ReadFailsKeep
        <3>3. CASE ReadBlank
            BY <3>3, ReadBlankKeeps
        <3>4. CASE ReadLabel
            BY <3>4, ReadLabelKeeps
        <3>5. CASE ReadVar
            BY <3>5, ReadVarKeeps
        <3>6. CASE ReadSrc
            BY <3>6, ReadSrcKeeps
        <3>7. CASE ReadOther
            BY <3>7, ReadOtherKeeps
        <3>8. CASE EndSource
            BY <3>8, EndSourceKeeps
        <3>9. CASE EndMain
            BY <3>9, EndMainKeeps
        <3>10. CASE ResolveLine
            BY <3>10, ResolveLineKeeps
        <3>11. CASE EndResolve
            BY <3>11, EndResolveKeeps
        <3>12. QED
            BY <2>1, <3>1, <3>2, <3>3, <3>4, <3>5, <3>6, <3>7, <3>8, <3>9, <3>10, <3>11 DEF Next
    <2>2. CASE UNCHANGED vars
        <3>1. UNCHANGED <<text, frames, code, ptr, mem, var, label, varLookUp, labelLookUp, phase>>
            BY <2>2 DEF vars, tables
        <3>2. EntryType' /\ EntryNames' /\ EntryPlaces'
            BY <3>1, TablesKeep
        <3>3. FrameType' /\ ErrorNamesLine'
            BY <3>1 DEF LoadInv, FrameType, Files, ErrorNamesLine, Top
        <3>4. SettledInv'
            <4>1. Through' = Through
                BY <3>1 DEF Through
            <4>2. QED
                BY <3>1, <4>1 DEF LoadInv, SettledInv, SettledLines, Settled, Looks
        <3>5. LoadType'
            BY <3>1 DEF LoadInv, LoadType
        <3>6. QED
            BY <3>2, <3>3, <3>4, <3>5 DEF LoadInv
    <2>3. QED
        BY <2>1, <2>2
<1>3. QED
    BY <1>1, <1>2, PTL DEF Spec

\* Whatever is loaded, lines are known, cells hold characters, entries name
\* registers' cells, and the calls of Code_from and the phase go together.
THEOREM LoadTypeHolds == Spec => []TypeOK
<1>1. LoadInv => TypeOK
    <2> SUFFICES ASSUME LoadInv PROVE TypeOK
        OBVIOUS
    <2>1. \A i \in DOMAIN code : Known(code[i])
        BY CodeFacts, StoredFacts
    <2>2. \A i \in DOMAIN mem : mem[i] \in {LongV(n) : n \in Longs}
        <3> SUFFICES ASSUME NEW i \in DOMAIN mem PROVE mem[i] \in {LongV(n) : n \in Longs}
            OBVIOUS
        <3>1. mem \in Seq(LtlCells)
            BY DEF LoadInv, LoadType
        <3>2. i \in 1..Len(mem)
            BY <3>1, LenProperties
        <3>3. mem[i] \in LtlCells
            BY <3>1, <3>2, ElementOfSeq
        <3>4. mem[i].n \in Longs /\ mem[i] = LongV(mem[i].n)
            BY <3>3 DEF LtlCells, LongV
        <3>5. QED
            BY <3>4
    <2>3. \A i \in DOMAIN var : var[i] \in 0..Registers + 1
        BY CodeFacts, LenProperties, ElementOfSeq
    <2>4. \A k \in 1..Len(frames) - 1 : frames[k].open /\ frames[k].read < Len(Files[frames[k].file])
        BY DEF LoadInv, FrameType
    <2>5. QED
        BY <2>1, <2>2, <2>3, <2>4 DEF TypeOK, LoadInv, LoadType
<1>2. QED
    BY <1>1, LoadInvariant, PTL

\* Until a file is sourced, Code.ptr is the number of the line that an error
\* is reported for.
THEOREM ErrorNamesLineHolds == Spec => []ErrorNamesLine
<1>1. LoadInv => ErrorNamesLine
    BY DEF LoadInv
<1>2. QED
    BY <1>1, LoadInvariant, PTL

LEMMA TokHandedOver ==
    ASSUME NEW n \in Nat, NEW tok \in Toks(n), NEW p, DOMAIN p.vars = 0..n - 1
    PROVE  IsTok(p, tok)
<1>1. CASE tok \in [t : {"Num"}, v : {v \in Value : Sound(v)}]
    BY <1>1 DEF IsTok
<1>2. CASE tok \in [t : {"Var"}, name : Keys, idx : 0..n - 1]
    BY <1>2 DEF IsTok
<1>3. CASE tok \in [t : {"Sym"}, name : Keys, idx : Nat]
    BY <1>3 DEF IsTok
<1>4. CASE tok \in [t : {"Idx"}, depth : 0..MaxNest, base : {"Var"}, name : Keys, idx : 0..n - 1]
    BY <1>4 DEF IsTok
<1>5. CASE tok \in [t : {"Idx"}, depth : 0..MaxNest, base : {"Num"}, idx : Longs]
    BY <1>5 DEF IsTok
<1>6. CASE tok \in [t : {"Ltl"}, text : Seq(LtlCells), idx : -LongMax..0]
    <2>1. tok.t = "Ltl" /\ tok.idx \in -LongMax..0
        BY <1>6
    <2>2. -tok.idx \in 0..LongMax
        BY <2>1, Bounds
    <2>3. QED
        BY <2>1, <2>2 DEF IsTok
<1>7. QED
    BY <1>1, <1>2, <1>3, <1>4, <1>5, <1>6 DEF Toks

\* The run loop is never given anything but what it assumes of a program:
\* it ends with a halt, every operand is of its kind and names an entry there
\* is, labels are lines of labels, and the registers are in memory.
THEOREM HandsOverHolds == Spec => []HandsOver
<1>1. LoadInv => HandsOver
    <2> SUFFICES ASSUME LoadInv, phase = "run" PROVE IsProgram(Result)
        BY DEF HandsOver
    <2> DEFINE p == Result
               c == Len(code)
               m == Len(label)
               n == Len(var)
               w == Len(mem)
    <2>1. /\ p.code = [i \in 0..c - 1 |-> code[i + 1]]
          /\ p.labels = [i \in 0..m - 1 |-> label[i + 1]]
          /\ p.vars = [i \in 0..n - 1 |-> var[i + 1]]
          /\ p.size = w
          /\ p.cells = [i \in 0..w - 1 |-> mem[i + 1]]
        BY DEF Result
    <2> HIDE DEF p
    <2>2. c \in Nat /\ m \in Nat /\ n \in Nat /\ w \in Nat
        BY CodeFacts
    <2>3. c \in 1..LongMax /\ code[c].op = "halt"
        <3>1. frames = <<>>
            BY FrameFacts
        <3>2. code # <<>> /\ code[c].op = "halt" /\ c <= MaxLines
            BY <3>1 DEF LoadInv, LoadType
        <3>3. c # 0
            BY <3>2, CodeFacts, EmptySeq
        <3>4. QED
            BY <2>2, <3>2, <3>3, Bounds
    <2>4. \A i \in 0..c - 1 : p.code[i] = code[i + 1] /\ i + 1 \in 1..c
        BY <2>1, <2>2
    <2>5. DOMAIN p.code = 0..c - 1 /\ DOMAIN p.vars = 0..n - 1
        BY <2>1
    <2>6. p.code[c - 1].op = "halt"
        <3>1. c - 1 \in 0..c - 1 /\ c - 1 + 1 = c
            BY <2>3
        <3>2. QED
            BY <2>3, <2>4, <3>1
    <2>7. ASSUME NEW i \in DOMAIN p.code PROVE IsLine(p, p.code[i])
        <3> DEFINE line == p.code[i]
        <3>1. line \in StoredLines(n)
            BY <2>4, <2>5, CodeFacts
        <3> HIDE DEF line
        <3>2. Known(line) /\ line.op \in Ops /\ DOMAIN line.args = 1..Len(line.args)
              /\ (\A k \in DOMAIN line.args : line.args[k] \in Toks(n))
              /\ (line.op = "var" => line.args[1].idx \in 0..n - 1)
            BY <2>2, <3>1, StoredFacts
        <3>3. DOMAIN Signature(line.op) = DOMAIN line.args
            BY <3>2, SignatureFacts DEF Known
        <3>4. \A k \in DOMAIN Signature(line.op) : line.args[k].t \in Signature(line.op)[k] /\ IsTok(p, line.args[k])
            BY <2>2, <2>5, <3>2, <3>3, TokHandedOver DEF Known
        <3>5. QED
            BY <2>5, <3>2, <3>4 DEF IsLine, line
    <2>8. m \in 0..LongMax /\ p.labels \in [0..m - 1 -> {i \in DOMAIN p.code : p.code[i].op = "lbl"}]
        <3>1. m \in 0..LongMax
            BY <2>2, <2>3, Bounds DEF LoadInv, EntryType
        <3>2. ASSUME NEW i \in 0..m - 1 PROVE label[i + 1] \in {j \in DOMAIN p.code : p.code[j].op = "lbl"}
            <4>1. i + 1 \in 1..m
                BY <2>2
            <4>2. label[i + 1] \in Nat /\ label[i + 1] < c /\ code[label[i + 1] + 1].op = "lbl"
                BY <4>1, CodeFacts DEF LoadInv, EntryType
            <4>3. label[i + 1] \in 0..c - 1
                BY <2>2, <4>2
            <4>4. QED
                BY <2>4, <2>5, <4>2, <4>3
        <3>3. QED
            BY <2>1, <3>1, <3>2
    <2>9. n \in Registers + 2..LongMax /\ p.vars \in [0..n - 1 -> 0..Registers + 1]
        <3>1. n \in Registers + 2..LongMax
            BY <2>2, Bounds DEF LoadInv, EntryType
        <3>2. ASSUME NEW i \in 0..n - 1 PROVE var[i + 1] \in 0..Registers + 1
            <4>1. i + 1 \in 1..n
                BY <2>2
            <4>2. QED
                BY <4>1, CodeFacts, ElementOfSeq
        <3>3. QED
            BY <2>1, <3>1, <3>2
    <2>10. p.size \in Registers + 2..MaxMem /\ p.cells \in [0..p.size - 1 -> [type : {"L"}, as : {"L"}, n : Longs]]
        <3>1. w \in Registers + 2..MaxMem /\ mem \in Seq(LtlCells)
            BY DEF LoadInv, LoadType
        <3>2. ASSUME NEW i \in 0..w - 1 PROVE mem[i + 1] \in LtlCells
            <4>1. i + 1 \in 1..w
                BY <2>2
            <4>2. QED
                BY <3>1, <4>1, ElementOfSeq
        <3>3. QED
            BY <2>1, <3>1, <3>2 DEF LtlCells
    <2>11. QED
        BY <2>3, <2>5, <2>6, <2>7, <2>8, <2>9, <2>10 DEF IsProgram, p
<1>2. QED
    BY <1>1, LoadInvariant, PTL

\* An operand of a program that runs is one of a line that was resolved.
LEMMA OperandFacts ==
    ASSUME LoadInv, phase = "run", NEW kinds, NEW o \in Operands(kinds)
    PROVE  /\ o[1] \in SettledLines /\ o[1] \in 1..Len(code) /\ o[2] \in 1..Len(code[o[1]].args)
           /\ o = <<o[1], o[2]>>
           /\ Operand(o) = code[o[1]].args[o[2]] /\ Operand(o).t \in kinds
           /\ Operand(o) \in Toks(Len(var))
           /\ Known(code[o[1]])
<1> DEFINE line == code[o[1]]
<1>1. o \in (DOMAIN code) \X (1..3) /\ o[2] \in DOMAIN line.args /\ ~Skipped(line) /\ line.args[o[2]].t \in kinds
    BY DEF Operands
<1>2. o[1] \in 1..Len(code) /\ o = <<o[1], o[2]>>
    BY <1>1, CodeFacts
<1>3. Through = Len(code)
    BY DEF Through
<1>4. line \in StoredLines(Len(var)) /\ Len(var) \in Nat
    BY <1>2, CodeFacts
<1> HIDE DEF line
<1>5. Known(line) /\ DOMAIN line.args = 1..Len(line.args) /\ \A k \in DOMAIN line.args : line.args[k] \in Toks(Len(var))
    BY <1>4, StoredFacts
<1>6. o[1] \in SettledLines
    BY <1>1, <1>2, <1>3 DEF SettledLines, line
<1>7. QED
    BY <1>1, <1>2, <1>5, <1>6 DEF Operand, line

\* No two literals share a cell, none lies on a register, and every one has
\* its characters and the zero that ends them, however many lines and files
\* there are between them.
THEOREM LiteralsApartHolds == Spec => []LiteralsApart
<1>1. LoadInv => LiteralsApart
    <2> SUFFICES ASSUME LoadInv, phase = "run", NEW o \in Operands({"Ltl"})
                 PROVE  LET first == 1 - Operand(o).idx
                            last == first + Len(Operand(o).text)
                        IN  /\ first > Registers + 2 /\ last <= Len(mem)
                            /\ SubSeq(mem, first, last) = Operand(o).text \o <<Zero>>
                            /\ \A q \in Operands({"Ltl"}) \ {o} : 1 - Operand(q).idx \notin first..last
        BY DEF LiteralsApart
    <2> DEFINE tok == Operand(o)
               chars == tok.text
               x == tok.idx
               c == Len(chars)
               w == Len(mem)
               first == 1 - x
               last == first + c
               expected == chars \o <<Zero>>
    <2>1. Len(var) \in Nat /\ w \in Nat /\ mem \in Seq(LtlCells)
        BY CodeFacts DEF LoadInv, LoadType
    <2>2. /\ o[1] \in SettledLines /\ o[2] \in 1..Len(code[o[1]].args)
          /\ tok = code[o[1]].args[o[2]] /\ tok.t = "Ltl" /\ tok \in Toks(Len(var)) /\ o = <<o[1], o[2]>>
        BY OperandFacts
    <2>3. Placed(mem, tok)
        BY <2>2 DEF LoadInv, SettledInv, Settled
    <2> HIDE DEF tok
    <2>4. chars \in Seq(LtlCells) /\ x \in Int /\ c \in Nat
        BY <2>1, <2>2, LtlFacts
    <2>5. -x >= Registers + 2 /\ c + 1 - x <= w /\ (\A i \in 1..c : mem[i - x] = chars[i]) /\ mem[c + 1 - x] = Zero
        BY <2>3 DEF Placed
    <2> HIDE DEF x, c, w, chars
    <2>6. first > Registers + 2 /\ last <= w /\ first \in 1..w /\ last \in Int /\ first <= last /\ last - first + 1 = c + 1
        BY <2>1, <2>4, <2>5, Bounds
    <2>7. SubSeq(mem, first, last) = expected
        <3>1. expected \in Seq(LtlCells) /\ Len(expected) = c + 1
              /\ (\A i \in 1..c : expected[i] = chars[i]) /\ expected[c + 1] = Zero
            <4>1. expected = Append(chars, Zero)
                BY <2>4, ZeroCell, AppendIsConcat
            <4> HIDE DEF expected
            <4>2. QED
                BY <2>4, <4>1, ZeroCell, AppendProperties DEF c
        <3> DEFINE cells == SubSeq(mem, first, last)
        <3>2. \A i \in first..last : mem[i] \in LtlCells
            <4>1. \A i \in first..last : i \in 1..w
                BY <2>1, <2>6
            <4>2. QED
                BY <2>1, <4>1, ElementOfSeq DEF w
        <3>3. cells \in Seq(LtlCells) /\ Len(cells) = c + 1 /\ \A i \in 1..c + 1 : cells[i] = mem[first + i - 1]
            <4>1. first \in Int /\ last \in Int
                BY <2>6
            <4> HIDE DEF first, last
            <4>2. QED
                BY <2>6, <3>2, <4>1, SubSeqProperties
        <3>4. \A i \in 1..c + 1 : first + i - 1 = i - x /\ (i \in 1..c \/ i = c + 1)
            BY <2>4
        <3> HIDE DEF cells, expected, first, last
        <3>5. \A i \in 1..c + 1 : cells[i] = expected[i]
            <4> SUFFICES ASSUME NEW i \in 1..c + 1 PROVE cells[i] = expected[i]
                OBVIOUS
            <4>1. cells[i] = mem[i - x] /\ (i \in 1..c \/ i = c + 1)
                BY <3>3, <3>4
            <4>2. CASE i \in 1..c
                BY <2>5, <3>1, <4>1, <4>2
            <4>3. CASE i = c + 1
                <5>1. i - x = c + 1 - x
                    BY <2>4, <4>3
                <5>2. cells[i] = Zero
                    BY <2>5, <4>1, <5>1
                <5>3. QED
                    BY <3>1, <4>3, <5>2
            <4>4. QED
                BY <4>1, <4>2, <4>3
        <3>6. cells = expected
            BY <3>1, <3>3, <3>5, SeqEqual
        <3>7. QED
            BY <3>6 DEF cells
    <2>8. ASSUME NEW q \in Operands({"Ltl"}) \ {o} PROVE 1 - Operand(q).idx \notin first..last
        <3> DEFINE b == Operand(q)
                   y == b.idx
                   d == Len(b.text)
        <3>1. /\ q[1] \in SettledLines /\ q[2] \in 1..Len(code[q[1]].args)
              /\ b = code[q[1]].args[q[2]] /\ b.t = "Ltl" /\ b \in Toks(Len(var)) /\ q = <<q[1], q[2]>>
            BY OperandFacts
        <3>2. o[1] # q[1] \/ o[2] # q[2]
            BY <2>2, <3>1
        <3>3. Apart(tok, b)
            BY <2>2, <3>1, <3>2 DEF LoadInv, SettledInv
        <3> HIDE DEF b
        <3>4. y \in Int /\ d \in Nat
            BY <2>1, <3>1, LtlFacts
        <3>5. c - x < -y \/ d - y < -x
            BY <3>3 DEF Apart, c, chars, x
        <3> HIDE DEF y, d
        <3>6. 1 - y \notin first..last
            BY <2>4, <3>4, <3>5
        <3>7. QED
            BY <3>6 DEF y, b
    <2>9. QED
        BY <2>6, <2>7, <2>8 DEF w, x, c, chars, tok
<1>2. QED
    BY <1>1, LoadInvariant, PTL

\* The names that are declared are among those that are looked up.
LEMMA NamesFacts ==
    ASSUME LoadInv, phase = "run"
    PROVE  Registered \subseteq Names /\ DeclaredBy("var") \subseteq Names /\ DeclaredBy("lbl") \subseteq Names
<1>1. Registered \subseteq Names
    BY DEF Registered, Names
<1>2. ASSUME NEW i \in 1..Len(code), code[i].op \in {"var", "lbl"} PROVE code[i].args[1].name \in Names
    <2> DEFINE line == code[i]
               o == <<i, 1>>
    <2>1. line \in StoredLines(Len(var)) /\ Len(var) \in Nat /\ DOMAIN code = 1..Len(code)
        BY CodeFacts
    <2>2. Known(line) /\ DOMAIN line.args = 1..Len(line.args) /\ \A k \in DOMAIN line.args : line.args[k] \in Toks(Len(var))
        BY <2>1, StoredFacts
    <2>3. Len(Signature(line.op)) >= 1 /\ Signature(line.op)[1] = SYM /\ line.op # "src"
        <3>1. line.op = "var" \/ line.op = "lbl"
            BY <1>2
        <3> HIDE DEF line
        <3>2. QED
            BY <3>1, SignatureOf
    <2>4. 1 \in DOMAIN line.args
        BY <2>2, <2>3, SignatureFacts DEF Known
    <2>5. line.args[1] \in [t : {"Sym"}, name : Keys, idx : Nat]
        BY <2>1, <2>2, <2>3, <2>4, SymFacts DEF Known
    <2>6. line.args[1].t = "Sym" /\ "name" \in DOMAIN line.args[1]
        BY <2>5
    <2>7. TargetAt(line.op) = 0
        BY <1>2, <2>1, TargetFacts
    <2>8. o[1] = i /\ o[2] = 1 /\ o \in (DOMAIN code) \X (1..3)
        BY <2>1
    <2> HIDE DEF o
    <2>9. o \in Operands({"Var", "Idx", "Sym"}) /\ Operand(o) = line.args[1]
        BY <2>4, <2>6, <2>7, <2>8 DEF Operands, Operand, Skipped
    <2>10. QED
        BY <2>3, <2>6, <2>8, <2>9 DEF Names
<1>3. QED
    BY <1>1, <1>2 DEF DeclaredBy

\* As long as no two names share a slot, every name of a program that runs
\* means its own declaration.
THEOREM NamesResolveHolds == Spec => []NamesResolve
<1>1. LoadInv => NamesResolve
    <2> SUFFICES ASSUME LoadInv, phase = "run", Spread(Hash, Names), NEW o \in Operands({"Var", "Idx", "Sym"})
                 PROVE  LET tok == Operand(o)
                            line == code[o[1]]
                        IN  /\ tok.t = "Sym" /\ o[2] = TargetAt(line.op) =>
                                    LET i == label[tok.idx + 1] + 1 IN
                                    i \in DOMAIN code /\ code[i].op = "lbl" /\ code[i].args[1].name = tok.name
                            /\ IsVar(tok) =>
                                    \/ tok.idx < Registers + 2 /\ RegisterNames[tok.idx + 1] = tok.name
                                    \/ \E i \in DOMAIN code :
                                            /\ code[i].op = "var"
                                            /\ code[i].args[1].name = tok.name
                                            /\ code[i].args[1].idx = tok.idx
        BY DEF NamesResolve
    <2> DEFINE tok == Operand(o)
               line == code[o[1]]
               k == tok.name
    <2>1. Len(var) \in Nat /\ Len(label) \in Nat /\ DOMAIN code = 1..Len(code)
        BY CodeFacts
    <2>2. /\ o[1] \in SettledLines /\ o[2] \in 1..Len(line.args)
          /\ tok = line.args[o[2]] /\ tok \in Toks(Len(var)) /\ Known(line)
        BY OperandFacts
    <2>3. Settled(mem, tok) /\ (o[2] = TargetAt(line.op) => Looks(labelLookUp, tok))
        BY <2>2 DEF LoadInv, SettledInv
    <2>4. Registered \subseteq Names /\ DeclaredBy("var") \subseteq Names /\ DeclaredBy("lbl") \subseteq Names
        BY NamesFacts
    <2>5. InPlace(varLookUp) /\ InPlace(labelLookUp)
        <3>1. Spread(Hash, Registered \cup DeclaredBy("var")) /\ Spread(Hash, DeclaredBy("lbl"))
            BY <2>4 DEF Spread
        <3>2. QED
            BY <3>1 DEF LoadInv, EntryPlaces
    <2>6. line.op = "src" => tok.t = "Sym" /\ TargetAt(line.op) = 0
        <3> SUFFICES ASSUME line.op = "src" PROVE tok.t = "Sym" /\ TargetAt(line.op) = 0
            OBVIOUS
        <3>1. Signature(line.op) = <<SYM>> /\ TargetAt(line.op) = 0
            BY SignatureOf DEF TargetAt
        <3>2. Len(line.args) = 1
            BY <2>2, <3>1 DEF Known
        <3>3. o[2] = 1 /\ 1 \in DOMAIN line.args
            BY <2>2, <3>2 DEF Operands
        <3>4. tok.t \in SYM
            BY <2>2, <3>1, <3>3 DEF Known
        <3>5. QED
            BY <3>1, <3>4 DEF SYM
    <2>7. ASSUME k \in Keys, "name" \in DOMAIN tok, line.op # "src" PROVE k \in Names
        BY <2>7 DEF Names
    <2> HIDE DEF tok, line
    <2>8. ASSUME tok.t = "Sym", o[2] = TargetAt(line.op)
          PROVE  LET i == label[tok.idx + 1] + 1 IN
                 i \in DOMAIN code /\ code[i].op = "lbl" /\ code[i].args[1].name = tok.name
        <3>1. tok \in [t : {"Sym"}, name : Keys, idx : Nat]
            BY <2>1, <2>2, <2>8, SymFacts DEF SYM
        <3>2. k \in Keys /\ "name" \in DOMAIN tok
            BY <3>1
        <3>3. line.op # "src"
            <4>1. o[2] # 0
                BY <2>2
            <4>2. QED
                BY <2>6, <2>8, <4>1
        <3>4. k \in Names
            BY <2>7, <3>2, <3>3
        <3>5. TableBelow(labelLookUp, Len(label))
            BY DEF LoadInv, EntryType
        <3>6. {q.key : q \in Content(labelLookUp)} \subseteq Names
            BY <2>4, EntryFacts
        <3>7. Lookup(Hash, labelLookUp, k).found /\ Lookup(Hash, labelLookUp, k).val = tok.idx
            BY <2>3, <2>8 DEF Looks
        <3>8. PICK q \in Content(labelLookUp) : q.key = k /\ q.val = tok.idx
            <4> HIDE DEF k
            <4>1. QED
                BY <2>1, <2>5, <3>2, <3>4, <3>5, <3>6, <3>7, OwnEntry
        <3>9. tok.idx + 1 \in 1..Len(label) /\ code[label[tok.idx + 1] + 1].args[1].name = k
            BY <3>8, EntryFacts DEF LoadInv, EntryNames
        <3>10. label[tok.idx + 1] + 1 \in 1..Len(code) /\ code[label[tok.idx + 1] + 1].op = "lbl"
            BY <3>9, CodeFacts DEF LoadInv, EntryType
        <3>11. QED
            BY <2>1, <3>9, <3>10
    <2>9. ASSUME IsVar(tok)
          PROVE  \/ tok.idx < Registers + 2 /\ RegisterNames[tok.idx + 1] = tok.name
                 \/ \E i \in DOMAIN code :
                        /\ code[i].op = "var"
                        /\ code[i].args[1].name = tok.name
                        /\ code[i].args[1].idx = tok.idx
        <3>1. tok \in [t : {"Var"}, name : Keys, idx : 0..Len(var) - 1]
                \cup [t : {"Idx"}, depth : 0..MaxNest, base : {"Var"}, name : Keys, idx : 0..Len(var) - 1]
            BY <2>2, <2>9 DEF Toks, IsVar
        <3>2. k \in Keys /\ "name" \in DOMAIN tok /\ tok.t # "Sym"
            BY <3>1
        <3>3. k \in Names
            BY <2>6, <2>7, <3>2
        <3>4. TableBelow(varLookUp, Len(var))
            BY DEF LoadInv, EntryType
        <3>5. {q.key : q \in Content(varLookUp)} \subseteq Names
            BY <2>4, EntryFacts
        <3>6. Lookup(Hash, varLookUp, k).found /\ Lookup(Hash, varLookUp, k).val = tok.idx
            BY <2>3, <2>9 DEF Settled, Looks
        <3>7. PICK q \in Content(varLookUp) : q.key = k /\ q.val = tok.idx
            <4> HIDE DEF k
            <4>1. QED
                BY <2>1, <2>5, <3>2, <3>3, <3>4, <3>5, <3>6, OwnEntry
        <3>8. VarEntry(q.val, q.key)
            BY DEF LoadInv, EntryNames
        <3>9. QED
            BY <2>1, <3>7, <3>8 DEF VarEntry
    <2>10. QED
        BY <2>8, <2>9 DEF tok, line
<1>2. QED
    BY <1>1, LoadInvariant, PTL
=============================================================================
