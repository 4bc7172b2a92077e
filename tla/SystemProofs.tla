---------------------------- MODULE SystemProofs ----------------------------
(***************************************************************************)
(* Theorems about the run loop with its files, for every program, every    *)
(* table, number of descriptors and buffer, and any files before the run.  *)
(*                                                                         *)
(* The machine is type correct as long as it runs: a call may end the run  *)
(* with a status of its own.  Text that reaches a file changes data and    *)
(* the position of a descriptor that can be written, nothing else.  What   *)
(* was given to standard output is accounted for by a ledger: each text is *)
(* in the file, or held by one of the streams.                             *)
(***************************************************************************)
EXTENDS System, MachineProofs, InductionProofs, SequenceTheorems, FunctionTheorems, FiniteSetTheorems

Descs(F) == [file : F, pos : Nat, reads : BOOLEAN, writes : BOOLEAN, append : BOOLEAN]
Files == [data : Seq(Chars), usable : BOOLEAN]
Kernel(D, F) == [fds : [D -> Descs(F)], disk : [F -> Files]]
Held == [fd : Longs, text : Seq(Chars)]

(***************************************************************************)
(* Text that reaches a file.                                               *)
(***************************************************************************)
\* What kernel k can become when text is written.
Written(k) ==
    {q \in Kernel(DOMAIN k.fds, DOMAIN k.disk) :
        \A fd \in DOMAIN k.fds :
            /\ q.fds[fd].file = k.fds[fd].file
            /\ q.fds[fd].writes = k.fds[fd].writes
            /\ k.fds[fd].writes \/ q.fds[fd].pos = k.fds[fd].pos}

LEMMA OverwrittenType ==
    ASSUME NEW data \in Seq(Chars), NEW pos \in Nat, NEW text \in Seq(Chars)
    PROVE  Overwritten(data, pos, text) \in Seq(Chars)
<1> DEFINE n == IF Len(data) > pos + Len(text) THEN Len(data) ELSE pos + Len(text)
           char(i) == IF i > pos /\ i <= pos + Len(text) THEN text[i - pos]
                      ELSE IF i <= Len(data) THEN data[i] ELSE 0
<1>1. n \in Nat /\ Len(data) \in Nat /\ Len(text) \in Nat
    BY LenProperties
<1>2. \A i \in 1..n : char(i) \in Chars
    <2> SUFFICES ASSUME NEW i \in 1..n PROVE char(i) \in Chars
        OBVIOUS
    <2>1. CASE i > pos /\ i <= pos + Len(text)
        BY <1>1, <2>1, i - pos \in 1..Len(text), ElementOfSeq
    <2>2. CASE ~(i > pos /\ i <= pos + Len(text)) /\ i <= Len(data)
        <3>1. i \in 1..Len(data)
            BY <1>1, <2>2
        <3>2. data[i] \in Chars
            BY <3>1, ElementOfSeq
        <3>3. QED
            BY <2>2, <3>2
    <2>3. CASE ~(i > pos /\ i <= pos + Len(text)) /\ ~(i <= Len(data))
        BY <2>3 DEF Chars
    <2>4. QED
        BY <2>1, <2>2, <2>3
<1>3. Overwritten(data, pos, text) = [i \in 1..n |-> char(i)]
    BY DEF Overwritten
<1> HIDE DEF n, char
<1>4. QED
    BY <1>1, <1>2, <1>3

LEMMA Fields ==
    ASSUME NEW A, NEW B, NEW q \in [fds : A, disk : B], NEW x \in B, NEW y \in A
    PROVE  /\ [q EXCEPT !.disk = x, !.fds = y] \in [fds : A, disk : B]
           /\ [q EXCEPT !.disk = x, !.fds = y].fds = y
OBVIOUS

LEMMA OutKeeps ==
    ASSUME NEW k, NEW q \in Written(k), NEW fd, NEW text \in Seq(Chars)
    PROVE  Out(q, fd, text) \in Written(k)
<1> DEFINE D == DOMAIN k.fds
           F == DOMAIN k.disk
           d == q.fds[fd]
           data == q.disk[d.file].data
           pos == IF d.append THEN Len(data) ELSE d.pos
           new == Overwritten(data, pos, text)
           disk == [q.disk EXCEPT ![d.file].data = new]
           fds == [q.fds EXCEPT ![fd].pos = pos + Len(text)]
<1>1. CASE fd \notin DOMAIN q.fds \/ ~q.fds[fd].writes
    BY <1>1 DEF Out
<1>2. CASE fd \in DOMAIN q.fds /\ q.fds[fd].writes
    <2>1. q.fds \in [D -> Descs(F)] /\ q.disk \in [F -> Files] /\ fd \in D
        BY <1>2 DEF Written, Kernel
    <2>2. d \in Descs(F) /\ d.file \in F /\ d.pos \in Nat
        BY <2>1 DEF Descs
    <2>3. q.disk[d.file] \in Files
        BY <2>1, <2>2
    <2>4. data \in Seq(Chars)
        BY <2>3 DEF Files
    <2>5. pos \in Nat /\ pos + Len(text) \in Nat
        <3>1. Len(data) \in Nat /\ Len(text) \in Nat
            BY <2>4, LenProperties
        <3> HIDE DEF d, data
        <3>2. QED
            BY <2>2, <3>1
    <2>6. new \in Seq(Chars)
        BY <2>4, <2>5, OverwrittenType
    <2>7. disk \in [F -> Files]
        <3>1. [q.disk[d.file] EXCEPT !.data = new] \in Files
            BY <2>3, <2>6 DEF Files
        <3>2. QED
            BY <2>1, <3>1
    <2>8. fds \in [D -> Descs(F)]
        <3>1. [d EXCEPT !.pos = pos + Len(text)] \in Descs(F)
            BY <2>2, <2>5 DEF Descs
        <3>2. QED
            BY <2>1, <3>1
    <2>9. Out(q, fd, text) = [q EXCEPT !.disk = disk, !.fds = fds]
        <3>1. q \in Kernel(D, F)
            BY DEF Written
        <3>2. QED
            BY <1>2, <3>1 DEF Out, Kernel
    <2>10. \A e \in D : /\ fds[e].file = q.fds[e].file
                        /\ fds[e].writes = q.fds[e].writes
                        /\ q.fds[e].writes \/ fds[e].pos = q.fds[e].pos
        BY <1>2, <2>1 DEF Descs
    <2> HIDE DEF disk, fds
    <2>11. /\ [q EXCEPT !.disk = disk, !.fds = fds] \in Kernel(D, F)
           /\ [q EXCEPT !.disk = disk, !.fds = fds].fds = fds
        BY <2>7, <2>8, Fields DEF Written, Kernel
    <2> DEFINE r == Out(q, fd, text)
    <2>12. r \in Kernel(D, F) /\ r.fds = fds
        BY <2>9, <2>11
    <2> HIDE DEF r
    <2>13. r \in Written(k)
        BY <2>10, <2>12 DEF Written
    <2>14. QED
        BY <2>13 DEF r
<1>3. QED
    BY <1>1, <1>2

LEMMA WrittenSelf ==
    ASSUME NEW k, k \in Kernel(DOMAIN k.fds, DOMAIN k.disk)
    PROVE  k \in Written(k)
BY DEF Written

\* Whatever the order in which fflush of a null stream takes the streams.
LEMMA FlushedAllSteps ==
    ASSUME os \in Kernel(DOMAIN os.fds, DOMAIN os.disk), streams \in Seq(Held),
           NEW order \in Bijection(DOMAIN streams, DOMAIN streams)
    PROVE  \E after :
            /\ after[0] = os
            /\ \A i \in 1..Len(streams) :
                after[i] = Out(after[i - 1], streams[order[i]].fd, streams[order[i]].text)
            /\ \A i \in 0..Len(streams) : after[i] \in Written(os)
            /\ FlushedAll(order) = after[Len(streams)]
<1> DEFINE m == Len(streams)
           K == Written(os)
           Is(f) == f = [n \in 0..m |->
                IF n = 0 THEN os ELSE Out(f[n - 1], streams[order[n]].fd, streams[order[n]].text)]
           F == [x \in (1..m) \X K |-> Out(x[2], streams[order[x[1]]].fd, streams[order[x[1]]].text)]
           after == CHOOSE f : Is(f)
<1>1. m \in Nat /\ DOMAIN streams = 1..m
    BY LenProperties
<1>2. os \in K
    BY WrittenSelf
<1>3. ASSUME NEW q \in K, NEW i \in 1..m
      PROVE  Out(q, streams[order[i]].fd, streams[order[i]].text) \in K
    <2>1. order[i] \in 1..m
        BY <1>1 DEF Bijection, Injection, Surjection, IsInjective
    <2>2. streams[order[i]] \in Held
        BY <2>1, ElementOfSeq
    <2>3. streams[order[i]].text \in Seq(Chars)
        BY <2>2 DEF Held
    <2>4. QED
        BY <2>3, OutKeeps
<1> HIDE DEF K, m
<1>4. F \in [(1..m) \X K -> K]
    BY <1>3
<1>5. PICK f : Iterates(f, m, K, os, F)
    <2> HIDE DEF F
    <2>1. QED
        BY <1>1, <1>2, <1>4, Iteration
<1>6. f \in [0..m -> K] /\ f[0] = os
    BY <1>5 DEF Iterates
<1>7. ASSUME NEW i \in 1..m
      PROVE  f[i] = Out(f[i - 1], streams[order[i]].fd, streams[order[i]].text)
    <2>1. f[i - 1] \in K
        BY <1>1, <1>6
    <2>2. <<i, f[i - 1]>> \in (1..m) \X K
        BY <2>1
    <2>3. F[<<i, f[i - 1]>>] = Out(f[i - 1], streams[order[i]].fd, streams[order[i]].text)
        BY <2>2
    <2> HIDE DEF F
    <2>4. QED
        BY <1>5, <2>3 DEF Iterates
<1>8. Is(f)
    BY <1>6, <1>7
<1>9. Is(after)
    <2> HIDE DEF Is
    <2>1. QED
        BY <1>8
<1>10. after[0] = os /\ \A i \in 1..m :
            after[i] = Out(after[i - 1], streams[order[i]].fd, streams[order[i]].text)
    <2>1. 0 \in 0..m /\ \A i \in 1..m : i \in 0..m /\ i # 0
        BY <1>1
    <2> HIDE DEF after
    <2>2. QED
        BY <1>9, <2>1
<1>11. FlushedAll(order) = after[m]
    BY DEF FlushedAll, m
<1> HIDE DEF after
<1>12. 0..m \subseteq {n \in 0..m : after[n] \in K}
    <2> DEFINE T == {n \in 0..m : after[n] \in K}
    <2>1. 0 \in T
        BY <1>1, <1>2, <1>10
    <2>2. \A n \in 0..m - 1 : n \in T => n + 1 \in T
        <3> SUFFICES ASSUME NEW n \in 0..m - 1, after[n] \in K PROVE n + 1 \in T
            OBVIOUS
        <3>1. n + 1 \in 1..m /\ n + 1 \in 0..m /\ n + 1 # 0 /\ n + 1 - 1 = n
            BY <1>1
        <3>2. after[n + 1] = Out(after[n], streams[order[n + 1]].fd, streams[order[n + 1]].text)
            BY <1>10, <3>1
        <3>3. QED
            BY <1>3, <3>1, <3>2
    <2> HIDE DEF T
    <2>3. 0..m \subseteq T
        BY <1>1, <2>1, <2>2, InductTo
    <2>4. QED
        BY <2>3 DEF T
<1>13. \A i \in 0..m : after[i] \in K
    BY <1>12
<1>14. QED
    BY <1>10, <1>11, <1>13 DEF K, m

LEMMA FlushedAllKeeps ==
    ASSUME os \in Kernel(DOMAIN os.fds, DOMAIN os.disk), streams \in Seq(Held),
           NEW order \in Bijection(DOMAIN streams, DOMAIN streams)
    PROVE  FlushedAll(order) \in Written(os)
<1>1. Len(streams) \in 0..Len(streams)
    BY LenProperties
<1>2. QED
    BY <1>1, FlushedAllSteps

(***************************************************************************)
(* Characters that reach memory, and numbers that become characters.       *)
(***************************************************************************)
LEMMA ToCharType == ASSUME NEW n \in Int PROVE ToChar(n) \in Chars
<1>1. n + 128 \in Int
    OBVIOUS
<1>2. QED
    BY <1>1, ModuloRange DEF ToChar, Chars

LEMMA CharValue == ASSUME NEW c \in Chars PROVE LongV(c) \in Value
<1>1. c \in Longs
    BY SystemAssumption, WidthFacts DEF Chars, Longs, LongMin
<1>2. QED
    BY <1>1, LongVType

\* Memory while it is filled: cells, changed only where the text goes.
FilledOnly(first, n) ==
    {m \in [0..size - 1 -> Value] :
        \A i \in 0..size - 1 : m[i] # Entered[i] => \E k \in 0..n - 1 : i = Abs(Wrap(first + k))}

LEMMA FillingKeeps ==
    ASSUME Entered \in [0..size - 1 -> Value], NEW first \in Int,
           NEW text \in Seq(Chars), NEW n \in 0..Len(text)
    PROVE  Filling(text, first, n) \in FilledOnly(first, n)
<1> DEFINE K == FilledOnly(first, n)
           Set(m, i) == MemSet(m, Wrap(first + i - 1), LongV(text[i]))
           Is(f) == f = [i \in 0..n |-> IF i = 0 THEN Entered
                            ELSE MemSet(f[i - 1], Wrap(first + i - 1), LongV(text[i]))]
           F == [x \in (1..n) \X K |-> Set(x[2], x[1])]
           after == CHOOSE f : Is(f)
<1>1. n \in Nat
    BY LenProperties
<1>2. Entered \in K
    BY DEF FilledOnly
<1>3. ASSUME NEW m \in K, NEW i \in 1..n
      PROVE  Set(m, i) \in K
    <2> DEFINE at == Abs(Wrap(first + i - 1))
    <2>1. LongV(text[i]) \in Value
        <3>1. i \in 1..Len(text)
            BY <1>1, LenProperties
        <3>2. QED
            BY <3>1, ElementOfSeq, CharValue
    <2>2. i - 1 \in 0..n - 1 /\ first + (i - 1) = first + i - 1
        BY <1>1
    <2>3. at = Abs(Wrap(first + (i - 1)))
        BY <2>2
    <2>4. Set(m, i) = [m EXCEPT ![at] = LongV(text[i])]
        BY DEF MemSet
    <2> HIDE DEF at, Set
    <2>5. QED
        BY <2>1, <2>2, <2>3, <2>4 DEF FilledOnly
<1> HIDE DEF K
<1>4. F \in [(1..n) \X K -> K]
    <2> HIDE DEF Set
    <2>1. QED
        BY <1>3
<1>5. PICK f : Iterates(f, n, K, Entered, F)
    <2> HIDE DEF F
    <2>1. QED
        BY <1>1, <1>2, <1>4, Iteration
<1>6. f \in [0..n -> K] /\ f[0] = Entered
    BY <1>5 DEF Iterates
<1>7. ASSUME NEW i \in 1..n PROVE f[i] = Set(f[i - 1], i)
    <2>1. f[i - 1] \in K
        BY <1>1, <1>6
    <2>2. <<i, f[i - 1]>> \in (1..n) \X K
        BY <2>1
    <2>3. F[<<i, f[i - 1]>>] = Set(f[i - 1], i)
        <3> HIDE DEF Set
        <3>1. QED
            BY <2>2
    <2> HIDE DEF F
    <2>4. QED
        BY <1>5, <2>3 DEF Iterates
<1>8. Is(f)
    BY <1>6, <1>7
<1>9. Is(after)
    <2> HIDE DEF Is
    <2>1. QED
        BY <1>8
<1>10. after[0] = Entered /\ \A i \in 1..n : after[i] = Set(after[i - 1], i)
    <2>1. 0 \in 0..n /\ \A i \in 1..n : i \in 0..n /\ i # 0
        BY <1>1
    <2> HIDE DEF after
    <2>2. QED
        BY <1>9, <2>1
<1>11. Filling(text, first, n) = after[n]
    BY DEF Filling
<1> HIDE DEF after, Set
<1>12. 0..n \subseteq {i \in 0..n : after[i] \in K}
    <2> DEFINE T == {i \in 0..n : after[i] \in K}
    <2>1. 0 \in T
        BY <1>1, <1>2, <1>10
    <2>2. \A i \in 0..n - 1 : i \in T => i + 1 \in T
        <3> SUFFICES ASSUME NEW i \in 0..n - 1, after[i] \in K PROVE i + 1 \in T
            OBVIOUS
        <3>1. i + 1 \in 1..n /\ i + 1 \in 0..n /\ i + 1 - 1 = i
            BY <1>1
        <3>2. after[i + 1] = Set(after[i], i + 1)
            BY <1>10, <3>1
        <3>3. QED
            BY <1>3, <3>1, <3>2
    <2> HIDE DEF T
    <2>3. 0..n \subseteq T
        BY <1>1, <2>1, <2>2, InductTo
    <2>4. QED
        BY <2>3 DEF T
<1>13. QED
    BY <1>1, <1>11, <1>12 DEF K

\* A number's digits are characters.
LEMMA DecimalType == Decimal \in [Nat -> Seq(Chars)]
<1> DEFINE S == Seq(Chars)
           last(n) == 48 + (n % 10)
           Is(f) == f = [n \in Nat |-> IF n < 10 THEN <<48 + n>> ELSE Append(f[n \div 10], last(n))]
           base == [n \in Nat |-> <<last(n)>>]
           smaller == [n \in Nat |-> n \div 10]
           F == [x \in Nat \X S |-> Append(x[2], last(x[1]))]
           digits == CHOOSE f : Is(f)
<1>1. \A n \in Nat : last(n) \in Chars
    BY ModuloRange DEF Chars
<1>2. \A n \in Nat : n \div 10 \in Nat /\ (n \notin 0..9 => n \div 10 < n)
    OBVIOUS
<1>3. \A n \in 0..9 : last(n) = 48 + n
    OBVIOUS
<1> HIDE DEF last
<1>4. base \in [Nat -> S] /\ smaller \in [Nat -> Nat] /\ \A n \in Nat \ 0..9 : smaller[n] < n
    BY <1>1, <1>2
<1>5. F \in [Nat \X S -> S]
    BY <1>1, AppendProperties
<1>6. PICK f : Descends(f, S, 0..9, base, smaller, F)
    <2> HIDE DEF base, smaller, F, S
    <2>1. QED
        BY <1>4, <1>5, Descent
<1>7. f \in [Nat -> S]
    BY <1>6 DEF Descends
<1>8. ASSUME NEW n \in Nat
      PROVE  f[n] = IF n < 10 THEN <<48 + n>> ELSE Append(f[n \div 10], last(n))
    <2>1. f[n] = IF n \in 0..9 THEN base[n] ELSE F[<<n, f[smaller[n]]>>]
        BY <1>6 DEF Descends
    <2>2. CASE n \in 0..9
        BY <1>3, <2>1, <2>2
    <2>3. CASE n \notin 0..9
        <3>1. <<n, f[n \div 10]>> \in Nat \X S /\ ~(n < 10)
            <4>1. n \div 10 \in Nat /\ ~(n < 10)
                BY <1>2, <2>3
            <4>2. f[n \div 10] \in S
                BY <1>7, <4>1
            <4> HIDE DEF S
            <4>3. QED
                BY <4>1, <4>2
        <3>2. F[<<n, f[n \div 10]>>] = Append(f[n \div 10], last(n))
            BY <3>1
        <3>3. QED
            BY <2>1, <2>3, <3>1, <3>2
    <2>4. QED
        BY <2>2, <2>3
<1>9. Is(f)
    BY <1>7, <1>8
<1>10. Is(digits)
    <2> HIDE DEF Is
    <2>1. QED
        BY <1>9
<1>11. Decimal = digits
    BY DEF Decimal, last
<1>12. \A n \in Nat : digits[n] = IF n < 10 THEN <<48 + n>> ELSE Append(digits[n \div 10], last(n))
    <2> HIDE DEF digits
    <2>1. QED
        BY <1>10
<1>13. DOMAIN digits = Nat /\ digits = [n \in Nat |-> digits[n]]
    <2> HIDE DEF digits
    <2>1. QED
        BY <1>10
<1> HIDE DEF digits
<1>14. {n \in Nat : digits[n] \notin S} = {}
    <2> DEFINE T == {n \in Nat : digits[n] \notin S}
    <2> SUFFICES ASSUME T # {} PROVE FALSE
        OBVIOUS
    <2>1. T \subseteq Nat
        OBVIOUS
    <2> HIDE DEF T
    <2>2. PICK n \in T : \A i \in T : n <= i
        BY <2>1, LeastNat
    <2>3. n \in Nat
        BY <2>1
    <2>4. CASE n < 10
        <3>1. 48 + n \in Chars
            BY <2>3, <2>4 DEF Chars
        <3>2. digits[n] = <<48 + n>>
            BY <1>12, <2>3, <2>4
        <3>3. <<48 + n>> \in Seq(Chars)
            BY <3>1
        <3>4. QED
            BY <2>2, <3>2, <3>3 DEF T
    <2>5. CASE ~(n < 10)
        <3>1. n \div 10 \in Nat /\ n \div 10 < n
            BY <1>2, <2>3, <2>5
        <3>2. digits[n \div 10] \in Seq(Chars)
            BY <2>2, <2>3, <3>1 DEF T
        <3>3. digits[n] = Append(digits[n \div 10], last(n))
            BY <1>12, <2>3, <2>5
        <3>4. digits[n] \in Seq(Chars)
            BY <1>1, <2>3, <3>2, <3>3, AppendProperties
        <3>5. QED
            BY <2>2, <3>4 DEF T
    <2>6. QED
        BY <2>4, <2>5
<1>15. QED
    BY <1>11, <1>13, <1>14

LEMMA ShownType == ASSUME NEW n \in Int PROVE Shown(n) \in Seq(Chars)
<1>1. CASE n < 0
    <2>1. -n \in Nat
        BY <1>1
    <2>2. Decimal[-n] \in Seq(Chars) /\ <<45>> \in Seq(Chars)
        BY <2>1, DecimalType DEF Chars
    <2>3. <<45>> \o Decimal[-n] \in Seq(Chars)
        BY <2>2, ConcatProperties
    <2>4. QED
        BY <1>1, <2>3 DEF Shown
<1>2. CASE ~(n < 0)
    BY <1>2, DecimalType DEF Shown
<1>3. QED
    BY <1>1, <1>2

LEMMA PrintedType == ASSUME NEW v \in Value PROVE Printed(v) \in Seq(Chars)
<1>1. Shown(Double(v)) \in Seq(Chars) /\ Shown(Long(v)) \in Seq(Chars)
    BY LongType, DoubleType, LongsAreInts, ShownType
<1>2. <<46, 48, 48, 48, 48, 48, 48, 10>> \in Seq(Chars) /\ <<10>> \in Seq(Chars)
    BY DEF Chars
<1>3. QED
    BY <1>1, <1>2, ConcatProperties DEF Printed

(***************************************************************************)
(* The invariant.                                                          *)
(***************************************************************************)
\* What SysTypeOK leaves open: the kernel's records, and text that waits for
\* a descriptor that a long named.
KernelOK ==
    /\ slots \subseteq 0..TableSize - 1
    /\ DOMAIN os.fds \subseteq 0..MaxFds - 1
    /\ os \in Kernel(DOMAIN os.fds, DOMAIN os.disk)
    /\ streams \in Seq(Held)

\* What was heard lies before the position of the one descriptor for standard
\* input, which no write moves.
InputOK ==
    /\ heard \in Seq(Nat)
    /\ StdinOnce
    /\ \A fd \in DOMAIN os.fds : os.fds[fd].file = Std(0) =>
            /\ fd = 0
            /\ ~os.fds[fd].writes
            /\ \A j \in DOMAIN heard : heard[j] <= os.fds[fd].pos

MachineOK == status = "run" => TypeOK

SysInv == MachineOK /\ KernelOK /\ InputOK /\ TableTruth

\* Memory, also once the run has stopped.
MemoryOK ==
    /\ prog \in DOMAIN Loaded
    /\ size \in Registers + 2..MaxMem
    /\ mem \in [0..size - 1 -> Value]
    /\ ptr \in Sizes

\* The notes are what the ledger of standard output is about (see below).
Notes == [kind : {"write", "held"}, text : Seq(Chars)]

LEMMA SysTyped ==
    ASSUME SysInv, MemoryOK, texts \in Seq(Notes)
    PROVE  SysTypeOK
<1>1. \A fd \in DOMAIN os.fds : os.fds[fd].file \in DOMAIN os.disk /\ os.fds[fd].pos \in Nat
    BY DEF SysInv, KernelOK, Kernel, Descs
<1>2. \A f \in DOMAIN os.disk : os.disk[f].data \in Seq(Chars)
    BY DEF SysInv, KernelOK, Kernel, Files
<1>3. \A k \in DOMAIN streams : streams[k].fd \in Longs /\ streams[k].text \in Seq(Chars)
    <2>1. \A k \in DOMAIN streams : streams[k] \in Held
        BY LenProperties, ElementOfSeq DEF SysInv, KernelOK
    <2>2. QED
        BY <2>1 DEF Held
<1>4. \A k \in DOMAIN texts : texts[k].kind \in {"write", "held"} /\ texts[k].text \in Seq(Chars)
    <2>1. \A k \in DOMAIN texts : texts[k] \in Notes
        BY LenProperties, ElementOfSeq
    <2>2. QED
        BY <2>1 DEF Notes
<1>5. QED
    BY <1>1, <1>2, <1>3, <1>4 DEF SysInv, KernelOK, InputOK, SysTypeOK, MemoryOK

(***************************************************************************)
(* Steps.                                                                  *)
(***************************************************************************)
\* The run ends with a status of its own, or goes on with new cells.
LEMMA SysStop ==
    ASSUME NEW result, result # "run", NEW m, Stop(result, m)
    PROVE  MachineOK' /\ status' = result
BY DEF Stop, MachineOK

LEMMA SysFinish ==
    ASSUME TypeOK, NEW err, err # "run", NEW m, Finish(err, m, ptr),
           err = "ok" => m \in [0..size - 1 -> Value]
    PROVE  MachineOK'
<1>1. CASE err = "ok"
    <2>1. Rest /\ ptr \in Int /\ err \in Errs
        BY <1>1, TypeOKParts, WidthFacts DEF Rest, Errs, Sizes
    <2>2. Rest' /\ Holds(Value)'
        BY <1>1, <2>1, FinishKeeps
    <2>3. QED
        BY <2>2 DEF MachineOK, TypeOK, Rest, Holds, Errs, Prog
<1>2. CASE err # "ok"
    BY <1>2, SysStop DEF Finish
<1>3. QED
    BY <1>1, <1>2

LEMMA IoStays ==
    ASSUME SysInv, UNCHANGED io, status # "undefined" \/ status' = status
    PROVE  KernelOK' /\ InputOK' /\ TableTruth'
BY DEF io, SysInv, KernelOK, InputOK, TableTruth, StdinOnce

LEMMA IoWritten ==
    ASSUME SysInv, os' \in Written(os), streams' \in Seq(Held), UNCHANGED <<slots, heard>>,
           status # "undefined" \/ status' = status
    PROVE  KernelOK' /\ InputOK' /\ TableTruth'
<1>1. DOMAIN os'.fds = DOMAIN os.fds /\ DOMAIN os'.disk = DOMAIN os.disk
    BY DEF Written, Kernel
<1>2. KernelOK'
    BY <1>1 DEF Written, SysInv, KernelOK
<1>3. InputOK'
    BY <1>1 DEF Written, SysInv, InputOK, StdinOnce
<1>4. TableTruth'
    BY <1>1 DEF SysInv, TableTruth
<1>5. QED
    BY <1>2, <1>3, <1>4

\* What a call finds: a machine that is type correct, longs in its registers.
LEMMA SysFacts ==
    ASSUME SysInv, NEW op \in {"sys", "print_num"}, At({op})
    PROVE  /\ TypeOK /\ Rest /\ Holds(Value)
           /\ status = "run"
           /\ ptr \in Int
           /\ size \in Nat /\ size >= 5
           /\ Entered \in [0..size - 1 -> Value]
           /\ \A n \in 0..2 : SysArg(n) \in Longs
           /\ \A k \in DOMAIN Signature(Line.op) : GetValue(Entered, Arg(k)) \in [err : Errs, val : Value]
           /\ Signature("sys") = <<VALUE>> /\ Signature("print_num") = <<VALUE, VALUE>>
           /\ Line.op = op
<1>1. status = "run" /\ Line.op = op
    BY DEF At
<1>2. TypeOK /\ Rest /\ Holds(Value)
    BY <1>1, TypeOKParts DEF SysInv, MachineOK
<1>3. ptr \in Int /\ size \in Nat /\ size >= 5
    BY <1>2, LineFacts, SizeFacts, SystemAssumption DEF Rest
<1>4. Entered \in [0..size - 1 -> Value]
    BY <1>2, EnteredType, CellSets
<1>5. \A n \in 0..2 : SysArg(n) \in Longs
    <2> SUFFICES ASSUME NEW n \in 0..2 PROVE SysArg(n) \in Longs
        OBVIOUS
    <2>1. Entered[n + 2] \in Value
        BY <1>3, <1>4
    <2>2. QED
        BY <2>1, LongType DEF SysArg
<1>6. Signature("sys") = <<VALUE>> /\ Signature("print_num") = <<VALUE, VALUE>>
    BY DEF Signature, InPlaceOps, CastOps, SkipOps, MathOps, MathfOps
<1>7. ASSUME NEW k \in DOMAIN Signature(Line.op)
      PROVE  GetValue(Entered, Arg(k)) \in [err : Errs, val : Value]
    <2>1. Signature(Line.op)[k] = VALUE
        BY <1>1, <1>6
    <2>2. Arg(k).t \in VALUE /\ IsTok(Prog, Arg(k))
        BY <1>2, <2>1, ArgFacts
    <2>3. QED
        BY <1>2, <1>4, <2>2, CellSets, GetValueType DEF Rest
<1>8. QED
    BY <1>1, <1>2, <1>3, <1>4, <1>5, <1>6, <1>7

LEMMA CodeType ==
    ASSUME SysInv, At({"sys"}) PROVE Code.err \in Errs /\ Code.err # "run" /\ Code.val \in Value
<1>1. 1 \in DOMAIN Signature(Line.op)
    BY SysFacts
<1>2. Code \in [err : Errs, val : Value]
    BY <1>1, SysFacts DEF Code
<1>3. QED
    BY <1>2 DEF Errs

LEMMA AnsweredType ==
    ASSUME NEW n \in Longs, size \in Nat, NEW m \in [0..size - 1 -> Value]
    PROVE  Answered(m, n) \in [0..size - 1 -> Value]
BY LongVType DEF Answered

LEMMA NoCallKeeps == ASSUME SysInv, NoCall PROVE SysInv'
<1>1. At({"sys"})
    BY DEF NoCall
<1>2. MachineOK'
    BY <1>1, CodeType, SysFacts, SysFinish DEF NoCall
<1>3. KernelOK' /\ InputOK' /\ TableTruth'
    BY <1>1, SysFacts, IoStays DEF NoCall
<1>4. QED
    BY <1>2, <1>3 DEF SysInv

LEMMA ExitKeeps == ASSUME SysInv, Exit PROVE SysInv'
<1>1. At({"sys"})
    BY DEF Exit, Calls
<1>2. MachineOK'
    BY SysStop DEF Exit
<1>3. KernelOK' /\ InputOK' /\ TableTruth'
    BY <1>1, SysFacts, IoStays DEF Exit
<1>4. QED
    BY <1>2, <1>3 DEF SysInv

(***************************************************************************)
(* read.                                                                   *)
(***************************************************************************)
LEMMA LeastType ==
    ASSUME NEW T, T \subseteq Nat, T # {}
    PROVE  Least(T) \in T /\ \A j \in T : Least(T) <= j
BY LeastNat DEF Least

LEMMA UnreadType ==
    ASSUME SysInv, NEW fd \in DOMAIN os.fds
    PROVE  Unread(fd) \in Seq(Chars) /\ os.fds[fd].pos \in Nat
<1> DEFINE d == os.fds[fd]
           data == os.disk[d.file].data
<1>1. d \in Descs(DOMAIN os.disk)
    BY DEF SysInv, KernelOK, Kernel
<1>2. d.file \in DOMAIN os.disk /\ d.pos \in Nat
    BY <1>1 DEF Descs
<1>3. os.disk[d.file] \in Files
    BY <1>2 DEF SysInv, KernelOK, Kernel
<1>4. data \in Seq(Chars)
    BY <1>3 DEF Files
<1>5. Len(data) \in Nat /\ \A i \in 1..Len(data) : data[i] \in Chars
    BY <1>4, LenProperties, ElementOfSeq
<1>6. Unread(fd) = SubSeq(data, d.pos + 1, Len(data))
    BY DEF Unread
<1> HIDE DEF data, d
<1>7. SubSeq(data, d.pos + 1, Len(data)) \in Seq(Chars)
    <2>1. \A i \in d.pos + 1..Len(data) : i \in 1..Len(data)
        BY <1>2, <1>5
    <2>2. QED
        BY <1>2, <1>5, <2>1, SubSeqProperties
<1>8. QED
    BY <1>2, <1>6, <1>7 DEF d

LEMMA ReadKeeps == ASSUME SysInv, Read PROVE SysInv'
<1> DEFINE fd == SysArg(0)
           got == AtMost(Len(Unread(fd)), ReadMax)
           n == Stored(got, ToSize(SysArg(2)))
           fit == Least({n} \cup {i \in 0..n - 1 : SetErr(mem, Wrap(SysArg(1) + i)) # "ok"})
           filled == Filling(Unread(fd), SysArg(1), fit)
           err == IF got = 0 THEN "IoError" ELSE IF fit < n THEN "InvalidMemAccess" ELSE "ok"
<1>1. At({"sys"})
    BY DEF Read, Calls
<1>2. status = "run"
    BY <1>1, SysFacts
<1>3. CASE SlotErr(fd) # "ok"
    <2>1. Stop(SlotErr(fd), Entered) /\ UNCHANGED io
        BY <1>3 DEF Read
    <2>2. SlotErr(fd) # "run"
        BY DEF SlotErr
    <2>3. QED
        BY <1>2, <2>1, <2>2, SysStop, IoStays DEF SysInv
<1>4. CASE SlotErr(fd) = "ok" /\ (fd \notin DOMAIN os.fds \/ ~os.fds[fd].reads)
    <2>1. Stop("undefined", Entered) /\ UNCHANGED io
        BY <1>4 DEF Read
    <2>2. QED
        BY <1>2, <2>1, SysStop, IoStays DEF SysInv
<1>5. CASE SlotErr(fd) = "ok" /\ fd \in DOMAIN os.fds /\ os.fds[fd].reads
    <2>1. /\ Finish(err, IF err = "ok" THEN Answered(filled, n) ELSE filled, ptr)
          /\ os' = [os EXCEPT !.fds[fd].pos = @ + Taken(fd)]
          /\ heard' = IF os.fds[fd].file = Std(0)
                      THEN heard \o [i \in 1..fit |-> os.fds[fd].pos + i] ELSE heard
          /\ UNCHANGED <<slots, streams, texts>>
        BY <1>5 DEF Read
    <2>2. Unread(fd) \in Seq(Chars) /\ Len(Unread(fd)) \in Nat /\ os.fds[fd].pos \in Nat
        BY <1>5, UnreadType, LenProperties
    <2>3. ToSize(SysArg(2)) \in Nat /\ ToSize(SysArg(2)) \in Sizes /\ SysArg(1) \in Int
        <3> HIDE DEF fd
        <3>0. \A k \in 0..2 : SysArg(k) \in Longs
            BY <1>1, SysFacts
        <3>1. SysArg(1) \in Int /\ SysArg(2) \in Int
            <4>1. SysArg(1) \in Longs /\ SysArg(2) \in Longs
                BY <3>0
            <4>2. QED
                BY <4>1, LongsAreInts
        <3>2. ToSize(SysArg(2)) \in Sizes
            BY <3>1, ToSizeType
        <3>3. QED
            BY <3>1, <3>2, WidthFacts DEF Sizes
    <2>4. /\ got \in Nat /\ got <= Len(Unread(fd)) /\ got <= Taken(fd) /\ got <= ReadMax
          /\ Taken(fd) \in Nat
          /\ n \in Nat /\ n <= got /\ n <= ToSize(SysArg(2))
        BY <2>2, <2>3, SystemAssumption DEF AtMost, Stored, Taken
    <2>5. fit \in 0..n
        <3> DEFINE T == {n} \cup {i \in 0..n - 1 : SetErr(mem, Wrap(SysArg(1) + i)) # "ok"}
        <3>1. T \subseteq 0..n /\ T # {} /\ T \subseteq Nat
            BY <2>4
        <3> HIDE DEF T
        <3>2. Least(T) \in T
            BY <3>1, LeastType
        <3>3. QED
            BY <3>1, <3>2 DEF T
    <2>6. fit \in 0..Len(Unread(fd)) /\ fit \in Nat /\ fit <= Taken(fd)
        BY <2>2, <2>4, <2>5
    <2>7. filled \in [0..size - 1 -> Value]
        BY <1>1, <2>2, <2>3, <2>6, SysFacts, FillingKeeps DEF FilledOnly
    <2> HIDE DEF n, got, fit, filled, fd
    <2>8. MachineOK'
        <3>1. n \in Longs
            BY <2>4, SystemAssumption, WidthFacts DEF Longs, LongMin
        <3>2. QED
            BY <1>1, <2>1, <2>7, <3>1, SysFacts, AnsweredType, SysFinish
    <2> HIDE DEF err
    <2>9. KernelOK' /\ TableTruth'
        <3> DEFINE D == DOMAIN os.fds
                   F == DOMAIN os.disk
                   fds == [os.fds EXCEPT ![fd].pos = @ + Taken(fd)]
        <3>1. os \in [fds : [D -> Descs(F)], disk : [F -> Files]]
            BY DEF SysInv, KernelOK, Kernel
        <3>2. os.fds[fd] \in Descs(F)
            BY <1>5, <3>1
        <3>3. [os.fds[fd] EXCEPT !.pos = @ + Taken(fd)] \in Descs(F)
            BY <2>2, <2>4, <3>2 DEF Descs
        <3>4. fds \in [D -> Descs(F)]
            BY <3>1, <3>3
        <3>5. os' = [os EXCEPT !.fds = fds]
            BY <2>1, <3>1
        <3> HIDE DEF fds, D, F
        <3>6. os' \in [fds : [D -> Descs(F)], disk : [F -> Files]] /\ os'.fds = fds
            BY <3>1, <3>4, <3>5
        <3>7. DOMAIN os'.fds = D /\ DOMAIN os'.disk = F
            BY <3>4, <3>6
        <3>8. KernelOK'
            BY <2>1, <3>6, <3>7 DEF SysInv, KernelOK, Kernel, D
        <3>9. TableTruth'
            BY <1>2, <2>1, <3>7 DEF SysInv, TableTruth, D
        <3>10. QED
            BY <3>8, <3>9
    <2>10. InputOK'
        <3> DEFINE more == [i \in 1..fit |-> os.fds[fd].pos + i]
        <3>1. os'.fds = [os.fds EXCEPT ![fd].pos = @ + Taken(fd)]
            BY <2>1 DEF SysInv, KernelOK, Kernel
        <3>2. /\ DOMAIN os'.fds = DOMAIN os.fds
              /\ \A e \in DOMAIN os.fds : /\ os'.fds[e].file = os.fds[e].file
                                          /\ os'.fds[e].writes = os.fds[e].writes
                                          /\ e # fd => os'.fds[e].pos = os.fds[e].pos
              /\ os'.fds[fd].pos = os.fds[fd].pos + Taken(fd)
            BY <1>5, <3>1 DEF SysInv, KernelOK, Kernel, Descs
        <3>3. CASE os.fds[fd].file # Std(0)
            <4>1. heard' = heard
                BY <2>1, <3>3
            <4>2. QED
                BY <3>2, <3>3, <4>1 DEF SysInv, InputOK, StdinOnce
        <3>4. CASE os.fds[fd].file = Std(0)
            <4>1. heard \in Seq(Nat) /\ Len(heard) \in Nat /\ DOMAIN heard = 1..Len(heard)
                BY LenProperties DEF SysInv, InputOK
            <4>2. /\ fd = 0 /\ ~os.fds[fd].writes
                  /\ \A j \in DOMAIN heard : heard[j] <= os.fds[fd].pos
                BY <1>5, <3>4 DEF SysInv, InputOK
            <4>3. \A i \in 1..fit : os.fds[fd].pos + i \in Nat
                BY <2>2, <2>6
            <4>4. more \in Seq(Nat) /\ Len(more) = fit /\ \A i \in 1..fit : more[i] = os.fds[fd].pos + i
                BY <2>6, <4>3
            <4>5. heard' = heard \o more
                BY <2>1, <3>4
            <4> HIDE DEF more
            <4>6. /\ heard' \in Seq(Nat)
                  /\ Len(heard') = Len(heard) + fit
                  /\ \A i \in 1..Len(heard) + fit :
                        heard'[i] = IF i <= Len(heard) THEN heard[i] ELSE more[i - Len(heard)]
                BY <4>1, <4>4, <4>5, ConcatProperties
            <4>7. DOMAIN heard' = 1..Len(heard) + fit
                BY <4>6, LenProperties
            <4>8. \A i \in 1..Len(heard) + fit :
                    \/ i \in 1..Len(heard) /\ heard'[i] = heard[i]
                    \/ ~(i <= Len(heard)) /\ heard'[i] = os.fds[fd].pos + (i - Len(heard))
                <5> SUFFICES ASSUME NEW i \in 1..Len(heard) + fit, ~(i <= Len(heard))
                             PROVE  heard'[i] = os.fds[fd].pos + (i - Len(heard))
                    BY <4>1, <4>6
                <5>1. i - Len(heard) \in 1..fit
                    BY <2>6, <4>1
                <5>2. QED
                    BY <4>4, <4>6, <5>1
            <4>9. \A i \in DOMAIN heard' : heard'[i] <= os.fds[fd].pos + Taken(fd)
                <5> SUFFICES ASSUME NEW i \in 1..Len(heard) + fit
                             PROVE  heard'[i] <= os.fds[fd].pos + Taken(fd)
                    BY <4>7
                <5>1. CASE i \in 1..Len(heard) /\ heard'[i] = heard[i]
                    <6>1. heard[i] \in Nat /\ heard[i] <= os.fds[fd].pos
                        BY <4>1, <4>2, <5>1
                    <6>2. QED
                        BY <2>2, <2>4, <5>1, <6>1
                <5>2. CASE ~(i <= Len(heard)) /\ heard'[i] = os.fds[fd].pos + (i - Len(heard))
                    BY <2>2, <2>4, <2>6, <4>1, <5>2
                <5>3. QED
                    BY <4>8, <5>1, <5>2
            <4>10. StdinOnce'
                <5> SUFFICES ASSUME NEW i \in 1..Len(heard) + fit, NEW j \in 1..Len(heard) + fit, i < j
                             PROVE  heard'[i] < heard'[j]
                    BY <4>7 DEF StdinOnce
                <5>1. CASE j \in 1..Len(heard)
                    <6>1. i \in 1..Len(heard) /\ heard'[i] = heard[i] /\ heard'[j] = heard[j]
                        BY <4>1, <4>8, <5>1
                    <6>2. QED
                        BY <4>1, <5>1, <6>1 DEF SysInv, InputOK, StdinOnce
                <5>2. CASE j \notin 1..Len(heard) /\ i \in 1..Len(heard)
                    <6>1. heard'[i] = heard[i] /\ heard[i] \in Nat /\ heard[i] <= os.fds[fd].pos
                        BY <4>1, <4>2, <4>8, <5>2
                    <6>2. heard'[j] = os.fds[fd].pos + (j - Len(heard)) /\ ~(j <= Len(heard))
                        BY <4>1, <4>8, <5>2
                    <6>3. QED
                        BY <2>2, <2>6, <4>1, <6>1, <6>2
                <5>3. CASE j \notin 1..Len(heard) /\ i \notin 1..Len(heard)
                    <6>1. /\ heard'[i] = os.fds[fd].pos + (i - Len(heard))
                          /\ heard'[j] = os.fds[fd].pos + (j - Len(heard))
                        BY <4>1, <4>8, <5>3
                    <6>2. QED
                        BY <2>2, <2>6, <4>1, <6>1
                <5>4. QED
                    BY <5>1, <5>2, <5>3
            <4>11. QED
                BY <3>2, <4>2, <4>6, <4>9, <4>10 DEF SysInv, InputOK
        <3>5. QED
            BY <3>3, <3>4
    <2>11. QED
        BY <2>8, <2>9, <2>10 DEF SysInv
<1>6. QED
    BY <1>3, <1>4, <1>5

(***************************************************************************)
(* write.                                                                  *)
(***************************************************************************)
LEMMA ReadableType ==
    ASSUME SysInv, At({"sys"}), NEW n \in Nat
    PROVE  /\ Readable(SysArg(1), n) \in Seq(Chars)
           /\ Len(Readable(SysArg(1), n)) \in Nat
           /\ Len(Readable(SysArg(1), n)) <= size
<1> DEFINE first == Abs(SysArg(1))
           most == AtMost(n, size - first)
           k == IF most < 0 THEN 0 ELSE most
           char(i) == ToChar(Long(Entered[first + i - 1]))
<1>1. \A j \in 0..2 : SysArg(j) \in Longs
    BY SysFacts
<1>2. first \in Nat
    BY <1>1, AbsType
<1>3. size \in Nat /\ Entered \in [0..size - 1 -> Value]
    BY SysFacts
<1> HIDE DEF first
<1>4. most \in Int /\ k \in Nat /\ k <= size /\ 1..most = 1..k /\ \A i \in 1..k : first + i - 1 \in 0..size - 1
    BY <1>2, <1>3 DEF AtMost
<1> HIDE DEF most, k
<1>5. ASSUME NEW i \in 1..k PROVE char(i) \in Chars
    <2>1. Entered[first + i - 1] \in Value
        BY <1>3, <1>4
    <2>2. Long(Entered[first + i - 1]) \in Longs
        BY <2>1, LongType
    <2>3. Long(Entered[first + i - 1]) \in Int
        BY <2>2, LongsAreInts
    <2>4. QED
        BY <2>3, ToCharType
<1>6. Readable(SysArg(1), n) = [i \in 1..k |-> char(i)]
    BY <1>4 DEF Readable, first, most
<1> HIDE DEF char
<1>7. [i \in 1..k |-> char(i)] \in Seq(Chars) /\ Len([i \in 1..k |-> char(i)]) = k
    BY <1>4, <1>5
<1>8. QED
    BY <1>4, <1>6, <1>7

\* What the write calls find.
LEMMA WriteFacts ==
    ASSUME SysInv, At({"sys"})
    PROVE  /\ SysArg(0) \in Longs
           /\ ToSize(SysArg(2)) \in Nat
           /\ os \in Written(os)
           /\ streams \in Seq(Held)
<1>1. \A j \in 0..2 : SysArg(j) \in Longs
    BY SysFacts
<1>2. SysArg(0) \in Longs /\ SysArg(2) \in Longs
    BY <1>1
<1>3. SysArg(2) \in Int
    BY <1>2, LongsAreInts
<1>4. ToSize(SysArg(2)) \in Sizes
    BY <1>3, ToSizeType
<1>5. QED
    BY <1>2, <1>4, WidthFacts, WrittenSelf DEF Sizes, SysInv, KernelOK

LEMMA WriteKeeps == ASSUME SysInv, Write PROVE SysInv'
<1> DEFINE fd == SysArg(0)
           n == ToSize(SysArg(2))
           text == Readable(SysArg(1), n)
           sent == Send(fd, text)
<1>1. At({"sys"})
    BY DEF Write, Calls
<1>2. /\ Len(text) = n
      /\ Finish("ok", Answered(Entered, n), ptr)
      /\ os' = sent.os
      /\ streams' = sent.streams
      /\ UNCHANGED <<slots, heard>>
    BY DEF Write
<1>3. n \in Nat /\ os \in Written(os) /\ streams \in Seq(Held)
    BY <1>1, WriteFacts
<1>4. text \in Seq(Chars) /\ n <= size
    BY <1>1, <1>2, <1>3, ReadableType
<1>5. n \in Longs
    BY <1>1, <1>3, <1>4, SysFacts, SizeFacts, WidthFacts DEF Longs, LongMin
<1>6. os' \in Written(os) /\ streams' = streams
    BY <1>2, <1>3, <1>4, OutKeeps DEF Send
<1> HIDE DEF n
<1>7. MachineOK'
    BY <1>1, <1>2, <1>5, SysFacts, AnsweredType, SysFinish
<1>8. KernelOK' /\ InputOK' /\ TableTruth'
    BY <1>1, <1>2, <1>3, <1>6, SysFacts, IoWritten
<1>9. QED
    BY <1>7, <1>8 DEF SysInv

LEMMA WholeBuffers ==
    ASSUME NEW a \in Int, NEW b \in Nat, b > 0
    PROVE  b * (a \div b) \in Int /\ b * (a \div b) <= a
OBVIOUS

LEMMA WriteFailsTexts ==
    ASSUME SysInv, At({"sys"})
    PROVE  LET text == Readable(SysArg(1), ToSize(SysArg(2)))
               out == SubSeq(text, 1, BufSize * ((Len(text) - 1) \div BufSize))
           IN  /\ out \in Seq(Chars)
               /\ SubSeq(text, Len(out) + 1, Len(text)) \in Seq(Chars)
<1> DEFINE text == Readable(SysArg(1), ToSize(SysArg(2)))
           end == BufSize * ((Len(text) - 1) \div BufSize)
           out == SubSeq(text, 1, end)
<1>1. text \in Seq(Chars) /\ Len(text) \in Nat
    BY WriteFacts, ReadableType
<1> HIDE DEF text
<1>2. end \in Int /\ end <= Len(text)
    BY <1>1, WholeBuffers, SystemAssumption
<1> HIDE DEF end
<1>3. out \in Seq(Chars) /\ Len(out) \in Nat
    <2>1. \A i \in 1..end : text[i] \in Chars
        BY <1>1, <1>2, ElementOfSeq
    <2>2. out \in Seq(Chars)
        BY <1>2, <2>1, SubSeqProperties
    <2>3. QED
        BY <2>2, LenProperties
<1> HIDE DEF out
<1>4. SubSeq(text, Len(out) + 1, Len(text)) \in Seq(Chars)
    <2>1. \A i \in Len(out) + 1..Len(text) : text[i] \in Chars
        BY <1>1, <1>3, ElementOfSeq
    <2>2. QED
        BY <1>1, <1>3, <2>1, SubSeqProperties
<1>5. QED
    BY <1>3, <1>4 DEF text, end, out

LEMMA WriteFailsKeeps == ASSUME SysInv, WriteFails PROVE SysInv'
<1> DEFINE fd == SysArg(0)
           text == Readable(SysArg(1), ToSize(SysArg(2)))
           out == SubSeq(text, 1, BufSize * ((Len(text) - 1) \div BufSize))
           rest == SubSeq(text, Len(out) + 1, Len(text))
<1>1. At({"sys"})
    BY DEF WriteFails, Calls
<1>2. /\ Stop("InvalidMemAccess", Entered)
      /\ os' = Out(os, fd, out)
      /\ streams' = IF rest = <<>> THEN streams ELSE Append(streams, [fd |-> fd, text |-> rest])
      /\ UNCHANGED <<slots, heard>>
    BY DEF WriteFails
<1>3. fd \in Longs /\ os \in Written(os) /\ streams \in Seq(Held)
    BY <1>1, WriteFacts
<1>4. out \in Seq(Chars) /\ rest \in Seq(Chars)
    BY <1>1, WriteFailsTexts
<1> HIDE DEF text, out, rest, fd
<1>5. os' \in Written(os)
    BY <1>2, <1>3, <1>4, OutKeeps
<1>6. streams' \in Seq(Held)
    <2>1. [fd |-> fd, text |-> rest] \in Held
        BY <1>3, <1>4 DEF Held
    <2>2. QED
        BY <1>2, <1>3, <2>1, AppendProperties
<1>7. MachineOK'
    BY <1>2, SysStop
<1>8. KernelOK' /\ InputOK' /\ TableTruth'
    BY <1>1, <1>2, <1>5, <1>6, SysFacts, IoWritten
<1>9. QED
    BY <1>7, <1>8 DEF SysInv

LEMMA WriteNullKeeps == ASSUME SysInv, WriteNull PROVE SysInv'
<1> DEFINE fd == SysArg(0)
           n == ToSize(SysArg(2))
           err == IF SlotErr(fd) # "ok" THEN SlotErr(fd) ELSE IF n = 0 THEN "ok"
                  ELSE IF Readable(SysArg(1), n) = <<>> THEN "InvalidMemAccess" ELSE "undefined"
<1>1. At({"sys"})
    BY DEF WriteNull, Calls
<1>2. /\ Finish(err, IF err = "ok" THEN Answered(Entered, 0) ELSE Entered, ptr)
      /\ IF err = "ok"
         THEN /\ \E order \in Bijection(DOMAIN streams, DOMAIN streams) : os' = FlushedAll(order)
              /\ streams' = <<>>
         ELSE UNCHANGED <<os, streams>>
      /\ UNCHANGED <<slots, heard>>
    BY DEF WriteNull
<1>3. err # "run"
    BY DEF SlotErr
<1>4. os \in Written(os) /\ streams \in Seq(Held)
    BY <1>1, WriteFacts
<1>5. os' \in Written(os) /\ streams' \in Seq(Held)
    <2>1. os \in Kernel(DOMAIN os.fds, DOMAIN os.disk) /\ <<>> \in Seq(Held)
        BY DEF SysInv, KernelOK
    <2> HIDE DEF err
    <2>2. QED
        BY <1>2, <1>4, <2>1, FlushedAllKeeps
<1> HIDE DEF err
<1>6. MachineOK'
    BY <1>1, <1>2, <1>3, SysFacts, LongsAreInts, AnsweredType, SysFinish
<1>7. KernelOK' /\ InputOK' /\ TableTruth'
    BY <1>1, <1>2, <1>5, SysFacts, IoWritten
<1>8. QED
    BY <1>6, <1>7 DEF SysInv

(***************************************************************************)
(* open and close.                                                         *)
(***************************************************************************)
\* No character of a name is zero: it is none of the standard files' names.
LEMMA NameFacts ==
    ASSUME SysInv, At({"sys"}), NameErr(Abs(SysArg(0))) = "ok"
    PROVE  \A fd : Name(Abs(SysArg(0))) # Std(fd)
<1> DEFINE first == Abs(SysArg(0))
           zeros == {i \in DOMAIN mem : i >= first /\ ToChar(Long(Entered[i])) = 0}
           end == Least(zeros)
           name == Name(first)
<1>1. DOMAIN mem = 0..size - 1 /\ size \in Nat
    BY SysFacts DEF Holds
<1>2. first \in Nat
    BY WriteFacts, AbsType
<1> HIDE DEF first
<1>3. zeros \subseteq Nat /\ zeros # {}
    <2>1. {i \in DOMAIN mem : i >= first /\ Long(Entered[i]) = 0} # {}
        BY DEF NameErr, first
    <2>2. ToChar(0) = 0
        BY DEF ToChar
    <2>3. QED
        BY <1>1, <2>1, <2>2
<1> HIDE DEF zeros
<1>4. end \in zeros /\ \A i \in zeros : end <= i
    BY <1>3, LeastType
<1>5. end \in Nat /\ end < size /\ end >= first
    BY <1>1, <1>4 DEF zeros
<1>6. name = [i \in 1..end - first |-> ToChar(Long(Entered[first + i - 1]))]
    BY DEF Name, zeros
<1> HIDE DEF end, name
<1>7. \A i \in 1..end - first : name[i] # 0
    <2> SUFFICES ASSUME NEW i \in 1..end - first PROVE ToChar(Long(Entered[first + i - 1])) # 0
        BY <1>6
    <2>1. first + i - 1 \in 0..size - 1 /\ first + i - 1 >= first /\ ~(end <= first + i - 1)
        BY <1>1, <1>2, <1>5
    <2>2. first + i - 1 \notin zeros
        BY <1>4, <2>1
    <2>3. QED
        BY <1>1, <2>1, <2>2 DEF zeros
<1> SUFFICES ASSUME NEW fd, name = Std(fd) PROVE FALSE
    BY DEF name, first
<1>8. DOMAIN name = 1..2 /\ name[1] = 0
    BY DEF Std
<1>9. 1 \in 1..end - first
    BY <1>6, <1>8
<1>10. QED
    BY <1>7, <1>8, <1>9

LEMMA OpenKeeps == ASSUME SysInv, Open PROVE SysInv'
<1> DEFINE first == Abs(SysArg(0))
           o == Options(ToSize(SysArg(1)))
           name == Name(first)
           exists == name \in DOMAIN os.disk
           fd == Least(0..MaxFds \ DOMAIN os.fds)
           err == IF NameErr(first) # "ok" THEN NameErr(first)
                  ELSE IF ~o.ok THEN "InvalidOpenOption"
                  ELSE IF \/ name = <<>> \/ fd = MaxFds
                          \/ exists /\ (o.excludes \/ ~os.disk[name].usable)
                          \/ ~exists /\ ~o.creates
                       THEN "IoError"
                  ELSE IF fd >= TableSize THEN "undefined" ELSE "ok"
           Fds == [f \in DOMAIN os.fds \cup {fd} |->
                        IF f = fd THEN Descriptor(name, o.reads, o.writes, o.append) ELSE os.fds[f]]
           Files2(usable) == [f \in DOMAIN os.disk \cup {name} |->
                        IF f # name THEN os.disk[f]
                        ELSE [data |-> IF exists /\ ~o.truncates THEN os.disk[name].data ELSE <<>>,
                              usable |-> usable]]
<1>1. At({"sys"})
    BY DEF Open, Calls
<1>2. status = "run"
    BY <1>1, SysFacts
<1>3. CASE err # "ok"
    <2>1. Stop(err, Entered) /\ UNCHANGED io
        BY <1>3 DEF Open
    <2>2. err # "run"
        BY DEF NameErr
    <2> HIDE DEF err
    <2>3. QED
        BY <1>2, <2>1, <2>2, SysStop, IoStays DEF SysInv
<1>4. CASE err = "ok"
    <2>1. /\ Finish("ok", Answered(Entered, fd), ptr)
          /\ slots' = slots \cup {fd}
          /\ \E usable \in IF exists THEN {TRUE} ELSE BOOLEAN :
                os' = [fds |-> Fds, disk |-> Files2(usable)]
          /\ UNCHANGED <<streams, texts, heard>>
        BY <1>4 DEF Open
    <2>2. NameErr(first) = "ok" /\ fd # MaxFds /\ ~(fd >= TableSize)
        BY <1>4
    <2>3. PICK usable \in BOOLEAN : os' = [fds |-> Fds, disk |-> Files2(usable)]
        BY <2>1
    <2>4. \A e : name # Std(e)
        BY <1>1, <2>2, NameFacts
    <2> HIDE DEF name, first, err, exists
    <2>5. fd \in 0..MaxFds - 1 /\ fd \notin DOMAIN os.fds
        <3> DEFINE T == 0..MaxFds \ DOMAIN os.fds
        <3>1. MaxFds \in T /\ T \subseteq Nat
            BY SystemAssumption DEF SysInv, KernelOK
        <3> HIDE DEF T
        <3>2. Least(T) \in T
            BY <3>1, LeastType
        <3>3. QED
            BY <2>2, <3>2, SystemAssumption DEF T
    <2> HIDE DEF fd
    <2>6. fd \in 0..TableSize - 1 /\ fd \in Longs
        BY <2>2, <2>5, SystemAssumption, WidthFacts DEF Longs, LongMin
    <2>7. MachineOK'
        BY <1>1, <2>1, <2>6, SysFacts, AnsweredType, SysFinish
    <2> DEFINE D == DOMAIN os.fds \cup {fd}
               F == DOMAIN os.disk \cup {name}
    <2>8. os.fds \in [DOMAIN os.fds -> Descs(DOMAIN os.disk)] /\ os.disk \in [DOMAIN os.disk -> Files]
        BY DEF SysInv, KernelOK, Kernel
    <2>9. Fds \in [D -> Descs(F)]
        <3>1. Descriptor(name, o.reads, o.writes, o.append) \in Descs(F)
            BY DEF Descriptor, Descs, Options
        <3>2. \A f \in DOMAIN os.fds : os.fds[f] \in Descs(F)
            BY <2>8 DEF Descs
        <3> HIDE DEF o, F
        <3>3. QED
            BY <3>1, <3>2
    <2>10. Files2(usable) \in [F -> Files]
        <3> DEFINE data == IF exists /\ ~o.truncates THEN os.disk[name].data ELSE <<>>
        <3>1. data \in Seq(Chars)
            <4>1. CASE exists
                <5>1. os.disk[name] \in Files
                    BY <2>8, <4>1 DEF exists
                <5>2. os.disk[name].data \in Seq(Chars)
                    BY <5>1 DEF Files
                <5> HIDE DEF o
                <5>3. QED
                    BY <4>1, <5>2
            <4>2. CASE ~exists
                BY <4>2
            <4>3. QED
                BY <4>1, <4>2
        <3>2. [data |-> data, usable |-> usable] \in Files
            BY <3>1 DEF Files
        <3> HIDE DEF data, o
        <3>3. Files2(usable) = [f \in F |-> IF f # name THEN os.disk[f] ELSE [data |-> data, usable |-> usable]]
            BY DEF data
        <3>4. QED
            BY <2>8, <3>2, <3>3
    <2>11. /\ Fds[fd].file = name
           /\ \A e \in DOMAIN os.fds : Fds[e] = os.fds[e]
        BY <2>5 DEF Descriptor
    <2> HIDE DEF Fds, Files2, D, F
    <2>12. os' \in Kernel(D, F) /\ os'.fds = Fds /\ DOMAIN os'.fds = D /\ DOMAIN os'.disk = F
        BY <2>3, <2>9, <2>10 DEF Kernel
    <2>13. KernelOK'
        BY <2>1, <2>5, <2>6, <2>12 DEF SysInv, KernelOK, D
    <2>14. TableTruth'
        BY <1>2, <2>1, <2>12 DEF SysInv, TableTruth, D
    <2>15. InputOK'
        BY <2>1, <2>4, <2>11, <2>12 DEF SysInv, InputOK, StdinOnce, D
    <2>16. QED
        BY <2>7, <2>13, <2>14, <2>15 DEF SysInv
<1>5. QED
    BY <1>3, <1>4

LEMMA CloseKeeps == ASSUME SysInv, Close PROVE SysInv'
<1> DEFINE fd == SysArg(0)
           Fds == [f \in DOMAIN os.fds \ {fd} |-> os.fds[f]]
<1>1. At({"sys"})
    BY DEF Close, Calls
<1>2. status = "run"
    BY <1>1, SysFacts
<1>3. CASE SlotErr(fd) # "ok"
    <2>1. Stop(SlotErr(fd), Entered) /\ UNCHANGED io
        BY <1>3 DEF Close
    <2>2. SlotErr(fd) # "run"
        BY DEF SlotErr
    <2>3. QED
        BY <1>2, <2>1, <2>2, SysStop, IoStays DEF SysInv
<1>4. CASE SlotErr(fd) = "ok"
    <2>1. /\ Finish("ok", Entered, ptr)
          /\ slots' = slots \ {fd}
          /\ os' = [os EXCEPT !.fds = Fds]
          /\ UNCHANGED <<streams, texts, heard>>
        BY <1>4 DEF Close, Left
    <2>2. MachineOK'
        BY <1>1, <2>1, SysFacts, SysFinish
    <2> DEFINE D == DOMAIN os.fds \ {fd}
               F == DOMAIN os.disk
    <2>3. Fds \in [D -> Descs(F)] /\ \A e \in D : Fds[e] = os.fds[e]
        BY DEF SysInv, KernelOK, Kernel
    <2> HIDE DEF Fds
    <2>4. os \in [fds : [DOMAIN os.fds -> Descs(F)], disk : [F -> Files]]
        BY DEF SysInv, KernelOK, Kernel
    <2> HIDE DEF D, F, fd
    <2>5. os' \in Kernel(D, F) /\ os'.fds = Fds /\ DOMAIN os'.fds = D /\ DOMAIN os'.disk = F
        BY <2>1, <2>3, <2>4 DEF Kernel
    <2>6. KernelOK'
        BY <2>1, <2>5 DEF SysInv, KernelOK, D
    <2>7. TableTruth'
        BY <1>2, <2>1, <2>5 DEF SysInv, TableTruth, D
    <2>8. InputOK'
        BY <2>1, <2>3, <2>5 DEF SysInv, InputOK, StdinOnce, D
    <2>9. QED
        BY <2>2, <2>6, <2>7, <2>8 DEF SysInv
<1>5. QED
    BY <1>3, <1>4

(***************************************************************************)
(* print_num, and the end.                                                 *)
(***************************************************************************)
LEMMA PrintNumKeeps == ASSUME SysInv, PrintNum PROVE SysInv'
<1> DEFINE fd == GetValue(Entered, Arg(1))
           v == GetValue(Entered, Arg(2))
           err == IF fd.err # "ok" THEN fd.err ELSE IF v.err # "ok" THEN v.err
                  ELSE IF ~Writable(Long(fd.val)) THEN "undefined" ELSE "ok"
<1>1. At({"print_num"})
    BY DEF PrintNum
<1>2. status = "run" /\ Entered \in [0..size - 1 -> Value] /\ TypeOK
    BY <1>1, SysFacts
<1>3. fd \in [err : Errs, val : Value] /\ v \in [err : Errs, val : Value]
    <2>1. 1 \in DOMAIN Signature(Line.op) /\ 2 \in DOMAIN Signature(Line.op)
        BY <1>1, SysFacts
    <2>2. QED
        BY <1>1, <2>1, SysFacts
<1>4. CASE err # "ok"
    <2>1. Stop(err, Entered) /\ UNCHANGED io
        BY <1>4 DEF PrintNum
    <2>2. err # "run"
        BY <1>3 DEF Errs
    <2> HIDE DEF err
    <2>3. QED
        BY <1>2, <2>1, <2>2, SysStop, IoStays DEF SysInv
<1>5. CASE err = "ok"
    <2>1. /\ Finish("ok", Entered, ptr)
          /\ streams' = Append(streams, [fd |-> Long(fd.val), text |-> Printed(v.val)])
          /\ UNCHANGED <<slots, os, heard>>
        BY <1>5 DEF PrintNum
    <2> HIDE DEF fd, v
    <2>2. fd.val \in Value /\ v.val \in Value
        BY <1>3
    <2>3. [fd |-> Long(fd.val), text |-> Printed(v.val)] \in Held
        BY <2>2, LongType, PrintedType DEF Held
    <2>4. streams \in Seq(Held) /\ os' \in Written(os)
        BY <2>1, WrittenSelf DEF SysInv, KernelOK
    <2>5. streams' \in Seq(Held)
        BY <2>1, <2>3, <2>4, AppendProperties
    <2>6. MachineOK'
        BY <1>2, <2>1, SysFinish
    <2>7. KernelOK' /\ InputOK' /\ TableTruth'
        BY <1>2, <2>1, <2>4, <2>5, IoWritten
    <2>8. QED
        BY <2>6, <2>7 DEF SysInv
<1>6. QED
    BY <1>4, <1>5

LEMMA AtExitKeeps == ASSUME SysInv, AtExit PROVE SysInv'
<1>1. PICK i \in DOMAIN streams :
            os' = Out(os, streams[i].fd, streams[i].text) /\ streams' = Flushed(i)
    BY DEF AtExit
<1>2. status' = status /\ status # "run" /\ UNCHANGED <<slots, heard>>
    BY DEF AtExit, vars
<1>3. streams \in Seq(Held) /\ Len(streams) \in Nat /\ i \in 1..Len(streams)
    BY LenProperties DEF SysInv, KernelOK
<1>4. \A j \in 1..Len(streams) : streams[j] \in Held
    BY <1>3, ElementOfSeq
<1>5. os' \in Written(os)
    BY <1>1, <1>3, <1>4, OutKeeps, WrittenSelf DEF SysInv, KernelOK, Held
<1>6. streams' \in Seq(Held)
    <2>1. SubSeq(streams, 1, i - 1) \in Seq(Held) /\ SubSeq(streams, i + 1, Len(streams)) \in Seq(Held)
        <3>1. \A j \in 1..i - 1 : streams[j] \in Held
            BY <1>3, <1>4
        <3>2. \A j \in i + 1..Len(streams) : streams[j] \in Held
            BY <1>3, <1>4
        <3>3. QED
            BY <1>3, <3>1, <3>2, SubSeqProperties
    <2>2. QED
        BY <1>1, <2>1, ConcatProperties DEF Flushed
<1>7. QED
    BY <1>2, <1>5, <1>6, IoWritten DEF SysInv, MachineOK

(***************************************************************************)
(* Theorems.                                                               *)
(***************************************************************************)
LEMMA SysInitHolds == ASSUME SysInit PROVE SysInv
<1>1. TypeOK
    BY InitKeeps, CellSets, TypeOKParts DEF SysInit
<1>2. DOMAIN os.fds = 0..2 /\ slots = 0..2 /\ heard = <<>> /\ streams = <<>>
    BY DEF SysInit
<1> DEFINE F == DOMAIN Disk \cup {Std(fd) : fd \in 0..2}
<1>3. \A fd \in 0..2 : os.fds[fd] = Descriptor(Std(fd), fd = 0, fd # 0, FALSE)
    BY DEF SysInit
<1>4. os.fds \in [0..2 -> Descs(F)]
    <2>1. \A fd \in 0..2 : Descriptor(Std(fd), fd = 0, fd # 0, FALSE) \in Descs(F)
        BY DEF Descriptor, Descs
    <2> HIDE DEF F
    <2>2. QED
        BY <2>1 DEF SysInit
<1>5. os.disk \in [F -> Files]
    <2>1. \A f \in F : IF f = Std(0) THEN Stdin \in Seq(Chars)
                       ELSE IF f \in DOMAIN Disk THEN Disk[f] \in Seq(Chars) ELSE <<>> \in Seq(Chars)
        BY SystemAssumption
    <2>2. \A f \in F : [data |-> IF f = Std(0) THEN Stdin ELSE IF f \in DOMAIN Disk THEN Disk[f] ELSE <<>>,
                        usable |-> TRUE] \in Files
        BY <2>1 DEF Files
    <2>3. QED
        BY <2>2 DEF SysInit
<1>6. KernelOK
    <2> HIDE DEF F
    <2>1. os \in Kernel(0..2, F) /\ DOMAIN os.disk = F
        BY <1>4, <1>5 DEF SysInit, Kernel
    <2>2. QED
        BY <1>2, <2>1, SystemAssumption DEF KernelOK
<1>7. InputOK
    <2>1. \A fd \in 0..2 : Std(fd) = Std(0) => fd = 0
        BY DEF Std
    <2>2. \A fd \in 0..2 : os.fds[fd].file = Std(fd) /\ os.fds[fd].writes = (fd # 0)
        BY <1>3 DEF Descriptor
    <2>3. heard \in Seq(Nat) /\ DOMAIN heard = {}
        BY <1>2
    <2> HIDE DEF F
    <2>4. QED
        BY <1>2, <2>1, <2>2, <2>3 DEF InputOK, StdinOnce
<1>8. QED
    BY <1>1, <1>2, <1>6, <1>7 DEF SysInv, MachineOK, TableTruth

LEMMA MachineStepKeeps == ASSUME SysInv, Next, UNCHANGED io PROVE SysInv'
<1>1. status = "run"
    BY DEF Next, Mov, CpyStart, CopyStep, CopyEnd, Size, Var, Loc, Allc, Push, Pop, Cast, Calculate,
           Bump, Not, Jmp, Jc, Call, Ret, Skip, Halt, RunOff, At
<1>2. TypeOK'
    BY <1>1, NextKeepsType DEF SysInv, MachineOK
<1>3. QED
    BY <1>1, <1>2, IoStays DEF SysInv, MachineOK

LEMMA SysNextKeeps == ASSUME SysInv, [SysNext]_allvars PROVE SysInv'
<1>1. CASE Next /\ UNCHANGED io
    BY <1>1, MachineStepKeeps
<1>2. CASE NoCall \/ Exit \/ Read
    BY <1>2, NoCallKeeps, ExitKeeps, ReadKeeps
<1>3. CASE Write \/ WriteFails \/ WriteNull
    BY <1>3, WriteKeeps, WriteFailsKeeps, WriteNullKeeps
<1>4. CASE Open \/ Close
    BY <1>4, OpenKeeps, CloseKeeps
<1>5. CASE PrintNum \/ AtExit
    BY <1>5, PrintNumKeeps, AtExitKeeps
<1>6. CASE UNCHANGED allvars
    <2>1. UNCHANGED io /\ UNCHANGED vars
        BY <1>6 DEF allvars
    <2>2. status' = status
        BY <2>1 DEF vars
    <2>3. MachineOK'
        BY <2>1, NextKeepsType DEF SysInv, MachineOK, vars
    <2>4. QED
        BY <2>1, <2>2, <2>3, IoStays DEF SysInv
<1>7. QED
    BY <1>1, <1>2, <1>3, <1>4, <1>5, <1>6 DEF SysNext

LEMMA SysInvariant == SysSpec => []SysInv
<1>1. SysInit => SysInv
    BY SysInitHolds
<1>2. SysInv /\ [SysNext]_allvars => SysInv'
    BY SysNextKeeps
<1>3. QED
    BY <1>1, <1>2, PTL DEF SysSpec

\* The table of descriptors that open and close of sys.c keep (Mem.fd) agrees
\* with the kernel's, for tables of any size and any reuse of numbers: no
\* guarded call is let through to a closed descriptor, and none is refused
\* for an open one.
THEOREM TableCorrect == SysSpec => []TableTruth
<1>1. SysInv => TableTruth
    BY DEF SysInv
<1>2. QED
    BY <1>1, SysInvariant, PTL

\* read of sys.c delivers no character of standard input twice and none out of
\* order, although each call reads through a stream of its own, and whatever
\* is opened, closed and written in between.
THEOREM StdinInOrder == SysSpec => []StdinOnce
<1>1. SysInv => StdinOnce
    BY DEF SysInv, InputOK
<1>2. QED
    BY <1>1, SysInvariant, PTL

(***************************************************************************)
(* The cells a call changes.                                               *)
(***************************************************************************)
\* Memory as Entered has it, but for the answer.
OnlyAnswer(m) == \A i \in DOMAIN mem \ {0, 1} : m[i] = mem[i]

LEMMA AnswerFrame ==
    ASSUME SysInv, NEW op \in {"sys", "print_num"}, At({op})
    PROVE  OnlyAnswer(Entered) /\ \A n : OnlyAnswer(Answered(Entered, n))
<1>1. DOMAIN mem = 0..size - 1
    BY SysFacts DEF Holds
<1>2. mem \in [0..size - 1 -> Value]
    BY SysFacts DEF Holds
<1>3. QED
    BY <1>1, <1>2 DEF OnlyAnswer, Answered, Entered

LEMMA FinishMem == ASSUME NEW err, NEW m, Finish(err, m, ptr) \/ Stop(err, m) PROVE mem' = m
BY DEF Finish, Dispatch, Stop

\* The machine's own lines are others.
LEMMA OtherLines == ASSUME At({"sys", "print_num"}) PROVE ~Next
BY DEF Next, Mov, CpyStart, CopyStep, CopyEnd, Size, Var, Loc, Allc, Push, Pop, Cast, Calculate,
       Bump, Not, Jmp, Jc, Call, Ret, Skip, Halt, RunOff, At,
       InPlaceOps, CastOps, SkipOps, MathOps, MathfOps

\* A read leaves memory as it was, or filled with a text that is no longer than
\* it was told.
LEMMA ReadFills ==
    ASSUME SysInv, Read
    PROVE  \/ mem' = Entered
           \/ \E fit \in 0..AtMost(ToSize(SysArg(2)), ReadMax), n \in Longs :
                \E f \in FilledOnly(SysArg(1), fit) : mem' = f \/ mem' = Answered(f, n)
<1> DEFINE fd == SysArg(0)
           got == AtMost(Len(Unread(fd)), ReadMax)
           n == Stored(got, ToSize(SysArg(2)))
           fit == Least({n} \cup {i \in 0..n - 1 : SetErr(mem, Wrap(SysArg(1) + i)) # "ok"})
           filled == Filling(Unread(fd), SysArg(1), fit)
           err == IF got = 0 THEN "IoError" ELSE IF fit < n THEN "InvalidMemAccess" ELSE "ok"
<1>1. At({"sys"})
    BY DEF Read, Calls
<1> SUFFICES ASSUME mem' # Entered
             PROVE  \E fit_ \in 0..AtMost(ToSize(SysArg(2)), ReadMax), n_ \in Longs :
                        \E f \in FilledOnly(SysArg(1), fit_) : mem' = f \/ mem' = Answered(f, n_)
    OBVIOUS
<1>2. SlotErr(fd) = "ok" /\ fd \in DOMAIN os.fds /\ os.fds[fd].reads
    BY FinishMem DEF Read
<1>3. Finish(err, IF err = "ok" THEN Answered(filled, n) ELSE filled, ptr)
    BY <1>2 DEF Read
<1>4. Unread(fd) \in Seq(Chars) /\ Len(Unread(fd)) \in Nat
    BY <1>2, UnreadType, LenProperties
<1>5. \A j \in 0..2 : SysArg(j) \in Longs
    BY <1>1, SysFacts
<1>6. SysArg(1) \in Longs
    BY <1>5
<1>7. ToSize(SysArg(2)) \in Nat /\ SysArg(1) \in Int
    BY <1>1, <1>6, WriteFacts, LongsAreInts
<1>8. /\ got \in Nat /\ got <= Len(Unread(fd)) /\ got <= ReadMax
      /\ n \in Nat /\ n <= got /\ n <= ToSize(SysArg(2))
    BY <1>4, <1>7, SystemAssumption DEF AtMost, Stored
<1>9. fit \in 0..n
    <2> DEFINE T == {n} \cup {i \in 0..n - 1 : SetErr(mem, Wrap(SysArg(1) + i)) # "ok"}
    <2>1. T \subseteq 0..n /\ T # {} /\ T \subseteq Nat
        BY <1>8
    <2> HIDE DEF T
    <2>2. Least(T) \in T
        BY <2>1, LeastType
    <2>3. QED
        BY <2>1, <2>2 DEF T
<1>10. fit \in 0..Len(Unread(fd))
    BY <1>4, <1>8, <1>9
<1>11. filled \in FilledOnly(SysArg(1), fit)
    <2>1. Entered \in [0..size - 1 -> Value]
        BY <1>1, SysFacts
    <2>2. QED
        BY <1>4, <1>7, <1>10, <2>1, FillingKeeps
<1>12. fit \in 0..AtMost(ToSize(SysArg(2)), ReadMax) /\ n \in Longs
    BY <1>7, <1>8, <1>9, SystemAssumption, WidthFacts DEF AtMost, Longs, LongMin
<1>13. mem' = filled \/ mem' = Answered(filled, n)
    BY <1>3, FinishMem
<1> HIDE DEF fit, n, filled
<1>14. QED
    BY <1>11, <1>12, <1>13

LEMMA ReadFrame ==
    ASSUME SysInv, Read
    PROVE  \A i \in DOMAIN mem \ {0, 1} : mem'[i] # mem[i] => i \in Filled
<1>1. At({"sys"}) /\ Calls(1)
    BY DEF Read, Calls
<1>2. OnlyAnswer(Entered)
    BY <1>1, AnswerFrame
<1>3. CASE mem' = Entered
    BY <1>2, <1>3 DEF OnlyAnswer
<1>4. CASE mem' # Entered
    <2>1. PICK fit \in 0..AtMost(ToSize(SysArg(2)), ReadMax), n \in Longs :
                \E f \in FilledOnly(SysArg(1), fit) : mem' = f \/ mem' = Answered(f, n)
        BY <1>4, ReadFills
    <2>2. PICK f \in FilledOnly(SysArg(1), fit) : mem' = f \/ mem' = Answered(f, n)
        BY <2>1
    <2>3. \A i \in DOMAIN mem \ {0, 1} : mem'[i] = f[i]
        <3>1. f \in [0..size - 1 -> Value] /\ DOMAIN mem = 0..size - 1
            BY <1>1, <2>2, SysFacts DEF FilledOnly, Holds
        <3>2. QED
            BY <2>2, <3>1 DEF Answered
    <2> SUFFICES ASSUME NEW i \in DOMAIN mem \ {0, 1}, mem'[i] # mem[i] PROVE i \in Filled
        OBVIOUS
    <2>4. f[i] # Entered[i] /\ i \in 0..size - 1
        BY <1>1, <1>2, <2>3, SysFacts DEF OnlyAnswer, Holds
    <2>5. PICK k \in 0..fit - 1 : i = Abs(Wrap(SysArg(1) + k))
        BY <2>2, <2>4 DEF FilledOnly
    <2>6. AtMost(ToSize(SysArg(2)), ReadMax) \in Int
        BY <1>1, WriteFacts, SystemAssumption DEF AtMost
    <2>7. k \in 0..AtMost(ToSize(SysArg(2)), ReadMax) - 1
        BY <2>5, <2>6
    <2>8. QED
        BY <1>1, <2>5, <2>7 DEF Filled
<1>5. QED
    BY <1>3, <1>4

LEMMA SysNextFrame ==
    ASSUME SysInv, SysNext, At({"sys", "print_num"})
    PROVE  \A i \in DOMAIN mem \ {0, 1} : mem'[i] # mem[i] => i \in Filled
<1>1. CASE Next
    BY <1>1, OtherLines
<1>2. CASE Read
    BY <1>2, ReadFrame
<1>3. CASE NoCall \/ Exit \/ Write \/ WriteFails \/ WriteNull
    <2>1. At({"sys"})
        BY <1>3 DEF NoCall, Exit, Write, WriteFails, WriteNull, Calls
    <2>2. mem' = Entered \/ \E n : mem' = Answered(Entered, n)
        BY <1>3, FinishMem DEF NoCall, Exit, Write, WriteFails, WriteNull
    <2>3. QED
        BY <2>1, <2>2, AnswerFrame DEF OnlyAnswer
<1>4. CASE Open \/ Close
    <2>1. At({"sys"})
        BY <1>4 DEF Open, Close, Calls
    <2>2. mem' = Entered \/ \E n : mem' = Answered(Entered, n)
        BY <1>4, FinishMem DEF Open, Close
    <2>3. QED
        BY <2>1, <2>2, AnswerFrame DEF OnlyAnswer
<1>5. CASE PrintNum
    <2>1. At({"print_num"}) /\ mem' = Entered
        BY <1>5, FinishMem DEF PrintNum
    <2>2. QED
        BY <2>1, AnswerFrame DEF OnlyAnswer
<1>6. CASE AtExit
    BY <1>6 DEF AtExit, At
<1>7. QED
    BY <1>1, <1>2, <1>3, <1>4, <1>5, <1>6 DEF SysNext

\* A call of sys.c, and print_num, leave every cell alone but the answer, the
\* line and, for read, the cells the program named, whatever comes back from
\* the file and wherever the filling stops.
THEOREM SysFrameHolds == SysSpec => SysFrame
<1> DEFINE P == At({"sys", "print_num"}) =>
                    \A i \in DOMAIN mem \ {0, 1} : mem'[i] # mem[i] => i \in Filled
<1>1. SysInv /\ [SysNext]_allvars => [P]_allvars
    BY SysNextFrame
<1>2. SysSpec => [][P]_allvars
    BY <1>1, SysInvariant, PTL DEF SysSpec
<1>3. QED
    BY <1>2 DEF SysFrame

(***************************************************************************)
(* Memory, in the step that stops the run too.                             *)
(***************************************************************************)
LEMMA CallMemory ==
    ASSUME SysInv, SysNext, NEW op \in {"sys", "print_num"}, At({op})
    PROVE  mem' \in [0..size - 1 -> Value]
<1>1. /\ Entered \in [0..size - 1 -> Value] /\ size \in Nat /\ Rest
      /\ \A n \in 0..2 : SysArg(n) \in Longs
    BY SysFacts
<1>2. \A n \in Longs : \A m \in [0..size - 1 -> Value] : Answered(m, n) \in [0..size - 1 -> Value]
    BY <1>1, AnsweredType
<1>3. CASE NoCall \/ Exit \/ WriteFails \/ Close \/ PrintNum
    BY <1>1, <1>3, FinishMem DEF NoCall, Exit, WriteFails, Close, PrintNum
<1>4. CASE Read
    BY <1>1, <1>2, <1>4, ReadFills DEF FilledOnly
<1>5. CASE Write
    <2> DEFINE n == ToSize(SysArg(2))
    <2>1. n = Len(Readable(SysArg(1), n)) /\ mem' = Answered(Entered, n) /\ At({"sys"})
        BY <1>5, FinishMem DEF Write, Calls
    <2>2. n \in Nat /\ n <= size
        BY <2>1, WriteFacts, ReadableType
    <2>3. n \in Longs
        BY <1>1, <2>2, SizeFacts, WidthFacts DEF Longs, LongMin
    <2>4. QED
        BY <1>1, <1>2, <2>1, <2>3
<1>6. CASE WriteNull
    <2>1. mem' = Answered(Entered, 0) \/ mem' = Entered
        BY <1>6, FinishMem DEF WriteNull
    <2>2. QED
        BY <1>1, <1>2, <2>1, LongsAreInts
<1>7. CASE Open
    <2> DEFINE fd == Least(0..MaxFds \ DOMAIN os.fds)
    <2>1. mem' = Entered \/ mem' = Answered(Entered, fd)
        BY <1>7, FinishMem DEF Open
    <2>2. fd \in 0..MaxFds
        <3>1. MaxFds \in 0..MaxFds \ DOMAIN os.fds
            BY SystemAssumption DEF SysInv, KernelOK
        <3>2. QED
            BY <3>1, LeastType
    <2>3. fd \in Longs
        BY <2>2, SystemAssumption, WidthFacts DEF Longs, LongMin
    <2>4. QED
        BY <1>1, <1>2, <2>1, <2>3
<1>8. CASE Next
    BY <1>8, OtherLines DEF At
<1>9. CASE AtExit
    BY <1>9 DEF AtExit, At
<1>10. QED
    BY <1>3, <1>4, <1>5, <1>6, <1>7, <1>8, <1>9 DEF SysNext

LEMMA MemoryStep == ASSUME SysInv, MemoryOK, [SysNext]_allvars PROVE MemoryOK'
<1>1. SysInv'
    BY SysNextKeeps
<1>2. CASE status' = "run"
    BY <1>1, <1>2 DEF SysInv, MachineOK, TypeOK, MemoryOK
<1>3. CASE Next
    <2>1. status = "run"
        BY <1>3 DEF Next, Mov, CpyStart, CopyStep, CopyEnd, Size, Var, Loc, Allc, Push, Pop, Cast,
               Calculate, Bump, Not, Jmp, Jc, Call, Ret, Skip, Halt, RunOff, At
    <2>2. TypeOK'
        BY <1>3, <2>1, NextKeepsType DEF SysInv, MachineOK
    <2>3. QED
        BY <2>2 DEF TypeOK, MemoryOK
<1>4. CASE UNCHANGED vars
    BY <1>4 DEF vars, MemoryOK
<1>5. CASE SysNext /\ status' # "run" /\ ~Next /\ ~AtExit
    <2>1. At({"sys"}) \/ At({"print_num"})
        BY <1>5 DEF SysNext, NoCall, Exit, Read, Write, WriteFails, WriteNull, Open, Close, PrintNum, Calls
    <2>2. mem' \in [0..size - 1 -> Value]
        BY <1>5, <2>1, CallMemory
    <2>3. UNCHANGED <<prog, size, ptr>>
        <3>1. ASSUME NEW err, NEW m, Finish(err, m, ptr) \/ Stop(err, m)
              PROVE  UNCHANGED <<prog, size, ptr>>
            <4>1. status = "run"
                BY <2>1 DEF At
            <4>2. QED
                BY <1>5, <3>1, <4>1 DEF Finish, Dispatch, Stop
        <3>2. CASE NoCall \/ Exit \/ Write \/ WriteFails \/ WriteNull
            BY <3>1, <3>2 DEF NoCall, Exit, Write, WriteFails, WriteNull
        <3>3. CASE Read \/ Open \/ Close \/ PrintNum
            BY <3>1, <3>3 DEF Read, Open, Close, PrintNum
        <3>4. QED
            BY <1>5, <3>2, <3>3 DEF SysNext
    <2>4. QED
        BY <2>2, <2>3 DEF MemoryOK
<1>6. CASE UNCHANGED allvars
    BY <1>4, <1>6 DEF allvars
<1>7. CASE AtExit
    BY <1>4, <1>7 DEF AtExit
<1>8. QED
    BY <1>2, <1>3, <1>5, <1>6, <1>7

LEMMA MemoryInvariant == SysSpec => []MemoryOK
<1>1. SysInit => MemoryOK
    BY SysInitHolds DEF SysInv, MachineOK, TypeOK, MemoryOK, SysInit, Init
<1>2. SysInv /\ MemoryOK /\ [SysNext]_allvars => MemoryOK'
    BY MemoryStep
<1>3. QED
    BY <1>1, <1>2, SysInvariant, PTL DEF SysSpec

(***************************************************************************)
(* What was given to standard output: delivered or waiting.                *)
(***************************************************************************)
\* data is what the first n texts in this order make, read step by step in cut.
Delivers(T, P, data, n, order, cut) ==
    /\ order \in [1..n -> 1..Len(T)] /\ cut \in [0..n -> Seq(Chars)]
    /\ \A i, j \in 1..n : i # j => order[i] # order[j]
    /\ \A i, j \in 1..n : i < j /\ order[j] < order[i] => T[order[j]].kind = "held"
    /\ \A p \in 1..Len(T) : p \in P <=> \A i \in 1..n : order[i] # p
    /\ cut[0] = <<>> /\ cut[n] = data
    /\ \A i \in 1..n : cut[i] = cut[i - 1] \o T[order[i]].text

\* Every text but those of P is in data, once, in an order that is allowed.
Ledger(T, P, data) ==
    /\ P \subseteq 1..Len(T)
    /\ \E n \in Nat : \E order, cut : Delivers(T, P, data, n, order, cut)

LEMMA Deliver ==
    ASSUME NEW T \in Seq(Notes), NEW P, NEW data, Ledger(T, P, data), NEW p \in P,
           T[p].kind = "held" \/ p = Len(T)
    PROVE  Ledger(T, P \ {p}, data \o T[p].text)
<1>0. PICK n \in Nat : \E order, cut : Delivers(T, P, data, n, order, cut)
    BY DEF Ledger
<1>1. PICK order, cut : Delivers(T, P, data, n, order, cut)
    BY <1>0
<1>2. P \subseteq 1..Len(T) /\ Len(T) \in Nat /\ p \in 1..Len(T)
    BY LenProperties DEF Ledger
<1> DEFINE text == T[p].text
           order2 == [i \in 1..n + 1 |-> IF i <= n THEN order[i] ELSE p]
           cut2 == [i \in 0..n + 1 |-> IF i <= n THEN cut[i] ELSE data \o text]
<1>3. /\ order \in [1..n -> 1..Len(T)] /\ cut \in [0..n -> Seq(Chars)]
      /\ \A i, j \in 1..n : i # j => order[i] # order[j]
      /\ \A i, j \in 1..n : i < j /\ order[j] < order[i] => T[order[j]].kind = "held"
      /\ \A q \in 1..Len(T) : q \in P <=> \A i \in 1..n : order[i] # q
      /\ cut[0] = <<>> /\ cut[n] = data
      /\ \A i \in 1..n : cut[i] = cut[i - 1] \o T[order[i]].text
    BY <1>1 DEF Delivers
<1>4. text \in Seq(Chars)
    <2>1. T[p] \in Notes
        BY <1>2, ElementOfSeq
    <2>2. QED
        BY <2>1 DEF Notes
<1>5. data \o text \in Seq(Chars)
    <2>1. data \in Seq(Chars)
        BY <1>3
    <2>2. QED
        BY <1>4, <2>1, ConcatProperties
<1> HIDE DEF text
<1>6. order2 \in [1..n + 1 -> 1..Len(T)] /\ \A i \in 1..n : order2[i] = order[i]
    <2>1. \A i \in 1..n + 1 : i <= n => i \in 1..n
        OBVIOUS
    <2>2. \A i \in 1..n : i \in 1..n + 1 /\ i <= n
        OBVIOUS
    <2>3. \A i \in 1..n : order[i] \in 1..Len(T)
        BY <1>3
    <2>4. \A i \in 1..n + 1 : (IF i <= n THEN order[i] ELSE p) \in 1..Len(T)
        BY <1>2, <2>1, <2>3
    <2>5. QED
        BY <2>2, <2>4
<1>7. order2[n + 1] = p /\ n + 1 \in 1..n + 1
    OBVIOUS
<1>8. cut2 \in [0..n + 1 -> Seq(Chars)] /\ \A i \in 0..n : cut2[i] = cut[i]
    BY <1>3, <1>5
<1>9. cut2[n + 1] = data \o text
    OBVIOUS
<1>10. \A i \in 1..n : order[i] # p
    BY <1>2, <1>3
<1> HIDE DEF order2, cut2
<1>11. \A i \in 1..n + 1 : i \in 1..n \/ i = n + 1
    OBVIOUS
<1>12. ASSUME NEW i \in 1..n + 1, NEW j \in 1..n + 1, i # j
       PROVE  order2[i] # order2[j]
    <2>1. CASE i \in 1..n /\ j \in 1..n
        BY <1>3, <1>6, <1>12, <2>1
    <2>2. CASE i \in 1..n /\ j = n + 1
        BY <1>6, <1>7, <1>10, <2>2
    <2>3. CASE i = n + 1 /\ j \in 1..n
        BY <1>6, <1>7, <1>10, <2>3
    <2>4. QED
        BY <1>11, <1>12, <2>1, <2>2, <2>3
<1>13. ASSUME NEW i \in 1..n + 1, NEW j \in 1..n + 1, i < j, order2[j] < order2[i]
       PROVE  T[order2[j]].kind = "held"
    <2>1. i \in 1..n
        BY <1>13
    <2>2. CASE j \in 1..n
        BY <1>3, <1>6, <1>13, <2>1, <2>2
    <2>3. CASE j = n + 1
        <3>1. p < order[i] /\ order[i] \in 1..Len(T)
            BY <1>3, <1>6, <1>7, <1>13, <2>1, <2>3
        <3>2. p # Len(T)
            BY <1>2, <3>1
        <3>3. QED
            BY <1>7, <2>3, <3>2
    <2>4. QED
        BY <1>11, <2>2, <2>3
<1>14. ASSUME NEW q \in 1..Len(T)
       PROVE  q \in P \ {p} <=> \A i \in 1..n + 1 : order2[i] # q
    <2>1. (\A i \in 1..n + 1 : order2[i] # q) <=> (\A i \in 1..n : order[i] # q) /\ p # q
        <3>1. \A i \in 1..n : i \in 1..n + 1
            OBVIOUS
        <3>2. QED
            BY <1>6, <1>7, <1>11, <3>1
    <2>2. QED
        BY <1>3, <2>1
<1>15. cut2[0] = <<>>
    BY <1>3, <1>8
<1>16. ASSUME NEW i \in 1..n + 1
       PROVE  cut2[i] = cut2[i - 1] \o T[order2[i]].text
    <2>1. CASE i \in 1..n
        <3>1. i \in 0..n /\ i - 1 \in 0..n
            BY <2>1
        <3>2. cut2[i] = cut[i] /\ cut2[i - 1] = cut[i - 1] /\ order2[i] = order[i]
            BY <1>6, <1>8, <2>1, <3>1
        <3>3. QED
            BY <1>3, <2>1, <3>2
    <2>2. CASE i = n + 1
        <3>1. i - 1 = n /\ n \in 0..n
            BY <2>2
        <3>2. cut2[i - 1] = data
            BY <1>3, <1>8, <3>1
        <3>3. QED
            BY <1>7, <1>9, <2>2, <3>2 DEF text
    <2>3. QED
        BY <1>11, <2>1, <2>2
<1>17. Delivers(T, P \ {p}, data \o text, n + 1, order2, cut2)
    BY <1>6, <1>8, <1>9, <1>12, <1>13, <1>14, <1>15, <1>16 DEF Delivers
<1>18. n + 1 \in Nat /\ P \ {p} \subseteq 1..Len(T)
    BY <1>2
<1>19. QED
    BY <1>17, <1>18 DEF Ledger, text

LEMMA Give ==
    ASSUME NEW T \in Seq(Notes), NEW P, NEW data, Ledger(T, P, data), NEW note \in Notes
    PROVE  Ledger(Append(T, note), P \cup {Len(T) + 1}, data)
<1> DEFINE U == Append(T, note)
           l == Len(T)
           Q == P \cup {l + 1}
<1>0. PICK n \in Nat : \E order, cut : Delivers(T, P, data, n, order, cut)
    BY DEF Ledger
<1>1. PICK order, cut : Delivers(T, P, data, n, order, cut)
    BY <1>0
<1>2. l \in Nat /\ Len(U) = l + 1 /\ \A i \in 1..l : U[i] = T[i]
    BY LenProperties, AppendProperties
<1>3. P \subseteq 1..l
    BY DEF Ledger
<1> HIDE DEF U, l
<1>4. /\ order \in [1..n -> 1..l] /\ cut \in [0..n -> Seq(Chars)]
      /\ \A i, j \in 1..n : i # j => order[i] # order[j]
      /\ \A i, j \in 1..n : i < j /\ order[j] < order[i] => T[order[j]].kind = "held"
      /\ \A q \in 1..l : q \in P <=> \A i \in 1..n : order[i] # q
      /\ cut[0] = <<>> /\ cut[n] = data
      /\ \A i \in 1..n : cut[i] = cut[i - 1] \o T[order[i]].text
    BY <1>1 DEF Delivers, l
<1>5. \A i \in 1..n : order[i] \in 1..l /\ order[i] # l + 1 /\ U[order[i]] = T[order[i]]
    <2>1. \A i \in 1..n : order[i] \in 1..l
        BY <1>4
    <2>2. \A a \in 1..l : a # l + 1 /\ a \in 1..l + 1
        BY <1>2
    <2>3. QED
        BY <1>2, <2>1, <2>2
<1>6. order \in [1..n -> 1..l + 1]
    <2>1. \A a \in 1..l : a \in 1..l + 1
        BY <1>2
    <2>2. QED
        BY <1>4, <2>1
<1>7. ASSUME NEW q \in 1..l + 1
      PROVE  q \in Q <=> \A i \in 1..n : order[i] # q
    <2>1. q \in 1..l \/ q = l + 1
        BY <1>2
    <2>2. QED
        BY <1>2, <1>4, <1>5, <2>1
<1>8. Q \subseteq 1..l + 1
    BY <1>2, <1>3
<1> HIDE DEF Q
<1>9. Delivers(U, Q, data, n, order, cut)
    BY <1>2, <1>4, <1>5, <1>6, <1>7 DEF Delivers
<1>10. Ledger(U, Q, data)
    BY <1>2, <1>8, <1>9 DEF Ledger
<1>11. QED
    BY <1>10 DEF U, Q, l

LEMMA NothingGiven == Ledger(<<>>, {}, <<>>)
<1> DEFINE order == [i \in 1..0 |-> 0]
           cut == [i \in 0..0 |-> <<>>]
<1>1. Len(<<>>) = 0 /\ 1..0 = {} /\ 0..0 = {0} /\ <<>> \in Seq(Chars)
    OBVIOUS
<1>2. order \in [1..0 -> 1..0] /\ cut \in [0..0 -> Seq(Chars)] /\ cut[0] = <<>>
    BY <1>1
<1> HIDE DEF order, cut
<1>3. Delivers(<<>>, {}, <<>>, 0, order, cut)
    BY <1>1, <1>2 DEF Delivers
<1>4. QED
    BY <1>3 DEF Ledger

\* The concatenation of the community modules is the one of the steps.
LEMMA FlattenIs ==
    ASSUME NEW n \in Nat \ {0}, NEW parts \in [1..n -> Seq(Chars)], NEW cut \in [0..n -> Seq(Chars)],
           cut[0] = <<>>, \A i \in 1..n : cut[i] = cut[i - 1] \o parts[i]
    PROVE  FlattenSeq(parts) = cut[n]
<1> DEFINE Is(f) == f = [i \in 1..n |-> IF i = 1 THEN parts[i] ELSE f[i - 1] \o parts[i]]
           flatten == CHOOSE f : Is(f)
           g == [i \in 1..n |-> cut[i]]
<1>1. Len(parts) = n /\ n # 0
    OBVIOUS
<1>2. FlattenSeq(parts) = flatten[n]
    BY <1>1 DEF FlattenSeq
<1>3. cut[1] = parts[1]
    <2>1. 1 \in 1..n /\ 1 - 1 = 0
        OBVIOUS
    <2>2. parts[1] \in Seq(Chars) /\ cut[1] = <<>> \o parts[1]
        BY <2>1
    <2>3. QED
        BY <2>2, ConcatEmptySeq
<1>4. \A i \in 1..n : cut[i] = IF i = 1 THEN parts[i] ELSE g[i - 1] \o parts[i]
    <2> SUFFICES ASSUME NEW i \in 1..n PROVE cut[i] = IF i = 1 THEN parts[i] ELSE g[i - 1] \o parts[i]
        OBVIOUS
    <2>1. CASE i = 1
        BY <1>3, <2>1
    <2>2. CASE i # 1
        <3>1. i - 1 \in 1..n
            BY <2>2
        <3>2. g[i - 1] = cut[i - 1]
            BY <3>1
        <3>3. QED
            BY <2>2, <3>2
    <2>3. QED
        BY <2>1, <2>2
<1>5. Is(g)
    BY <1>4
<1>6. Is(flatten)
    <2> HIDE DEF Is, g
    <2>1. QED
        BY <1>5
<1>7. \A i \in 1..n : flatten[i] = IF i = 1 THEN parts[i] ELSE flatten[i - 1] \o parts[i]
    <2> HIDE DEF flatten
    <2>1. QED
        BY <1>6
<1> HIDE DEF flatten, g
<1>8. 0..n \subseteq {i \in 0..n : i # 0 => flatten[i] = cut[i]}
    <2> DEFINE A == {i \in 0..n : i # 0 => flatten[i] = cut[i]}
    <2>1. 0 \in A
        OBVIOUS
    <2>2. ASSUME NEW i \in 0..n - 1, i \in A PROVE i + 1 \in A
        <3> DEFINE k == i + 1
        <3>1. k \in 1..n /\ k \in 0..n /\ k - 1 = i
            OBVIOUS
        <3>2. i # 0 => flatten[i] = cut[i]
            BY <2>2
        <3>3. k = 1 <=> i = 0
            OBVIOUS
        <3> HIDE DEF k
        <3>4. CASE i = 0
            <4>1. k = 1
                BY <3>3, <3>4
            <4>2. flatten[k] = parts[k]
                BY <1>7, <3>1, <4>1
            <4>3. flatten[k] = cut[k]
                BY <1>3, <4>1, <4>2
            <4>4. QED
                BY <3>1, <4>3 DEF k
        <3>5. CASE i # 0
            <4>1. flatten[k] = flatten[i] \o parts[k]
                BY <1>7, <3>1, <3>3, <3>5
            <4>2. cut[k] = cut[i] \o parts[k]
                BY <3>1
            <4>3. flatten[k] = cut[k]
                BY <3>2, <3>5, <4>1, <4>2
            <4>4. QED
                BY <3>1, <4>3 DEF k
        <3>6. QED
            BY <3>4, <3>5
    <2> HIDE DEF A
    <2>3. 0..n \subseteq A
        BY <2>1, <2>2, InductTo
    <2>4. QED
        BY <2>3 DEF A
<1>9. n \in 0..n /\ n # 0
    OBVIOUS
<1>10. QED
    BY <1>2, <1>8, <1>9

\* When nothing waits the ledger is what OutputComplete asks for.
LEMMA LedgerComplete ==
    ASSUME NEW T \in Seq(Notes), NEW data, Ledger(T, {}, data)
    PROVE  \E order \in SetToSeqs(DOMAIN T) :
            /\ \A i, j \in DOMAIN order : i < j /\ order[j] < order[i] => T[order[j]].kind = "held"
            /\ data = FlattenSeq([i \in DOMAIN order |-> T[order[i]].text])
<1>0. PICK n \in Nat : \E order, cut : Delivers(T, {}, data, n, order, cut)
    BY DEF Ledger
<1>1. PICK order, cut : Delivers(T, {}, data, n, order, cut)
    BY <1>0
<1>2. Len(T) \in Nat /\ DOMAIN T = 1..Len(T)
    BY LenProperties
<1>3. /\ order \in [1..n -> 1..Len(T)] /\ cut \in [0..n -> Seq(Chars)]
      /\ \A i, j \in 1..n : i # j => order[i] # order[j]
      /\ \A i, j \in 1..n : i < j /\ order[j] < order[i] => T[order[j]].kind = "held"
      /\ \A q \in 1..Len(T) : \E i \in 1..n : order[i] = q
      /\ cut[0] = <<>> /\ cut[n] = data
      /\ \A i \in 1..n : cut[i] = cut[i - 1] \o T[order[i]].text
    BY <1>1 DEF Delivers
<1>4. Cardinality(DOMAIN T) = n
    <2>1. order \in Bijection(1..n, DOMAIN T)
        BY <1>2, <1>3, Fun_IsBij
    <2>2. ExistsBijection(1..n, DOMAIN T)
        BY <2>1 DEF ExistsBijection
    <2>3. QED
        BY <2>2, FS_CountingElements
<1>5. order \in SetToSeqs(DOMAIN T)
    BY <1>2, <1>3, <1>4 DEF SetToSeqs
<1>6. DOMAIN order = 1..n
    BY <1>3
<1> DEFINE parts == [i \in 1..n |-> T[order[i]].text]
<1>7. parts \in [1..n -> Seq(Chars)]
    <2> SUFFICES ASSUME NEW i \in 1..n PROVE T[order[i]].text \in Seq(Chars)
        OBVIOUS
    <2>1. T[order[i]] \in Notes
        BY <1>3, ElementOfSeq
    <2>2. QED
        BY <2>1 DEF Notes
<1>8. \A i \in 1..n : cut[i] = cut[i - 1] \o parts[i]
    BY <1>3
<1>9. FlattenSeq([i \in DOMAIN order |-> T[order[i]].text]) = FlattenSeq(parts)
    BY <1>6
<1>10. FlattenSeq(parts) = data
    <2>1. CASE n = 0
        <3>1. parts \in Seq(Chars) /\ Len(parts) = 0
            BY <2>1
        <3>2. parts = <<>>
            BY <3>1, EmptySeq
        <3> HIDE DEF parts
        <3>3. FlattenSeq(parts) = parts
            BY <3>1 DEF FlattenSeq
        <3>4. QED
            BY <1>3, <2>1, <3>2, <3>3
    <2>2. CASE n # 0
        <3> HIDE DEF parts
        <3>1. n \in Nat \ {0}
            BY <2>2
        <3>2. QED
            BY <1>3, <1>7, <1>8, <3>1, FlattenIs
    <2>3. QED
        BY <2>1, <2>2
<1>11. QED
    BY <1>3, <1>5, <1>6, <1>9, <1>10

LEMMA LedgerType ==
    ASSUME NEW T, NEW P, NEW data, Ledger(T, P, data) PROVE data \in Seq(Chars)
<1>0. PICK n \in Nat : \E order, cut : Delivers(T, P, data, n, order, cut)
    BY DEF Ledger
<1>1. PICK order, cut : Delivers(T, P, data, n, order, cut)
    BY <1>0
<1>2. n \in 0..n
    OBVIOUS
<1>3. QED
    BY <1>1, <1>2 DEF Delivers

\* The streams among K that hold text for standard output, and the text of T
\* that each holds.
Live(S, K) == {k \in K : S[k].fd = 1 /\ S[k].text # <<>>}
Matches(T, P, S, K, held) ==
    /\ held \in [Live(S, K) -> P]
    /\ \A p \in P : \E k \in Live(S, K) : held[k] = p
    /\ \A j, k \in Live(S, K) : j # k => held[j] # held[k]
    /\ \A k \in Live(S, K) : T[held[k]] = [kind |-> "held", text |-> S[k].text]

\* What is not in data is in the streams of K.
Account(T, S, K, data) == \E P : Ledger(T, P, data) /\ \E held : Matches(T, P, S, K, held)

\* What a file of this data holds once a stream has been flushed to it.
After(data, s) == IF s.fd = 1 THEN data \o s.text ELSE data

LEMMA AccountFlush ==
    ASSUME NEW T \in Seq(Notes), NEW S, NEW K, NEW data, Account(T, S, K, data), NEW k \in K
    PROVE  Account(T, S, K \ {k}, After(data, S[k]))
<1>0. PICK P : Ledger(T, P, data) /\ \E held : Matches(T, P, S, K, held)
    BY DEF Account
<1>1. PICK held : Matches(T, P, S, K, held)
    BY <1>0
<1> DEFINE L == Live(S, K)
           M == Live(S, K \ {k})
<1>2. /\ held \in [L -> P]
      /\ \A p \in P : \E j \in L : held[j] = p
      /\ \A i, j \in L : i # j => held[i] # held[j]
      /\ \A j \in L : T[held[j]] = [kind |-> "held", text |-> S[j].text]
    BY <1>1 DEF Matches
<1>3. M = L \ {k}
    BY DEF Live
<1>4. k \in L <=> S[k].fd = 1 /\ S[k].text # <<>>
    BY DEF Live
<1> HIDE DEF L, M
<1>5. CASE k \in L
    <2> DEFINE p == held[k]
               rest == [j \in M |-> held[j]]
    <2>1. p \in P /\ T[p] = [kind |-> "held", text |-> S[k].text]
        BY <1>2, <1>5
    <2>2. T[p].kind = "held" /\ T[p].text = S[k].text
        BY <2>1
    <2> HIDE DEF p
    <2>3. Ledger(T, P \ {p}, data \o S[k].text)
        <3>1. Ledger(T, P \ {p}, data \o T[p].text)
            BY <1>0, <2>1, <2>2, Deliver
        <3>2. QED
            BY <2>2, <3>1
    <2>4. rest \in [M -> P \ {p}] /\ \A j \in M : rest[j] = held[j]
        BY <1>2, <1>3, <1>5 DEF p
    <2> HIDE DEF rest
    <2>5. \A q \in P \ {p} : \E j \in M : rest[j] = q
        BY <1>2, <1>3, <2>4 DEF p
    <2>6. Matches(T, P \ {p}, S, K \ {k}, rest)
        BY <1>2, <1>3, <2>4, <2>5 DEF Matches, M
    <2>7. After(data, S[k]) = data \o S[k].text
        BY <1>4, <1>5 DEF After
    <2>8. QED
        BY <2>3, <2>6, <2>7 DEF Account
<1>6. CASE k \notin L
    <2>1. M = L
        BY <1>3, <1>6
    <2>2. Matches(T, P, S, K \ {k}, held)
        BY <1>2, <2>1 DEF Matches, M, L
    <2>3. After(data, S[k]) = data
        <3>1. CASE S[k].fd = 1
            <4>1. S[k].text = <<>>
                BY <1>4, <1>6, <3>1
            <4>2. data \o <<>> = data
                BY <1>0, LedgerType, ConcatEmptySeq
            <4>3. QED
                BY <3>1, <4>1, <4>2 DEF After
        <3>2. CASE S[k].fd # 1
            BY <3>2 DEF After
        <3>3. QED
            BY <3>1, <3>2
    <2>4. QED
        BY <1>0, <2>2, <2>3 DEF Account
<1>7. QED
    BY <1>5, <1>6

\* A text that is sent at once: it is the last of all.
LEMMA AccountSend ==
    ASSUME NEW T \in Seq(Notes), NEW S, NEW K, NEW data, Account(T, S, K, data), NEW text \in Seq(Chars)
    PROVE  Account(Append(T, [kind |-> "write", text |-> text]), S, K, data \o text)
<1> DEFINE note == [kind |-> "write", text |-> text]
           U == Append(T, note)
           l == Len(T)
<1>0. PICK P : Ledger(T, P, data) /\ \E held : Matches(T, P, S, K, held)
    BY DEF Account
<1>1. PICK held : Matches(T, P, S, K, held)
    BY <1>0
<1>2. note \in Notes /\ note.text = text
    BY DEF Notes
<1> HIDE DEF note
<1>3. l \in Nat /\ U \in Seq(Notes) /\ Len(U) = l + 1 /\ U[l + 1] = note /\ \A i \in 1..l : U[i] = T[i]
    BY <1>2, LenProperties, AppendProperties
<1>4. Ledger(U, P \cup {l + 1}, data)
    BY <1>0, <1>2, Give
<1> HIDE DEF U, l
<1>5. P \subseteq 1..l
    BY <1>0 DEF Ledger, l
<1>6. l + 1 \notin P
    BY <1>3, <1>5
<1>7. (P \cup {l + 1}) \ {l + 1} = P
    BY <1>6
<1>8. Ledger(U, P, data \o text)
    <2> DEFINE Q == P \cup {l + 1}
    <2>1. l + 1 \in Q /\ Ledger(U, Q, data)
        BY <1>4
    <2> HIDE DEF Q
    <2>2. Ledger(U, Q \ {l + 1}, data \o U[l + 1].text)
        BY <1>3, <2>1, Deliver
    <2>3. QED
        BY <1>2, <1>3, <1>7, <2>2 DEF Q
<1>9. Matches(U, P, S, K, held)
    <2>1. \A k \in Live(S, K) : U[held[k]] = T[held[k]]
        BY <1>1, <1>3, <1>5 DEF Matches
    <2>2. QED
        BY <1>1, <2>1 DEF Matches
<1>10. Account(U, S, K, data \o text)
    BY <1>8, <1>9 DEF Account
<1>11. QED
    BY <1>10 DEF U, note

\* A text that a new stream holds.
LEMMA AccountHold ==
    ASSUME NEW T \in Seq(Notes), NEW S \in Seq(Held), NEW data, Account(T, S, DOMAIN S, data),
           NEW s \in Held, s.fd = 1, s.text # <<>>
    PROVE  LET R == Append(S, s)
           IN  Account(Append(T, [kind |-> "held", text |-> s.text]), R, DOMAIN R, data)
<1> DEFINE note == [kind |-> "held", text |-> s.text]
           U == Append(T, note)
           R == Append(S, s)
           l == Len(T)
           m == Len(S)
<1>0. PICK P : Ledger(T, P, data) /\ \E held : Matches(T, P, S, DOMAIN S, held)
    BY DEF Account
<1>1. PICK held : Matches(T, P, S, DOMAIN S, held)
    BY <1>0
<1>2. note \in Notes
    BY DEF Notes, Held
<1>3. l \in Nat /\ U \in Seq(Notes) /\ Len(U) = l + 1 /\ U[l + 1] = note /\ \A i \in 1..l : U[i] = T[i]
    <2> HIDE DEF note
    <2>1. QED
        BY <1>2, LenProperties, AppendProperties
<1>4. m \in Nat /\ DOMAIN S = 1..m /\ DOMAIN R = 1..m + 1 /\ R[m + 1] = s /\ \A i \in 1..m : R[i] = S[i]
    <2>1. R \in Seq(Held) /\ Len(R) = m + 1 /\ R[m + 1] = s /\ \A i \in 1..m : R[i] = S[i]
        BY AppendProperties
    <2> HIDE DEF R
    <2>2. QED
        BY <2>1, LenProperties
<1>5. P \subseteq 1..l
    BY <1>0 DEF Ledger
<1> DEFINE Q == P \cup {l + 1}
           L == Live(S, DOMAIN S)
           M == Live(R, DOMAIN R)
           held2 == [k \in M |-> IF k = m + 1 THEN l + 1 ELSE held[k]]
<1>6. Ledger(U, Q, data)
    <2> HIDE DEF note
    <2>1. QED
        BY <1>0, <1>2, Give
<1>7. M = L \cup {m + 1} /\ m + 1 \notin L
    <2> HIDE DEF R
    <2>1. \A k \in 1..m + 1 : k \in 1..m \/ k = m + 1
        BY <1>4
    <2>2. \A k \in 1..m : k \in 1..m + 1 /\ k # m + 1
        BY <1>4
    <2>3. m + 1 \in 1..m + 1
        BY <1>4
    <2>4. QED
        BY <1>4, <2>1, <2>2, <2>3 DEF Live
<1>8. /\ held \in [L -> P]
      /\ \A p \in P : \E k \in L : held[k] = p
      /\ \A j, k \in L : j # k => held[j] # held[k]
      /\ \A k \in L : T[held[k]] = [kind |-> "held", text |-> S[k].text]
    BY <1>1 DEF Matches
<1>9. \A k \in L : R[k] = S[k]
    <2> HIDE DEF R
    <2>1. QED
        BY <1>4 DEF Live
<1>10. \A p \in P : p # l + 1 /\ U[p] = T[p]
    <2>1. \A p \in P : p \in 1..l
        BY <1>5
    <2> HIDE DEF U
    <2>2. QED
        BY <1>3, <2>1
<1> HIDE DEF U, R, L, M, l, m
<1>11. held2 \in [M -> Q] /\ held2[m + 1] = l + 1 /\ \A k \in L : held2[k] = held[k]
    BY <1>7, <1>8
<1> HIDE DEF held2
<1>12. \A p \in Q : \E k \in M : held2[k] = p
    BY <1>7, <1>8, <1>11
<1>13. \A j, k \in M : j # k => held2[j] # held2[k]
    BY <1>7, <1>8, <1>10, <1>11
<1>14. \A k \in M : U[held2[k]] = [kind |-> "held", text |-> R[k].text]
    <2>1. \A k \in L : held[k] \in P
        BY <1>8
    <2>2. QED
        BY <1>3, <1>4, <1>7, <1>8, <1>9, <1>10, <1>11, <2>1
<1>15. Matches(U, Q, R, DOMAIN R, held2)
    BY <1>11, <1>12, <1>13, <1>14 DEF Matches, M
<1>16. Account(U, R, DOMAIN R, data)
    BY <1>6, <1>15 DEF Account
<1>17. QED
    BY <1>16 DEF U, R

\* The same streams under other numbers.
LEMMA AccountRenumber ==
    ASSUME NEW T, NEW S, NEW K, NEW data, Account(T, S, K, data),
           NEW R, NEW J, NEW g \in [J -> K],
           \A k \in Live(S, K) : \E j \in J : g[j] = k,
           \A i, j \in J : i # j => g[i] # g[j],
           \A j \in J : R[j] = S[g[j]]
    PROVE  Account(T, R, J, data)
<1>0. PICK P : Ledger(T, P, data) /\ \E held : Matches(T, P, S, K, held)
    BY DEF Account
<1>1. PICK held : Matches(T, P, S, K, held)
    BY <1>0
<1> DEFINE L == Live(S, K)
           M == Live(R, J)
           held2 == [j \in M |-> held[g[j]]]
<1>2. /\ held \in [L -> P]
      /\ \A p \in P : \E k \in L : held[k] = p
      /\ \A j, k \in L : j # k => held[j] # held[k]
      /\ \A k \in L : T[held[k]] = [kind |-> "held", text |-> S[k].text]
    BY <1>1 DEF Matches
<1>3. \A j \in M : j \in J /\ g[j] \in L /\ R[j] = S[g[j]]
    BY DEF Live
<1>4. \A k \in L : \E j \in M : g[j] = k
    BY DEF Live
<1> HIDE DEF L, M
<1>5. held2 \in [M -> P] /\ \A j \in M : held2[j] = held[g[j]]
    BY <1>2, <1>3
<1> HIDE DEF held2
<1>6. \A p \in P : \E j \in M : held2[j] = p
    BY <1>2, <1>4, <1>5
<1>7. \A i, j \in M : i # j => held2[i] # held2[j]
    BY <1>2, <1>3, <1>5
<1>8. \A j \in M : T[held2[j]] = [kind |-> "held", text |-> R[j].text]
    BY <1>2, <1>3, <1>5
<1>9. Matches(T, P, R, J, held2)
    BY <1>5, <1>6, <1>7, <1>8 DEF Matches, M
<1>10. QED
    BY <1>0, <1>9 DEF Account

(***************************************************************************)
(* The descriptor of standard output.                                      *)
(***************************************************************************)
OutOpen(k) == 1 \in DOMAIN k.fds /\ k.fds[1].file = Std(1)
OutData(k) == k.disk[Std(1)].data

\* Only 1 stands for standard output, and it is at the end of it.
OneOut(k) ==
    \A fd \in DOMAIN k.fds : k.fds[fd].file = Std(1) =>
        /\ fd = 1
        /\ k.fds[fd].writes /\ ~k.fds[fd].reads /\ ~k.fds[fd].append
        /\ k.fds[fd].pos = Len(OutData(k))

OutInv ==
    /\ texts \in Seq(Notes)
    /\ OneOut(os)
    /\ OutOpen(os) => Account(texts, streams, DOMAIN streams, OutData(os))

LEMMA OverwrittenEnd ==
    ASSUME NEW data \in Seq(Chars), NEW text \in Seq(Chars)
    PROVE  Overwritten(data, Len(data), text) = data \o text
<1> DEFINE l == Len(data)
           n == Len(text)
           new == Overwritten(data, l, text)
<1>1. l \in Nat /\ n \in Nat
    BY LenProperties
<1>2. data \o text \in Seq(Chars) /\ Len(data \o text) = l + n
      /\ \A i \in 1..l + n : (data \o text)[i] = IF i <= l THEN data[i] ELSE text[i - l]
    BY ConcatProperties
<1>3. new \in Seq(Chars)
    BY <1>1, OverwrittenType
<1> HIDE DEF l, n
<1>4. (IF l > l + n THEN l ELSE l + n) = l + n
    BY <1>1
<1>5. new = [i \in 1..l + n |-> IF i > l /\ i <= l + n THEN text[i - l]
                                ELSE IF i <= l THEN data[i] ELSE 0]
    BY <1>4 DEF Overwritten, l, n
<1>6. \A i \in 1..l + n : new[i] = IF i <= l THEN data[i] ELSE text[i - l]
    BY <1>1, <1>5
<1>7. DOMAIN new = 1..l + n
    BY <1>5
<1> HIDE DEF new
<1>8. Len(new) = l + n
    BY <1>1, <1>3, <1>7, LenProperties
<1>9. new = data \o text
    BY <1>2, <1>3, <1>6, <1>8, SeqEqual
<1>10. QED
    BY <1>9 DEF new, l

\* Text that is flushed, to whatever descriptor, keeps standard output so.
LEMMA OutOne ==
    ASSUME NEW D, NEW F, NEW k \in Kernel(D, F), OneOut(k), NEW s, s.text \in Seq(Chars)
    PROVE  LET q == Out(k, s.fd, s.text)
           IN  /\ OneOut(q)
               /\ OutOpen(q) <=> OutOpen(k)
               /\ OutOpen(k) => OutData(q) = After(OutData(k), s)
<1> DEFINE fd == s.fd
           text == s.text
           q == Out(k, fd, text)
           d == k.fds[fd]
           data == k.disk[d.file].data
           pos == IF d.append THEN Len(data) ELSE d.pos
<1>1. k.fds \in [D -> Descs(F)] /\ k.disk \in [F -> Files] /\ DOMAIN k.fds = D
    BY DEF Kernel
<1>2. CASE fd \notin D \/ ~k.fds[fd].writes
    <2>1. q = k
        BY <1>1, <1>2 DEF Out
    <2>2. OutOpen(k) => s.fd # 1
        BY <1>1, <1>2 DEF OutOpen, OneOut
    <2> HIDE DEF q
    <2>3. QED
        BY <2>1, <2>2 DEF After, q
<1>3. CASE fd \in D /\ k.fds[fd].writes
    <2> DEFINE fds == [k.fds EXCEPT ![fd].pos = pos + Len(text)]
               disk == [k.disk EXCEPT ![d.file].data = Overwritten(data, pos, text)]
    <2>1. q = [k EXCEPT !.disk = disk, !.fds = fds]
        BY <1>1, <1>3 DEF Out, Kernel
    <2>2. d \in Descs(F) /\ d.file \in F
        BY <1>1, <1>3 DEF Descs
    <2> HIDE DEF q, data, pos
    <2>3. q.fds = fds /\ q.disk = disk
        <3> HIDE DEF fds, disk
        <3>1. k \in [fds : [D -> Descs(F)], disk : [F -> Files]]
            BY DEF Kernel
        <3>2. [k EXCEPT !.disk = disk, !.fds = fds].fds = fds /\ [k EXCEPT !.disk = disk, !.fds = fds].disk = disk
            BY <3>1
        <3>3. QED
            BY <2>1, <3>2
    <2>4. /\ q.fds = [k.fds EXCEPT ![fd].pos = pos + Len(text)]
          /\ q.disk = [k.disk EXCEPT ![d.file].data = Overwritten(data, pos, text)]
        BY <2>3
    <2> HIDE DEF fds, disk
    <2>5. /\ DOMAIN q.fds = D
          /\ \A e \in D : /\ q.fds[e].file = k.fds[e].file
                          /\ q.fds[e].writes = k.fds[e].writes
                          /\ q.fds[e].reads = k.fds[e].reads
                          /\ q.fds[e].append = k.fds[e].append
                          /\ e # fd => q.fds[e].pos = k.fds[e].pos
          /\ q.fds[fd].pos = pos + Len(text)
        BY <1>1, <1>3, <2>4 DEF Descs
    <2>6. OutOpen(q) <=> OutOpen(k)
        BY <1>1, <2>5 DEF OutOpen
    <2>7. CASE d.file = Std(1)
        <3>1. fd = 1 /\ ~d.append /\ d.pos = Len(OutData(k)) /\ data = OutData(k)
            BY <1>1, <1>3, <2>7 DEF OneOut, OutData, data
        <3>2. pos = Len(data)
            BY <3>1 DEF pos
        <3>3. data \in Seq(Chars)
            BY <1>1, <2>2 DEF Files, data
        <3>4. OutData(q) = Overwritten(data, pos, text)
            <4>1. q.disk[d.file] = [k.disk[d.file] EXCEPT !.data = Overwritten(data, pos, text)]
                BY <1>1, <2>4, <2>2
            <4>2. k.disk[d.file] \in Files
                BY <1>1, <2>2
            <4>3. q.disk[d.file].data = Overwritten(data, pos, text)
                BY <4>1, <4>2 DEF Files
            <4>4. QED
                BY <2>7, <4>3 DEF OutData
        <3>5. OutData(q) = data \o text
            BY <3>2, <3>3, <3>4, OverwrittenEnd
        <3>6. Len(OutData(q)) = Len(data) + Len(text)
            BY <3>3, <3>5, ConcatProperties
        <3>7. OneOut(q)
            BY <1>1, <2>5, <3>1, <3>2, <3>6 DEF OneOut
        <3>8. QED
            BY <2>6, <3>1, <3>5, <3>7 DEF After, q
    <2>8. CASE d.file # Std(1)
        <3>1. Std(1) \in F => OutData(q) = OutData(k)
            BY <1>1, <2>4, <2>2, <2>8 DEF OutData
        <3>2. \A e \in D : k.fds[e].file \in F
            BY <1>1 DEF Descs
        <3>3. OneOut(q)
            BY <1>1, <2>5, <2>8, <3>1, <3>2 DEF OneOut
        <3>4. OutOpen(k) => s.fd # 1 /\ OutData(q) = OutData(k)
            BY <1>1, <2>8, <3>1, <3>2 DEF OutOpen
        <3>5. QED
            BY <2>6, <3>3, <3>4 DEF After, q
    <2>9. QED
        BY <2>7, <2>8
<1>4. QED
    BY <1>2, <1>3

(***************************************************************************)
(* Steps, and what was given to standard output.                           *)
(***************************************************************************)
LEMMA NotedIs ==
    ASSUME OutInv, NEW fd, NEW kind \in {"write", "held"}, NEW text \in Seq(Chars)
    PROVE  /\ Noted(fd, kind, text) \in Seq(Notes)
           /\ OutOpen(os) => Noted(fd, kind, text) =
                IF fd = 1 /\ text # <<>> THEN Append(texts, [kind |-> kind, text |-> text]) ELSE texts
<1> DEFINE note == [kind |-> kind, text |-> text]
<1>1. note \in Notes
    BY DEF Notes
<1> HIDE DEF note
<1>2. Append(texts, note) \in Seq(Notes) /\ texts \in Seq(Notes)
    BY <1>1, AppendProperties DEF OutInv
<1>3. Noted(fd, kind, text) =
        IF fd \in DOMAIN os.fds /\ os.fds[fd].file = Std(1) /\ text # <<>> THEN Append(texts, note) ELSE texts
    BY DEF Noted, note
<1>4. OutOpen(os) => (fd \in DOMAIN os.fds /\ os.fds[fd].file = Std(1) <=> fd = 1)
    BY DEF OutOpen, OutInv, OneOut
<1>5. QED
    BY <1>2, <1>3, <1>4 DEF note

LEMMA AccountNoted ==
    ASSUME OutInv, OutOpen(os), NEW fd, NEW text \in Seq(Chars)
    PROVE  Account(Noted(fd, "write", text), streams, DOMAIN streams,
                   After(OutData(os), [fd |-> fd, text |-> text]))
<1> DEFINE data == OutData(os)
<1>1. texts \in Seq(Notes) /\ Account(texts, streams, DOMAIN streams, data)
    BY DEF OutInv
<1>2. data \in Seq(Chars)
    BY <1>1, LedgerType DEF Account
<1> HIDE DEF data
<1>3. CASE fd = 1 /\ text # <<>>
    <2>1. Noted(fd, "write", text) = Append(texts, [kind |-> "write", text |-> text])
        BY <1>3, NotedIs
    <2>2. After(data, [fd |-> fd, text |-> text]) = data \o text
        BY <1>3 DEF After
    <2>3. QED
        BY <1>1, <2>1, <2>2, AccountSend DEF data
<1>4. CASE ~(fd = 1 /\ text # <<>>)
    <2>1. Noted(fd, "write", text) = texts
        BY <1>4, NotedIs
    <2>2. After(data, [fd |-> fd, text |-> text]) = data
        BY <1>2, <1>4, ConcatEmptySeq DEF After
    <2>3. QED
        BY <1>1, <2>1, <2>2 DEF data
<1>5. QED
    BY <1>3, <1>4

\* A stream that holds text, for standard output or not.
LEMMA AccountLeave ==
    ASSUME NEW T \in Seq(Notes), NEW S \in Seq(Held), NEW data, Account(T, S, DOMAIN S, data), NEW s \in Held
    PROVE  LET R == Append(S, s)
               U == IF s.fd = 1 /\ s.text # <<>> THEN Append(T, [kind |-> "held", text |-> s.text]) ELSE T
           IN  Account(U, R, DOMAIN R, data)
<1>1. CASE s.fd = 1 /\ s.text # <<>>
    BY <1>1, AccountHold
<1>2. CASE ~(s.fd = 1 /\ s.text # <<>>)
    <2> DEFINE R == Append(S, s)
               L == Live(S, DOMAIN S)
               M == Live(R, DOMAIN R)
               m == Len(S)
    <2>1. m \in Nat /\ DOMAIN S = 1..m /\ DOMAIN R = 1..m + 1 /\ R[m + 1] = s /\ \A i \in 1..m : R[i] = S[i]
        <3>1. R \in Seq(Held) /\ Len(R) = m + 1 /\ R[m + 1] = s /\ \A i \in 1..m : R[i] = S[i]
            BY AppendProperties
        <3> HIDE DEF R
        <3>2. QED
            BY <3>1, LenProperties
    <2> HIDE DEF R, m
    <2>2. \A k \in 1..m + 1 : k \in 1..m \/ k = m + 1
        BY <2>1
    <2>3. \A k \in 1..m : k \in 1..m + 1
        BY <2>1
    <2>4. M = L
        BY <1>2, <2>1, <2>2, <2>3 DEF Live
    <2>5. \A k \in L : R[k] = S[k]
        BY <2>1 DEF Live
    <2>6. \A P, held : Matches(T, P, S, DOMAIN S, held) => Matches(T, P, R, DOMAIN R, held)
        <3> SUFFICES ASSUME NEW P, NEW held, Matches(T, P, S, DOMAIN S, held)
                     PROVE  Matches(T, P, R, DOMAIN R, held)
            OBVIOUS
        <3>1. /\ held \in [L -> P]
              /\ \A p \in P : \E k \in L : held[k] = p
              /\ \A j, k \in L : j # k => held[j] # held[k]
              /\ \A k \in L : T[held[k]] = [kind |-> "held", text |-> S[k].text]
            BY DEF Matches
        <3>2. /\ held \in [M -> P]
              /\ \A p \in P : \E k \in M : held[k] = p
              /\ \A j, k \in M : j # k => held[j] # held[k]
              /\ \A k \in M : T[held[k]] = [kind |-> "held", text |-> R[k].text]
            <4> HIDE DEF L, M
            <4>1. QED
                BY <2>4, <2>5, <3>1
        <3>3. QED
            BY <3>2 DEF Matches
    <2>7. Account(T, R, DOMAIN R, data)
        BY <2>6 DEF Account
    <2>8. QED
        BY <1>2, <2>7 DEF R
<1>3. QED
    BY <1>1, <1>2

\* Whatever the order in which fflush of a null stream takes the streams.
LEMMA FlushedAllOut ==
    ASSUME SysInv, OutInv, NEW order \in Bijection(DOMAIN streams, DOMAIN streams)
    PROVE  LET q == FlushedAll(order)
           IN  /\ OneOut(q)
               /\ OutOpen(q) <=> OutOpen(os)
               /\ OutOpen(os) => Account(texts, <<>>, DOMAIN <<>>, OutData(q))
<1> DEFINE m == Len(streams)
           D == DOMAIN os.fds
           F == DOMAIN os.disk
           ToDo(n) == {order[i] : i \in n + 1..m}
<1>1. os \in Kernel(D, F) /\ streams \in Seq(Held)
    BY DEF SysInv, KernelOK
<1>2. PICK after :
            /\ after[0] = os
            /\ \A i \in 1..m : after[i] = Out(after[i - 1], streams[order[i]].fd, streams[order[i]].text)
            /\ \A i \in 0..m : after[i] \in Written(os)
            /\ FlushedAll(order) = after[m]
    BY <1>1, FlushedAllSteps
<1>3. \A i \in 0..m : after[i] \in Kernel(D, F)
    BY <1>2 DEF Written
<1>4. m \in Nat /\ DOMAIN streams = 1..m /\ \A i \in 1..m : streams[i] \in Held
    BY <1>1, LenProperties, ElementOfSeq
<1>5. /\ \A i \in 1..m : order[i] \in 1..m
      /\ \A i, j \in 1..m : i # j => order[i] # order[j]
      /\ \A k \in 1..m : \E i \in 1..m : order[i] = k
    BY <1>4, Fun_IsBij DEF Bijection, Injection, Surjection, IsInjective
<1>6. texts \in Seq(Notes) /\ OneOut(os) /\ (OutOpen(os) => Account(texts, streams, 1..m, OutData(os)))
    BY <1>4 DEF OutInv
<1> DEFINE Good(n, q) == /\ OneOut(q)
                         /\ OutOpen(q) <=> OutOpen(os)
                         /\ OutOpen(os) => Account(texts, streams, ToDo(n), OutData(q))
           A == {n \in 0..m : Good(n, after[n])}
<1> HIDE DEF m, D, F
<1>7. 0 \in A
    <2>1. 0 + 1..m = 1..m
        OBVIOUS
    <2>2. ToDo(0) = {order[i] : i \in 1..m}
        BY <2>1
    <2>3. ToDo(0) = 1..m
        BY <1>5, <2>2
    <2> HIDE DEF ToDo
    <2>4. Good(0, os)
        BY <1>6, <2>3
    <2> HIDE DEF Good
    <2>5. QED
        BY <1>2, <1>4, <2>4
<1>8. ASSUME NEW n \in 0..m - 1, n \in A PROVE n + 1 \in A
    <2>1. n + 1 \in 1..m /\ n + 1 \in 0..m /\ n \in 0..m /\ n + 1 - 1 = n
        BY <1>4
    <2> DEFINE k == order[n + 1]
               s == streams[k]
    <2>2. k \in 1..m /\ s \in Held
        BY <1>4, <1>5, <2>1
    <2>3. s.text \in Seq(Chars)
        BY <2>2 DEF Held
    <2>4. after[n + 1] = Out(after[n], s.fd, s.text)
        BY <1>2, <2>1
    <2>5. ToDo(n + 1) = ToDo(n) \ {k} /\ k \in ToDo(n)
        <3>1. n + 1 \in n + 1..m
            BY <1>4, <2>1
        <3>2. \A i \in n + 1..m : i \in 1..m /\ (i = n + 1 \/ i \in n + 1 + 1..m)
            BY <1>4, <2>1
        <3>3. \A i \in n + 1 + 1..m : i \in n + 1..m /\ i # n + 1
            BY <1>4, <2>1
        <3>4. \A i \in n + 1 + 1..m : order[i] # k
            BY <1>5, <2>1, <3>2, <3>3
        <3>5. QED
            BY <3>1, <3>2, <3>3, <3>4
    <2> HIDE DEF k, s, ToDo
    <2> DEFINE q == after[n]
    <2>0. Good(n, q)
        <3> HIDE DEF Good
        <3>1. QED
            BY <1>8
    <2>6. q \in Kernel(D, F) /\ OneOut(q) /\ (OutOpen(q) <=> OutOpen(os))
          /\ (OutOpen(os) => Account(texts, streams, ToDo(n), OutData(q)))
        BY <1>3, <2>0, <2>1
    <2> HIDE DEF q
    <2> DEFINE r == Out(q, s.fd, s.text)
    <2>7. OneOut(r) /\ (OutOpen(r) <=> OutOpen(q)) /\ (OutOpen(q) => OutData(r) = After(OutData(q), s))
        BY <2>3, <2>6, OutOne
    <2> HIDE DEF r
    <2>8. OutOpen(os) => Account(texts, streams, ToDo(n + 1), OutData(r))
        <3> SUFFICES ASSUME OutOpen(os) PROVE Account(texts, streams, ToDo(n + 1), OutData(r))
            OBVIOUS
        <3>1. Account(texts, streams, ToDo(n) \ {k}, After(OutData(q), streams[k]))
            BY <1>6, <2>5, <2>6, AccountFlush
        <3>2. QED
            BY <2>5, <2>6, <2>7, <3>1 DEF s
    <2>9. after[n + 1] = r
        BY <2>4 DEF r, q
    <2>10. Good(n + 1, r)
        BY <2>6, <2>7, <2>8
    <2> HIDE DEF Good
    <2>11. QED
        BY <2>1, <2>9, <2>10
<1> HIDE DEF A
<1>9. 0..m \subseteq A
    BY <1>4, <1>7, <1>8, InductTo
<1>10. m \in A
    BY <1>4, <1>9
<1>11. ToDo(m) = {}
    BY <1>4
<1> DEFINE q == after[m]
<1>12. Good(m, q)
    <2> HIDE DEF Good
    <2>1. QED
        BY <1>10 DEF A
<1> HIDE DEF ToDo, q
<1>13. ASSUME OutOpen(os) PROVE Account(texts, <<>>, DOMAIN <<>>, OutData(q))
    <2>1. Account(texts, streams, {}, OutData(q))
        BY <1>11, <1>13, <1>12
    <2> DEFINE g == [j \in DOMAIN <<>> |-> 0]
    <2>2. g \in [DOMAIN <<>> -> {}] /\ DOMAIN <<>> = {} /\ Live(streams, {}) = {}
        BY DEF Live
    <2> HIDE DEF g
    <2>3. QED
        BY <2>1, <2>2, AccountRenumber
<1>14. FlushedAll(order) = q
    BY <1>2 DEF q
<1>15. QED
    BY <1>13, <1>14, <1>12

\* A step that gives standard output nothing.
LEMMA OutMoved ==
    ASSUME OutInv, UNCHANGED <<streams, texts>>, OneOut(os'),
           OutOpen(os') => OutOpen(os) /\ OutData(os') = OutData(os)
    PROVE  OutInv'
BY DEF OutInv

LEMMA OutStays == ASSUME OutInv, UNCHANGED io PROVE OutInv'
<1>1. os' = os /\ streams' = streams /\ texts' = texts
    BY DEF io
<1>2. OneOut(os') /\ (OutOpen(os') => OutOpen(os) /\ OutData(os') = OutData(os))
    BY <1>1 DEF OutInv
<1>3. QED
    BY <1>1, <1>2, OutMoved

LEMMA ReadOut == ASSUME SysInv, OutInv, Read PROVE OutInv'
<1> DEFINE fd == SysArg(0)
           D == DOMAIN os.fds
           F == DOMAIN os.disk
           pos == os.fds[fd].pos + Taken(fd)
           fds == [os.fds EXCEPT ![fd].pos = pos]
<1>1. CASE UNCHANGED io
    BY <1>1, OutStays
<1>2. CASE ~UNCHANGED io
    <2>1. /\ fd \in D /\ os.fds[fd].reads
          /\ os' = [os EXCEPT !.fds[fd].pos = @ + Taken(fd)]
          /\ UNCHANGED <<streams, texts>>
        BY <1>2 DEF Read
    <2>2. os \in [fds : [D -> Descs(F)], disk : [F -> Files]]
        BY DEF SysInv, KernelOK, Kernel
    <2>3. os' = [os EXCEPT !.fds = fds]
        BY <2>1, <2>2
    <2>4. /\ DOMAIN fds = D
          /\ \A e \in D : /\ fds[e].file = os.fds[e].file
                          /\ fds[e].writes = os.fds[e].writes
                          /\ fds[e].reads = os.fds[e].reads
                          /\ fds[e].append = os.fds[e].append
                          /\ e # fd => fds[e].pos = os.fds[e].pos
        <3> HIDE DEF pos
        <3>1. os.fds \in [D -> Descs(F)]
            BY <2>2
        <3>2. QED
            BY <2>1, <3>1 DEF Descs
    <2> HIDE DEF fds, D, F, fd
    <2>5. os'.fds = fds /\ os'.disk = os.disk
        BY <2>2, <2>3
    <2>6. os.fds[fd].file # Std(1)
        BY <2>1 DEF OutInv, OneOut, D
    <2>7. OneOut(os')
        BY <2>1, <2>4, <2>5, <2>6 DEF OutInv, OneOut, OutData, D
    <2>8. OutOpen(os') => OutOpen(os) /\ OutData(os') = OutData(os)
        BY <2>4, <2>5 DEF OutOpen, OutData, D
    <2>9. QED
        BY <2>1, <2>7, <2>8, OutMoved
<1>3. QED
    BY <1>1, <1>2

LEMMA WriteOut == ASSUME SysInv, OutInv, Write PROVE OutInv'
<1> DEFINE fd == SysArg(0)
           n == ToSize(SysArg(2))
           text == Readable(SysArg(1), n)
           s == [fd |-> fd, text |-> text]
<1>1. At({"sys"})
    BY DEF Write, Calls
<1>2. /\ os' = Out(os, fd, text)
      /\ streams' = streams
      /\ texts' = Noted(fd, "write", text)
    BY DEF Write, Send
<1>3. n \in Nat /\ text \in Seq(Chars)
    BY <1>1, WriteFacts, ReadableType
<1>4. os \in Kernel(DOMAIN os.fds, DOMAIN os.disk) /\ OneOut(os)
    BY DEF SysInv, KernelOK, OutInv
<1> HIDE DEF fd, text
<1>5. s.fd = fd /\ s.text = text
    OBVIOUS
<1> HIDE DEF s
<1>6. os' = Out(os, s.fd, s.text)
    BY <1>2, <1>5
<1>7. OneOut(os') /\ (OutOpen(os') <=> OutOpen(os)) /\ (OutOpen(os) => OutData(os') = After(OutData(os), s))
    BY <1>3, <1>4, <1>5, <1>6, OutOne
<1>8. texts' \in Seq(Notes)
    BY <1>2, <1>3, NotedIs
<1>9. OutOpen(os) => Account(texts', streams', DOMAIN streams', OutData(os'))
    <2> SUFFICES ASSUME OutOpen(os) PROVE Account(texts', streams', DOMAIN streams', OutData(os'))
        OBVIOUS
    <2>1. Account(Noted(fd, "write", text), streams, DOMAIN streams, After(OutData(os), s))
        BY <1>3, AccountNoted DEF s
    <2>2. QED
        BY <1>2, <1>7, <2>1
<1>10. QED
    BY <1>7, <1>8, <1>9 DEF OutInv

\* The part of a text that a failed write leaves to its stream is noted last.
LEMMA NotedRest ==
    ASSUME OutInv, NEW fd, NEW rest \in Seq(Chars), NEW T \in Seq(Notes)
    PROVE  LET noted == Noted(fd, "held", rest)
               note == [kind |-> "held", text |-> rest]
               U == T \o SubSeq(noted, Len(texts) + 1, Len(noted))
           IN  /\ U \in Seq(Notes)
               /\ OutOpen(os) => U = IF fd = 1 /\ rest # <<>> THEN Append(T, note) ELSE T
<1> DEFINE noted == Noted(fd, "held", rest)
           note == [kind |-> "held", text |-> rest]
           l == Len(texts)
           more == SubSeq(noted, l + 1, Len(noted))
<1>1. note \in Notes
    BY DEF Notes
<1>2. texts \in Seq(Notes) /\ l \in Nat
    BY LenProperties DEF OutInv
<1>3. noted = texts \/ noted = Append(texts, note)
    BY DEF Noted
<1>4. OutOpen(os) => noted = IF fd = 1 /\ rest # <<>> THEN Append(texts, note) ELSE texts
    BY NotedIs
<1> HIDE DEF note, noted
<1>5. ASSUME noted = texts PROVE more = <<>>
    BY <1>2, <1>5, SubSeqEmpty
<1>6. ASSUME noted = Append(texts, note) PROVE more = <<note>>
    <2>1. noted \in Seq(Notes) /\ Len(noted) = l + 1 /\ noted[l + 1] = note
        BY <1>1, <1>2, <1>6, AppendProperties
    <2> HIDE DEF l
    <2>2. \A i \in l + 1..l + 1 : noted[i] \in Notes
        BY <1>1, <2>1
    <2>3. more = SubSeq(noted, l + 1, l + 1)
        BY <2>1
    <2> HIDE DEF more
    <2>4. l + 1 \in Int /\ l + 1 <= l + 1 /\ l + 1 - (l + 1) + 1 = 1 /\ l + 1 + 1 - 1 = l + 1
        BY <1>2
    <2>5. more \in Seq(Notes) /\ Len(more) = 1 /\ more[1] = noted[l + 1]
        <3> DEFINE k == l + 1
        <3>1. k \in Int /\ k <= k /\ k - k + 1 = 1 /\ k + 1 - 1 = k /\ more = SubSeq(noted, k, k)
              /\ \A i \in k..k : noted[i] \in Notes
            BY <2>2, <2>3, <2>4
        <3> HIDE DEF k
        <3>2. more \in Seq(Notes) /\ Len(more) = 1 /\ \A i \in 1..1 : more[i] = noted[k + i - 1]
            BY <3>1, SubSeqProperties
        <3>3. more[1] = noted[k]
            BY <3>1, <3>2
        <3>4. QED
            BY <3>2, <3>3 DEF k
    <2>6. <<note>> \in Seq(Notes) /\ Len(<<note>>) = 1 /\ <<note>>[1] = note
        BY <1>1
    <2>7. more[1] = note
        BY <2>1, <2>5
    <2>8. \A i \in 1..Len(more) : more[i] = <<note>>[i]
        <3>1. \A i \in 1..1 : i = 1
            OBVIOUS
        <3>2. QED
            BY <2>5, <2>6, <2>7, <3>1
    <2>9. QED
        BY <2>5, <2>6, <2>8, SeqEqual
<1> HIDE DEF more
<1>7. T \o <<>> = T
    BY ConcatEmptySeq
<1>8. T \o <<note>> = Append(T, note) /\ Append(T, note) \in Seq(Notes)
    BY <1>1, AppendIsConcat, AppendProperties
<1>9. more = <<>> \/ more = <<note>>
    BY <1>3, <1>5, <1>6
<1>10. T \o more \in Seq(Notes)
    BY <1>7, <1>8, <1>9
<1>11. OutOpen(os) => T \o more = IF fd = 1 /\ rest # <<>> THEN Append(T, note) ELSE T
    BY <1>4, <1>5, <1>6, <1>7, <1>8
<1>12. QED
    BY <1>10, <1>11 DEF more, noted, note, l

LEMMA WriteFailsOut == ASSUME SysInv, OutInv, WriteFails PROVE OutInv'
<1> DEFINE fd == SysArg(0)
           text == Readable(SysArg(1), ToSize(SysArg(2)))
           end == BufSize * ((Len(text) - 1) \div BufSize)
           out == SubSeq(text, 1, end)
           rest == SubSeq(text, Len(out) + 1, Len(text))
           s == [fd |-> fd, text |-> out]
           r == [fd |-> fd, text |-> rest]
           T == Noted(fd, "write", out)
<1>1. At({"sys"})
    BY DEF WriteFails, Calls
<1>2. /\ os' = Out(os, fd, out)
      /\ streams' = IF rest = <<>> THEN streams ELSE Append(streams, r)
      /\ texts' = T \o SubSeq(Noted(fd, "held", rest), Len(texts) + 1, Len(Noted(fd, "held", rest)))
    BY DEF WriteFails
<1>3. fd \in Longs /\ streams \in Seq(Held)
    BY <1>1, WriteFacts
<1>4. out \in Seq(Chars) /\ rest \in Seq(Chars)
    BY <1>1, WriteFailsTexts
<1>5. os \in Kernel(DOMAIN os.fds, DOMAIN os.disk) /\ OneOut(os)
    BY DEF SysInv, KernelOK, OutInv
<1> HIDE DEF text, out, rest, fd
<1>6. s.fd = fd /\ s.text = out /\ r \in Held /\ r.fd = fd /\ r.text = rest
    BY <1>3, <1>4 DEF Held
<1> HIDE DEF s, r
<1>7. os' = Out(os, s.fd, s.text)
    BY <1>2, <1>6
<1>8. OneOut(os') /\ (OutOpen(os') <=> OutOpen(os)) /\ (OutOpen(os) => OutData(os') = After(OutData(os), s))
    BY <1>4, <1>5, <1>6, <1>7, OutOne
<1>9. T \in Seq(Notes)
    BY <1>4, NotedIs
<1>10. OutOpen(os) => Account(T, streams, DOMAIN streams, OutData(os'))
    BY <1>4, <1>8, AccountNoted DEF s
<1> HIDE DEF T
<1>11. /\ texts' \in Seq(Notes)
       /\ OutOpen(os) => texts' = IF fd = 1 /\ rest # <<>> THEN Append(T, [kind |-> "held", text |-> rest]) ELSE T
    BY <1>2, <1>4, <1>9, NotedRest
<1>12. ASSUME OutOpen(os) PROVE Account(texts', streams', DOMAIN streams', OutData(os'))
    <2> DEFINE data == OutData(os')
    <2>1. Account(T, streams, DOMAIN streams, data)
        BY <1>10, <1>12
    <2> HIDE DEF data
    <2>2. CASE rest = <<>>
        <3>1. texts' = T /\ streams' = streams
            BY <1>2, <1>11, <1>12, <2>2
        <3>2. QED
            BY <2>1, <3>1 DEF data
    <2>3. CASE rest # <<>>
        <3> DEFINE R == Append(streams, r)
                   U == IF r.fd = 1 /\ r.text # <<>> THEN Append(T, [kind |-> "held", text |-> r.text]) ELSE T
        <3>1. Account(U, R, DOMAIN R, data)
            BY <1>3, <1>6, <1>9, <2>1, AccountLeave
        <3>2. texts' = U /\ streams' = R
            BY <1>2, <1>6, <1>11, <1>12, <2>3
        <3> HIDE DEF U, R
        <3>3. QED
            BY <3>1, <3>2 DEF data
    <2>4. QED
        BY <2>2, <2>3
<1>13. QED
    BY <1>8, <1>11, <1>12 DEF OutInv

LEMMA WriteNullOut == ASSUME SysInv, OutInv, WriteNull PROVE OutInv'
<1>1. texts' = texts
    BY DEF WriteNull
<1>2. CASE UNCHANGED <<os, streams>>
    BY <1>1, <1>2, OutMoved DEF OutInv
<1>3. CASE ~UNCHANGED <<os, streams>>
    <2>1. PICK order \in Bijection(DOMAIN streams, DOMAIN streams) :
                os' = FlushedAll(order) /\ streams' = <<>>
        BY <1>3 DEF WriteNull
    <2>2. /\ OneOut(os')
          /\ OutOpen(os') <=> OutOpen(os)
          /\ OutOpen(os) => Account(texts, <<>>, DOMAIN <<>>, OutData(os'))
        BY <2>1, FlushedAllOut
    <2>3. texts' \in Seq(Notes)
        BY <1>1 DEF OutInv
    <2>4. QED
        BY <1>1, <2>1, <2>2, <2>3 DEF OutInv
<1>4. QED
    BY <1>2, <1>3

LEMMA OpenOut == ASSUME SysInv, OutInv, Open PROVE OutInv'
<1> DEFINE first == Abs(SysArg(0))
           o == Options(ToSize(SysArg(1)))
           name == Name(first)
           exists == name \in DOMAIN os.disk
           fd == Least(0..MaxFds \ DOMAIN os.fds)
           Fds == [f \in DOMAIN os.fds \cup {fd} |->
                        IF f = fd THEN Descriptor(name, o.reads, o.writes, o.append) ELSE os.fds[f]]
           Files2(usable) == [f \in DOMAIN os.disk \cup {name} |->
                        IF f # name THEN os.disk[f]
                        ELSE [data |-> IF exists /\ ~o.truncates THEN os.disk[name].data ELSE <<>>,
                              usable |-> usable]]
<1>1. At({"sys"})
    BY DEF Open, Calls
<1>2. CASE UNCHANGED io
    BY <1>2, OutStays
<1>3. CASE ~UNCHANGED io
    <2>1. /\ NameErr(first) = "ok" /\ fd # MaxFds
          /\ UNCHANGED <<streams, texts>>
          /\ \E usable \in IF exists THEN {TRUE} ELSE BOOLEAN :
                os' = [fds |-> Fds, disk |-> Files2(usable)]
        BY <1>3 DEF Open
    <2>2. PICK usable \in BOOLEAN : os' = [fds |-> Fds, disk |-> Files2(usable)]
        BY <2>1
    <2>3. \A e : name # Std(e)
        BY <1>1, <2>1, NameFacts
    <2> HIDE DEF name, first, exists
    <2>4. fd \notin DOMAIN os.fds
        <3> DEFINE T == 0..MaxFds \ DOMAIN os.fds
        <3>1. MaxFds \in T /\ T \subseteq Nat
            BY SystemAssumption DEF SysInv, KernelOK
        <3> HIDE DEF T
        <3>2. Least(T) \in T
            BY <3>1, LeastType
        <3>3. QED
            BY <3>2 DEF T
    <2> HIDE DEF fd
    <2>5. /\ DOMAIN Fds = DOMAIN os.fds \cup {fd}
          /\ Fds[fd].file = name
          /\ \A e \in DOMAIN os.fds : Fds[e] = os.fds[e]
        BY <2>4 DEF Descriptor
    <2>6. Std(1) \in DOMAIN os.disk => Files2(usable)[Std(1)] = os.disk[Std(1)]
        BY <2>3
    <2> HIDE DEF Fds, Files2
    <2>7. os'.fds = Fds /\ (Std(1) \in DOMAIN os.disk => OutData(os') = OutData(os))
        BY <2>2, <2>6 DEF OutData
    <2>8. \A e \in DOMAIN os.fds : os.fds[e].file \in DOMAIN os.disk
        BY DEF SysInv, KernelOK, Kernel, Descs
    <2>9. \A e \in DOMAIN Fds : Fds[e].file = Std(1) => e \in DOMAIN os.fds /\ Std(1) \in DOMAIN os.disk
        BY <2>3, <2>5, <2>8
    <2>10. OneOut(os')
        BY <2>5, <2>7, <2>9 DEF OutInv, OneOut
    <2>11. OutOpen(os') => OutOpen(os) /\ OutData(os') = OutData(os)
        BY <2>5, <2>7, <2>9 DEF OutOpen
    <2>12. QED
        BY <2>1, <2>10, <2>11, OutMoved
<1>4. QED
    BY <1>2, <1>3

LEMMA CloseOut == ASSUME SysInv, OutInv, Close PROVE OutInv'
<1> DEFINE fd == SysArg(0)
           Fds == [f \in DOMAIN os.fds \ {fd} |-> os.fds[f]]
           D == DOMAIN os.fds
           F == DOMAIN os.disk
<1>1. CASE UNCHANGED io
    BY <1>1, OutStays
<1>2. CASE ~UNCHANGED io
    <2>1. os' = [os EXCEPT !.fds = Fds] /\ UNCHANGED <<streams, texts>>
        BY <1>2 DEF Close
    <2>2. os \in [fds : [D -> Descs(F)], disk : [F -> Files]]
        BY DEF SysInv, KernelOK, Kernel
    <2>3. DOMAIN Fds = D \ {fd} /\ \A e \in DOMAIN Fds : Fds[e] = os.fds[e]
        OBVIOUS
    <2> HIDE DEF Fds, D, F
    <2>4. os'.fds = Fds /\ os'.disk = os.disk
        BY <2>1, <2>2
    <2>5. OneOut(os')
        BY <2>3, <2>4 DEF OutInv, OneOut, OutData, D
    <2>6. OutOpen(os') => OutOpen(os) /\ OutData(os') = OutData(os)
        BY <2>3, <2>4 DEF OutOpen, OutData, D
    <2>7. QED
        BY <2>1, <2>5, <2>6, OutMoved
<1>3. QED
    BY <1>1, <1>2

LEMMA PrintNumOut == ASSUME SysInv, OutInv, PrintNum PROVE OutInv'
<1> DEFINE fd == GetValue(Entered, Arg(1))
           v == GetValue(Entered, Arg(2))
           n == Long(fd.val)
           text == Printed(v.val)
           s == [fd |-> n, text |-> text]
<1>1. At({"print_num"})
    BY DEF PrintNum
<1>2. fd \in [err : Errs, val : Value] /\ v \in [err : Errs, val : Value]
    <2>1. 1 \in DOMAIN Signature(Line.op) /\ 2 \in DOMAIN Signature(Line.op)
        BY <1>1, SysFacts
    <2>2. QED
        BY <1>1, <2>1, SysFacts
<1>3. CASE UNCHANGED io
    BY <1>3, OutStays
<1>4. CASE ~UNCHANGED io
    <2>1. /\ os' = os
          /\ streams' = Append(streams, s)
          /\ texts' = Noted(n, "held", text)
        BY <1>4 DEF PrintNum
    <2> HIDE DEF fd, v
    <2>2. n \in Longs /\ text \in Seq(Chars)
        BY <1>2, LongType, PrintedType
    <2> HIDE DEF n, text
    <2>3. s \in Held /\ s.fd = n /\ s.text = text
        BY <2>2 DEF Held
    <2> HIDE DEF s
    <2>4. texts' \in Seq(Notes)
        BY <2>1, <2>2, NotedIs
    <2>5. ASSUME OutOpen(os) PROVE Account(texts', streams', DOMAIN streams', OutData(os))
        <3> DEFINE data == OutData(os)
                   R == Append(streams, s)
                   U == IF s.fd = 1 /\ s.text # <<>> THEN Append(texts, [kind |-> "held", text |-> s.text]) ELSE texts
        <3>1. Account(texts, streams, DOMAIN streams, data) /\ texts \in Seq(Notes) /\ streams \in Seq(Held)
            BY <2>5 DEF OutInv, SysInv, KernelOK
        <3> HIDE DEF data
        <3>2. Account(U, R, DOMAIN R, data)
            BY <2>3, <3>1, AccountLeave
        <3>3. texts' = U
            BY <2>1, <2>2, <2>3, <2>5, NotedIs
        <3> HIDE DEF U, R
        <3>4. QED
            BY <2>1, <3>2, <3>3 DEF data, R
    <2>6. QED
        BY <2>1, <2>4, <2>5 DEF OutInv
<1>5. QED
    BY <1>3, <1>4

\* The streams without the one that was flushed.
LEMMA FlushedIs ==
    ASSUME streams \in Seq(Held), NEW i \in DOMAIN streams
    PROVE  LET m == Len(streams) - 1
           IN  /\ DOMAIN Flushed(i) = 1..m
               /\ \A j \in 1..m : Flushed(i)[j] = streams[IF j < i THEN j ELSE j + 1]
<1> DEFINE l == Len(streams)
           a == SubSeq(streams, 1, i - 1)
           b == SubSeq(streams, i + 1, l)
<1>1. l \in Nat /\ i \in 1..l /\ \A j \in 1..l : streams[j] \in Held
    BY LenProperties, ElementOfSeq
<1> HIDE DEF l
<1>2. a \in Seq(Held) /\ Len(a) = i - 1 /\ \A j \in 1..i - 1 : a[j] = streams[j]
    <2>1. 1 \in Int /\ i - 1 \in Int /\ \A j \in 1..i - 1 : streams[j] \in Held
        BY <1>1
    <2>2. /\ a \in Seq(Held)
          /\ Len(a) = IF 1 <= i - 1 THEN i - 1 - 1 + 1 ELSE 0
          /\ \A j \in 1..i - 1 - 1 + 1 : a[j] = streams[1 + j - 1]
        BY <2>1, SubSeqProperties
    <2> HIDE DEF a
    <2>3. \A j \in 1..i - 1 : j \in 1..i - 1 - 1 + 1 /\ 1 + j - 1 = j
        BY <1>1
    <2>4. QED
        BY <1>1, <2>2, <2>3
<1>3. b \in Seq(Held) /\ Len(b) = l - i /\ \A j \in 1..l - i : b[j] = streams[i + j]
    <2>1. i + 1 \in Int /\ l \in Int /\ \A j \in i + 1..l : streams[j] \in Held
        BY <1>1
    <2>2. /\ b \in Seq(Held)
          /\ Len(b) = IF i + 1 <= l THEN l - (i + 1) + 1 ELSE 0
          /\ \A j \in 1..l - (i + 1) + 1 : b[j] = streams[i + 1 + j - 1]
        BY <2>1, SubSeqProperties
    <2> HIDE DEF b
    <2>3. \A j \in 1..l - i : j \in 1..l - (i + 1) + 1 /\ i + 1 + j - 1 = i + j
        BY <1>1
    <2>4. QED
        BY <1>1, <2>2, <2>3
<1>4. Flushed(i) = a \o b
    BY DEF Flushed, l
<1> HIDE DEF a, b
<1>5. /\ a \o b \in Seq(Held) /\ Len(a \o b) = i - 1 + (l - i)
      /\ \A j \in 1..i - 1 + (l - i) : (a \o b)[j] = IF j <= i - 1 THEN a[j] ELSE b[j - (i - 1)]
    <2>1. /\ a \o b \in Seq(Held) /\ Len(a \o b) = Len(a) + Len(b)
          /\ \A j \in 1..Len(a) + Len(b) : (a \o b)[j] = IF j <= Len(a) THEN a[j] ELSE b[j - Len(a)]
        BY <1>2, <1>3, ConcatProperties
    <2>2. Len(a) = i - 1 /\ Len(b) = l - i
        BY <1>2, <1>3
    <2>3. QED
        BY <2>1, <2>2
<1>6. i - 1 + (l - i) = l - 1 /\ l - 1 \in Nat
    BY <1>1
<1>7. DOMAIN (a \o b) = 1..l - 1
    BY <1>5, <1>6, LenProperties
<1>8. ASSUME NEW j \in 1..l - 1
      PROVE  (a \o b)[j] = streams[IF j < i THEN j ELSE j + 1]
    <2>1. (a \o b)[j] = IF j <= i - 1 THEN a[j] ELSE b[j - (i - 1)]
        BY <1>5, <1>6
    <2>2. CASE j < i
        <3>1. j \in 1..i - 1 /\ j <= i - 1
            BY <1>1, <2>2
        <3>2. QED
            BY <1>2, <2>1, <2>2, <3>1
    <2>3. CASE ~(j < i)
        <3>1. j - (i - 1) \in 1..l - i /\ ~(j <= i - 1) /\ i + (j - (i - 1)) = j + 1
            BY <1>1, <2>3
        <3>2. b[j - (i - 1)] = streams[j + 1]
            BY <1>3, <3>1
        <3>3. QED
            BY <2>1, <2>3, <3>1, <3>2
    <2>4. QED
        BY <2>2, <2>3
<1>9. QED
    BY <1>4, <1>7, <1>8 DEF l

LEMMA AtExitOut == ASSUME SysInv, OutInv, AtExit PROVE OutInv'
<1>1. PICK i \in DOMAIN streams :
            os' = Out(os, streams[i].fd, streams[i].text) /\ streams' = Flushed(i)
    BY DEF AtExit
<1> DEFINE s == streams[i]
           K == DOMAIN streams \ {i}
           m == Len(streams) - 1
           g == [j \in 1..m |-> IF j < i THEN j ELSE j + 1]
<1>2. texts' = texts /\ texts \in Seq(Notes)
    BY DEF AtExit, OutInv
<1>3. streams \in Seq(Held) /\ os \in Kernel(DOMAIN os.fds, DOMAIN os.disk) /\ OneOut(os)
    BY DEF SysInv, KernelOK, OutInv
<1>4. DOMAIN streams = 1..m + 1 /\ m \in Nat /\ i \in 1..m + 1
    <2>1. Len(streams) \in Nat /\ DOMAIN streams = 1..Len(streams)
        BY <1>3, LenProperties
    <2>2. i \in 1..Len(streams) /\ Len(streams) - 1 + 1 = Len(streams)
        BY <2>1
    <2>3. QED
        BY <2>1, <2>2
<1>5. s.text \in Seq(Chars)
    <2>1. streams[i] \in Held
        BY <1>3, LenProperties, ElementOfSeq
    <2>2. QED
        BY <2>1 DEF Held
<1>6. DOMAIN streams' = 1..m /\ \A j \in 1..m : streams'[j] = streams[g[j]]
    BY <1>1, <1>3, FlushedIs
<1> HIDE DEF m
<1>7. OneOut(os') /\ (OutOpen(os') <=> OutOpen(os)) /\ (OutOpen(os) => OutData(os') = After(OutData(os), s))
    BY <1>1, <1>3, <1>5, OutOne
<1>8. ASSUME OutOpen(os) PROVE Account(texts', streams', DOMAIN streams', OutData(os'))
    <2> DEFINE data == OutData(os)
               after == After(data, s)
    <2>1. Account(texts, streams, DOMAIN streams, data)
        BY <1>8 DEF OutInv
    <2> HIDE DEF data
    <2>2. Account(texts, streams, K, after)
        BY <1>2, <2>1, AccountFlush
    <2>3. g \in [1..m -> K]
        <3>1. \A j \in 1..m : (IF j < i THEN j ELSE j + 1) \in 1..m + 1 /\ (IF j < i THEN j ELSE j + 1) # i
            BY <1>4
        <3>2. QED
            BY <1>4, <3>1
    <2>4. \A j, k \in 1..m : j # k => g[j] # g[k]
        <3>1. \A j, k \in 1..m : j # k => (IF j < i THEN j ELSE j + 1) # (IF k < i THEN k ELSE k + 1)
            BY <1>4
        <3>2. QED
            BY <3>1
    <2>5. \A k \in K : \E j \in 1..m : g[j] = k
        <3> SUFFICES ASSUME NEW k \in K PROVE \E j \in 1..m : g[j] = k
            OBVIOUS
        <3>1. k \in 1..m + 1 /\ k # i
            BY <1>4
        <3>2. CASE k < i
            <4>1. k \in 1..m
                BY <1>4, <3>1, <3>2
            <4>2. QED
                BY <3>2, <4>1
        <3>3. CASE ~(k < i)
            <4>1. k - 1 \in 1..m /\ ~(k - 1 < i) /\ k - 1 + 1 = k
                BY <1>4, <3>1, <3>3
            <4>2. QED
                BY <4>1
        <3>4. QED
            BY <3>2, <3>3
    <2> HIDE DEF g, K, after
    <2>6. \A k \in Live(streams, K) : \E j \in 1..m : g[j] = k
        BY <2>5 DEF Live
    <2> DEFINE R == streams'
               J == 1..m
    <2>7. /\ g \in [J -> K]
          /\ \A k \in Live(streams, K) : \E j \in J : g[j] = k
          /\ \A i1, i2 \in J : i1 # i2 => g[i1] # g[i2]
          /\ \A j \in J : R[j] = streams[g[j]]
          /\ J = DOMAIN R
        BY <1>6, <2>3, <2>4, <2>6
    <2> HIDE DEF R, J
    <2>8. Account(texts, R, J, after)
        BY <2>2, <2>7, AccountRenumber
    <2>9. QED
        BY <1>2, <1>7, <1>8, <2>7, <2>8 DEF R, after, data
<1>9. QED
    BY <1>2, <1>7, <1>8 DEF OutInv

LEMMA OutInit == ASSUME SysInit PROVE OutInv
<1>1. texts = <<>> /\ streams = <<>> /\ DOMAIN os.fds = 0..2 /\ DOMAIN <<>> = {}
    BY DEF SysInit
<1>2. \A fd \in 0..2 : os.fds[fd] = Descriptor(Std(fd), fd = 0, fd # 0, FALSE)
    BY DEF SysInit
<1>3. Std(1) \notin DOMAIN Disk /\ Std(1) # Std(0)
    BY SystemAssumption DEF Std
<1>4. OutData(os) = <<>>
    <2> DEFINE F == DOMAIN Disk \cup {Std(fd) : fd \in 0..2}
    <2>1. Std(1) \in F
        OBVIOUS
    <2> HIDE DEF F
    <2>2. os.disk = [f \in F |->
                        [data |-> IF f = Std(0) THEN Stdin ELSE IF f \in DOMAIN Disk THEN Disk[f] ELSE <<>>,
                         usable |-> TRUE]]
        BY DEF SysInit, F
    <2>3. QED
        BY <1>3, <2>1, <2>2 DEF OutData
<1>5. OneOut(os)
    <2>1. \A fd \in 0..2 : Std(fd) = Std(1) => fd = 1
        BY DEF Std
    <2>2. \A fd \in 0..2 : os.fds[fd].file = Std(fd)
        BY <1>2 DEF Descriptor
    <2>3. Len(OutData(os)) = 0
        BY <1>4
    <2>4. \A fd \in 0..2 : /\ os.fds[fd].writes = (fd # 0)
                           /\ os.fds[fd].reads = (fd = 0)
                           /\ os.fds[fd].append = FALSE
                           /\ os.fds[fd].pos = 0
        BY <1>2 DEF Descriptor
    <2>5. os.fds[1].writes /\ ~os.fds[1].reads /\ ~os.fds[1].append /\ os.fds[1].pos = 0
        <3>1. 1 \in 0..2 /\ 1 # 0
            OBVIOUS
        <3>2. os.fds[1].writes = (1 # 0) /\ os.fds[1].reads = (1 = 0)
            BY <2>4, <3>1
        <3>3. os.fds[1].append = FALSE /\ os.fds[1].pos = 0
            BY <2>4, <3>1
        <3>4. QED
            BY <3>1, <3>2, <3>3
    <2>6. QED
        BY <1>1, <2>1, <2>2, <2>3, <2>5 DEF OneOut
<1>6. Account(texts, streams, DOMAIN streams, OutData(os))
    <2> DEFINE held == [k \in {} |-> 0]
    <2>1. held \in [{} -> {}] /\ Live(streams, {}) = {}
        BY DEF Live
    <2> HIDE DEF held
    <2>2. Matches(texts, {}, streams, {}, held)
        BY <2>1 DEF Matches
    <2>3. QED
        BY <1>1, <1>4, <2>2, NothingGiven DEF Account
<1>7. QED
    BY <1>1, <1>5, <1>6 DEF OutInv

LEMMA OutNext == ASSUME SysInv, OutInv, [SysNext]_allvars PROVE OutInv'
<1>1. CASE Next /\ UNCHANGED io
    BY <1>1, OutStays
<1>2. CASE NoCall \/ Exit
    BY <1>2, OutStays DEF NoCall, Exit
<1>3. CASE Read \/ Open \/ Close
    BY <1>3, ReadOut, OpenOut, CloseOut
<1>4. CASE Write \/ WriteFails \/ WriteNull
    BY <1>4, WriteOut, WriteFailsOut, WriteNullOut
<1>5. CASE PrintNum \/ AtExit
    BY <1>5, PrintNumOut, AtExitOut
<1>6. CASE UNCHANGED allvars
    BY <1>6, OutStays DEF allvars
<1>7. QED
    BY <1>1, <1>2, <1>3, <1>4, <1>5, <1>6 DEF SysNext

LEMMA OutInvComplete == ASSUME OutInv PROVE OutputComplete
<1> SUFFICES ASSUME streams = <<>>, OutOpen(os)
             PROVE  \E order \in SetToSeqs(DOMAIN texts) :
                        /\ \A i, j \in DOMAIN order :
                            i < j /\ order[j] < order[i] => texts[order[j]].kind = "held"
                        /\ OutData(os) = FlattenSeq([i \in DOMAIN order |-> texts[order[i]].text])
    BY DEF OutputComplete, OutOpen, OutData
<1>1. texts \in Seq(Notes) /\ Account(texts, <<>>, DOMAIN <<>>, OutData(os))
    BY DEF OutInv
<1>2. PICK P : Ledger(texts, P, OutData(os)) /\ \E held : Matches(texts, P, <<>>, DOMAIN <<>>, held)
    BY <1>1 DEF Account
<1>3. P = {}
    <2>1. PICK held : Matches(texts, P, <<>>, DOMAIN <<>>, held)
        BY <1>2
    <2>2. Live(<<>>, DOMAIN <<>>) = {}
        BY DEF Live
    <2>3. QED
        BY <2>1, <2>2 DEF Matches
<1>4. Ledger(texts, {}, OutData(os))
    BY <1>2, <1>3
<1>5. QED
    BY <1>1, <1>4, LedgerComplete

LEMMA OutInvariant == SysSpec => []OutInv
<1>1. SysInit => OutInv
    BY OutInit
<1>2. SysInv /\ OutInv /\ [SysNext]_allvars => OutInv'
    BY OutNext
<1>3. QED
    BY <1>1, <1>2, SysInvariant, PTL DEF SysSpec

\* Type correctness of the file layer: over any calls, and in the step that
\* stops the run as well, memory stays one block of typed cells wherever read
\* fills it; every descriptor of sys.c stands for a file at a position, and
\* numbers stay inside both tables; whatever cells write and print_num are
\* given, files, streams and the notes of both are characters; and what was
\* heard of standard input are positions.
THEOREM SysTypeCorrect == SysSpec => []SysTypeOK
<1>1. SysInv /\ MemoryOK /\ OutInv => SysTypeOK
    BY SysTyped DEF OutInv
<1>2. QED
    BY <1>1, SysInvariant, MemoryInvariant, OutInvariant, PTL

\* Whatever the calls, their failures, the buffers and the order in which
\* streams are flushed: once the program is over and as long as descriptor 1
\* is open, standard output has every text that was given to it, once, and
\* only a text that a stream held can come after one that was given later.
THEOREM OutputIsComplete == SysSpec => []OutputComplete
<1>1. OutInv => OutputComplete
    BY OutInvComplete
<1>2. QED
    BY <1>1, OutInvariant, PTL
=============================================================================
