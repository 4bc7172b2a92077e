---------------------------- MODULE LexerProofs ----------------------------
(***************************************************************************)
(* Theorems about the lexer, for lines of any length over any characters.  *)
(*                                                                         *)
(* The scanner of eat_token reads forward and remembers little; the        *)
(* properties look back at the whole line.  The invariant says that the    *)
(* two agree: the scanner is in a literal where the line is, an escape is  *)
(* on after an odd run of backslashes, no comment has begun unless the     *)
(* scanner has ended, and the tokens and the text that it holds are those  *)
(* of the fields that the line has so far.                                 *)
(***************************************************************************)
EXTENDS Lexer, InductionProofs, SequenceTheorems, FiniteSetTheorems

(***************************************************************************)
(* What the scanner holds.                                                 *)
(***************************************************************************)
States == {"WAITING", "SYMBOL", "STRLTL", "ENDED"}
TokErrs == {"ParseNumError", "ParseIdxError", "UnterminatedIdx", "EmptyIdx", "MissingVarName"}
FeedErrs == {"WrongTokTypeForOp", "EmptyToken", "UnexpectedDelim", "NonDelimAfterSymEnd",
             "DoubleQuoteInMiddle", "UnknownEscapeSequence"}
LexErrs == {"ok"} \cup TokErrs \cup FeedErrs

\* Characters by name: the provers do not see into a definition they are not
\* told to expand, and some take these for what they are not.
DoubleQuote == "\""
Hash == "#"
Delims == {":", ","}

LEMMA Different == DoubleQuote # "\\" /\ Hash # DoubleQuote /\ Hash # "\\" /\
                   (Delims \cup Blanks) \cap {DoubleQuote, "\\", Hash, "n", "t"} = {} /\
                   Delims \cap Blanks = {} /\ Hash \notin {"n", "t"}
BY DEF DoubleQuote, Hash, Delims, Blanks

\* The characters of a token: those of the line and those of its escapes.
TokChars == Chars \cup {"\n", "\t", DoubleQuote, "\\"}
Quote == <<DoubleQuote>>
Nonsense == [t |-> "Ltl", text |-> Wild]

\* The tokens a text can be, but that of a single quote.
Toks == {TokFromStr(s).tok : s \in Seq(TokChars) \ {Quote}}

Scanner == [state : States, escaped : BOOLEAN, current : Seq(TokChars), toks : Seq(Toks),
            ended : BOOLEAN, err : LexErrs]

\* What holds of a token that is being read.
CurrentOK(l) ==
    /\ l.state = "WAITING" => \A i \in 1..Len(l.current) : l.current[i] = "\\"
    /\ l.state # "WAITING" => Len(l.current) > 0
    /\ l.state # "STRLTL" => l.current # Quote

ScannerOK(l) ==
    /\ l \in Scanner
    /\ l.escaped /\ l.err = "ok" => l.state = "STRLTL"
    /\ l.ended => l.state # "STRLTL"
    /\ CurrentOK(l)
    /\ l.toks # <<>> => l.toks[1].t = "Sym"

(***************************************************************************)
(* Looking back at a line: Backslashes and Inside, of any text.            *)
(***************************************************************************)
IsRun(s, i, n) ==
    /\ \A j \in i - n..i - 1 : s[j] = "\\"
    /\ n = i - 1 \/ s[i - n - 1] # "\\"
Run(s, i) == CHOOSE n \in 0..i - 1 : IsRun(s, i, n)

Toggled(s, i, b) == IF s[i] # DoubleQuote THEN b ELSE ~b \/ Run(s, i) % 2 = 1
Within(s) ==
    LET in[i \in 0..Len(s)] == IF i = 0 THEN FALSE ELSE Toggled(s, i, in[i - 1])
    IN  in

LEMMA LookBack ==
    /\ \A i : Backslashes(i) = Run(line, i)
    /\ Inside = Within(line)
BY DEF Backslashes, Run, IsRun, Inside, Within, Toggled, DoubleQuote

\* There is one such number.
LEMMA RunIs ==
    ASSUME NEW s, NEW i \in Nat, NEW n \in 0..i - 1, IsRun(s, i, n)
    PROVE  Run(s, i) = n
<1> DEFINE m == Run(s, i)
<1>1. m \in 0..i - 1 /\ IsRun(s, i, m)
    BY DEF Run
<1> HIDE DEF m
<1>2. CASE n < m
    <2>1. i - n - 1 \in i - m..i - 1 /\ n # i - 1
        BY <1>1, <1>2
    <2>2. QED
        BY <1>1, <2>1 DEF IsRun
<1>3. CASE m < n
    <2>1. i - m - 1 \in i - n..i - 1 /\ m # i - 1
        BY <1>1, <1>3
    <2>2. QED
        BY <1>1, <2>1 DEF IsRun
<1>4. QED
    BY <1>1, <1>2, <1>3 DEF m

LEMMA RunExists ==
    ASSUME NEW s, NEW i \in Nat \ {0}
    PROVE  Run(s, i) \in 0..i - 1 /\ IsRun(s, i, Run(s, i))
<1> DEFINE T == {n \in 0..i - 1 : n = i - 1 \/ s[i - n - 1] # "\\"}
<1>1. T \subseteq Nat /\ i - 1 \in T
    OBVIOUS
<1> HIDE DEF T
<1>2. PICK n \in T : \A m \in T : n <= m
    BY <1>1, LeastNat
<1>3. n \in 0..i - 1 /\ (n = i - 1 \/ s[i - n - 1] # "\\")
    BY <1>2 DEF T
<1>4. ASSUME NEW j \in i - n..i - 1 PROVE s[j] = "\\"
    <2>1. i - 1 - j \in 0..i - 1 /\ i - 1 - j < n /\ i - (i - 1 - j) - 1 = j
        BY <1>3
    <2>2. i - 1 - j \notin T
        BY <1>2, <1>3, <2>1
    <2>3. QED
        BY <2>1, <2>2 DEF T
<1>5. IsRun(s, i, n)
    BY <1>3, <1>4 DEF IsRun
<1>6. QED
    BY <1>3, <1>5, RunIs

\* One character more.
LEMMA RunStep ==
    ASSUME NEW s \in Seq(Chars), NEW c \in Chars
    PROVE  /\ \A i \in 1..Len(s) + 1 : Run(Append(s, c), i) = Run(s, i)
           /\ c # "\\" => Run(Append(s, c), Len(s) + 2) = 0
           /\ c = "\\" => Run(Append(s, c), Len(s) + 2) = Run(s, Len(s) + 1) + 1
<1> DEFINE t == Append(s, c)
           n == Len(s)
<1>1. n \in Nat /\ Len(t) = n + 1 /\ t[n + 1] = c /\ \A j \in 1..n : t[j] = s[j]
    BY AppendProperties, LenProperties
<1> HIDE DEF t, n
<1>2. ASSUME NEW i \in 1..n + 1 PROVE Run(t, i) = Run(s, i)
    <2> DEFINE m == Run(s, i)
    <2>1. i \in Nat \ {0}
        BY <1>1
    <2>2. m \in 0..i - 1 /\ IsRun(s, i, m)
        BY <2>1, RunExists
    <2> HIDE DEF m
    <2>3. \A j \in i - m..i - 1 : j \in 1..n
        BY <1>1, <2>1, <2>2
    <2>4. m # i - 1 => i - m - 1 \in 1..n
        BY <1>1, <2>1, <2>2
    <2>5. IsRun(t, i, m)
        BY <1>1, <2>2, <2>3, <2>4 DEF IsRun
    <2>6. QED
        BY <2>1, <2>2, <2>5, RunIs DEF m
<1> DEFINE q == n + 1
           p == n + 2
<1>3. /\ q \in Nat \ {0} /\ p \in Nat \ {0} /\ q \in 1..n + 1
      /\ p - 1 = q /\ p - 0 - 1 = q /\ \A m \in Int : p - (m + 1) = q - m
    BY <1>1
<1>4. t[q] = c
    BY <1>1
<1>5. \A j \in Int : 1 <= j /\ j < q => t[j] = s[j]
    BY <1>1
<1> HIDE DEF q, p
<1>6. ASSUME c # "\\" PROVE Run(t, p) = 0
    <2>1. 0 \in 0..p - 1 /\ \A j \in p - 0..p - 1 : FALSE
        BY <1>3
    <2>2. IsRun(t, p, 0)
        BY <1>3, <1>4, <1>6, <2>1 DEF IsRun
    <2>3. QED
        BY <1>3, <2>1, <2>2, RunIs
<1>7. ASSUME c = "\\" PROVE Run(t, p) = Run(s, q) + 1
    <2> DEFINE m == Run(s, q)
               k == m + 1
    <2>1. m \in 0..q - 1 /\ IsRun(s, q, m)
        BY <1>3, RunExists
    <2> HIDE DEF m
    <2>2. m \in Nat /\ m <= q - 1 /\ k \in 0..p - 1 /\ p - k = q - m
        BY <1>3, <2>1
    <2>3. ASSUME NEW j \in q - m..q PROVE t[j] = "\\"
        <3>1. CASE j = q
            BY <1>4, <1>7, <3>1
        <3>2. CASE j # q
            <4>1. j \in q - m..q - 1 /\ j \in Int /\ 1 <= j /\ j < q
                BY <1>3, <2>2, <3>2
            <4>2. QED
                BY <1>5, <2>1, <4>1 DEF IsRun
        <3>3. QED
            BY <3>1, <3>2
    <2>4. m = q - 1 \/ t[q - m - 1] # "\\"
        <3>1. CASE m # q - 1
            <4>1. q - m - 1 \in Int /\ 1 <= q - m - 1 /\ q - m - 1 < q
                BY <1>3, <2>2, <3>1
            <4>2. s[q - m - 1] # "\\"
                BY <2>1, <3>1 DEF IsRun
            <4>3. QED
                BY <1>5, <4>1, <4>2
        <3>2. QED
            BY <3>1
    <2>5. m = q - 1 => k = p - 1
        BY <1>3, <2>2
    <2> HIDE DEF k
    <2>6. IsRun(t, p, k)
        BY <1>3, <2>2, <2>3, <2>4, <2>5 DEF IsRun
    <2>7. Run(t, p) = k
        BY <1>3, <2>2, <2>6, RunIs
    <2>8. QED
        BY <2>7 DEF k, m
<1>8. QED
    BY <1>2, <1>6, <1>7 DEF t, n, q, p

LEMMA WithinIs ==
    ASSUME NEW s \in Seq(Chars)
    PROVE  /\ Within(s) \in [0..Len(s) -> BOOLEAN]
           /\ Within(s)[0] = FALSE
           /\ \A i \in 1..Len(s) : Within(s)[i] = Toggled(s, i, Within(s)[i - 1])
<1> DEFINE n == Len(s)
           Is(f) == f = [i \in 0..n |-> IF i = 0 THEN FALSE ELSE Toggled(s, i, f[i - 1])]
           F == [x \in (1..n) \X BOOLEAN |-> Toggled(s, x[1], x[2])]
           in == CHOOSE f : Is(f)
<1>1. n \in Nat
    BY LenProperties
<1>2. Within(s) = in
    BY DEF Within
<1> HIDE DEF n
<1>3. \A i, b : b \in BOOLEAN => Toggled(s, i, b) \in BOOLEAN
    BY DEF Toggled
<1>4. F \in [(1..n) \X BOOLEAN -> BOOLEAN]
    BY <1>3
<1>5. PICK f : Iterates(f, n, BOOLEAN, FALSE, F)
    <2> HIDE DEF F
    <2>1. QED
        BY <1>1, <1>4, Iteration
<1>6. f \in [0..n -> BOOLEAN] /\ f[0] = FALSE
    BY <1>5 DEF Iterates
<1>7. ASSUME NEW i \in 1..n PROVE f[i] = Toggled(s, i, f[i - 1])
    <2>1. f[i - 1] \in BOOLEAN
        BY <1>1, <1>6
    <2>2. <<i, f[i - 1]>> \in (1..n) \X BOOLEAN
        BY <2>1
    <2>3. F[<<i, f[i - 1]>>] = Toggled(s, i, f[i - 1])
        BY <2>2
    <2> HIDE DEF F
    <2>4. QED
        BY <1>5, <2>3 DEF Iterates
<1>8. Is(f)
    <2> DEFINE g == [i \in 0..n |-> IF i = 0 THEN FALSE ELSE Toggled(s, i, f[i - 1])]
    <2>1. ASSUME NEW i \in 0..n PROVE f[i] = g[i]
        <3>1. CASE i = 0
            BY <1>6, <3>1, Zenon
        <3>2. CASE i # 0
            <4>1. i \in 1..n
                BY <1>1, <3>2
            <4>2. QED
                BY <1>7, <3>2, <4>1, Zenon
        <3>3. QED
            BY <3>1, <3>2
    <2>2. f = [i \in 0..n |-> f[i]]
        BY <1>6
    <2>3. g = [i \in 0..n |-> g[i]]
        OBVIOUS
    <2> HIDE DEF g
    <2>4. f = g
        BY <2>1, <2>2, <2>3, Zenon
    <2>5. QED
        BY <2>4 DEF g
<1>9. Is(in)
    <2> HIDE DEF Is
    <2>1. QED
        BY <1>8
<1> HIDE DEF in
<1>10. in[0] = FALSE /\ \A i \in 1..n : in[i] = Toggled(s, i, in[i - 1])
    <2>1. 0 \in 0..n /\ \A i \in 1..n : i \in 0..n /\ i # 0
        BY <1>1
    <2>2. QED
        BY <1>9, <2>1
<1>11. \A i \in 0..n : in[i] \in BOOLEAN
    <2> DEFINE T == {i \in 0..n : in[i] \in BOOLEAN}
    <2>1. 0 \in T
        <3>1. 0 \in 0..n
            BY <1>1
        <3>2. in[0] \in BOOLEAN
            BY <1>10, Zenon
        <3>3. QED
            BY <3>1, <3>2
    <2>2. \A i \in 0..n - 1 : i \in T => i + 1 \in T
        <3> SUFFICES ASSUME NEW i \in 0..n - 1, in[i] \in BOOLEAN PROVE i + 1 \in T
            OBVIOUS
        <3>1. i + 1 \in 1..n /\ i + 1 \in 0..n /\ i + 1 - 1 = i
            BY <1>1
        <3>2. in[i + 1] = Toggled(s, i + 1, in[i])
            BY <1>10, <3>1
        <3>3. QED
            BY <1>3, <3>1, <3>2
    <2> HIDE DEF T
    <2>3. 0..n \subseteq T
        BY <1>1, <2>1, <2>2, InductTo
    <2>4. QED
        BY <2>3 DEF T
<1>12. DOMAIN in = 0..n /\ in = [i \in 0..n |-> in[i]]
    BY <1>9
<1>13. in \in [0..n -> BOOLEAN]
    BY <1>11, <1>12
<1>14. QED
    BY <1>2, <1>10, <1>13 DEF n

\* Where a longer line is within a literal.
LEMMA WithinStep ==
    ASSUME NEW s \in Seq(Chars), NEW c \in Chars
    PROVE  /\ \A i \in 0..Len(s) : Within(Append(s, c))[i] = Within(s)[i]
           /\ c # DoubleQuote => Within(Append(s, c))[Len(s) + 1] = Within(s)[Len(s)]
           /\ c = DoubleQuote => Within(Append(s, c))[Len(s) + 1] =
                            (~Within(s)[Len(s)] \/ Run(s, Len(s) + 1) % 2 = 1)
<1> DEFINE t == Append(s, c)
           n == Len(s)
<1>1. n \in Nat /\ Len(t) = n + 1 /\ t[n + 1] = c /\ \A j \in 1..n : t[j] = s[j]
    BY AppendProperties, LenProperties
<1>2. t \in Seq(Chars)
    BY AppendProperties
<1>3. \A i \in 1..n + 1 : Run(t, i) = Run(s, i)
    BY RunStep
<1>4. Within(t)[0] = FALSE /\ \A i \in 1..n + 1 : Within(t)[i] = Toggled(t, i, Within(t)[i - 1])
    BY <1>1, <1>2, WithinIs
<1>5. Within(s)[0] = FALSE /\ \A i \in 1..n : Within(s)[i] = Toggled(s, i, Within(s)[i - 1])
    BY WithinIs
<1> HIDE DEF t, n
<1>6. \A i \in 0..n : Within(t)[i] = Within(s)[i]
    <2> DEFINE T == {i \in 0..n : Within(t)[i] = Within(s)[i]}
    <2>1. 0 \in T
        <3>1. 0 \in 0..n
            BY <1>1
        <3>2. Within(t)[0] = Within(s)[0]
            BY <1>4, <1>5, Zenon
        <3>3. QED
            BY <3>1, <3>2
    <2>2. \A i \in 0..n - 1 : i \in T => i + 1 \in T
        <3> SUFFICES ASSUME NEW i \in 0..n - 1, Within(t)[i] = Within(s)[i] PROVE i + 1 \in T
            OBVIOUS
        <3>1. i + 1 \in 1..n /\ i + 1 \in 1..n + 1 /\ i + 1 \in 0..n /\ i + 1 - 1 = i
            BY <1>1
        <3>2. Within(t)[i + 1] = Toggled(t, i + 1, Within(t)[i])
            BY <1>4, <3>1
        <3>3. Within(s)[i + 1] = Toggled(s, i + 1, Within(s)[i])
            BY <1>5, <3>1
        <3>4. Toggled(t, i + 1, Within(s)[i]) = Toggled(s, i + 1, Within(s)[i])
            BY <1>1, <1>3, <3>1 DEF Toggled
        <3>5. QED
            BY <3>1, <3>2, <3>3, <3>4
    <2> HIDE DEF T
    <2>3. 0..n \subseteq T
        BY <1>1, <2>1, <2>2, InductTo
    <2>4. QED
        BY <2>3 DEF T
<1>7. Within(t)[n + 1] = Toggled(t, n + 1, Within(s)[n])
    <2>1. n + 1 \in 1..n + 1 /\ n + 1 - 1 = n /\ n \in 0..n
        BY <1>1
    <2>2. QED
        BY <1>4, <1>6, <2>1
<1>8. n + 1 \in 1..n + 1
    BY <1>1
<1>9. Run(t, n + 1) = Run(s, n + 1)
    BY <1>3, <1>8
<1>10. QED
    BY <1>1, <1>6, <1>7, <1>9 DEF Toggled, t, n

(***************************************************************************)
(* Tokens.                                                                 *)
(***************************************************************************)
LEMMA EatIdxResult ==
    ASSUME NEW s
    PROVE  /\ EatIdx(s).err \in {"ok"} \cup TokErrs /\ EatIdx(s).tok.t \in {"Idx", "Eof"}
           /\ EatIdx(s).err = "ok" => EatIdx(s).tok.t = "Idx"
<1> DEFINE d == Depth(s)
           end == Len(s) - d
           num == Shrink(s, d + 2, end)
           name == Shrink(s, d + 3, end)
           var == Token([t |-> "Idx", depth |-> d, base |-> "Var", name |-> name])
           const == Token([t |-> "Idx", depth |-> d, base |-> "Num", num |-> Number(num)])
           R == {r \in {var, const} : TRUE} \cup {Error(e) : e \in TokErrs}
<1>1. \A r \in R : r.err \in {"ok"} \cup TokErrs /\ r.tok.t \in {"Idx", "Eof"} /\ (r.err = "ok" => r.tok.t = "Idx")
    BY DEF Token, Error, TokErrs
<1>2. EatIdx(s) = CASE s[end] # "]" -> Error("UnterminatedIdx")
          [] s[end] = "]" /\ end = d + 2 -> Error("EmptyIdx")
          [] s[end] = "]" /\ end # d + 2 /\ s[d + 2] = "$" ->
                IF end = d + 3 THEN Error("MissingVarName") ELSE var
          [] OTHER -> IF ~IsNumber(num) THEN Error("ParseIdxError") ELSE const
    BY DEF EatIdx
<1>3. var \in R /\ const \in R /\ \A e \in TokErrs : Error(e) \in R
    OBVIOUS
<1> HIDE DEF R, var, const, d, end, num
<1>4. EatIdx(s) \in R
    BY <1>2, <1>3 DEF TokErrs
<1>5. QED
    BY <1>1, <1>4

\* Only a single quote is read as the literal of nonsensical size.
LEMMA LiteralText ==
    ASSUME NEW s \in Seq(TokChars), s # <<>>, Literal(s) = Wild
    PROVE  Len(s) = 1
<1> SUFFICES ASSUME Len(s) # 1 PROVE FALSE
    OBVIOUS
<1>1. Len(s) \in Nat /\ Len(s) > 1
    <2>1. Len(s) \in Nat /\ Len(s) # 0
        BY LenProperties, EmptySeq
    <2>2. QED
        BY <2>1
<1>2. Literal(s) = SubSeq(s, 2, Len(s) - 1)
    BY DEF Literal, Shrink
<1>3. \A i \in 2..Len(s) - 1 : s[i] \in TokChars
    BY <1>1, ElementOfSeq
<1>4. SubSeq(s, 2, Len(s) - 1) \in Seq(TokChars)
    BY <1>1, <1>3, SubSeqProperties
<1>5. Wild \in Seq(TokChars)
    BY <1>2, <1>4
<1>6. Wild[1] \in TokChars
    <2>1. Len(Wild) = 1 /\ 1 \in 1..1
        BY DEF Wild
    <2>2. 1 \in 1..Len(Wild)
        BY <2>1
    <2>3. QED
        BY <1>5, <2>2, ElementOfSeq
<1>7. QED
    BY <1>6, LexerAssumption DEF Wild, TokChars, DoubleQuote

LEMMA OneElement ==
    ASSUME NEW S, NEW x \in S
    PROVE  <<x>> \in Seq(S) /\ Len(<<x>>) = 1 /\ <<x>>[1] = x
OBVIOUS

LEMMA QuoteType == Quote \in Seq(TokChars)
<1>1. DoubleQuote \in TokChars
    BY DEF TokChars
<1>2. QED
    BY <1>1, OneElement DEF Quote

LEMMA TokResult ==
    ASSUME NEW s \in Seq(TokChars)
    PROVE  /\ TokFromStr(s).err \in {"ok"} \cup TokErrs
           /\ TokFromStr(s).tok = Nonsense => s = Quote
           /\ s = <<>> => TokFromStr(s).tok.t = "Eof"
           /\ TokFromStr(s).err = "ok" /\ s # <<>> => TokFromStr(s).tok.t # "Eof"
<1>1. CASE s = <<>>
    BY <1>1 DEF TokFromStr, Token, Nonsense
<1>2. CASE s # <<>> /\ s[1] \in Digits \cup {"-"}
    <2>1. TokFromStr(s) = IF IsNumber(s) THEN Token([t |-> "Num", num |-> Number(s)]) ELSE Error("ParseNumError")
        BY <1>2 DEF TokFromStr, Digits, DoubleQuote
    <2>2. /\ TokFromStr(s).err \in {"ok"} \cup TokErrs /\ TokFromStr(s).tok # Nonsense
          /\ TokFromStr(s).err = "ok" => TokFromStr(s).tok.t # "Eof"
        BY <2>1 DEF Token, Error, TokErrs, Nonsense
    <2>3. QED
        BY <1>2, <2>2
<1>3. CASE s # <<>> /\ s[1] = "["
    <2>1. TokFromStr(s) = EatIdx(s)
        BY <1>3 DEF TokFromStr, Digits, DoubleQuote
    <2>2. /\ TokFromStr(s).err \in {"ok"} \cup TokErrs /\ TokFromStr(s).tok # Nonsense
          /\ TokFromStr(s).err = "ok" => TokFromStr(s).tok.t # "Eof"
        BY <2>1, EatIdxResult DEF Nonsense
    <2>3. QED
        BY <1>3, <2>2
<1>4. CASE s # <<>> /\ s[1] = "$"
    <2>1. TokFromStr(s) = Token([t |-> "Var", name |-> Tail(s)])
        BY <1>4 DEF TokFromStr, Digits, DoubleQuote
    <2>2. TokFromStr(s).err = "ok" /\ TokFromStr(s).tok # Nonsense /\ TokFromStr(s).tok.t # "Eof"
        BY <2>1 DEF Token, Nonsense
    <2>3. QED
        BY <1>4, <2>2
<1>5. CASE s # <<>> /\ s[1] = DoubleQuote
    <2>1. TokFromStr(s) = Token([t |-> "Ltl", text |-> Literal(s)])
        BY <1>5 DEF TokFromStr, Digits, DoubleQuote
    <2>2. TokFromStr(s).err = "ok" /\ TokFromStr(s).tok = [t |-> "Ltl", text |-> Literal(s)]
        BY <2>1 DEF Token
    <2>3. ASSUME Literal(s) = Wild PROVE s = Quote
        <3>1. Len(s) = 1
            BY <1>5, <2>3, LiteralText
        <3>2. Len(Quote) = 1 /\ Quote[1] = DoubleQuote
            BY DEF Quote
        <3>3. \A i \in 1..Len(s) : s[i] = Quote[i]
            <4>1. \A i \in 1..Len(s) : i = 1
                BY <3>1
            <4>2. QED
                BY <1>5, <3>2, <4>1
        <3>4. QED
            BY <3>1, <3>2, <3>3, QuoteType, SeqEqual
    <2>4. TokFromStr(s).tok = Nonsense => Literal(s) = Wild
        BY <2>2 DEF Nonsense
    <2>5. TokFromStr(s).tok.t # "Eof"
        BY <2>2
    <2>6. QED
        BY <1>5, <2>2, <2>3, <2>4, <2>5
<1>6. CASE s # <<>> /\ s[1] \notin Digits \cup {"-", "[", "$", DoubleQuote}
    <2>1. TokFromStr(s) = Token([t |-> "Sym", name |-> s])
        BY <1>6 DEF TokFromStr, DoubleQuote
    <2>2. TokFromStr(s).err = "ok" /\ TokFromStr(s).tok # Nonsense /\ TokFromStr(s).tok.t # "Eof"
        BY <2>1 DEF Token, Nonsense
    <2>3. QED
        BY <1>6, <2>2
<1>7. QED
    BY <1>1, <1>2, <1>3, <1>4, <1>5, <1>6

LEMMA NoNonsense == Nonsense \notin Toks
BY TokResult DEF Toks

(***************************************************************************)
(* One turn of the loop.                                                   *)
(***************************************************************************)
\* What a turn can make of a scanner that goes on, by what it does.
Comments(l, c, m) == c = Hash /\ l.state # "STRLTL" /\ m = [l EXCEPT !.ended = TRUE]
Refuses(l, m) == \E e \in FeedErrs : m = Refuse(l, e)
Skips(l, c, m) ==
    /\ c \in Blanks /\ l.state # "STRLTL"
    /\ m = IF l.state = "WAITING" THEN l ELSE [l EXCEPT !.state = "ENDED"]
Completes(l, c, m) == c \in Delims /\ l.state \in {"SYMBOL", "ENDED"} /\ m = Complete(l)
Opens(l, c, m) == c = DoubleQuote /\ l.state = "WAITING" /\ m = Push([l EXCEPT !.state = "STRLTL"], c)
Quotes(l, c, m) == c = DoubleQuote /\ l.state = "STRLTL" /\ m = QuoteInLiteral(l)
Slashes(l, c, m) == c = "\\" /\ l.state = "STRLTL" /\ m = BackslashInLiteral(l)
SlashStays(l, c, m) == c = "\\" /\ l.state \in {"WAITING", "SYMBOL"} /\ m = Push(l, c)
Begins(l, c, m) ==
    /\ c \notin {DoubleQuote, "\\", Hash} \cup Blanks \cup Delims /\ l.state = "WAITING"
    /\ m = Push([l EXCEPT !.state = "SYMBOL"], c)
Spelled(l, c) == IF l.escaped /\ c \in {"n", "t"} THEN Unescaped(c) ELSE c
Extends(l, c, m) ==
    /\ c \notin {DoubleQuote, "\\"} /\ l.state \in {"SYMBOL", "STRLTL"}
    /\ c \in {Hash} \cup Blanks \cup Delims => l.state = "STRLTL"
    /\ \E d \in TokChars : d = Spelled(l, c) /\ m = Push(l, d)

Turn(l, c, m) ==
    \/ Comments(l, c, m) \/ Refuses(l, m) \/ Skips(l, c, m) \/ Completes(l, c, m)
    \/ Opens(l, c, m) \/ Quotes(l, c, m) \/ Slashes(l, c, m) \/ SlashStays(l, c, m)
    \/ Begins(l, c, m) \/ Extends(l, c, m)

LEMMA FeedTurns ==
    ASSUME NEW l \in Scanner, NEW c \in Chars, l.err = "ok", ~l.ended
    PROVE  Turn(l, c, Feed(l, c))
<1>1. /\ l.state \in States /\ Delim(l) \in Delims /\ Unexpect(l) \in Delims
      /\ \A x \in Delims : x = Delim(l) \/ x = Unexpect(l)
    BY DEF Scanner, Delim, Unexpect, Delims
<1>2. c \in TokChars /\ "\n" \in TokChars /\ "\t" \in TokChars
    BY DEF TokChars
<1>3. CASE StartsComment(l, c)
    BY <1>3 DEF Feed, StartsComment, Turn, Comments, Hash
<1>4. CASE ~StartsComment(l, c) /\ c \in Blanks /\ l.state # "STRLTL"
    <2>1. Skips(l, c, Feed(l, c))
        BY <1>4 DEF Feed, Skips
    <2>2. QED
        BY <2>1 DEF Turn
<1> DEFINE Goes == ~StartsComment(l, c) /\ ~(c \in Blanks /\ l.state # "STRLTL")
<1>5. CASE Goes /\ c = Delim(l)
    <2>1. Feed(l, c) = CASE l.state = "WAITING" -> Refuse(l, "EmptyToken")
                [] l.state \in {"SYMBOL", "ENDED"} -> Complete(l)
                [] l.state = "STRLTL" -> Push(l, c)
        BY <1>5 DEF Feed, DoubleQuote
    <2>2. CASE l.state = "WAITING"
        BY <2>1, <2>2 DEF Turn, Refuses, FeedErrs
    <2>3. CASE l.state \in {"SYMBOL", "ENDED"}
        BY <1>1, <1>5, <2>1, <2>3 DEF Turn, Completes
    <2>4. CASE l.state = "STRLTL"
        <3>1. c \in Delims /\ Spelled(l, c) = c
            BY <1>1, <1>5, Different DEF Spelled
        <3>2. QED
            BY <1>2, <2>1, <2>4, <3>1, Different DEF Turn, Extends
    <2>5. QED
        BY <1>1, <2>2, <2>3, <2>4 DEF States
<1>6. CASE Goes /\ c # Delim(l) /\ c = Unexpect(l)
    <2>1. Feed(l, c) = IF l.state = "STRLTL" THEN Push(l, c) ELSE Refuse(l, "UnexpectedDelim")
        BY <1>6 DEF Feed, DoubleQuote
    <2>2. CASE l.state = "STRLTL"
        <3>1. c \in Delims /\ Spelled(l, c) = c
            BY <1>1, <1>6, Different DEF Spelled
        <3>2. QED
            BY <1>2, <2>1, <2>2, <3>1, Different DEF Turn, Extends
    <2>3. CASE l.state # "STRLTL"
        BY <2>1, <2>3 DEF Turn, Refuses, FeedErrs
    <2>4. QED
        BY <2>2, <2>3
<1> DEFINE Other == Goes /\ c # Delim(l) /\ c # Unexpect(l)
<1>7. CASE Other /\ l.state = "ENDED"
    <2>1. Feed(l, c) = Refuse(l, "NonDelimAfterSymEnd")
        BY <1>7 DEF Feed, DoubleQuote
    <2>2. QED
        BY <2>1 DEF Turn, Refuses, FeedErrs
<1>8. CASE Other /\ l.state # "ENDED" /\ c = DoubleQuote
    <2>1. Feed(l, c) = CASE l.state = "WAITING" -> Push([l EXCEPT !.state = "STRLTL"], c)
                [] l.state = "STRLTL" -> QuoteInLiteral(l)
                [] l.state = "SYMBOL" -> Refuse(l, "DoubleQuoteInMiddle")
        BY <1>8 DEF Feed, DoubleQuote
    <2>2. CASE l.state = "WAITING"
        BY <1>8, <2>1, <2>2 DEF Turn, Opens
    <2>3. CASE l.state = "STRLTL"
        BY <1>8, <2>1, <2>3 DEF Turn, Quotes
    <2>4. CASE l.state = "SYMBOL"
        BY <2>1, <2>4 DEF Turn, Refuses, FeedErrs
    <2>5. QED
        BY <1>1, <1>8, <2>2, <2>3, <2>4 DEF States
<1>9. CASE Other /\ l.state # "ENDED" /\ c = "\\"
    <2>1. Feed(l, c) = IF l.state = "STRLTL" THEN BackslashInLiteral(l) ELSE Push(l, c)
        BY <1>9 DEF Feed, DoubleQuote
    <2>2. CASE l.state = "STRLTL"
        BY <1>9, <2>1, <2>2 DEF Turn, Slashes
    <2>3. CASE l.state # "STRLTL"
        BY <1>1, <1>9, <2>1, <2>3 DEF Turn, SlashStays, States
    <2>4. QED
        BY <2>2, <2>3
<1> DEFINE Plain == Other /\ l.state # "ENDED" /\ c \notin {DoubleQuote, "\\"}
<1>10. CASE Plain /\ l.state = "WAITING"
    <2>1. Feed(l, c) = Push([l EXCEPT !.state = "SYMBOL"], c) /\ c # Hash
        BY <1>10 DEF Feed, StartsComment, Hash, DoubleQuote
    <2>2. c \notin Delims /\ c \notin Blanks
        BY <1>1, <1>10
    <2>3. QED
        BY <1>10, <2>1, <2>2 DEF Turn, Begins
<1>11. CASE Plain /\ l.state # "WAITING"
    <2>1. Feed(l, c) = IF ~l.escaped THEN Push(l, c)
              ELSE IF c \in {"n", "t"} THEN Push(l, Unescaped(c)) ELSE Refuse(l, "UnknownEscapeSequence")
        BY <1>11 DEF Feed, DoubleQuote
    <2>2. /\ l.state \in {"SYMBOL", "STRLTL"} /\ c \notin {DoubleQuote, "\\"}
          /\ c \in {Hash} \cup Blanks \cup Delims => l.state = "STRLTL"
        BY <1>1, <1>11 DEF States, StartsComment, Hash
    <2>3. CASE ~l.escaped
        BY <1>2, <2>1, <2>2, <2>3 DEF Turn, Extends, Spelled
    <2>4. CASE l.escaped /\ c \in {"n", "t"}
        <3>1. Unescaped(c) \in TokChars
            BY <1>2, <2>4 DEF Unescaped
        <3>2. QED
            BY <2>1, <2>2, <2>4, <3>1 DEF Turn, Extends, Spelled
    <2>5. CASE l.escaped /\ c \notin {"n", "t"}
        BY <2>1, <2>5 DEF Turn, Refuses, FeedErrs
    <2>6. QED
        BY <2>3, <2>4, <2>5
<1>12. QED
    BY <1>3, <1>4, <1>5, <1>6, <1>7, <1>8, <1>9, <1>10, <1>11

LEMMA FeedStops == ASSUME NEW l, NEW c, l.err # "ok" \/ l.ended PROVE Feed(l, c) = l
BY DEF Feed

(***************************************************************************)
(* A turn keeps the scanner in order.                                      *)
(***************************************************************************)
LEMMA RefuseKeeps ==
    ASSUME NEW l, ScannerOK(l), NEW e \in LexErrs \ {"ok"}
    PROVE  ScannerOK(Refuse(l, e))
<1>1. Refuse(l, e) = [l EXCEPT !.err = e]
    BY DEF Refuse
<1>2. l \in Scanner
    BY DEF ScannerOK
<1>3. Refuse(l, e) \in Scanner
    BY <1>1, <1>2 DEF Scanner
<1>4. /\ Refuse(l, e).state = l.state /\ Refuse(l, e).ended = l.ended /\ Refuse(l, e).err # "ok"
      /\ Refuse(l, e).current = l.current /\ Refuse(l, e).toks = l.toks
    BY <1>1, <1>2 DEF Scanner
<1>5. QED
    BY <1>3, <1>4 DEF ScannerOK, CurrentOK

LEMMA PushResult ==
    ASSUME NEW l \in Scanner, NEW d \in TokChars
    PROVE  /\ Push(l, d) \in Scanner
           /\ Push(l, d).state = l.state /\ Push(l, d).ended = l.ended /\ Push(l, d).err = l.err
           /\ ~Push(l, d).escaped /\ Push(l, d).toks = l.toks
           /\ Push(l, d).current = Append(l.current, d)
           /\ Len(Push(l, d).current) = Len(l.current) + 1
           /\ Push(l, d).current[Len(l.current) + 1] = d
           /\ \A i \in 1..Len(l.current) : Push(l, d).current[i] = l.current[i]
<1>1. l.current \in Seq(TokChars)
    BY DEF Scanner
<1>2. /\ Append(l.current, d) \in Seq(TokChars) /\ Len(Append(l.current, d)) = Len(l.current) + 1
      /\ Append(l.current, d)[Len(l.current) + 1] = d
      /\ \A i \in 1..Len(l.current) : Append(l.current, d)[i] = l.current[i]
    BY <1>1, AppendProperties
<1>3. Push(l, d) = [l EXCEPT !.current = Append(l.current, d), !.escaped = FALSE]
    BY DEF Push
<1>4. Push(l, d) \in Scanner
    BY <1>2, <1>3 DEF Scanner
<1>5. /\ Push(l, d).state = l.state /\ Push(l, d).ended = l.ended /\ Push(l, d).err = l.err
      /\ ~Push(l, d).escaped /\ Push(l, d).toks = l.toks
      /\ Push(l, d).current = Append(l.current, d)
    BY <1>3 DEF Scanner
<1>6. QED
    BY <1>2, <1>4, <1>5

LEMMA QuoteFacts == Len(Quote) = 1 /\ Quote[1] = DoubleQuote /\ Quote # <<>>
BY DEF Quote

\* What the end of a token leaves.
LEMMA CompleteResult ==
    ASSUME NEW l \in Scanner, l.err = "ok"
    PROVE  \/ \E e \in LexErrs \ {"ok"} : Complete(l) = Refuse(l, e)
           \/ Complete(l) = l /\ l.current = <<>>
           \/ /\ Complete(l) = [Start EXCEPT !.toks = Append(l.toks, TokFromStr(l.current).tok)]
              /\ l.toks # <<>> \/ TokFromStr(l.current).tok.t = "Sym"
<1> DEFINE r == TokFromStr(l.current)
<1>1. r.err \in {"ok"} \cup TokErrs /\ (r.err = "ok" /\ r.tok.t = "Eof" => l.current = <<>>)
    BY TokResult DEF Scanner
<1>2. Complete(l) =
        CASE r.err # "ok" -> Refuse(l, r.err)
          [] r.err = "ok" /\ r.tok.t = "Eof" -> l
          [] r.err = "ok" /\ r.tok.t \notin {"Sym", "Eof"} /\ l.toks = <<>> -> Refuse(l, "WrongTokTypeForOp")
          [] OTHER -> [Start EXCEPT !.toks = Append(l.toks, r.tok)]
    BY DEF Complete
<1> HIDE DEF r
<1>3. CASE r.err # "ok"
    BY <1>1, <1>2, <1>3 DEF LexErrs
<1>4. CASE r.err = "ok" /\ r.tok.t = "Eof"
    BY <1>1, <1>2, <1>4
<1>5. CASE r.err = "ok" /\ r.tok.t \notin {"Sym", "Eof"} /\ l.toks = <<>>
    <2>1. Complete(l) = Refuse(l, "WrongTokTypeForOp")
        BY <1>2, <1>5
    <2>2. QED
        BY <2>1 DEF LexErrs, FeedErrs
<1>6. CASE r.err = "ok" /\ r.tok.t # "Eof" /\ (r.tok.t = "Sym" \/ l.toks # <<>>)
    <2>1. Complete(l) = [Start EXCEPT !.toks = Append(l.toks, r.tok)]
        BY <1>2, <1>6
    <2>2. QED
        BY <1>6, <2>1 DEF r
<1>7. QED
    BY <1>3, <1>4, <1>5, <1>6

LEMMA StartFacts ==
    /\ Start \in Scanner /\ Start.state = "WAITING" /\ ~Start.escaped /\ Start.current = <<>>
    /\ Start.toks = <<>> /\ ~Start.ended /\ Start.err = "ok"
<1>1. <<>> \in Seq(TokChars) /\ <<>> \in Seq(Toks)
    BY EmptySeq
<1>2. "WAITING" \in States /\ "ok" \in LexErrs
    BY DEF States, LexErrs
<1>3. Start \in Scanner
    BY <1>1, <1>2 DEF Start, Scanner
<1>4. QED
    BY <1>3 DEF Start

LEMMA CompleteKeeps ==
    ASSUME NEW l, ScannerOK(l), l.err = "ok", l.state # "STRLTL"
    PROVE  ScannerOK(Complete(l))
<1> DEFINE tok == TokFromStr(l.current).tok
           toks == Append(l.toks, tok)
<1>1. l \in Scanner /\ l.current # Quote
    BY DEF ScannerOK, CurrentOK
<1>2. CASE \E e \in LexErrs \ {"ok"} : Complete(l) = Refuse(l, e)
    BY <1>2, RefuseKeeps
<1>3. CASE Complete(l) = l
    BY <1>3
<1>4. CASE Complete(l) = [Start EXCEPT !.toks = toks] /\ (l.toks # <<>> \/ tok.t = "Sym")
    <2>1. tok \in Toks /\ l.toks \in Seq(Toks)
        BY <1>1 DEF Toks, Scanner
    <2>2. toks \in Seq(Toks) /\ Len(toks) = Len(l.toks) + 1
        BY <2>1, AppendProperties
    <2>3. toks[1].t = "Sym"
        <3>1. CASE l.toks = <<>>
            <4>1. toks[1] = tok
                BY <3>1
            <4>2. QED
                BY <1>4, <3>1, <4>1
        <3>2. CASE l.toks # <<>>
            <4>1. Len(l.toks) \in Nat \ {0}
                BY <2>1, <3>2, EmptySeq
            <4>2. 1 \in 1..Len(l.toks)
                BY <4>1
            <4>3. toks[1] = l.toks[1]
                BY <2>1, <4>2, AppendProperties
            <4>4. QED
                BY <3>2, <4>3 DEF ScannerOK
        <3>3. QED
            BY <3>1, <3>2
    <2> HIDE DEF toks
    <2> DEFINE m == [Start EXCEPT !.toks = toks]
    <2>4. Len(<<>>) = 0 /\ <<>> # Quote
        BY EmptySeq DEF Quote
    <2>5. m \in Scanner
        BY <2>2, StartFacts DEF Scanner
    <2>6. m.state = "WAITING" /\ ~m.escaped /\ m.current = <<>> /\ m.toks = toks /\ ~m.ended
        BY StartFacts DEF Scanner
    <2> HIDE DEF m
    <2>7. CurrentOK(m)
        BY <2>4, <2>6 DEF CurrentOK
    <2>8. ScannerOK(m)
        BY <2>3, <2>5, <2>6, <2>7 DEF ScannerOK
    <2>9. QED
        BY <1>4, <2>8 DEF m
<1>5. QED
    BY <1>1, <1>2, <1>3, <1>4, CompleteResult

\* No turn but that of a quote gives a token that is one.
LEMMA PushKeeps ==
    ASSUME NEW l, ScannerOK(l), NEW d \in TokChars, NEW st \in {"WAITING", "SYMBOL", "STRLTL", "ENDED"},
           ~l.ended,
           st = "WAITING" => l.state = "WAITING" /\ d = "\\",
           st # "STRLTL" => Len(l.current) > 0 \/ d # DoubleQuote
    PROVE  ScannerOK(Push([l EXCEPT !.state = st], d))
<1> DEFINE k == [l EXCEPT !.state = st]
           m == Push(k, d)
           n == Len(l.current)
<1>1. l \in Scanner /\ l.current \in Seq(TokChars)
    BY DEF ScannerOK, Scanner
<1>2. k \in Scanner
    BY <1>1 DEF Scanner, States
<1>3. k.state = st /\ k.current = l.current /\ k.toks = l.toks /\ ~k.ended
    BY <1>1 DEF Scanner
<1> HIDE DEF k
<1>4. /\ m \in Scanner /\ m.state = st /\ ~m.ended /\ ~m.escaped /\ m.toks = l.toks
      /\ Len(m.current) = n + 1 /\ m.current[n + 1] = d
      /\ \A i \in 1..n : m.current[i] = l.current[i]
    <2>1. /\ m \in Scanner /\ m.state = st /\ ~m.ended /\ ~m.escaped /\ m.toks = l.toks
          /\ Len(m.current) = Len(k.current) + 1 /\ m.current[Len(k.current) + 1] = d
          /\ \A i \in 1..Len(k.current) : m.current[i] = k.current[i]
        BY <1>2, <1>3, PushResult
    <2> HIDE DEF m
    <2>2. QED
        BY <1>3, <2>1
<1>5. n \in Nat
    BY <1>1, LenProperties
<1> HIDE DEF m, n
<1>6. st = "WAITING" => \A i \in 1..Len(m.current) : m.current[i] = "\\"
    <2> SUFFICES ASSUME st = "WAITING", NEW i \in 1..n + 1 PROVE m.current[i] = "\\"
        BY <1>4
    <2>1. CASE i = n + 1
        BY <1>4, <2>1
    <2>2. CASE i # n + 1
        <3>1. i \in 1..n
            BY <1>5, <2>2
        <3>2. l.current[i] = "\\"
            BY <3>1 DEF ScannerOK, CurrentOK, n
        <3>3. QED
            BY <1>4, <3>1, <3>2
    <2>3. QED
        BY <2>1, <2>2
<1>7. Len(m.current) > 0
    BY <1>4, <1>5
<1>8. st # "STRLTL" => m.current # Quote
    <2> SUFFICES ASSUME st # "STRLTL", m.current = Quote PROVE FALSE
        OBVIOUS
    <2>1. n + 1 = 1
        BY <1>4, QuoteFacts
    <2>2. n = 0
        BY <1>5, <2>1
    <2>3. m.current[1] = d
        BY <1>4, <2>1
    <2>4. QED
        BY <2>2, <2>3, QuoteFacts DEF n
<1>9. CurrentOK(m)
    BY <1>4, <1>6, <1>7, <1>8 DEF CurrentOK
<1>10. ScannerOK(m)
    BY <1>4, <1>9 DEF ScannerOK
<1>11. QED
    BY <1>10 DEF m, k

LEMMA TurnKeeps ==
    ASSUME NEW l, ScannerOK(l), NEW c \in Chars, l.err = "ok", ~l.ended, NEW m, Turn(l, c, m)
    PROVE  ScannerOK(m)
<1>1. l \in Scanner /\ l.current \in Seq(TokChars) /\ l.state \in States /\ c \in TokChars
    BY DEF ScannerOK, Scanner, TokChars
<1>2. l = [l EXCEPT !.state = l.state]
    BY <1>1 DEF Scanner
<1>3. CASE Comments(l, c, m)
    <2>1. /\ m \in Scanner /\ m.state = l.state /\ m.escaped = l.escaped /\ m.toks = l.toks
          /\ m.current = l.current /\ l.state # "STRLTL" /\ m.err = l.err
        BY <1>1, <1>3 DEF Comments, Scanner
    <2>2. QED
        BY <2>1 DEF ScannerOK, CurrentOK
<1>4. CASE Refuses(l, m)
    BY <1>4, RefuseKeeps DEF Refuses, LexErrs, FeedErrs
<1>5. CASE Skips(l, c, m)
    <2>1. CASE m = l
        BY <2>1
    <2>2. CASE l.state # "WAITING" /\ m = [l EXCEPT !.state = "ENDED"]
        <3>1. "ENDED" \in States
            BY DEF States
        <3>2. /\ m \in Scanner /\ m.state = "ENDED" /\ m.escaped = l.escaped /\ m.toks = l.toks
              /\ m.current = l.current /\ l.state # "STRLTL" /\ m.err = l.err
            BY <1>1, <1>5, <2>2, <3>1 DEF Skips, Scanner
        <3>3. ~l.escaped
            BY <3>2 DEF ScannerOK
        <3>4. QED
            BY <2>2, <3>2, <3>3 DEF ScannerOK, CurrentOK
    <2>3. QED
        BY <1>5, <2>1, <2>2 DEF Skips
<1>6. CASE Completes(l, c, m)
    BY <1>6, CompleteKeeps DEF Completes
<1>7. CASE Opens(l, c, m)
    BY <1>1, <1>7, PushKeeps DEF Opens
<1>8. CASE Quotes(l, c, m)
    <2>1. Len(l.current) > 0
        BY <1>8 DEF Quotes, ScannerOK, CurrentOK
    <2>2. CASE l.escaped
        <3>1. m = Push(l, c)
            BY <1>8, <2>2 DEF Quotes, QuoteInLiteral, DoubleQuote
        <3>2. m = Push([l EXCEPT !.state = "STRLTL"], c)
            BY <1>2, <1>8, <3>1 DEF Quotes
        <3>3. QED
            BY <1>1, <3>2, PushKeeps
    <2>3. CASE ~l.escaped
        <3>1. m = Push([l EXCEPT !.state = "ENDED"], c)
            BY <1>8, <2>3 DEF Quotes, QuoteInLiteral, DoubleQuote
        <3>2. QED
            BY <1>1, <2>1, <3>1, PushKeeps
    <2>4. QED
        BY <2>2, <2>3
<1>9. CASE Slashes(l, c, m)
    <2> DEFINE current == IF l.escaped THEN Append(l.current, "\\") ELSE l.current
    <2>1. m = [l EXCEPT !.escaped = ~l.escaped, !.current = current]
        BY <1>9 DEF Slashes, BackslashInLiteral
    <2>2. "\\" \in TokChars
        BY DEF TokChars
    <2>3. /\ Append(l.current, "\\") \in Seq(TokChars) /\ Len(l.current) \in Nat
          /\ Len(Append(l.current, "\\")) = Len(l.current) + 1
        BY <1>1, <2>2, AppendProperties, LenProperties
    <2>4. Len(l.current) > 0
        BY <1>9 DEF Slashes, ScannerOK, CurrentOK
    <2>5. current \in Seq(TokChars) /\ Len(current) > 0
        BY <1>1, <2>3, <2>4
    <2> HIDE DEF current
    <2>6. /\ m \in Scanner /\ m.state = l.state /\ m.toks = l.toks /\ m.ended = l.ended
          /\ m.current = current
        BY <1>1, <2>1, <2>5 DEF Scanner
    <2>7. l.state = "STRLTL"
        BY <1>9 DEF Slashes
    <2>8. CurrentOK(m)
        BY <2>5, <2>6, <2>7 DEF CurrentOK
    <2>9. QED
        BY <2>6, <2>7, <2>8 DEF ScannerOK
<1>10. CASE SlashStays(l, c, m)
    <2>1. m = Push([l EXCEPT !.state = l.state], c) /\ c = "\\"
        BY <1>2, <1>10 DEF SlashStays
    <2>2. c # DoubleQuote /\ l.state \in {"WAITING", "SYMBOL"}
        BY <1>10, <2>1, Different DEF SlashStays
    <2>3. QED
        BY <1>1, <2>1, <2>2, PushKeeps
<1>11. CASE Begins(l, c, m)
    BY <1>1, <1>11, PushKeeps DEF Begins
<1>12. CASE Extends(l, c, m)
    <2>1. PICK d \in TokChars : m = Push(l, d)
        BY <1>12 DEF Extends
    <2>2. m = Push([l EXCEPT !.state = l.state], d)
        BY <1>2, <2>1
    <2>3. Len(l.current) > 0 /\ l.state \in {"SYMBOL", "STRLTL"}
        BY <1>12 DEF Extends, ScannerOK, CurrentOK
    <2>4. QED
        BY <2>2, <2>3, PushKeeps
<1>13. QED
    BY <1>3, <1>4, <1>5, <1>6, <1>7, <1>8, <1>9, <1>10, <1>11, <1>12 DEF Turn

LEMMA FeedKeeps == ASSUME NEW l, ScannerOK(l), NEW c \in Chars PROVE ScannerOK(Feed(l, c))
<1>1. CASE l.err # "ok" \/ l.ended
    BY <1>1, FeedStops
<1>2. CASE l.err = "ok" /\ ~l.ended
    <2>1. l \in Scanner
        BY DEF ScannerOK
    <2>2. QED
        BY <1>2, <2>1, FeedTurns, TurnKeeps
<1>3. QED
    BY <1>1, <1>2

(***************************************************************************)
(* A turn keeps up with the line.                                          *)
(***************************************************************************)
LineOK(l, s) ==
    /\ l.escaped /\ l.err = "ok" => s # <<>> /\ s[Len(s)] = "\\"
    /\ l.err = "ok" /\ ~l.ended =>
        /\ l.state = "STRLTL" <=> Within(s)[Len(s)] = TRUE
        /\ l.state = "STRLTL" => (l.escaped <=> Run(s, Len(s) + 1) % 2 = 1)
        /\ \A i \in 1..Len(s) : s[i] = Hash => Within(s)[i - 1] = TRUE

\* What a turn does about literals and escapes, if the scanner goes on.
Tracks(l, c, m) ==
    /\ m.escaped => c = "\\"
    /\ ~m.ended =>
        /\ c = DoubleQuote => (m.state = "STRLTL" <=> l.state # "STRLTL" \/ l.escaped)
        /\ c # DoubleQuote => (m.state = "STRLTL" <=> l.state = "STRLTL")
        /\ m.state = "STRLTL" => (m.escaped <=> c = "\\" /\ ~l.escaped)
        /\ c = Hash => l.state = "STRLTL"

LEMMA TurnTracks ==
    ASSUME NEW l, ScannerOK(l), NEW c \in Chars, l.err = "ok", ~l.ended,
           NEW m, Turn(l, c, m), m.err = "ok"
    PROVE  Tracks(l, c, m)
<1>1. l \in Scanner /\ l.state \in States /\ c \in TokChars /\ (l.escaped => l.state = "STRLTL")
    BY DEF ScannerOK, Scanner, TokChars
<1>2. ASSUME NEW st \in States
      PROVE  Push([l EXCEPT !.state = st], c).state = st /\ ~Push([l EXCEPT !.state = st], c).escaped
    <2> DEFINE k == [l EXCEPT !.state = st]
    <2>1. k \in Scanner /\ k.state = st
        BY <1>1, <1>2 DEF Scanner
    <2> HIDE DEF k
    <2>2. Push(k, c).state = st /\ ~Push(k, c).escaped
        BY <1>1, <2>1, PushResult
    <2>3. QED
        BY <2>2 DEF k
<1>3. "SYMBOL" \in States /\ "STRLTL" \in States /\ "ENDED" \in States
    BY DEF States
<1>4. CASE Comments(l, c, m)
    <2>1. m.escaped = l.escaped /\ l.state # "STRLTL" /\ m.ended
        BY <1>1, <1>4 DEF Comments, Scanner
    <2>2. QED
        BY <1>1, <2>1 DEF Tracks
<1>5. CASE Refuses(l, m)
    <2>1. m.err # "ok"
        BY <1>1, <1>5 DEF Refuses, Refuse, Scanner, FeedErrs
    <2>2. QED
        BY <2>1
<1>6. CASE Skips(l, c, m)
    <2>1. l.state # "STRLTL" /\ m.state # "STRLTL" /\ m.escaped = l.escaped
        BY <1>1, <1>6 DEF Skips, Scanner
    <2>2. c # DoubleQuote /\ c # Hash
        BY <1>6 DEF Skips, Blanks, DoubleQuote, Hash
    <2>3. QED
        BY <1>1, <2>1, <2>2 DEF Tracks
<1>7. CASE Completes(l, c, m)
    <2>1. l.state # "STRLTL" /\ m = Complete(l) /\ c # DoubleQuote /\ c # Hash /\ ~l.escaped
        BY <1>1, <1>7, Different DEF Completes
    <2>2. m.state # "STRLTL" /\ ~m.escaped
        <3>1. CASE \E e \in LexErrs \ {"ok"} : m = Refuse(l, e)
            BY <1>1, <3>1 DEF Refuse, Scanner
        <3>2. CASE m = l
            BY <2>1, <3>2
        <3>3. CASE m = [Start EXCEPT !.toks = Append(l.toks, TokFromStr(l.current).tok)]
            BY <3>3, StartFacts DEF Scanner
        <3>4. QED
            BY <1>1, <2>1, <3>1, <3>2, <3>3, CompleteResult
    <2>3. QED
        BY <2>1, <2>2 DEF Tracks
<1>8. CASE Opens(l, c, m)
    <2>1. c = DoubleQuote /\ l.state = "WAITING" /\ m = Push([l EXCEPT !.state = "STRLTL"], c)
        BY <1>8 DEF Opens
    <2>2. m.state = "STRLTL" /\ ~m.escaped
        BY <1>2, <1>3, <2>1
    <2>3. QED
        BY <2>1, <2>2, Different DEF Tracks
<1>9. CASE Quotes(l, c, m)
    <2>1. c = DoubleQuote /\ l.state = "STRLTL" /\ m = Push(IF l.escaped THEN l ELSE [l EXCEPT !.state = "ENDED"], c)
        BY <1>9 DEF Quotes, QuoteInLiteral, DoubleQuote
    <2>2. CASE l.escaped
        <3>1. m = Push(l, c)
            BY <2>1, <2>2
        <3>2. m.state = "STRLTL" /\ ~m.escaped
            BY <1>1, <2>1, <3>1, PushResult
        <3>3. QED
            BY <2>1, <2>2, <3>2, Different DEF Tracks
    <2>3. CASE ~l.escaped
        <3>1. m = Push([l EXCEPT !.state = "ENDED"], c)
            BY <2>1, <2>3
        <3>2. m.state = "ENDED" /\ ~m.escaped
            BY <1>2, <1>3, <3>1
        <3>3. QED
            BY <2>1, <2>3, <3>2, Different DEF Tracks
    <2>4. QED
        BY <2>2, <2>3
<1>10. CASE Slashes(l, c, m)
    <2>1. c = "\\" /\ l.state = "STRLTL"
        BY <1>10 DEF Slashes
    <2>2. m.state = l.state /\ m.escaped = ~l.escaped
        BY <1>1, <1>10 DEF Slashes, BackslashInLiteral, Scanner
    <2>3. QED
        BY <2>1, <2>2, Different DEF Tracks
<1>11. CASE SlashStays(l, c, m)
    <2>1. c = "\\" /\ l.state # "STRLTL" /\ m = Push(l, c)
        BY <1>11 DEF SlashStays
    <2>2. m.state = l.state /\ ~m.escaped
        BY <1>1, <2>1, PushResult
    <2>3. QED
        BY <2>1, <2>2, Different DEF Tracks
<1>12. CASE Begins(l, c, m)
    <2>1. c # DoubleQuote /\ c # "\\" /\ c # Hash /\ l.state = "WAITING" /\ m = Push([l EXCEPT !.state = "SYMBOL"], c)
        BY <1>12 DEF Begins
    <2>2. m.state = "SYMBOL" /\ ~m.escaped
        BY <1>2, <1>3, <2>1
    <2>3. QED
        BY <2>1, <2>2 DEF Tracks
<1>13. CASE Extends(l, c, m)
    <2>1. c # DoubleQuote /\ c # "\\" /\ (c = Hash => l.state = "STRLTL")
        BY <1>13 DEF Extends
    <2>2. m.state = l.state /\ ~m.escaped
        BY <1>1, <1>13, PushResult DEF Extends
    <2>3. QED
        BY <2>1, <2>2 DEF Tracks
<1>14. QED
    BY <1>4, <1>5, <1>6, <1>7, <1>8, <1>9, <1>10, <1>11, <1>12, <1>13 DEF Turn

LEMMA Parity == \A k \in Nat : (k + 1) % 2 = 1 <=> k % 2 # 1
OBVIOUS

LEMMA LineKeeps ==
    ASSUME NEW l, ScannerOK(l), NEW s \in Seq(Chars), LineOK(l, s), NEW c \in Chars
    PROVE  LineOK(Feed(l, c), Append(s, c))
<1> DEFINE m == Feed(l, c)
           t == Append(s, c)
           n == Len(s)
           w == Within(s)[n]
           v == Within(t)[n + 1]
           p == Run(s, n + 1)
           q == Run(t, n + 2)
<1>1. n \in Nat /\ t \in Seq(Chars) /\ Len(t) = n + 1 /\ t[n + 1] = c /\ \A i \in 1..n : t[i] = s[i]
    BY AppendProperties, LenProperties
<1>2. t # <<>>
    BY <1>1
<1>3. CASE l.err # "ok" \/ l.ended
    <2>1. m = l
        BY <1>3, FeedStops
    <2>2. ~(l.escaped /\ l.err = "ok")
        BY <1>3 DEF ScannerOK
    <2>3. QED
        BY <1>3, <2>1, <2>2 DEF LineOK
<1>4. CASE l.err = "ok" /\ ~l.ended /\ m.err # "ok"
    BY <1>4 DEF LineOK
<1>5. CASE l.err = "ok" /\ ~l.ended /\ m.err = "ok"
    <2>1. Tracks(l, c, m)
        <3>1. l \in Scanner
            BY DEF ScannerOK
        <3>2. Turn(l, c, m)
            BY <1>5, <3>1, FeedTurns
        <3>3. QED
            BY <1>5, <3>2, TurnTracks
    <2>2. /\ l.state = "STRLTL" <=> w = TRUE
          /\ l.state = "STRLTL" => (l.escaped <=> p % 2 = 1)
          /\ \A i \in 1..n : s[i] = Hash => Within(s)[i - 1] = TRUE
        BY <1>5 DEF LineOK
    <2>3. /\ \A i \in 0..n : Within(t)[i] = Within(s)[i]
          /\ c # DoubleQuote => v = w
          /\ c = DoubleQuote => v = (~w \/ p % 2 = 1)
        BY WithinStep
    <2>4. w \in BOOLEAN
        <3>1. n \in 0..n
            BY <1>1
        <3>2. Within(s) \in [0..n -> BOOLEAN]
            BY WithinIs
        <3>3. QED
            BY <3>1, <3>2
    <2>5. p \in Nat
        <3>1. n + 1 \in Nat \ {0}
            BY <1>1
        <3>2. p \in 0..n + 1 - 1
            BY <3>1, RunExists
        <3> HIDE DEF p
        <3>3. QED
            BY <1>1, <3>2
    <2>6. (c # "\\" => q = 0) /\ (c = "\\" => q = p + 1)
        BY RunStep
    <2> HIDE DEF m, t, n, w, v, p, q
    <2>7. c = "\\" => (q % 2 = 1 <=> p % 2 # 1)
        BY <2>5, <2>6, Parity
    <2>8. c # "\\" => q % 2 # 1
        BY <2>6
    <2>9. m.escaped => t # <<>> /\ t[n + 1] = "\\"
        BY <1>1, <1>2, <2>1 DEF Tracks
    <2>10. ASSUME ~m.ended
           PROVE  /\ m.state = "STRLTL" <=> v = TRUE
                  /\ m.state = "STRLTL" => (m.escaped <=> q % 2 = 1)
        <3>1. CASE c = DoubleQuote
            <4>1. c # "\\"
                BY <3>1, Different
            <4>2. m.state = "STRLTL" <=> l.state # "STRLTL" \/ l.escaped
                BY <2>1, <2>10, <3>1 DEF Tracks
            <4>3. m.state = "STRLTL" => ~m.escaped
                BY <2>1, <2>10, <4>1 DEF Tracks
            <4>4. QED
                BY <2>2, <2>3, <2>4, <2>8, <3>1, <4>1, <4>2, <4>3
        <3>2. CASE c # DoubleQuote
            <4>1. m.state = "STRLTL" <=> l.state = "STRLTL"
                BY <2>1, <2>10, <3>2 DEF Tracks
            <4>2. m.state = "STRLTL" => (m.escaped <=> c = "\\" /\ ~l.escaped)
                BY <2>1, <2>10 DEF Tracks
            <4>3. QED
                BY <2>2, <2>3, <2>7, <2>8, <3>2, <4>1, <4>2
        <3>3. QED
            BY <3>1, <3>2
    <2>11. ASSUME ~m.ended, NEW i \in 1..n + 1, t[i] = Hash PROVE Within(t)[i - 1] = TRUE
        <3>1. CASE i = n + 1
            <4>1. c = Hash /\ i - 1 = n /\ n \in 0..n
                BY <1>1, <2>11, <3>1
            <4>2. l.state = "STRLTL"
                BY <2>1, <2>11, <4>1 DEF Tracks
            <4>3. Within(t)[n] = Within(s)[n]
                BY <2>3, <4>1
            <4>4. QED
                BY <2>2, <4>1, <4>2, <4>3 DEF w
        <3>2. CASE i # n + 1
            <4>1. i \in 1..n /\ i - 1 \in 0..n
                BY <1>1, <3>2
            <4>2. QED
                BY <1>1, <2>2, <2>3, <2>11, <4>1
        <3>3. QED
            BY <3>1, <3>2
    <2>12. n + 1 + 1 = n + 2
        BY <1>1
    <2>13. LineOK(m, t)
        BY <1>1, <2>9, <2>10, <2>11, <2>12 DEF LineOK, v, q
    <2>14. QED
        BY <2>13 DEF m, t
<1>6. QED
    BY <1>3, <1>4, <1>5

(***************************************************************************)
(* Sets in order.                                                          *)
(***************************************************************************)
\* f lists n values.
Lists(f, n) == n \in Nat /\ f = [k \in 1..n |-> f[k]]

LEMMA ListSeq ==
    ASSUME NEW f, NEW n, Lists(f, n), NEW S, \A k \in 1..n : f[k] \in S
    PROVE  f \in Seq(S) /\ Len(f) = n
<1>1. n \in Nat /\ f = [k \in 1..n |-> f[k]]
    BY DEF Lists
<1>2. f \in [1..n -> S]
    BY <1>1
<1>3. f \in Seq(S)
    BY <1>1, <1>2, SeqDef
<1>4. Len(f) \in Nat /\ DOMAIN f = 1..Len(f)
    BY <1>3, LenProperties
<1>5. 1..n = 1..Len(f)
    BY <1>2, <1>4
<1>6. Len(f) = n
    BY <1>1, <1>4, <1>5
<1>7. QED
    BY <1>3, <1>6

LEMMA ListAppend ==
    ASSUME NEW f, NEW n, Lists(f, n), NEW x
    PROVE  /\ Append(f, x) = [k \in 1..n + 1 |-> IF k = n + 1 THEN x ELSE f[k]]
           /\ Lists(Append(f, x), n + 1)
           /\ Len(f) = n
           /\ \A k \in 1..n : Append(f, x)[k] = f[k]
           /\ Append(f, x)[n + 1] = x
<1> DEFINE S == {f[k] : k \in 1..n} \cup {x}
           g == [k \in 1..n + 1 |-> IF k = n + 1 THEN x ELSE f[k]]
<1>1. n \in Nat /\ (\A k \in 1..n : f[k] \in S) /\ x \in S
    BY DEF Lists
<1> HIDE DEF S
<1>2. f \in Seq(S) /\ Len(f) = n
    BY <1>1, ListSeq
<1>3. /\ Append(f, x) \in Seq(S) /\ Len(Append(f, x)) = n + 1 /\ Append(f, x)[n + 1] = x
      /\ \A k \in 1..n : Append(f, x)[k] = f[k]
    BY <1>1, <1>2, AppendProperties
<1>4. n + 1 \in Nat /\ \A k \in 1..n + 1 : k = n + 1 \/ k \in 1..n
    BY <1>1
<1>5. \A k \in 1..n + 1 : g[k] \in S /\ g[k] = Append(f, x)[k]
    BY <1>1, <1>3, <1>4
<1>6. Lists(g, n + 1)
    BY <1>4 DEF Lists
<1> HIDE DEF g
<1>7. g \in Seq(S) /\ Len(g) = n + 1
    BY <1>5, <1>6, ListSeq
<1>8. g = Append(f, x)
    BY <1>3, <1>5, <1>7, SeqEqual
<1>9. QED
    BY <1>2, <1>3, <1>6, <1>8 DEF g

Ranked(S, k) == {i \in S : Cardinality({j \in S : j <= i}) = k}

LEMMA InOrderIs ==
    ASSUME NEW S, IsFiniteSet(S)
    PROVE  /\ InOrder(S) = [k \in 1..Cardinality(S) |-> First(Ranked(S, k))]
           /\ Lists(InOrder(S), Cardinality(S))
<1>1. InOrder(S) = [k \in 1..Cardinality(S) |-> First(Ranked(S, k))]
    BY DEF InOrder, Ranked
<1>2. Cardinality(S) \in Nat
    BY FS_CardinalityType
<1>3. QED
    BY <1>1, <1>2 DEF Lists

\* A greater member comes last.
LEMMA InOrderGrows ==
    ASSUME NEW S, S \subseteq Int, IsFiniteSet(S), NEW m \in Int, \A i \in S : i < m
    PROVE  InOrder(S \cup {m}) = Append(InOrder(S), m)
<1> DEFINE T == S \cup {m}
           n == Cardinality(S)
<1>1. m \notin S
    OBVIOUS
<1>2. n \in Nat /\ IsFiniteSet(T) /\ Cardinality(T) = n + 1
    BY <1>1, FS_CardinalityType, FS_AddElement
<1>3. ASSUME NEW i \in S
      PROVE  {j \in T : j <= i} = {j \in S : j <= i} /\ Cardinality({j \in S : j <= i}) <= n
    <2>1. {j \in T : j <= i} = {j \in S : j <= i}
        OBVIOUS
    <2>2. Cardinality({j \in S : j <= i}) <= n
        BY FS_Subset
    <2>3. QED
        BY <2>1, <2>2
<1>4. {j \in T : j <= m} = T
    <2>1. \A j \in T : j <= m
        OBVIOUS
    <2> HIDE DEF T
    <2>2. QED
        BY <2>1
<1>5. ASSUME NEW k \in 1..n PROVE Ranked(T, k) = Ranked(S, k)
    <2>1. m \notin Ranked(T, k)
        BY <1>2, <1>4 DEF Ranked
    <2>2. \A i \in S : i \in Ranked(T, k) <=> i \in Ranked(S, k)
        BY <1>3 DEF Ranked
    <2>3. QED
        BY <2>1, <2>2 DEF Ranked
<1>6. Ranked(T, n + 1) = {m}
    <2>1. m \in Ranked(T, n + 1)
        BY <1>2, <1>4 DEF Ranked
    <2>2. ASSUME NEW i \in S PROVE i \notin Ranked(T, n + 1)
        <3>1. Cardinality({j \in S : j <= i}) \in Nat
            BY FS_Subset, FS_CardinalityType
        <3>2. QED
            BY <1>2, <1>3, <3>1 DEF Ranked
    <2>3. QED
        BY <2>1, <2>2 DEF Ranked
<1>7. First({m}) = m
    BY DEF First
<1>8. InOrder(T) = [k \in 1..n + 1 |-> First(Ranked(T, k))]
    BY <1>2, InOrderIs
<1>9. InOrder(S) = [k \in 1..n |-> First(Ranked(S, k))] /\ Lists(InOrder(S), n)
    BY InOrderIs
<1> HIDE DEF T, n
<1>10. Append(InOrder(S), m) = [k \in 1..n + 1 |-> IF k = n + 1 THEN m ELSE InOrder(S)[k]]
    BY <1>9, ListAppend
<1>11. ASSUME NEW k \in 1..n + 1
       PROVE  First(Ranked(T, k)) = IF k = n + 1 THEN m ELSE InOrder(S)[k]
    <2>1. CASE k = n + 1
        BY <1>6, <1>7, <2>1
    <2>2. CASE k # n + 1
        <3>1. k \in 1..n
            BY <1>2, <2>2
        <3>2. QED
            BY <1>5, <1>9, <2>2, <3>1
    <2>3. QED
        BY <2>1, <2>2
<1>12. InOrder(T) = Append(InOrder(S), m)
    BY <1>8, <1>10, <1>11
<1>13. QED
    BY <1>12 DEF T

LEMMA InOrderFew ==
    /\ InOrder({}) = <<>>
    /\ \A m \in Int : InOrder({m}) = <<m>>
<1>1. IsFiniteSet({}) /\ Cardinality({}) = 0
    BY FS_EmptySet
<1>2. InOrder({}) = <<>>
    BY <1>1, InOrderIs
<1>3. ASSUME NEW m \in Int PROVE InOrder({m}) = <<m>>
    <2>1. {} \cup {m} = {m}
        OBVIOUS
    <2>2. InOrder({} \cup {m}) = Append(InOrder({}), m)
        BY <1>1, InOrderGrows
    <2>3. Append(<<>>, m) = <<m>>
        OBVIOUS
    <2>4. QED
        BY <1>2, <2>1, <2>2, <2>3
<1>4. QED
    BY <1>2, <1>3

(***************************************************************************)
(* The text of a field, of any line.                                       *)
(***************************************************************************)
\* Character i is one of `chars` and not within a literal.
OutAt(s, i, chars) == s[i] \in chars /\ ~Within(s)[i - 1]
EscapeAt(s, i) == s[i] = "\\" /\ Within(s)[i - 1] /\ Run(s, i) % 2 = 0
KeptAt(s, i) == ~OutAt(s, i, Blanks) /\ ~EscapeAt(s, i)
CharAt(s, first, i) ==
    IF i > first /\ EscapeAt(s, i - 1) /\ s[i] \in {"n", "t"} THEN Unescaped(s[i]) ELSE s[i]
Kept(s, first, end) == {i \in first..end - 1 : KeptAt(s, i)}
TextOf(s, first, end) ==
    [k \in DOMAIN InOrder(Kept(s, first, end)) |-> CharAt(s, first, InOrder(Kept(s, first, end))[k])]

LEMMA TextIs ==
    ASSUME line \in Seq(Chars), NEW first \in Nat \ {0}, NEW end \in Int, end <= Len(line) + 1
    PROVE  Text(first, end) = TextOf(line, first, end)
<1> DEFINE kept == {i \in first..end - 1 : i \notin Outside(Blanks) /\ ~Escapes(i)}
<1>1. Len(line) \in Nat /\ DOMAIN line = 1..Len(line)
    BY LenProperties
<1>2. \A i \in first..end - 1 : i \in DOMAIN line
    BY <1>1
<1>3. \A i : Escapes(i) <=> EscapeAt(line, i)
    BY LookBack DEF Escapes, EscapeAt
<1>4. \A i \in DOMAIN line : i \in Outside(Blanks) <=> OutAt(line, i, Blanks)
    BY LookBack DEF Outside, OutAt
<1>5. kept = Kept(line, first, end)
    BY <1>2, <1>3, <1>4 DEF Kept, KeptAt
<1>6. Text(first, end) = [k \in DOMAIN InOrder(kept) |->
            IF InOrder(kept)[k] > first /\ Escapes(InOrder(kept)[k] - 1) /\ line[InOrder(kept)[k]] \in {"n", "t"}
            THEN Unescaped(line[InOrder(kept)[k]]) ELSE line[InOrder(kept)[k]]]
    BY DEF Text
<1> HIDE DEF kept
<1>7. \A k : CharAt(line, first, InOrder(kept)[k]) =
            IF InOrder(kept)[k] > first /\ Escapes(InOrder(kept)[k] - 1) /\ line[InOrder(kept)[k]] \in {"n", "t"}
            THEN Unescaped(line[InOrder(kept)[k]]) ELSE line[InOrder(kept)[k]]
    BY <1>3 DEF CharAt
<1>8. TextOf(line, first, end) = [k \in DOMAIN InOrder(kept) |-> CharAt(line, first, InOrder(kept)[k])]
    BY <1>5 DEF TextOf
<1>9. QED
    BY <1>6, <1>7, <1>8

LEMMA TextStarts == ASSUME NEW s, NEW first \in Int PROVE TextOf(s, first, first) = <<>>
<1>1. Kept(s, first, first) = {}
    BY DEF Kept
<1>2. InOrder({}) = <<>> /\ DOMAIN <<>> = {}
    BY InOrderFew
<1>3. QED
    BY <1>1, <1>2 DEF TextOf

\* One character more of the line.
LEMMA TextGrows ==
    ASSUME NEW s, NEW first \in Int, NEW end \in Int, first <= end
    PROVE  TextOf(s, first, end + 1) =
                IF KeptAt(s, end) THEN Append(TextOf(s, first, end), CharAt(s, first, end))
                                  ELSE TextOf(s, first, end)
<1> DEFINE K == Kept(s, first, end)
           L == Kept(s, first, end + 1)
           n == Cardinality(K)
           f == InOrder(K)
           t == TextOf(s, first, end)
           x == CharAt(s, first, end)
<1>1. K \subseteq Int /\ (\A i \in K : i < end) /\ K \in SUBSET (first..end - 1)
    BY DEF Kept
<1>2. IsFiniteSet(K)
    <2>1. IsFiniteSet(first..end - 1)
        BY FS_Interval
    <2>2. QED
        BY <1>1, <2>1, FS_Subset
<1>3. CASE ~KeptAt(s, end)
    <2>1. L = K
        BY <1>3 DEF Kept
    <2>2. QED
        BY <1>3, <2>1 DEF TextOf
<1>4. CASE KeptAt(s, end)
    <2>1. L = K \cup {end}
        BY <1>4 DEF Kept
    <2> HIDE DEF K, L
    <2>2. InOrder(L) = Append(f, end)
        BY <1>1, <1>2, <2>1, InOrderGrows
    <2>3. Lists(f, n)
        BY <1>2, InOrderIs
    <2> HIDE DEF f, n
    <2>4. /\ Append(f, end) = [k \in 1..n + 1 |-> IF k = n + 1 THEN end ELSE f[k]]
          /\ DOMAIN f = 1..n /\ n \in Nat
        BY <2>3, ListAppend DEF Lists
    <2>5. t = [k \in 1..n |-> CharAt(s, first, f[k])]
        BY <2>4 DEF TextOf, K, f
    <2>6. Lists(t, n)
        <3> HIDE DEF t
        <3>1. \A k \in 1..n : t[k] = CharAt(s, first, f[k])
            BY <2>5
        <3>2. QED
            BY <2>4, <2>5, <3>1 DEF Lists
    <2>7. Append(t, x) = [k \in 1..n + 1 |-> IF k = n + 1 THEN x ELSE t[k]]
        <3> HIDE DEF t, x
        <3>1. QED
            BY <2>6, ListAppend
    <2>8. TextOf(s, first, end + 1) = [k \in DOMAIN InOrder(L) |-> CharAt(s, first, InOrder(L)[k])]
        BY DEF TextOf, L
    <2>9. DOMAIN InOrder(L) = 1..n + 1
        BY <2>2, <2>4
    <2>10. ASSUME NEW k \in 1..n + 1
           PROVE  CharAt(s, first, InOrder(L)[k]) = IF k = n + 1 THEN x ELSE t[k]
        <3>1. CASE k = n + 1
            BY <2>2, <2>4, <3>1
        <3>2. CASE k # n + 1
            <4>1. k \in 1..n
                BY <2>4, <3>2
            <4>2. InOrder(L)[k] = f[k]
                BY <2>2, <2>4, <3>2
            <4>3. t[k] = CharAt(s, first, f[k])
                BY <2>5, <4>1
            <4>4. QED
                BY <3>2, <4>2, <4>3
        <3>3. QED
            BY <3>1, <3>2
    <2> HIDE DEF t, x
    <2>11. TextOf(s, first, end + 1) = Append(t, x)
        BY <2>7, <2>8, <2>9, <2>10
    <2>12. QED
        BY <1>4, <2>11 DEF t, x
<1>5. QED
    BY <1>3, <1>4

\* What is read later changes nothing of what was read.
LEMMA AtStable ==
    ASSUME NEW s \in Seq(Chars), NEW c \in Chars, NEW i \in 1..Len(s)
    PROVE  /\ \A chars : OutAt(Append(s, c), i, chars) <=> OutAt(s, i, chars)
           /\ EscapeAt(Append(s, c), i) <=> EscapeAt(s, i)
           /\ KeptAt(Append(s, c), i) <=> KeptAt(s, i)
           /\ \A first \in Nat \ {0} : CharAt(Append(s, c), first, i) = CharAt(s, first, i)
<1> DEFINE t == Append(s, c)
           n == Len(s)
<1>1. n \in Nat /\ \A j \in 1..n : t[j] = s[j]
    BY AppendProperties, LenProperties
<1>2. \A j \in 0..n : Within(t)[j] = Within(s)[j]
    BY WithinStep
<1>3. \A j \in 1..n + 1 : Run(t, j) = Run(s, j)
    BY RunStep
<1> HIDE DEF t, n
<1>4. ASSUME NEW j \in 1..n
      PROVE  t[j] = s[j] /\ Within(t)[j - 1] = Within(s)[j - 1] /\ Run(t, j) = Run(s, j)
    <2>1. j - 1 \in 0..n /\ j \in 1..n + 1
        BY <1>1
    <2>2. QED
        BY <1>1, <1>2, <1>3, <2>1
<1>5. \A j \in 1..n : EscapeAt(t, j) <=> EscapeAt(s, j)
    BY <1>4 DEF EscapeAt
<1>6. i \in 1..n
    BY DEF n
<1>7. \A chars : OutAt(t, i, chars) <=> OutAt(s, i, chars)
    BY <1>4, <1>6 DEF OutAt
<1>8. KeptAt(t, i) <=> KeptAt(s, i)
    BY <1>5, <1>6, <1>7 DEF KeptAt
<1>9. ASSUME NEW first \in Nat \ {0} PROVE CharAt(t, first, i) = CharAt(s, first, i)
    <2>1. i > first => i - 1 \in 1..n
        BY <1>1, <1>6
    <2>2. QED
        BY <1>4, <1>5, <1>6, <2>1 DEF CharAt
<1>10. QED
    BY <1>5, <1>6, <1>7, <1>8, <1>9 DEF t

LEMMA TextStable ==
    ASSUME NEW s \in Seq(Chars), NEW c \in Chars, NEW first \in Nat \ {0}, NEW end \in Int,
           end <= Len(s) + 1
    PROVE  TextOf(Append(s, c), first, end) = TextOf(s, first, end)
<1> SUFFICES ASSUME first <= end PROVE TextOf(Append(s, c), first, end) = TextOf(s, first, end)
    <2>1. ASSUME ~(first <= end) PROVE \A r : Kept(r, first, end) = {}
        BY <2>1 DEF Kept
    <2>2. DOMAIN InOrder({}) = {}
        BY InOrderFew
    <2>3. QED
        BY <2>1, <2>2 DEF TextOf
<1> DEFINE t == Append(s, c)
           m == end - first
           T == {d \in 0..m : TextOf(t, first, first + d) = TextOf(s, first, first + d)}
<1>1. m \in Nat /\ first + 0 = first /\ first + m = end /\ first \in Int /\ Len(s) \in Nat
    BY LenProperties
<1>2. 0 \in T
    <2>1. TextOf(t, first, first) = TextOf(s, first, first)
        BY <1>1, TextStarts
    <2> HIDE DEF t
    <2>2. QED
        BY <1>1, <2>1
<1>3. \A d \in 0..m - 1 : d \in T => d + 1 \in T
    <2> SUFFICES ASSUME NEW d \in 0..m - 1, TextOf(t, first, first + d) = TextOf(s, first, first + d)
                 PROVE  d + 1 \in T
        OBVIOUS
    <2> DEFINE e == first + d
    <2>1. e \in Int /\ first <= e /\ first + (d + 1) = e + 1 /\ d + 1 \in 0..m /\ e \in 1..Len(s)
        BY <1>1
    <2> HIDE DEF e, m
    <2>2. (KeptAt(t, e) <=> KeptAt(s, e)) /\ CharAt(t, first, e) = CharAt(s, first, e)
        BY <2>1, AtStable
    <2>3. /\ TextOf(t, first, e + 1) = IF KeptAt(t, e) THEN Append(TextOf(t, first, e), CharAt(t, first, e))
                                                      ELSE TextOf(t, first, e)
          /\ TextOf(s, first, e + 1) = IF KeptAt(s, e) THEN Append(TextOf(s, first, e), CharAt(s, first, e))
                                                      ELSE TextOf(s, first, e)
        BY <1>1, <2>1, TextGrows
    <2> HIDE DEF t
    <2>4. TextOf(t, first, e + 1) = TextOf(s, first, e + 1)
        BY <2>2, <2>3 DEF e
    <2>5. QED
        BY <2>1, <2>4
<1> HIDE DEF T
<1>4. 0..m \subseteq T
    BY <1>1, <1>2, <1>3, InductTo
<1>5. m \in T
    <2> HIDE DEF m
    <2>1. QED
        BY <1>1, <1>4
<1> HIDE DEF t, m
<1>6. TextOf(t, first, first + m) = TextOf(s, first, first + m)
    BY <1>5 DEF T
<1>7. QED
    BY <1>1, <1>6 DEF t

(***************************************************************************)
(* What a turn reads.                                                      *)
(***************************************************************************)
\* Whether a character begins an escape, and whether it becomes one of the
\* token's.
BeginsEscape(l, c) == c = "\\" /\ l.state = "STRLTL" /\ ~l.escaped
InLiteral(l) == l.state = "STRLTL"
Keeps(l, c) == (c \in Blanks => InLiteral(l)) /\ ~BeginsEscape(l, c)

Grows(l, c, m) ==
    LET outside == l.state # "STRLTL" IN
    /\ c = Hash /\ outside => m.ended /\ m.toks = l.toks /\ m.current = l.current
    /\ c \in Delims /\ outside =>
            ~m.ended /\ m.toks = Append(l.toks, TokFromStr(l.current).tok) /\ m.current = <<>>
    /\ c \notin {Hash} \cup Delims \/ ~outside =>
            /\ ~m.ended /\ m.toks = l.toks
            /\ m.current = IF Keeps(l, c) THEN Append(l.current, Spelled(l, c)) ELSE l.current

LEMMA TurnGrows ==
    ASSUME NEW l, ScannerOK(l), NEW c \in Chars, l.err = "ok", ~l.ended,
           NEW m, Turn(l, c, m), m.err = "ok"
    PROVE  Grows(l, c, m)
<1> DEFINE Goes == c \notin {Hash} \cup Delims \/ l.state = "STRLTL"
           Adds(d) == ~m.ended /\ m.toks = l.toks /\ m.current = Append(l.current, d)
<1>1. l \in Scanner /\ l.state \in States /\ c \in TokChars /\ (l.escaped => l.state = "STRLTL")
    BY DEF ScannerOK, Scanner, TokChars
<1>2. ASSUME NEW st \in States, NEW d \in TokChars, m = Push([l EXCEPT !.state = st], d) PROVE Adds(d)
    <2> DEFINE k == [l EXCEPT !.state = st]
    <2>1. k \in Scanner /\ k.current = l.current /\ k.toks = l.toks /\ ~k.ended
        BY <1>1, <1>2 DEF Scanner
    <2> HIDE DEF k
    <2>2. ~Push(k, d).ended /\ Push(k, d).toks = l.toks /\ Push(k, d).current = Append(l.current, d)
        BY <2>1, PushResult
    <2>3. QED
        BY <1>2, <2>2 DEF k
<1>3. ASSUME NEW d \in TokChars, m = Push(l, d) PROVE Adds(d)
    BY <1>1, <1>3, PushResult
<1>4. "SYMBOL" \in States /\ "STRLTL" \in States /\ "ENDED" \in States
    BY DEF States
<1> HIDE DEF Adds
<1>5. ASSUME Adds(Spelled(l, c)), Goes, Keeps(l, c) PROVE Grows(l, c, m)
    BY <1>5 DEF Grows, Adds
<1>6. ASSUME ~m.ended, m.toks = l.toks, m.current = l.current, Goes, ~Keeps(l, c) PROVE Grows(l, c, m)
    BY <1>6 DEF Grows
<1>7. CASE Comments(l, c, m)
    <2>1. c = Hash /\ c \notin Delims /\ l.state # "STRLTL"
        BY <1>7, Different DEF Comments
    <2>2. m.ended /\ m.toks = l.toks /\ m.current = l.current
        BY <1>1, <1>7 DEF Comments, Scanner
    <2>3. QED
        BY <2>1, <2>2 DEF Grows
<1>8. CASE Refuses(l, m)
    <2>1. m.err # "ok"
        BY <1>1, <1>8 DEF Refuses, Refuse, Scanner, FeedErrs
    <2>2. QED
        BY <2>1
<1>9. CASE Skips(l, c, m)
    <2>1. c \in Blanks /\ l.state # "STRLTL" /\ c \notin {Hash} \cup Delims
        BY <1>9, Different DEF Skips
    <2>2. ~m.ended /\ m.toks = l.toks /\ m.current = l.current
        BY <1>1, <1>9 DEF Skips, Scanner
    <2>3. ~Keeps(l, c)
        BY <2>1 DEF Keeps, InLiteral, BeginsEscape
    <2>4. QED
        BY <1>6, <2>1, <2>2, <2>3
<1>10. CASE Completes(l, c, m)
    <2>1. c \in Delims /\ l.state # "STRLTL" /\ l.state # "WAITING" /\ m = Complete(l) /\ c # Hash
        BY <1>10, Different DEF Completes
    <2>2. l.current # <<>>
        BY <2>1, EmptySeq DEF ScannerOK, CurrentOK
    <2>3. CASE \E e \in LexErrs \ {"ok"} : m = Refuse(l, e)
        <3>1. m.err # "ok"
            BY <1>1, <2>3 DEF Refuse, Scanner
        <3>2. QED
            BY <3>1
    <2>4. CASE m = [Start EXCEPT !.toks = Append(l.toks, TokFromStr(l.current).tok)]
        <3>1. ~m.ended /\ m.toks = Append(l.toks, TokFromStr(l.current).tok) /\ m.current = <<>>
            BY <2>4, StartFacts DEF Scanner
        <3>2. QED
            BY <2>1, <3>1 DEF Grows
    <2>5. QED
        BY <1>1, <2>1, <2>2, <2>3, <2>4, CompleteResult
<1>11. CASE Opens(l, c, m)
    <2>1. c = DoubleQuote /\ c \notin {Hash} \cup Delims \cup Blanks \cup {"\\"} /\ l.state = "WAITING"
        BY <1>11, Different DEF Opens
    <2>2. Spelled(l, c) = c /\ Keeps(l, c)
        BY <1>1, <2>1 DEF Spelled, Keeps, InLiteral, BeginsEscape
    <2>3. Adds(c)
        BY <1>1, <1>2, <1>4, <1>11 DEF Opens
    <2>4. QED
        BY <1>5, <2>1, <2>2, <2>3
<1>12. CASE Quotes(l, c, m)
    <2>1. c = DoubleQuote /\ c \notin {"n", "t"} /\ c # "\\" /\ l.state = "STRLTL" /\ m = QuoteInLiteral(l)
        BY <1>12, Different DEF Quotes, DoubleQuote
    <2>2. Spelled(l, c) = c /\ Keeps(l, c)
        BY <2>1 DEF Spelled, Keeps, InLiteral, BeginsEscape
    <2>3. m = Push(IF l.escaped THEN l ELSE [l EXCEPT !.state = "ENDED"], c)
        BY <2>1 DEF QuoteInLiteral, DoubleQuote
    <2>4. CASE l.escaped
        BY <1>1, <1>3, <1>5, <2>1, <2>2, <2>3, <2>4
    <2>5. CASE ~l.escaped
        BY <1>1, <1>2, <1>4, <1>5, <2>1, <2>2, <2>3, <2>5
    <2>6. QED
        BY <2>4, <2>5
<1>13. CASE Slashes(l, c, m)
    <2>1. c = "\\" /\ c \notin Blanks /\ l.state = "STRLTL"
        BY <1>13, Different DEF Slashes
    <2>2. Spelled(l, c) = c /\ (Keeps(l, c) <=> l.escaped)
        BY <2>1 DEF Spelled, Keeps, InLiteral, BeginsEscape
    <2>3. /\ ~m.ended /\ m.toks = l.toks
          /\ m.current = IF l.escaped THEN Append(l.current, c) ELSE l.current
        BY <1>1, <1>13, <2>1 DEF Slashes, BackslashInLiteral, Scanner
    <2>4. QED
        BY <2>1, <2>2, <2>3 DEF Grows
<1>14. CASE SlashStays(l, c, m)
    <2>1. /\ c = "\\" /\ c \notin Blanks /\ l.state # "STRLTL" /\ m = Push(l, c)
          /\ c \notin {Hash} \cup Delims
        BY <1>14, Different DEF SlashStays
    <2>2. Spelled(l, c) = c /\ Keeps(l, c)
        BY <2>1 DEF Spelled, Keeps, InLiteral, BeginsEscape
    <2>3. QED
        BY <1>1, <1>3, <1>5, <2>1, <2>2
<1>15. CASE Begins(l, c, m)
    <2>1. /\ c \notin {DoubleQuote, "\\", Hash} \cup Blanks \cup Delims /\ l.state = "WAITING"
          /\ m = Push([l EXCEPT !.state = "SYMBOL"], c)
        BY <1>15 DEF Begins
    <2>2. Spelled(l, c) = c /\ Keeps(l, c)
        BY <1>1, <2>1 DEF Spelled, Keeps, InLiteral, BeginsEscape
    <2>3. Adds(c)
        BY <1>1, <1>2, <1>4, <2>1
    <2>4. QED
        BY <1>5, <2>1, <2>2, <2>3
<1>16. CASE Extends(l, c, m)
    <2>1. /\ c # "\\" /\ (c \in {Hash} \cup Blanks \cup Delims => l.state = "STRLTL")
        BY <1>16 DEF Extends
    <2>2. Keeps(l, c)
        BY <2>1 DEF Keeps, InLiteral, BeginsEscape
    <2>3. Adds(Spelled(l, c))
        BY <1>3, <1>16 DEF Extends
    <2>4. QED
        BY <1>5, <2>1, <2>2, <2>3
<1>17. QED
    BY <1>7, <1>8, <1>9, <1>10, <1>11, <1>12, <1>13, <1>14, <1>15, <1>16 DEF Turn

(***************************************************************************)
(* The fields of a line that is read.                                      *)
(***************************************************************************)
\* The line stops before character p, at a comment or at its end.
IsStop(s, p) ==
    /\ p \in 1..Len(s) + 1
    /\ \A i \in 1..p - 1 : ~OutAt(s, i, {Hash})
    /\ p <= Len(s) => OutAt(s, p, {Hash})

\* Where fields begin, up to there: after these.
DelimsTo(s, p) == {0} \cup {i \in 1..p - 1 : OutAt(s, i, Delims)}
Starts(s, p) == InOrder(DelimsTo(s, p))
FieldText(s, b, k) == TextOf(s, b[k] + 1, b[k + 1])
FieldTok(s, b, k) == TokFromStr(FieldText(s, b, k)).tok

\* The complete tokens are those of the complete fields, and what is read of
\* a token is the text of the last field.
Split(l, s, p) ==
    LET b == Starts(s, p)
        n == Len(b)
    IN  /\ b \in Seq(DelimsTo(s, p)) /\ n > 0
        /\ l.toks = [k \in 1..n - 1 |-> FieldTok(s, b, k)]
        /\ l.current = TextOf(s, b[n] + 1, p)

SplitUp(l, s) ==
    \E p \in 1..Len(s) + 1 : IsStop(s, p) /\ (l.ended <=> p <= Len(s)) /\ Split(l, s, p)

FieldsOK(l, s) == l.err = "ok" => SplitUp(l, s)

\* An escape is on after a backslash that begins one.
PendingOK(l, s) ==
    l.err = "ok" /\ ~l.ended => (l.escaped <=> Len(s) > 0 /\ EscapeAt(s, Len(s)))

\* Line t is s and one character more, its n-th.
Longer(s, c, t, n) == t = Append(s, c) /\ n = Len(s) + 1

\* A field begins at the character or before it, and before an escape.
Precedes(l, first, n) == first \in 1..n /\ (l.escaped => first < n)

\* What the character just read is: what the scanner takes it for.
LEMMA Here ==
    ASSUME NEW l, l.err = "ok", ~l.ended, NEW s \in Seq(Chars), LineOK(l, s), PendingOK(l, s),
           NEW c \in Chars, NEW t, NEW n, Longer(s, c, t, n)
    PROVE  /\ \A chars : OutAt(t, n, chars) <=> c \in chars /\ ~InLiteral(l)
           /\ EscapeAt(t, n) <=> BeginsEscape(l, c)
           /\ KeptAt(t, n) <=> Keeps(l, c)
           /\ \A first : Precedes(l, first, n) => CharAt(t, first, n) = Spelled(l, c)
<1>1. /\ Len(s) \in Nat /\ n \in Nat \ {0} /\ n - 1 = Len(s) /\ n \in 1..Len(s) + 1
      /\ t[n] = c /\ Len(s) \in 0..Len(s)
    BY AppendProperties, LenProperties DEF Longer
<1>2. Within(t)[n - 1] = Within(s)[Len(s)] /\ Run(t, n) = Run(s, n)
    BY <1>1, WithinStep, RunStep DEF Longer
<1>3. Run(s, n) \in Nat
    <2>1. Run(s, n) \in 0..n - 1
        BY <1>1, RunExists
    <2>2. QED
        BY <1>1, <2>1
<1>4. Run(s, n) % 2 = 0 <=> Run(s, n) % 2 # 1
    BY <1>3
<1>5. /\ l.state = "STRLTL" <=> Within(s)[Len(s)] = TRUE
      /\ l.state = "STRLTL" => (l.escaped <=> Run(s, n) % 2 = 1)
    BY DEF LineOK, Longer
<1>6. Within(s)[Len(s)] \in BOOLEAN
    <2>1. Within(s) \in [0..Len(s) -> BOOLEAN]
        BY WithinIs
    <2>2. QED
        BY <1>1, <2>1
<1>7. \A chars : OutAt(t, n, chars) <=> c \in chars /\ l.state # "STRLTL"
    BY <1>1, <1>2, <1>5, <1>6 DEF OutAt
<1>8. EscapeAt(t, n) <=> c = "\\" /\ l.state = "STRLTL" /\ ~l.escaped
    BY <1>1, <1>2, <1>4, <1>5, <1>6 DEF EscapeAt
<1>9. KeptAt(t, n) <=> Keeps(l, c)
    BY <1>7, <1>8 DEF KeptAt, Keeps, InLiteral, BeginsEscape
<1>10. ASSUME NEW first, Precedes(l, first, n)
       PROVE  CharAt(t, first, n) = Spelled(l, c)
    <2>1. first \in 1..n
        BY <1>10 DEF Precedes
    <2>2. CASE n > first
        <3>1. Len(s) > 0 /\ Len(s) \in 1..Len(s)
            BY <1>1, <2>2, <2>1
        <3>2. EscapeAt(t, n - 1) <=> EscapeAt(s, Len(s))
            BY <1>1, <3>1, AtStable DEF Longer
        <3>3. l.escaped <=> EscapeAt(t, n - 1)
            BY <3>1, <3>2 DEF PendingOK
        <3>4. QED
            BY <1>1, <2>2, <3>3 DEF CharAt, Spelled
    <2>3. CASE ~(n > first)
        <3>1. ~l.escaped
            BY <1>1, <1>10, <2>3, <2>1 DEF Precedes
        <3>2. QED
            BY <1>1, <2>3, <3>1 DEF CharAt, Spelled
    <2>4. QED
        BY <2>2, <2>3
<1>11. QED
    BY <1>7, <1>8, <1>9, <1>10 DEF InLiteral, BeginsEscape

LEMMA PendingKeeps ==
    ASSUME NEW l, ScannerOK(l), NEW s \in Seq(Chars), LineOK(l, s), PendingOK(l, s), NEW c \in Chars
    PROVE  PendingOK(Feed(l, c), Append(s, c))
<1> DEFINE m == Feed(l, c)
           t == Append(s, c)
           n == Len(s) + 1
<1>1. n \in Nat /\ n > 0 /\ Len(t) = n
    BY AppendProperties, LenProperties
<1>2. ScannerOK(m)
    BY FeedKeeps
<1> SUFFICES ASSUME m.err = "ok", ~m.ended PROVE m.escaped <=> EscapeAt(t, n)
    BY <1>1 DEF PendingOK
<1>3. l.err = "ok" /\ ~l.ended
    BY FeedStops
<1>4. Tracks(l, c, m)
    <2>1. l \in Scanner
        BY DEF ScannerOK
    <2>2. Turn(l, c, m)
        BY <1>3, <2>1, FeedTurns
    <2> HIDE DEF m
    <2>3. QED
        BY <1>3, <2>2, TurnTracks
<1>5. EscapeAt(t, n) <=> BeginsEscape(l, c)
    <2>1. Longer(s, c, t, n)
        BY DEF Longer
    <2> HIDE DEF t, n, m
    <2>2. QED
        BY <1>3, <2>1, Here
<1>6. m.escaped => m.state = "STRLTL"
    BY <1>2 DEF ScannerOK
<1> HIDE DEF m, t, n
<1>7. CASE c = "\\"
    <2>1. m.state = "STRLTL" <=> l.state = "STRLTL"
        BY <1>4, <1>7, Different DEF Tracks
    <2>2. QED
        BY <1>4, <1>5, <1>6, <1>7, <2>1 DEF Tracks, BeginsEscape
<1>8. CASE c # "\\"
    BY <1>4, <1>5, <1>8 DEF Tracks, BeginsEscape
<1>9. QED
    BY <1>7, <1>8

LEMMA StartsFacts ==
    ASSUME NEW s, NEW p \in Nat \ {0}
    PROVE  /\ DelimsTo(s, p) \subseteq 0..p - 1 /\ IsFiniteSet(DelimsTo(s, p))
           /\ Lists(Starts(s, p), Cardinality(DelimsTo(s, p)))
<1>1. DelimsTo(s, p) \subseteq 0..p - 1
    BY DEF DelimsTo
<1>2. IsFiniteSet(0..p - 1)
    BY FS_Interval
<1>3. IsFiniteSet(DelimsTo(s, p))
    BY <1>1, <1>2, FS_Subset
<1>4. QED
    BY <1>1, <1>3, InOrderIs DEF Starts

LEMMA SplitStable ==
    ASSUME NEW l, NEW s \in Seq(Chars), NEW p \in 1..Len(s) + 1, Split(l, s, p), NEW c \in Chars,
           NEW m, m.toks = l.toks, m.current = l.current
    PROVE  Split(m, Append(s, c), p)
<1> DEFINE t == Append(s, c)
           b == Starts(s, p)
           n == Len(b)
<1>1. Len(s) \in Nat /\ p \in Nat \ {0} /\ \A i \in 1..p - 1 : i \in 1..Len(s)
    BY LenProperties
<1>2. DelimsTo(t, p) = DelimsTo(s, p)
    <2>1. \A i \in 1..p - 1 : OutAt(t, i, Delims) <=> OutAt(s, i, Delims)
        BY <1>1, AtStable
    <2> HIDE DEF t
    <2>2. QED
        BY <2>1 DEF DelimsTo
<1>3. Starts(t, p) = b
    BY <1>2 DEF Starts
<1>4. /\ b \in Seq(DelimsTo(s, p)) /\ n > 0
      /\ l.toks = [k \in 1..n - 1 |-> FieldTok(s, b, k)]
      /\ l.current = TextOf(s, b[n] + 1, p)
    BY DEF Split
<1>5. n \in Nat
    BY <1>4, LenProperties
<1>6. DelimsTo(s, p) \subseteq 0..p - 1
    BY <1>1, StartsFacts
<1> HIDE DEF b
<1>7. ASSUME NEW k \in 1..n PROVE b[k] \in 0..p - 1
    BY <1>4, <1>6, ElementOfSeq
<1>8. ASSUME NEW k \in 1..n, NEW end \in 0..p PROVE TextOf(t, b[k] + 1, end) = TextOf(s, b[k] + 1, end)
    <2>1. b[k] + 1 \in Nat \ {0} /\ end \in Int /\ end <= Len(s) + 1
        BY <1>1, <1>7
    <2>2. QED
        BY <2>1, TextStable
<1> HIDE DEF t, n
<1>9. ASSUME NEW k \in 1..n - 1 PROVE FieldTok(t, b, k) = FieldTok(s, b, k)
    <2>1. k \in 1..n /\ k + 1 \in 1..n
        BY <1>5
    <2>2. b[k + 1] \in 0..p
        BY <1>1, <1>7, <2>1
    <2>3. QED
        BY <1>8, <2>1, <2>2 DEF FieldTok, FieldText
<1>10. TextOf(t, b[n] + 1, p) = TextOf(s, b[n] + 1, p)
    <2>1. n \in 1..n /\ p \in 0..p
        BY <1>1, <1>4, <1>5
    <2>2. QED
        BY <1>8, <2>1
<1>11. m.toks = [k \in 1..n - 1 |-> FieldTok(t, b, k)]
    BY <1>4, <1>9
<1>12. Split(m, t, p)
    BY <1>2, <1>3, <1>4, <1>10, <1>11 DEF Split, n
<1>13. QED
    BY <1>12 DEF t

\* A delimiter ends a field.
LEMMA SplitDelim ==
    ASSUME NEW l, NEW t, NEW n \in Nat \ {0}, Split(l, t, n), OutAt(t, n, Delims),
           NEW m, m.toks = Append(l.toks, TokFromStr(l.current).tok), m.current = <<>>
    PROVE  Split(m, t, n + 1)
<1> DEFINE D == DelimsTo(t, n)
           b == Starts(t, n)
           j == Len(b)
           a == Starts(t, n + 1)
<1>1. DelimsTo(t, n + 1) = D \cup {n}
    BY DEF DelimsTo
<1>2. D \subseteq 0..n - 1 /\ IsFiniteSet(D) /\ Lists(b, Cardinality(D))
    BY StartsFacts
<1>3. D \subseteq Int /\ \A i \in D : i < n
    BY <1>2
<1>4. /\ b \in Seq(D) /\ j > 0
      /\ l.toks = [k \in 1..j - 1 |-> FieldTok(t, b, k)]
      /\ l.current = TextOf(t, b[j] + 1, n)
    BY DEF Split
<1>5. j \in Nat
    BY <1>4, LenProperties
<1>6. a = Append(b, n)
    <2> HIDE DEF D
    <2>1. n \in Int /\ IsFiniteSet(D)
        BY <1>2
    <2>2. InOrder(D \cup {n}) = Append(InOrder(D), n)
        BY <1>3, <2>1, InOrderGrows
    <2>3. QED
        BY <1>1, <2>2 DEF Starts, D
<1> HIDE DEF a, b, D
<1>7. /\ a \in Seq(D \cup {n}) /\ Len(a) = j + 1 /\ a[j + 1] = n
      /\ \A k \in 1..j : a[k] = b[k]
    <2>1. b \in Seq(D \cup {n})
        BY <1>4, SeqMonotonic
    <2>2. QED
        BY <1>6, <2>1, AppendProperties
<1> HIDE DEF j
<1>8. ASSUME NEW k \in 1..j - 1 PROVE FieldTok(t, a, k) = FieldTok(t, b, k)
    <2>1. k \in 1..j /\ k + 1 \in 1..j
        BY <1>5
    <2>2. QED
        BY <1>7, <2>1 DEF FieldTok, FieldText
<1>9. FieldTok(t, a, j) = TokFromStr(l.current).tok
    <2>1. j \in 1..j
        BY <1>4, <1>5
    <2>2. QED
        BY <1>4, <1>7, <2>1 DEF FieldTok, FieldText
<1>10. m.toks = [k \in 1..j |-> FieldTok(t, a, k)]
    <2> DEFINE x == TokFromStr(l.current).tok
               q == j - 1
    <2>1. q \in Nat /\ q + 1 = j
        BY <1>4, <1>5
    <2>2. Lists(l.toks, q)
        BY <1>4, <2>1 DEF Lists
    <2> HIDE DEF x, q
    <2>3. Append(l.toks, x) = [k \in 1..q + 1 |-> IF k = q + 1 THEN x ELSE l.toks[k]]
        BY <2>2, ListAppend
    <2>4. ASSUME NEW k \in 1..j PROVE FieldTok(t, a, k) = IF k = j THEN x ELSE l.toks[k]
        <3>1. CASE k = j
            BY <1>9, <3>1 DEF x
        <3>2. CASE k # j
            <4>1. k \in 1..j - 1
                BY <1>5, <3>2
            <4>2. QED
                BY <1>4, <1>8, <3>2, <4>1
        <3>3. QED
            BY <3>1, <3>2
    <2>5. QED
        BY <2>1, <2>3, <2>4 DEF x
<1>11. TextOf(t, n + 1, n + 1) = <<>>
    BY TextStarts
<1>12. Len(a) - 1 = j /\ Len(a) > 0
    BY <1>5, <1>7
<1>13. m.current = TextOf(t, a[Len(a)] + 1, n + 1)
    BY <1>7, <1>11
<1>14. a \in Seq(DelimsTo(t, n + 1)) /\ a = Starts(t, n + 1)
    BY <1>1, <1>7 DEF a, D
<1>15. QED
    BY <1>10, <1>12, <1>13, <1>14 DEF Split

\* Every other character belongs to the last field.
LEMMA SplitMore ==
    ASSUME NEW l, NEW t, NEW n \in Nat \ {0}, Split(l, t, n), ~OutAt(t, n, Delims), NEW x,
           NEW b, b = Starts(t, n), CharAt(t, b[Len(b)] + 1, n) = x,
           NEW m, m.toks = l.toks, m.current = IF KeptAt(t, n) THEN Append(l.current, x) ELSE l.current
    PROVE  Split(m, t, n + 1)
<1> DEFINE j == Len(b)
<1>1. DelimsTo(t, n + 1) = DelimsTo(t, n)
    <2>1. \A i \in 1..n + 1 - 1 : i # n => i \in 1..n - 1
        OBVIOUS
    <2>2. \A i \in 1..n - 1 : i \in 1..n + 1 - 1
        OBVIOUS
    <2>3. {i \in 1..n + 1 - 1 : OutAt(t, i, Delims)} = {i \in 1..n - 1 : OutAt(t, i, Delims)}
        BY <2>1, <2>2
    <2>4. QED
        BY <2>3 DEF DelimsTo
<1>2. Starts(t, n + 1) = b
    BY <1>1 DEF Starts
<1>3. /\ b \in Seq(DelimsTo(t, n)) /\ j > 0
      /\ l.toks = [k \in 1..j - 1 |-> FieldTok(t, b, k)]
      /\ l.current = TextOf(t, b[j] + 1, n)
    BY DEF Split
<1>4. b[j] + 1 \in Int /\ b[j] + 1 <= n
    <2>1. j \in 1..j
        BY <1>3, LenProperties
    <2>2. b[j] \in DelimsTo(t, n)
        BY <1>3, <2>1, ElementOfSeq
    <2>3. DelimsTo(t, n) \subseteq 0..n - 1
        BY StartsFacts
    <2>4. QED
        BY <2>2, <2>3
<1>5. TextOf(t, b[j] + 1, n + 1) = IF KeptAt(t, n) THEN Append(TextOf(t, b[j] + 1, n), CharAt(t, b[j] + 1, n))
                                                 ELSE TextOf(t, b[j] + 1, n)
    BY <1>4, TextGrows
<1>6. m.current = TextOf(t, b[j] + 1, n + 1)
    BY <1>3, <1>5
<1>7. QED
    BY <1>1, <1>2, <1>3, <1>6 DEF Split

LEMMA SplitKeeps ==
    ASSUME NEW l, ScannerOK(l), l.err = "ok", ~l.ended, NEW s \in Seq(Chars), LineOK(l, s), PendingOK(l, s),
           NEW c \in Chars, NEW t, NEW n, Longer(s, c, t, n), IsStop(s, n), Split(l, s, n),
           NEW m, Grows(l, c, m)
    PROVE  SplitUp(m, t)
<1> DEFINE b == Starts(t, n)
           first == b[Len(b)] + 1
           q == n + 1
<1>1. /\ Len(s) \in Nat /\ n \in Nat \ {0} /\ Len(t) = n /\ n \in 1..Len(s) + 1 /\ n - 1 = Len(s)
      /\ n \in 1..n + 1 /\ n <= n /\ q \in 1..n + 1 /\ ~(q <= n) /\ q - 1 = n
    BY AppendProperties, LenProperties DEF Longer
<1> HIDE DEF b, first, q
<1>2. /\ \A chars : OutAt(t, n, chars) <=> c \in chars /\ ~InLiteral(l)
      /\ KeptAt(t, n) <=> Keeps(l, c)
      /\ \A f : Precedes(l, f, n) => CharAt(t, f, n) = Spelled(l, c)
    <2>1. ASSUME NEW chars PROVE OutAt(t, n, chars) <=> c \in chars /\ ~InLiteral(l)
        BY Here
    <2>2. KeptAt(t, n) <=> Keeps(l, c)
        BY Here
    <2>3. ASSUME NEW f, Precedes(l, f, n) PROVE CharAt(t, f, n) = Spelled(l, c)
        BY <2>3, Here
    <2>4. QED
        BY <2>1, <2>2, <2>3
<1>3. \A i \in 1..n - 1 : ~OutAt(t, i, {Hash})
    <2>1. \A i \in 1..n - 1 : ~OutAt(s, i, {Hash})
        BY DEF IsStop
    <2>2. \A i \in 1..n - 1 : OutAt(t, i, {Hash}) <=> OutAt(s, i, {Hash})
        BY <1>1, AtStable DEF Longer
    <2>3. QED
        BY <2>1, <2>2
<1>4. \A k : k.toks = l.toks /\ k.current = l.current => Split(k, t, n)
    BY <1>1, SplitStable DEF Longer
<1>5. Split(l, t, n)
    BY <1>4
<1>6. CASE c = Hash /\ ~InLiteral(l)
    <2>1. m.ended /\ m.toks = l.toks /\ m.current = l.current
        BY <1>6 DEF Grows, InLiteral
    <2>2. IsStop(t, n)
        BY <1>1, <1>2, <1>3, <1>6 DEF IsStop
    <2>3. QED
        BY <1>1, <1>4, <2>1, <2>2 DEF SplitUp
<1>7. CASE c # Hash \/ InLiteral(l)
    <2>1. IsStop(t, q)
        <3>1. ~OutAt(t, n, {Hash})
            BY <1>2, <1>7
        <3>2. \A i \in 1..q - 1 : i = n \/ i \in 1..n - 1
            BY <1>1
        <3>3. QED
            BY <1>1, <1>3, <3>1, <3>2 DEF IsStop
    <2>2. ~m.ended /\ Split(m, t, q)
        <3>1. CASE c \in Delims /\ ~InLiteral(l)
            <4>1. ~m.ended /\ m.toks = Append(l.toks, TokFromStr(l.current).tok) /\ m.current = <<>>
                BY <3>1 DEF Grows, InLiteral
            <4>2. OutAt(t, n, Delims)
                BY <1>2, <3>1
            <4>3. Split(m, t, n + 1)
                BY <1>1, <1>5, <4>1, <4>2, SplitDelim
            <4>4. QED
                BY <4>1, <4>3 DEF q
        <3>2. CASE ~(c \in Delims /\ ~InLiteral(l))
            <4>1. /\ ~m.ended /\ m.toks = l.toks
                  /\ m.current = IF Keeps(l, c) THEN Append(l.current, Spelled(l, c)) ELSE l.current
                BY <1>7, <3>2 DEF Grows, InLiteral
            <4>2. ~OutAt(t, n, Delims)
                BY <1>2, <3>2
            <4>3. Precedes(l, first, n)
                <5>1. b \in Seq(DelimsTo(t, n)) /\ Len(b) > 0
                    BY <1>5 DEF Split, b
                <5>2. Len(b) \in 1..Len(b)
                    BY <5>1, LenProperties
                <5>3. b[Len(b)] \in DelimsTo(t, n) /\ DelimsTo(t, n) \subseteq 0..n - 1
                    BY <1>1, <5>1, <5>2, ElementOfSeq, StartsFacts
                <5>4. b[Len(b)] \in 0..n - 1
                    BY <5>3
                <5>5. ASSUME l.escaped PROVE b[Len(b)] # n - 1
                    <6>1. Len(s) > 0 /\ EscapeAt(s, n - 1)
                        BY <1>1, <5>5 DEF PendingOK
                    <6>2. n - 1 # 0 /\ n - 1 \in 1..Len(s)
                        BY <1>1, <6>1
                    <6>3. EscapeAt(t, n - 1)
                        BY <6>1, <6>2, AtStable DEF Longer
                    <6>4. t[n - 1] = "\\"
                        BY <6>3 DEF EscapeAt
                    <6>5. ~OutAt(t, n - 1, Delims)
                        BY <6>4, Different DEF OutAt
                    <6>6. QED
                        BY <5>3, <6>2, <6>5 DEF DelimsTo
                <5>6. QED
                    BY <1>1, <5>4, <5>5 DEF first, Precedes
            <4>4. CharAt(t, first, n) = Spelled(l, c)
                BY <1>2, <4>3
            <4>5. m.current = IF KeptAt(t, n) THEN Append(l.current, Spelled(l, c)) ELSE l.current
                BY <1>2, <4>1
            <4>6. Split(m, t, n + 1)
                BY <1>1, <1>5, <4>1, <4>2, <4>4, <4>5, SplitMore DEF b, first
            <4>7. QED
                BY <4>1, <4>6 DEF q
        <3>3. QED
            BY <3>1, <3>2
    <2>3. QED
        BY <1>1, <2>1, <2>2 DEF SplitUp
<1>8. QED
    BY <1>6, <1>7

LEMMA FieldsKeep ==
    ASSUME NEW l, ScannerOK(l), NEW s \in Seq(Chars), LineOK(l, s), PendingOK(l, s), FieldsOK(l, s),
           NEW c \in Chars
    PROVE  FieldsOK(Feed(l, c), Append(s, c))
<1> DEFINE m == Feed(l, c)
           t == Append(s, c)
<1>1. Len(s) \in Nat /\ Len(t) = Len(s) + 1 /\ t = Append(s, c)
    BY AppendProperties, LenProperties
<1> SUFFICES ASSUME m.err = "ok"
             PROVE  SplitUp(m, t)
    BY DEF FieldsOK
<1>2. l.err = "ok"
    BY FeedStops
<1>3. PICK p \in 1..Len(s) + 1 : IsStop(s, p) /\ (l.ended <=> p <= Len(s)) /\ Split(l, s, p)
    BY <1>2 DEF FieldsOK, SplitUp
<1>4. CASE l.ended
    <2>1. m = l
        BY <1>4, FeedStops
    <2> HIDE DEF m, t
    <2>2. p \in 1..Len(s) /\ p \in 1..Len(t) + 1 /\ p <= Len(t) /\ \A i \in 1..p : i \in 1..Len(s)
        BY <1>1, <1>3, <1>4
    <2>3. \A i \in 1..p : OutAt(t, i, {Hash}) <=> OutAt(s, i, {Hash})
        BY <1>1, <2>2, AtStable
    <2>4. IsStop(t, p)
        <3>1. \A i \in 1..p - 1 : i \in 1..p
            BY <2>2
        <3>2. p \in 1..p /\ p <= Len(s)
            BY <2>2
        <3>3. QED
            BY <1>3, <2>2, <2>3, <3>1, <3>2 DEF IsStop
    <2>5. Split(m, t, p)
        BY <1>1, <1>3, <2>1, SplitStable
    <2>6. QED
        BY <1>4, <2>1, <2>2, <2>4, <2>5 DEF SplitUp
<1>5. CASE ~l.ended
    <2>1. p = Len(s) + 1 /\ IsStop(s, p) /\ Split(l, s, p)
        BY <1>1, <1>3, <1>5
    <2>2. Grows(l, c, m)
        <3>1. l \in Scanner
            BY DEF ScannerOK
        <3>2. Turn(l, c, m)
            BY <1>2, <1>5, <3>1, FeedTurns
        <3> HIDE DEF m
        <3>3. QED
            BY <1>2, <1>5, <3>2, TurnGrows
    <2> HIDE DEF m, t
    <2>3. Longer(s, c, t, p)
        BY <1>1, <2>1 DEF Longer
    <2>4. QED
        BY <1>2, <1>5, <2>1, <2>2, <2>3, SplitKeeps
<1>6. QED
    BY <1>4, <1>5

(***************************************************************************)
(* The line as its readers see it.                                         *)
(***************************************************************************)
LEMMA StopIs ==
    ASSUME line \in Seq(Chars), NEW p, IsStop(line, p)
    PROVE  Stop = p
<1> DEFINE H == Outside({"#"})
<1>1. Len(line) \in Nat /\ DOMAIN line = 1..Len(line)
    BY LenProperties
<1>2. \A i : i \in H <=> i \in 1..Len(line) /\ OutAt(line, i, {Hash})
    BY <1>1, LookBack DEF Outside, OutAt, Hash
<1>3. Stop = IF H = {} THEN Len(line) + 1 ELSE First(H)
    BY DEF Stop
<1> HIDE DEF H
<1>4. p \in 1..Len(line) + 1 /\ \A i \in H : i \in 1..Len(line) /\ ~(i \in 1..p - 1)
    BY <1>2 DEF IsStop
<1>5. CASE p <= Len(line)
    <2>1. p \in 1..Len(line)
        BY <1>1, <1>4, <1>5
    <2>2. p \in H
        BY <1>2, <1>5, <2>1 DEF IsStop
    <2>3. \A i \in H : i \in Int /\ p <= i
        BY <1>1, <1>4
    <2>4. First(H) \in H /\ \A i \in H : First(H) <= i
        BY <2>2, <2>3 DEF First
    <2>5. First(H) = p
        <3>1. First(H) \in Int /\ p <= First(H) /\ First(H) <= p /\ p \in Int
            BY <2>1, <2>2, <2>3, <2>4
        <3>2. QED
            BY <3>1
    <2>6. QED
        BY <1>3, <2>2, <2>5
<1>6. CASE ~(p <= Len(line))
    <2>1. p = Len(line) + 1
        BY <1>1, <1>4, <1>6
    <2>2. H = {}
        BY <1>1, <1>4, <2>1
    <2>3. QED
        BY <1>3, <2>1, <2>2
<1>7. QED
    BY <1>5, <1>6

LEMMA FieldsAre ==
    ASSUME line \in Seq(Chars), NEW p, IsStop(line, p), NEW b, b = Starts(line, p),
           NEW n, n = Len(b), b \in Seq(DelimsTo(line, p)), n > 0,
           NEW current, current = TextOf(line, b[n] + 1, p)
    PROVE  /\ current # <<>> => Fields = [k \in 1..n |-> IF k = n THEN current ELSE FieldText(line, b, k)]
           /\ current = <<>> => Fields = [k \in 1..n - 1 |-> FieldText(line, b, k)]
<1> DEFINE delims == {i \in Outside(Delims) : i < Stop}
           D == DelimsTo(line, p)
           a == InOrder(delims \cup {0, Stop})
           fields == [k \in 1..Len(a) - 1 |-> Text(a[k] + 1, a[k + 1])]
           g == [k \in 1..n |-> IF k = n THEN current ELSE FieldText(line, b, k)]
<1>1. Len(line) \in Nat /\ DOMAIN line = 1..Len(line) /\ p \in 1..Len(line) + 1
    BY LenProperties DEF IsStop
<1>2. Stop = p
    BY StopIs
<1>3. p \in Nat \ {0} /\ p \in Int /\ n \in Nat
    BY <1>1, LenProperties
<1>4. D \subseteq 0..p - 1 /\ IsFiniteSet(D) /\ InOrder(D) = b
    BY <1>3, StartsFacts DEF Starts
<1>5. delims \cup {0, Stop} = D \cup {p}
    <2>1. \A i \in 1..Len(line) : i < p <=> i \in 1..p - 1
        BY <1>1
    <2>2. \A i \in 1..p - 1 : i \in 1..Len(line)
        BY <1>1
    <2>3. \A i : i \in Outside(Delims) <=> i \in 1..Len(line) /\ OutAt(line, i, Delims)
        BY <1>1, LookBack DEF Outside, OutAt
    <2>4. \A i : i \in delims <=> i \in 1..p - 1 /\ OutAt(line, i, Delims)
        BY <1>2, <2>1, <2>2, <2>3
    <2> HIDE DEF delims
    <2>5. \A i : i \in D <=> i = 0 \/ i \in delims
        BY <2>4 DEF DelimsTo
    <2> HIDE DEF D
    <2>6. QED
        BY <1>2, <2>5
<1>6. Fields = IF Last(fields) = <<>> THEN Front(fields) ELSE fields
    BY DEF Fields, Delims
<1>7. a = Append(b, p)
    <2> HIDE DEF D
    <2>1. D \subseteq Int /\ \A i \in D : i < p
        BY <1>3, <1>4
    <2>2. InOrder(D \cup {p}) = Append(InOrder(D), p)
        BY <1>3, <1>4, <2>1, InOrderGrows
    <2>3. QED
        BY <1>4, <1>5, <2>2
<1> HIDE DEF a, D, delims
<1>8. Len(a) = n + 1 /\ a[n + 1] = p /\ \A k \in 1..n : a[k] = b[k]
    <2>1. b \in Seq(D \cup {p})
        BY SeqMonotonic DEF D
    <2>2. QED
        BY <1>7, <2>1, AppendProperties
<1>9. ASSUME NEW k \in 1..n PROVE b[k] \in 0..p - 1
    BY <1>4, ElementOfSeq DEF D
<1>10. fields = g
    <2>1. Len(a) - 1 = n
        BY <1>3, <1>8
    <2>2. ASSUME NEW k \in 1..n
          PROVE  Text(a[k] + 1, a[k + 1]) = IF k = n THEN current ELSE FieldText(line, b, k)
        <3>1. CASE k = n
            <4>1. a[k] = b[n] /\ a[k + 1] = p /\ b[n] + 1 \in Nat \ {0} /\ p <= Len(line) + 1
                BY <1>1, <1>8, <1>9, <3>1
            <4>2. Text(b[n] + 1, p) = TextOf(line, b[n] + 1, p)
                BY <1>3, <4>1, TextIs
            <4>3. QED
                BY <3>1, <4>1, <4>2
        <3>2. CASE k # n
            <4>1. k + 1 \in 1..n
                BY <1>3, <3>2
            <4>2. a[k] = b[k] /\ a[k + 1] = b[k + 1]
                BY <1>8, <4>1
            <4>3. b[k] \in 0..p - 1 /\ b[k + 1] \in 0..p - 1
                BY <1>9, <4>1
            <4>4. b[k] + 1 \in Nat \ {0} /\ b[k + 1] \in Int /\ b[k + 1] <= Len(line) + 1
                BY <1>1, <4>3
            <4>5. Text(b[k] + 1, b[k + 1]) = FieldText(line, b, k)
                BY <4>4, TextIs DEF FieldText
            <4>6. QED
                BY <3>2, <4>2, <4>5
        <3>3. QED
            BY <3>1, <3>2
    <2>3. QED
        BY <2>1, <2>2
<1> HIDE DEF fields
<1>11. Last(g) = current /\ Front(g) = [k \in 1..n - 1 |-> FieldText(line, b, k)]
    <2> DEFINE S == {g[k] : k \in 1..n}
               h == [k \in 1..n - 1 |-> FieldText(line, b, k)]
    <2>1. n \in 1..n /\ n - 1 \in Nat /\ n - 1 <= n
        BY <1>3
    <2>2. Lists(g, n) /\ Lists(h, n - 1)
        BY <1>3, <2>1 DEF Lists
    <2>3. g[n] = current
        BY <2>1
    <2>4. ASSUME NEW k \in 1..n - 1 PROVE k \in 1..n /\ h[k] = g[k]
        <3>1. k \in 1..n /\ k # n
            BY <1>3
        <3>2. QED
            BY <3>1
    <2>5. \A k \in 1..n : g[k] \in S
        OBVIOUS
    <2> HIDE DEF g, h, S
    <2>6. g \in Seq(S) /\ Len(g) = n
        BY <2>2, <2>5, ListSeq
    <2>7. h \in Seq(S) /\ Len(h) = n - 1
        BY <2>2, <2>4, <2>5, ListSeq
    <2>8. Front(g) = SubSeq(g, 1, n - 1) /\ Last(g) = g[n]
        BY <2>6 DEF Front, Last
    <2>9. /\ SubSeq(g, 1, n - 1) \in Seq(S) /\ Len(SubSeq(g, 1, n - 1)) = n - 1
          /\ \A k \in 1..n - 1 : SubSeq(g, 1, n - 1)[k] = g[k]
        <3> DEFINE m == n - 1
        <3>1. m \in Nat /\ 1 \in Int /\ m \in Int /\ m - 1 + 1 = m
            BY <2>1
        <3>2. \A k \in 1..m : g[k] \in S /\ 1 + k - 1 = k
            BY <2>4, <2>5
        <3> HIDE DEF m
        <3>3. /\ SubSeq(g, 1, m) \in Seq(S) /\ Len(SubSeq(g, 1, m)) = IF 1 <= m THEN m - 1 + 1 ELSE 0
              /\ \A k \in 1..m - 1 + 1 : SubSeq(g, 1, m)[k] = g[1 + k - 1]
            BY <3>1, <3>2, SubSeqProperties
        <3>4. Len(SubSeq(g, 1, m)) = m
            BY <3>1, <3>3
        <3>5. \A k \in 1..m : SubSeq(g, 1, m)[k] = g[k]
            BY <3>1, <3>2, <3>3
        <3>6. QED
            BY <3>3, <3>4, <3>5 DEF m
    <2>10. SubSeq(g, 1, n - 1) = h
        BY <2>4, <2>7, <2>9, SeqEqual
    <2>11. QED
        BY <2>3, <2>8, <2>10 DEF h
<1> HIDE DEF g
<1>12. QED
    BY <1>6, <1>10, <1>11 DEF g

(***************************************************************************)
(* Theorems.                                                               *)
(***************************************************************************)
LexInv ==
    /\ line \in Seq(Chars)
    /\ ScannerOK(lex)
    /\ LineOK(lex, line)
    /\ PendingOK(lex, line)
    /\ FieldsOK(lex, line)

LEMMA LexInitHolds == ASSUME Init PROVE LexInv
<1>1. line = <<>> /\ lex = Start
    BY DEF Init
<1>2. line \in Seq(Chars) /\ Len(line) = 0
    BY <1>1, EmptySeq
<1>3. Len(<<>>) = 0 /\ <<>> # Quote
    BY EmptySeq, QuoteFacts
<1>4. ScannerOK(lex)
    BY <1>1, <1>3, StartFacts DEF ScannerOK, CurrentOK
<1>5. Within(line)[0] = FALSE
    BY <1>2, WithinIs
<1>6. LineOK(lex, line)
    BY <1>1, <1>2, <1>5, StartFacts DEF LineOK
<1>7. PendingOK(lex, line)
    BY <1>1, <1>2, StartFacts DEF PendingOK
<1>8. IsStop(line, 1) /\ 1 \in 1..Len(line) + 1 /\ ~(1 <= Len(line))
    BY <1>2 DEF IsStop
<1>9. Split(lex, line, 1)
    <2> DEFINE b == Starts(line, 1)
    <2>1. DelimsTo(line, 1) = {0}
        BY DEF DelimsTo
    <2>2. b = <<0>>
        BY <2>1, InOrderFew DEF Starts
    <2>3. <<0>> \in Seq({0}) /\ Len(<<0>>) = 1 /\ <<0>>[1] = 0
        BY OneElement
    <2>4. TextOf(line, 1, 1) = <<>>
        BY TextStarts
    <2> HIDE DEF b
    <2>5. b \in Seq(DelimsTo(line, 1)) /\ Len(b) = 1 /\ b[1] + 1 = 1
        BY <2>1, <2>2, <2>3
    <2>6. lex.toks = [k \in 1..Len(b) - 1 |-> FieldTok(line, b, k)]
        <3>1. lex.toks = <<>> /\ 1..Len(b) - 1 = {}
            BY <1>1, <2>5, StartFacts
        <3>2. \A g : [k \in {} |-> g[k]] = <<>>
            OBVIOUS
        <3>3. QED
            BY <3>1, <3>2
    <2>7. lex.current = TextOf(line, b[Len(b)] + 1, 1)
        BY <1>1, <2>4, <2>5, StartFacts
    <2>8. QED
        BY <2>5, <2>6, <2>7 DEF Split, b
<1>10. FieldsOK(lex, line)
    BY <1>1, <1>8, <1>9, StartFacts DEF FieldsOK, SplitUp
<1>11. QED
    BY <1>2, <1>4, <1>6, <1>7, <1>10 DEF LexInv

LEMMA ReadFeeds ==
    ASSUME Next
    PROVE  \E c \in Chars : line' = Append(line, c) /\ lex' = Feed(lex, c)
BY DEF Next, Read

LEMMA LexNextKeeps == ASSUME LexInv, [Next]_vars PROVE LexInv'
<1>1. CASE Next
    <2>1. PICK c \in Chars : line' = Append(line, c) /\ lex' = Feed(lex, c)
        BY <1>1, ReadFeeds
    <2>2. Append(line, c) \in Seq(Chars)
        BY AppendProperties DEF LexInv
    <2>3. ScannerOK(Feed(lex, c)) /\ LineOK(Feed(lex, c), Append(line, c))
        BY FeedKeeps, LineKeeps DEF LexInv
    <2>4. PendingOK(Feed(lex, c), Append(line, c)) /\ FieldsOK(Feed(lex, c), Append(line, c))
        BY PendingKeeps, FieldsKeep DEF LexInv
    <2>5. QED
        BY <2>1, <2>2, <2>3, <2>4 DEF LexInv
<1>2. CASE UNCHANGED vars
    BY <1>2 DEF vars, LexInv
<1>3. QED
    BY <1>1, <1>2

LEMMA LexInvariant == Spec => []LexInv
<1>1. Init => LexInv
    BY LexInitHolds
<1>2. LexInv /\ [Next]_vars => LexInv'
    BY LexNextKeeps
<1>3. QED
    BY <1>1, <1>2, PTL DEF Spec

LEMMA LexInvType == ASSUME LexInv PROVE TypeOK
<1>1. lex \in Scanner /\ line \in Seq(Chars)
    BY DEF LexInv, ScannerOK
<1>2. lex.state \in {"WAITING", "SYMBOL", "STRLTL", "ENDED"}
    BY <1>1 DEF Scanner, States
<1>3. lex.escaped /\ lex.err = "ok" => lex.state = "STRLTL" /\ Last(line) = "\\"
    BY DEF LexInv, ScannerOK, LineOK, Last
<1>4. lex.state = "WAITING" => ToSet(lex.current) \subseteq {"\\"}
    <2>1. DOMAIN lex.current = 1..Len(lex.current)
        BY <1>1, LenProperties DEF Scanner
    <2>2. lex.state = "WAITING" => \A i \in 1..Len(lex.current) : lex.current[i] = "\\"
        BY DEF LexInv, ScannerOK, CurrentOK
    <2>3. QED
        BY <2>1, <2>2 DEF ToSet
<1>5. lex.toks # <<>> => lex.toks[1].t = "Sym"
    BY DEF LexInv, ScannerOK
<1>6. lex.err \in LexErrs
    BY <1>1 DEF Scanner
<1>7. QED
    BY <1>2, <1>3, <1>4, <1>5, <1>6 DEF TypeOK, LexErrs, TokErrs, FeedErrs

\* A scanner that goes on has seen no comment sign outside a literal.
LEMMA NoCommentYet ==
    ASSUME LexInv, lex.err = "ok", ~lex.ended
    PROVE  Outside({"#"}) = {}
<1>1. DOMAIN line = 1..Len(line)
    BY LenProperties DEF LexInv
<1>2. \A i \in 1..Len(line) : line[i] = Hash => Inside[i - 1] = TRUE
    BY LookBack DEF LexInv, LineOK
<1>3. \A i \in DOMAIN line : ~(line[i] = Hash /\ ~Inside[i - 1])
    BY <1>1, <1>2
<1>4. QED
    BY <1>3 DEF Outside, Hash

LEMMA ResultCases ==
    ASSUME LexInv, Result.err = "ok"
    PROVE  /\ lex.err = "ok"
           /\ lex.current = <<>> => Result.toks = lex.toks
           /\ lex.current # <<>> => Result.toks = Append(lex.toks, TokFromStr(lex.current).tok)
<1>1. lex \in Scanner
    BY DEF LexInv, ScannerOK
<1>2. Result.err = (IF lex.err = "ok" THEN Complete(lex) ELSE lex).err
    BY DEF Result, ResultOf
<1>3. lex.err = "ok"
    BY <1>2
<1>4. Result.err = Complete(lex).err /\ Result.toks = Complete(lex).toks
    BY <1>3 DEF Result, ResultOf
<1>5. CASE \E e \in LexErrs \ {"ok"} : Complete(lex) = Refuse(lex, e)
    <2>1. Complete(lex).err # "ok"
        BY <1>1, <1>5 DEF Refuse, Scanner
    <2>2. QED
        BY <1>4, <2>1
<1>6. CASE lex.current = <<>>
    <2>1. Complete(lex) = lex
        BY <1>6 DEF Complete, TokFromStr, Token
    <2>2. QED
        BY <1>3, <1>4, <1>6, <2>1
<1>7. CASE lex.current # <<>> /\ Complete(lex) = [Start EXCEPT !.toks = Append(lex.toks, TokFromStr(lex.current).tok)]
    <2>1. Complete(lex).toks = Append(lex.toks, TokFromStr(lex.current).tok)
        BY <1>7, StartFacts DEF Scanner
    <2>2. QED
        BY <1>3, <1>4, <1>7, <2>1
<1>8. QED
    BY <1>1, <1>3, <1>5, <1>6, <1>7, CompleteResult

LEMMA LexInvWild == ASSUME LexInv PROVE WildOnlyUnterminated
<1> SUFFICES ASSUME Result.err = "ok", NEW k \in DOMAIN Result.toks, Result.toks[k] = Nonsense
             PROVE  Inside[Stop - 1]
    BY DEF WildOnlyUnterminated, Nonsense
<1> DEFINE tok == TokFromStr(lex.current).tok
<1>1. lex \in Scanner /\ lex.current \in Seq(TokChars) /\ lex.toks \in Seq(Toks)
    BY DEF LexInv, ScannerOK, Scanner
<1>2. \A i \in 1..Len(lex.toks) : lex.toks[i] # Nonsense
    BY <1>1, ElementOfSeq, NoNonsense
<1>3. Len(lex.toks) \in Nat /\ DOMAIN lex.toks = 1..Len(lex.toks)
    BY <1>1, LenProperties
<1>4. lex.err = "ok" /\ Result.toks # lex.toks
    BY <1>2, <1>3, ResultCases
<1>5. Result.toks = Append(lex.toks, tok)
    BY <1>4, ResultCases
<1>6. tok = Nonsense
    <2> DEFINE S == Toks \cup {tok}
               n == Len(lex.toks)
               r == Append(lex.toks, tok)
    <2>1. lex.toks \in Seq(S) /\ tok \in S
        BY <1>1
    <2>2. /\ r \in Seq(S) /\ Len(r) = n + 1 /\ r[n + 1] = tok
          /\ \A i \in 1..n : r[i] = lex.toks[i]
        <3> HIDE DEF S, tok
        <3>1. QED
            BY <2>1, AppendProperties
    <2>3. DOMAIN r = 1..n + 1
        <3> HIDE DEF S, r
        <3>1. QED
            BY <2>2, LenProperties
    <2> HIDE DEF r, n, S, tok
    <2>4. k \in 1..n + 1 /\ r[k] = Nonsense
        BY <1>5, <2>3 DEF r
    <2>5. CASE k = n + 1
        BY <2>2, <2>4, <2>5
    <2>6. CASE k # n + 1
        <3>1. k \in 1..n
            BY <1>3, <2>4, <2>6 DEF n
        <3>2. QED
            BY <1>2, <2>2, <2>4, <3>1 DEF n
    <2>7. QED
        BY <2>5, <2>6
<1>7. lex.current = Quote
    BY <1>1, <1>6, TokResult
<1>8. lex.state = "STRLTL" /\ ~lex.ended
    BY <1>7 DEF LexInv, ScannerOK, CurrentOK
<1>9. Outside({"#"}) = {}
    BY <1>4, <1>8, NoCommentYet
<1>10. Stop = Len(line) + 1
    BY <1>9 DEF Stop
<1>11. Len(line) \in Nat
    BY LenProperties DEF LexInv
<1>12. Stop - 1 = Len(line)
    BY <1>10, <1>11
<1>13. Inside[Len(line)] = TRUE
    BY <1>4, <1>8, LookBack DEF LexInv, LineOK
<1>14. QED
    BY <1>12, <1>13

LEMMA LexInvSplits == ASSUME LexInv PROVE SplitsIntoFields
<1> SUFFICES ASSUME Result.err = "ok"
             PROVE  Result.toks = [k \in DOMAIN Fields |-> TokFromStr(Fields[k]).tok]
    BY DEF SplitsIntoFields
<1> DEFINE cur == lex.current
           tok == TokFromStr(cur).tok
<1>1. lex.err = "ok" /\ line \in Seq(Chars)
    BY ResultCases DEF LexInv
<1>2. PICK p \in 1..Len(line) + 1 : IsStop(line, p) /\ Split(lex, line, p)
    BY <1>1 DEF LexInv, FieldsOK, SplitUp
<1> DEFINE b == Starts(line, p)
           n == Len(b)
           text(k) == FieldText(line, b, k)
<1>3. /\ b \in Seq(DelimsTo(line, p)) /\ n > 0 /\ cur = TextOf(line, b[n] + 1, p)
      /\ lex.toks = [k \in 1..n - 1 |-> TokFromStr(text(k)).tok]
    BY <1>2 DEF Split, FieldTok
<1>4. n \in Nat
    BY <1>3, LenProperties
<1>5. /\ cur # <<>> => Fields = [k \in 1..n |-> IF k = n THEN cur ELSE text(k)]
      /\ cur = <<>> => Fields = [k \in 1..n - 1 |-> text(k)]
    BY <1>1, <1>2, <1>3, FieldsAre
<1>6. CASE cur = <<>>
    <2>1. Result.toks = lex.toks
        BY <1>6, ResultCases
    <2> HIDE DEF cur, b, n
    <2>2. Fields = [k \in 1..n - 1 |-> text(k)]
        BY <1>5, <1>6
    <2> HIDE DEF text
    <2>3. DOMAIN Fields = 1..n - 1 /\ \A k \in 1..n - 1 : Fields[k] = text(k)
        BY <2>2
    <2>4. QED
        BY <1>3, <2>1, <2>3
<1>7. CASE cur # <<>>
    <2>1. Result.toks = Append(lex.toks, tok)
        BY <1>7, ResultCases
    <2> HIDE DEF cur, b, n
    <2> DEFINE q == n - 1
    <2>2. q \in Nat /\ q + 1 = n
        BY <1>3, <1>4
    <2> HIDE DEF q, text, tok
    <2>3. lex.toks = [k \in 1..q |-> TokFromStr(text(k)).tok]
        BY <1>3 DEF q
    <2>4. Lists(lex.toks, q) /\ \A k \in 1..q : lex.toks[k] = TokFromStr(text(k)).tok
        BY <2>2, <2>3 DEF Lists
    <2>5. Append(lex.toks, tok) = [k \in 1..q + 1 |-> IF k = q + 1 THEN tok ELSE lex.toks[k]]
        BY <2>4, ListAppend
    <2>6. Fields = [k \in 1..n |-> IF k = n THEN cur ELSE text(k)]
        BY <1>5, <1>7
    <2>7. DOMAIN Fields = 1..n /\ \A k \in 1..n : Fields[k] = IF k = n THEN cur ELSE text(k)
        BY <2>6
    <2>8. ASSUME NEW k \in 1..n
          PROVE  TokFromStr(Fields[k]).tok = IF k = n THEN tok ELSE lex.toks[k]
        <3>1. CASE k = n
            BY <2>7, <3>1 DEF tok
        <3>2. CASE k # n
            <4>1. k \in 1..q
                BY <1>4, <2>2, <3>2
            <4>2. QED
                BY <2>4, <2>7, <3>2, <4>1
        <3>3. QED
            BY <3>1, <3>2
    <2>9. QED
        BY <2>1, <2>2, <2>5, <2>7, <2>8
<1>8. QED
    BY <1>6, <1>7

\* Type correctness of lex.c for lines of any length: the scanner is in one of
\* its four states, an escape is pending only right after a backslash within a
\* literal, and the first token of a line is a symbol.
THEOREM LexTypeCorrect == Spec => []TypeOK
<1>1. LexInv => TypeOK
    BY LexInvType
<1>2. QED
    BY <1>1, LexInvariant, PTL

\* The scanner of lex_tokenize accepts a line only as the fields its
\* delimiters, quotes, escapes and comment sign make of it, and returns the
\* token of every field, for lines of any length.
THEOREM SplitCorrect == Spec => []SplitsIntoFields
<1>1. LexInv => SplitsIntoFields
    BY LexInvSplits
<1>2. QED
    BY <1>1, LexInvariant, PTL

\* Tok_fromStr drops the last character of a literal whatever it is; only an
\* unterminated literal with nothing in it comes out with a size that is none,
\* on every line.
THEOREM WildCorrect == Spec => []WildOnlyUnterminated
<1>1. LexInv => WildOnlyUnterminated
    BY LexInvWild
<1>2. QED
    BY <1>1, LexInvariant, PTL

LEMMA CommentStep ==
    ASSUME LexInv, [Next]_vars, Stop <= Len(line)
    PROVE  Result' = Result
<1>1. Outside({"#"}) # {}
    <2> SUFFICES ASSUME Outside({"#"}) = {} PROVE FALSE
        OBVIOUS
    <2>1. Len(line) \in Nat
        BY LenProperties DEF LexInv
    <2>2. Stop = Len(line) + 1
        BY DEF Stop
    <2>3. QED
        BY <2>1, <2>2
<1>2. lex.err # "ok" \/ lex.ended
    BY <1>1, NoCommentYet
<1>3. lex' = lex
    BY <1>2, ReadFeeds, FeedStops DEF vars
<1>4. QED
    BY <1>3 DEF Result

\* Once eat_token has met a comment sign outside a literal, nothing that
\* follows on the line changes what lex_tokenize returns, an error included.
THEOREM CommentHolds == Spec => CommentIgnored
<1> DEFINE P == Stop <= Len(line) => Result' = Result
<1>1. LexInv /\ [Next]_vars => [P]_vars
    BY CommentStep
<1>2. Spec => [][P]_vars
    BY <1>1, LexInvariant, PTL DEF Spec
<1>3. QED
    BY <1>2 DEF CommentIgnored
=============================================================================
