----------------------------- MODULE MCPrograms -----------------------------
(***************************************************************************)
(* Small programs for the instances of Machine: lines written with names,  *)
(* and the form in which the loader leaves them.                           *)
(***************************************************************************)
EXTENDS Values, Sequences, FiniteSets, TLC

(***************************************************************************)
(* A width of 32 values: doubles 1 and 2 have large bit patterns, negative *)
(* ones very negative patterns, and any other pattern reads as 0.          *)
(***************************************************************************)
MCLongMax == 15
MCDoubleMax == 2
MCLongBits ==
    [d \in -2..2 |-> CASE d > 0 -> 12 + d [] d = 0 -> 0 [] d < 0 -> -16 - d]
MCDoubleBits ==
    [l \in -16..15 |-> IF l \in {13, 14} THEN l - 12 ELSE IF l \in {-15, -14} THEN -16 - l ELSE 0]

MCRegisters == 2
MCMaxMem == 8

(***************************************************************************)
(* Operands.  Variables 0 and 1 are `?` and `*`, 2 and 3 the registers $1  *)
(* and $2, 4 a variable "u" the program declares.                          *)
(***************************************************************************)
Num(n) == [t |-> "Num", v |-> LongV(n)]
NumF(d) == [t |-> "Num", v |-> DoubleV(d)]
VarTok(i) == [t |-> "Var", idx |-> i]
IdxTok(depth, base, i) == [t |-> "Idx", depth |-> depth, base |-> base, idx |-> i]
Ltl(i) == [t |-> "Ltl", idx |-> -i]
Sym(name) == [t |-> "Sym", name |-> name]

I(op, args) == [op |-> op, args |-> args]

\* The operand that names where a line jumps.
TargetAt(op) == CASE op = "jmp" -> 1 [] op \in {"jc", "call"} -> 2 [] OTHER -> 0

(***************************************************************************)
(* What the loader accepts: a label or a variable is declared at most      *)
(* once, and what is named is declared.                                    *)
(***************************************************************************)
Declared(lines, op) == {lines[k].args[1].name : k \in {k \in DOMAIN lines : lines[k].op = op}}
Declarations(lines, op) == Cardinality({k \in DOMAIN lines : lines[k].op = op})

Loads(lines) ==
    /\ \A op \in {"var", "lbl"} : Declarations(lines, op) = Cardinality(Declared(lines, op))
    /\ \A k \in DOMAIN lines :
        LET n == TargetAt(lines[k].op) IN
        /\ n # 0 /\ lines[k].args[n].t = "Sym" =>
                lines[k].args[n].name \in Declared(lines, "lbl")
        /\ \A j \in DOMAIN lines[k].args :
                lines[k].args[j] = VarTok(4) => Declared(lines, "var") # {}

(***************************************************************************)
(* A loaded program: its lines and the halt Code_from adds.  Labels are    *)
(* numbered in the order of their lines.  Memory has two zero cells, the   *)
(* registers and the characters of one literal, at cell 4.  (The loader    *)
(* makes a copy for every use of a literal; here they share one.)          *)
(***************************************************************************)
LiteralCells == <<LongV(7), Zero>>

LabelLines(lines) ==
    SelectSeq([k \in DOMAIN lines |-> k], LAMBDA k : lines[k].op = "lbl")
LabelNumber(lines, name) ==
    CHOOSE n \in 0..Len(lines) : lines[LabelLines(lines)[n + 1]].args[1].name = name

\* A line whose jump target is no symbol keeps entry 0 for all its names,
\* and a symbol that is no target keeps it too.
Resolve(lines, line, j) ==
    LET tok == line.args[j]
        n == TargetAt(line.op)
    IN  CASE tok.t = "Sym" ->
                [t |-> "Sym",
                 idx |-> CASE line.op = "var" -> 4
                           [] j = n -> LabelNumber(lines, tok.name)
                           [] OTHER -> 0]
          [] n # 0 /\ line.args[n].t # "Sym" /\ tok.t # "Num" ->
                IF tok.t = "Idx" /\ tok.base = "Num" THEN tok ELSE [tok EXCEPT !.idx = 0]
          [] OTHER -> tok

\* A function that TLC evaluates once and keeps.
Table(f) == f @@ <<>>

Program(lines) ==
    LET cells == MCRegisters + 2 + Len(LiteralCells) IN
    [code |-> Table([i \in 0..Len(lines) |->
                IF i = Len(lines) THEN I("halt", <<>>)
                ELSE LET line == lines[i + 1] IN
                     I(line.op, [j \in DOMAIN line.args |-> Resolve(lines, line, j)] \o <<>>)]),
     labels |-> Table([k \in 0..Len(LabelLines(lines)) - 1 |-> LabelLines(lines)[k + 1] - 1]),
     vars |-> Table([k \in 0..MCRegisters + 2 |-> IF k <= MCRegisters + 1 THEN k ELSE 0]),
     size |-> cells,
     cells |-> Table([k \in 0..cells - 1 |->
                IF k < MCRegisters + 2 THEN Zero ELSE LiteralCells[k - MCRegisters - 1]])]

\* All programs made of n lines of a pool between a fixed start and a fixed
\* end, numbered: body k has the digits of k as its lines.
Body(pool, n, k) ==
    [i \in 1..n |-> pool[1 + ((k \div (Len(pool) ^ (i - 1))) % Len(pool))]]
Texts(start, pool, n, end) ==
    SelectSeq([k \in 1..Len(pool) ^ n |-> start \o Body(pool, n, k) \o end], Loads)
ProgramsOf(start, pool, n, end) ==
    CHOOSE ps \in {[k \in DOMAIN ts |-> Program(ts[k])] \o <<>> : ts \in {Texts(start, pool, n, end)}} : TRUE
=============================================================================
