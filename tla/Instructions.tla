---------------------------- MODULE Instructions ----------------------------
(***************************************************************************)
(* The instructions of the interpreter: their operations, the kinds of     *)
(* operands each takes, and what a loaded and resolved program is.  The    *)
(* loader produces such programs, the run loop runs them.                  *)
(***************************************************************************)
EXTENDS Values

CONSTANTS
    Registers,   \* numbered registers, `Mem_new`'s argument
    MaxMem       \* bound: cells realloc can provide

ASSUME InstructionsAssumption ==
    /\ Registers \in Nat
    /\ MaxMem \in Registers + 2..LongMax

MaxNest == 2   \* bound: nesting of an index beyond its first brackets

PTR == {"Idx", "Var", "Ltl"}
VALUE == {"Num", "Idx", "Var", "Sym"}
SYM == {"Sym"}

InPlaceOps == {"inc", "dec", "incf", "decf"}
CastOps == {"ltof", "ftol"}
SkipOps == {"nop", "lbl", "src"}
Ops ==
    {"halt", "mov", "cpy", "size", "var", "loc", "allc", "push", "pop",
     "not", "jmp", "jc", "call", "ret", "sys", "print_num"}
        \cup InPlaceOps \cup CastOps \cup SkipOps \cup MathOps \cup MathfOps

Signature(op) ==
    CASE op \in {"halt", "nop", "size"} -> <<>>
      [] op \in {"mov", "push", "call"} -> <<PTR, VALUE>>
      [] op = "cpy" -> <<PTR, PTR, VALUE>>
      [] op = "var" -> <<SYM, PTR>>
      [] op \in {"loc", "pop", "ret"} \cup InPlaceOps \cup CastOps -> <<PTR>>
      [] op \in {"allc", "not", "jmp", "sys"} -> <<VALUE>>
      [] op \in {"jc", "print_num"} \cup MathOps \cup MathfOps -> <<VALUE, VALUE>>
      [] op \in {"lbl", "src"} -> <<SYM>>

\* An operand as the loader leaves it.  `idx` is a cell for a literal
\* (negated), an entry of the variable table or of the label table for the
\* other names; an unresolved name keeps entry 0.
IsTok(p, tok) ==
    CASE tok.t = "Num" -> tok.v \in Value /\ Sound(tok.v)
      [] tok.t = "Var" -> tok.idx \in DOMAIN p.vars
      [] tok.t = "Idx" ->
            /\ tok.depth \in 0..MaxNest
            /\ tok.base \in {"Num", "Var"}
            /\ tok.idx \in IF tok.base = "Num" THEN Longs ELSE DOMAIN p.vars
      [] tok.t = "Ltl" -> -tok.idx \in 0..LongMax
      [] tok.t = "Sym" -> tok.idx \in Nat

IsLine(p, line) ==
    /\ line.op \in Ops
    /\ \A k \in DOMAIN Signature(line.op) :
        /\ line.args[k].t \in Signature(line.op)[k]
        /\ IsTok(p, line.args[k])
    /\ line.op = "var" => line.args[1].idx \in DOMAIN p.vars

\* What Code_from and resolveSym hand to `run`: lines, the label table, the
\* variable table, and memory with the string literals after the registers.
IsProgram(p) ==
    /\ \E n \in 1..LongMax : DOMAIN p.code = 0..n - 1 /\ p.code[n - 1].op = "halt"
    /\ \A i \in DOMAIN p.code : IsLine(p, p.code[i])
    /\ \E n \in 0..LongMax : p.labels \in [0..n - 1 -> {i \in DOMAIN p.code : p.code[i].op = "lbl"}]
    /\ \E n \in Registers + 2..LongMax : p.vars \in [0..n - 1 -> 0..Registers + 1]
    /\ p.size \in Registers + 2..MaxMem
    /\ p.cells \in [0..p.size - 1 -> [type : {"L"}, as : {"L"}, n : Longs]]
=============================================================================
