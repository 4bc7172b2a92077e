---------------------------- MODULE MachineStack ----------------------------
(***************************************************************************)
(* The run loop implements CallStack for programs that keep one stack: the *)
(* pointer is in one cell, the stack grows from the cell above Base, and   *)
(* only push, pop, call and ret with that pointer touch either, but for    *)
(* the lines that set the pointer to Base.  What the other lines write is  *)
(* fixed, not read from memory.                                            *)
(***************************************************************************)
EXTENDS Machine, Sequences

CONSTANTS
    Pointer,    \* the cell of the stack pointer
    Base,       \* the value of the pointer of an empty stack
    SetupLines  \* the lines that store Base in the pointer

\* An operand that is this cell whatever memory holds: its register or its
\* number.
IsCell(p, tok, cell) ==
    \/ tok.t = "Var" /\ p.vars[tok.idx] = cell
    \/ tok.t = "Idx" /\ tok.depth = 0 /\ tok.base = "Num" /\ tok.idx = cell

\* A program that keeps to its stack.
OneStack(p) ==
    /\ p.cells[Pointer].n < Base
    /\ \A i \in DOMAIN p.code :
        LET line == p.code[i]
            Writes(cell) == IsCell(p, line.args[1], cell)
        IN  /\ line.op \notin {"var", "cpy"}
            /\ line.op \in {"push", "pop", "call", "ret"} => Writes(Pointer)
            /\ line.op \in {"mov"} \cup InPlaceOps \cup CastOps /\ i \notin SetupLines =>
                    \E cell \in 0..Base \ {Pointer} : Writes(cell)
            /\ i \in SetupLines =>
                    line.op = "mov" /\ Writes(Pointer) /\ line.args[2].t = "Num" /\ Long(line.args[2].v) = Base

ASSUME StackAssumption ==
    /\ Pointer \in 2..Registers + 1
    /\ Base \in Pointer..LongMax
    /\ \A k \in DOMAIN Loaded : OneStack(Loaded[k])

StackDepth == Long(mem[Pointer]) - Base

\* The cells of the stack; a pointer beyond memory ends the run.
StackValues ==
    [k \in 1..(IF StackDepth > 0 THEN StackDepth ELSE 0) |->
        IF Base + k \in DOMAIN mem THEN mem[Base + k] ELSE Zero]

LineKind ==
    IF status = "run" /\ ptr \in DOMAIN Prog.code /\ Line.op \in {"push", "pop", "call", "ret"}
    THEN Line.op
    ELSE "other"

Abstract ==
    INSTANCE CallStack WITH
        Setup <- SetupLines,
        running <- (status = "run"),
        line <- ptr,
        kind <- LineKind,
        lost <- (StackDepth < 0),
        stack <- StackValues,
        answer <- mem[0]

\* push, pop, call and ret are a stack: values come back in the reverse order
\* they went in and a ret finds the address its call saved (opdef.c's four
\* handlers against the README's "Stack can be simulated by push pop call
\* ret").
StackSpec == Abstract!Spec
=============================================================================
