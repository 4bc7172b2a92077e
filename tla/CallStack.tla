----------------------------- MODULE CallStack -----------------------------
(***************************************************************************)
(* What push, pop, call and ret promise a program that keeps one stack:    *)
(* "Stack can be simulated by push pop call ret functions".  Values come   *)
(* back in the reverse of the order they went in, ret continues where the  *)
(* matching call left off, and no other line touches the stack.            *)
(*                                                                         *)
(* The stack is a pointer into plain memory.  A program that pops more     *)
(* than it pushed is lost: it works on cells that are not the stack's, the *)
(* pointer's own cell among them, and nothing is promised until the        *)
(* pointer is back in the stack.                                           *)
(***************************************************************************)
EXTENDS Values, Sequences, SequencesExt

CONSTANT Setup       \* the lines that make the stack, empty

VARIABLES
    running,         \* the program has not ended
    line,            \* the next line
    kind,            \* what the next line does to the stack
    lost,            \* the pointer is below the stack
    stack,           \* the values, first pushed first
    answer           \* where pop leaves the value

vars == <<running, line, kind, lost, stack, answer>>

Init ==
    /\ running = TRUE
    /\ line = 0
    /\ lost = TRUE

\* The line that runs after a jump to n.
After(n) == ToSize(n + 1)

Put(v) == stack' = Append(stack, v) /\ lost' = FALSE

Take ==
    IF stack = <<>>
    THEN lost' = TRUE
    ELSE stack' = Front(stack) /\ lost' = FALSE

Push ==
    /\ kind = "push"
    /\ \E v \in Value : Put(v)
    /\ line' = After(line)
    /\ UNCHANGED answer

Pop ==
    /\ kind = "pop"
    /\ Take
    /\ line' = After(line)
    /\ stack # <<>> => answer' = Last(stack)

\* The address saved is that of the calling line, plus one.
Call ==
    /\ kind = "call"
    /\ Put(LongV(line + 1))
    /\ UNCHANGED answer

Ret ==
    /\ kind = "ret"
    /\ Take
    /\ stack # <<>> => line' = After(Long(Last(stack)))
    /\ UNCHANGED answer

Work ==
    /\ kind = "other"
    /\ stack' = IF line \in Setup THEN <<>> ELSE stack
    /\ lost' = FALSE

\* An instruction fails or the program ends: nothing is promised of the
\* stack it leaves.
Stop == running' = FALSE

Next ==
    /\ running = TRUE
    /\ \/ lost
       \/ Stop
       \/ /\ running' = TRUE
          /\ Push \/ Pop \/ Call \/ Ret \/ Work

Spec == Init /\ [][Next]_vars
=============================================================================
