------------------------------ MODULE Machine ------------------------------
(***************************************************************************)
(* The interpreter's run loop: `run` of opdef.c over the memory of mem.c   *)
(* and the operands of op.c, for one loaded and resolved program.  One     *)
(* step is the handler of one instruction, from its TARGET label to its    *)
(* DISPATCH or its return; `cpy` takes a step per iteration of its loop.   *)
(*                                                                         *)
(* `sys` and `print_num` are steps of module System, which adds the file   *)
(* layer; here a run stands still at such a line.                          *)
(*                                                                         *)
(* The status "undefined" stands for what C leaves undefined and the build *)
(* turns into a fault or into memory outside the vector: nothing is said   *)
(* of the run after it.                                                    *)
(***************************************************************************)
EXTENDS Instructions

CONSTANTS
    Programs     \* the programs a run may be given, by number

\* (TLC evaluates a definition of a constant once, but a substituted constant
\* at every use.)
Loaded == Programs

VARIABLES
    prog,        \* which program runs
    mem,         \* Mem.mem, cells 0..size-1
    size,        \* Mem.mem.size
    var,         \* Mem.var, the cell each variable points to
    ptr,         \* Code.ptr
    status,      \* "run", or how the run ended
    copy         \* the locals of cpy's loop

vars == <<prog, mem, size, var, ptr, status, copy>>

\* The resolved program, fixed for the run.
Prog == Loaded[prog]

ASSUME MachineAssumption ==
    \A k \in DOMAIN Loaded : IsProgram(Loaded[k])

(***************************************************************************)
(* Memory.  A negative index names the same cells as a positive one.       *)
(***************************************************************************)
MemAt(m, i) ==
    IF Abs(i) \in DOMAIN m
    THEN [err |-> "ok", val |-> m[Abs(i)]]
    ELSE [err |-> "InvalidMemAccess", val |-> Zero]

\* Mutant: the vector is not asked for the cell.
SetErrUnchecked(m, i) == IF Abs(i) \in DOMAIN m THEN "ok" ELSE "undefined"
SetErr(m, i) == IF Abs(i) \in DOMAIN m THEN "ok" ELSE "InvalidMemAccess"
\* Mutant: a negative index counts from the end.
MemSetFromEnd(m, i, v) ==
    [m EXCEPT ![IF i < 0 /\ -i \in DOMAIN m THEN Abs(i + size) ELSE Abs(i)] = v]
\* Mutant: only a member of the union is assigned.
MemSetMember(m, i, v) ==
    [m EXCEPT ![Abs(i)] = IF v.as = "L" THEN SetLong(@, v.n) ELSE SetDouble(@, v.n)]
MemSet(m, i, v) == [m EXCEPT ![Abs(i)] = v]

\* One cell further from zero.
IdxIncr(i) == Wrap(IF i >= 0 THEN i + 1 ELSE i - 1)

(***************************************************************************)
(* Operands.                                                               *)
(***************************************************************************)
\* Follows the index in a value that was just read.
Follow(m, r) ==
    IF r.err # "ok" THEN r
    ELSE IF r.val.type # "L" THEN [r EXCEPT !.err = "NotInteger"]
    ELSE MemAt(m, Long(r.val))

\* Mutant: a variable between the brackets is not one index more.
GetValueIdxShort(m, tok) ==
    LET first == MemAt(m, IF tok.base = "Num" THEN tok.idx ELSE var[tok.idx])
    IN  CASE tok.depth = 0 -> first
          [] tok.depth = 1 -> Follow(m, first)
          [] tok.depth = 2 -> Follow(m, Follow(m, first))

GetValueIdx(m, tok) ==
    LET first == MemAt(m, IF tok.base = "Num" THEN tok.idx ELSE var[tok.idx])
        layer == IF tok.base = "Num" THEN tok.depth ELSE tok.depth + 1
    IN  CASE layer = 0 -> first
          [] layer = 1 -> Follow(m, first)
          [] layer = 2 -> Follow(m, Follow(m, first))
          [] layer = 3 -> Follow(m, Follow(m, Follow(m, first)))

\* Mutants: every name keeps entry 0; a label is the line after it.
GetValueSymUnresolved(tok) ==
    IF 0 \in DOMAIN Prog.labels
    THEN [err |-> "ok", val |-> LongV(Prog.labels[0])]
    ELSE [err |-> "undefined", val |-> Zero]
GetValueSymNext(tok) ==
    IF tok.idx \in DOMAIN Prog.labels
    THEN [err |-> "ok", val |-> LongV(Prog.labels[tok.idx] + 1)]
    ELSE [err |-> "undefined", val |-> Zero]

GetValueSym(tok) ==
    IF tok.idx \in DOMAIN Prog.labels
    THEN [err |-> "ok", val |-> LongV(Prog.labels[tok.idx])]
    ELSE [err |-> "undefined", val |-> Zero]

\* Tok_getValue: the value an operand denotes.
GetValue(m, tok) ==
    CASE tok.t = "Num" -> [err |-> "ok", val |-> tok.v]
      [] tok.t = "Var" -> MemAt(m, var[tok.idx])
      [] tok.t = "Idx" -> GetValueIdx(m, tok)
      [] tok.t = "Sym" -> GetValueSym(tok)

\* Reads an index without looking at its tag.
LocAt(m, r) ==
    IF r.err # "ok" THEN r
    ELSE LET c == MemAt(m, r.loc) IN [err |-> c.err, loc |-> Long(c.val)]

\* The loop over `layer - 1` follows one index fewer than GetValueIdx does.
GetLocIdx(m, tok) ==
    LET first == [err |-> "ok", loc |-> IF tok.base = "Num" THEN tok.idx ELSE var[tok.idx]]
        start == IF tok.base = "Num" THEN first ELSE LocAt(m, first)
    IN  IF tok.depth = 2 THEN LocAt(m, start) ELSE start

\* Tok_getLoc: the cell a pointer operand denotes.
GetLoc(m, tok) ==
    CASE tok.t = "Var" -> [err |-> "ok", loc |-> var[tok.idx]]
      [] tok.t = "Idx" -> GetLocIdx(m, tok)
      [] tok.t = "Ltl" -> [err |-> "ok", loc |-> -tok.idx]

\* Where Tok_writeValue writes.  For a literal the variable table is read in
\* front of its first entry: any long may come back, or a fault.
WriteLocs(m, tok) ==
    IF tok.t = "Ltl"
    THEN [err : {"ok"}, loc : Longs] \cup {[err |-> "undefined", loc |-> 0]}
    ELSE {GetLoc(m, tok)}

\* Mutant: the cell is written through a pointer, without a bounds check.
WriteErrUnchecked(m, w) ==
    IF w.err # "ok" THEN w.err
    ELSE IF w.loc < 0 THEN "CannotWriteToNMem"
    ELSE IF w.loc \in DOMAIN m THEN "ok" ELSE "undefined"

WriteErr(m, w) ==
    IF w.err # "ok" THEN w.err
    ELSE IF w.loc < 0 THEN "CannotWriteToNMem"
    ELSE SetErr(m, w.loc)

\* A cell reached through a C pointer: no bounds check.
CellErr(m, w) ==
    IF w.err # "ok" THEN w.err
    ELSE IF w.loc < 0 THEN "CannotWriteToNMem"
    ELSE IF w.loc \notin DOMAIN m THEN "undefined"
    ELSE "ok"

\* The cell that holds a stack pointer; push, pop and call want its number
\* not to be negative.
StackErr(m, w) ==
    IF CellErr(m, w) # "ok" THEN CellErr(m, w)
    ELSE IF Long(m[w.loc]) < 0 THEN "CannotWriteToNMem"
    ELSE "ok"

AddLong(m, i, k) == [m EXCEPT ![i] = SetLong(@, Wrap(Long(@) + k))]

(***************************************************************************)
(* Control.                                                                *)
(***************************************************************************)
Line == Prog.code[ptr]
Arg(k) == Line.args[k]

\* Mutant: SET_LINE_ADDR takes the cell of the answers.
EnteredInAnswer == [mem EXCEPT ![0] = LongV(ptr)]

\* Memory once TARGET has stored the line's address.
Entered == [mem EXCEPT ![1] = LongV(ptr)]

At(ops) ==
    /\ status = "run"
    /\ ~copy.on
    /\ ptr \in DOMAIN Prog.code
    /\ Line.op \in ops

\* The handler returns an error, or the last line has run.
Stop(result, m) ==
    /\ mem' = m
    /\ status' = result
    /\ UNCHANGED <<prog, size, var, ptr, copy>>

\* DISPATCH: one past `line`, whatever put it in Code.ptr.
Dispatch(m, line) ==
    /\ mem' = m
    /\ ptr' = (line + 1) % Width
    /\ UNCHANGED <<prog, size, status, copy>>

Finish(err, m, line) ==
    IF err = "ok" THEN Dispatch(m, line) /\ UNCHANGED var ELSE Stop(err, m)

\* Mutant: the answer is assigned to a member of the union in cell 0.
AnswerUntagged(err, v) ==
    Finish(err, IF err = "ok"
                THEN [Entered EXCEPT ![0] = IF v.as = "L" THEN SetLong(@, v.n) ELSE SetDouble(@, v.n)]
                ELSE Entered, ptr)

\* The answer of an instruction goes to cell 0.
Answer(err, v) ==
    Finish(err, IF err = "ok" THEN [Entered EXCEPT ![0] = v] ELSE Entered, ptr)

(***************************************************************************)
(* Memory instructions.                                                    *)
(***************************************************************************)
Mov ==
    /\ At({"mov"})
    /\ LET val == GetValue(Entered, Arg(2)) IN
       IF val.err # "ok" THEN Stop(val.err, Entered)
       ELSE \E w \in WriteLocs(Entered, Arg(1)) :
                LET err == WriteErr(Entered, w) IN
                Finish(err, IF err = "ok" THEN MemSet(Entered, w.loc, val.val) ELSE Entered, ptr)

CpyStart ==
    /\ At({"cpy"})
    /\ LET des == GetLoc(Entered, Arg(1))
           src == GetLoc(Entered, Arg(2))
           n == GetValue(Entered, Arg(3))
           err == IF des.err # "ok" THEN des.err ELSE IF src.err # "ok" THEN src.err ELSE n.err
       IN  IF err # "ok" THEN Stop(err, Entered)
           ELSE /\ mem' = Entered
                /\ copy' = [on |-> TRUE, left |-> ToSize(Long(n.val)), des |-> des.loc, src |-> src.loc]
                /\ UNCHANGED <<prog, size, var, ptr, status>>

\* The operand `&Tok(Idx, des)` puts des in the tag of the index it builds
\* and leaves the rest zero: a literal index 0, a null index, or variable 0.
\* (Every cell number is taken to fit the tag's 32 bits.)
CopyTarget(m, des) ==
    CASE des = 0 -> [err |-> "ok", loc |-> 0]
      [] des = 1 -> [err |-> "undefined", loc |-> 0]
      [] OTHER -> LocAt(m, [err |-> "ok", loc |-> var[0]])

CopyStep ==
    /\ status = "run"
    /\ copy.on
    /\ copy.left # 0
    /\ LET val == MemAt(mem, copy.src)
           w == CopyTarget(mem, copy.des)
           err == IF val.err # "ok" THEN val.err ELSE WriteErr(mem, w)
       IN  IF err # "ok" THEN Stop(err, mem)
           ELSE /\ mem' = MemSet(mem, w.loc, val.val)
                /\ copy' = [on |-> TRUE, left |-> copy.left - 1,
                            des |-> IdxIncr(copy.des), src |-> IdxIncr(copy.src)]
                /\ UNCHANGED <<prog, size, var, ptr, status>>

Idle == [on |-> FALSE, left |-> 0, des |-> 0, src |-> 0]

CopyEnd ==
    /\ status = "run"
    /\ copy.on
    /\ copy.left = 0
    /\ copy' = Idle
    /\ ptr' = (ptr + 1) % Width
    /\ UNCHANGED <<prog, mem, size, var, status>>

Size == At({"size"}) /\ Answer("ok", LongV(size))

Var ==
    /\ At({"var"})
    /\ LET r == GetLoc(Entered, Arg(2)) IN
       IF r.err # "ok" THEN Stop(r.err, Entered)
       ELSE /\ var' = [var EXCEPT ![Arg(1).idx] = r.loc]
            /\ Dispatch(Entered, ptr)

Loc ==
    /\ At({"loc"})
    /\ LET r == GetLoc(Entered, Arg(1)) IN Answer(r.err, LongV(r.loc))

\* A negative count allocates nothing.
Allc ==
    /\ At({"allc"})
    /\ LET n == GetValue(Entered, Arg(1))
           k == IF Long(n.val) < 0 THEN 0 ELSE Long(n.val)
           err == IF n.err # "ok" THEN n.err ELSE IF size + k > MaxMem THEN "undefined" ELSE "ok"
       IN  IF err # "ok" THEN Stop(err, Entered)
           ELSE /\ mem' = [i \in 0..size + k - 1 |-> IF i < size THEN Entered[i] ELSE Zero]
                /\ size' = size + k
                /\ ptr' = (ptr + 1) % Width
                /\ UNCHANGED <<prog, var, status, copy>>

\* Mutant: the value is read before the pointer moves.
PushReadsFirst ==
    /\ At({"push"})
    /\ LET w == GetLoc(Entered, Arg(1)) IN
       IF StackErr(Entered, w) # "ok" THEN Stop(StackErr(Entered, w), Entered)
       ELSE LET m == AddLong(Entered, w.loc, 1)
                val == GetValue(Entered, Arg(2))
                top == Long(m[w.loc])
                err == IF val.err # "ok" THEN val.err ELSE SetErr(m, top)
            IN  Finish(err, IF err = "ok" THEN MemSet(m, top, val.val) ELSE m, ptr)

\* The pointer moves before the value is read and before the write is
\* checked.
Push ==
    /\ At({"push"})
    /\ LET w == GetLoc(Entered, Arg(1)) IN
       IF StackErr(Entered, w) # "ok" THEN Stop(StackErr(Entered, w), Entered)
       ELSE LET m == AddLong(Entered, w.loc, 1)
                val == GetValue(m, Arg(2))
                top == Long(m[w.loc])
                err == IF val.err # "ok" THEN val.err ELSE SetErr(m, top)
            IN  Finish(err, IF err = "ok" THEN MemSet(m, top, val.val) ELSE m, ptr)

\* Mutant: the pointer moves before the value is read.
PopMovesFirst ==
    /\ At({"pop"})
    /\ LET w == GetLoc(Entered, Arg(1)) IN
       IF StackErr(Entered, w) # "ok" THEN Stop(StackErr(Entered, w), Entered)
       ELSE LET m == AddLong(Entered, w.loc, -1)
                val == MemAt(m, Long(m[w.loc]))
            IN  Finish(val.err, IF val.err = "ok" THEN [m EXCEPT ![0] = val.val] ELSE m, ptr)

\* The value is in cell 0 before the pointer moves.
Pop ==
    /\ At({"pop"})
    /\ LET w == GetLoc(Entered, Arg(1)) IN
       IF StackErr(Entered, w) # "ok" THEN Stop(StackErr(Entered, w), Entered)
       ELSE LET val == MemAt(Entered, Long(Entered[w.loc])) IN
            IF val.err # "ok" THEN Stop(val.err, Entered)
            ELSE Finish("ok", AddLong([Entered EXCEPT ![0] = val.val], w.loc, -1), ptr)

\* ltof and ftol store the converted number and keep the tag.
Converted(op, v) ==
    CASE op = "ltof" /\ v.type = "L" -> SetDouble(v, ToDouble(Long(v)))
      [] op = "ftol" /\ v.type = "D" -> SetLong(v, Double(v))
      [] OTHER -> v

Cast ==
    /\ At(CastOps)
    /\ LET w == GetLoc(Entered, Arg(1))
           err == CellErr(Entered, w)
       IN  Finish(err, IF err = "ok" THEN [Entered EXCEPT ![w.loc] = Converted(Line.op, @)]
                       ELSE Entered, ptr)

(***************************************************************************)
(* Arithmetic, comparison and logic.                                       *)
(***************************************************************************)
Calculate ==
    /\ At(MathOps \cup MathfOps)
    /\ LET l == GetValue(Entered, Arg(1))
           r == GetValue(Entered, Arg(2))
           traps == Line.op = "mod" /\ Traps(Long(l.val), Long(r.val))
           err == IF l.err # "ok" THEN l.err ELSE IF r.err # "ok" THEN r.err
                  ELSE IF traps THEN "undefined" ELSE "ok"
       IN  IF err # "ok" THEN Stop(err, Entered)
           ELSE Answer("ok",
                    IF Line.op \in MathOps
                    THEN LongV(Math(Line.op, Long(l.val), Long(r.val)))
                    ELSE DoubleV(Mathf(Line.op, AsDouble(l.val), AsDouble(r.val))))

\* inc and its kin work on one member, whatever the tag says.
Bumped(op, v) ==
    CASE op = "inc" -> SetLong(v, Wrap(Long(v) + 1))
      [] op = "dec" -> SetLong(v, Wrap(Long(v) - 1))
      [] op = "incf" -> SetDouble(v, ToDouble(Double(v) + 1))
      [] op = "decf" -> SetDouble(v, ToDouble(Double(v) - 1))

\* Mem_mem_set takes the location as it is: a negative one is written too.
Bump ==
    /\ At(InPlaceOps)
    /\ LET w == GetLoc(Entered, Arg(1))
           val == MemAt(Entered, w.loc)
           err == IF w.err # "ok" THEN w.err ELSE val.err
       IN  Finish(err, IF err = "ok" THEN MemSet(Entered, w.loc, Bumped(Line.op, val.val))
                       ELSE Entered, ptr)

Not ==
    /\ At({"not"})
    /\ LET val == GetValue(Entered, Arg(1)) IN Answer(val.err, LongV(Truth(Long(val.val) = 0)))

(***************************************************************************)
(* Control flow.  A target is a size_t, and the line after it runs next.   *)
(***************************************************************************)
Jmp ==
    /\ At({"jmp"})
    /\ LET loc == GetValue(Entered, Arg(1)) IN Finish(loc.err, Entered, ToSize(Long(loc.val)))

Jc ==
    /\ At({"jc"})
    /\ LET cond == GetValue(Entered, Arg(1))
           loc == GetValue(Entered, Arg(2))
       IN  IF cond.err # "ok" THEN Stop(cond.err, Entered)
           ELSE IF Long(cond.val) = 0 THEN Finish("ok", Entered, ptr)
           ELSE Finish(loc.err, Entered, ToSize(Long(loc.val)))

\* The return address is the address of this line plus one.
Call ==
    /\ At({"call"})
    /\ LET w == GetLoc(Entered, Arg(1)) IN
       IF StackErr(Entered, w) # "ok" THEN Stop(StackErr(Entered, w), Entered)
       ELSE LET m == AddLong(Entered, w.loc, 1)
                top == Long(m[w.loc])
                curr == AddLong(m, 1, 1)[1]
            IN  IF SetErr(m, top) # "ok" THEN Stop(SetErr(m, top), m)
                ELSE LET n == MemSet(m, top, curr)
                         loc == GetValue(n, Arg(2))
                     IN  Finish(loc.err, n, ToSize(Long(loc.val)))

Ret ==
    /\ At({"ret"})
    /\ LET w == GetLoc(Entered, Arg(1)) IN
       IF CellErr(Entered, w) # "ok" THEN Stop(CellErr(Entered, w), Entered)
       ELSE IF Entered[w.loc].type # "L" THEN Stop("NotInteger", Entered)
       ELSE LET loc == MemAt(Entered, Long(Entered[w.loc])) IN
            IF loc.err # "ok" THEN Stop(loc.err, Entered)
            ELSE Finish("ok", AddLong(Entered, w.loc, -1), ToSize(Long(loc.val)))

Skip == At(SkipOps) /\ Finish("ok", Entered, ptr)

Halt == At({"halt"}) /\ Stop("ok", [Entered EXCEPT ![0] = Zero])

\* The loop ends when Code.ptr is past the last line.
RunOff ==
    /\ status = "run"
    /\ ~copy.on
    /\ ptr \notin DOMAIN Prog.code
    /\ Stop("ok", mem)

(***************************************************************************)
(* The specification.                                                      *)
(***************************************************************************)
Init ==
    /\ prog \in DOMAIN Loaded
    /\ mem = Prog.cells
    /\ size = Prog.size
    /\ var = Prog.vars
    /\ ptr = 0
    /\ status = "run"
    /\ copy = Idle

Next ==
    \/ Mov \/ CpyStart \/ CopyStep \/ CopyEnd \/ Size \/ Var \/ Loc \/ Allc
    \/ Push \/ Pop \/ Cast
    \/ Calculate \/ Bump \/ Not
    \/ Jmp \/ Jc \/ Call \/ Ret \/ Skip
    \/ Halt \/ RunOff

\* One thread runs the loop, and nothing but its own lines holds it up.
Spec == Init /\ [][Next]_vars /\ WF_vars(Next)

(***************************************************************************)
(* Properties.                                                             *)
(***************************************************************************)
\* Type invariant: memory is one block of `size` typed cells, the program
\* pointer is a size_t, and cpy's counters stay in their C types.
TypeOK ==
    /\ prog \in DOMAIN Loaded
    /\ size \in Registers + 2..MaxMem
    /\ mem \in [0..size - 1 -> Value]
    /\ var \in [DOMAIN Prog.vars -> Longs]
    /\ ptr \in Sizes
    /\ status \in {"run", "ok", "InvalidMemAccess", "CannotWriteToNMem", "NotInteger", "undefined"}
    /\ copy \in [on : BOOLEAN, left : Sizes, des : Longs, src : Longs]

\* The cells a line's writable operand gives it: the cell it designates, and
\* for push and call the cell above the one it points to.
Designated ==
    LET w == GetLoc(Entered, Arg(1)) IN
    CASE Line.op \in {"mov", "pop", "ret"} \cup CastOps -> {w.loc} \cap Nat
      [] Line.op \in InPlaceOps -> {Abs(w.loc)}
      [] Line.op \in {"push", "call"} ->
            ({w.loc} \cap Nat)
                \cup {Long(Entered[i]) + 1 : i \in {w.loc} \cap DOMAIN mem}
      [] OTHER -> {}

\* Non-interference: a line changes the line register [1], the answer [0] if
\* it answers, and the cells its own pointer operand gives it, nothing else;
\* allc keeps every cell.  (mov to a literal and cpy write elsewhere: see the
\* runs about them.)
Frame ==
    [][~copy.on /\ ptr \in DOMAIN Prog.code /\ ~(Line.op = "mov" /\ Arg(1).t = "Ltl") =>
        \A i \in DOMAIN mem \ {1} :
            mem'[i] # mem[i] =>
                \/ i \in Designated
                \/ i = 0 /\ Line.op \in {"size", "loc", "pop", "not", "halt"} \cup MathOps \cup MathfOps]_vars

\* A pointer operand that needs no more than one index to be followed, other
\* than through the cell it designates.
Plain(tok) ==
    \/ tok.t = "Var"
    \/ /\ tok.t = "Idx"
       /\ tok.depth = 0
       /\ tok.base = "Var" => Abs(var[tok.idx]) # Abs(GetLoc(Entered, tok).loc)

\* After a mov, reading its destination operand gives the value it moved: the
\* read path and the write path agree on the cell of a plain operand.
ReadBack ==
    [][At({"mov"}) /\ status' = "run" /\ Plain(Arg(1)) =>
        LET r == GetValue(mem', Arg(1)) IN
        r.err = "ok" => r.val = GetValue(Entered, Arg(2)).val]_vars

\* The order within a stack line, seen through a pointer that is an operand of
\* its own line: push moves its pointer before it reads the value ("increments
\* idx and then assigns val to idx"), so the pointer pushed is the number of
\* the cell it is pushed to; pop answers before it moves the pointer, so a
\* pointer in cell 0 ends as the value popped less one.
PointerAsOperand ==
    [][status' = "run" =>
        LET w == GetLoc(Entered, Arg(1)).loc IN
        /\ At({"push"}) /\ Arg(2).t = "Var" /\ var[Arg(2).idx] = w =>
                Long(mem'[Long(mem'[w])]) = Long(mem'[w])
        /\ At({"pop"}) /\ w = 0 =>
                Long(mem'[0]) = Wrap(Long(Entered[Long(Entered[0])]) - 1)]_vars

HasOp(p, ops) == \E i \in DOMAIN p.code : p.code[i].op \in ops

\* In a program without the instructions that work on one member of the
\* union whatever the tag says, the tag of every cell tells which member was
\* stored last, at every moment of the run.
TagsTellTruth ==
    ~HasOp(Prog, InPlaceOps \cup CastOps \cup {"push", "pop", "call", "ret"}) =>
        \A i \in DOMAIN mem : Sound(mem[i])

\* The member of the union such a line assigns.
Member(op) == IF op \in {"incf", "decf", "ltof"} THEN "D" ELSE "L"

\* Where tags begin to lie, in any program: as long as every tag tells the
\* truth, only a line that works on one member makes one that does not, in its
\* own cell, whose tag it leaves; push may store a copy of it.
LiesBegin ==
    [][(\A i \in DOMAIN mem : Sound(mem[i])) =>
        \A i \in DOMAIN mem' : ~Sound(mem'[i]) =>
            LET own == Abs(GetLoc(Entered, Arg(1)).loc) IN
            /\ Line.op \in InPlaceOps \cup CastOps \cup {"push", "pop", "call"}
            /\ mem'[i].as = Member(Line.op)
            /\ IF Line.op = "push" THEN mem'[i].type = Entered[own].type ELSE i = own
            /\ Line.op # "pop" => mem'[own].type = Entered[own].type]_vars

\* Lines whose handlers check every index they use.
Guarded(p, line) ==
    /\ line.op \notin {"cpy", "allc", "push", "pop", "call", "ret", "mod"} \cup CastOps
    /\ line.op = "mov" => line.args[1].t # "Ltl"
    /\ \A k \in DOMAIN Signature(line.op) :
        Signature(line.op)[k] = VALUE /\ line.args[k].t = "Sym" =>
            line.args[k].idx \in DOMAIN p.labels

\* A program made of such lines never leaves memory, whatever its indices: it
\* ends normally or with an error of the interpreter.
NoFault ==
    (\A i \in DOMAIN Prog.code : Guarded(Prog, Prog.code[i])) => status # "undefined"

\* The line's fault is one of these: a name that is no label is read, a
\* literal is written, a remainder traps, a cell that is reached through a C
\* pointer is past memory, or memory cannot grow.
FaultCause ==
    \/ \E k \in DOMAIN Signature(Line.op) :
        Signature(Line.op)[k] = VALUE /\ Arg(k).t = "Sym" /\ Arg(k).idx \notin DOMAIN Prog.labels
    \/ Line.op = "mov" /\ Arg(1).t = "Ltl"
    \/ /\ Line.op = "mod"
       /\ LET divisor == Long(GetValue(Entered, Arg(2)).val) IN
          \/ divisor = 0
          \/ divisor = -1 /\ Long(GetValue(Entered, Arg(1)).val) = LongMin
    \/ /\ Line.op \in {"push", "pop", "call", "ret"} \cup CastOps
       /\ GetLoc(Entered, Arg(1)).loc >= size
    \/ Line.op = "allc" /\ size + Long(GetValue(Entered, Arg(1)).val) > MaxMem

\* No program faults for another reason.  What a stack pointer holds, an index
\* in memory or a negative cell is an error of the interpreter, never a fault;
\* a copy faults only through the null index it builds for cell 1.
FaultsHaveCause ==
    [][status' = "undefined" /\ status = "run" =>
        IF copy.on THEN copy.des = 1 ELSE FaultCause]_vars

\* A target that is in the program whatever memory holds: a name, or a number
\* with a line after it (-1 is in front of the first line).
Target(p, tok) ==
    \/ tok.t = "Sym"
    \/ tok.t = "Num" /\ Long(tok.v) + 1 \in DOMAIN p.code

\* Every jump goes to such a target, and no address comes from memory.
Structured(p) ==
    \A i \in DOMAIN p.code :
        LET line == p.code[i] IN
        /\ line.op # "ret"
        /\ line.op = "jmp" => Target(p, line.args[1])
        /\ line.op \in {"jc", "call"} => Target(p, line.args[2])

\* Such a program never runs past its last line: a label is never the last
\* line, so the line after it exists, -1 as a size_t wraps to the first line,
\* and the run ends at a halt.
ControlStaysIn == Structured(Prog) => ptr \in DOMAIN Prog.code

\* ... and if its jumps only go forward, it ends.  A cpy in it ends too, also
\* with a negative size, which the loop takes for a huge one.
Forward(p) ==
    /\ Structured(p)
    /\ \A i \in DOMAIN p.code :
        LET line == p.code[i]
            target == IF line.op = "jmp" THEN line.args[1] ELSE line.args[2]
        IN  line.op \in {"jmp", "jc", "call"} =>
                IF target.t = "Num" THEN Long(target.v) >= i
                ELSE target.idx \in DOMAIN p.labels => p.labels[target.idx] > i

Terminates == Forward(Prog) => <>(status # "run")
=============================================================================
