---------------------------- MODULE StackProofs ----------------------------
(***************************************************************************)
(* The run loop implements CallStack, for every program that keeps to one  *)
(* stack, wherever the stack is and whatever the size of memory.           *)
(*                                                                         *)
(* A line is one step of the stack: push and call put a value above the    *)
(* others, pop and ret take one away, and every other line leaves the      *)
(* pointer and the cells above Base alone.  The last is where Frame is     *)
(* needed: a line writes only the cells its operand gives it.              *)
(***************************************************************************)
EXTENDS MachineStack, MachineProofs, SequenceTheorems

(***************************************************************************)
(* Programs that keep one stack.                                           *)
(***************************************************************************)
OneInv == TypeOK /\ ~copy.on /\ var = Prog.vars

LEMMA StackPlace ==
    /\ Pointer \in Nat /\ Pointer >= 2 /\ Pointer <= Registers + 1
    /\ Base \in Nat /\ Pointer <= Base /\ Base <= LongMax
BY StackAssumption, InstructionsAssumption, WidthFacts

LEMMA StackMem ==
    ASSUME TypeOK
    PROVE  /\ size \in Nat
           /\ size <= LongMax
           /\ mem \in [0..size - 1 -> Value] /\ DOMAIN mem = 0..size - 1
           /\ Pointer \in DOMAIN mem /\ 0 \in DOMAIN mem
           /\ Long(mem[Pointer]) \in Longs /\ Long(mem[Pointer]) \in Int
<1>1. Rest /\ Holds(Value)
    BY TypeOKParts
<1>2. size \in Nat /\ size <= LongMax /\ size >= 2
    BY <1>1, SizeFacts, WidthFacts
<1>3. mem \in [0..size - 1 -> Value] /\ DOMAIN mem = 0..size - 1
    BY <1>1 DEF Holds
<1>4. size >= Registers + 2 /\ Registers \in Nat
    BY <1>1, SizeFacts DEF Rest
<1>5. Pointer \in DOMAIN mem
    BY <1>2, <1>3, <1>4, StackPlace
<1>6. mem[Pointer] \in Value
    BY <1>3, <1>5
<1>7. Long(mem[Pointer]) \in Longs /\ Long(mem[Pointer]) \in Int
    BY <1>6, LongType, LongsAreInts
<1>8. 0 \in DOMAIN mem
    BY <1>2, <1>3
<1>9. QED
    BY <1>2, <1>3, <1>5, <1>7, <1>8

\* What OneStack says of the line that runs.
LEMMA OneLine ==
    ASSUME OneInv, ptr \in DOMAIN Prog.code
    PROVE  /\ Line.op \notin {"var", "cpy"}
           /\ Line.op \in {"push", "pop", "call", "ret"} => IsCell(Prog, Arg(1), Pointer)
           /\ Line.op \in {"mov"} \cup InPlaceOps \cup CastOps /\ ptr \notin SetupLines =>
                \E cell \in 0..Base \ {Pointer} : IsCell(Prog, Arg(1), cell)
           /\ ptr \in SetupLines =>
                /\ Line.op = "mov" /\ IsCell(Prog, Arg(1), Pointer)
                /\ Arg(2).t = "Num" /\ Long(Arg(2).v) = Base
<1>1. OneStack(Prog)
    BY StackAssumption DEF OneInv, TypeOK, Prog
<1>2. QED
    BY <1>1 DEF OneStack, Line, Arg

LEMMA CellLoc ==
    ASSUME var = Prog.vars, NEW tok, NEW cell, IsCell(Prog, tok, cell), NEW m
    PROVE  GetLoc(m, tok) = [err |-> "ok", loc |-> cell] /\ tok.t # "Ltl"
BY DEF IsCell, GetLoc, GetLocIdx

LEMMA OneInit == ASSUME Init PROVE OneInv
<1>1. TypeOK
    BY InitKeeps, CellSets, TypeOKParts
<1>2. QED
    BY <1>1 DEF Init, Idle, OneInv

LEMMA OneStep == ASSUME OneInv, [Next]_vars PROVE OneInv'
<1>1. TypeOK' /\ Prog' = Prog
    BY NextKeepsType, ProgSame DEF OneInv
<1>2. ~CpyStart /\ ~Var
    BY OneLine DEF CpyStart, Var, At
<1>3. ~CopyStep /\ ~CopyEnd
    BY DEF CopyStep, CopyEnd, OneInv
<1>4. UNCHANGED <<var, copy>>
    <2> USE DEF Stop, Dispatch, Finish, Answer
    <2>1. CASE Mov \/ Size \/ Loc \/ Allc
        BY <2>1 DEF Mov, Size, Loc, Allc
    <2>2. CASE Push \/ Pop \/ Cast
        BY <2>2 DEF Push, Pop, Cast
    <2>3. CASE Calculate \/ Bump \/ Not
        BY <2>3 DEF Calculate, Bump, Not
    <2>4. CASE Jmp \/ Jc \/ Call \/ Ret
        BY <2>4 DEF Jmp, Jc, Call, Ret
    <2>5. CASE Skip \/ Halt \/ RunOff
        BY <2>5 DEF Skip, Halt, RunOff
    <2>6. CASE UNCHANGED vars
        BY <2>6 DEF vars
    <2>7. QED
        BY <1>2, <1>3, <2>1, <2>2, <2>3, <2>4, <2>5, <2>6 DEF Next
<1>5. QED
    BY <1>1, <1>4 DEF OneInv

(***************************************************************************)
(* The cells of the stack.                                                 *)
(***************************************************************************)
Cell(m, k) == IF Base + k \in DOMAIN m THEN m[Base + k] ELSE Zero
Cells(m, n) == [k \in 1..n |-> Cell(m, k)]

LEMMA StackIsCells ==
    /\ StackValues = Cells(mem, IF StackDepth > 0 THEN StackDepth ELSE 0)
    /\ StackValues' = Cells(mem', IF StackDepth' > 0 THEN StackDepth' ELSE 0)
BY DEF StackValues, Cells, Cell

LEMMA CellType ==
    ASSUME TypeOK, NEW k
    PROVE  Cell(mem, k) \in Value
BY StackMem, ZeroType DEF Cell

LEMMA CellsSeq ==
    ASSUME TypeOK, NEW n \in Nat
    PROVE  /\ Cells(mem, n) \in Seq(Value)
           /\ Len(Cells(mem, n)) = n
           /\ \A k \in 1..n : Cells(mem, n)[k] = Cell(mem, k)
           /\ Cells(mem, n) = <<>> <=> n = 0
<1>1. Cells(mem, n) \in [1..n -> Value]
    BY CellType DEF Cells
<1>2. Cells(mem, n) \in Seq(Value)
    BY <1>1, SeqDef
<1>3. Len(Cells(mem, n)) = n
    BY <1>2 DEF Cells
<1>4. QED
    BY <1>2, <1>3, EmptySeq DEF Cells

LEMMA CellsGrow ==
    ASSUME TypeOK, NEW m, NEW n \in Nat, \A k \in 1..n : Cell(m, k) = Cell(mem, k),
           NEW v \in Value, Cell(m, n + 1) = v
    PROVE  Cells(m, n + 1) = Append(Cells(mem, n), v)
<1>1. /\ Cells(mem, n) \in Seq(Value) /\ Len(Cells(mem, n)) = n
      /\ \A k \in 1..n : Cells(mem, n)[k] = Cell(mem, k)
    BY CellsSeq
<1>2. Cells(m, n + 1) = [k \in 1..n + 1 |-> IF k <= n THEN Cell(mem, k) ELSE v]
    BY DEF Cells
<1> HIDE DEF Cells
<1>3. Append(Cells(mem, n), v) = [k \in 1..n + 1 |-> IF k <= n THEN Cell(mem, k) ELSE v]
    <2> DEFINE s == Append(Cells(mem, n), v)
               t == [k \in 1..n + 1 |-> IF k <= n THEN Cell(mem, k) ELSE v]
    <2>1. /\ s \in Seq(Value) /\ Len(s) = n + 1
          /\ \A k \in 1..n : s[k] = Cell(mem, k)
          /\ s[n + 1] = v
        BY <1>1, AppendProperties
    <2>2. t \in [1..n + 1 -> Value]
        BY CellType
    <2>3. t \in Seq(Value) /\ Len(t) = n + 1
        BY <2>2, SeqDef
    <2>4. \A k \in 1..n + 1 : s[k] = t[k]
        BY <2>1
    <2> HIDE DEF s, t
    <2>5. s = t
        BY <2>1, <2>3, <2>4, SeqEqual
    <2>6. QED
        BY <2>5 DEF s, t
<1>4. QED
    BY <1>2, <1>3

LEMMA CellsShrink ==
    ASSUME TypeOK, NEW m, NEW n \in Nat, n > 0, \A k \in 1..n : Cell(m, k) = Cell(mem, k)
    PROVE  /\ Cells(m, n - 1) = SubSeq(Cells(mem, n), 1, Len(Cells(mem, n)) - 1)
           /\ Cells(mem, n)[Len(Cells(mem, n))] = Cell(mem, n)
<1>1. /\ Cells(mem, n) \in Seq(Value) /\ Len(Cells(mem, n)) = n
      /\ \A k \in 1..n : Cells(mem, n)[k] = Cell(mem, k)
    BY CellsSeq
<1>2. Cells(m, n - 1) = [k \in 1..n - 1 |-> Cell(mem, k)]
    BY DEF Cells
<1> HIDE DEF Cells
<1>3. SubSeq(Cells(mem, n), 1, n - 1) = [k \in 1..n - 1 |-> Cell(mem, k)]
    BY <1>1
<1>4. QED
    BY <1>1, <1>2, <1>3

(***************************************************************************)
(* Numbers.                                                                *)
(***************************************************************************)
LEMMA WrapSame == ASSUME NEW n \in Longs PROVE Wrap(n) = n
<1>1. n \in Int /\ LongMax \in Nat /\ Width = 2 * LongMax + 2
    BY LongsAreInts, WidthFacts DEF Width
<1>2. n + LongMax + 1 \in Nat /\ n + LongMax + 1 < Width
    BY <1>1 DEF Longs, LongMin
<1>3. (n + LongMax + 1) % Width = n + LongMax + 1
    BY <1>2, ModuloSmall, WidthFacts
<1>4. QED
    BY <1>1, <1>3 DEF Wrap, ToSize

(***************************************************************************)
(* The stack after a value was put on it or taken from it.                 *)
(***************************************************************************)
LEMMA DepthType == ASSUME TypeOK PROVE StackDepth \in Int /\ Long(mem[Pointer]) = Base + StackDepth
BY StackMem, StackPlace DEF StackDepth

LEMMA Pushed ==
    ASSUME OneInv, StackDepth >= 0, NEW v \in Value,
           mem' = [AddLong(Entered, Pointer, 1) EXCEPT ![Long(mem[Pointer]) + 1] = v],
           Long(mem[Pointer]) + 1 \in DOMAIN mem,
           Long(AddLong(Entered, Pointer, 1)[Pointer]) = Long(mem[Pointer]) + 1
    PROVE  /\ StackDepth' = StackDepth + 1
           /\ StackValues' = Append(StackValues, v)
           /\ mem'[0] = mem[0]
<1> DEFINE n == Long(mem[Pointer])
           m == AddLong(Entered, Pointer, 1)
<1>1. TypeOK /\ n \in Int /\ n = Base + StackDepth /\ StackDepth \in Int /\ StackDepth \in Nat
    BY StackMem, DepthType DEF OneInv
<1>2. Pointer \in Nat /\ Pointer >= 2 /\ Base \in Nat /\ Pointer <= Base /\ n + 1 > Pointer
    BY <1>1, StackPlace
<1>3. DOMAIN mem = 0..size - 1 /\ size \in Nat /\ Pointer \in DOMAIN mem /\ 0 \in DOMAIN mem
    BY <1>1, StackMem
<1>4. DOMAIN m = DOMAIN mem /\ \A i \in DOMAIN mem \ {1, Pointer} : m[i] = mem[i]
    BY <1>3 DEF AddLong, Entered
<1>5. Long(m[Pointer]) = n + 1
    OBVIOUS
<1>6. mem' = [m EXCEPT ![n + 1] = v] /\ n + 1 \in DOMAIN mem
    OBVIOUS
<1> HIDE DEF n, m
<1>7. DOMAIN mem' = DOMAIN mem /\ mem'[n + 1] = v /\ mem'[Pointer] = m[Pointer]
    BY <1>1, <1>2, <1>3, <1>4, <1>6
<1>8. \A i \in DOMAIN mem \ {1, Pointer, n + 1} : mem'[i] = mem[i]
    BY <1>4, <1>6
<1>9. StackDepth' = StackDepth + 1
    BY <1>1, <1>2, <1>5, <1>7 DEF StackDepth
<1>10. mem'[0] = mem[0]
    BY <1>1, <1>2, <1>3, <1>8
<1>11. \A k \in 1..StackDepth : Cell(mem', k) = Cell(mem, k)
    <2> SUFFICES ASSUME NEW k \in 1..StackDepth PROVE Cell(mem', k) = Cell(mem, k)
        OBVIOUS
    <2>1. Base + k \notin {1, Pointer, n + 1}
        BY <1>1, <1>2
    <2>2. QED
        BY <1>7, <1>8, <2>1 DEF Cell
<1>12. Cell(mem', StackDepth + 1) = v
    <2>1. Base + (StackDepth + 1) = n + 1
        BY <1>1, <1>2
    <2>2. QED
        BY <1>6, <1>7, <2>1 DEF Cell
<1>13. Cells(mem', StackDepth + 1) = Append(Cells(mem, StackDepth), v)
    BY <1>1, <1>11, <1>12, CellsGrow
<1>14. StackValues = Cells(mem, StackDepth)
    <2>1. (IF StackDepth > 0 THEN StackDepth ELSE 0) = StackDepth
        BY <1>1
    <2>2. QED
        BY <2>1, StackIsCells
<1>15. StackValues' = Cells(mem', StackDepth + 1)
    <2>1. (IF StackDepth' > 0 THEN StackDepth' ELSE 0) = StackDepth + 1
        BY <1>1, <1>9
    <2>2. QED
        BY <2>1, StackIsCells
<1>16. QED
    BY <1>9, <1>10, <1>13, <1>14, <1>15

LEMMA Popped ==
    ASSUME OneInv, StackDepth >= 0, DOMAIN mem' = DOMAIN mem,
           \A i \in DOMAIN mem \ {0, 1, Pointer} : mem'[i] = mem[i],
           Long(mem'[Pointer]) = Long(mem[Pointer]) - 1
    PROVE  /\ StackValues = <<>> => StackDepth' < 0
           /\ StackValues # <<>> =>
                /\ ~(StackDepth' < 0)
                /\ StackValues' = SubSeq(StackValues, 1, Len(StackValues) - 1)
                /\ StackValues[Len(StackValues)] = mem[Long(mem[Pointer])]
                        \/ Long(mem[Pointer]) \notin DOMAIN mem
<1>1. /\ TypeOK /\ StackDepth \in Int /\ StackDepth \in Nat
      /\ Long(mem[Pointer]) = Base + StackDepth /\ Long(mem[Pointer]) \in Int
    BY StackMem, DepthType DEF OneInv
<1>2. Pointer \in Nat /\ Pointer >= 2 /\ Base \in Nat /\ Pointer <= Base
    BY StackPlace
<1>3. StackDepth' = StackDepth - 1
    BY <1>1, <1>2 DEF StackDepth
<1>4. StackValues = Cells(mem, StackDepth)
    <2>1. (IF StackDepth > 0 THEN StackDepth ELSE 0) = StackDepth
        BY <1>1
    <2>2. QED
        BY <2>1, StackIsCells
<1>5. StackValues = <<>> <=> StackDepth = 0
    BY <1>1, <1>4, CellsSeq
<1>6. ASSUME StackDepth > 0
      PROVE  /\ StackValues' = SubSeq(StackValues, 1, Len(StackValues) - 1)
             /\ StackValues[Len(StackValues)] = Cell(mem, StackDepth)
    <2>1. \A k \in 1..StackDepth : Cell(mem', k) = Cell(mem, k)
        <3> SUFFICES ASSUME NEW k \in 1..StackDepth PROVE Cell(mem', k) = Cell(mem, k)
            OBVIOUS
        <3>1. Base + k \notin {0, 1, Pointer}
            BY <1>1, <1>2
        <3>2. QED
            BY <3>1 DEF Cell
    <2>2. (IF StackDepth' > 0 THEN StackDepth' ELSE 0) = StackDepth - 1
        BY <1>1, <1>3, <1>6
    <2>3. StackValues' = Cells(mem', StackDepth - 1)
        BY <2>2, StackIsCells
    <2>4. QED
        BY <1>1, <1>4, <1>6, <2>1, <2>3, CellsShrink
<1>7. QED
    BY <1>1, <1>3, <1>5, <1>6 DEF Cell

(***************************************************************************)
(* The four lines of the stack.                                            *)
(***************************************************************************)
LEMMA AbstractNumbers ==
    /\ Abstract!Value = Value
    /\ \A n : Abstract!After(n) = ToSize(n + 1) /\ Abstract!LongV(n) = LongV(n)
    /\ \A v : Abstract!Long(v) = Long(v)
<1>1. Abstract!Longs = Longs /\ Abstract!Doubles = Doubles
    BY DEF Abstract!Longs, Abstract!Doubles, Abstract!LongMin, Longs, Doubles, LongMin
<1>2. Abstract!Value = Value
    BY <1>1 DEF Abstract!Value, Value
<1>3. \A n : Abstract!After(n) = ToSize(n + 1) /\ Abstract!LongV(n) = LongV(n)
    BY DEF Abstract!After, Abstract!ToSize, Abstract!Width, ToSize, Width, Abstract!LongV, LongV
<1>4. \A v : Abstract!Long(v) = Long(v)
    BY DEF Abstract!Long, Long
<1>5. QED
    BY <1>2, <1>3, <1>4

LEMMA NotStopped ==
    ASSUME NEW err \in Errs, NEW m, NEW line, status' = "run"
    PROVE  /\ ~Stop(err, m)
           /\ Finish(err, m, line) => err = "ok" /\ Dispatch(m, line)
BY DEF Errs, Stop, Finish

\* The line that runs works on the stack's pointer.
LEMMA StackLine ==
    ASSUME OneInv, NEW op, op \in {"push", "pop", "call", "ret"}, At({op})
    PROVE  /\ LineKind = op /\ status = "run"
           /\ GetLoc(Entered, Arg(1)) = [err |-> "ok", loc |-> Pointer]
           /\ Rest /\ Holds(Value) /\ TypeOK
           /\ Entered \in [0..size - 1 -> Value]
           /\ Entered[Pointer] = mem[Pointer] /\ Entered[1] = LongV(ptr)
           /\ \A i \in DOMAIN mem \ {1} : Entered[i] = mem[i]
<1>1. ptr \in DOMAIN Prog.code /\ status = "run" /\ Line.op = op
    BY DEF At
<1>2. LineKind = op
    BY <1>1 DEF LineKind
<1>3. GetLoc(Entered, Arg(1)) = [err |-> "ok", loc |-> Pointer]
    <2>1. IsCell(Prog, Arg(1), Pointer)
        BY <1>1, OneLine
    <2>2. QED
        BY <2>1, CellLoc DEF OneInv
<1>4. TypeOK /\ Rest /\ Holds(Value)
    BY TypeOKParts DEF OneInv
<1>5. Entered \in [0..size - 1 -> Value]
    BY <1>4, CellSets, EnteredType
<1>6. /\ DOMAIN mem = 0..size - 1 /\ size \in Nat
      /\ Pointer \in DOMAIN mem /\ Pointer \in Nat /\ Pointer >= 2
    BY <1>4, StackMem, StackPlace
<1>7. 1 \in DOMAIN mem
    BY <1>6
<1>8. QED
    BY <1>1, <1>2, <1>3, <1>4, <1>5, <1>6, <1>7 DEF Entered

\* What the pointer and the cell above the stack are during a push or a call.
LEMMA Raised ==
    ASSUME OneInv, NEW op, op \in {"push", "call"}, At({op}),
           StackErr(Entered, [err |-> "ok", loc |-> Pointer]) = "ok",
           NEW m, m = AddLong(Entered, Pointer, 1),
           SetErr(m, Long(m[Pointer])) = "ok", NEW v
    PROVE  /\ m \in [0..size - 1 -> Value]
           /\ Long(m[Pointer]) = Long(mem[Pointer]) + 1
           /\ Long(mem[Pointer]) + 1 \in DOMAIN mem
           /\ MemSet(m, Long(m[Pointer]), v) = [m EXCEPT ![Long(mem[Pointer]) + 1] = v]
<1> DEFINE w == [err |-> "ok", loc |-> Pointer]
<1>1. /\ TypeOK /\ Entered \in [0..size - 1 -> Value] /\ Entered[Pointer] = mem[Pointer]
    BY StackLine
<1>2. Pointer \in 0..size - 1 /\ DOMAIN mem = 0..size - 1 /\ 1 \in Int
    BY <1>1, StackMem
<1>3. m \in [0..size - 1 -> Value]
    BY <1>1, <1>2, AddLongType
<1>4. w.loc = Pointer
    OBVIOUS
<1> HIDE DEF w
<1>5. StackErr(Entered, w) = "ok"
    BY DEF w
<1>6. /\ Long(m[Pointer]) = Long(mem[Pointer]) + 1
      /\ Abs(Long(m[Pointer])) = Long(mem[Pointer]) + 1
    BY <1>1, <1>4, <1>5, CellAbove
<1>7. Long(mem[Pointer]) + 1 \in DOMAIN mem
    BY <1>2, <1>3, <1>6 DEF SetErr
<1>8. QED
    BY <1>3, <1>6, <1>7 DEF MemSet

LEMMA PushStack ==
    ASSUME OneInv, Push, status' = "run", StackDepth >= 0
    PROVE  Abstract!Push /\ ~(StackDepth' < 0)
<1> DEFINE w == [err |-> "ok", loc |-> Pointer]
           m == AddLong(Entered, Pointer, 1)
           val == GetValue(m, Arg(2))
           top == Long(m[Pointer])
           err == IF val.err # "ok" THEN val.err ELSE SetErr(m, top)
<1>1. At({"push"}) /\ Line.op = "push"
    BY DEF Push, At
<1>2. /\ LineKind = "push" /\ GetLoc(Entered, Arg(1)) = w /\ Rest /\ Holds(Value) /\ TypeOK
      /\ Entered \in [0..size - 1 -> Value]
    BY <1>1, StackLine
<1>3. Pointer \in 0..size - 1 /\ DOMAIN mem = 0..size - 1 /\ Pointer \in Longs /\ 1 \in Int
    BY <1>2, StackMem, StackPlace, WidthFacts DEF Longs, LongMin
<1>4. w \in [err : Errs, loc : Longs] /\ w.loc = Pointer
    BY <1>3 DEF Errs
<1>5. IF StackErr(Entered, w) # "ok" THEN Stop(StackErr(Entered, w), Entered)
      ELSE Finish(err, IF err = "ok" THEN MemSet(m, top, val.val) ELSE m, ptr)
    BY <1>2 DEF Push
<1>6. m \in [0..size - 1 -> Value]
    BY <1>2, <1>3, AddLongType
<1>7. val \in [err : Errs, val : Value]
    <2>1. Signature(Line.op) = <<PTR, VALUE>>
        BY <1>1, Signatures
    <2>2. Arg(2).t \in VALUE /\ IsTok(Prog, Arg(2))
        BY <1>1, <1>2, <2>1, ArgFacts
    <2>3. QED
        BY <1>2, <1>6, <2>2, CellSets, GetValueType DEF Rest
<1>8. StackErr(Entered, w) \in Errs /\ err \in Errs
    <2>1. SetErr(m, top) \in Errs
        BY DEF SetErr, Errs
    <2>2. QED
        BY <1>4, <1>7, <2>1, ErrTypes
<1> HIDE DEF w, m, val, top, err
<1>9. StackErr(Entered, w) = "ok"
    BY <1>5, <1>8, NotStopped
<1>10. err = "ok" /\ Dispatch(MemSet(m, top, val.val), ptr)
    BY <1>5, <1>8, <1>9, NotStopped
<1>11. SetErr(m, top) = "ok"
    BY <1>10 DEF err
<1>12. /\ top = Long(mem[Pointer]) + 1 /\ Long(mem[Pointer]) + 1 \in DOMAIN mem
       /\ MemSet(m, top, val.val) = [m EXCEPT ![Long(mem[Pointer]) + 1] = val.val]
    BY <1>1, <1>9, <1>11, Raised DEF w, m, top
<1>13. /\ StackDepth' = StackDepth + 1
       /\ StackValues' = Append(StackValues, val.val)
       /\ mem'[0] = mem[0]
    BY <1>7, <1>10, <1>12, Pushed DEF Dispatch, m, top
<1>14. ~(StackDepth' < 0)
    BY <1>2, <1>13, DepthType
<1>15. ptr' = ToSize(ptr + 1)
    BY <1>10 DEF Dispatch, ToSize
<1>16. val.val \in Value
    BY <1>7
<1>17. (StackDepth < 0)' = FALSE
    BY <1>14
<1>18. Abstract!Put(val.val)
    BY <1>13, <1>17 DEF Abstract!Put
<1>19. QED
    BY <1>2, <1>13, <1>14, <1>15, <1>16, <1>18, AbstractNumbers DEF Abstract!Push

LEMMA CallStacks ==
    ASSUME OneInv, Call, status' = "run", StackDepth >= 0
    PROVE  Abstract!Call /\ ~(StackDepth' < 0)
<1> DEFINE w == [err |-> "ok", loc |-> Pointer]
           m == AddLong(Entered, Pointer, 1)
           top == Long(m[Pointer])
           curr == AddLong(m, 1, 1)[1]
           n == MemSet(m, top, curr)
           loc == GetValue(n, Arg(2))
<1>1. At({"call"}) /\ Line.op = "call" /\ ptr \in DOMAIN Prog.code
    BY DEF Call, At
<1>2. /\ LineKind = "call" /\ GetLoc(Entered, Arg(1)) = w /\ Rest /\ Holds(Value) /\ TypeOK
      /\ Entered \in [0..size - 1 -> Value] /\ Entered[1] = LongV(ptr)
    BY <1>1, StackLine
<1>3. /\ Pointer \in 0..size - 1 /\ DOMAIN mem = 0..size - 1 /\ Pointer \in Longs /\ 1 \in Int
      /\ Pointer # 1 /\ 1 \in 0..size - 1
    BY <1>2, StackMem, StackPlace, WidthFacts DEF Longs, LongMin
<1>4. w \in [err : Errs, loc : Longs] /\ w.loc = Pointer
    BY <1>3 DEF Errs
<1>5. IF StackErr(Entered, w) # "ok" THEN Stop(StackErr(Entered, w), Entered)
      ELSE IF SetErr(m, top) # "ok" THEN Stop(SetErr(m, top), m)
      ELSE Finish(loc.err, n, ToSize(Long(loc.val)))
    BY <1>2 DEF Call
<1>6. m \in [0..size - 1 -> Value] /\ m[1] = LongV(ptr)
    BY <1>2, <1>3, AddLongType DEF AddLong
<1>7. curr = LongV(ptr + 1) /\ curr \in Value
    <2>1. PICK k \in 1..LongMax : DOMAIN Prog.code = 0..k - 1
        BY <1>2, ProgFacts DEF Rest, IsProgram
    <2>2. ptr + 1 \in Longs /\ ptr \in Int
        BY <1>1, <2>1, WidthFacts DEF Longs, LongMin
    <2>3. Wrap(ptr + 1) = ptr + 1
        BY <2>2, WrapSame
    <2>4. curr = SetLong(m[1], Wrap(Long(m[1]) + 1))
        BY <1>3, <1>6 DEF AddLong
    <2>5. curr = LongV(ptr + 1)
        BY <1>6, <2>3, <2>4 DEF SetLong, LongV, Long
    <2>6. QED
        BY <2>2, <2>5, LongVType
<1>8. StackErr(Entered, w) \in Errs /\ SetErr(m, top) \in Errs
    BY <1>4, ErrTypes DEF SetErr, Errs
<1>9. loc.err \in Errs
    <2>1. Signature(Line.op) = <<PTR, VALUE>>
        BY <1>1, Signatures
    <2>2. Arg(2).t \in VALUE /\ IsTok(Prog, Arg(2))
        BY <1>1, <1>2, <2>1, ArgFacts
    <2>3. n \in [0..size - 1 -> Value]
        BY <1>6, <1>7, MemSetType
    <2> HIDE DEF n
    <2>4. loc \in [err : Errs, val : Value]
        BY <1>2, <2>2, <2>3, CellSets, GetValueType DEF Rest
    <2>5. QED
        BY <2>4
<1> HIDE DEF w, m, top, curr, n, loc
<1>10. StackErr(Entered, w) = "ok"
    BY <1>5, <1>8, NotStopped
<1>11. SetErr(m, top) = "ok"
    BY <1>5, <1>8, <1>10, NotStopped
<1>12. Dispatch(n, ToSize(Long(loc.val)))
    BY <1>5, <1>9, <1>10, <1>11, NotStopped
<1>13. /\ top = Long(mem[Pointer]) + 1 /\ Long(mem[Pointer]) + 1 \in DOMAIN mem
       /\ n = [m EXCEPT ![Long(mem[Pointer]) + 1] = curr]
    BY <1>1, <1>10, <1>11, Raised DEF w, m, top, n
<1>14. /\ StackDepth' = StackDepth + 1
       /\ StackValues' = Append(StackValues, curr)
       /\ mem'[0] = mem[0]
    BY <1>7, <1>12, <1>13, Pushed DEF Dispatch, m, top
<1>15. ~(StackDepth' < 0)
    BY <1>2, <1>14, DepthType
<1>16. (StackDepth < 0)' = FALSE
    BY <1>15
<1>17. Abstract!Put(LongV(ptr + 1))
    BY <1>7, <1>14, <1>16 DEF Abstract!Put
<1>18. QED
    BY <1>2, <1>14, <1>15, <1>17, AbstractNumbers DEF Abstract!Call

\* The pointer after a pop or a ret.
LEMMA Lowered ==
    ASSUME TypeOK, NEW m, DOMAIN m = DOMAIN mem, m[Pointer] = mem[Pointer],
           Long(mem[Pointer]) \in DOMAIN mem
    PROVE  /\ Long(AddLong(m, Pointer, -1)[Pointer]) = Long(mem[Pointer]) - 1
           /\ DOMAIN AddLong(m, Pointer, -1) = DOMAIN mem
           /\ \A i \in DOMAIN mem \ {Pointer} : AddLong(m, Pointer, -1)[i] = m[i]
<1> DEFINE k == Long(mem[Pointer])
<1>1. Pointer \in DOMAIN mem /\ DOMAIN mem = 0..size - 1 /\ k \in Longs /\ k \in Int
    BY StackMem
<1>2. k >= 0
    BY <1>1
<1>3. k - 1 \in Longs /\ k - 1 = k + (-1)
    BY <1>1, <1>2, WidthFacts DEF Longs, LongMin
<1>4. Wrap(k + (-1)) = k - 1
    BY <1>3, WrapSame
<1>5. AddLong(m, Pointer, -1) = [m EXCEPT ![Pointer] = SetLong(m[Pointer], Wrap(k + (-1)))]
    BY DEF AddLong
<1> HIDE DEF k
<1>6. Long(SetLong(m[Pointer], Wrap(k + (-1)))) = k - 1
    BY <1>4 DEF SetLong, Long
<1>7. QED
    BY <1>1, <1>5, <1>6 DEF k

LEMMA MemAtLong ==
    ASSUME NEW m, NEW i \in Int, i >= 0, MemAt(m, i).err = "ok"
    PROVE  i \in DOMAIN m /\ MemAt(m, i).val = m[i]
BY DEF MemAt, Abs

LEMMA PopStack ==
    ASSUME OneInv, Pop, status' = "run", StackDepth >= 0
    PROVE  Abstract!Pop
<1> DEFINE w == [err |-> "ok", loc |-> Pointer]
           k == Long(mem[Pointer])
           val == MemAt(Entered, k)
           m == [Entered EXCEPT ![0] = val.val]
<1>1. At({"pop"})
    BY DEF Pop
<1>2. /\ LineKind = "pop" /\ GetLoc(Entered, Arg(1)) = w /\ TypeOK
      /\ Entered \in [0..size - 1 -> Value] /\ Entered[Pointer] = mem[Pointer]
      /\ \A i \in DOMAIN mem \ {1} : Entered[i] = mem[i]
    BY <1>1, StackLine
<1>3. /\ Pointer \in 0..size - 1 /\ DOMAIN mem = 0..size - 1 /\ Pointer \in Longs /\ Pointer >= 2
      /\ 0 \in 0..size - 1 /\ k \in Int /\ k = Base + StackDepth /\ StackDepth \in Int
    BY <1>2, StackMem, StackPlace, DepthType, WidthFacts DEF Longs, LongMin
<1>4. k >= 2
    BY <1>3, StackPlace
<1>5. w \in [err : Errs, loc : Longs]
    BY <1>3 DEF Errs
<1>6. IF StackErr(Entered, w) # "ok" THEN Stop(StackErr(Entered, w), Entered)
      ELSE IF val.err # "ok" THEN Stop(val.err, Entered)
      ELSE Finish("ok", AddLong(m, Pointer, -1), ptr)
    <2>1. w.loc = Pointer /\ Long(Entered[w.loc]) = k
        BY <1>2
    <2> DEFINE r == GetLoc(Entered, Arg(1))
    <2>2. IF StackErr(Entered, r) # "ok" THEN Stop(StackErr(Entered, r), Entered)
          ELSE LET v == MemAt(Entered, Long(Entered[r.loc])) IN
            IF v.err # "ok" THEN Stop(v.err, Entered)
            ELSE Finish("ok", AddLong([Entered EXCEPT ![0] = v.val], r.loc, -1), ptr)
        BY DEF Pop
    <2>3. r = w
        BY <1>2
    <2> HIDE DEF w, k, r
    <2>4. QED
        BY <2>1, <2>2, <2>3
<1>7. StackErr(Entered, w) \in Errs /\ val.err \in Errs
    BY <1>5, ErrTypes DEF MemAt, Errs
<1> HIDE DEF w, k, val, m
<1>8. val.err = "ok" /\ Dispatch(AddLong(m, Pointer, -1), ptr)
    BY <1>6, <1>7, NotStopped DEF Finish
<1>9. k \in DOMAIN mem /\ val.val = mem[k]
    <2>1. k \in DOMAIN Entered /\ val.val = Entered[k]
        <3>1. k \in Int /\ k >= 0
            BY <1>3, <1>4
        <3>2. MemAt(Entered, k).err = "ok"
            BY <1>8 DEF val
        <3>3. QED
            BY <3>1, <3>2, MemAtLong DEF val
    <2>2. QED
        BY <1>2, <1>3, <1>4, <2>1
<1>10. /\ DOMAIN m = DOMAIN mem /\ m[Pointer] = mem[Pointer] /\ m[0] = mem[k]
       /\ \A i \in DOMAIN mem \ {0, 1} : m[i] = mem[i]
    BY <1>2, <1>3, <1>9 DEF m
<1>11. /\ Long(mem'[Pointer]) = k - 1
       /\ DOMAIN mem' = DOMAIN mem
       /\ \A i \in DOMAIN mem \ {Pointer} : mem'[i] = m[i]
    BY <1>2, <1>8, <1>9, <1>10, Lowered DEF Dispatch, k
<1>12. \A i \in DOMAIN mem \ {0, 1, Pointer} : mem'[i] = mem[i]
    BY <1>10, <1>11
<1>13. /\ StackValues = <<>> => StackDepth' < 0
       /\ StackValues # <<>> =>
            /\ ~(StackDepth' < 0)
            /\ StackValues' = SubSeq(StackValues, 1, Len(StackValues) - 1)
            /\ StackValues[Len(StackValues)] = mem[k]
    BY <1>9, <1>11, <1>12, Popped DEF k
<1>14. mem'[0] = mem[k]
    BY <1>3, <1>10, <1>11
<1>15. ptr' = ToSize(ptr + 1)
    BY <1>8 DEF Dispatch, ToSize
<1>16. Abstract!Take
    BY <1>13 DEF Abstract!Take, Abstract!Front
<1>17. QED
    BY <1>2, <1>13, <1>14, <1>15, <1>16, AbstractNumbers DEF Abstract!Pop, Abstract!Last

LEMMA RetStack ==
    ASSUME OneInv, Ret, status' = "run", StackDepth >= 0
    PROVE  Abstract!Ret
<1> DEFINE w == [err |-> "ok", loc |-> Pointer]
           k == Long(mem[Pointer])
           loc == MemAt(Entered, k)
<1>1. At({"ret"})
    BY DEF Ret
<1>2. /\ LineKind = "ret" /\ GetLoc(Entered, Arg(1)) = w /\ TypeOK
      /\ Entered \in [0..size - 1 -> Value] /\ Entered[Pointer] = mem[Pointer]
      /\ \A i \in DOMAIN mem \ {1} : Entered[i] = mem[i]
    BY <1>1, StackLine
<1>3. /\ Pointer \in 0..size - 1 /\ DOMAIN mem = 0..size - 1 /\ Pointer \in Longs /\ Pointer >= 2
      /\ 0 \in 0..size - 1 /\ k \in Int /\ k = Base + StackDepth /\ StackDepth \in Int
    BY <1>2, StackMem, StackPlace, DepthType, WidthFacts DEF Longs, LongMin
<1>4. k >= 2
    BY <1>3, StackPlace
<1>5. w \in [err : Errs, loc : Longs]
    BY <1>3 DEF Errs
<1>6. IF CellErr(Entered, w) # "ok" THEN Stop(CellErr(Entered, w), Entered)
      ELSE IF Entered[Pointer].type # "L" THEN Stop("NotInteger", Entered)
      ELSE IF loc.err # "ok" THEN Stop(loc.err, Entered)
      ELSE Finish("ok", AddLong(Entered, Pointer, -1), ToSize(Long(loc.val)))
    BY <1>2 DEF Ret
<1>7. CellErr(Entered, w) \in Errs /\ loc.err \in Errs /\ "NotInteger" \in Errs
    BY <1>5, ErrTypes DEF MemAt, Errs
<1> HIDE DEF w, k, loc
<1>8. loc.err = "ok" /\ Dispatch(AddLong(Entered, Pointer, -1), ToSize(Long(loc.val)))
    BY <1>6, <1>7, NotStopped DEF Finish
<1>9. k \in DOMAIN mem /\ loc.val = mem[k]
    <2>1. k \in DOMAIN Entered /\ loc.val = Entered[k]
        <3>1. k \in Int /\ k >= 0
            BY <1>3, <1>4
        <3>2. MemAt(Entered, k).err = "ok"
            BY <1>8 DEF loc
        <3>3. QED
            BY <3>1, <3>2, MemAtLong DEF loc
    <2>2. QED
        BY <1>2, <1>3, <1>4, <2>1
<1>10. DOMAIN Entered = DOMAIN mem
    BY <1>2, <1>3
<1>11. /\ Long(mem'[Pointer]) = k - 1
       /\ DOMAIN mem' = DOMAIN mem
       /\ \A i \in DOMAIN mem \ {Pointer} : mem'[i] = Entered[i]
    BY <1>2, <1>8, <1>9, <1>10, Lowered DEF Dispatch, k
<1>12. \A i \in DOMAIN mem \ {1, Pointer} : mem'[i] = mem[i]
    BY <1>2, <1>11
<1>13. /\ StackValues = <<>> => StackDepth' < 0
       /\ StackValues # <<>> =>
            /\ ~(StackDepth' < 0)
            /\ StackValues' = SubSeq(StackValues, 1, Len(StackValues) - 1)
            /\ StackValues[Len(StackValues)] = mem[k]
    BY <1>9, <1>11, <1>12, Popped DEF k
<1>14. mem'[0] = mem[0]
    BY <1>3, <1>12
<1>15. ptr' = ToSize(Long(mem[k]) + 1)
    <2>1. mem[k] \in Value
        BY <1>2, <1>9, StackMem
    <2>2. Long(mem[k]) \in Longs
        BY <2>1, LongType
    <2>3. ptr' = (ToSize(Long(mem[k])) + 1) % Width
        BY <1>8, <1>9 DEF Dispatch
    <2>4. QED
        BY <2>2, <2>3, SizeNext
<1>16. Abstract!Take
    BY <1>13 DEF Abstract!Take, Abstract!Front
<1>17. QED
    BY <1>2, <1>13, <1>14, <1>15, <1>16, AbstractNumbers DEF Abstract!Ret, Abstract!Last

(***************************************************************************)
(* The other lines.                                                        *)
(***************************************************************************)
LEMMA LineRuns ==
    ASSUME OneInv, Next, status' = "run"
    PROVE  status = "run" /\ ptr \in DOMAIN Prog.code /\ ~copy.on
<1>1. ~copy.on /\ ~CopyStep /\ ~CopyEnd
    BY DEF OneInv, CopyStep, CopyEnd
<1>2. CASE Mov \/ CpyStart \/ Size \/ Var \/ Loc \/ Allc
    BY <1>2 DEF Mov, CpyStart, Size, Var, Loc, Allc, At
<1>3. CASE Push \/ Pop \/ Cast \/ Calculate \/ Bump \/ Not
    BY <1>3 DEF Push, Pop, Cast, Calculate, Bump, Not, At
<1>4. CASE Jmp \/ Jc \/ Call \/ Ret \/ Skip \/ Halt
    BY <1>4 DEF Jmp, Jc, Call, Ret, Skip, Halt, At
<1>5. ~RunOff
    BY DEF RunOff, Stop
<1>6. QED
    BY <1>1, <1>2, <1>3, <1>4, <1>5 DEF Next

LEMMA OnlyMov ==
    ASSUME OneInv, Next, status' = "run", Line.op = "mov"
    PROVE  Mov
<1>1. ~CopyStep /\ ~CopyEnd /\ ~RunOff
    BY DEF OneInv, CopyStep, CopyEnd, RunOff, Stop
<1>2. ~(CpyStart \/ Size \/ Var \/ Loc \/ Allc)
    BY DEF CpyStart, Size, Var, Loc, Allc, At
<1>3. ~(Push \/ Pop \/ Cast \/ Calculate \/ Bump \/ Not)
    BY DEF Push, Pop, Cast, Calculate, Bump, Not, At, CastOps, MathOps, MathfOps, InPlaceOps
<1>4. ~(Jmp \/ Jc \/ Call \/ Ret \/ Skip \/ Halt)
    BY DEF Jmp, Jc, Call, Ret, Skip, Halt, At, SkipOps
<1>5. QED
    BY <1>1, <1>2, <1>3, <1>4 DEF Next

LEMMA EmptyCells == ASSUME NEW m PROVE Cells(m, 0) = <<>>
BY DEF Cells

LEMMA OnlyStackLines ==
    ASSUME OneInv, Next, status' = "run", ~Push, ~Pop, ~Call, ~Ret
    PROVE  LineKind = "other"
<1>1. ~CopyStep /\ ~CopyEnd /\ ~RunOff
    BY DEF OneInv, CopyStep, CopyEnd, RunOff, Stop
<1>2. Line.op \notin {"push", "pop", "call", "ret"}
    <2>1. CASE Mov \/ CpyStart \/ Size \/ Var \/ Loc \/ Allc
        BY <2>1 DEF Mov, CpyStart, Size, Var, Loc, Allc, At
    <2>2. CASE Cast \/ Calculate \/ Bump \/ Not
        BY <2>2 DEF Cast, Calculate, Bump, Not, At, CastOps, MathOps, MathfOps, InPlaceOps
    <2>3. CASE Jmp \/ Jc \/ Skip \/ Halt
        BY <2>3 DEF Jmp, Jc, Skip, Halt, At, SkipOps
    <2>4. QED
        BY <1>1, <2>1, <2>2, <2>3 DEF Next
<1>3. QED
    BY <1>2 DEF LineKind

\* The line that makes the stack.
LEMMA SetupStack ==
    ASSUME OneInv, Next, status' = "run", ptr \in SetupLines
    PROVE  StackDepth' = 0 /\ StackValues' = <<>>
<1>1. ptr \in DOMAIN Prog.code /\ TypeOK
    BY LineRuns DEF OneInv
<1>2. /\ Line.op = "mov" /\ IsCell(Prog, Arg(1), Pointer)
      /\ Arg(2).t = "Num" /\ Long(Arg(2).v) = Base
    BY <1>1, OneLine
<1>3. GetLoc(Entered, Arg(1)) = [err |-> "ok", loc |-> Pointer] /\ Arg(1).t # "Ltl"
    BY <1>2, CellLoc DEF OneInv
<1>4. Mov
    BY <1>2, OnlyMov
<1>5. mem' = [Entered EXCEPT ![Pointer] = GetValue(Entered, Arg(2)).val]
    BY <1>1, <1>3, <1>4, MovWrites
<1>6. GetValue(Entered, Arg(2)).val = Arg(2).v
    BY <1>2 DEF GetValue
<1>7. Pointer \in DOMAIN Entered
    BY <1>1, StackMem DEF Entered
<1>8. Long(mem'[Pointer]) = Base
    BY <1>2, <1>5, <1>6, <1>7
<1>9. StackDepth' = 0
    BY <1>8, StackPlace DEF StackDepth
<1>10. (IF StackDepth' > 0 THEN StackDepth' ELSE 0) = 0
    BY <1>9
<1>11. QED
    BY <1>9, <1>10, EmptyCells, StackIsCells

\* Any other line leaves the pointer and the cells above Base alone.
LEMMA Untouched ==
    ASSUME OneInv, Next, status' = "run", LineKind = "other", ptr \notin SetupLines,
           NEW i \in DOMAIN mem, i = Pointer \/ i > Base
    PROVE  mem'[i] = mem[i]
<1>1. status = "run" /\ ptr \in DOMAIN Prog.code /\ ~copy.on /\ TypeOK
    BY LineRuns DEF OneInv
<1>2. Line.op \notin {"push", "pop", "call", "ret"}
    BY <1>1 DEF LineKind
<1>3. i \in Int /\ i >= 2 /\ Base \in Nat /\ Pointer \in Nat
    BY <1>1, StackMem, StackPlace
<1>4. CASE Line.op \in {"mov"} \cup InPlaceOps \cup CastOps
    <2>1. PICK cell \in 0..Base \ {Pointer} : IsCell(Prog, Arg(1), cell)
        BY <1>1, <1>4, OneLine
    <2>2. GetLoc(Entered, Arg(1)) = [err |-> "ok", loc |-> cell] /\ Arg(1).t # "Ltl"
        BY <2>1, CellLoc DEF OneInv
    <2>3. cell \in Nat /\ Abs(cell) = cell /\ cell # i
        BY <1>3, <2>1 DEF Abs
    <2>4. Designated \subseteq {cell}
        BY <1>4, <2>2, <2>3 DEF Designated, InPlaceOps, CastOps
    <2>5. FrameStep
        BY <1>1, NextFrame
    <2>6. QED
        BY <1>1, <1>3, <2>2, <2>3, <2>4, <2>5 DEF FrameStep
<1>5. CASE Line.op \notin {"mov"} \cup InPlaceOps \cup CastOps
    <2>1. Designated = {}
        BY <1>2, <1>5 DEF Designated, InPlaceOps, CastOps
    <2>2. FrameStep
        BY <1>1, NextFrame
    <2>3. QED
        BY <1>1, <1>3, <1>5, <2>1, <2>2 DEF FrameStep
<1>6. QED
    BY <1>4, <1>5

\* Memory only grows, by cells that are zero.
LEMMA GrowsByZero ==
    ASSUME OneInv, OneInv', Next
    PROVE  /\ DOMAIN mem \subseteq DOMAIN mem'
           /\ \A i \in DOMAIN mem' \ DOMAIN mem : mem'[i] = Zero
<1>1. TypeOK /\ TypeOK'
    BY DEF OneInv
<1>2. DOMAIN mem = 0..size - 1 /\ DOMAIN mem' = 0..size' - 1 /\ size \in Nat
    BY <1>1, StackMem DEF TypeOK
<1>3. CASE size' = size
    BY <1>2, <1>3
<1>4. CASE Allc
    <2> DEFINE n == GetValue(Entered, Arg(1))
               k == IF Long(n.val) < 0 THEN 0 ELSE Long(n.val)
               grown == [i \in 0..size + k - 1 |-> IF i < size THEN Entered[i] ELSE Zero]
    <2>1. size' = size \/ (mem' = grown /\ size' = size + k)
        BY <1>4 DEF Allc, Stop
    <2>2. k \in Nat
        <3>1. At({"allc"}) /\ Line.op = "allc" /\ Rest /\ Holds(Value)
            BY <1>1, <1>4, TypeOKParts DEF Allc, At
        <3>2. Signature(Line.op) = <<VALUE>>
            BY <3>1, Signatures
        <3>3. Arg(1).t \in VALUE /\ IsTok(Prog, Arg(1))
            BY <3>1, <3>2, ArgFacts
        <3>4. Entered \in [0..size - 1 -> Value]
            BY <3>1, CellSets, EnteredType
        <3>5. Long(n.val) \in Longs
            BY <3>1, <3>3, <3>4, CellSets, GetValueType DEF Rest
        <3>6. \A x \in Longs : (IF x < 0 THEN 0 ELSE x) \in Nat
            BY LongsAreInts
        <3> HIDE DEF n
        <3>7. QED
            BY <3>5, <3>6
    <2> HIDE DEF k, n
    <2>3. CASE mem' = grown /\ size' = size + k
        <3>1. DOMAIN mem \subseteq DOMAIN mem'
            BY <1>2, <2>2, <2>3
        <3>2. ASSUME NEW i \in DOMAIN mem' \ DOMAIN mem PROVE mem'[i] = Zero
            <4>1. i \in 0..size + k - 1 /\ ~(i < size)
                BY <1>2, <2>2, <2>3
            <4>2. QED
                BY <2>3, <4>1
        <3>3. QED
            BY <3>1, <3>2
    <2>4. QED
        BY <1>3, <2>1, <2>3
<1>5. size' = size \/ Allc
    <2> USE DEF Stop, Dispatch, Finish, Answer
    <2>1. CASE Mov \/ CpyStart \/ CopyStep \/ CopyEnd \/ Size \/ Var \/ Loc
        BY <2>1 DEF Mov, CpyStart, CopyStep, CopyEnd, Size, Var, Loc
    <2>2. CASE Push \/ Pop \/ Cast
        BY <2>2 DEF Push, Pop, Cast
    <2>3. CASE Calculate \/ Bump \/ Not
        BY <2>3 DEF Calculate, Bump, Not
    <2>4. CASE Jmp \/ Jc \/ Call \/ Ret
        BY <2>4 DEF Jmp, Jc, Call, Ret
    <2>5. CASE Skip \/ Halt \/ RunOff
        BY <2>5 DEF Skip, Halt, RunOff
    <2>6. QED
        BY <2>1, <2>2, <2>3, <2>4, <2>5 DEF Next
<1>6. QED
    BY <1>3, <1>4, <1>5

LEMMA WorkStack ==
    ASSUME OneInv, OneInv', Next, status' = "run", StackDepth >= 0, LineKind = "other"
    PROVE  Abstract!Work
<1>1. TypeOK /\ DOMAIN mem = 0..size - 1 /\ Pointer \in DOMAIN mem
    BY StackMem DEF OneInv
<1>2. CASE ptr \in SetupLines
    <2>1. StackDepth' = 0 /\ StackValues' = <<>>
        BY <1>2, SetupStack
    <2>2. (StackDepth < 0)' = FALSE
        BY <2>1
    <2>3. QED
        BY <1>2, <2>1, <2>2 DEF Abstract!Work
<1>3. CASE ptr \notin SetupLines
    <2>1. mem'[Pointer] = mem[Pointer]
        BY <1>1, <1>3, Untouched
    <2>2. StackDepth' = StackDepth /\ StackDepth \in Int
        BY <1>1, <2>1, DepthType DEF StackDepth
    <2>3. ASSUME NEW k \in Nat, k >= 1 PROVE Cell(mem', k) = Cell(mem, k)
        <3>1. Base + k > Base
            BY <2>3, StackPlace
        <3>2. CASE Base + k \in DOMAIN mem
            BY <1>3, <3>1, <3>2, Untouched, GrowsByZero DEF Cell
        <3>3. CASE Base + k \notin DOMAIN mem
            BY <3>3, GrowsByZero DEF Cell
        <3>4. QED
            BY <3>2, <3>3
    <2>4. ASSUME NEW n \in Nat PROVE Cells(mem', n) = Cells(mem, n)
        BY <2>3 DEF Cells
    <2>5. StackValues' = StackValues
        <3>1. (IF StackDepth > 0 THEN StackDepth ELSE 0) \in Nat
            BY <2>2
        <3>2. QED
            BY <2>2, <2>4, <3>1, StackIsCells
    <2>6. (StackDepth < 0)' = FALSE
        BY <2>2
    <2>7. QED
        BY <1>3, <2>5, <2>6 DEF Abstract!Work
<1>4. QED
    BY <1>2, <1>3

(***************************************************************************)
(* The theorem.                                                            *)
(***************************************************************************)
LEMMA StackInit == ASSUME Init PROVE Abstract!Init
<1>1. TypeOK /\ OneStack(Prog) /\ IsProgram(Prog)
    BY OneInit, StackAssumption, ProgFacts DEF OneInv, TypeOK, Prog
<1>2. Pointer \in DOMAIN mem /\ DOMAIN mem = 0..size - 1 /\ mem = Prog.cells /\ size = Prog.size
    BY <1>1, StackMem DEF Init
<1>3. mem[Pointer] \in [type : {"L"}, as : {"L"}, n : Longs]
    BY <1>1, <1>2 DEF IsProgram
<1>4. Long(mem[Pointer]) < Base
    BY <1>1, <1>2, <1>3 DEF OneStack, Long
<1>5. StackDepth < 0
    BY <1>1, <1>4, StackMem, StackPlace DEF StackDepth
<1>6. QED
    BY <1>5 DEF Init, Abstract!Init

LEMMA StackStep ==
    ASSUME OneInv, OneInv', [Next]_vars
    PROVE  [Abstract!Next]_(Abstract!vars)
<1>1. CASE UNCHANGED vars
    <2>1. /\ UNCHANGED <<status, ptr, mem>>
          /\ UNCHANGED <<LineKind, StackDepth, StackValues>>
        BY <1>1 DEF vars, LineKind, StackDepth, StackValues, Line, Prog
    <2>2. QED
        BY <2>1 DEF Abstract!vars
<1>2. CASE Next
    <2>1. status = "run"
        <3>1. CASE CopyStep \/ CopyEnd \/ RunOff
            BY <3>1 DEF CopyStep, CopyEnd, RunOff
        <3>2. CASE Mov \/ CpyStart \/ Size \/ Var \/ Loc \/ Allc
            BY <3>2 DEF Mov, CpyStart, Size, Var, Loc, Allc, At
        <3>3. CASE Push \/ Pop \/ Cast \/ Calculate \/ Bump \/ Not
            BY <3>3 DEF Push, Pop, Cast, Calculate, Bump, Not, At
        <3>4. CASE Jmp \/ Jc \/ Call \/ Ret \/ Skip \/ Halt
            BY <3>4 DEF Jmp, Jc, Call, Ret, Skip, Halt, At
        <3>5. QED
            BY <1>2, <3>1, <3>2, <3>3, <3>4 DEF Next
    <2>2. CASE StackDepth < 0
        BY <2>1, <2>2 DEF Abstract!Next
    <2>3. CASE status' # "run"
        <3>1. (status = "run")' = FALSE
            BY <2>3
        <3>2. QED
            BY <2>1, <3>1 DEF Abstract!Next, Abstract!Stop
    <2>4. CASE status' = "run" /\ StackDepth >= 0
        <3>1. (status = "run")' = TRUE
            BY <2>4
        <3>2. Abstract!Push \/ Abstract!Pop \/ Abstract!Call \/ Abstract!Ret \/ Abstract!Work
            <4>1. CASE Push
                BY <2>4, <4>1, PushStack
            <4>2. CASE Pop
                BY <2>4, <4>2, PopStack
            <4>3. CASE Call
                BY <2>4, <4>3, CallStacks
            <4>4. CASE Ret
                BY <2>4, <4>4, RetStack
            <4>5. CASE ~Push /\ ~Pop /\ ~Call /\ ~Ret
                <5>1. LineKind = "other"
                    BY <1>2, <2>4, <4>5, OnlyStackLines
                <5>2. QED
                    BY <1>2, <2>4, <5>1, WorkStack
            <4>6. QED
                BY <4>1, <4>2, <4>3, <4>4, <4>5
        <3>3. QED
            BY <2>1, <3>1, <3>2 DEF Abstract!Next
    <2>5. StackDepth < 0 \/ StackDepth >= 0
        BY DepthType DEF OneInv
    <2>6. QED
        BY <2>2, <2>3, <2>4, <2>5
<1>3. QED
    BY <1>1, <1>2

\* push, pop, call and ret are a stack, for every program that keeps to one:
\* values come back in the reverse order they went in, ret goes on where its
\* call left off, and the lines between them change nothing of it (opdef.c's
\* four handlers, and every handler for what it leaves alone).
THEOREM StackImplemented == Spec => StackSpec
<1>1. Init => OneInv /\ Abstract!Init
    BY OneInit, StackInit
<1>2. OneInv /\ [Next]_vars => OneInv'
    BY OneStep
<1>3. OneInv /\ OneInv' /\ [Next]_vars => [Abstract!Next]_(Abstract!vars)
    BY StackStep
<1>4. QED
    BY <1>1, <1>2, <1>3, PTL DEF Spec, StackSpec, Abstract!Spec
=============================================================================
