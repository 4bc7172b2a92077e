---------------------------- MODULE MachineProofs ----------------------------
(***************************************************************************)
(* Theorems about the run loop, for every program the loader can leave and *)
(* every size of long, double and memory.                                  *)
(*                                                                         *)
(* The argument for memory is made once for any set S of cells that has    *)
(* all sound cells: an instruction that handles tag and number together    *)
(* keeps memory inside S.  With S = Value it gives type correctness, with  *)
(* S the sound cells it gives TagsTellTruth.                               *)
(***************************************************************************)
EXTENDS Machine, TLAPS

(***************************************************************************)
(* Values: longs, doubles and cells.                                       *)
(***************************************************************************)
LEMMA WidthFacts ==
    /\ LongMax \in Nat
    /\ DoubleMax \in Nat
    /\ DoubleMax <= LongMax
    /\ Width \in Nat
    /\ Width > 0
BY ValuesAssumption DEF Width

LEMMA ModuloRange ==
    ASSUME NEW n \in Int, NEW d \in Nat, d > 0
    PROVE  /\ n % d \in Int
           /\ 0 <= n % d
           /\ n % d < d
OBVIOUS

LEMMA ToSizeType == ASSUME NEW n \in Int PROVE ToSize(n) \in Sizes
BY WidthFacts, ModuloRange DEF ToSize, Sizes, Width

LEMMA WrapType == ASSUME NEW n \in Int PROVE Wrap(n) \in Longs
<1>1. n + LongMax + 1 \in Int
    BY WidthFacts
<1>2. ToSize(n + LongMax + 1) \in Sizes
    BY <1>1, ToSizeType
<1>3. QED
    BY <1>2, WidthFacts DEF Wrap, Sizes, Width, Longs, LongMin

LEMMA ToDoubleType == ASSUME NEW n \in Int PROVE ToDouble(n) \in Doubles
BY WidthFacts DEF ToDouble, Doubles

LEMMA LongsAreInts == Longs \subseteq Int /\ Doubles \subseteq Int /\ 0 \in Longs /\ 0 \in Doubles
BY WidthFacts DEF Longs, LongMin, Doubles

LEMMA ToSizeInt == ASSUME NEW n \in Longs PROVE ToSize(n) \in Int
BY ToSizeType, WidthFacts, LongsAreInts DEF Sizes

LEMMA LongVType == ASSUME NEW n \in Longs PROVE LongV(n) \in Value /\ Sound(LongV(n))
BY DEF LongV, Value, Sound

LEMMA DoubleVType == ASSUME NEW d \in Doubles PROVE DoubleV(d) \in Value /\ Sound(DoubleV(d))
BY DEF DoubleV, Value, Sound

LEMMA ZeroType == Zero \in Value /\ Sound(Zero)
BY LongsAreInts, LongVType DEF Zero

LEMMA LongType == ASSUME NEW v \in Value PROVE Long(v) \in Longs
BY ValuesAssumption DEF Long, Value

LEMMA DoubleType == ASSUME NEW v \in Value PROVE Double(v) \in Doubles
BY ValuesAssumption DEF Double, Value

LEMMA AsDoubleType == ASSUME NEW v \in Value PROVE AsDouble(v) \in Doubles
BY LongType, DoubleType, ToDoubleType, LongsAreInts DEF AsDouble

LEMMA SetLongType == ASSUME NEW v \in Value, NEW n \in Longs PROVE SetLong(v, n) \in Value
BY DEF SetLong, Value

LEMMA SetDoubleType == ASSUME NEW v \in Value, NEW d \in Doubles PROVE SetDouble(v, d) \in Value
BY DEF SetDouble, Value

LEMMA TruthType == ASSUME NEW b \in BOOLEAN PROVE Truth(b) \in Longs /\ Truth(b) \in Doubles
BY ValuesAssumption DEF Truth, Longs, LongMin, Doubles

LEMMA AbsType == ASSUME NEW n \in Longs PROVE Abs(n) \in Nat /\ Abs(n) <= LongMax + 1
BY WidthFacts DEF Abs, Longs, LongMin

\* The remainder of two longs is a long, by C's rule for its sign.
LEMMA RemainderType ==
    ASSUME NEW l \in Longs, NEW r \in Longs, r # 0
    PROVE  Remainder(l, r) \in Longs
<1>1. Abs(r) \in Nat /\ Abs(r) > 0 /\ Abs(r) <= LongMax + 1
    BY AbsType, LongsAreInts DEF Abs
<1>2. l \in Int /\ -l \in Int
    BY LongsAreInts
<1>3. CASE l < 0
    <2>1. (-l) % Abs(r) \in Int /\ 0 <= (-l) % Abs(r) /\ (-l) % Abs(r) < Abs(r)
        BY <1>1, <1>2, ModuloRange
    <2>2. QED
        BY <1>1, <1>3, <2>1, WidthFacts DEF Remainder, Longs, LongMin
<1>4. CASE ~(l < 0)
    <2>1. l % Abs(r) \in Int /\ 0 <= l % Abs(r) /\ l % Abs(r) < Abs(r)
        BY <1>1, <1>2, ModuloRange
    <2>2. QED
        BY <1>1, <1>4, <2>1, WidthFacts DEF Remainder, Longs, LongMin
<1>5. QED
    BY <1>3, <1>4

\* What an integer instruction computes from two longs is a long.
LEMMA MathType ==
    ASSUME NEW op \in MathOps, NEW l \in Longs, NEW r \in Longs, op = "mod" => r # 0
    PROVE  Math(op, l, r) \in Longs
<1>1. l \in Int /\ r \in Int
    BY LongsAreInts
<1>2. l + r \in Int /\ l - r \in Int /\ l * r \in Int
    BY <1>1
<1>3. Wrap(l + r) \in Longs /\ Wrap(l - r) \in Longs /\ Wrap(l * r) \in Longs
    BY <1>2, WrapType
<1>4. op = "mod" => Remainder(l, r) \in Longs
    BY RemainderType
<1>5. 0 \in Longs /\ 1 \in Longs
    BY TruthType DEF Truth
<1>6. CASE op \in {"add", "sub", "mul", "div"}
    BY <1>3, <1>6 DEF Math
<1>7. CASE op = "mod"
    BY <1>4, <1>7 DEF Math
<1>8. CASE op \in {"eq", "ne", "gt", "lt", "and", "or"}
    BY <1>5, <1>8 DEF Math, Truth
<1>9. QED
    BY <1>6, <1>7, <1>8 DEF MathOps

\* What a float instruction computes from two doubles is a double.
LEMMA MathfType ==
    ASSUME NEW op \in MathfOps, NEW l \in Doubles, NEW r \in Doubles
    PROVE  Mathf(op, l, r) \in Doubles
<1>1. l + r \in Int /\ l - r \in Int /\ l * r \in Int
    BY LongsAreInts
<1>2. ToDouble(l + r) \in Doubles /\ ToDouble(l - r) \in Doubles /\ ToDouble(l * r) \in Doubles
    BY <1>1, ToDoubleType
<1>3. 0 \in Doubles /\ 1 \in Doubles
    BY TruthType DEF Truth
<1>4. CASE op \in {"addf", "subf", "mulf", "divf"}
    BY <1>2, <1>4 DEF Mathf
<1>5. CASE op \in {"eqf", "nef", "gtf", "ltf"}
    BY <1>3, <1>5 DEF Mathf, Truth
<1>6. QED
    BY <1>4, <1>5 DEF MathfOps

(***************************************************************************)
(* The parts of the type invariant.                                        *)
(***************************************************************************)
Errs == {"ok", "InvalidMemAccess", "CannotWriteToNMem", "NotInteger", "undefined"}

SoundCells == {v \in Value : Sound(v)}
CellSet(S) == S \in SUBSET Value /\ SoundCells \subseteq S

Holds(S) == mem \in [0..size - 1 -> S]

\* TypeOK without the cells.
Rest ==
    /\ prog \in DOMAIN Loaded
    /\ size \in Registers + 2..MaxMem
    /\ var \in [DOMAIN Prog.vars -> Longs]
    /\ ptr \in Sizes
    /\ status \in Errs \cup {"run"}
    /\ copy \in [on : BOOLEAN, left : Sizes, des : Longs, src : Longs]

LEMMA TypeOKParts == TypeOK <=> Rest /\ Holds(Value)
BY DEF TypeOK, Rest, Holds, Errs

(***************************************************************************)
(* Sizes and programs.                                                     *)
(***************************************************************************)
LEMMA SizeFacts ==
    ASSUME Rest
    PROVE  /\ Registers \in Nat
           /\ MaxMem \in Nat
           /\ MaxMem <= LongMax
           /\ size \in Nat
           /\ size >= 2
           /\ size <= MaxMem
           /\ size \in Longs
BY InstructionsAssumption, WidthFacts DEF Rest, Longs, LongMin

LEMMA CellSets == CellSet(Value) /\ CellSet(SoundCells)
BY DEF CellSet, SoundCells

LEMMA ProgFacts == ASSUME prog \in DOMAIN Loaded PROVE IsProgram(Prog)
BY MachineAssumption DEF Prog

LEMMA LineFacts ==
    ASSUME Rest, NEW ops, At(ops)
    PROVE  /\ IsLine(Prog, Line)
           /\ Line.op \in ops
           /\ ptr \in Int
           /\ ptr \in Longs
           /\ status = "run"
<1>1. IsProgram(Prog)
    BY ProgFacts DEF Rest
<1>2. ptr \in DOMAIN Prog.code
    BY DEF At
<1>3. PICK n \in 1..LongMax : DOMAIN Prog.code = 0..n - 1
    BY <1>1 DEF IsProgram
<1>4. QED
    BY <1>1, <1>2, <1>3, WidthFacts DEF At, IsProgram, Line, Longs, LongMin

(***************************************************************************)
(* Memory and operands.                                                    *)
(***************************************************************************)
LEMMA MemAtType ==
    ASSUME NEW S, CellSet(S), NEW D, NEW m \in [D -> S], NEW i
    PROVE  MemAt(m, i) \in [err : Errs, val : S]
<1>1. Zero \in S
    BY ZeroType DEF CellSet, SoundCells
<1>2. QED
    BY <1>1 DEF MemAt, Errs

LEMMA FollowType ==
    ASSUME NEW S, CellSet(S), NEW D, NEW m \in [D -> S], NEW r \in [err : Errs, val : S]
    PROVE  Follow(m, r) \in [err : Errs, val : S]
BY MemAtType DEF Follow, Errs

LEMMA GetValueIdxType ==
    ASSUME NEW S, CellSet(S), NEW D, NEW m \in [D -> S],
           NEW tok, tok.t = "Idx", IsTok(Prog, tok)
    PROVE  GetValueIdx(m, tok) \in [err : Errs, val : S]
<1> DEFINE R == [err : Errs, val : S]
           first == MemAt(m, IF tok.base = "Num" THEN tok.idx ELSE var[tok.idx])
           layer == IF tok.base = "Num" THEN tok.depth ELSE tok.depth + 1
<1>1. first \in R
    BY MemAtType
<1>2. Follow(m, first) \in R
    BY <1>1, FollowType
<1>3. Follow(m, Follow(m, first)) \in R
    BY <1>2, FollowType
<1>4. Follow(m, Follow(m, Follow(m, first))) \in R
    BY <1>3, FollowType
<1>5. layer \in 0..3
    BY DEF IsTok, MaxNest
<1>6. GetValueIdx(m, tok) =
        CASE layer = 0 -> first
          [] layer = 1 -> Follow(m, first)
          [] layer = 2 -> Follow(m, Follow(m, first))
          [] layer = 3 -> Follow(m, Follow(m, Follow(m, first)))
    BY DEF GetValueIdx
<1> HIDE DEF R, first, layer
<1>7. GetValueIdx(m, tok) \in R
    BY <1>1, <1>2, <1>3, <1>4, <1>5, <1>6
<1>8. QED
    BY <1>7 DEF R

LEMMA GetValueSymType ==
    ASSUME prog \in DOMAIN Loaded, NEW S, CellSet(S), NEW tok
    PROVE  GetValueSym(tok) \in [err : Errs, val : S]
<1>1. Zero \in S
    BY ZeroType DEF CellSet, SoundCells
<1>2. CASE tok.idx \in DOMAIN Prog.labels
    <2>1. IsProgram(Prog)
        BY ProgFacts
    <2>2. PICK n \in 1..LongMax : DOMAIN Prog.code = 0..n - 1
        BY <2>1 DEF IsProgram
    <2>3. Prog.labels[tok.idx] \in DOMAIN Prog.code
        BY <1>2, <2>1 DEF IsProgram
    <2>4. Prog.labels[tok.idx] \in Longs
        BY <2>2, <2>3, WidthFacts DEF Longs, LongMin
    <2>5. LongV(Prog.labels[tok.idx]) \in S
        BY <2>4, LongVType DEF CellSet, SoundCells
    <2>6. QED
        BY <1>2, <2>5 DEF GetValueSym, Errs
<1>3. CASE tok.idx \notin DOMAIN Prog.labels
    BY <1>1, <1>3 DEF GetValueSym, Errs
<1>4. QED
    BY <1>2, <1>3

\* What an operand denotes comes from the program or from memory.
LEMMA GetValueType ==
    ASSUME prog \in DOMAIN Loaded, NEW S, CellSet(S), NEW D, NEW m \in [D -> S],
           NEW tok, tok.t \in VALUE, IsTok(Prog, tok)
    PROVE  /\ GetValue(m, tok) \in [err : Errs, val : S]
           /\ Long(GetValue(m, tok).val) \in Longs
           /\ AsDouble(GetValue(m, tok).val) \in Doubles
<1>1. GetValue(m, tok) \in [err : Errs, val : S]
    <2>1. CASE tok.t = "Num"
        BY <2>1 DEF GetValue, IsTok, CellSet, SoundCells, Errs
    <2>2. CASE tok.t = "Var"
        BY <2>2, MemAtType DEF GetValue
    <2>3. CASE tok.t = "Idx"
        BY <2>3, GetValueIdxType DEF GetValue
    <2>4. CASE tok.t = "Sym"
        BY <2>4, GetValueSymType DEF GetValue
    <2>5. QED
        BY <2>1, <2>2, <2>3, <2>4 DEF VALUE
<1>2. QED
    BY <1>1, LongType, AsDoubleType DEF CellSet

LEMMA LocAtType ==
    ASSUME NEW D, NEW m \in [D -> Value], NEW r \in [err : Errs, loc : Longs]
    PROVE  LocAt(m, r) \in [err : Errs, loc : Longs]
<1>1. MemAt(m, r.loc) \in [err : Errs, val : Value]
    BY MemAtType, CellSets
<1>2. Long(MemAt(m, r.loc).val) \in Longs
    BY <1>1, LongType
<1>3. QED
    BY <1>1, <1>2 DEF LocAt

LEMMA GetLocIdxType ==
    ASSUME Rest, NEW D, NEW m \in [D -> Value], NEW tok, tok.t = "Idx", IsTok(Prog, tok)
    PROVE  GetLocIdx(m, tok) \in [err : Errs, loc : Longs]
<1> DEFINE R == [err : Errs, loc : Longs]
           first == [err |-> "ok", loc |-> IF tok.base = "Num" THEN tok.idx ELSE var[tok.idx]]
           start == IF tok.base = "Num" THEN first ELSE LocAt(m, first)
<1>1. first \in R
    BY DEF IsTok, Rest, Errs
<1>2. start \in R
    BY <1>1, LocAtType
<1>3. LocAt(m, start) \in R
    BY <1>2, LocAtType
<1>4. GetLocIdx(m, tok) = IF tok.depth = 2 THEN LocAt(m, start) ELSE start
    BY DEF GetLocIdx
<1> HIDE DEF R, start
<1>5. GetLocIdx(m, tok) \in R
    BY <1>2, <1>3, <1>4
<1>6. QED
    BY <1>5 DEF R

\* A pointer operand denotes a long, in memory or not.
LEMMA GetLocType ==
    ASSUME Rest, NEW D, NEW m \in [D -> Value], NEW tok, tok.t \in PTR, IsTok(Prog, tok)
    PROVE  GetLoc(m, tok) \in [err : Errs, loc : Longs]
<1>1. CASE tok.t = "Var"
    BY <1>1 DEF GetLoc, IsTok, Rest, Errs
<1>2. CASE tok.t = "Idx"
    BY <1>2, GetLocIdxType DEF GetLoc
<1>3. CASE tok.t = "Ltl"
    BY <1>3, WidthFacts DEF GetLoc, IsTok, Errs, Longs, LongMin
<1>4. QED
    BY <1>1, <1>2, <1>3 DEF PTR

LEMMA WriteLocsType ==
    ASSUME Rest, NEW D, NEW m \in [D -> Value], NEW tok, tok.t \in PTR, IsTok(Prog, tok),
           NEW w \in WriteLocs(m, tok)
    PROVE  w \in [err : Errs, loc : Longs]
BY GetLocType, LongsAreInts DEF WriteLocs, Errs

(***************************************************************************)
(* Steps: a handler that ends with an error, or goes on with new cells.    *)
(***************************************************************************)
LEMMA EnteredType ==
    ASSUME Rest, NEW S, CellSet(S), Holds(S), NEW ops, At(ops)
    PROVE  /\ Entered \in [0..size - 1 -> S]
           /\ Entered \in [0..size - 1 -> Value]
<1>1. LongV(ptr) \in S
    BY LineFacts, LongVType DEF CellSet, SoundCells
<1>2. QED
    BY <1>1 DEF Entered, Holds, CellSet

LEMMA StopKeeps ==
    ASSUME Rest, NEW S, NEW result \in Errs, NEW m \in [0..size - 1 -> S], Stop(result, m)
    PROVE  Rest' /\ Holds(S)'
BY DEF Stop, Rest, Holds, Prog, Errs

LEMMA NextLineType == ASSUME NEW line \in Int PROVE (line + 1) % Width \in Sizes
<1>1. line + 1 \in Int
    OBVIOUS
<1>2. QED
    BY <1>1, ToSizeType DEF ToSize

LEMMA DispatchKeeps ==
    ASSUME Rest, NEW S, NEW m \in [0..size - 1 -> S], NEW line \in Int, Dispatch(m, line),
           var' \in [DOMAIN Prog.vars -> Longs]
    PROVE  Rest' /\ Holds(S)'
BY NextLineType DEF Dispatch, Rest, Holds, Prog

LEMMA FinishKeeps ==
    ASSUME Rest, NEW S, NEW err \in Errs, NEW m \in [0..size - 1 -> S], NEW line \in Int,
           Finish(err, m, line)
    PROVE  Rest' /\ Holds(S)'
<1>1. CASE err = "ok"
    BY <1>1, DispatchKeeps DEF Finish, Rest
<1>2. CASE err # "ok"
    BY <1>2, StopKeeps DEF Finish
<1>3. QED
    BY <1>1, <1>2

LEMMA AnswerKeeps ==
    ASSUME Rest, NEW S, CellSet(S), Holds(S), NEW ops, At(ops),
           NEW err \in Errs, NEW v \in S, Answer(err, v)
    PROVE  Rest' /\ Holds(S)'
<1>1. Entered \in [0..size - 1 -> S]
    BY EnteredType
<1>2. [Entered EXCEPT ![0] = v] \in [0..size - 1 -> S]
    BY <1>1
<1>3. ptr \in Int
    BY LineFacts
<1>4. QED
    BY <1>1, <1>2, <1>3, FinishKeeps DEF Answer

LEMMA MemSetType ==
    ASSUME NEW S, NEW D, NEW m \in [D -> S], NEW i, NEW v \in S
    PROVE  MemSet(m, i, v) \in [D -> S]
BY DEF MemSet

LEMMA ErrTypes ==
    ASSUME NEW m, NEW w \in [err : Errs, loc : Longs]
    PROVE  /\ SetErr(m, w.loc) \in Errs
           /\ WriteErr(m, w) \in Errs
           /\ CellErr(m, w) \in Errs
           /\ StackErr(m, w) \in Errs
BY DEF SetErr, WriteErr, CellErr, StackErr, Errs

LEMMA Signatures ==
    ASSUME NEW op
    PROVE  /\ op \in {"mov", "push", "call"} => Signature(op) = <<PTR, VALUE>>
           /\ op = "cpy" => Signature(op) = <<PTR, PTR, VALUE>>
           /\ op = "var" => Signature(op) = <<SYM, PTR>>
           /\ op \in {"loc", "pop", "ret"} \cup InPlaceOps \cup CastOps => Signature(op) = <<PTR>>
           /\ op \in {"allc", "not", "jmp"} => Signature(op) = <<VALUE>>
           /\ op \in {"jc"} \cup MathOps \cup MathfOps => Signature(op) = <<VALUE, VALUE>>
BY DEF Signature, InPlaceOps, CastOps, SkipOps, MathOps, MathfOps

\* The operands of the next line are what its signature says.
LEMMA ArgFacts ==
    ASSUME Rest, NEW ops, At(ops), NEW k \in DOMAIN Signature(Line.op)
    PROVE  Arg(k).t \in Signature(Line.op)[k] /\ IsTok(Prog, Arg(k))
<1>1. IsLine(Prog, Line)
    BY LineFacts
<1>2. QED
    BY <1>1 DEF IsLine, Arg

(***************************************************************************)
(* The instructions that keep memory in any set of cells.                  *)
(***************************************************************************)
LEMMA MovKeeps ==
    ASSUME Rest, NEW S, CellSet(S), Holds(S), Mov
    PROVE  Rest' /\ Holds(S)'
<1> DEFINE val == GetValue(Entered, Arg(2))
           V(w) == IF WriteErr(Entered, w) = "ok" THEN MemSet(Entered, w.loc, val.val) ELSE Entered
<1>1. At({"mov"})
    BY DEF Mov
<1>2. Line.op = "mov" /\ ptr \in Int
    BY <1>1, LineFacts
<1>3. Signature(Line.op) = <<PTR, VALUE>>
    BY <1>2, Signatures
<1>4. /\ Arg(1).t \in PTR /\ IsTok(Prog, Arg(1))
      /\ Arg(2).t \in VALUE /\ IsTok(Prog, Arg(2))
    BY <1>1, <1>3, ArgFacts
<1>5. Entered \in [0..size - 1 -> S] /\ Entered \in [0..size - 1 -> Value]
    BY <1>1, EnteredType
<1>6. val \in [err : Errs, val : S]
    BY <1>4, <1>5, GetValueType DEF Rest
<1>7. CASE val.err # "ok"
    BY <1>5, <1>6, <1>7, StopKeeps DEF Mov
<1>8. CASE val.err = "ok"
    <2>1. PICK w \in WriteLocs(Entered, Arg(1)) : Finish(WriteErr(Entered, w), V(w), ptr)
        BY <1>8 DEF Mov
    <2>2. w \in [err : Errs, loc : Longs]
        BY <1>4, <1>5, WriteLocsType
    <2>3. V(w) \in [0..size - 1 -> S]
        BY <1>5, <1>6, MemSetType
    <2>4. WriteErr(Entered, w) \in Errs
        BY <2>2, ErrTypes
    <2>5. QED
        BY <1>2, <2>1, <2>3, <2>4, FinishKeeps
<1>9. QED
    BY <1>7, <1>8

LEMMA CpyStartKeeps ==
    ASSUME Rest, NEW S, CellSet(S), Holds(S), CpyStart
    PROVE  Rest' /\ Holds(S)'
<1> DEFINE des == GetLoc(Entered, Arg(1))
           src == GetLoc(Entered, Arg(2))
           n == GetValue(Entered, Arg(3))
           err == IF des.err # "ok" THEN des.err ELSE IF src.err # "ok" THEN src.err ELSE n.err
<1>1. At({"cpy"})
    BY DEF CpyStart
<1>2. Signature(Line.op) = <<PTR, PTR, VALUE>>
    BY <1>1, LineFacts, Signatures
<1>3. /\ Arg(1).t \in PTR /\ IsTok(Prog, Arg(1))
      /\ Arg(2).t \in PTR /\ IsTok(Prog, Arg(2))
      /\ Arg(3).t \in VALUE /\ IsTok(Prog, Arg(3))
    BY <1>1, <1>2, ArgFacts
<1>4. Entered \in [0..size - 1 -> S] /\ Entered \in [0..size - 1 -> Value]
    BY <1>1, EnteredType
<1>5. des \in [err : Errs, loc : Longs] /\ src \in [err : Errs, loc : Longs]
    BY <1>3, <1>4, GetLocType
<1>6. n \in [err : Errs, val : S] /\ Long(n.val) \in Longs
    BY <1>3, <1>4, GetValueType DEF Rest
<1>7. ToSize(Long(n.val)) \in Sizes
    BY <1>6, LongsAreInts, ToSizeType
<1>8. CASE err # "ok"
    <2>1. Stop(err, Entered) /\ err \in Errs
        BY <1>5, <1>6, <1>8 DEF CpyStart
    <2>2. QED
        BY <1>4, <2>1, StopKeeps
<1>9. CASE err = "ok"
    <2>1. /\ mem' = Entered
          /\ copy' = [on |-> TRUE, left |-> ToSize(Long(n.val)), des |-> des.loc, src |-> src.loc]
          /\ UNCHANGED <<prog, size, var, ptr, status>>
        BY <1>9 DEF CpyStart
    <2>2. QED
        BY <1>4, <1>5, <1>7, <2>1 DEF Rest, Holds, Prog
<1>10. QED
    BY <1>8, <1>9

LEMMA CopyTargetType ==
    ASSUME Rest, NEW D, NEW m \in [D -> Value], NEW des
    PROVE  CopyTarget(m, des) \in [err : Errs, loc : Longs]
<1>1. IsProgram(Prog)
    BY ProgFacts DEF Rest
<1>2. 0 \in DOMAIN Prog.vars
    BY <1>1, InstructionsAssumption DEF IsProgram
<1>3. [err |-> "ok", loc |-> var[0]] \in [err : Errs, loc : Longs]
    BY <1>2 DEF Rest, Errs
<1>4. QED
    BY <1>3, LocAtType, LongsAreInts DEF CopyTarget, Errs

LEMMA IdxIncrType == ASSUME NEW i \in Longs PROVE IdxIncr(i) \in Longs
BY WrapType, LongsAreInts DEF IdxIncr

LEMMA CopyStepKeeps ==
    ASSUME Rest, NEW S, CellSet(S), Holds(S), CopyStep
    PROVE  Rest' /\ Holds(S)'
<1> DEFINE val == MemAt(mem, copy.src)
           w == CopyTarget(mem, copy.des)
           err == IF val.err # "ok" THEN val.err ELSE WriteErr(mem, w)
<1>1. mem \in [0..size - 1 -> S] /\ mem \in [0..size - 1 -> Value]
    BY DEF Holds, CellSet
<1>2. val \in [err : Errs, val : S]
    BY <1>1, MemAtType
<1>3. w \in [err : Errs, loc : Longs]
    BY <1>1, CopyTargetType
<1>4. err \in Errs
    BY <1>2, <1>3, ErrTypes
<1>5. CASE err # "ok"
    <2>1. Stop(err, mem)
        BY <1>5 DEF CopyStep
    <2>2. QED
        BY <1>1, <1>4, <2>1, StopKeeps
<1>6. CASE err = "ok"
    <2>1. /\ mem' = MemSet(mem, w.loc, val.val)
          /\ copy' = [on |-> TRUE, left |-> copy.left - 1,
                      des |-> IdxIncr(copy.des), src |-> IdxIncr(copy.src)]
          /\ UNCHANGED <<prog, size, var, ptr, status>>
          /\ copy.left # 0
        BY <1>6 DEF CopyStep
    <2>2. MemSet(mem, w.loc, val.val) \in [0..size - 1 -> S]
        BY <1>1, <1>2, MemSetType
    <2>3. copy.left - 1 \in Sizes
        BY <2>1, WidthFacts DEF Rest, Sizes
    <2>4. IdxIncr(copy.des) \in Longs /\ IdxIncr(copy.src) \in Longs
        BY IdxIncrType DEF Rest
    <2>5. QED
        BY <2>1, <2>2, <2>3, <2>4 DEF Rest, Holds, Prog
<1>7. QED
    BY <1>5, <1>6

LEMMA CopyEndKeeps ==
    ASSUME Rest, NEW S, Holds(S), CopyEnd
    PROVE  Rest' /\ Holds(S)'
<1>1. ptr \in Int /\ (ptr + 1) % Width \in Sizes
    BY NextLineType, WidthFacts DEF Rest, Sizes
<1>2. Idle \in [on : BOOLEAN, left : Sizes, des : Longs, src : Longs]
    BY LongsAreInts, WidthFacts DEF Idle, Sizes
<1>3. QED
    BY <1>1, <1>2 DEF CopyEnd, Rest, Holds, Prog

LEMMA SizeKeeps ==
    ASSUME Rest, NEW S, CellSet(S), Holds(S), Size
    PROVE  Rest' /\ Holds(S)'
<1>1. LongV(size) \in S
    BY SizeFacts, LongVType DEF CellSet, SoundCells
<1>2. At({"size"}) /\ Answer("ok", LongV(size)) /\ "ok" \in Errs
    BY DEF Size, Errs
<1>3. QED
    BY <1>1, <1>2, AnswerKeeps

LEMMA VarKeeps ==
    ASSUME Rest, NEW S, CellSet(S), Holds(S), Var
    PROVE  Rest' /\ Holds(S)'
<1> DEFINE r == GetLoc(Entered, Arg(2))
<1>1. At({"var"})
    BY DEF Var
<1>2. Signature(Line.op) = <<SYM, PTR>> /\ ptr \in Int
    BY <1>1, LineFacts, Signatures
<1>3. Arg(2).t \in PTR /\ IsTok(Prog, Arg(2))
    BY <1>1, <1>2, ArgFacts
<1>4. Entered \in [0..size - 1 -> S] /\ Entered \in [0..size - 1 -> Value]
    BY <1>1, EnteredType
<1>5. r \in [err : Errs, loc : Longs]
    BY <1>3, <1>4, GetLocType
<1>6. CASE r.err # "ok"
    BY <1>4, <1>5, <1>6, StopKeeps DEF Var
<1>7. CASE r.err = "ok"
    <2>1. var' = [var EXCEPT ![Arg(1).idx] = r.loc] /\ Dispatch(Entered, ptr)
        BY <1>7 DEF Var
    <2>2. var' \in [DOMAIN Prog.vars -> Longs]
        BY <1>5, <2>1 DEF Rest
    <2>3. QED
        BY <1>2, <1>4, <2>1, <2>2, DispatchKeeps
<1>8. QED
    BY <1>6, <1>7

LEMMA LocKeeps ==
    ASSUME Rest, NEW S, CellSet(S), Holds(S), Loc
    PROVE  Rest' /\ Holds(S)'
<1> DEFINE r == GetLoc(Entered, Arg(1))
<1>1. At({"loc"}) /\ Answer(r.err, LongV(r.loc))
    BY DEF Loc
<1>2. Signature(Line.op) = <<PTR>>
    BY <1>1, LineFacts, Signatures
<1>3. Arg(1).t \in PTR /\ IsTok(Prog, Arg(1))
    BY <1>1, <1>2, ArgFacts
<1>4. r \in [err : Errs, loc : Longs]
    BY <1>1, <1>3, EnteredType, GetLocType
<1>5. LongV(r.loc) \in S
    BY <1>4, LongVType DEF CellSet, SoundCells
<1>6. QED
    BY <1>1, <1>4, <1>5, AnswerKeeps

LEMMA AllcKeeps ==
    ASSUME Rest, NEW S, CellSet(S), Holds(S), Allc
    PROVE  Rest' /\ Holds(S)'
<1> DEFINE n == GetValue(Entered, Arg(1))
           k == IF Long(n.val) < 0 THEN 0 ELSE Long(n.val)
           err == IF n.err # "ok" THEN n.err ELSE IF size + k > MaxMem THEN "undefined" ELSE "ok"
           grown == [i \in 0..size + k - 1 |-> IF i < size THEN Entered[i] ELSE Zero]
<1>1. At({"allc"})
    BY DEF Allc
<1>2. Signature(Line.op) = <<VALUE>> /\ ptr \in Int
    BY <1>1, LineFacts, Signatures
<1>3. Arg(1).t \in VALUE /\ IsTok(Prog, Arg(1))
    BY <1>1, <1>2, ArgFacts
<1>4. Entered \in [0..size - 1 -> S]
    BY <1>1, EnteredType
<1>5. n \in [err : Errs, val : S] /\ Long(n.val) \in Longs
    BY <1>3, <1>4, GetValueType DEF Rest
<1>6. k \in Nat
    <2>1. \A x \in Longs : (IF x < 0 THEN 0 ELSE x) \in Nat
        BY LongsAreInts
    <2>2. QED
        BY <1>5, <2>1
<1>7. err \in Errs
    BY <1>5 DEF Errs
<1>8. CASE err # "ok"
    <2>1. Stop(err, Entered)
        BY <1>8 DEF Allc
    <2>2. QED
        BY <1>4, <1>7, <2>1, StopKeeps
<1>9. CASE err = "ok"
    <2>1. /\ mem' = grown
          /\ size' = size + k
          /\ ptr' = (ptr + 1) % Width
          /\ UNCHANGED <<prog, var, status, copy>>
        BY <1>9 DEF Allc
    <2>2. ~(size + k > MaxMem)
        BY <1>5, <1>9
    <2> HIDE DEF k
    <2>3. size + k \in Registers + 2..MaxMem
        BY <1>6, <2>2, SizeFacts, InstructionsAssumption DEF Rest
    <2>4. Zero \in S
        BY ZeroType DEF CellSet, SoundCells
    <2>5. \A i \in 0..size + k - 1 : (IF i < size THEN Entered[i] ELSE Zero) \in S
        BY <1>4, <1>6, <2>4, SizeFacts
    <2>6. grown \in [0..size + k - 1 -> S]
        BY <2>5
    <2>7. ptr' \in Sizes
        BY <1>2, <2>1, NextLineType
    <2> HIDE DEF grown
    <2>8. Rest'
        BY <2>1, <2>3, <2>7 DEF Rest, Prog
    <2>9. Holds(S)'
        <3>1. size' - 1 = size + k - 1
            BY <1>6, <2>1, SizeFacts
        <3>2. QED
            BY <2>1, <2>6, <3>1 DEF Holds
    <2>10. QED
        BY <2>8, <2>9
<1>10. QED
    BY <1>8, <1>9

LEMMA CalculateKeeps ==
    ASSUME Rest, NEW S, CellSet(S), Holds(S), Calculate
    PROVE  Rest' /\ Holds(S)'
<1> DEFINE l == GetValue(Entered, Arg(1))
           r == GetValue(Entered, Arg(2))
           traps == Line.op = "mod" /\ Traps(Long(l.val), Long(r.val))
           err == IF l.err # "ok" THEN l.err ELSE IF r.err # "ok" THEN r.err
                  ELSE IF traps THEN "undefined" ELSE "ok"
           result == IF Line.op \in MathOps
                     THEN LongV(Math(Line.op, Long(l.val), Long(r.val)))
                     ELSE DoubleV(Mathf(Line.op, AsDouble(l.val), AsDouble(r.val)))
<1>1. At(MathOps \cup MathfOps)
    BY DEF Calculate
<1>2. Line.op \in MathOps \cup MathfOps
    BY <1>1, LineFacts
<1>3. Signature(Line.op) = <<VALUE, VALUE>>
    BY <1>2, Signatures
<1>4. /\ Arg(1).t \in VALUE /\ IsTok(Prog, Arg(1))
      /\ Arg(2).t \in VALUE /\ IsTok(Prog, Arg(2))
    BY <1>1, <1>3, ArgFacts
<1>5. Entered \in [0..size - 1 -> S]
    BY <1>1, EnteredType
<1>6. /\ l \in [err : Errs, val : S] /\ Long(l.val) \in Longs /\ AsDouble(l.val) \in Doubles
      /\ r \in [err : Errs, val : S] /\ Long(r.val) \in Longs /\ AsDouble(r.val) \in Doubles
    BY <1>4, <1>5, GetValueType DEF Rest
<1>7. err \in Errs
    BY <1>6 DEF Errs
<1>8. CASE err # "ok"
    <2>1. Stop(err, Entered)
        BY <1>8 DEF Calculate
    <2>2. QED
        BY <1>5, <1>7, <2>1, StopKeeps
<1>9. CASE err = "ok"
    <2>1. ~traps
        BY <1>6, <1>9
    <2>2. Line.op = "mod" => Long(r.val) # 0
        BY <2>1 DEF Traps
    <2>3. Answer("ok", result)
        BY <1>9 DEF Calculate
    <2>4. Line.op \in MathOps => Math(Line.op, Long(l.val), Long(r.val)) \in Longs
        BY <1>6, <2>2, MathType
    <2>5. Line.op \in MathfOps => Mathf(Line.op, AsDouble(l.val), AsDouble(r.val)) \in Doubles
        BY <1>6, MathfType
    <2>6. result \in S
        BY <1>2, <2>4, <2>5, LongVType, DoubleVType DEF CellSet, SoundCells
    <2>7. "ok" \in Errs
        BY DEF Errs
    <2>8. QED
        BY <1>1, <2>3, <2>6, <2>7, AnswerKeeps
<1>10. QED
    BY <1>8, <1>9

LEMMA NotKeeps ==
    ASSUME Rest, NEW S, CellSet(S), Holds(S), Not
    PROVE  Rest' /\ Holds(S)'
<1> DEFINE val == GetValue(Entered, Arg(1))
<1>1. At({"not"}) /\ Answer(val.err, LongV(Truth(Long(val.val) = 0)))
    BY DEF Not
<1>2. Signature(Line.op) = <<VALUE>>
    BY <1>1, LineFacts, Signatures
<1>3. Arg(1).t \in VALUE /\ IsTok(Prog, Arg(1))
    BY <1>1, <1>2, ArgFacts
<1>4. val \in [err : Errs, val : S]
    BY <1>1, <1>3, EnteredType, GetValueType DEF Rest
<1>5. Truth(Long(val.val) = 0) \in Longs
    BY TruthType DEF Truth
<1>6. LongV(Truth(Long(val.val) = 0)) \in S
    BY <1>5, LongVType DEF CellSet, SoundCells
<1>7. QED
    BY <1>1, <1>4, <1>6, AnswerKeeps

LEMMA JmpKeeps ==
    ASSUME Rest, NEW S, CellSet(S), Holds(S), Jmp
    PROVE  Rest' /\ Holds(S)'
<1> DEFINE loc == GetValue(Entered, Arg(1))
<1>1. At({"jmp"}) /\ Finish(loc.err, Entered, ToSize(Long(loc.val)))
    BY DEF Jmp
<1>2. Signature(Line.op) = <<VALUE>>
    BY <1>1, LineFacts, Signatures
<1>3. Arg(1).t \in VALUE /\ IsTok(Prog, Arg(1))
    BY <1>1, <1>2, ArgFacts
<1>4. Entered \in [0..size - 1 -> S]
    BY <1>1, EnteredType
<1>5. loc \in [err : Errs, val : S] /\ Long(loc.val) \in Longs
    BY <1>3, <1>4, GetValueType DEF Rest
<1>6. ToSize(Long(loc.val)) \in Int
    BY <1>5, ToSizeInt
<1>7. QED
    BY <1>1, <1>4, <1>5, <1>6, FinishKeeps

LEMMA JcKeeps ==
    ASSUME Rest, NEW S, CellSet(S), Holds(S), Jc
    PROVE  Rest' /\ Holds(S)'
<1> DEFINE cond == GetValue(Entered, Arg(1))
           loc == GetValue(Entered, Arg(2))
<1>1. At({"jc"})
    BY DEF Jc
<1>2. Signature(Line.op) = <<VALUE, VALUE>> /\ ptr \in Int
    BY <1>1, LineFacts, Signatures
<1>3. /\ Arg(1).t \in VALUE /\ IsTok(Prog, Arg(1))
      /\ Arg(2).t \in VALUE /\ IsTok(Prog, Arg(2))
    BY <1>1, <1>2, ArgFacts
<1>4. Entered \in [0..size - 1 -> S]
    BY <1>1, EnteredType
<1>5. /\ cond \in [err : Errs, val : S]
      /\ loc \in [err : Errs, val : S] /\ Long(loc.val) \in Longs
    BY <1>3, <1>4, GetValueType DEF Rest
<1>6. ToSize(Long(loc.val)) \in Int
    BY <1>5, ToSizeInt
<1>7. "ok" \in Errs
    BY DEF Errs
<1>8. CASE cond.err # "ok"
    BY <1>4, <1>5, <1>8, StopKeeps DEF Jc
<1>9. CASE cond.err = "ok" /\ Long(cond.val) = 0
    <2>1. Finish("ok", Entered, ptr)
        BY <1>9 DEF Jc
    <2>2. QED
        BY <1>2, <1>4, <1>7, <2>1, FinishKeeps
<1>10. CASE cond.err = "ok" /\ Long(cond.val) # 0
    <2>1. Finish(loc.err, Entered, ToSize(Long(loc.val)))
        BY <1>10 DEF Jc
    <2>2. QED
        BY <1>4, <1>5, <1>6, <2>1, FinishKeeps
<1>11. QED
    BY <1>8, <1>9, <1>10

LEMMA SkipKeeps ==
    ASSUME Rest, NEW S, CellSet(S), Holds(S), Skip
    PROVE  Rest' /\ Holds(S)'
<1>1. At(SkipOps) /\ Finish("ok", Entered, ptr) /\ "ok" \in Errs
    BY DEF Skip, Errs
<1>2. QED
    BY <1>1, LineFacts, EnteredType, FinishKeeps

LEMMA HaltKeeps ==
    ASSUME Rest, NEW S, CellSet(S), Holds(S), Halt
    PROVE  Rest' /\ Holds(S)'
<1>1. At({"halt"}) /\ Stop("ok", [Entered EXCEPT ![0] = Zero]) /\ "ok" \in Errs
    BY DEF Halt, Errs
<1>2. Entered \in [0..size - 1 -> S] /\ Zero \in S
    BY <1>1, EnteredType, ZeroType DEF CellSet, SoundCells
<1>3. [Entered EXCEPT ![0] = Zero] \in [0..size - 1 -> S]
    BY <1>2
<1>4. QED
    BY <1>1, <1>3, StopKeeps

LEMMA RunOffKeeps ==
    ASSUME Rest, NEW S, Holds(S), RunOff
    PROVE  Rest' /\ Holds(S)'
<1>1. Stop("ok", mem) /\ "ok" \in Errs /\ mem \in [0..size - 1 -> S]
    BY DEF RunOff, Errs, Holds
<1>2. QED
    BY <1>1, StopKeeps

(***************************************************************************)
(* The instructions that work on one member of a cell: they keep cells,    *)
(* but not their soundness.                                                *)
(***************************************************************************)
LEMMA AddLongType ==
    ASSUME NEW D, NEW m \in [D -> Value], NEW i \in D, NEW k \in Int
    PROVE  AddLong(m, i, k) \in [D -> Value]
<1>1. Wrap(Long(m[i]) + k) \in Longs
    <2>1. Long(m[i]) \in Int
        BY LongType, LongsAreInts
    <2>2. Long(m[i]) + k \in Int
        BY <2>1
    <2>3. QED
        BY <2>2, WrapType
<1>2. SetLong(m[i], Wrap(Long(m[i]) + k)) \in Value
    BY <1>1, SetLongType
<1>3. QED
    BY <1>2 DEF AddLong

\* The cell of a pointer that passed the checks can be moved.
LEMMA MovedPointer ==
    ASSUME NEW D, NEW m \in [D -> Value], NEW w,
           CellErr(m, w) = "ok" \/ StackErr(m, w) = "ok", NEW k \in Int
    PROVE  /\ w.loc \in D
           /\ AddLong(m, w.loc, k) \in [D -> Value]
           /\ Long(m[w.loc]) \in Longs
<1>1. w.loc \in D
    BY DEF CellErr, StackErr
<1>2. QED
    BY <1>1, AddLongType, LongType

LEMMA PushKeeps ==
    ASSUME Rest, Holds(Value), Push
    PROVE  Rest' /\ Holds(Value)'
<1> DEFINE w == GetLoc(Entered, Arg(1))
           m == AddLong(Entered, w.loc, 1)
           val == GetValue(m, Arg(2))
           top == Long(m[w.loc])
           err == IF val.err # "ok" THEN val.err ELSE SetErr(m, top)
           n == IF err = "ok" THEN MemSet(m, top, val.val) ELSE m
<1>1. At({"push"})
    BY DEF Push
<1>2. Signature(Line.op) = <<PTR, VALUE>> /\ ptr \in Int
    BY <1>1, LineFacts, Signatures
<1>3. /\ Arg(1).t \in PTR /\ IsTok(Prog, Arg(1))
      /\ Arg(2).t \in VALUE /\ IsTok(Prog, Arg(2))
    BY <1>1, <1>2, ArgFacts
<1>4. Entered \in [0..size - 1 -> Value]
    BY <1>1, CellSets, EnteredType
<1>5. w \in [err : Errs, loc : Longs]
    BY <1>3, <1>4, GetLocType
<1>6. CASE StackErr(Entered, w) # "ok"
    <2>1. Stop(StackErr(Entered, w), Entered) /\ StackErr(Entered, w) \in Errs
        BY <1>5, <1>6, ErrTypes DEF Push
    <2>2. QED
        BY <1>4, <2>1, StopKeeps
<1>7. CASE StackErr(Entered, w) = "ok"
    <2>1. Finish(err, n, ptr)
        BY <1>7 DEF Push
    <2>2. "ok" \in Errs /\ 1 \in Int
        BY DEF Errs
    <2>3. m \in [0..size - 1 -> Value]
        <3> HIDE DEF w
        <3>1. QED
            BY <1>4, <1>7, <2>2, MovedPointer
    <2>4. val \in [err : Errs, val : Value]
        BY <1>3, <2>3, CellSets, GetValueType DEF Rest
    <2>5. err \in Errs
        BY <2>4 DEF SetErr, Errs
    <2>6. n \in [0..size - 1 -> Value]
        <3> HIDE DEF m, val, top, err
        <3>1. QED
            BY <2>3, <2>4, MemSetType
    <2>7. QED
        BY <1>2, <2>1, <2>5, <2>6, FinishKeeps
<1>8. QED
    BY <1>6, <1>7

LEMMA PopKeeps ==
    ASSUME Rest, Holds(Value), Pop
    PROVE  Rest' /\ Holds(Value)'
<1> DEFINE w == GetLoc(Entered, Arg(1))
           val == MemAt(Entered, Long(Entered[w.loc]))
           n == [Entered EXCEPT ![0] = val.val]
<1>1. At({"pop"})
    BY DEF Pop
<1>2. Signature(Line.op) = <<PTR>> /\ ptr \in Int
    BY <1>1, LineFacts, Signatures
<1>3. Arg(1).t \in PTR /\ IsTok(Prog, Arg(1))
    BY <1>1, <1>2, ArgFacts
<1>4. Entered \in [0..size - 1 -> Value]
    BY <1>1, CellSets, EnteredType
<1>5. w \in [err : Errs, loc : Longs]
    BY <1>3, <1>4, GetLocType
<1>6. val \in [err : Errs, val : Value]
    BY <1>4, CellSets, MemAtType
<1>7. CASE StackErr(Entered, w) # "ok"
    <2>1. Stop(StackErr(Entered, w), Entered) /\ StackErr(Entered, w) \in Errs
        BY <1>5, <1>7, ErrTypes DEF Pop
    <2>2. QED
        BY <1>4, <2>1, StopKeeps
<1>8. CASE StackErr(Entered, w) = "ok" /\ val.err # "ok"
    <2>1. Stop(val.err, Entered)
        BY <1>8 DEF Pop
    <2>2. QED
        BY <1>4, <1>6, <2>1, StopKeeps
<1>9. CASE StackErr(Entered, w) = "ok" /\ val.err = "ok"
    <2>1. Finish("ok", AddLong(n, w.loc, -1), ptr)
        BY <1>9 DEF Pop
    <2>2. "ok" \in Errs /\ -1 \in Int
        BY DEF Errs
    <2>3. w.loc \in 0..size - 1
        <3> HIDE DEF w
        <3>1. QED
            BY <1>4, <1>9, <2>2, MovedPointer
    <2>4. n \in [0..size - 1 -> Value]
        BY <1>4, <1>6
    <2>5. AddLong(n, w.loc, -1) \in [0..size - 1 -> Value]
        <3> DEFINE D == 0..size - 1
        <3>1. n \in [D -> Value] /\ w.loc \in D
            BY <2>3, <2>4
        <3> HIDE DEF w, n, D
        <3>2. AddLong(n, w.loc, -1) \in [D -> Value]
            BY <2>2, <3>1, AddLongType
        <3>3. QED
            BY <3>2 DEF D
    <2>6. QED
        BY <1>2, <2>1, <2>2, <2>5, FinishKeeps
<1>10. QED
    BY <1>7, <1>8, <1>9

LEMMA ConvertedType == ASSUME NEW op, NEW v \in Value PROVE Converted(op, v) \in Value
<1>1. /\ SetDouble(v, ToDouble(Long(v))) \in Value
      /\ v.type = "D" => SetLong(v, Double(v)) \in Value
    <2>1. ToDouble(Long(v)) \in Doubles
        BY LongType, LongsAreInts, ToDoubleType
    <2>2. Double(v) \in Longs
        BY DoubleType, WidthFacts DEF Doubles, Longs, LongMin
    <2>3. QED
        BY <2>1, <2>2, SetDoubleType, SetLongType
<1>2. QED
    BY <1>1 DEF Converted

LEMMA CastKeeps ==
    ASSUME Rest, Holds(Value), Cast
    PROVE  Rest' /\ Holds(Value)'
<1> DEFINE w == GetLoc(Entered, Arg(1))
           err == CellErr(Entered, w)
           n == IF err = "ok" THEN [Entered EXCEPT ![w.loc] = Converted(Line.op, @)] ELSE Entered
<1>1. At(CastOps) /\ Finish(err, n, ptr)
    BY DEF Cast
<1>2. Signature(Line.op) = <<PTR>> /\ ptr \in Int
    BY <1>1, LineFacts, Signatures
<1>3. Arg(1).t \in PTR /\ IsTok(Prog, Arg(1))
    BY <1>1, <1>2, ArgFacts
<1>4. Entered \in [0..size - 1 -> Value]
    BY <1>1, CellSets, EnteredType
<1>5. w \in [err : Errs, loc : Longs]
    BY <1>3, <1>4, GetLocType
<1>6. err \in Errs
    BY <1>5, ErrTypes
<1>7. n \in [0..size - 1 -> Value]
    <2> HIDE DEF w, err
    <2>1. QED
        BY <1>4, ConvertedType
<1>8. QED
    BY <1>1, <1>2, <1>6, <1>7, FinishKeeps

LEMMA BumpedType == ASSUME NEW op \in InPlaceOps, NEW v \in Value PROVE Bumped(op, v) \in Value
<1>1. Wrap(Long(v) + 1) \in Longs /\ Wrap(Long(v) - 1) \in Longs
    <2>1. Long(v) \in Int
        BY LongType, LongsAreInts
    <2>2. QED
        BY <2>1, WrapType
<1>2. ToDouble(Double(v) + 1) \in Doubles /\ ToDouble(Double(v) - 1) \in Doubles
    <2>1. Double(v) \in Int
        BY DoubleType, LongsAreInts
    <2>2. QED
        BY <2>1, ToDoubleType
<1>3. QED
    BY <1>1, <1>2, SetLongType, SetDoubleType DEF Bumped, InPlaceOps

LEMMA BumpKeeps ==
    ASSUME Rest, Holds(Value), Bump
    PROVE  Rest' /\ Holds(Value)'
<1> DEFINE w == GetLoc(Entered, Arg(1))
           val == MemAt(Entered, w.loc)
           err == IF w.err # "ok" THEN w.err ELSE val.err
           new == Bumped(Line.op, val.val)
           n == IF err = "ok" THEN MemSet(Entered, w.loc, new) ELSE Entered
<1>1. At(InPlaceOps) /\ Finish(err, n, ptr)
    BY DEF Bump
<1>2. Signature(Line.op) = <<PTR>> /\ ptr \in Int /\ Line.op \in InPlaceOps
    BY <1>1, LineFacts, Signatures
<1>3. Arg(1).t \in PTR /\ IsTok(Prog, Arg(1))
    BY <1>1, <1>2, ArgFacts
<1>4. Entered \in [0..size - 1 -> Value]
    BY <1>1, CellSets, EnteredType
<1>5. w \in [err : Errs, loc : Longs]
    BY <1>3, <1>4, GetLocType
<1>6. val \in [err : Errs, val : Value]
    BY <1>4, CellSets, MemAtType
<1>7. err \in Errs
    BY <1>5, <1>6
<1>8. new \in Value
    BY <1>2, <1>6, BumpedType
<1>9. n \in [0..size - 1 -> Value]
    <2> HIDE DEF w, err, new
    <2>1. QED
        BY <1>4, <1>8, MemSetType
<1>10. QED
    BY <1>1, <1>2, <1>7, <1>9, FinishKeeps

LEMMA RetKeeps ==
    ASSUME Rest, Holds(Value), Ret
    PROVE  Rest' /\ Holds(Value)'
<1> DEFINE w == GetLoc(Entered, Arg(1))
           loc == MemAt(Entered, Long(Entered[w.loc]))
           n == AddLong(Entered, w.loc, -1)
<1>1. At({"ret"})
    BY DEF Ret
<1>2. Signature(Line.op) = <<PTR>>
    BY <1>1, LineFacts, Signatures
<1>3. Arg(1).t \in PTR /\ IsTok(Prog, Arg(1))
    BY <1>1, <1>2, ArgFacts
<1>4. Entered \in [0..size - 1 -> Value]
    BY <1>1, CellSets, EnteredType
<1>5. w \in [err : Errs, loc : Longs]
    BY <1>3, <1>4, GetLocType
<1>6. loc \in [err : Errs, val : Value]
    BY <1>4, CellSets, MemAtType
<1>7. CellErr(Entered, w) \in Errs /\ "NotInteger" \in Errs /\ "ok" \in Errs /\ -1 \in Int
    BY <1>5, ErrTypes DEF Errs
<1>8. CASE CellErr(Entered, w) # "ok"
    BY <1>4, <1>7, <1>8, StopKeeps DEF Ret
<1>9. CASE CellErr(Entered, w) = "ok"
    <2>1. \/ Stop("NotInteger", Entered)
          \/ Stop(loc.err, Entered)
          \/ Finish("ok", n, ToSize(Long(loc.val)))
        BY <1>9 DEF Ret
    <2>2. n \in [0..size - 1 -> Value]
        <3> HIDE DEF w
        <3>1. QED
            BY <1>4, <1>7, <1>9, MovedPointer
    <2>3. ToSize(Long(loc.val)) \in Int
        BY <1>6, LongType, ToSizeInt
    <2>4. CASE Stop("NotInteger", Entered)
        BY <1>4, <1>7, <2>4, StopKeeps
    <2>5. CASE Stop(loc.err, Entered)
        BY <1>4, <1>6, <2>5, StopKeeps
    <2>6. CASE Finish("ok", n, ToSize(Long(loc.val)))
        <3> HIDE DEF n, loc
        <3>1. QED
            BY <1>7, <2>2, <2>3, <2>6, FinishKeeps
    <2>7. QED
        BY <2>1, <2>4, <2>5, <2>6
<1>10. QED
    BY <1>8, <1>9

LEMMA CallKeeps ==
    ASSUME Rest, Holds(Value), Call
    PROVE  Rest' /\ Holds(Value)'
<1> DEFINE w == GetLoc(Entered, Arg(1))
           m == AddLong(Entered, w.loc, 1)
           top == Long(m[w.loc])
           curr == AddLong(m, 1, 1)[1]
           n == MemSet(m, top, curr)
           loc == GetValue(n, Arg(2))
<1>1. At({"call"})
    BY DEF Call
<1>2. Signature(Line.op) = <<PTR, VALUE>>
    BY <1>1, LineFacts, Signatures
<1>3. /\ Arg(1).t \in PTR /\ IsTok(Prog, Arg(1))
      /\ Arg(2).t \in VALUE /\ IsTok(Prog, Arg(2))
    BY <1>1, <1>2, ArgFacts
<1>4. Entered \in [0..size - 1 -> Value]
    BY <1>1, CellSets, EnteredType
<1>5. w \in [err : Errs, loc : Longs]
    BY <1>3, <1>4, GetLocType
<1>6. CASE StackErr(Entered, w) # "ok"
    <2>1. Stop(StackErr(Entered, w), Entered) /\ StackErr(Entered, w) \in Errs
        BY <1>5, <1>6, ErrTypes DEF Call
    <2>2. QED
        BY <1>4, <2>1, StopKeeps
<1>7. CASE StackErr(Entered, w) = "ok"
    <2>1. /\ SetErr(m, top) # "ok" => Stop(SetErr(m, top), m)
          /\ SetErr(m, top) = "ok" => Finish(loc.err, n, ToSize(Long(loc.val)))
        BY <1>7 DEF Call
    <2>2. 1 \in 0..size - 1 /\ 1 \in Int
        BY SizeFacts
    <2>3. m \in [0..size - 1 -> Value]
        <3> HIDE DEF w
        <3>1. QED
            BY <1>4, <1>7, <2>2, MovedPointer
    <2>4. AddLong(m, 1, 1) \in [0..size - 1 -> Value]
        <3> DEFINE D == 0..size - 1
        <3>1. m \in [D -> Value] /\ 1 \in D
            BY <2>2, <2>3
        <3> HIDE DEF m, D
        <3>2. AddLong(m, 1, 1) \in [D -> Value]
            BY <2>2, <3>1, AddLongType
        <3>3. QED
            BY <3>2 DEF D
    <2>5. curr \in Value
        BY <2>2, <2>4
    <2>6. n \in [0..size - 1 -> Value]
        <3> HIDE DEF m, curr, top
        <3>1. QED
            BY <2>3, <2>5, MemSetType
    <2>7. loc \in [err : Errs, val : Value] /\ Long(loc.val) \in Longs
        <3> HIDE DEF n
        <3>1. QED
            BY <1>3, <2>6, CellSets, GetValueType DEF Rest
    <2>8. ToSize(Long(loc.val)) \in Int
        BY <2>7, ToSizeInt
    <2>9. SetErr(m, top) \in Errs
        BY DEF SetErr, Errs
    <2> HIDE DEF m, top, n, loc
    <2>10. CASE SetErr(m, top) # "ok"
        BY <2>1, <2>3, <2>9, <2>10, StopKeeps
    <2>11. CASE SetErr(m, top) = "ok"
        BY <2>1, <2>6, <2>7, <2>8, <2>11, FinishKeeps
    <2>12. QED
        BY <2>10, <2>11
<1>8. QED
    BY <1>6, <1>7

(***************************************************************************)
(* Every step.                                                             *)
(***************************************************************************)
\* The steps that keep memory in any set of cells.
Tagged ==
    \/ Mov \/ CpyStart \/ CopyStep \/ CopyEnd \/ Size \/ Var \/ Loc \/ Allc
    \/ Calculate \/ Not \/ Jmp \/ Jc \/ Skip \/ Halt \/ RunOff

LEMMA TaggedKeeps ==
    ASSUME Rest, NEW S, CellSet(S), Holds(S), Tagged
    PROVE  Rest' /\ Holds(S)'
<1>1. CASE Mov \/ CpyStart \/ CopyStep \/ CopyEnd
    BY <1>1, MovKeeps, CpyStartKeeps, CopyStepKeeps, CopyEndKeeps
<1>2. CASE Size \/ Var \/ Loc \/ Allc
    BY <1>2, SizeKeeps, VarKeeps, LocKeeps, AllcKeeps
<1>3. CASE Calculate \/ Not \/ Jmp \/ Jc
    BY <1>3, CalculateKeeps, NotKeeps, JmpKeeps, JcKeeps
<1>4. CASE Skip \/ Halt \/ RunOff
    BY <1>4, SkipKeeps, HaltKeeps, RunOffKeeps
<1>5. QED
    BY <1>1, <1>2, <1>3, <1>4 DEF Tagged

LEMMA StutterKeeps ==
    ASSUME Rest, NEW S, Holds(S), UNCHANGED vars
    PROVE  Rest' /\ Holds(S)'
BY DEF vars, Rest, Holds, Prog

\* A loaded program's memory holds sound longs.
LEMMA InitKeeps ==
    ASSUME Init, NEW S, CellSet(S)
    PROVE  Rest /\ Holds(S)
<1>1. IsProgram(Prog)
    BY ProgFacts DEF Init
<1>2. [type : {"L"}, as : {"L"}, n : Longs] \subseteq S
    <2>1. \A v \in [type : {"L"}, as : {"L"}, n : Longs] : v = LongV(v.n) /\ v.n \in Longs
        BY DEF LongV
    <2>2. QED
        BY <2>1, LongVType DEF CellSet, SoundCells
<1>3. mem \in [0..size - 1 -> S]
    BY <1>1, <1>2 DEF Init, IsProgram
<1>4. size \in Registers + 2..MaxMem
    BY <1>1 DEF Init, IsProgram
<1>5. var \in [DOMAIN Prog.vars -> Longs]
    <2>1. PICK n \in Registers + 2..LongMax : Prog.vars \in [0..n - 1 -> 0..Registers + 1]
        BY <1>1 DEF IsProgram
    <2>2. 0..Registers + 1 \subseteq Longs
        BY <2>1, InstructionsAssumption, WidthFacts DEF Longs, LongMin
    <2>3. QED
        BY <2>1, <2>2 DEF Init
<1>6. /\ ptr \in Sizes
      /\ status \in Errs \cup {"run"}
      /\ copy \in [on : BOOLEAN, left : Sizes, des : Longs, src : Longs]
    BY WidthFacts, LongsAreInts DEF Init, Sizes, Idle
<1>7. QED
    BY <1>3, <1>4, <1>5, <1>6 DEF Init, Rest, Holds

LEMMA NextKeepsType == ASSUME TypeOK, [Next]_vars PROVE TypeOK'
<1>1. Rest /\ Holds(Value)
    BY TypeOKParts
<1>2. Rest' /\ Holds(Value)'
    <2>1. CASE Tagged
        BY <1>1, <2>1, CellSets, TaggedKeeps
    <2>2. CASE Push \/ Pop \/ Cast
        BY <1>1, <2>2, PushKeeps, PopKeeps, CastKeeps
    <2>3. CASE Bump \/ Call \/ Ret
        BY <1>1, <2>3, BumpKeeps, CallKeeps, RetKeeps
    <2>4. CASE UNCHANGED vars
        BY <1>1, <2>4, StutterKeeps
    <2>5. QED
        BY <2>1, <2>2, <2>3, <2>4 DEF Next, Tagged
<1>3. QED
    BY <1>2 DEF TypeOK, Rest, Holds, Errs, Prog

(***************************************************************************)
(* Theorems.                                                               *)
(***************************************************************************)
\* Type correctness, for every program the loader can leave and every size of
\* long and of memory: whatever the handlers of opdef.c do, memory stays one
\* block of `size` cells that hold longs and doubles in range, the variable
\* table keeps its entries and Code.ptr is a size_t.
THEOREM TypeCorrect == Spec => []TypeOK
<1>1. Init => TypeOK
    BY InitKeeps, CellSets, TypeOKParts
<1>2. TypeOK /\ [Next]_vars => TypeOK'
    BY NextKeepsType
<1>3. QED
    BY <1>1, <1>2, PTL DEF Spec

(***************************************************************************)
(* The safety invariants of the run loop and what its lines may change,    *)
(* for every program of their class and every size.                        *)
(***************************************************************************)

LEMMA ProgFixed == ASSUME [Next]_vars PROVE prog' = prog
<1> USE DEF Stop, Dispatch, Finish, Answer
<1>1. CASE Mov \/ CpyStart \/ CopyStep \/ CopyEnd
    BY <1>1 DEF Mov, CpyStart, CopyStep, CopyEnd
<1>2. CASE Size \/ Var \/ Loc \/ Allc
    BY <1>2 DEF Size, Var, Loc, Allc
<1>3. CASE Push \/ Pop \/ Cast
    BY <1>3 DEF Push, Pop, Cast
<1>4. CASE Calculate \/ Bump \/ Not
    BY <1>4 DEF Calculate, Bump, Not
<1>5. CASE Jmp \/ Jc \/ Call \/ Ret
    BY <1>5 DEF Jmp, Jc, Call, Ret
<1>6. CASE Skip \/ Halt \/ RunOff
    BY <1>6 DEF Skip, Halt, RunOff
<1>7. CASE UNCHANGED vars
    BY <1>7 DEF vars
<1>8. QED
    BY <1>1, <1>2, <1>3, <1>4, <1>5, <1>6, <1>7 DEF Next

LEMMA ProgSame == ASSUME [Next]_vars PROVE Prog' = Prog
BY ProgFixed DEF Prog

(***************************************************************************)
(* Tags.                                                                   *)
(***************************************************************************)
TagInv ==
    ~HasOp(Prog, InPlaceOps \cup CastOps \cup {"push", "pop", "call", "ret"}) => Holds(SoundCells)

LEMMA TagStep == ASSUME TypeOK, TagInv, [Next]_vars PROVE TagInv'
<1> DEFINE Untagged == InPlaceOps \cup CastOps \cup {"push", "pop", "call", "ret"}
<1>1. Prog' = Prog
    BY ProgSame
<1>2. SUFFICES ASSUME ~HasOp(Prog, Untagged) PROVE Holds(SoundCells)'
    BY <1>1 DEF TagInv
<1>3. Rest /\ Holds(SoundCells)
    BY <1>2, TypeOKParts DEF TagInv
<1>4. ASSUME NEW ops, ops \subseteq Untagged, At(ops) PROVE FALSE
    BY <1>2, <1>4 DEF At, Line, HasOp
<1>5. CASE Tagged
    BY <1>3, <1>5, CellSets, TaggedKeeps
<1>6. CASE UNCHANGED vars
    BY <1>3, <1>6, StutterKeeps
<1>7. CASE Push \/ Pop \/ Cast \/ Bump \/ Call \/ Ret
    BY <1>4, <1>7 DEF Push, Pop, Cast, Bump, Call, Ret
<1>8. QED
    BY <1>5, <1>6, <1>7 DEF Next, Tagged

\* The tag of every cell tells which member of the union was stored last, in
\* every program without the instructions that work on one member whatever
\* the tag: all other handlers of opdef.c move whole cells.
THEOREM TagsCorrect == Spec => []TagsTellTruth
<1>1. Init => TagInv
    BY InitKeeps, CellSets DEF TagInv
<1>2. TypeOK /\ TagInv /\ [Next]_vars => TagInv'
    BY TagStep
<1>3. TagInv => TagsTellTruth
    BY DEF TagInv, TagsTellTruth, Holds, SoundCells
<1>4. QED
    BY <1>1, <1>2, <1>3, TypeCorrect, PTL DEF Spec

(***************************************************************************)
(* Where tags begin to lie.                                                *)
(***************************************************************************)
Own == Abs(GetLoc(Entered, Arg(1)).loc)

\* What LiesBegin says of cell i.
LieAt(i) ==
    /\ Line.op \in InPlaceOps \cup CastOps \cup {"push", "pop", "call"}
    /\ mem'[i].as = Member(Line.op)
    /\ IF Line.op = "push" THEN mem'[i].type = Entered[Own].type ELSE i = Own
    /\ Line.op # "pop" => mem'[Own].type = Entered[Own].type

LEMMA AddedLong ==
    ASSUME NEW m, NEW i \in DOMAIN m, NEW k
    PROVE  AddLong(m, i, k)[i].type = m[i].type /\ AddLong(m, i, k)[i].as = "L"
BY DEF AddLong, SetLong

LEMMA BumpLies ==
    ASSUME TypeOK, Holds(SoundCells), Bump, NEW i \in DOMAIN mem', ~Sound(mem'[i])
    PROVE  LieAt(i)
<1> DEFINE w == GetLoc(Entered, Arg(1))
           val == MemAt(Entered, w.loc)
           err == IF w.err # "ok" THEN w.err ELSE val.err
           new == Bumped(Line.op, val.val)
           n == IF err = "ok" THEN MemSet(Entered, w.loc, new) ELSE Entered
<1>1. At(InPlaceOps) /\ Finish(err, n, ptr)
    BY DEF Bump
<1>2. Line.op \in InPlaceOps /\ Entered \in [0..size - 1 -> SoundCells]
    BY <1>1, TypeOKParts, LineFacts, CellSets, EnteredType
<1>3. mem' = n
    BY <1>1 DEF Finish, Stop, Dispatch
<1>4. err = "ok" /\ i = Own /\ i \in DOMAIN Entered
    BY <1>2, <1>3 DEF MemSet, SoundCells, Own
<1>5. val.val = Entered[Own] /\ mem'[Own] = new
    BY <1>3, <1>4 DEF MemAt, MemSet, Own
<1>6. new.type = Entered[Own].type /\ new.as = Member(Line.op)
    BY <1>2, <1>5 DEF Bumped, InPlaceOps, SetLong, SetDouble, Member
<1>7. QED
    BY <1>2, <1>4, <1>5, <1>6 DEF LieAt, InPlaceOps

LEMMA CastLies ==
    ASSUME TypeOK, Holds(SoundCells), Cast, NEW i \in DOMAIN mem', ~Sound(mem'[i])
    PROVE  LieAt(i)
<1> DEFINE w == GetLoc(Entered, Arg(1))
           err == CellErr(Entered, w)
           n == IF err = "ok" THEN [Entered EXCEPT ![w.loc] = Converted(Line.op, @)] ELSE Entered
<1>1. At(CastOps) /\ Finish(err, n, ptr)
    BY DEF Cast
<1>2. Line.op \in CastOps /\ Entered \in [0..size - 1 -> SoundCells]
    BY <1>1, TypeOKParts, LineFacts, CellSets, EnteredType
<1>3. mem' = n
    BY <1>1 DEF Finish, Stop, Dispatch
<1>4. err = "ok" /\ i = w.loc /\ i \in DOMAIN Entered
    BY <1>2, <1>3 DEF SoundCells
<1>5. i = Own
    BY <1>2, <1>4 DEF Own, Abs
<1>6. mem'[i] = Converted(Line.op, Entered[i]) /\ Sound(Entered[i])
    BY <1>2, <1>3, <1>4 DEF SoundCells
<1>7. mem'[i].type = Entered[i].type /\ mem'[i].as = Member(Line.op)
    BY <1>2, <1>6 DEF Converted, CastOps, SetLong, SetDouble, Member
<1>8. QED
    BY <1>2, <1>5, <1>7 DEF LieAt, CastOps

LEMMA PushLies ==
    ASSUME TypeOK, Holds(SoundCells), Push, NEW i \in DOMAIN mem', ~Sound(mem'[i])
    PROVE  LieAt(i)
<1> DEFINE w == GetLoc(Entered, Arg(1))
           m == AddLong(Entered, w.loc, 1)
           val == GetValue(m, Arg(2))
           top == Long(m[w.loc])
           err == IF val.err # "ok" THEN val.err ELSE SetErr(m, top)
           n == IF err = "ok" THEN MemSet(m, top, val.val) ELSE m
           S == SoundCells \cup {m[w.loc]}
<1>1. At({"push"})
    BY DEF Push
<1>2. /\ Rest /\ Line.op = "push" /\ Signature(Line.op) = <<PTR, VALUE>>
      /\ Entered \in [0..size - 1 -> SoundCells] /\ Entered \in [0..size - 1 -> Value]
    BY <1>1, TypeOKParts, LineFacts, Signatures, CellSets, EnteredType
<1>3. StackErr(Entered, w) = "ok" /\ mem' = n
    BY <1>2 DEF Push, Finish, Stop, Dispatch, SoundCells
<1>4. w.loc \in 0..size - 1 /\ m \in [0..size - 1 -> Value]
    <2>1. 1 \in Int
        OBVIOUS
    <2> HIDE DEF w
    <2>2. QED
        BY <1>2, <1>3, <2>1, MovedPointer
<1>5. Own = w.loc /\ m[w.loc].type = Entered[Own].type /\ m[w.loc].as = "L"
    <2>1. Own = w.loc
        BY <1>4 DEF Own, Abs
    <2>2. w.loc \in DOMAIN Entered
        BY <1>2, <1>4
    <2> HIDE DEF w
    <2>3. QED
        BY <2>1, <2>2, AddedLong
<1>6. m \in [0..size - 1 -> S] /\ \A j \in 0..size - 1 : j # w.loc => Sound(m[j])
    BY <1>2, <1>4 DEF AddLong, SoundCells
<1>7. CellSet(S) /\ Arg(2).t \in VALUE /\ IsTok(Prog, Arg(2)) /\ prog \in DOMAIN Loaded
    BY <1>1, <1>2, <1>4, ArgFacts DEF CellSet, SoundCells, Rest
<1>8. val.val \in S
    <2> HIDE DEF m, S
    <2>1. val \in [err : Errs, val : S]
        BY <1>6, <1>7, GetValueType
    <2>2. QED
        BY <2>1
<1> HIDE DEF w, m, top, val, err
<1>9. i \in 0..size - 1
    BY <1>3, <1>4 DEF MemSet
<1>10. CASE err = "ok" /\ i = Abs(top)
    <2>1. mem'[i] = val.val /\ val.val = m[w.loc]
        BY <1>3, <1>4, <1>8, <1>9, <1>10 DEF MemSet, SoundCells
    <2>2. mem'[w.loc] = m[w.loc]
        BY <1>3, <1>4, <1>10, <2>1 DEF MemSet
    <2>3. QED
        BY <1>2, <1>5, <2>1, <2>2 DEF LieAt, Member
<1>11. CASE ~(err = "ok" /\ i = Abs(top))
    <2>1. mem'[i] = m[i] /\ i = w.loc
        BY <1>3, <1>4, <1>6, <1>9, <1>11 DEF MemSet
    <2>2. QED
        BY <1>2, <1>5, <2>1 DEF LieAt, Member
<1>12. QED
    BY <1>10, <1>11

LEMMA PopLies ==
    ASSUME TypeOK, Holds(SoundCells), Pop, NEW i \in DOMAIN mem', ~Sound(mem'[i])
    PROVE  LieAt(i)
<1> DEFINE w == GetLoc(Entered, Arg(1))
           val == MemAt(Entered, Long(Entered[w.loc]))
           n == [Entered EXCEPT ![0] = val.val]
<1>1. At({"pop"})
    BY DEF Pop
<1>2. Line.op = "pop" /\ Entered \in [0..size - 1 -> SoundCells]
    BY <1>1, TypeOKParts, LineFacts, CellSets, EnteredType
<1>3. StackErr(Entered, w) = "ok" /\ mem' = AddLong(n, w.loc, -1)
    BY <1>2 DEF Pop, Finish, Stop, Dispatch, SoundCells
<1>4. w.loc \in 0..size - 1 /\ Own = w.loc
    BY <1>2, <1>3 DEF StackErr, CellErr, Own, Abs
<1>5. n \in [0..size - 1 -> SoundCells]
    <2>1. val \in [err : Errs, val : SoundCells]
        BY <1>2, CellSets, MemAtType
    <2>2. QED
        BY <1>2, <2>1
<1> HIDE DEF w, n
<1>6. i = w.loc
    BY <1>3, <1>4, <1>5 DEF AddLong, SoundCells
<1>7. mem'[i].as = "L"
    <2>1. w.loc \in DOMAIN n
        BY <1>4, <1>5
    <2>2. AddLong(n, w.loc, -1)[w.loc].as = "L"
        BY <2>1, AddedLong
    <2>3. QED
        BY <1>3, <1>6, <2>2
<1>8. QED
    BY <1>2, <1>4, <1>6, <1>7 DEF LieAt, Member

LEMMA CallLies ==
    ASSUME TypeOK, Holds(SoundCells), Call, NEW i \in DOMAIN mem', ~Sound(mem'[i])
    PROVE  LieAt(i)
<1> DEFINE w == GetLoc(Entered, Arg(1))
           m == AddLong(Entered, w.loc, 1)
           top == Long(m[w.loc])
           curr == AddLong(m, 1, 1)[1]
           n == MemSet(m, top, curr)
<1>1. At({"call"})
    BY DEF Call
<1>2. /\ Rest /\ Line.op = "call"
      /\ Entered \in [0..size - 1 -> SoundCells] /\ Entered \in [0..size - 1 -> Value]
    BY <1>1, TypeOKParts, LineFacts, CellSets, EnteredType
<1>3. StackErr(Entered, w) = "ok" /\ (mem' = m \/ mem' = n)
    BY <1>2 DEF Call, Finish, Stop, Dispatch, SoundCells
<1>4. w.loc \in 0..size - 1 /\ Own = w.loc
    BY <1>2, <1>3 DEF StackErr, CellErr, Own, Abs
<1>5. 1 \in 0..size - 1
    BY <1>2, SizeFacts
<1>6. m[w.loc].type = Entered[Own].type /\ m[w.loc].as = "L"
    <2>1. w.loc \in DOMAIN Entered
        BY <1>2, <1>4
    <2> HIDE DEF w
    <2>2. QED
        BY <1>4, <2>1, AddedLong
<1>7. DOMAIN m = 0..size - 1 /\ \A j \in 0..size - 1 : j # w.loc => m[j] = Entered[j]
    BY <1>2, <1>4 DEF AddLong
<1>8. m[1].type = "L"
    <2>1. Entered[1].type = "L"
        BY <1>2, <1>5 DEF Entered, LongV
    <2>2. QED
        BY <1>4, <1>5, <1>6, <1>7, <2>1
<1>9. Sound(curr)
    <2>1. 1 \in DOMAIN m
        BY <1>5, <1>7
    <2> HIDE DEF m
    <2>2. QED
        BY <1>8, <2>1, AddedLong DEF Sound
<1> HIDE DEF w, m, top, curr
<1>10. i \in 0..size - 1 /\ (mem'[i] = m[i] \/ mem'[i] = curr)
    BY <1>3, <1>7 DEF MemSet
<1>11. mem'[i] = m[i] /\ i = w.loc
    BY <1>2, <1>7, <1>9, <1>10 DEF SoundCells
<1>12. QED
    BY <1>2, <1>4, <1>6, <1>11 DEF LieAt, Member

\* ret moves a pointer whose tag says that it is a long.
LEMMA RetTells ==
    ASSUME TypeOK, Holds(SoundCells), Ret, NEW i \in DOMAIN mem'
    PROVE  Sound(mem'[i])
<1> DEFINE w == GetLoc(Entered, Arg(1))
           n == AddLong(Entered, w.loc, -1)
<1>1. At({"ret"})
    BY DEF Ret
<1>2. Entered \in [0..size - 1 -> SoundCells]
    BY <1>1, TypeOKParts, CellSets, EnteredType
<1>3. \/ mem' = Entered
      \/ CellErr(Entered, w) = "ok" /\ Entered[w.loc].type = "L" /\ mem' = n
    BY DEF Ret, Finish, Stop, Dispatch
<1>4. CASE mem' = Entered
    BY <1>2, <1>4 DEF SoundCells
<1>5. CASE CellErr(Entered, w) = "ok" /\ Entered[w.loc].type = "L" /\ mem' = n
    <2>1. w.loc \in DOMAIN Entered
        BY <1>5 DEF CellErr
    <2> HIDE DEF w
    <2>2. n[w.loc].type = "L" /\ n[w.loc].as = "L"
        BY <1>5, <2>1, AddedLong
    <2>3. i \in DOMAIN Entered /\ (i # w.loc => mem'[i] = Entered[i])
        BY <1>5 DEF AddLong
    <2>4. QED
        BY <1>2, <1>5, <2>2, <2>3 DEF Sound, SoundCells
<1>6. QED
    BY <1>3, <1>4, <1>5

LiesStep ==
    (\A i \in DOMAIN mem : Sound(mem[i])) => \A i \in DOMAIN mem' : ~Sound(mem'[i]) => LieAt(i)

LEMMA NextLies == ASSUME TypeOK, Next PROVE LiesStep
<1> SUFFICES ASSUME \A j \in DOMAIN mem : Sound(mem[j]), NEW i \in DOMAIN mem', ~Sound(mem'[i])
             PROVE  LieAt(i)
    BY DEF LiesStep
<1>1. Rest /\ Holds(SoundCells)
    BY TypeOKParts DEF Holds, SoundCells
<1>2. CASE Tagged
    <2>1. Holds(SoundCells)'
        BY <1>1, <1>2, CellSets, TaggedKeeps
    <2>2. QED
        BY <2>1 DEF Holds, SoundCells
<1>3. CASE Push \/ Pop \/ Cast \/ Bump \/ Call \/ Ret
    BY <1>1, <1>3, PushLies, PopLies, CastLies, BumpLies, CallLies, RetTells
<1>4. QED
    BY <1>2, <1>3 DEF Next, Tagged

\* Where tags begin to lie, for every program: while every tag tells which
\* member was stored last, only inc and its kin, the casts, push, pop and call
\* store a member that the tag does not name, in their own cell; push may store
\* a copy of it.  Every other handler of opdef.c keeps tags true.
THEOREM LiesCaused == Spec => LiesBegin
<1>1. TypeOK /\ [Next]_vars => [LiesStep]_vars
    BY NextLies
<1>2. QED
    BY <1>1, TypeCorrect, PTL DEF Spec, LiesBegin, LiesStep, LieAt, Own

(***************************************************************************)
(* Control.                                                                *)
(***************************************************************************)
\* Control stays in; a copy is at its own line, which is not the last.
ControlInv ==
    Structured(Prog) =>
        /\ ptr \in DOMAIN Prog.code
        /\ copy.on => Line.op # "halt"

LEMMA ModuloSmall ==
    ASSUME NEW n \in Nat, NEW d \in Nat, n < d
    PROVE  n % d = n
OBVIOUS

LEMMA ModuloNegative ==
    ASSUME NEW n \in Int, NEW d \in Nat, -d <= n, n < 0
    PROVE  n % d = n + d
OBVIOUS

LEMMA ModuloSelf == ASSUME NEW d \in Nat, d > 0 PROVE d % d = 0
OBVIOUS

\* One past a long that was taken for a size_t.
LEMMA SizeNext == ASSUME NEW n \in Longs PROVE (ToSize(n) + 1) % Width = ToSize(n + 1)
<1>1. n \in Int /\ LongMax \in Nat /\ Width = 2 * LongMax + 2 /\ Width \in Nat /\ Width > 0
    BY LongsAreInts, WidthFacts DEF Width
<1>2. -LongMax - 1 <= n /\ n <= LongMax
    BY <1>1 DEF Longs, LongMin
<1>3. CASE n >= 0
    <2>1. n % Width = n
        BY <1>1, <1>2, <1>3, ModuloSmall
    <2>2. QED
        BY <2>1 DEF ToSize
<1>4. CASE n = -1
    <2>1. n % Width = Width - 1
        BY <1>1, <1>4, ModuloNegative
    <2>2. Width % Width = 0 /\ 0 % Width = 0
        BY <1>1, ModuloSelf, ModuloSmall
    <2>3. n + 1 = 0 /\ Width - 1 + 1 = Width
        BY <1>1, <1>4
    <2>4. QED
        BY <2>1, <2>2, <2>3 DEF ToSize
<1>5. CASE n < -1
    <2>1. n % Width = n + Width /\ (n + 1) % Width = n + 1 + Width
        BY <1>1, <1>2, <1>5, ModuloNegative
    <2>2. n + Width + 1 \in Nat /\ n + Width + 1 < Width
        BY <1>1, <1>2, <1>5
    <2>3. (n + Width + 1) % Width = n + Width + 1
        BY <1>1, <2>2, ModuloSmall
    <2>4. n + Width + 1 = n + 1 + Width
        BY <1>1
    <2>5. QED
        BY <2>1, <2>3, <2>4 DEF ToSize
<1>6. QED
    BY <1>1, <1>3, <1>4, <1>5

\* The last line is a halt, so another line has one after it.
LEMMA NextLineIn ==
    ASSUME Rest, NEW line \in DOMAIN Prog.code, Prog.code[line].op # "halt"
    PROVE  (line + 1) % Width \in DOMAIN Prog.code
<1>1. PICK n \in 1..LongMax : DOMAIN Prog.code = 0..n - 1 /\ Prog.code[n - 1].op = "halt"
    BY ProgFacts DEF Rest, IsProgram
<1>2. line \in 0..n - 1 /\ line # n - 1
    BY <1>1
<1>3. line + 1 \in 0..n - 1
    BY <1>1, <1>2
<1>4. line + 1 \in Nat /\ line + 1 < Width
    BY <1>1, <1>3, WidthFacts DEF Width
<1>5. QED
    BY <1>1, <1>3, <1>4, WidthFacts, ModuloSmall

LEMMA StopStaysIn ==
    ASSUME ptr \in DOMAIN Prog.code, ~copy.on, NEW result, NEW m, Stop(result, m)
    PROVE  ptr' \in DOMAIN Prog.code /\ ~copy'.on
BY DEF Stop

LEMMA FinishStaysIn ==
    ASSUME Rest, ptr \in DOMAIN Prog.code, ~copy.on,
           NEW line \in DOMAIN Prog.code, Prog.code[line].op # "halt",
           NEW err, NEW m, Finish(err, m, line)
    PROVE  ptr' \in DOMAIN Prog.code /\ ~copy'.on
BY NextLineIn, StopStaysIn DEF Finish, Dispatch

\* A jump to a name goes to a label, or the run ends there.
LEMMA NameStaysIn ==
    ASSUME Rest, ptr \in DOMAIN Prog.code, ~copy.on, NEW tok, tok.t = "Sym", NEW m, NEW n,
           Finish(GetValue(n, tok).err, m, ToSize(Long(GetValue(n, tok).val)))
    PROVE  ptr' \in DOMAIN Prog.code /\ ~copy'.on
<1> DEFINE loc == GetValueSym(tok)
           target == ToSize(Long(loc.val))
<1>1. Finish(loc.err, m, target)
    BY DEF GetValue
<1>2. CASE tok.idx \in DOMAIN Prog.labels
    <2>1. IsProgram(Prog)
        BY ProgFacts DEF Rest
    <2>2. Prog.labels[tok.idx] \in {i \in DOMAIN Prog.code : Prog.code[i].op = "lbl"}
        BY <1>2, <2>1 DEF IsProgram
    <2>3. PICK k \in 1..LongMax : DOMAIN Prog.code = 0..k - 1
        BY <2>1 DEF IsProgram
    <2>4. Prog.labels[tok.idx] \in Nat /\ Prog.labels[tok.idx] < Width
        BY <2>2, <2>3, WidthFacts DEF Width
    <2>5. target = Prog.labels[tok.idx]
        BY <1>2, <2>4, WidthFacts, ModuloSmall DEF GetValueSym, LongV, Long, ToSize
    <2> HIDE DEF target
    <2>6. target \in DOMAIN Prog.code /\ Prog.code[target].op # "halt"
        BY <2>2, <2>5
    <2>7. QED
        BY <1>1, <2>6, FinishStaysIn
<1>3. CASE tok.idx \notin DOMAIN Prog.labels
    <2>1. loc.err = "undefined"
        BY <1>3 DEF GetValueSym
    <2>2. QED
        BY <1>1, <2>1, StopStaysIn DEF Finish
<1>4. QED
    BY <1>2, <1>3

\* A jump to a number goes to the line after it: after -1, to the first.
LEMMA NumberStaysIn ==
    ASSUME Rest, NEW tok, tok.t = "Num", IsTok(Prog, tok), Target(Prog, tok), ~copy.on, NEW m, NEW n,
           Finish(GetValue(n, tok).err, m, ToSize(Long(GetValue(n, tok).val)))
    PROVE  ptr' \in DOMAIN Prog.code /\ ~copy'.on
<1> DEFINE v == Long(tok.v)
<1>1. Finish("ok", m, ToSize(v))
    BY DEF GetValue
<1>2. v \in Longs /\ v \in Int /\ v + 1 \in DOMAIN Prog.code
    BY LongType, LongsAreInts DEF IsTok, Target
<1>3. PICK k \in 1..LongMax : DOMAIN Prog.code = 0..k - 1
    BY ProgFacts DEF Rest, IsProgram
<1> HIDE DEF v
<1>4. v + 1 \in Nat /\ v + 1 < Width
    BY <1>2, <1>3, WidthFacts DEF Width
<1>5. ToSize(v + 1) = v + 1
    BY <1>4, WidthFacts, ModuloSmall DEF ToSize
<1>6. (ToSize(v) + 1) % Width = v + 1
    BY <1>2, <1>5, SizeNext
<1>7. QED
    BY <1>1, <1>2, <1>6 DEF Finish, Dispatch

LEMMA JumpStaysIn ==
    ASSUME Rest, ptr \in DOMAIN Prog.code, ~copy.on, NEW tok, IsTok(Prog, tok), Target(Prog, tok),
           NEW m, NEW n,
           Finish(GetValue(n, tok).err, m, ToSize(Long(GetValue(n, tok).val)))
    PROVE  ptr' \in DOMAIN Prog.code /\ ~copy'.on
BY NameStaysIn, NumberStaysIn DEF Target

\* A handler that goes on with the next line.
LEMMA NextStaysIn ==
    ASSUME Rest, NEW ops, At(ops), "halt" \notin ops, NEW err, NEW m, Finish(err, m, ptr)
    PROVE  ptr' \in DOMAIN Prog.code /\ ~copy'.on
<1>1. ptr \in DOMAIN Prog.code /\ ~copy.on /\ Prog.code[ptr].op # "halt"
    BY DEF At, Line
<1>2. QED
    BY <1>1, FinishStaysIn

LEMMA ControlStep == ASSUME TypeOK, ControlInv, [Next]_vars PROVE ControlInv'
<1> DEFINE In == ptr \in DOMAIN Prog.code
           Out == ptr' \in DOMAIN Prog.code /\ ~copy'.on
<1>1. Prog' = Prog
    BY ProgSame
<1>2. SUFFICES ASSUME Structured(Prog)
               PROVE  ptr' \in DOMAIN Prog.code /\ (copy'.on => Prog.code[ptr'].op # "halt")
    BY <1>1 DEF ControlInv, Line
<1>3. Rest /\ In /\ (copy.on => Prog.code[ptr].op # "halt")
    BY <1>2, TypeOKParts DEF ControlInv, Line
<1>4. ASSUME NEW ops, At(ops) PROVE Line.op \in ops /\ In /\ ~copy.on
    BY <1>4 DEF At
<1>5. CASE Mov
    <2>1. At({"mov"}) /\ "halt" \notin {"mov"}
        BY <1>5 DEF Mov
    <2>2. \/ \E err : Stop(err, Entered)
          \/ \E err, m : Finish(err, m, ptr)
        BY <1>5 DEF Mov
    <2>3. QED
        BY <1>3, <1>4, <2>1, <2>2, StopStaysIn, NextStaysIn
<1>6. CASE CpyStart
    <2>1. At({"cpy"}) /\ "halt" \notin {"cpy"}
        BY <1>6 DEF CpyStart
    <2>2. Prog.code[ptr].op # "halt"
        BY <2>1, <1>4 DEF Line
    <2>3. ptr' = ptr
        BY <1>6 DEF CpyStart, Stop
    <2>4. QED
        BY <1>3, <2>2, <2>3
<1>7. CASE CopyStep
    <2>1. ptr' = ptr /\ copy.on
        BY <1>7 DEF CopyStep, Stop
    <2>2. QED
        BY <1>3, <2>1
<1>8. CASE CopyEnd
    <2>1. ptr' = (ptr + 1) % Width /\ ~copy'.on /\ copy.on
        BY <1>8 DEF CopyEnd, Idle
    <2>2. QED
        BY <1>3, <2>1, NextLineIn
<1>9. CASE Size \/ Loc \/ Not
    <2>1. \E err, m : Finish(err, m, ptr)
        BY <1>9 DEF Size, Loc, Not, Answer
    <2>2. At({"size", "loc", "not"}) /\ "halt" \notin {"size", "loc", "not"}
        BY <1>9 DEF Size, Loc, Not, At
    <2>3. QED
        BY <1>3, <2>1, <2>2, NextStaysIn
<1>10. CASE Var
    <2>1. At({"var"}) /\ "halt" \notin {"var"}
        BY <1>10 DEF Var
    <2>2. \/ \E err : Stop(err, Entered)
          \/ ptr' = (ptr + 1) % Width /\ copy' = copy
        BY <1>10 DEF Var, Dispatch
    <2>3. Prog.code[ptr].op # "halt" /\ ~copy.on
        BY <2>1, <1>4 DEF Line
    <2>4. QED
        BY <1>3, <2>2, <2>3, StopStaysIn, NextLineIn
<1>11. CASE Allc
    <2>1. At({"allc"}) /\ "halt" \notin {"allc"}
        BY <1>11 DEF Allc
    <2>2. \/ \E err : Stop(err, Entered)
          \/ ptr' = (ptr + 1) % Width /\ copy' = copy
        BY <1>11 DEF Allc
    <2>3. Prog.code[ptr].op # "halt" /\ ~copy.on
        BY <2>1, <1>4 DEF Line
    <2>4. QED
        BY <1>3, <2>2, <2>3, StopStaysIn, NextLineIn
<1>12. CASE Push
    <2>1. At({"push"}) /\ "halt" \notin {"push"}
        BY <1>12 DEF Push
    <2>2. \/ \E err : Stop(err, Entered)
          \/ \E err, m : Finish(err, m, ptr)
        BY <1>12 DEF Push
    <2>3. QED
        BY <1>3, <1>4, <2>1, <2>2, StopStaysIn, NextStaysIn
<1>13. CASE Pop
    <2>1. At({"pop"}) /\ "halt" \notin {"pop"}
        BY <1>13 DEF Pop
    <2>2. \/ \E err : Stop(err, Entered)
          \/ \E err, m : Finish(err, m, ptr)
        BY <1>13 DEF Pop
    <2>3. QED
        BY <1>3, <1>4, <2>1, <2>2, StopStaysIn, NextStaysIn
<1>14. CASE Cast \/ Bump \/ Skip
    <2>1. At(CastOps \cup InPlaceOps \cup SkipOps)
        BY <1>14 DEF Cast, Bump, Skip, At
    <2>2. "halt" \notin CastOps \cup InPlaceOps \cup SkipOps
        BY DEF CastOps, InPlaceOps, SkipOps
    <2>3. \E err, m : Finish(err, m, ptr)
        BY <1>14 DEF Cast, Bump, Skip
    <2>4. QED
        BY <1>3, <2>1, <2>2, <2>3, NextStaysIn
<1>15. CASE Calculate
    <2>1. At(MathOps \cup MathfOps)
        BY <1>15 DEF Calculate
    <2>2. "halt" \notin MathOps \cup MathfOps
        BY DEF MathOps, MathfOps
    <2>3. \/ \E err : Stop(err, Entered)
          \/ \E err, m : Finish(err, m, ptr)
        BY <1>15 DEF Calculate, Answer
    <2>4. QED
        BY <1>3, <1>4, <2>1, <2>2, <2>3, StopStaysIn, NextStaysIn
<1>16. CASE Jmp
    <2>1. At({"jmp"})
        BY <1>16 DEF Jmp
    <2>2. Target(Prog, Arg(1)) /\ IsTok(Prog, Arg(1))
        <3>1. Line.op = "jmp" /\ Signature(Line.op) = <<VALUE>>
            BY <1>4, <2>1, Signatures
        <3>2. Target(Prog, Arg(1))
            BY <1>2, <1>3, <3>1 DEF Structured, Line, Arg
        <3>3. QED
            BY <1>3, <2>1, <3>1, <3>2, ArgFacts
    <2>3. Finish(GetValue(Entered, Arg(1)).err, Entered,
                 ToSize(Long(GetValue(Entered, Arg(1)).val)))
        BY <1>16 DEF Jmp
    <2>4. QED
        BY <1>3, <1>4, <2>1, <2>2, <2>3, JumpStaysIn
<1>17. CASE Jc
    <2>1. At({"jc"}) /\ "halt" \notin {"jc"}
        BY <1>17 DEF Jc
    <2>2. Target(Prog, Arg(2)) /\ IsTok(Prog, Arg(2))
        <3>1. Line.op = "jc" /\ Signature(Line.op) = <<VALUE, VALUE>>
            BY <1>4, <2>1, Signatures
        <3>2. Target(Prog, Arg(2))
            BY <1>2, <1>3, <3>1 DEF Structured, Line, Arg
        <3>3. QED
            BY <1>3, <2>1, <3>1, <3>2, ArgFacts
    <2>3. \/ \E err : Stop(err, Entered)
          \/ \E err, m : Finish(err, m, ptr)
          \/ Finish(GetValue(Entered, Arg(2)).err, Entered,
                    ToSize(Long(GetValue(Entered, Arg(2)).val)))
        BY <1>17 DEF Jc
    <2>4. QED
        BY <1>3, <1>4, <2>1, <2>2, <2>3, StopStaysIn, NextStaysIn, JumpStaysIn
<1>18. CASE Call
    <2>1. At({"call"})
        BY <1>18 DEF Call
    <2>2. Target(Prog, Arg(2)) /\ IsTok(Prog, Arg(2))
        <3>1. Line.op = "call" /\ Signature(Line.op) = <<PTR, VALUE>>
            BY <1>4, <2>1, Signatures
        <3>2. Target(Prog, Arg(2))
            BY <1>2, <1>3, <3>1 DEF Structured, Line, Arg
        <3>3. QED
            BY <1>3, <2>1, <3>1, <3>2, ArgFacts
    <2>3. \/ \E err, m : Stop(err, m)
          \/ \E m : Finish(GetValue(m, Arg(2)).err, m, ToSize(Long(GetValue(m, Arg(2)).val)))
        BY <1>18 DEF Call
    <2>4. QED
        BY <1>3, <1>4, <2>1, <2>2, <2>3, StopStaysIn, JumpStaysIn
<1>19. CASE Ret
    <2>1. At({"ret"})
        BY <1>19 DEF Ret
    <2>2. QED
        BY <1>2, <1>3, <1>4, <2>1 DEF Structured, Line
<1>20. CASE Halt
    <2>1. At({"halt"}) /\ \E m : Stop("ok", m)
        BY <1>20 DEF Halt
    <2>2. QED
        BY <1>3, <1>4, <2>1, StopStaysIn
<1>21. CASE RunOff
    BY <1>3, <1>21 DEF RunOff
<1>22. CASE UNCHANGED vars
    BY <1>3, <1>22 DEF vars
<1>23. QED
    BY <1>5, <1>6, <1>7, <1>8, <1>9, <1>10, <1>11, <1>12, <1>13, <1>14, <1>15, <1>16, <1>17,
       <1>18, <1>19, <1>20, <1>21, <1>22 DEF Next

\* A program without ret whose jumps all go to labels, or to numbers that have
\* a line after them (-1 among them), never runs past its last line: the run
\* loop fetches only lines of the program.
THEOREM ControlCorrect == Spec => []ControlStaysIn
<1>1. Init => ControlInv
    <2>1. SUFFICES ASSUME Init PROVE 0 \in DOMAIN Prog.code
        BY DEF Init, Idle, ControlInv
    <2>2. QED
        BY <2>1, ProgFacts DEF Init, IsProgram
<1>2. TypeOK /\ ControlInv /\ [Next]_vars => ControlInv'
    BY ControlStep
<1>3. ControlInv => ControlStaysIn
    BY DEF ControlInv, ControlStaysIn
<1>4. QED
    BY <1>1, <1>2, <1>3, TypeCorrect, PTL DEF Spec

(***************************************************************************)
(* Faults.                                                                 *)
(***************************************************************************)
AllGuarded(p) == \A i \in DOMAIN p.code : Guarded(p, p.code[i])

FaultInv == AllGuarded(Prog) => status # "undefined" /\ ~copy.on

\* A name among the values of a guarded line is a label of the program.
Named(tok) == tok.t = "Sym" => tok.idx \in DOMAIN Prog.labels

LEMMA FollowSafe ==
    ASSUME NEW S, NEW m, NEW r \in [err : Errs, val : S], r.err # "undefined"
    PROVE  Follow(m, r).err # "undefined"
BY DEF Follow, MemAt

LEMMA GetValueIdxSafe ==
    ASSUME NEW D, NEW m \in [D -> Value], NEW tok, tok.t = "Idx", IsTok(Prog, tok)
    PROVE  GetValueIdx(m, tok).err # "undefined"
<1> DEFINE first == MemAt(m, IF tok.base = "Num" THEN tok.idx ELSE var[tok.idx])
           layer == IF tok.base = "Num" THEN tok.depth ELSE tok.depth + 1
           R == [err : Errs, val : Value]
<1>1. first \in R /\ first.err # "undefined"
    BY CellSets, MemAtType DEF MemAt
<1>2. Follow(m, first) \in R /\ Follow(m, first).err # "undefined"
    BY <1>1, CellSets, FollowType, FollowSafe
<1>3. Follow(m, Follow(m, first)) \in R /\ Follow(m, Follow(m, first)).err # "undefined"
    BY <1>2, CellSets, FollowType, FollowSafe
<1>4. Follow(m, Follow(m, Follow(m, first))).err # "undefined"
    BY <1>3, CellSets, FollowType, FollowSafe
<1>5. layer \in 0..3
    BY DEF IsTok, MaxNest
<1>6. GetValueIdx(m, tok) =
        CASE layer = 0 -> first
          [] layer = 1 -> Follow(m, first)
          [] layer = 2 -> Follow(m, Follow(m, first))
          [] layer = 3 -> Follow(m, Follow(m, Follow(m, first)))
    BY DEF GetValueIdx
<1> HIDE DEF first, layer, R
<1>7. QED
    BY <1>1, <1>2, <1>3, <1>4, <1>5, <1>6

LEMMA GetValueSafe ==
    ASSUME NEW D, NEW m \in [D -> Value], NEW tok, tok.t \in VALUE, IsTok(Prog, tok), Named(tok)
    PROVE  GetValue(m, tok).err # "undefined"
<1>1. CASE tok.t = "Num"
    BY <1>1 DEF GetValue
<1>2. CASE tok.t = "Var"
    BY <1>2 DEF GetValue, MemAt
<1>3. CASE tok.t = "Idx"
    BY <1>3, GetValueIdxSafe DEF GetValue
<1>4. CASE tok.t = "Sym"
    BY <1>4 DEF GetValue, GetValueSym, Named
<1>5. QED
    BY <1>1, <1>2, <1>3, <1>4 DEF VALUE

LEMMA GetLocSafe ==
    ASSUME NEW m, NEW tok, tok.t \in PTR, IsTok(Prog, tok)
    PROVE  GetLoc(m, tok).err # "undefined"
<1>1. \A r : r.err # "undefined" => LocAt(m, r).err # "undefined"
    BY DEF LocAt, MemAt
<1>2. CASE tok.t = "Idx"
    <2>1. [err |-> "ok", loc |-> IF tok.base = "Num" THEN tok.idx ELSE var[tok.idx]].err # "undefined"
        OBVIOUS
    <2>2. QED
        BY <1>1, <1>2, <2>1 DEF GetLoc, GetLocIdx
<1>3. CASE tok.t \in {"Var", "Ltl"}
    BY <1>3 DEF GetLoc
<1>4. QED
    BY <1>2, <1>3 DEF PTR

\* A handler that stops without a fault, or goes on.
LEMMA FinishSafe ==
    ASSUME status = "run", NEW err, err # "undefined", NEW m, NEW line,
           Finish(err, m, line) \/ Stop(err, m)
    PROVE  status' # "undefined"
BY DEF Finish, Stop, Dispatch

\* The operands of a line that has no cause for a fault.
LEMMA UncausedArgs ==
    ASSUME Rest, Holds(Value), NEW ops, At(ops), ~FaultCause, NEW k \in DOMAIN Signature(Line.op)
    PROVE  /\ Entered \in [0..size - 1 -> Value]
           /\ Signature(Line.op)[k] = VALUE =>
                \A m \in [0..size - 1 -> Value] : GetValue(m, Arg(k)).err # "undefined"
           /\ Signature(Line.op)[k] = PTR =>
                /\ GetLoc(Entered, Arg(k)) \in [err : Errs, loc : Longs]
                /\ GetLoc(Entered, Arg(k)).err # "undefined"
<1>1. Arg(k).t \in Signature(Line.op)[k] /\ IsTok(Prog, Arg(k))
    BY ArgFacts
<1>2. Signature(Line.op)[k] = VALUE => Named(Arg(k))
    BY DEF FaultCause, Named
<1>3. Entered \in [0..size - 1 -> Value]
    BY CellSets, EnteredType
<1>4. QED
    BY <1>1, <1>2, <1>3, GetValueSafe, GetLocSafe, GetLocType

\* The lines that answer or move whole cells.
LEMMA CheckedLinesCause ==
    ASSUME TypeOK, Mov \/ Var \/ Loc \/ Bump \/ Not, ~FaultCause
    PROVE  status' # "undefined"
<1>1. Rest /\ Holds(Value)
    BY TypeOKParts
<1>2. CASE Mov
    <2> DEFINE val == GetValue(Entered, Arg(2))
               w == GetLoc(Entered, Arg(1))
    <2>1. At({"mov"})
        BY <1>2 DEF Mov
    <2>2. Signature(Line.op) = <<PTR, VALUE>> /\ Line.op = "mov" /\ status = "run"
        BY <1>1, <2>1, LineFacts, Signatures
    <2>3. val.err # "undefined" /\ w.err # "undefined"
        BY <1>1, <2>1, <2>2, UncausedArgs
    <2>4. WriteLocs(Entered, Arg(1)) = {w}
        BY <2>2 DEF FaultCause, WriteLocs
    <2>5. WriteErr(Entered, w) # "undefined"
        BY <2>3 DEF WriteErr, SetErr
    <2>6. \/ Stop(val.err, Entered)
          \/ \E m : Finish(WriteErr(Entered, w), m, ptr)
        BY <1>2, <2>4 DEF Mov
    <2>7. QED
        BY <2>2, <2>3, <2>5, <2>6, FinishSafe
<1>3. CASE Var
    <2>1. At({"var"})
        BY <1>3 DEF Var
    <2>2. Signature(Line.op) = <<SYM, PTR>> /\ status = "run"
        BY <1>1, <2>1, LineFacts, Signatures
    <2>3. GetLoc(Entered, Arg(2)).err # "undefined"
        BY <1>1, <2>1, <2>2, UncausedArgs
    <2>4. \/ Stop(GetLoc(Entered, Arg(2)).err, Entered)
          \/ Dispatch(Entered, ptr)
        BY <1>3 DEF Var
    <2>5. QED
        BY <2>2, <2>3, <2>4, FinishSafe DEF Dispatch
<1>4. CASE Loc
    <2>1. At({"loc"}) /\ \E m : Finish(GetLoc(Entered, Arg(1)).err, m, ptr)
        BY <1>4 DEF Loc, Answer
    <2>2. Signature(Line.op) = <<PTR>> /\ status = "run"
        BY <1>1, <2>1, LineFacts, Signatures
    <2>3. GetLoc(Entered, Arg(1)).err # "undefined"
        BY <1>1, <2>1, <2>2, UncausedArgs
    <2>4. QED
        BY <2>1, <2>2, <2>3, FinishSafe
<1>5. CASE Bump
    <2> DEFINE w == GetLoc(Entered, Arg(1))
               err == IF w.err # "ok" THEN w.err ELSE MemAt(Entered, w.loc).err
    <2>1. At(InPlaceOps) /\ \E m : Finish(err, m, ptr)
        BY <1>5 DEF Bump
    <2>2. Signature(Line.op) = <<PTR>> /\ status = "run"
        BY <1>1, <2>1, LineFacts, Signatures
    <2>3. w.err # "undefined"
        BY <1>1, <2>1, <2>2, UncausedArgs
    <2>4. err # "undefined"
        BY <2>3 DEF MemAt
    <2>5. QED
        BY <2>1, <2>2, <2>4, FinishSafe
<1>6. CASE Not
    <2>1. At({"not"}) /\ \E m : Finish(GetValue(Entered, Arg(1)).err, m, ptr)
        BY <1>6 DEF Not, Answer
    <2>2. Signature(Line.op) = <<VALUE>> /\ status = "run"
        BY <1>1, <2>1, LineFacts, Signatures
    <2>3. GetValue(Entered, Arg(1)).err # "undefined"
        BY <1>1, <2>1, <2>2, UncausedArgs
    <2>4. QED
        BY <2>1, <2>2, <2>3, FinishSafe
<1>7. QED
    BY <1>2, <1>3, <1>4, <1>5, <1>6

\* The lines that only read, or jump.
LEMMA ReadingLinesCause ==
    ASSUME TypeOK, CpyStart \/ Calculate \/ Allc \/ Jmp \/ Jc, ~FaultCause
    PROVE  status' # "undefined"
<1>1. Rest /\ Holds(Value)
    BY TypeOKParts
<1>2. CASE CpyStart
    <2> DEFINE des == GetLoc(Entered, Arg(1))
               src == GetLoc(Entered, Arg(2))
               n == GetValue(Entered, Arg(3))
               err == IF des.err # "ok" THEN des.err ELSE IF src.err # "ok" THEN src.err ELSE n.err
    <2>1. At({"cpy"})
        BY <1>2 DEF CpyStart
    <2>2. Signature(Line.op) = <<PTR, PTR, VALUE>> /\ status = "run"
        BY <1>1, <2>1, LineFacts, Signatures
    <2>3. des.err # "undefined" /\ src.err # "undefined" /\ n.err # "undefined"
        BY <1>1, <2>1, <2>2, UncausedArgs
    <2>4. err # "undefined"
        BY <2>3
    <2>5. Stop(err, Entered) \/ status' = status
        BY <1>2 DEF CpyStart
    <2>6. QED
        BY <2>2, <2>4, <2>5, FinishSafe
<1>3. CASE Calculate
    <2> DEFINE l == GetValue(Entered, Arg(1))
               r == GetValue(Entered, Arg(2))
               traps == Line.op = "mod" /\ Traps(Long(l.val), Long(r.val))
               err == IF l.err # "ok" THEN l.err ELSE IF r.err # "ok" THEN r.err
                      ELSE IF traps THEN "undefined" ELSE "ok"
    <2>1. At(MathOps \cup MathfOps)
        BY <1>3 DEF Calculate
    <2>2. Signature(Line.op) = <<VALUE, VALUE>> /\ status = "run"
        BY <1>1, <2>1, LineFacts, Signatures
    <2>3. l.err # "undefined" /\ r.err # "undefined"
        BY <1>1, <2>1, <2>2, UncausedArgs
    <2>4. ~traps
        BY DEF FaultCause, Traps
    <2>5. err # "undefined"
        BY <2>3, <2>4
    <2>6. Stop(err, Entered) \/ \E m : Finish("ok", m, ptr)
        BY <1>3 DEF Calculate, Answer
    <2>7. QED
        BY <2>2, <2>5, <2>6, FinishSafe
<1>4. CASE Allc
    <2> DEFINE n == GetValue(Entered, Arg(1))
               k == IF Long(n.val) < 0 THEN 0 ELSE Long(n.val)
               err == IF n.err # "ok" THEN n.err ELSE IF size + k > MaxMem THEN "undefined" ELSE "ok"
    <2>1. At({"allc"})
        BY <1>4 DEF Allc
    <2>2. Signature(Line.op) = <<VALUE>> /\ status = "run" /\ Line.op = "allc"
        BY <1>1, <2>1, LineFacts, Signatures
    <2>3. n.err # "undefined"
        BY <1>1, <2>1, <2>2, UncausedArgs
    <2>4. ~(size + Long(n.val) > MaxMem)
        BY <2>2 DEF FaultCause
    <2>5. ~(size + k > MaxMem)
        BY <1>1, <2>4, SizeFacts
    <2>6. err # "undefined"
        BY <2>3, <2>5
    <2>7. Stop(err, Entered) \/ status' = status
        BY <1>4 DEF Allc
    <2>8. QED
        BY <2>2, <2>6, <2>7, FinishSafe
<1>5. CASE Jmp
    <2>1. At({"jmp"}) /\ \E line : Finish(GetValue(Entered, Arg(1)).err, Entered, line)
        BY <1>5 DEF Jmp
    <2>2. Signature(Line.op) = <<VALUE>> /\ status = "run"
        BY <1>1, <2>1, LineFacts, Signatures
    <2>3. GetValue(Entered, Arg(1)).err # "undefined"
        BY <1>1, <2>1, <2>2, UncausedArgs
    <2>4. QED
        BY <2>1, <2>2, <2>3, FinishSafe
<1>6. CASE Jc
    <2> DEFINE cond == GetValue(Entered, Arg(1))
               loc == GetValue(Entered, Arg(2))
    <2>1. At({"jc"})
        BY <1>6 DEF Jc
    <2>2. Signature(Line.op) = <<VALUE, VALUE>> /\ status = "run"
        BY <1>1, <2>1, LineFacts, Signatures
    <2>3. cond.err # "undefined" /\ loc.err # "undefined"
        BY <1>1, <2>1, <2>2, UncausedArgs
    <2>4. \/ Stop(cond.err, Entered)
          \/ Finish("ok", Entered, ptr)
          \/ \E line : Finish(loc.err, Entered, line)
        BY <1>6 DEF Jc
    <2>5. QED
        BY <2>2, <2>3, <2>4, FinishSafe
<1>7. QED
    BY <1>2, <1>3, <1>4, <1>5, <1>6

\* The lines that reach their cell through a C pointer.
LEMMA StackLinesCause ==
    ASSUME TypeOK, Push \/ Pop \/ Call \/ Ret \/ Cast, ~FaultCause
    PROVE  status' # "undefined"
<1> DEFINE w == GetLoc(Entered, Arg(1))
           up == AddLong(Entered, w.loc, 1)
           top == Long(up[w.loc])
<1>1. Rest /\ Holds(Value)
    BY TypeOKParts
<1>2. At({"push", "pop", "call", "ret"} \cup CastOps)
    BY DEF Push, Pop, Call, Ret, Cast, At
<1>3. /\ Line.op \in {"push", "pop", "call", "ret"} \cup CastOps /\ status = "run"
      /\ 1 \in DOMAIN Signature(Line.op) /\ Signature(Line.op)[1] = PTR
    BY <1>1, <1>2, LineFacts, Signatures
<1>4. /\ Entered \in [0..size - 1 -> Value] /\ w.loc \in Longs /\ w.loc \in Int
      /\ w.err # "undefined"
    BY <1>1, <1>2, <1>3, UncausedArgs, LongsAreInts
<1>5. ~(w.loc >= size)
    BY <1>3 DEF FaultCause
<1>6. CellErr(Entered, w) # "undefined" /\ StackErr(Entered, w) # "undefined"
    BY <1>1, <1>4, <1>5, SizeFacts DEF CellErr, StackErr
<1>7. StackErr(Entered, w) = "ok" => up \in [0..size - 1 -> Value]
    <2>1. SUFFICES ASSUME StackErr(Entered, w) = "ok" PROVE up \in [0..size - 1 -> Value]
        OBVIOUS
    <2>2. 1 \in Int
        OBVIOUS
    <2> HIDE DEF w
    <2>3. QED
        BY <1>4, <2>1, <2>2, MovedPointer
<1>8. SetErr(up, top) # "undefined" /\ \A m, i : MemAt(m, i).err # "undefined"
    BY DEF SetErr, MemAt
<1>9. CASE Push
    <2> DEFINE val == GetValue(up, Arg(2))
               err == IF val.err # "ok" THEN val.err ELSE SetErr(up, top)
    <2>1. \/ StackErr(Entered, w) # "ok" /\ Stop(StackErr(Entered, w), Entered)
          \/ StackErr(Entered, w) = "ok" /\ \E m : Finish(err, m, ptr)
        BY <1>9 DEF Push
    <2>2. At({"push"}) /\ Signature(Line.op) = <<PTR, VALUE>>
        BY <1>1, <1>9, LineFacts, Signatures DEF Push
    <2>3. StackErr(Entered, w) = "ok" => val.err # "undefined"
        <3> HIDE DEF up
        <3>1. QED
            BY <1>1, <1>7, <2>2, UncausedArgs
    <2>4. StackErr(Entered, w) = "ok" => err # "undefined"
        BY <1>8, <2>3
    <2>5. QED
        BY <1>3, <1>6, <2>1, <2>4, FinishSafe
<1>10. CASE Pop
    <2>1. \/ Stop(StackErr(Entered, w), Entered)
          \/ Stop(MemAt(Entered, Long(Entered[w.loc])).err, Entered)
          \/ \E m : Finish("ok", m, ptr)
        BY <1>10 DEF Pop
    <2>2. QED
        BY <1>3, <1>6, <1>8, <2>1, FinishSafe
<1>11. CASE Call
    <2> DEFINE n == MemSet(up, top, AddLong(up, 1, 1)[1])
               loc == GetValue(n, Arg(2))
    <2>1. \/ Stop(StackErr(Entered, w), Entered)
          \/ Stop(SetErr(up, top), up)
          \/ StackErr(Entered, w) = "ok" /\ \E line : Finish(loc.err, n, line)
        BY <1>11 DEF Call
    <2>2. At({"call"}) /\ Signature(Line.op) = <<PTR, VALUE>>
        BY <1>1, <1>11, LineFacts, Signatures DEF Call
    <2>3. StackErr(Entered, w) = "ok" => loc.err # "undefined"
        <3>1. SUFFICES ASSUME StackErr(Entered, w) = "ok" PROVE loc.err # "undefined"
            OBVIOUS
        <3>2. up \in [0..size - 1 -> Value] /\ 1 \in 0..size - 1 /\ 1 \in Int
            BY <1>1, <1>7, <3>1, SizeFacts
        <3> HIDE DEF up
        <3>3. AddLong(up, 1, 1)[1] \in Value
            <4> DEFINE D == 0..size - 1
            <4>1. up \in [D -> Value] /\ 1 \in D
                BY <3>2
            <4> HIDE DEF D
            <4>2. AddLong(up, 1, 1) \in [D -> Value]
                BY <3>2, <4>1, AddLongType
            <4>3. QED
                BY <4>1, <4>2
        <3>4. n \in [0..size - 1 -> Value]
            BY <3>2, <3>3, MemSetType
        <3> HIDE DEF n
        <3>5. QED
            BY <1>1, <2>2, <3>4, UncausedArgs
    <2>4. QED
        BY <1>3, <1>6, <1>8, <2>1, <2>3, FinishSafe
<1>12. CASE Ret
    <2>1. \/ Stop(CellErr(Entered, w), Entered)
          \/ Stop("NotInteger", Entered)
          \/ Stop(MemAt(Entered, Long(Entered[w.loc])).err, Entered)
          \/ \E m, line : Finish("ok", m, line)
        BY <1>12 DEF Ret
    <2>2. QED
        BY <1>3, <1>6, <1>8, <2>1, FinishSafe
<1>13. CASE Cast
    <2>1. \E m : Finish(CellErr(Entered, w), m, ptr)
        BY <1>13 DEF Cast
    <2>2. QED
        BY <1>3, <1>6, <2>1, FinishSafe
<1>14. QED
    BY <1>9, <1>10, <1>11, <1>12, <1>13

CauseStep ==
    status' = "undefined" /\ status = "run" =>
        IF copy.on THEN copy.des = 1 ELSE FaultCause

LEMMA NextHasCause == ASSUME TypeOK, Next PROVE CauseStep
<1> SUFFICES ASSUME status' = "undefined", status = "run", copy.on => copy.des # 1,
                    ~copy.on => ~FaultCause
             PROVE  FALSE
    BY DEF CauseStep
<1>1. ASSUME NEW ops, At(ops) PROVE ~copy.on
    BY <1>1 DEF At
<1>2. CASE Mov \/ Var \/ Loc \/ Bump \/ Not
    BY <1>1, <1>2, CheckedLinesCause DEF Mov, Var, Loc, Bump, Not
<1>3. CASE CpyStart \/ Calculate \/ Allc \/ Jmp \/ Jc
    BY <1>1, <1>3, ReadingLinesCause DEF CpyStart, Calculate, Allc, Jmp, Jc
<1>4. CASE Push \/ Pop \/ Call \/ Ret \/ Cast
    BY <1>1, <1>4, StackLinesCause DEF Push, Pop, Call, Ret, Cast
<1>5. CASE Size \/ Skip \/ Halt \/ RunOff \/ CopyEnd
    BY <1>5 DEF Size, Skip, Halt, RunOff, CopyEnd, Answer, Finish, Dispatch, Stop
<1>6. CASE CopyStep
    <2> DEFINE val == MemAt(mem, copy.src)
               w == CopyTarget(mem, copy.des)
               err == IF val.err # "ok" THEN val.err ELSE WriteErr(mem, w)
    <2>1. copy.on /\ copy.des # 1
        BY <1>6 DEF CopyStep
    <2>2. w.err # "undefined" /\ val.err # "undefined"
        BY <2>1 DEF CopyTarget, LocAt, MemAt
    <2>3. err # "undefined"
        BY <2>2 DEF WriteErr, SetErr
    <2>4. Stop(err, mem) \/ status' = status
        BY <1>6 DEF CopyStep
    <2>5. QED
        BY <2>3, <2>4 DEF Stop
<1>7. QED
    BY <1>2, <1>3, <1>4, <1>5, <1>6 DEF Next

\* Every fault of every program has its cause in the line it runs: a name that
\* is no label, a literal written to, a remainder that traps, a cell reached
\* through a C pointer past memory, or memory that cannot grow; and in a copy,
\* the null index.  What an index or a stack pointer holds is never one.
THEOREM FaultsCaused == Spec => FaultsHaveCause
<1>1. TypeOK /\ [Next]_vars => [CauseStep]_vars
    BY NextHasCause
<1>2. QED
    BY <1>1, TypeCorrect, PTL DEF Spec, FaultsHaveCause, CauseStep

\* No other step starts a copy.
LEMMA CopyKept == ASSUME [Next]_vars, ~copy.on, ~CpyStart PROVE ~copy'.on
<1> USE DEF Stop, Dispatch, Finish, Answer
<1>1. CASE Mov \/ CopyStep \/ CopyEnd \/ Size \/ Var \/ Loc \/ Allc
    BY <1>1 DEF Mov, CopyStep, CopyEnd, Size, Var, Loc, Allc
<1>2. CASE Push \/ Pop \/ Cast \/ Calculate \/ Bump \/ Not
    BY <1>2 DEF Push, Pop, Cast, Calculate, Bump, Not
<1>3. CASE Jmp \/ Jc \/ Call \/ Ret \/ Skip \/ Halt \/ RunOff
    BY <1>3 DEF Jmp, Jc, Call, Ret, Skip, Halt, RunOff
<1>4. CASE UNCHANGED vars
    BY <1>4 DEF vars
<1>5. QED
    BY <1>1, <1>2, <1>3, <1>4 DEF Next

LEMMA FaultStep == ASSUME TypeOK, FaultInv, [Next]_vars PROVE FaultInv'
<1>1. Prog' = Prog
    BY ProgSame
<1>2. SUFFICES ASSUME AllGuarded(Prog) PROVE status' # "undefined" /\ ~copy'.on
    BY <1>1 DEF FaultInv
<1>3. status # "undefined" /\ ~copy.on
    BY <1>2 DEF FaultInv
<1>4. ASSUME NEW ops, At(ops) PROVE Guarded(Prog, Line) /\ ~FaultCause
    <2>1. Guarded(Prog, Line)
        BY <1>2, <1>4 DEF AllGuarded, At, Line
    <2>2. QED
        BY <2>1 DEF Guarded, FaultCause, Arg
<1>5. ~CpyStart
    <2>1. ASSUME CpyStart PROVE FALSE
        <3>1. At({"cpy"}) /\ Line.op = "cpy"
            BY <2>1 DEF CpyStart, At
        <3>2. QED
            BY <1>4, <3>1 DEF Guarded
    <2>2. QED
        BY <2>1
<1>6. status' # "undefined"
    <2>1. CASE ~Next
        BY <1>3, <2>1 DEF vars
    <2>2. CASE Next /\ ptr \in DOMAIN Prog.code /\ status = "run"
        <3>1. At({Line.op})
            BY <1>3, <2>2 DEF At
        <3>2. QED
            BY <1>3, <1>4, <2>2, <3>1, NextHasCause DEF CauseStep
    <2>3. CASE Next /\ ~(ptr \in DOMAIN Prog.code /\ status = "run")
        <3>1. ASSUME NEW ops PROVE ~At(ops)
            BY <2>3 DEF At
        <3>2. CopyStep \/ CopyEnd \/ RunOff
            BY <2>3, <3>1 DEF Next, Mov, CpyStart, Size, Var, Loc, Allc, Push, Pop, Cast,
                              Calculate, Bump, Not, Jmp, Jc, Call, Ret, Skip, Halt
        <3>3. QED
            BY <1>3, <3>2 DEF CopyStep, CopyEnd, RunOff, Stop
    <2>4. QED
        BY <2>1, <2>2, <2>3
<1>7. QED
    BY <1>3, <1>5, <1>6, CopyKept

\* The instructions that check their indices leave no access unchecked: a
\* program made of them never reads or writes outside memory, whatever cells
\* its indices are read from.
THEOREM FaultFree == Spec => []NoFault
<1>1. Init => FaultInv
    BY DEF Init, Idle, FaultInv
<1>2. TypeOK /\ FaultInv /\ [Next]_vars => FaultInv'
    BY FaultStep
<1>3. FaultInv => NoFault
    BY DEF FaultInv, NoFault, AllGuarded
<1>4. QED
    BY <1>1, <1>2, <1>3, TypeCorrect, PTL DEF Spec

(***************************************************************************)
(* What a line may change: Frame and ReadBack.                             *)
(***************************************************************************)
\* The step changes no cell but the line register and those of C.
Only(C) == \A i \in DOMAIN mem \ {1} : mem'[i] # mem[i] => i \in C

\* A memory that differs from the one TARGET leaves in cells of C only.
Within(m, C) == \A i \in DOMAIN mem \ {1} : m[i] # mem[i] => i \in C

LEMMA EnteredWithin == ASSUME NEW C PROVE Within(Entered, C)
BY DEF Within, Entered

LEMMA SetWithin ==
    ASSUME NEW m, DOMAIN m = DOMAIN mem, NEW C, Within(m, C), NEW i, i \in C \/ i \notin DOMAIN mem, NEW v
    PROVE  Within([m EXCEPT ![i] = v], C)
BY DEF Within

LEMMA FinishOnly ==
    ASSUME NEW err, NEW m, NEW C, Within(m, C), NEW line,
           Finish(err, m, line) \/ Stop(err, m) \/ Dispatch(m, line)
    PROVE  Only(C)
BY DEF Finish, Stop, Dispatch, Within, Only

LEMMA AnswerOnly ==
    ASSUME TypeOK, NEW ops, At(ops), NEW err, NEW v, Answer(err, v)
    PROVE  Only({0})
<1>1. Entered \in [DOMAIN mem -> Value] /\ DOMAIN Entered = DOMAIN mem
    BY TypeOKParts, EnteredType, CellSets DEF Holds
<1>2. Within(Entered, {0}) /\ Within([Entered EXCEPT ![0] = v], {0})
    BY <1>1, EnteredWithin, SetWithin
<1>3. QED
    BY <1>2, FinishOnly DEF Answer

(***************************************************************************)
(* Lines without a cell of their own.                                      *)
(***************************************************************************)
LEMMA PlainLines ==
    ASSUME CpyStart \/ Var \/ Jmp \/ Jc \/ Skip
    PROVE  Only({})
<1>1. Within(Entered, {})
    BY EnteredWithin
<1>2. mem' = Entered
    BY DEF CpyStart, Var, Jmp, Jc, Skip, Finish, Stop, Dispatch
<1>3. QED
    BY <1>1, <1>2 DEF Within, Only

LEMMA AllcLine == ASSUME TypeOK, Allc PROVE Only({})
<1> DEFINE n == GetValue(Entered, Arg(1))
           k == IF Long(n.val) < 0 THEN 0 ELSE Long(n.val)
           grown == [i \in 0..size + k - 1 |-> IF i < size THEN Entered[i] ELSE Zero]
<1>1. Within(Entered, {})
    BY EnteredWithin
<1>2. mem' = Entered \/ mem' = grown
    BY DEF Allc, Stop
<1>3. Rest /\ Holds(Value) /\ At({"allc"})
    BY TypeOKParts DEF Allc
<1>4. Signature(Line.op) = <<VALUE>> /\ Entered \in [0..size - 1 -> Value]
    BY <1>3, LineFacts, Signatures, CellSets, EnteredType
<1>5. Arg(1).t \in VALUE /\ IsTok(Prog, Arg(1))
    BY <1>3, <1>4, ArgFacts
<1>6. Long(n.val) \in Int
    BY <1>3, <1>4, <1>5, CellSets, GetValueType, LongsAreInts DEF Rest
<1>7. k \in Nat
    BY <1>6
<1> HIDE DEF k
<1>8. \A i \in DOMAIN mem : i \in 0..size + k - 1 /\ i < size
    BY <1>3, <1>7, SizeFacts DEF Holds
<1>9. QED
    BY <1>1, <1>2, <1>8 DEF Within, Only

LEMMA AnsweringLines ==
    ASSUME TypeOK, Size \/ Loc \/ Calculate \/ Not
    PROVE  Only({0})
<1>1. CASE Size \/ Loc \/ Not
    BY <1>1, AnswerOnly DEF Size, Loc, Not
<1>2. CASE Calculate
    <2>1. \/ \E err : Stop(err, Entered)
          \/ \E v : Answer("ok", v)
        BY <1>2 DEF Calculate
    <2>2. At(MathOps \cup MathfOps)
        BY <1>2 DEF Calculate
    <2>3. QED
        BY <2>1, <2>2, AnswerOnly, EnteredWithin, FinishOnly
<1>3. QED
    BY <1>1, <1>2

LEMMA HaltLine == ASSUME TypeOK, Halt PROVE Only({0})
<1>1. DOMAIN Entered = DOMAIN mem
    BY DEF Entered
<1>2. Within([Entered EXCEPT ![0] = Zero], {0})
    BY <1>1, EnteredWithin, SetWithin
<1>3. QED
    BY <1>2, FinishOnly DEF Halt

(***************************************************************************)
(* Lines that write through a pointer operand.                             *)
(***************************************************************************)
\* What such a line starts from: its operand is one, memory has its type.
LEMMA PointerLine ==
    ASSUME TypeOK, NEW ops, At(ops),
           ops \subseteq {"mov", "push", "call", "pop", "ret"} \cup InPlaceOps \cup CastOps
    PROVE  /\ Rest /\ Holds(Value)
           /\ Entered \in [0..size - 1 -> Value]
           /\ DOMAIN mem = 0..size - 1
           /\ Arg(1).t \in PTR /\ IsTok(Prog, Arg(1))
           /\ GetLoc(Entered, Arg(1)) \in [err : Errs, loc : Longs]
<1>1. Rest /\ Holds(Value)
    BY TypeOKParts
<1>2. Entered \in [0..size - 1 -> Value] /\ DOMAIN mem = 0..size - 1
    BY <1>1, CellSets, EnteredType DEF Holds
<1>3. Signature(Line.op) = <<PTR, VALUE>> \/ Signature(Line.op) = <<PTR>>
    BY <1>1, LineFacts, Signatures
<1>4. Arg(1).t \in PTR /\ IsTok(Prog, Arg(1))
    BY <1>1, <1>3, ArgFacts
<1>5. QED
    BY <1>1, <1>2, <1>4, GetLocType

LEMMA MovLine ==
    ASSUME TypeOK, Mov, Arg(1).t # "Ltl"
    PROVE  Only({GetLoc(Entered, Arg(1)).loc} \cap Nat)
<1> DEFINE w == GetLoc(Entered, Arg(1))
           val == GetValue(Entered, Arg(2))
           n == IF WriteErr(Entered, w) = "ok" THEN MemSet(Entered, w.loc, val.val) ELSE Entered
           C == {w.loc} \cap Nat
<1>1. At({"mov"})
    BY DEF Mov
<1>2. Entered \in [0..size - 1 -> Value] /\ DOMAIN mem = 0..size - 1 /\ w.loc \in Int
    BY <1>1, PointerLine, LongsAreInts
<1>3. Stop(val.err, Entered) \/ Finish(WriteErr(Entered, w), n, ptr)
    BY DEF Mov, WriteLocs
<1>4. Within(Entered, C)
    BY EnteredWithin
<1>5. Within(n, C)
    <2>1. CASE WriteErr(Entered, w) = "ok"
        <3>1. w.loc \in C /\ Abs(w.loc) = w.loc
            BY <1>2, <2>1 DEF WriteErr, Abs
        <3>2. QED
            BY <1>2, <1>4, <2>1, <3>1, SetWithin DEF MemSet
    <2>2. QED
        BY <1>4, <2>1
<1>6. QED
    BY <1>3, <1>4, <1>5, FinishOnly

LEMMA CastLine == ASSUME TypeOK, Cast PROVE Only({GetLoc(Entered, Arg(1)).loc} \cap Nat)
<1> DEFINE w == GetLoc(Entered, Arg(1))
           err == CellErr(Entered, w)
           n == IF err = "ok" THEN [Entered EXCEPT ![w.loc] = Converted(Line.op, @)] ELSE Entered
           C == {w.loc} \cap Nat
<1>1. At(CastOps) /\ Finish(err, n, ptr)
    BY DEF Cast
<1>2. Entered \in [0..size - 1 -> Value] /\ DOMAIN mem = 0..size - 1 /\ w.loc \in Int
    BY <1>1, PointerLine, LongsAreInts
<1>3. Within(Entered, C)
    BY EnteredWithin
<1>4. Within(n, C)
    <2>1. CASE err = "ok"
        <3>1. w.loc \in C
            BY <1>2, <2>1 DEF CellErr
        <3>2. QED
            BY <1>2, <1>3, <2>1, <3>1, SetWithin
    <2>2. QED
        BY <1>3, <2>1
<1>5. QED
    BY <1>1, <1>4, FinishOnly

LEMMA BumpLine == ASSUME TypeOK, Bump PROVE Only({Abs(GetLoc(Entered, Arg(1)).loc)})
<1> DEFINE w == GetLoc(Entered, Arg(1))
           val == MemAt(Entered, w.loc)
           err == IF w.err # "ok" THEN w.err ELSE val.err
           n == IF err = "ok" THEN MemSet(Entered, w.loc, Bumped(Line.op, val.val)) ELSE Entered
           C == {Abs(w.loc)}
<1>1. At(InPlaceOps) /\ Finish(err, n, ptr)
    BY DEF Bump
<1>2. DOMAIN Entered = DOMAIN mem
    BY DEF Entered
<1>3. Within(Entered, C)
    BY EnteredWithin
<1>4. Within(n, C)
    BY <1>2, <1>3, SetWithin DEF MemSet
<1>5. QED
    BY <1>1, <1>4, FinishOnly

\* pop and ret move the pointer their operand designates; pop answers too.
LEMMA PopLine == ASSUME TypeOK, Pop PROVE Only(({GetLoc(Entered, Arg(1)).loc} \cap Nat) \cup {0})
<1> DEFINE w == GetLoc(Entered, Arg(1))
           val == MemAt(Entered, Long(Entered[w.loc]))
           C == ({w.loc} \cap Nat) \cup {0}
<1>1. At({"pop"})
    BY DEF Pop
<1>2. DOMAIN Entered = DOMAIN mem /\ w.loc \in Int
    BY <1>1, PointerLine, LongsAreInts DEF Entered
<1>3. Within(Entered, C) /\ Within([Entered EXCEPT ![0] = val.val], C)
    BY <1>2, EnteredWithin, SetWithin
<1>4. CASE StackErr(Entered, w) # "ok" \/ val.err # "ok"
    <2>1. \E err : Stop(err, Entered)
        BY <1>4 DEF Pop
    <2>2. QED
        BY <1>3, <2>1, FinishOnly
<1>5. CASE StackErr(Entered, w) = "ok" /\ val.err = "ok"
    <2> DEFINE m == [Entered EXCEPT ![0] = val.val]
    <2>1. Finish("ok", AddLong(m, w.loc, -1), ptr)
        BY <1>5 DEF Pop
    <2>2. w.loc \in C
        BY <1>2, <1>5 DEF StackErr, CellErr
    <2>3. DOMAIN m = DOMAIN mem
        BY <1>2
    <2>4. Within(AddLong(m, w.loc, -1), C)
        <3> HIDE DEF m, C, w
        <3>1. QED
            BY <1>3, <2>2, <2>3, SetWithin DEF AddLong, m
    <2>5. QED
        BY <2>1, <2>4, FinishOnly
<1>6. QED
    BY <1>4, <1>5

LEMMA RetLine == ASSUME TypeOK, Ret PROVE Only({GetLoc(Entered, Arg(1)).loc} \cap Nat)
<1> DEFINE w == GetLoc(Entered, Arg(1))
           C == {w.loc} \cap Nat
           n == AddLong(Entered, w.loc, -1)
<1>1. At({"ret"})
    BY DEF Ret
<1>2. DOMAIN Entered = DOMAIN mem /\ w.loc \in Int
    BY <1>1, PointerLine, LongsAreInts DEF Entered
<1>3. Within(Entered, C)
    BY EnteredWithin
<1>4. \/ \E err : Stop(err, Entered)
      \/ CellErr(Entered, w) = "ok" /\ \E line : Finish("ok", n, line)
    BY DEF Ret
<1>5. CASE CellErr(Entered, w) = "ok" /\ \E line : Finish("ok", n, line)
    <2>1. w.loc \in C
        BY <1>2, <1>5 DEF CellErr
    <2>2. Within(n, C)
        <3> HIDE DEF C, w
        <3>1. QED
            BY <1>2, <1>3, <2>1, SetWithin DEF AddLong
    <2>3. QED
        BY <1>5, <2>2, FinishOnly
<1>6. QED
    BY <1>3, <1>4, <1>5, FinishOnly

(***************************************************************************)
(* push and call: the cell above the one the pointer holds.                *)
(***************************************************************************)
LEMMA WrapNext ==
    ASSUME NEW n \in Longs
    PROVE  /\ n < LongMax => Wrap(n + 1) = n + 1
           /\ n = LongMax => Wrap(n + 1) = LongMin
<1>1. n \in Int
    BY LongsAreInts
<1>2. CASE n < LongMax
    <2>1. n + 1 + LongMax + 1 \in Nat /\ n + 1 + LongMax + 1 < Width
        BY <1>1, <1>2, WidthFacts DEF Longs, LongMin, Width
    <2>2. ToSize(n + 1 + LongMax + 1) = n + 1 + LongMax + 1
        BY <2>1, WidthFacts DEF ToSize
    <2>3. QED
        BY <1>1, <1>2, <2>2, WidthFacts DEF Wrap
<1>3. CASE n = LongMax
    <2>1. n + 1 + LongMax + 1 = Width
        BY <1>3, WidthFacts DEF Width
    <2>2. Width % Width = 0
        BY WidthFacts
    <2>3. QED
        BY <1>3, <2>1, <2>2, WidthFacts DEF Wrap, ToSize, LongMin
<1>4. QED
    BY <1>2, <1>3

\* A pointer that may be moved and gives a cell of memory has not wrapped.
LEMMA CellAbove ==
    ASSUME TypeOK, NEW w, StackErr(Entered, w) = "ok", Entered \in [0..size - 1 -> Value],
           SetErr(AddLong(Entered, w.loc, 1), Long(AddLong(Entered, w.loc, 1)[w.loc])) = "ok"
    PROVE  /\ Long(AddLong(Entered, w.loc, 1)[w.loc]) = Long(Entered[w.loc]) + 1
           /\ Abs(Long(AddLong(Entered, w.loc, 1)[w.loc])) = Long(Entered[w.loc]) + 1
<1> DEFINE n == Long(Entered[w.loc])
           m == AddLong(Entered, w.loc, 1)
<1>1. w.loc \in 0..size - 1 /\ ~(n < 0)
    BY DEF StackErr, CellErr
<1>2. n \in Longs /\ n \in Int
    BY <1>1, LongType, LongsAreInts
<1>3. Long(m[w.loc]) = Wrap(n + 1)
    BY <1>1 DEF AddLong, SetLong, Long
<1>4. DOMAIN m = 0..size - 1
    BY DEF AddLong
<1>5. Abs(Wrap(n + 1)) \in 0..size - 1
    <2> HIDE DEF n, m
    <2>1. QED
        BY <1>3, <1>4 DEF SetErr, m
<1> HIDE DEF n, m
<1>6. n <= LongMax
    BY <1>2, WidthFacts DEF Longs, LongMin
<1>7. n # LongMax
    <2>1. Rest
        BY TypeOKParts
    <2>2. Abs(LongMin) = LongMax + 1
        BY WidthFacts DEF Abs, LongMin
    <2>3. QED
        BY <1>2, <1>5, <2>1, <2>2, SizeFacts, WidthFacts, WrapNext
<1>8. Wrap(n + 1) = n + 1
    BY <1>2, <1>6, <1>7, WidthFacts, WrapNext
<1>9. QED
    BY <1>1, <1>2, <1>3, <1>8 DEF Abs, n, m

\* The cells of a push or a call.
Above == LET w == GetLoc(Entered, Arg(1)) IN
    ({w.loc} \cap Nat) \cup {Long(Entered[i]) + 1 : i \in {w.loc} \cap DOMAIN mem}

LEMMA AboveFacts ==
    ASSUME TypeOK, NEW ops, At(ops), ops \subseteq {"push", "call"},
           NEW w, w = GetLoc(Entered, Arg(1)), StackErr(Entered, w) = "ok",
           NEW m, m = AddLong(Entered, w.loc, 1), NEW top, top = Long(m[w.loc])
    PROVE  /\ Within(m, Above)
           /\ DOMAIN m = DOMAIN mem
           /\ SetErr(m, top) = "ok" => Abs(top) \in Above
<1>1. Entered \in [0..size - 1 -> Value] /\ DOMAIN mem = 0..size - 1 /\ w.loc \in Int
    BY PointerLine, LongsAreInts
<1>2. w.loc \in 0..size - 1
    BY <1>1 DEF StackErr, CellErr
<1>3. w.loc \in Above /\ Long(Entered[w.loc]) + 1 \in Above
    BY <1>1, <1>2 DEF Above
<1>4. Within(m, Above)
    BY <1>1, <1>3, EnteredWithin, SetWithin DEF AddLong
<1>5. DOMAIN m = DOMAIN mem
    BY <1>1 DEF AddLong
<1>6. SetErr(m, top) = "ok" => Abs(top) = Long(Entered[w.loc]) + 1
    BY <1>1, CellAbove
<1>7. QED
    BY <1>3, <1>4, <1>5, <1>6

LEMMA PushLine == ASSUME TypeOK, Push PROVE Only(Above)
<1> DEFINE w == GetLoc(Entered, Arg(1))
           m == AddLong(Entered, w.loc, 1)
           val == GetValue(m, Arg(2))
           top == Long(m[w.loc])
           err == IF val.err # "ok" THEN val.err ELSE SetErr(m, top)
           n == IF err = "ok" THEN MemSet(m, top, val.val) ELSE m
<1>1. At({"push"})
    BY DEF Push
<1>2. CASE StackErr(Entered, w) # "ok"
    <2>1. Stop(StackErr(Entered, w), Entered)
        BY <1>2 DEF Push
    <2>2. QED
        BY <2>1, EnteredWithin, FinishOnly
<1>3. CASE StackErr(Entered, w) = "ok"
    <2>1. Finish(err, n, ptr)
        BY <1>3 DEF Push
    <2>2. Within(m, Above) /\ DOMAIN m = DOMAIN mem /\ (SetErr(m, top) = "ok" => Abs(top) \in Above)
        <3> HIDE DEF w
        <3>1. w = GetLoc(Entered, Arg(1))
            BY DEF w
        <3>2. QED
            BY <1>1, <1>3, <3>1, AboveFacts
    <2>3. err = "ok" => SetErr(m, top) = "ok"
        OBVIOUS
    <2> HIDE DEF m, top, val, err
    <2>4. Within(n, Above)
        BY <2>2, <2>3, SetWithin DEF MemSet
    <2>5. QED
        BY <2>1, <2>4, FinishOnly
<1>4. QED
    BY <1>2, <1>3

LEMMA CallLine == ASSUME TypeOK, Call PROVE Only(Above)
<1> DEFINE w == GetLoc(Entered, Arg(1))
           m == AddLong(Entered, w.loc, 1)
           top == Long(m[w.loc])
           curr == AddLong(m, 1, 1)[1]
           n == MemSet(m, top, curr)
           loc == GetValue(n, Arg(2))
<1>1. At({"call"})
    BY DEF Call
<1>2. CASE StackErr(Entered, w) # "ok"
    <2>1. Stop(StackErr(Entered, w), Entered)
        BY <1>2 DEF Call
    <2>2. QED
        BY <2>1, EnteredWithin, FinishOnly
<1>3. CASE StackErr(Entered, w) = "ok"
    <2>1. /\ SetErr(m, top) # "ok" => Stop(SetErr(m, top), m)
          /\ SetErr(m, top) = "ok" => Finish(loc.err, n, ToSize(Long(loc.val)))
        BY <1>3 DEF Call
    <2>2. Within(m, Above) /\ DOMAIN m = DOMAIN mem /\ (SetErr(m, top) = "ok" => Abs(top) \in Above)
        <3> HIDE DEF w
        <3>1. w = GetLoc(Entered, Arg(1))
            BY DEF w
        <3>2. QED
            BY <1>1, <1>3, <3>1, AboveFacts
    <2> HIDE DEF m, top, curr, loc
    <2>3. SetErr(m, top) = "ok" => Within(n, Above)
        BY <2>2, SetWithin DEF MemSet
    <2>4. QED
        BY <2>1, <2>2, <2>3, FinishOnly
<1>4. QED
    BY <1>2, <1>3

(***************************************************************************)
(* Theorems.                                                               *)
(***************************************************************************)
FrameStep ==
    ~copy.on /\ ptr \in DOMAIN Prog.code /\ ~(Line.op = "mov" /\ Arg(1).t = "Ltl") =>
        \A i \in DOMAIN mem \ {1} :
            mem'[i] # mem[i] =>
                \/ i \in Designated
                \/ i = 0 /\ Line.op \in {"size", "loc", "pop", "not", "halt"} \cup MathOps \cup MathfOps

LEMMA NextFrame == ASSUME TypeOK, Next PROVE FrameStep
<1> SUFFICES ASSUME ~copy.on, ptr \in DOMAIN Prog.code, ~(Line.op = "mov" /\ Arg(1).t = "Ltl"),
                    NEW i \in DOMAIN mem \ {1}, mem'[i] # mem[i]
             PROVE  \/ i \in Designated
                    \/ i = 0 /\ Line.op \in {"size", "loc", "pop", "not", "halt"} \cup MathOps \cup MathfOps
    BY DEF FrameStep
<1>1. ASSUME NEW C, Only(C) PROVE i \in C
    BY <1>1 DEF Only
<1>2. CASE CpyStart \/ Var \/ Jmp \/ Jc \/ Skip \/ Allc
    BY <1>1, <1>2, PlainLines, AllcLine
<1>3. CASE CopyStep \/ CopyEnd \/ RunOff
    BY <1>3 DEF CopyStep, CopyEnd, RunOff
<1>4. CASE Size \/ Loc \/ Calculate \/ Not
    <2>1. i = 0
        BY <1>1, <1>4, AnsweringLines
    <2>2. Line.op \in {"size", "loc", "not"} \cup MathOps \cup MathfOps
        BY <1>4 DEF Size, Loc, Calculate, Not, At
    <2>3. QED
        BY <2>1, <2>2
<1>5. CASE Halt
    <2>1. i = 0
        BY <1>1, <1>5, HaltLine
    <2>2. QED
        BY <1>5, <2>1 DEF Halt, At
<1>6. CASE Mov
    <2>1. Line.op = "mov"
        BY <1>6 DEF Mov, At
    <2>2. Designated = {GetLoc(Entered, Arg(1)).loc} \cap Nat
        BY <2>1 DEF Designated, InPlaceOps, CastOps
    <2>3. QED
        BY <1>1, <1>6, <2>1, <2>2, MovLine
<1>7. CASE Cast \/ Pop \/ Ret
    <2>1. Line.op \in {"pop", "ret"} \cup CastOps /\ (Pop => Line.op = "pop")
        BY <1>7 DEF Cast, Pop, Ret, At
    <2>2. Designated = {GetLoc(Entered, Arg(1)).loc} \cap Nat
        BY <2>1 DEF Designated, InPlaceOps, CastOps
    <2>3. CASE Pop
        BY <1>1, <2>1, <2>2, <2>3, PopLine
    <2>4. QED
        BY <1>1, <1>7, <2>2, <2>3, CastLine, RetLine
<1>8. CASE Bump
    <2>1. Line.op \in InPlaceOps
        BY <1>8 DEF Bump, At
    <2>2. Designated = {Abs(GetLoc(Entered, Arg(1)).loc)}
        BY <2>1 DEF Designated, InPlaceOps, CastOps
    <2>3. QED
        BY <1>1, <1>8, <2>2, BumpLine
<1>9. CASE Push \/ Call
    <2>1. Line.op \in {"push", "call"}
        BY <1>9 DEF Push, Call, At
    <2>2. Designated = Above
        BY <2>1 DEF Designated, Above, InPlaceOps, CastOps
    <2>3. QED
        BY <1>1, <1>9, <2>2, PushLine, CallLine
<1>10. QED
    BY <1>2, <1>3, <1>4, <1>5, <1>6, <1>7, <1>8, <1>9 DEF Next

\* Non-interference, for every program the loader can leave: a line of opdef.c
\* changes the line register, the answer if it answers, and the cells its own
\* pointer operand gives it.  (Not mov to a literal, and not cpy.)
THEOREM FrameHolds == Spec => Frame
<1>1. TypeOK /\ [Next]_vars => [FrameStep]_vars
    BY NextFrame
<1>2. QED
    BY <1>1, TypeCorrect, PTL DEF Spec, Frame, FrameStep

ReadBackStep ==
    At({"mov"}) /\ status' = "run" /\ Plain(Arg(1)) =>
        LET r == GetValue(mem', Arg(1)) IN
        r.err = "ok" => r.val = GetValue(Entered, Arg(2)).val

\* The cell a mov has written holds the value, and no other has changed.
LEMMA MovWrites ==
    ASSUME TypeOK, Mov, status' = "run", Arg(1).t # "Ltl"
    PROVE  LET w == GetLoc(Entered, Arg(1)) IN
           /\ w.err = "ok"
           /\ w.loc \in DOMAIN mem /\ Abs(w.loc) = w.loc
           /\ mem' = [Entered EXCEPT ![w.loc] = GetValue(Entered, Arg(2)).val]
<1> DEFINE w == GetLoc(Entered, Arg(1))
           val == GetValue(Entered, Arg(2))
           err == WriteErr(Entered, w)
           n == IF err = "ok" THEN MemSet(Entered, w.loc, val.val) ELSE Entered
<1>1. At({"mov"})
    BY DEF Mov
<1>2. /\ Entered \in [0..size - 1 -> Value] /\ DOMAIN mem = 0..size - 1
      /\ w \in [err : Errs, loc : Longs] /\ w.loc \in Int
    BY <1>1, PointerLine, LongsAreInts
<1>3. IF val.err # "ok" THEN Stop(val.err, Entered) ELSE Finish(err, n, ptr)
    BY DEF Mov, WriteLocs
<1>4. val.err = "ok"
    <2>1. Signature(Line.op) = <<PTR, VALUE>> /\ Rest
        BY <1>1, TypeOKParts, LineFacts, Signatures
    <2>2. Arg(2).t \in VALUE /\ IsTok(Prog, Arg(2))
        BY <1>1, <2>1, ArgFacts
    <2>3. val.err \in Errs
        BY <1>2, <2>1, <2>2, CellSets, GetValueType DEF Rest
    <2>4. "run" \notin Errs
        BY DEF Errs
    <2>5. QED
        BY <1>3, <2>3, <2>4 DEF Stop
<1>5. err = "ok"
    <2>1. err \in Errs /\ "run" \notin Errs
        BY <1>2, ErrTypes DEF Errs
    <2>2. QED
        BY <1>3, <1>4, <2>1 DEF Finish, Stop
<1>6. w.err = "ok" /\ ~(w.loc < 0) /\ Abs(w.loc) \in 0..size - 1
    BY <1>2, <1>5 DEF WriteErr, SetErr
<1>7. Abs(w.loc) = w.loc
    BY <1>6 DEF Abs
<1>8. mem' = [Entered EXCEPT ![w.loc] = val.val]
    BY <1>3, <1>4, <1>5, <1>7 DEF Finish, Dispatch, MemSet
<1>9. QED
    BY <1>2, <1>6, <1>7, <1>8

LEMMA NextReadsBack == ASSUME TypeOK, Next PROVE ReadBackStep
<1> DEFINE w == GetLoc(Entered, Arg(1))
           v == GetValue(Entered, Arg(2)).val
           r == GetValue(mem', Arg(1))
<1> SUFFICES ASSUME At({"mov"}), status' = "run", Plain(Arg(1)), r.err = "ok"
             PROVE  r.val = v
    BY DEF ReadBackStep
<1>1. Mov
    <2>1. ~copy.on /\ ptr \in DOMAIN Prog.code /\ Line.op = "mov"
        BY DEF At
    <2>2. ASSUME NEW ops, At(ops) PROVE "mov" \in ops
        BY <2>1, <2>2 DEF At
    <2>3. ~(CopyStep \/ CopyEnd \/ RunOff)
        BY <2>1 DEF CopyStep, CopyEnd, RunOff
    <2>4. ~(CpyStart \/ Size \/ Var \/ Loc \/ Allc \/ Push \/ Pop \/ Cast)
        BY <2>2 DEF CpyStart, Size, Var, Loc, Allc, Push, Pop, Cast, CastOps
    <2>5. ~(Calculate \/ Bump \/ Not \/ Jmp \/ Jc \/ Call \/ Ret \/ Skip \/ Halt)
        BY <2>2 DEF Calculate, Bump, Not, Jmp, Jc, Call, Ret, Skip, Halt,
                    MathOps, MathfOps, InPlaceOps, SkipOps
    <2>6. QED
        BY <2>3, <2>4, <2>5 DEF Next
<1>2. /\ w.err = "ok"
      /\ w.loc \in DOMAIN mem /\ Abs(w.loc) = w.loc
      /\ mem' = [Entered EXCEPT ![w.loc] = v]
    <2>1. Arg(1).t # "Ltl"
        BY DEF Plain
    <2>2. QED
        BY <1>1, <2>1, MovWrites
<1>3. DOMAIN Entered = DOMAIN mem /\ DOMAIN mem' = DOMAIN mem
    BY <1>2 DEF Entered
<1>4. mem'[w.loc] = v /\ \A i \in DOMAIN mem : i # w.loc => mem'[i] = Entered[i]
    BY <1>2, <1>3
<1>5. MemAt(mem', w.loc).val = v
    BY <1>2, <1>3, <1>4 DEF MemAt
<1>6. CASE Arg(1).t = "Var"
    BY <1>5, <1>6 DEF GetLoc, GetValue
<1>7. CASE Arg(1).t = "Idx" /\ Arg(1).depth = 0 /\ Arg(1).base = "Num"
    <2>1. w.loc = Arg(1).idx
        BY <1>7 DEF GetLoc, GetLocIdx
    <2>2. r = MemAt(mem', Arg(1).idx)
        BY <1>7 DEF GetValue, GetValueIdx
    <2>3. QED
        BY <1>5, <2>1, <2>2
<1>8. CASE Arg(1).t = "Idx" /\ Arg(1).depth = 0 /\ Arg(1).base = "Var"
    <2> DEFINE i == Abs(var[Arg(1).idx])
    <2>1. i # w.loc
        BY <1>2, <1>8 DEF Plain
    <2>2. w = LocAt(Entered, [err |-> "ok", loc |-> var[Arg(1).idx]])
        BY <1>8 DEF GetLoc, GetLocIdx
    <2>3. i \in DOMAIN Entered /\ w.loc = Long(Entered[i])
        BY <1>2, <2>2 DEF LocAt, MemAt
    <2>4. MemAt(mem', var[Arg(1).idx]) = [err |-> "ok", val |-> Entered[i]]
        BY <1>3, <1>4, <2>1, <2>3 DEF MemAt
    <2>5. r = Follow(mem', [err |-> "ok", val |-> Entered[i]])
        BY <1>8, <2>4 DEF GetValue, GetValueIdx
    <2>6. r = MemAt(mem', Long(Entered[i]))
        BY <2>5 DEF Follow
    <2>7. QED
        BY <1>5, <2>3, <2>6
<1>9. Arg(1).base \in {"Num", "Var"} \/ Arg(1).t = "Var"
    BY PointerLine DEF IsTok, Plain
<1>10. QED
    BY <1>6, <1>7, <1>8, <1>9 DEF Plain

\* After a mov of opdef.c, reading its destination gives the value it moved:
\* Tok_writeValue and Tok_getValue agree on the cell of a plain operand.
THEOREM MovReadsBack == Spec => ReadBack
<1>1. TypeOK /\ [Next]_vars => [ReadBackStep]_vars
    BY NextReadsBack
<1>2. QED
    BY <1>1, TypeCorrect, PTL DEF Spec, ReadBack, ReadBackStep
=============================================================================
