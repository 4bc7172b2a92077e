------------------------------- MODULE Loader -------------------------------
(***************************************************************************)
(* Loading a program: `Code_from` reads it line by line, inlines the files *)
(* it sources and declares labels and variables; `resolveSym` then gives   *)
(* every name its entry and every string literal its cells.  What they     *)
(* leave is handed to the run loop of module Machine.                      *)
(*                                                                         *)
(* A text maps the names of files to their lines, as the lexer leaves      *)
(* them: blank, in error, or an operation with its operands.  One step     *)
(* reads one line, up to the next call of the generator or the return.     *)
(***************************************************************************)
EXTENDS Instructions, Hashmap

CONSTANTS
    Texts,       \* the texts to load, by number
    Main,        \* the name of the first file
    Hash,        \* sdbm of every name
    MaxOpen,     \* files that can be open at once
    MaxLines     \* bound: lines, and variables, realloc can provide

Sources == Texts   \* (TLC evaluates it once)

\* The names of Mem_new's registers, in the order of their cells.
RegisterNames == <<"?", "*", "1", "2", "3", "4", "5", "6", "7", "8", "9", "10">>

ReadErrors ==
    {"CannotOpenFile", "CannotReadFile", "UnknownOp", "DuplicatedSymbols", "EmptyToken", "NonDelimAfterSymEnd"}

\* Lines as the lexer leaves them: every name has entry 0, every literal its
\* characters.
LtlCells == [type : {"L"}, as : {"L"}, n : Longs]
ReadToks ==
    [t : {"Num"}, v : {v \in Value : Sound(v)}]
        \cup [t : {"Var", "Sym"}, name : Keys, idx : {0}]
        \cup [t : {"Idx"}, depth : 0..MaxNest, base : {"Var"}, name : Keys, idx : {0}]
        \cup [t : {"Idx"}, depth : 0..MaxNest, base : {"Num"}, idx : Longs]
        \cup [t : {"Ltl"}, text : Seq(LtlCells), idx : {0}]
ReadLines ==
    [kind : {"blank"}]
        \cup [kind : {"bad"}, err : ReadErrors]
        \cup [kind : {"line"}, op : STRING, args : Seq(ReadToks)]

\* `main` asks for ten registers.
ASSUME LoaderAssumption ==
    /\ \A n \in DOMAIN Sources : \A file \in DOMAIN Sources[n] : Sources[n][file] \in Seq(ReadLines)
    /\ Registers <= 10
    /\ \A i \in 1..Registers + 2 : RegisterNames[i] \in Keys
    /\ Hash \in [Keys -> Nat]
    /\ MaxOpen \in Nat
    /\ MaxLines \in Registers + 2..LongMax

VARIABLES
    text,         \* which text is loaded
    frames,       \* the calls of Code_from: file, lines read, line that waits
    code,         \* Code.lines
    ptr,          \* Code.ptr
    mem,          \* Mem.mem, cell 0 first
    var, label,   \* Mem.var and Mem.label, entry 0 first
    varLookUp, labelLookUp,
    phase         \* "load", "resolve", "run", or the error returned

tables == <<var, label, varLookUp, labelLookUp>>
vars == <<text, frames, code, ptr, mem, tables, phase>>

Files == Sources[text]
Top == frames[Len(frames)]

NoLine == [op |-> "none", args |-> <<>>]
Frame(file, line) == [file |-> file, open |-> FALSE, read |-> 0, line |-> line]
HaltLine == [op |-> "halt", args |-> <<>>]

RegisterTable ==
    LET table[i \in 0..Registers + 2] ==
            IF i = 0 THEN EmptyMap ELSE Insert(Hash, table[i - 1], RegisterNames[i], i - 1)
    IN  table[Registers + 2]

Init ==
    /\ text \in DOMAIN Sources
    /\ frames = <<Frame(Main, NoLine)>>
    /\ code = <<>>
    /\ ptr = 0
    /\ mem = [i \in 1..Registers + 2 |-> Zero]
    /\ var = [i \in 1..Registers + 2 |-> i - 1]
    /\ label = <<>>
    /\ varLookUp = RegisterTable
    /\ labelLookUp = EmptyMap
    /\ phase = "load"

Fail(err) ==
    /\ phase' = err
    /\ UNCHANGED <<text, frames, code, ptr, mem, tables>>

(***************************************************************************)
(* generator_File.                                                         *)
(***************************************************************************)
Open ==
    /\ phase = "load"
    /\ ~Top.open
    /\ IF Top.file \in DOMAIN Files /\ Len(frames) <= MaxOpen
       THEN /\ frames' = [frames EXCEPT ![Len(frames)].open = TRUE]
            /\ UNCHANGED <<text, code, ptr, mem, tables, phase>>
       ELSE Fail("CannotOpenFile")

\* The next line is there, whatever it is.
Reads(kinds) ==
    /\ phase = "load"
    /\ Top.open
    /\ Top.read < Len(Files[Top.file])
    /\ Files[Top.file][Top.read + 1].kind \in kinds

Current == Files[Top.file][Top.read + 1]
Advanced == [frames EXCEPT ![Len(frames)].read = @ + 1]

\* The line does not parse, or the file cannot be read on.
ReadBad == Reads({"bad"}) /\ Fail(Current.err)

ReadBlankAgain == Reads({"blank"}) /\ UNCHANGED vars   \* mutant: and not left behind
ReadBlankUncounted ==   \* mutant: only lines with an operation are counted
    Reads({"blank"}) /\ frames' = Advanced /\ UNCHANGED <<text, code, ptr, mem, tables, phase>>
ReadBlank ==
    /\ Reads({"blank"})
    /\ frames' = Advanced
    /\ ptr' = ptr + 1
    /\ UNCHANGED <<text, code, mem, tables, phase>>

(***************************************************************************)
(* preprocess and prerun.                                                  *)
(***************************************************************************)
\* The operation is looked up together with the kinds of its operands.
Known(line) ==
    /\ line.op \in Ops
    /\ Len(line.args) = Len(Signature(line.op))
    /\ \A k \in DOMAIN line.args : line.args[k].t \in Signature(line.op)[k]

ReadUnknown == Reads({"line"}) /\ ~Known(Current) /\ Fail("UnknownOp")

ReadsOp(ops) == Reads({"line"}) /\ Known(Current) /\ Current.op \in ops

Declared == Current.args[1].name
\* The declared symbol keeps the number of its entry.
Entered(i) == [op |-> Current.op, args |-> [Current.args EXCEPT ![1].idx = i]]

\* Vec_push does not look at what realloc returns, and a rehash that does not
\* end runs out of stack or of memory.
Room(lines) == Len(code) + lines <= MaxLines
Endless(table, i) == Insert(Hash, table, Declared, i).stuck

Pushed(line) ==
    /\ code' = Append(code, line)
    /\ frames' = Advanced
    /\ ptr' = ptr + 1
    /\ UNCHANGED <<text, mem, phase>>

LabelledInText == ptr   \* mutant: the line's number in the text
Labelled == Len(code)

ReadLabel ==
    /\ ReadsOp({"lbl"})
    /\ IF Lookup(Hash, labelLookUp, Declared).found THEN Fail("DuplicatedSymbols")
       ELSE IF ~Room(1) \/ Endless(labelLookUp, Len(label)) THEN Fail("undefined")
       ELSE /\ label' = Append(label, Labelled)
            /\ labelLookUp' = Insert(Hash, labelLookUp, Declared, Len(label))
            /\ UNCHANGED <<var, varLookUp>>
            /\ Pushed(Entered(Len(label)))

\* A second declaration is refused, also that of a register.
ReadVar ==
    /\ ReadsOp({"var"})
    /\ IF Lookup(Hash, varLookUp, Declared).found THEN Fail("DuplicatedSymbols")
       ELSE IF ~Room(1) \/ Len(var) = MaxLines \/ Endless(varLookUp, Len(var)) THEN Fail("undefined")
       ELSE /\ var' = Append(var, 0)
            /\ varLookUp' = Insert(Hash, varLookUp, Declared, Len(var))
            /\ UNCHANGED <<label, labelLookUp>>
            /\ Pushed(Entered(Len(var)))

\* The file is loaded before the line that sources it is stored.
ReadSrc ==
    /\ ReadsOp({"src"})
    /\ frames' = Append(frames, Frame(Declared, Current))
    /\ UNCHANGED <<text, code, ptr, mem, tables, phase>>

ReadOther ==
    /\ ReadsOp(Ops \ {"lbl", "var", "src"})
    /\ IF ~Room(1) THEN Fail("undefined") ELSE UNCHANGED tables /\ Pushed(Current)

AtEnd == phase = "load" /\ Top.open /\ Top.read = Len(Files[Top.file])

\* Mutants: no halt; the waiting line before the halt; Code.ptr counts on.
Unhalted == code
Halted == Append(code, HaltLine)
InlinedLate == code \o <<Top.line, HaltLine>>
Inlined == Append(Halted, Top.line)
FirstLineUnset == ptr
FirstLine == 0

\* The end of a sourced file: its halt, then the line that was waiting.
EndSource ==
    /\ AtEnd
    /\ Len(frames) > 1
    /\ IF ~Room(2) THEN Fail("undefined")
       ELSE /\ code' = Inlined
            /\ frames' = [SubSeq(frames, 1, Len(frames) - 1) EXCEPT ![Len(frames) - 1].read = @ + 1]
            /\ ptr' = ptr + 1
            /\ UNCHANGED <<text, mem, tables, phase>>

EndMain ==
    /\ AtEnd
    /\ Len(frames) = 1
    /\ IF ~Room(1) THEN Fail("undefined")
       ELSE /\ code' = Halted
            /\ frames' = <<>>
            /\ ptr' = FirstLine
            /\ phase' = "resolve"
            /\ UNCHANGED <<text, mem, tables>>

(***************************************************************************)
(* resolveSym.                                                             *)
(***************************************************************************)
\* The operand that names where a line jumps; 0 if it does not.
TargetAt(op) == CASE op = "jmp" -> 1 [] op \in {"jc", "call"} -> 2 [] OTHER -> 0

\* Resolving goes through a line's operands with memory and the first error.
Begun(line) == [err |-> "ok", mem |-> mem, args |-> line.args]
Updated(acc, j, tok) == [err |-> acc.err, mem |-> acc.mem, args |-> [acc.args EXCEPT ![j] = tok]]

Named(table, acc, j, err) ==
    LET r == Lookup(Hash, table, acc.args[j].name) IN
    IF r.found THEN Updated(acc, j, [acc.args[j] EXCEPT !.idx = r.val])
    ELSE [acc EXCEPT !.err = err]

EndedByNothing(chars) == chars   \* mutant: no zero after the characters
Ended(chars) == Append(chars, Zero)
CreateLtl(acc, j) ==
    LET cells == acc.mem \o Ended(acc.args[j].text) IN
    IF Len(cells) > MaxMem THEN [acc EXCEPT !.err = "undefined"]
    ELSE Updated([acc EXCEPT !.mem = cells], j, [acc.args[j] EXCEPT !.idx = -Len(acc.mem)])

IsVar(tok) == tok.t = "Var" \/ (tok.t = "Idx" /\ tok.base = "Var")

\* The j-th operand, if there is one and no error came before it.
ResolveTok(acc, j) ==
    IF acc.err # "ok" \/ j \notin DOMAIN acc.args THEN acc
    ELSE IF IsVar(acc.args[j]) THEN Named(varLookUp, acc, j, "UndefinedVar")
    ELSE IF acc.args[j].t = "Ltl" THEN CreateLtl(acc, j)
    ELSE acc

\* The target first, then every operand in its place.
UpdateLabel(line) ==
    IF TargetAt(line.op) = 0 THEN Begun(line)
    ELSE Named(labelLookUp, Begun(line), TargetAt(line.op), "UndefinedLabel")
Resolved(line) == ResolveTok(ResolveTok(ResolveTok(UpdateLabel(line), 1), 2), 3)

\* A line whose target is no name is left as it is, with all its operands.
Skipped(line) == TargetAt(line.op) # 0 /\ line.args[TargetAt(line.op)].t # "Sym"

ResolveLine ==
    /\ phase = "resolve"
    /\ ptr < Len(code)
    /\ LET line == code[ptr + 1]
           done == Resolved(line)
       IN  IF Skipped(line)
           THEN /\ ptr' = ptr + 1
                /\ UNCHANGED <<text, frames, code, mem, tables, phase>>
           ELSE IF done.err # "ok" THEN Fail(done.err)
           ELSE /\ code' = [code EXCEPT ![ptr + 1] = [op |-> line.op, args |-> done.args]]
                /\ mem' = done.mem
                /\ ptr' = ptr + 1
                /\ UNCHANGED <<text, frames, tables, phase>>

EndResolve ==
    /\ phase = "resolve"
    /\ ptr = Len(code)
    /\ ptr' = FirstLine
    /\ phase' = "run"
    /\ UNCHANGED <<text, frames, code, mem, tables>>

(***************************************************************************)
(* The specification.                                                      *)
(***************************************************************************)
Next ==
    \/ Open \/ ReadBad \/ ReadBlank \/ ReadUnknown
    \/ ReadLabel \/ ReadVar \/ ReadSrc \/ ReadOther
    \/ EndSource \/ EndMain
    \/ ResolveLine \/ EndResolve

\* One thread loads the text, and no file is waited for.
Spec == Init /\ [][Next]_vars /\ WF_vars(Next)

(***************************************************************************)
(* Properties.                                                             *)
(***************************************************************************)
\* Type invariant: every register and variable has an entry that names a
\* register's cell, every cell holds a character, the files below the top
\* one are open, and while names are resolved ptr is a line or the end.
TypeOK ==
    /\ text \in DOMAIN Sources
    /\ \A k \in 1..Len(frames) - 1 : frames[k].open /\ frames[k].read < Len(Files[frames[k].file])
    /\ \A i \in DOMAIN code : Known(code[i])
    /\ \A i \in DOMAIN mem : mem[i] \in {LongV(n) : n \in Longs}
    /\ \A i \in DOMAIN var : var[i] \in 0..Registers + 1
    /\ frames = <<>> => phase \in {"resolve", "run", "UndefinedVar", "UndefinedLabel", "undefined"}
    /\ frames # <<>> => phase \in {"load", "undefined"} \cup ReadErrors
    /\ frames = <<>> => ptr \in 0..Len(code)

\* What the run loop is given.
Result ==
    [code |-> [i \in 0..Len(code) - 1 |-> code[i + 1]],
     labels |-> [i \in 0..Len(label) - 1 |-> label[i + 1]],
     vars |-> [i \in 0..Len(var) - 1 |-> var[i + 1]],
     size |-> Len(mem),
     cells |-> [i \in 0..Len(mem) - 1 |-> mem[i + 1]]]

\* Whatever the text and whatever its names hash to, a program that loads is
\* one the run loop may be given: what Machine assumes of its programs.
HandsOver == phase = "run" => IsProgram(Result)

\* The operands resolveSym comes to, as pairs of a line and a position.
Operands(kinds) ==
    {o \in (DOMAIN code) \X (1..3) :
        /\ o[2] \in DOMAIN code[o[1]].args
        /\ ~Skipped(code[o[1]])
        /\ code[o[1]].args[o[2]].t \in kinds}
Operand(o) == code[o[1]].args[o[2]]

Names ==
    {RegisterNames[i] : i \in 1..Registers + 2}
        \cup {Operand(o).name : o \in {o \in Operands({"Var", "Idx", "Sym"}) :
                "name" \in DOMAIN Operand(o) /\ code[o[1]].op # "src"}}

\* If no two names share a slot, every name in a loaded program leads to its
\* own declaration, before or after it and in whatever file: a jump to the
\* line of its label, a variable to the entry its var line or register has.
NamesResolve ==
    phase = "run" /\ Spread(Hash, Names) =>
        \A o \in Operands({"Var", "Idx", "Sym"}) :
            LET tok == Operand(o)
                line == code[o[1]]
            IN  /\ tok.t = "Sym" /\ o[2] = TargetAt(line.op) =>
                        LET i == label[tok.idx + 1] + 1 IN
                        i \in DOMAIN code /\ code[i].op = "lbl" /\ code[i].args[1].name = tok.name
                /\ IsVar(tok) =>
                        \/ tok.idx < Registers + 2 /\ RegisterNames[tok.idx + 1] = tok.name
                        \/ \E i \in DOMAIN code :
                                /\ code[i].op = "var"
                                /\ code[i].args[1].name = tok.name
                                /\ code[i].args[1].idx = tok.idx

\* Every literal of a loaded program has its characters and a zero after
\* them in cells of its own, behind the registers.
LiteralsApart ==
    phase = "run" =>
        \A o \in Operands({"Ltl"}) :
            LET first == 1 - Operand(o).idx
                last == first + Len(Operand(o).text)
            IN  /\ first > Registers + 2 /\ last <= Len(mem)
                /\ SubSeq(mem, first, last) = Operand(o).text \o <<Zero>>
                /\ \A q \in Operands({"Ltl"}) \ {o} : 1 - Operand(q).idx \notin first..last

\* While nothing has been sourced, Code.ptr counts the lines read, blank ones
\* included: an error names the line it is in.
ErrorNamesLine ==
    Len(frames) = 1 /\ (\A i \in DOMAIN code : code[i].op # "src") => ptr = Top.read

\* "source another file, load labels and symbols, don't execute": a run
\* starts at the first line of the main file, not in a file it sources.
SourcedNotExecuted ==
    phase = "run" =>
        \E k \in DOMAIN Files[Main] :
            /\ \A j \in 1..k - 1 : Files[Main][j].kind = "blank"
            /\ code[ptr + 1].op = Files[Main][k].op

\* Loading ends, also that of a file that sources itself: it runs out of
\* files to open.
LoadEnds == <>(phase \notin {"load", "resolve"})
=============================================================================
