------------------------------ MODULE MCLoader ------------------------------
(***************************************************************************)
(* Instances of Loader: texts of three lines from a pool, a label at the   *)
(* end, and three files to source.                                         *)
(***************************************************************************)
EXTENDS Loader, TLC

MCLongMax == 31
MCDoubleMax == 1
MCLongBits == [d \in -1..1 |-> d]
MCDoubleBits == [l \in -32..31 |-> IF l \in -1..1 THEN l ELSE 0]
MCRegisters == 2
MCMaxMem == 12

V(name) == [t |-> "Var", name |-> name, idx |-> 0]
At(name) == [t |-> "Idx", depth |-> 0, base |-> "Var", name |-> name, idx |-> 0]
Cell(n) == [t |-> "Idx", depth |-> 0, base |-> "Num", idx |-> n]
Ltl(chars) == [t |-> "Ltl", text |-> chars, idx |-> 0]
Sym(name) == [t |-> "Sym", name |-> name, idx |-> 0]

L(op, args) == [kind |-> "line", op |-> op, args |-> args]
Blank == [kind |-> "blank"]
Bad(err) == [kind |-> "bad", err |-> err]

\* "v" and "uu" fall on the slot of "u": a lookup takes "v" for "u", "uu" asks
\* for a larger table.  "z" falls on slot 0, which every rehash fills first.
Sourced == {"main", "lib", "far", "gone", "dir"}
MCKeys == {"?", "*", "1", "2", "u", "v", "uu", "z", "f", "g", "no"} \cup Sourced
MCKeySize == [k \in MCKeys |-> IF k \in {"no", "uu"} THEN 3 ELSE IF k \in Sourced THEN 5 ELSE 2]
MCHash ==
    "?" :> 1 @@ "*" :> 2 @@ "1" :> 3 @@ "2" :> 4 @@ "u" :> 5 @@ "f" :> 6 @@ "g" :> 7
        @@ "v" :> 16 @@ "uu" :> 27 @@ "z" :> 0 @@ "no" :> 9 @@ [k \in Sourced |-> 8]

HI == <<LongV(7), LongV(8)>>

Pool ==
    <<Blank, Bad("EmptyToken"),  L("lbl", <<Sym("g")>>), L("lbl", <<Sym("f")>>),
      L("var", <<Sym("u"), Ltl(<<>>)>>), L("var", <<Sym("v"), V("1")>>), L("var", <<Sym("1"), V("2")>>),
      L("var", <<Sym("uu"), V("1")>>), L("var", <<Sym("z"), V("1")>>),
      L("mov", <<V("u"), V("v")>>), L("mov", <<At("u"), Ltl(HI)>>), L("cpy", <<Cell(3), Ltl(HI), Sym("no")>>),
      L("loc", <<Ltl(HI)>>), L("jmp", <<Sym("f")>>), L("jc", <<V("u"), Sym("g")>>),
      L("call", <<Ltl(HI), Cell(1)>>), L("call", <<At("no"), Sym("f")>>),
      L("src", <<Sym("lib")>>), L("src", <<Sym("main")>>), L("src", <<Sym("far")>>),
      L("src", <<Sym("gone")>>), L("src", <<Sym("dir")>>)>>

File(main) ==
    "main" :> main
    @@ "lib" :> <<L("lbl", <<Sym("g")>>), Blank, L("loc", <<Ltl(<<>>)>>)>>
    @@ "far" :> <<L("inc", <<V("u")>>), L("src", <<Sym("lib")>>), L("jmp", <<Sym("g")>>)>>
    @@ "dir" :> <<Bad("CannotReadFile")>>

LastLines == <<Blank, L("lbl", <<Sym("f")>>)>>
PoolTexts == [k \in 1..Len(Pool) ^ 3 |->
    File([i \in 1..3 |-> Pool[1 + ((k \div (Len(Pool) ^ (i - 1))) % Len(Pool))]] \o LastLines)]

\* A text that sources a file first.
DocTexts == <<File(<<L("src", <<Sym("lib")>>), L("inc", <<V("1")>>)>>)>>

(***************************************************************************)
(* What a text loads to, by recursion over its files: the lines in order,  *)
(* and for a src line those of its file, a halt and the line itself.       *)
(***************************************************************************)
RECURSIVE OpsOf(_, _)
OpsOf(files, lines) ==
    IF lines = <<>> THEN <<"halt">>
    ELSE LET line == Head(lines) IN
         (IF line.kind = "blank" THEN <<>>
          ELSE IF line.op = "src" THEN Append(OpsOf(files, files[line.args[1].name]), "src")
          ELSE <<line.op>>) \o OpsOf(files, Tail(lines))

\* Sourced files are inlined where they are sourced, each followed by a halt,
\* to any depth; nothing is lost, repeated or moved.
InlinesSources ==
    phase \in {"resolve", "run"} => [i \in DOMAIN code |-> code[i].op] = OpsOf(Files, Files[Main])
=============================================================================
