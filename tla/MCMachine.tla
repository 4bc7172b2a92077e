----------------------------- MODULE MCMachine -----------------------------
(***************************************************************************)
(* Instances of Machine: pools of lines from which whole sets of programs  *)
(* are built.                                                              *)
(***************************************************************************)
EXTENDS Machine, MCPrograms

\* $1 points to $2, $2 holds a double.
DataStart == <<I("mov", <<VarTok(2), Num(3)>>), I("mov", <<VarTok(3), NumF(1)>>)>>

DataPool ==
    <<I("mov", <<VarTok(2), VarTok(3)>>), I("mov", <<IdxTok(0, "Num", 3), Num(-2)>>),
     I("mov", <<IdxTok(0, "Var", 2), Num(4)>>), I("mov", <<VarTok(0), IdxTok(0, "Var", 2)>>),
     I("mov", <<IdxTok(1, "Var", 2), Num(1)>>), I("mov", <<IdxTok(2, "Num", 2), IdxTok(2, "Num", 2)>>),
     I("mov", <<IdxTok(0, "Num", 12), IdxTok(1, "Num", 1)>>),
     I("mov", <<VarTok(4), Sym("f")>>), I("mov", <<Ltl(4), Num(5)>>),
     I("inc", <<VarTok(2)>>), I("inc", <<IdxTok(0, "Num", -4)>>), I("dec", <<IdxTok(0, "Var", 2)>>),
     I("incf", <<VarTok(3)>>), I("decf", <<VarTok(2)>>),
     I("ltof", <<VarTok(2)>>), I("ftol", <<IdxTok(0, "Var", 2)>>), I("ltof", <<IdxTok(0, "Num", -4)>>),
     I("add", <<VarTok(2), VarTok(3)>>), I("mod", <<VarTok(3), VarTok(2)>>),
     I("mod", <<Num(-7), VarTok(2)>>), I("gt", <<VarTok(2), Num(0)>>),
     I("divf", <<VarTok(2), VarTok(3)>>), I("ltf", <<VarTok(2), VarTok(3)>>),
     I("not", <<VarTok(0)>>), I("size", <<>>), I("loc", <<Ltl(4)>>), I("loc", <<IdxTok(0, "Var", 2)>>),
     I("var", <<Sym("u"), IdxTok(0, "Var", 2)>>), I("allc", <<VarTok(2)>>),
     I("cpy", <<VarTok(2), Ltl(4), Num(2)>>), I("cpy", <<IdxTok(0, "Num", 1), VarTok(2), Num(1)>>),
     I("cpy", <<VarTok(0), VarTok(3), Num(-1)>>),
     I("push", <<VarTok(2), VarTok(3)>>), I("pop", <<VarTok(2)>>),
     I("push", <<VarTok(0), IdxTok(0, "Num", 9)>>), I("ret", <<VarTok(2)>>),
      I("push", <<VarTok(2), VarTok(2)>>), I("pop", <<VarTok(0)>>)>>

DataPrograms == ProgramsOf(DataStart, DataPool, 3, <<>>)

\* Control: two cells more than the literal, a stack at [$2], and jumps of
\* every kind, forward and back.
ControlStart == <<I("allc", <<Num(2)>>), I("mov", <<VarTok(3), Num(5)>>)>>

ControlPool ==
    <<I("lbl", <<Sym("f")>>), I("lbl", <<Sym("g")>>), I("nop", <<>>), I("halt", <<>>),
      I("src", <<Sym("s")>>), I("inc", <<VarTok(2)>>),
      I("jmp", <<Sym("f")>>), I("jmp", <<Sym("g")>>), I("jc", <<VarTok(2), Sym("f")>>),
      I("jmp", <<Num(-2)>>), I("jmp", <<Num(-1)>>), I("jmp", <<IdxTok(0, "Num", 2)>>), I("jc", <<VarTok(3), Num(4)>>),
      I("call", <<VarTok(3), Sym("f")>>), I("call", <<VarTok(3), Sym("g")>>), I("ret", <<VarTok(3)>>),
      I("cpy", <<IdxTok(0, "Num", 4), VarTok(3), Num(-3)>>),
      I("mov", <<VarTok(2), Sym("f")>>)>>

ControlPrograms == ProgramsOf(ControlStart, ControlPool, 4, <<>>)
=============================================================================
