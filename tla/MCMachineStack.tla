--------------------------- MODULE MCMachineStack ---------------------------
(***************************************************************************)
(* An instance of MachineStack: a stack at cell 6, its pointer in $2.      *)
(***************************************************************************)
EXTENDS MachineStack, MCPrograms

MCPointer == 3
MCBase == 5
MCSetupLines == {1}
StackStart == <<I("allc", <<Num(2)>>), I("mov", <<VarTok(3), Num(MCBase)>>)>>

\* Lines that keep to one stack, a function at the end.
StackPool ==
    <<I("push", <<VarTok(3), Num(3)>>), I("push", <<VarTok(3), VarTok(0)>>),
      I("push", <<VarTok(3), IdxTok(0, "Num", 9)>>),
      I("pop", <<VarTok(3)>>), I("call", <<VarTok(3), Sym("f")>>), I("call", <<VarTok(3), Sym("g")>>),
      I("ret", <<VarTok(3)>>), I("lbl", <<Sym("g")>>), I("jmp", <<Sym("g")>>), I("jc", <<VarTok(0), Sym("f")>>),
      I("add", <<VarTok(0), Num(5)>>), I("halt", <<>>)>>
StackEnd == <<I("lbl", <<Sym("f")>>), I("pop", <<VarTok(3)>>), I("ret", <<VarTok(3)>>)>>

StackPrograms == ProgramsOf(StackStart, StackPool, 4, StackEnd)
=============================================================================
