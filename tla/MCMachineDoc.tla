---------------------------- MODULE MCMachineDoc ----------------------------
(***************************************************************************)
(* Instances of MachineDoc: the smallest programs that use an instruction  *)
(* the way the README describes it.                                        *)
(***************************************************************************)
EXTENDS MachineDoc, MCPrograms

DocPrograms ==
    <<Program(<<I("mov", <<VarTok(3), Num(3)>>), I("call", <<VarTok(3), Sym("f")>>),
                I("nop", <<>>), I("halt", <<>>), I("lbl", <<Sym("f")>>), I("ret", <<VarTok(3)>>)>>),
      Program(<<I("mov", <<VarTok(2), Num(3)>>),
                I("mov", <<IdxTok(1, "Num", 2), Num(5)>>),
                I("mov", <<VarTok(0), IdxTok(1, "Num", 2)>>)>>),
      Program(<<I("mov", <<VarTok(3), Num(5)>>), I("cpy", <<VarTok(2), VarTok(3), Num(1)>>)>>),
      Program(<<I("mov", <<VarTok(2), Num(2)>>), I("ltof", <<VarTok(2)>>)>>)>>
=============================================================================
