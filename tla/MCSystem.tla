------------------------------ MODULE MCSystem ------------------------------
(***************************************************************************)
(* Instances of System: every sequence of three calls of a pool, over one  *)
(* file, a short standard input and a memory with two names and a text.    *)
(***************************************************************************)
EXTENDS System, TLC

\* Options are decimal digits: longs of six digits.
MCLongMax == 111111
MCDoubleMax == 1
MCLongBits == [d \in -1..1 |-> d]
MCDoubleBits == [l \in -111112..111111 |-> IF l \in -1..1 THEN l ELSE 0]
MCRegisters == 3
MCMaxMem == 11
MCDisk == <<97>> :> <<1, 2>>
MCStdin == <<11, 12, 13, 14, 15>>

Num(n) == [t |-> "Num", v |-> LongV(n)]
NumF(d) == [t |-> "Num", v |-> DoubleV(d)]
VarTok(i) == [t |-> "Var", idx |-> i]
I(op, args) == [op |-> op, args |-> args]

\* Cells 5 and 7 begin the names "a" and "b", cell 9 a text of two.
Cells == [i \in 0..4 |-> Zero] @@ [i \in 5..10 |-> LongV(<<97, 0, 98, 0, 1, 300>>[i - 4])]

\* The arguments go to the registers.
Sys(n, args) ==
    [i \in DOMAIN args |-> I("mov", <<VarTok(i + 1), Num(args[i])>>)] \o <<I("sys", <<Num(n)>>)>>

Pool ==
    <<Sys(3, <<5, 1>>), Sys(3, <<5, 10>>), Sys(3, <<5, 111>>), Sys(3, <<7, 10010>>), Sys(3, <<7, 100011>>),
      Sys(3, <<5, 2>>), Sys(3, <<5, 100>>), Sys(3, <<9, 1>>),
      <<I("mov", <<VarTok(4), NumF(1)>>)>> \o Sys(3, <<4, 1>>),
      Sys(1, <<0, 8, 2>>), Sys(1, <<0, 10, 3>>), Sys(1, <<0, -5, 1>>), Sys(1, <<3, 6, -1>>), Sys(1, <<1, 8, 1>>),
      Sys(2, <<1, 9, 2>>), Sys(2, <<3, -9, 1>>), Sys(2, <<1, 9, 4>>), Sys(2, <<1, 6, 6>>), Sys(2, <<0, 9, 0>>),
      Sys(2, <<7, 9, 1>>),
      <<I("print_num", <<Num(1), Num(12)>>)>>, <<I("print_num", <<Num(3), VarTok(0)>>)>>,
      <<I("print_num", <<VarTok(2), NumF(-1)>>)>>,
      Sys(4, <<0>>), Sys(4, <<1>>), Sys(4, <<3>>), Sys(0, <<>>), Sys(9, <<>>)>>

Program(lines) ==
    [code |-> [i \in 0..Len(lines) |-> IF i = Len(lines) THEN I("halt", <<>>) ELSE lines[i + 1]] @@ <<>>,
     labels |-> <<>>,
     vars |-> [k \in 0..4 |-> k] @@ <<>>,
     size |-> 11,
     cells |-> Cells]

Body(pool, k) ==
    LET call(i) == pool[1 + ((k \div (Len(pool) ^ i)) % Len(pool))]
    IN  call(0) \o call(1) \o call(2)
\* (Bound by a quantifier, pool and bodies are evaluated once.)
MCPrograms ==
    CHOOSE ps \in {[k \in 1..Len(pool) ^ 3 |-> Program(Body(pool, k))] \o <<>> : pool \in {Pool}} : TRUE
=============================================================================
