------------------------------ MODULE MCLexer ------------------------------
(***************************************************************************)
(* Every line of four characters, and every four characters after the      *)
(* beginning of an operand, of a literal and of an index.                  *)
(***************************************************************************)
EXTENDS Lexer

MCChars == {":", ",", "#", " ", "\"", "\\", "[", "]", "$", "-", "0", "n", "z"}
MCBeginnings == {<<>>, <<"z", ":">>, <<"z", ":", "\"">>, <<"z", ":", "[">>}
=============================================================================
