------------------------------- MODULE Lexer -------------------------------
(***************************************************************************)
(* The lexer of lex.c: one line of characters to the tokens of an          *)
(* operation and its operands.  A step reads the next character, and       *)
(* `Result` is what `lex_tokenize` returns if the line ends there.         *)
(*                                                                         *)
(* Bounds.  Numbers are what strtod and strtol make of an optional sign    *)
(* and the digits 0 and 1; fractions, exponents, other bases and numbers   *)
(* beyond a long are left out.                                             *)
(***************************************************************************)
EXTENDS Integers, FiniteSets, SequencesExt

CONSTANTS
    Chars,       \* the characters, as strings of length 1
    Beginnings,  \* the beginnings that lines are explored from
    MaxMore      \* bound: characters after such a beginning

VARIABLES
    line,        \* the characters read
    lex          \* the locals of lex_tokenize and eat_token

vars == <<line, lex>>

\* A character is one: the size of a single quote's text (Wild) is none.
ASSUME LexerAssumption == "-1" \notin Chars

Blanks == {" ", "\t"}
Digits == {"0", "1"}
DigitValue(c) == IF c = "1" THEN 1 ELSE 0

(***************************************************************************)
(* Tok_fromStr and eatIdx.                                                 *)
(***************************************************************************)
Token(t) == [err |-> "ok", tok |-> t]
Error(e) == [err |-> e, tok |-> [t |-> "Eof"]]

\* The text from character `first` up to and without character `end`, both
\* numbered from 1: shrinkStr.
Shrink(s, first, end) == SubSeq(s, first, end - 1)

\* strtol: a sign and digits at the front, whatever follows them.
Signed(s) == IF s # <<>> /\ s[1] = "-" THEN Tail(s) ELSE s
DigitCount(s) == CHOOSE n \in 0..Len(s) :
    /\ \A i \in 1..n : s[i] \in Digits
    /\ n = Len(s) \/ s[n + 1] \notin Digits
IsNumber(s) == DigitCount(Signed(s)) # 0
Number(s) ==
    LET digits == SubSeq(Signed(s), 1, DigitCount(Signed(s)))
        value == FoldLeft(LAMBDA n, c : 10 * n + DigitValue(c), 0, digits)
    IN  IF Signed(s) = s THEN value ELSE -value

\* Where eatIdx stops to descend: after `d` brackets the last character is no
\* bracket, nothing is left, or what follows is no bracket.
Depth(s) == CHOOSE d \in 0..Len(s) - 1 :
    LET stops(k) == s[Len(s) - k] # "]" \/ Len(s) - k = k + 2 \/ s[k + 2] # "["
    IN  stops(d) /\ \A k \in 0..d - 1 : ~stops(k)

EatIdx(s) ==
    LET d == Depth(s)
        end == Len(s) - d
        num == Shrink(s, d + 2, end)
    IN  CASE s[end] # "]" -> Error("UnterminatedIdx")
          [] s[end] = "]" /\ end = d + 2 -> Error("EmptyIdx")
          [] s[end] = "]" /\ end # d + 2 /\ s[d + 2] = "$" ->
                IF end = d + 3 THEN Error("MissingVarName")
                ELSE Token([t |-> "Idx", depth |-> d, base |-> "Var", name |-> Shrink(s, d + 3, end)])
          [] OTHER ->
                IF ~IsNumber(num) THEN Error("ParseIdxError")
                ELSE Token([t |-> "Idx", depth |-> d, base |-> "Num", num |-> Number(num)])

\* A literal's last character is dropped, whatever it is.  Of a single quote
\* that leaves a size of -1.
Wild == <<"-1">>
LiteralQuoted(s) == IF Len(s) = 1 THEN Wild ELSE Tail(s)   \* mutant: keeps the last quote
LiteralOf3(s) == IF Len(s) < 3 THEN Wild ELSE Shrink(s, 2, Len(s))   \* mutant: refuses empty ones
Literal(s) == IF Len(s) = 1 THEN Wild ELSE Shrink(s, 2, Len(s))

TokFromStr(s) ==
    CASE s = <<>> -> Token([t |-> "Eof"])
      [] s # <<>> /\ s[1] \in Digits \cup {"-"} ->
            IF IsNumber(s) THEN Token([t |-> "Num", num |-> Number(s)]) ELSE Error("ParseNumError")
      [] s # <<>> /\ s[1] = "[" -> EatIdx(s)
      [] s # <<>> /\ s[1] = "$" -> Token([t |-> "Var", name |-> Tail(s)])
      [] s # <<>> /\ s[1] = "\"" -> Token([t |-> "Ltl", text |-> Literal(s)])
      [] OTHER -> Token([t |-> "Sym", name |-> s])

(***************************************************************************)
(* eat_token: one character at a time.                                     *)
(***************************************************************************)
\* `state` is the enum State of eat_token; `toks` the tokens that are
\* complete, the first of which is the operation.
Start == [state |-> "WAITING", escaped |-> FALSE, current |-> <<>>, toks |-> <<>>,
          ended |-> FALSE, err |-> "ok"]

Delim(l) == IF l.toks = <<>> THEN ":" ELSE ","
Unexpect(l) == IF l.toks = <<>> THEN "," ELSE ":"

Refuse(l, e) == [l EXCEPT !.err = e]
PushEscaped(l, c) == [l EXCEPT !.current = Append(@, c)]   \* mutant: the escape goes on
Push(l, c) == [l EXCEPT !.current = Append(@, c), !.escaped = FALSE]

\* The token ends; the first one has to be a symbol.
Complete(l) ==
    LET r == TokFromStr(l.current) IN
    CASE r.err # "ok" -> Refuse(l, r.err)
      [] r.err = "ok" /\ r.tok.t = "Eof" -> l
      [] r.err = "ok" /\ r.tok.t \notin {"Sym", "Eof"} /\ l.toks = <<>> -> Refuse(l, "WrongTokTypeForOp")
      [] OTHER -> [Start EXCEPT !.toks = Append(l.toks, r.tok)]

Unescaped(c) == CASE c = "n" -> "\n" [] c = "t" -> "\t"

QuoteInLiteral(l) == Push(IF l.escaped THEN l ELSE [l EXCEPT !.state = "ENDED"], "\"")
BackslashDropped(l) == [l EXCEPT !.escaped = TRUE]   \* mutant
BackslashInLiteral(l) ==
    [l EXCEPT !.escaped = ~@, !.current = IF l.escaped THEN Append(@, "\\") ELSE @]
StartsCommentBetween(l, c) == c = "#" /\ l.state = "WAITING"   \* mutant
StartsComment(l, c) == c = "#" /\ l.state # "STRLTL"

\* One turn of the loop: the alternatives are tried in the code's order.
Feed(l, c) ==
    LET literal == l.state = "STRLTL" IN
    IF l.err # "ok" \/ l.ended THEN l
    ELSE IF StartsComment(l, c) THEN [l EXCEPT !.ended = TRUE]
    ELSE IF c \in Blanks /\ ~literal THEN (IF l.state = "WAITING" THEN l ELSE [l EXCEPT !.state = "ENDED"])
    ELSE IF c = Delim(l) THEN
        (CASE l.state = "WAITING" -> Refuse(l, "EmptyToken")
           [] l.state \in {"SYMBOL", "ENDED"} -> Complete(l)
           [] literal -> Push(l, c))
    ELSE IF c = Unexpect(l) THEN (IF literal THEN Push(l, c) ELSE Refuse(l, "UnexpectedDelim"))
    ELSE IF l.state = "ENDED" THEN Refuse(l, "NonDelimAfterSymEnd")
    ELSE IF c = "\"" THEN
        (CASE l.state = "WAITING" -> Push([l EXCEPT !.state = "STRLTL"], c)
           [] literal -> QuoteInLiteral(l)
           [] l.state = "SYMBOL" -> Refuse(l, "DoubleQuoteInMiddle"))
    ELSE IF c = "\\" THEN (IF literal THEN BackslashInLiteral(l) ELSE Push(l, c))
    ELSE IF l.state = "WAITING" THEN Push([l EXCEPT !.state = "SYMBOL"], c)
    ELSE IF ~l.escaped THEN Push(l, c)
    ELSE IF c \in {"n", "t"} THEN Push(l, Unescaped(c))
    ELSE Refuse(l, "UnknownEscapeSequence")

\* lex_tokenize of a line that ends here, and of a whole line.
ResultOf(l) == LET done == IF l.err = "ok" THEN Complete(l) ELSE l IN [err |-> done.err, toks |-> done.toks]
Tokenize(s) == ResultOf(FoldLeft(Feed, Start, s))
Result == ResultOf(lex)

(***************************************************************************)
(* The specification.                                                      *)
(***************************************************************************)
Init ==
    /\ line = <<>>
    /\ lex = Start

Read(c) ==
    /\ \E b \in Beginnings : IsPrefix(line, b) \/ (IsPrefix(b, line) /\ Len(line) < Len(b) + MaxMore)
    /\ line' = Append(line, c)
    /\ lex' = Feed(lex, c)

Next == \E c \in Chars : Read(c)

Spec == Init /\ [][Next]_vars

(***************************************************************************)
(* A line as the README describes it: an operation, a colon, operands with *)
(* commas between them, and a comment.                                     *)
(***************************************************************************)
\* The backslashes directly before character i.
Backslashes(i) == CHOOSE n \in 0..i - 1 :
    /\ \A j \in i - n..i - 1 : line[j] = "\\"
    /\ n = i - 1 \/ line[i - n - 1] # "\\"

\* Whether character i + 1 is within a literal.
Inside ==
    LET in[i \in 0..Len(line)] ==
            IF i = 0 THEN FALSE
            ELSE IF line[i] # "\"" THEN in[i - 1]
            ELSE ~in[i - 1] \/ Backslashes(i) % 2 = 1
    IN  in

Outside(chars) == {i \in DOMAIN line : line[i] \in chars /\ ~Inside[i - 1]}
First(positions) == CHOOSE i \in positions : \A j \in positions : i <= j
Stop == IF Outside({"#"}) = {} THEN Len(line) + 1 ELSE First(Outside({"#"}))

\* The members of a set of numbers, from the smallest.
InOrder(S) == [k \in 1..Cardinality(S) |-> First({i \in S : Cardinality({j \in S : j <= i}) = k})]

\* The text of a field: its characters without the blanks around it and with
\* the escapes of a literal carried out.
Escapes(i) == line[i] = "\\" /\ Inside[i - 1] /\ Backslashes(i) % 2 = 0
Text(first, end) ==
    LET kept == InOrder({i \in first..end - 1 : i \notin Outside(Blanks) /\ ~Escapes(i)})
    IN  [k \in DOMAIN kept |->
            IF kept[k] > first /\ Escapes(kept[k] - 1) /\ line[kept[k]] \in {"n", "t"}
            THEN Unescaped(line[kept[k]]) ELSE line[kept[k]]]

\* The fields of the line; an empty one at its end is none.
Fields ==
    LET delims == {i \in Outside({":", ","}) : i < Stop}
        bounds == InOrder(delims \cup {0, Stop})
        fields == [k \in 1..Len(bounds) - 1 |-> Text(bounds[k] + 1, bounds[k + 1])]
    IN  IF Last(fields) = <<>> THEN Front(fields) ELSE fields

(***************************************************************************)
(* Properties.                                                             *)
(***************************************************************************)
\* Type invariant: the scanner is in one of its four states, an escape lasts
\* from a backslash in a literal to the next character, and nothing has been
\* read of a token it waits for but backslashes.
TypeOK ==
    /\ lex.state \in {"WAITING", "SYMBOL", "STRLTL", "ENDED"}
    /\ lex.escaped /\ lex.err = "ok" => lex.state = "STRLTL" /\ Last(line) = "\\"
    /\ lex.state = "WAITING" => ToSet(lex.current) \subseteq {"\\"}
    /\ lex.toks # <<>> => lex.toks[1].t = "Sym"
    /\ lex.err \in {"ok", "ParseNumError", "ParseIdxError", "UnterminatedIdx", "EmptyIdx",
                     "MissingVarName", "WrongTokTypeForOp", "EmptyToken", "UnexpectedDelim",
                     "NonDelimAfterSymEnd", "DoubleQuoteInMiddle", "UnknownEscapeSequence"}

\* The scanner accepts only lines that are such fields, and its tokens are
\* theirs: quotes, escapes and comments move no boundary, lose no character
\* and add none.
SplitsIntoFields ==
    Result.err = "ok" => Result.toks = [k \in DOMAIN Fields |-> TokFromStr(Fields[k]).tok]

\* What comes after a comment sign outside a literal changes nothing, an
\* error before it included.
CommentIgnored == [][Stop <= Len(line) => Result' = Result]_vars

\* How a token is written.
Decimal ==
    LET digits[n \in Nat] ==
            IF n < 10 THEN <<IF n = 1 THEN "1" ELSE "0">> ELSE digits[n \div 10] \o digits[n % 10]
    IN  digits
Escaped(c) ==
    CASE c = "\n" -> <<"\\", "n">> [] c = "\t" -> <<"\\", "t">>
      [] c \in {"\\", "\""} -> <<"\\", c>> [] OTHER -> <<c>>
Written(num) == IF num < 0 THEN <<"-">> \o Decimal[-num] ELSE Decimal[num]
Brackets(c, depth) == [i \in 1..depth + 1 |-> c]
TokText(tok) ==
    CASE tok.t = "Num" -> Written(tok.num)
      [] tok.t = "Sym" -> tok.name
      [] tok.t = "Var" -> <<"$">> \o tok.name
      [] tok.t = "Ltl" -> <<"\"">> \o FlattenSeq([i \in DOMAIN tok.text |-> Escaped(tok.text[i])]) \o <<"\"">>
      [] tok.t = "Idx" ->
            Brackets("[", tok.depth)
                \o (IF tok.base = "Num" THEN Written(tok.num) ELSE <<"$">> \o tok.name)
                \o Brackets("]", tok.depth)

LineText(toks) ==
    FlattenSeq([k \in DOMAIN toks |->
        TokText(toks[k]) \o (IF k = Len(toks) THEN <<>> ELSE IF k = 1 THEN <<":">> ELSE <<",">>)])

\* Writing the tokens of an accepted line and reading them again gives the
\* same tokens: nothing that can be read is lost when it is written out in
\* the plain form.  (A backslash at the front of a symbol, and the literal
\* of a single quote, have no such form.)
Printable(tok) ==
    /\ tok.t = "Sym" => "\\" \notin ToSet(tok.name)
    /\ tok.t = "Ltl" => tok.text # Wild
ReadsBack ==
    Result.err = "ok" /\ (\A k \in DOMAIN Result.toks : Printable(Result.toks[k])) =>
        Tokenize(LineText(Result.toks)) = Result

\* Only an unterminated literal without a character is read as one of
\* nonsensical size.
WildOnlyUnterminated ==
    Result.err = "ok" /\ (\E k \in DOMAIN Result.toks : Result.toks[k] = [t |-> "Ltl", text |-> Wild]) =>
        Inside[Stop - 1]
=============================================================================
