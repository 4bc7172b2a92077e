------------------------------- MODULE Values -------------------------------
(***************************************************************************)
(* The cell type of the interpreter: `Value` of lex.h, a type tag and a    *)
(* union of a long and a double.  A model value keeps the tag, the member  *)
(* of the union that was stored last and the number stored there; reading  *)
(* the other member yields the reinterpreted bits.                         *)
(*                                                                         *)
(* Bounds.  Longs have width 2 * LongMax + 2 and wrap.  Doubles are the    *)
(* whole numbers up to DoubleMax in magnitude and saturate there;          *)
(* fractions, infinities and NaN are left out.                             *)
(***************************************************************************)
EXTENDS Integers

CONSTANTS
    LongMax,      \* the largest long
    DoubleMax,    \* the largest double
    LongBits,     \* the bits of a double, read through the Long member
    DoubleBits    \* the bits of a long, read through the Double member

LongMin == -LongMax - 1
Longs == LongMin..LongMax
Doubles == -DoubleMax..DoubleMax
Width == 2 * LongMax + 2    \* the values of a long, and of a size_t
Sizes == 0..Width - 1       \* size_t

ASSUME ValuesAssumption ==
    /\ LongMax \in Nat \ {0}
    /\ DoubleMax \in 1..LongMax
    /\ LongBits \in [Doubles -> Longs]
    /\ DoubleBits \in [Longs -> Doubles]
    /\ \A d \in Doubles : DoubleBits[LongBits[d]] = d
    /\ LongBits[0] = 0

(***************************************************************************)
(* Construction and access.                                                *)
(***************************************************************************)
Value ==
    [type : {"L", "D"}, as : {"L"}, n : Longs]
        \cup [type : {"L", "D"}, as : {"D"}, n : Doubles]

LongV(n) == [type |-> "L", as |-> "L", n |-> n]
DoubleV(d) == [type |-> "D", as |-> "D", n |-> d]
Zero == LongV(0)

\* The tag tells which member was stored last.
Sound(v) == v.type = v.as

Long(v) == IF v.as = "L" THEN v.n ELSE LongBits[v.n]
Double(v) == IF v.as = "D" THEN v.n ELSE DoubleBits[v.n]

\* Assignment to one member of the union leaves the tag alone.
SetLong(v, n) == [type |-> v.type, as |-> "L", n |-> n]
SetDouble(v, d) == [type |-> v.type, as |-> "D", n |-> d]

(***************************************************************************)
(* Arithmetic.                                                             *)
(***************************************************************************)
Abs(n) == IF n < 0 THEN -n ELSE n
Truth(b) == IF b THEN 1 ELSE 0

ToSizeUnconverted(n) == n   \* mutant: a long used as a size_t as it is
ToSize(n) == n % Width
Wrap(n) == ToSize(n + LongMax + 1) - (LongMax + 1)
ToDouble(n) ==
    IF n > DoubleMax THEN DoubleMax ELSE IF n < -DoubleMax THEN -DoubleMax ELSE n

\* C's remainder takes the sign of the dividend.
Remainder(l, r) == IF l < 0 THEN -((-l) % Abs(r)) ELSE l % Abs(r)
\* The divisions that trap.
Traps(l, r) == r = 0 \/ (l = LongMin /\ r = -1)

\* Operand of a float operation: converted by tag, otherwise reinterpreted.
AsDouble(v) == IF v.type = "L" THEN ToDouble(Long(v)) ELSE Double(v)

MathOps == {"add", "sub", "mul", "div", "mod", "eq", "ne", "gt", "lt", "and", "or"}
MathfOps == {"addf", "subf", "mulf", "divf", "eqf", "nef", "gtf", "ltf"}

\* `div` multiplies, as the macro that defines it does.
Math(op, l, r) ==
    CASE op = "add" -> Wrap(l + r)
      [] op = "sub" -> Wrap(l - r)
      [] op \in {"mul", "div"} -> Wrap(l * r)
      [] op = "mod" -> Remainder(l, r)
      [] op = "eq" -> Truth(l = r)
      [] op = "ne" -> Truth(l # r)
      [] op = "gt" -> Truth(l > r)
      [] op = "lt" -> Truth(l < r)
      [] op = "and" -> Truth(l # 0 /\ r # 0)
      [] op = "or" -> Truth(l # 0 \/ r # 0)

\* `divf` multiplies too, and comparisons answer with a double.
Mathf(op, l, r) ==
    CASE op = "addf" -> ToDouble(l + r)
      [] op = "subf" -> ToDouble(l - r)
      [] op \in {"mulf", "divf"} -> ToDouble(l * r)
      [] op = "eqf" -> Truth(l = r)
      [] op = "nef" -> Truth(l # r)
      [] op = "gtf" -> Truth(l > r)
      [] op = "ltf" -> Truth(l < r)
=============================================================================
