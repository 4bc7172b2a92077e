----------------------------- MODULE MachineDoc -----------------------------
(***************************************************************************)
(* What the README says of single instructions where the run loop does     *)
(* something else.  Each property is violated by the code; the runs show   *)
(* a program for each.                                                     *)
(***************************************************************************)
EXTENDS Machine

\* "ret: decrements pointer by one, and jumps to idx": the line that runs next
\* is the one whose address the stack holds, which call set to its own line
\* plus one.  The handler puts the address in Code.ptr and DISPATCH adds one.
RetJumpsToIdx ==
    [][At({"ret"}) /\ status' = "run" =>
        LET w == GetLoc(Entered, Arg(1)) IN
        ptr' = ToSize(Long(MemAt(Entered, Long(Entered[w.loc])).val))]_vars

\* An index "can be nested: [[1]] / [[[$aVariable]]]" and is a writable
\* pointer, so a mov to it can be read back; but the write path follows one
\* index fewer than the read path.
NestedReadBack ==
    [][At({"mov"}) /\ status' = "run" /\ Arg(1).t = "Idx" /\ Arg(1).base = "Num" =>
        LET r == GetValue(mem', Arg(1)) IN
        r.err = "ok" => r.val = GetValue(Entered, Arg(2)).val]_vars

\* "cpy: des(WPtr), src(Ptr), size(Value) # memcpy": when the loop is done the
\* cells from des hold what the cells from src hold (for pointers that the
\* copy leaves alone).
CpyCopies ==
    [][CopyEnd =>
        \A k \in 0..Long(GetValue(mem, Arg(3)).val) - 1 :
            mem'[GetLoc(mem, Arg(1)).loc + k] = mem[GetLoc(mem, Arg(2)).loc + k]]_vars

\* "ltof: idx(WPtr) # change from Long to Double" and ftol back: the cell has
\* the other type afterwards.
CastsChangeType ==
    [][At(CastOps) /\ status' = "run" =>
        mem'[GetLoc(Entered, Arg(1)).loc].type = IF Line.op = "ltof" THEN "D" ELSE "L"]_vars
=============================================================================
