------------------------------- MODULE System -------------------------------
(***************************************************************************)
(* The run loop with its files: `sys` and `print_num`, the functions of    *)
(* sys.c, and the interpreter's table of open descriptors.                 *)
(*                                                                         *)
(* External, as sys.c and opdef.c use them: the kernel's descriptors and   *)
(* files (open, close), and the streams of stdio.  Every fdopen makes a    *)
(* stream of its own that is never closed; what it holds is written by     *)
(* fflush or at exit.  Files and pipes are meant: a terminal is flushed at *)
(* every line end.  Devices that fail or fill up are left out.             *)
(***************************************************************************)
EXTENDS Machine, SequencesExt

CONSTANTS
    TableSize,   \* entries of Mem.fd
    MaxFds,      \* descriptors the kernel gives out
    ReadMax,     \* MAX_INPUT: characters a read can deliver
    BufSize,     \* characters the buffer of a stream holds
    Disk,        \* the files before the run: name to data
    Stdin        \* what standard input holds

VARIABLES
    slots,       \* Mem.fd, the entries that are true
    os,          \* the kernel: descriptors and files
    streams,     \* the streams that hold text, oldest first
    texts,       \* history: what was given to standard output, in order
    heard        \* history: the positions of standard input delivered

io == <<slots, os, streams, texts, heard>>
allvars == <<vars, io>>

Chars == -128..127

ASSUME SystemAssumption ==
    /\ Registers >= 3    \* the registers of the arguments exist
    /\ TableSize \in Nat /\ TableSize >= 3
    /\ MaxFds \in Nat /\ MaxFds >= 3
    /\ ReadMax \in Nat /\ BufSize \in Nat /\ 0 < ReadMax /\ ReadMax <= BufSize
    \* A long holds a character, a descriptor and what a read delivers.
    /\ LongMax >= 127 /\ LongMax >= MaxFds /\ LongMax >= ReadMax
    /\ \A f \in DOMAIN Disk : Disk[f] \in Seq(Chars)
    \* No file has the name that stands for a standard file (Std): it has a zero.
    /\ \A fd \in 0..2 : <<0, fd>> \notin DOMAIN Disk
    /\ Stdin \in Seq(Chars)

Least(S) == CHOOSE i \in S : \A j \in S : i <= j
AtMost(n, limit) == IF n < limit THEN n ELSE limit

ToCharWide(n) == n   \* mutant: all of a long
ToChar(n) == ((n + 128) % 256) - 128

(***************************************************************************)
(* The kernel.  No name a program can form has a zero, those of the        *)
(* standard files do.                                                      *)
(***************************************************************************)
Std(fd) == <<0, fd>>
Descriptor(name, reads, writes, append) ==
    [file |-> name, pos |-> 0, reads |-> reads, writes |-> writes, append |-> append]

Writable(fd) == fd \in DOMAIN os.fds /\ os.fds[fd].writes
Unread(fd) == LET d == os.fds[fd] IN SubSeq(os.disk[d.file].data, d.pos + 1, Len(os.disk[d.file].data))

Overwritten(data, pos, text) ==
    [i \in 1..(IF Len(data) > pos + Len(text) THEN Len(data) ELSE pos + Len(text)) |->
        IF i > pos /\ i <= pos + Len(text) THEN text[i - pos]
        ELSE IF i <= Len(data) THEN data[i] ELSE 0]

\* A stream's text reaches the file its descriptor stands for now, if any.
Out(k, fd, text) ==
    IF fd \notin DOMAIN k.fds \/ ~k.fds[fd].writes THEN k
    ELSE LET d == k.fds[fd]
             data == k.disk[d.file].data
             pos == IF d.append THEN Len(data) ELSE d.pos
         IN  [k EXCEPT !.disk[d.file].data = Overwritten(data, pos, text),
                       !.fds[fd].pos = pos + Len(text)]

\* History of what goes to standard output.
Noted(fd, kind, text) ==
    IF fd \in DOMAIN os.fds /\ os.fds[fd].file = Std(1) /\ text # <<>>
    THEN Append(texts, [kind |-> kind, text |-> text]) ELSE texts

(***************************************************************************)
(* sys: the call is in the operand, its arguments in the registers.        *)
(***************************************************************************)
Code == GetValue(Entered, Arg(1))
Calls(n) == At({"sys"}) /\ Code.err = "ok" /\ Long(Code.val) = n
SysArg(n) == Long(Entered[n + 2])
Answered(m, n) == [m EXCEPT ![0] = LongV(n)]

\* An operand in error, or a number that is no call.
NoCall ==
    /\ At({"sys"})
    /\ Code.err = "ok" => Long(Code.val) \notin 0..4
    /\ Finish(Code.err, Entered, ptr)
    /\ UNCHANGED io

Exit == Calls(0) /\ Stop("exit", Entered) /\ UNCHANGED io

\* The table is read without a bounds check.
SlotErr(fd) ==
    IF fd \notin 0..TableSize - 1 THEN "undefined"
    ELSE IF fd \notin slots THEN "BadFileDescriptor" ELSE "ok"

\* fread asks for ReadMax characters, its stream for a buffer of them: what
\* the call does not deliver is gone with the stream.
Kept(fd) == 0   \* mutant: the position stays
Taken(fd) == AtMost(Len(Unread(fd)), BufSize)
StoredAll(n, size_) == n   \* mutant: the size asked for is not looked at
Stored(n, size_) == AtMost(n, size_)

\* Memory once the first n characters of a text are in it, cell by cell: two
\* of them may be for the same cell.
Filling(text, first, n) ==
    LET after[i \in 0..n] ==
            IF i = 0 THEN Entered ELSE MemSet(after[i - 1], Wrap(first + i - 1), LongV(text[i]))
    IN  after[n]

Read ==
    /\ Calls(1)
    /\ LET fd == SysArg(0) IN
       IF SlotErr(fd) # "ok" THEN Stop(SlotErr(fd), Entered) /\ UNCHANGED io
       ELSE IF fd \notin DOMAIN os.fds \/ ~os.fds[fd].reads THEN Stop("undefined", Entered) /\ UNCHANGED io
       ELSE LET got == AtMost(Len(Unread(fd)), ReadMax)
                n == Stored(got, ToSize(SysArg(2)))
                fit == Least({n} \cup {i \in 0..n - 1 : SetErr(mem, Wrap(SysArg(1) + i)) # "ok"})
                filled == Filling(Unread(fd), SysArg(1), fit)
                err == IF got = 0 THEN "IoError" ELSE IF fit < n THEN "InvalidMemAccess" ELSE "ok"
            IN  /\ Finish(err, IF err = "ok" THEN Answered(filled, n) ELSE filled, ptr)
                /\ os' = [os EXCEPT !.fds[fd].pos = @ + Taken(fd)]
                /\ heard' = IF os.fds[fd].file = Std(0)
                            THEN heard \o [i \in 1..fit |-> os.fds[fd].pos + i] ELSE heard
                /\ UNCHANGED <<slots, streams, texts>>

\* The characters of a write that are in memory, at most n.
Readable(first, n) ==
    [i \in 1..AtMost(n, size - Abs(first)) |-> ToChar(Long(Entered[Abs(first) + i - 1]))]

\* Mutant: fflush is left out.
SendHeld(fd, text) == [os |-> os, streams |-> Append(streams, [fd |-> fd, text |-> text])]
Send(fd, text) == [os |-> Out(os, fd, text), streams |-> streams]

Write ==
    /\ Calls(2)
    /\ LET fd == SysArg(0)
           n == ToSize(SysArg(2))
           text == Readable(SysArg(1), n)
           sent == Send(fd, text)
       IN  /\ SlotErr(fd) = "ok" /\ Writable(fd) /\ Len(text) = n
           /\ Finish("ok", Answered(Entered, n), ptr)
           /\ os' = sent.os
           /\ streams' = sent.streams
           /\ texts' = Noted(fd, "write", text)
           /\ UNCHANGED <<slots, heard>>

\* The text runs past memory: the full buffers of it have been written, the
\* rest is left to the stream.
WriteFails ==
    /\ Calls(2)
    /\ LET fd == SysArg(0)
           text == Readable(SysArg(1), ToSize(SysArg(2)))
           out == SubSeq(text, 1, BufSize * ((Len(text) - 1) \div BufSize))
           rest == SubSeq(text, Len(out) + 1, Len(text))
       IN  /\ SlotErr(fd) = "ok" /\ Writable(fd) /\ Len(text) < ToSize(SysArg(2))
           /\ Stop("InvalidMemAccess", Entered)
           /\ os' = Out(os, fd, out)
           /\ streams' = IF rest = <<>> THEN streams ELSE Append(streams, [fd |-> fd, text |-> rest])
           /\ texts' = Noted(fd, "write", out) \o
                SubSeq(Noted(fd, "held", rest), Len(texts) + 1, Len(Noted(fd, "held", rest)))
           /\ UNCHANGED <<slots, heard>>

\* The kernel after every stream has been flushed, in this order of them.
FlushedAll(order) ==
    LET after[n \in 0..Len(streams)] ==
            IF n = 0 THEN os ELSE Out(after[n - 1], streams[order[n]].fd, streams[order[n]].text)
    IN  after[Len(streams)]

\* fdopen fails: the stream is null.  Nothing is written to it if the size is
\* 0, and fflush of it flushes every stream, in an order of its own.
WriteNull ==
    /\ Calls(2)
    /\ LET fd == SysArg(0)
           n == ToSize(SysArg(2))
           err == IF SlotErr(fd) # "ok" THEN SlotErr(fd) ELSE IF n = 0 THEN "ok"
                  ELSE IF Readable(SysArg(1), n) = <<>> THEN "InvalidMemAccess" ELSE "undefined"
       IN  /\ SlotErr(fd) = "ok" => ~Writable(fd)
           /\ Finish(err, IF err = "ok" THEN Answered(Entered, 0) ELSE Entered, ptr)
           /\ IF err = "ok"
              THEN /\ \E order \in Bijection(DOMAIN streams, DOMAIN streams) : os' = FlushedAll(order)
                   /\ streams' = <<>>
              ELSE UNCHANGED <<os, streams>>
           /\ UNCHANGED <<slots, texts, heard>>

\* The option's decimal digits, from the last one.
Options(n) ==
    LET digit(i) == (n \div (10 ^ i)) % 10 IN
    [ok |-> (\A i \in 0..5 : digit(i) <= 1) /\ digit(0) + digit(1) > 0,
     reads |-> digit(0) = 1, writes |-> digit(1) = 1, append |-> digit(2) = 1,
     truncates |-> digit(3) = 1, creates |-> digit(4) + digit(5) > 0, excludes |-> digit(5) = 1]

\* Mem_readLtl: the characters up to a cell that is zero.  A cell with the tag
\* of a double is no character: a null pointer is followed.  A character that
\* is zero once it is one byte ends the name for open.
NameErr(first) ==
    LET ends == {i \in DOMAIN mem : i >= first /\ Long(Entered[i]) = 0}
        end == IF ends = {} THEN size ELSE Least(ends)
    IN  IF \E i \in first..end - 1 : Entered[i].type = "D" THEN "undefined"
        ELSE IF ends = {} THEN "InvalidMemAccess" ELSE "ok"
Name(first) ==
    LET end == Least({i \in DOMAIN mem : i >= first /\ ToChar(Long(Entered[i])) = 0})
    IN  [i \in 1..end - first |-> ToChar(Long(Entered[first + i - 1]))]

\* The mode of a file that is created is not passed: whether it can be opened
\* again is open.
Open ==
    /\ Calls(3)
    /\ LET first == Abs(SysArg(0))
           o == Options(ToSize(SysArg(1)))
           name == Name(first)
           exists == name \in DOMAIN os.disk
           fd == Least(0..MaxFds \ DOMAIN os.fds)
           err == IF NameErr(first) # "ok" THEN NameErr(first)
                  ELSE IF ~o.ok THEN "InvalidOpenOption"
                  ELSE IF \/ name = <<>> \/ fd = MaxFds
                          \/ exists /\ (o.excludes \/ ~os.disk[name].usable)
                          \/ ~exists /\ ~o.creates
                       THEN "IoError"
                  ELSE IF fd >= TableSize THEN "undefined" ELSE "ok"
       IN  IF err # "ok" THEN Stop(err, Entered) /\ UNCHANGED io
           ELSE /\ Finish("ok", Answered(Entered, fd), ptr)
                /\ slots' = slots \cup {fd}
                /\ \E usable \in IF exists THEN {TRUE} ELSE BOOLEAN :
                    os' = [fds |-> [f \in DOMAIN os.fds \cup {fd} |->
                                IF f = fd THEN Descriptor(name, o.reads, o.writes, o.append) ELSE os.fds[f]],
                           disk |-> [f \in DOMAIN os.disk \cup {name} |->
                                IF f # name THEN os.disk[f]
                                ELSE [data |-> IF exists /\ ~o.truncates THEN os.disk[name].data ELSE <<>>,
                                      usable |-> usable]]]
                /\ UNCHANGED <<streams, texts, heard>>

LeftOpen(fd) == slots   \* mutant: the table forgets nothing
Left(fd) == slots \ {fd}

Close ==
    /\ Calls(4)
    /\ LET fd == SysArg(0) IN
       IF SlotErr(fd) # "ok" THEN Stop(SlotErr(fd), Entered) /\ UNCHANGED io
       ELSE /\ Finish("ok", Entered, ptr)
            /\ slots' = Left(fd)
            /\ os' = [os EXCEPT !.fds = [f \in DOMAIN os.fds \ {fd} |-> os.fds[f]]]
            /\ UNCHANGED <<streams, texts, heard>>

(***************************************************************************)
(* print_num, and the end of the program.                                  *)
(***************************************************************************)
\* "%ld\n", and "%f\n" of a whole number.
Decimal ==
    LET digits[n \in Nat] == IF n < 10 THEN <<48 + n>> ELSE Append(digits[n \div 10], 48 + (n % 10))
    IN  digits
Shown(n) == IF n < 0 THEN <<45>> \o Decimal[-n] ELSE Decimal[n]
Printed(v) ==
    IF v.type = "D" THEN Shown(Double(v)) \o <<46, 48, 48, 48, 48, 48, 48, 10>>
    ELSE Shown(Long(v)) \o <<10>>

\* The table is not asked; a stream that is null is written to.
PrintNum ==
    /\ At({"print_num"})
    /\ LET fd == GetValue(Entered, Arg(1))
           v == GetValue(Entered, Arg(2))
           err == IF fd.err # "ok" THEN fd.err ELSE IF v.err # "ok" THEN v.err
                  ELSE IF ~Writable(Long(fd.val)) THEN "undefined" ELSE "ok"
       IN  IF err # "ok" THEN Stop(err, Entered) /\ UNCHANGED io
           ELSE /\ Finish("ok", Entered, ptr)
                /\ streams' = Append(streams, [fd |-> Long(fd.val), text |-> Printed(v.val)])
                /\ texts' = Noted(Long(fd.val), "held", Printed(v.val))
                /\ UNCHANGED <<slots, os, heard>>

\* Mutant: a stream is kept until it can be written.
FlushedIfOpen(i) == IF streams[i].fd \in DOMAIN os.fds THEN RemoveAt(streams, i) ELSE streams
Flushed(i) == SubSeq(streams, 1, i - 1) \o SubSeq(streams, i + 1, Len(streams))

\* At exit every stream is flushed, in an order that is the library's.
AtExit ==
    /\ status \notin {"run", "undefined"}
    /\ \E i \in DOMAIN streams :
        /\ os' = Out(os, streams[i].fd, streams[i].text)
        /\ streams' = Flushed(i)
    /\ UNCHANGED <<vars, slots, texts, heard>>

(***************************************************************************)
(* The specification.                                                      *)
(***************************************************************************)
SysInit ==
    /\ Init
    /\ slots = 0..2
    /\ os = [fds |-> [fd \in 0..2 |-> Descriptor(Std(fd), fd = 0, fd # 0, FALSE)],
             disk |-> [f \in DOMAIN Disk \cup {Std(fd) : fd \in 0..2} |->
                        [data |-> IF f = Std(0) THEN Stdin ELSE IF f \in DOMAIN Disk THEN Disk[f] ELSE <<>>,
                         usable |-> TRUE]]]
    /\ streams = <<>>
    /\ texts = <<>>
    /\ heard = <<>>

SysNext ==
    \/ Next /\ UNCHANGED io
    \/ NoCall \/ Exit \/ Read \/ Write \/ WriteFails \/ WriteNull \/ Open \/ Close
    \/ PrintNum \/ AtExit

\* Nothing waits: files are read and written at once.
SysSpec == SysInit /\ [][SysNext]_allvars /\ WF_allvars(SysNext)

(***************************************************************************)
(* Properties.                                                             *)
(***************************************************************************)
\* Type invariant: memory is one block of typed cells, also once the run has
\* stopped in a call; every descriptor stands for a file; and what files and
\* streams hold, and what the histories noted, are characters and positions,
\* whatever cells were written and wherever a read was told to put its text.
SysTypeOK ==
    /\ size \in Registers + 2..MaxMem
    /\ mem \in [0..size - 1 -> Value]
    /\ ptr \in Sizes
    /\ slots \subseteq 0..TableSize - 1
    /\ DOMAIN os.fds \subseteq 0..MaxFds - 1
    /\ \A fd \in DOMAIN os.fds : os.fds[fd].file \in DOMAIN os.disk /\ os.fds[fd].pos \in Nat
    /\ \A f \in DOMAIN os.disk : os.disk[f].data \in Seq(Chars)
    /\ \A k \in DOMAIN streams : streams[k].fd \in Longs /\ streams[k].text \in Seq(Chars)
    /\ \A k \in DOMAIN texts : texts[k].kind \in {"write", "held"} /\ texts[k].text \in Seq(Chars)
    /\ heard \in Seq(Nat)

\* The interpreter's table says of each descriptor what the kernel would: a
\* call the table lets through has an open descriptor, over any opens, closes
\* and reuse of numbers.
TableTruth == status # "undefined" => slots = DOMAIN os.fds

\* The cells a call may change: the answer, the line, and for read the cells
\* it was told to fill, also if it fails or reads less.
Filled ==
    IF Calls(1) THEN {Abs(Wrap(SysArg(1) + k)) : k \in 0..AtMost(ToSize(SysArg(2)), ReadMax) - 1} ELSE {}

\* Calls change no other cell.
SysFrame ==
    [][At({"sys", "print_num"}) =>
        \A i \in DOMAIN mem \ {0, 1} : mem'[i] # mem[i] => i \in Filled]_allvars

\* What reached standard output when the program is over: everything that was
\* given to it, once, also by a write that failed in the middle.  A write comes
\* before all that was output after it; numbers wait, and may come later.
OutputComplete ==
    /\ status \notin {"run", "undefined"} /\ streams = <<>>
    /\ 1 \in DOMAIN os.fds /\ os.fds[1].file = Std(1)
    => \E order \in SetToSeqs(DOMAIN texts) :
            /\ \A i, j \in DOMAIN order :
                i < j /\ order[j] < order[i] => texts[order[j]].kind = "held"
            /\ os.disk[Std(1)].data = FlattenSeq([i \in DOMAIN order |-> texts[order[i]].text])

\* No character of standard input is delivered twice or out of order; some are
\* not delivered at all.
StdinOnce == \A i, j \in DOMAIN heard : i < j => heard[i] < heard[j]

\* A program whose jumps go forward finishes, and what it printed is written or
\* given up, unless it leaves memory or its table.
Finishes == Forward(Prog) => <>(status = "undefined" \/ (status # "run" /\ streams = <<>>))
=============================================================================
