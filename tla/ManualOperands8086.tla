------------------------- MODULE ManualOperands8086 -------------------------
(***************************************************************************)
(* Whole instructions as the 8086 Family User's Manual has them: where     *)
(* operands are, what moves, which words are transferred; and the exact    *)
(* conditions under which Operands8086 departs from it.                    *)
(***************************************************************************)
EXTENDS Operands8086, Manual8086
LOCAL INSTANCE FiniteSetsExt

---------------------------------------------------------------------------
(* Places.  A word's second byte is at the next offset of the segment, the *)
(* first one after the last; addresses have 20 bits.                       *)

Place(s, seg, offset) == (16 * s.regs[seg] + (offset % Words)) % MemorySize

ManualOffset(s, ea) ==
    ((IF ea.base \in {"bx_si", "bx_di", "bx"} THEN s.regs["b"] ELSE 0)
     + (IF ea.base \in {"bp_si", "bp_di", "bp"} THEN s.regs["bp"] ELSE 0)
     + (IF ea.base \in {"bx_si", "bp_si", "si"} THEN s.regs["si"] ELSE 0)
     + (IF ea.base \in {"bx_di", "bp_di", "di"} THEN s.regs["di"] ELSE 0)
     + ea.disp) % Words
ManualSegment(ea, over) ==
    CASE over # "max" -> over
      [] over = "max" /\ ea.base \in {"bp_si", "bp_di", "bp"} -> "ss"
      [] OTHER -> "ds"

WordAt(s, seg, offset) ==
    Byte(s.mem, Place(s, seg, offset)) + 256 * Byte(s.mem, Place(s, seg, offset + 1))
PutAt(s, seg, offset, val, wide) ==
    LET low == Place(s, seg, offset) :> (val % 256)
        high == Place(s, seg, offset + 1) :> (val \div 256)
    IN  [s EXCEPT !.mem = IF wide THEN low @@ high @@ @ ELSE low @@ @]

\* A byte of an instruction on bytes is a byte, whatever the decoder made of it.
Get(s, o, wide, over) ==
    CASE o.type = "imm" -> IF wide THEN o.imm ELSE o.imm % 256
      [] o.type = "none" -> 0
      [] o.type = "reg" /\ o.size = 2 -> s.regs[o.reg]
      [] o.type = "reg" /\ o.size = 1 ->
            (s.regs[o.reg] \div (256 ^ o.offset)) % 256
      [] o.type = "mem" ->
            LET word == WordAt(s, ManualSegment(o, over), ManualOffset(s, o))
            IN  IF wide THEN word ELSE word % 256
Put(s, o, val, wide, over) ==
    CASE o.type = "reg" /\ o.size = 2 -> [s EXCEPT !.regs[o.reg] = val]
      [] o.type = "reg" /\ o.size = 1 ->
            [s EXCEPT !.regs[o.reg] =
                IF o.offset = 1 THEN 256 * val + (@ % 256)
                ELSE 256 * (@ \div 256) + val]
      [] o.type = "mem" ->
            PutAt(s, ManualSegment(o, over), ManualOffset(s, o), val, wide)

InMemory(o) == o.type = "mem"

---------------------------------------------------------------------------
(* What an instruction leaves.                                             *)

Lowered(s) == [s EXCEPT !.regs["sp"] = (@ - 2) % Words]
ManualPush(s, val) ==
    LET t == Lowered(s) IN PutAt(t, "ss", t.regs["sp"], val, TRUE)

Raised(s, seg, offset) ==
    [s EXCEPT !.regs["ip"] = WordAt(s, seg, offset),
              !.regs["cs"] = WordAt(s, seg, offset + 2)]

\* The flags on the stack, with the trap flag in bit 8 and the direction flag
\* in bit 10; interrupts and traps are off in the routine.
ManualInterrupt(s, n) ==
    LET word == Bits([s.flags EXCEPT !.d = s.flags.t, !.t = s.flags.d],
                     DOMAIN s.flags)
        saved == ManualPush(ManualPush(ManualPush(s, word), s.regs["cs"]),
                            s.regs["ip"])
        pointer(k) == Byte(s.mem, 4 * n + k) + 256 * Byte(s.mem, 4 * n + k + 1)
    IN  [saved EXCEPT !.regs["ip"] = pointer(0), !.regs["cs"] = pointer(2),
                      !.flags.i = FALSE, !.flags.t = FALSE]

\* A string is read from the data segment or that of the override, and written
\* to, and looked for in, the extra segment.
StringSegment(i) == IF Over(i) = "max" THEN "ds" ELSE Over(i)

\* One element of a string, in the direction dir.
Element(i, s, dir) ==
    LET size == IF Wide(i) THEN 2 ELSE 1
        step(r) == (s.regs[r] + dir * size) % Words
        at(seg, r) == LET word == WordAt(s, seg, s.regs[r])
                      IN  IF Wide(i) THEN word ELSE word % 256
        acc == IF Wide(i) THEN s.regs["a"] ELSE s.regs["a"] % 256
        moved == [s EXCEPT
            !.regs["si"] = IF i.op \in {"movs", "cmps", "lods"} THEN step("si") ELSE @,
            !.regs["di"] = IF i.op # "lods" THEN step("di") ELSE @]
        equal(x) == [moved EXCEPT !.flags.z = (x = at("es", "di"))]
    IN  CASE i.op = "movs" ->
                PutAt(moved, "es", s.regs["di"], at(StringSegment(i), "si"), Wide(i))
          [] i.op = "stos" -> PutAt(moved, "es", s.regs["di"], acc, Wide(i))
          [] i.op = "lods" -> Put(moved, Accumulator(Wide(i)), at(StringSegment(i), "si"), Wide(i), "max")
          [] i.op = "cmps" -> equal(at(StringSegment(i), "si"))
          [] i.op = "scas" -> equal(acc)

\* The elements of a repeated instruction, and the machine after them.
Elements(i, s, dir) ==
    LET after[n \in 0..s.regs["c"]] ==
            IF n = 0 THEN [machine |-> s, count |-> 0]
            ELSE LET before == after[n - 1]
                     one == Element(i, before.machine, dir)
                     stops == /\ i.op \in {"scas", "cmps"}
                              /\ before.count > 0
                              /\ before.machine.flags.z # ("z" \in i.flags)
                 IN  IF stops \/ before.count < n - 1 THEN before
                     ELSE [machine |-> [one EXCEPT !.regs["c"] = @ - 1], count |-> n]
    IN  IF "rep" \in i.flags THEN after[s.regs["c"]]
        ELSE [machine |-> Element(i, s, dir), count |-> 1]

ManualAlu(i, s) ==
    [AluInput(i, s) EXCEPT
        !.dest = Get(s, Op0(i), Wide(i), Over(i)),
        !.src = Get(s, IF i.op \in Multiplications \cup Divisions THEN Op0(i) ELSE Op1(i),
                    Wide(i), Over(i))]

ManualState(i, s) ==
    LET t == [s EXCEPT !.regs["ip"] = (@ + i.size) % Words]
        val0 == Get(t, Op0(i), Wide(i), Over(i))
        val1 == Get(t, Op1(i), Wide(i), Over(i))
        result == ManualResult(i.op, ManualAlu(i, s))
        seg == ManualSegment(Op0(i), Over(i))
        saved == CASE i.op = "call" /\ "far" \in i.flags ->
                        ManualPush(ManualPush(t, t.regs["cs"]), t.regs["ip"])
                   [] i.op = "call" /\ "far" \notin i.flags ->
                        ManualPush(t, t.regs["ip"])
                   [] OTHER -> t
    IN  CASE i.op = "mov" -> Put(t, Op0(i), val1, Wide(i), Over(i))
          [] i.op = "xchg" ->
                Put(Put(t, Op1(i), val0, Wide(i), Over(i)), Op0(i), val1, Wide(i), Over(i))
          [] i.op = "xlat" ->
                Put(t, AL, Byte(t.mem, Place(t, "ds", t.regs["b"] + (t.regs["a"] % 256))),
                    FALSE, "max")
          [] i.op = "lea" -> Put(t, Op0(i), ManualOffset(t, Op1(i)), TRUE, "max")
          [] i.op \in {"lds", "les"} ->
                [Put(t, Op0(i), val1, TRUE, "max") EXCEPT
                    !.regs[IF i.op = "lds" THEN "ds" ELSE "es"] =
                        WordAt(t, ManualSegment(Op1(i), Over(i)),
                               ManualOffset(t, Op1(i)) + 2)]
          [] i.op = "lahf" ->
                Put(t, AH, Bits(t.flags, {"s", "z", "a", "p", "c"}), FALSE, "max")
          [] i.op = "sahf" ->
                [t EXCEPT !.flags = [n \in DOMAIN @ |->
                    IF n \in {"s", "z", "a", "p", "c"}
                    THEN (t.regs["a"] \div (256 * FlagBits[n])) % 2 = 1 ELSE @[n]]]
          [] i.op = "push" -> ManualPush(t, Get(Lowered(t), Op0(i), TRUE, Over(i)))
          [] i.op = "pop" ->
                Put([t EXCEPT !.regs["sp"] = (@ + 2) % Words], Op0(i),
                    WordAt(t, "ss", t.regs["sp"]), TRUE, Over(i))
          [] i.op \in {"call", "jmp"} /\ "far" \in i.flags ->
                Raised(saved, seg, ManualOffset(saved, Op0(i)))
          [] i.op \in {"call", "jmp"} /\ "far" \notin i.flags ->
                [saved EXCEPT !.regs["ip"] = Get(saved, Op0(i), TRUE, Over(i))]
          [] i.op = "out" -> t
          [] i.op = "int" -> ManualInterrupt(t, Op0(i).imm)
          [] i.op \in Divisions -> ManualInterrupt(t, 0)
          [] i.op \in Strings8086 ->
                Elements(i, t, IF t.flags.d THEN -1 ELSE 1).machine
          [] i.op \in OneResult -> Put(t, Op0(i), result.dest, Wide(i), Over(i))
          [] OTHER -> [t EXCEPT !.regs["a"] = result.ax, !.regs["d"] = result.dx]

---------------------------------------------------------------------------
(* Where the code departs from it.                                         *)

\* The instruction without its segment override.
Plain(i) == [i EXCEPT !.segment_override = "max"]

\* Opcode 82h: the decoder extends the byte by its sign though the instruction
\* is one on bytes, and the operand has 16 bits.
Stretched(i) == ~Wide(i) /\ Op1(i).type = "imm" /\ Op1(i).imm > 255

\* The offsets in their segments of the words that the simulator looks at.
WordsAt(i, s) ==
    LET operands == {ManualOffset(s, o) : o \in
                        {p \in {Op0(i), Op1(i)} : InMemory(p) /\ Wide(i)}}
        pushed(n) == {(s.regs["sp"] - 2 * k) % Words : k \in 1..n}
        elements == Elements(Plain(i), s, 1).count
        walked(r) == {(s.regs[r] + 2 * k) % Words : k \in 0..(elements - 1)}
    IN  CASE i.op = "lea" -> {}
          [] i.op = "push" -> operands \cup pushed(1)
          [] i.op = "pop" -> operands \cup {s.regs["sp"]}
          [] i.op \in {"lds", "les"} -> operands \cup {(o + 2) % Words : o \in operands}
          [] i.op \in {"call", "jmp"} /\ "far" \in i.flags ->
                operands \cup (IF i.op = "call" THEN pushed(2) ELSE {})
                \cup {Words - 1 : o \in {p \in operands : p + 3 >= Words}}
          [] i.op = "call" /\ "far" \notin i.flags -> operands \cup pushed(1)
          [] i.op = "int" -> pushed(3)
          [] i.op \in Strings8086 /\ Wide(i) ->
                (IF i.op # "lods" THEN walked("di")
                 ELSE walked("di") \cap {s.regs["di"]}) \cup (IF i.op \in {"movs", "cmps", "lods"}
                                   THEN walked("si") ELSE {})
          [] i.op \in Strings8086 /\ ~Wide(i) -> {}
          [] OTHER -> operands

\* A word at the last offset of a segment ends the simulator.
RunsOut(i, s) == Words - 1 \in WordsAt(i, s)

Same(s, t) ==
    /\ s.regs = t.regs
    /\ \A a \in DOMAIN s.mem \cup DOMAIN t.mem : Byte(s.mem, a) = Byte(t.mem, a)

\* Vectors are read from the code segment, the direction and trap flags are
\* saved in each other's place, and flags stay on.
InterruptDeparts(s, n) ==
    \/ WordAt(s, "cs", 4 * n) # Byte(s.mem, 4 * n) + 256 * Byte(s.mem, 4 * n + 1)
    \/ WordAt(s, "cs", 4 * n + 2) # Byte(s.mem, 4 * n + 2) + 256 * Byte(s.mem, 4 * n + 3)
    \/ s.flags.d # s.flags.t
    \/ s.flags.t \/ s.flags.i

\* push stores the stack pointer from before; pop, jumps and strings do not look
\* at a segment override; xchg finds its operand in memory again after it
\* changed a register of the address; strings always go up.
Departs(i, s) ==
    \/ RunsOut(i, s)
    \/ i.op = "push" /\ Op0(i).type = "reg" /\ Op0(i).reg = "sp"
    \/ /\ i.op \in {"pop", "call", "jmp"} \cup Strings8086
       /\ ~Same(ManualState(i, s), ManualState(Plain(i), s))
    \/ /\ i.op = "xchg" /\ InMemory(Op1(i))
       /\ ManualOffset(Put(s, Op0(i), Get(s, Op1(i), Wide(i), Over(i)), Wide(i), "max"),
                       Op1(i)) # ManualOffset(s, Op1(i))
    \/ /\ i.op \in Strings8086 /\ s.flags.d
       /\ Elements(i, s, 1).count > 0
    \/ i.op = "int" /\ InterruptDeparts(s, Op0(i).imm)
    \/ i.op \in Compared /\ ResultDeparts(i.op, ManualAlu(i, s))

---------------------------------------------------------------------------
(* Transfers and the trace.                                                *)

\* The addresses of the words that the manual counts as transferred.
ManualTransfers(i, s) ==
    LET places(o) == IF InMemory(o) /\ Wide(i)
                     THEN <<Place(s, ManualSegment(o, Over(i)), ManualOffset(s, o))>>
                     ELSE <<>>
        stack(k) == <<Place(s, "ss", s.regs["sp"] + 2 * k)>>
        pointer(o) == IF InMemory(o)
                      THEN <<Place(s, ManualSegment(o, Over(i)), ManualOffset(s, o) + 2)>>
                      ELSE <<>>
        si == <<Place(s, StringSegment(i), s.regs["si"])>>
        di == <<Place(s, "es", s.regs["di"])>>
        element == CASE i.op \in {"movs", "cmps"} -> si \o di
                     [] i.op = "lods" -> si
                     [] i.op \in {"scas", "stos"} -> di
        elements[n \in Nat] == IF n = 0 THEN <<>> ELSE elements[n - 1] \o element
        port(o) == IF Wide(i) THEN <<Get(s, o, TRUE, "max")>> ELSE <<>>
    IN  CASE i.op = "lea" -> <<>>
          [] i.op = "in" -> port(Op1(i))
          [] i.op = "out" -> port(Op0(i))
          [] i.op \in {"lds", "les"} -> places(Op1(i)) \o pointer(Op1(i))
          [] i.op = "push" -> places(Op0(i)) \o stack(-1)
          [] i.op = "pop" -> stack(0) \o places(Op0(i))
          [] i.op = "xchg" -> places(Op1(i)) \o places(Op1(i))
          [] i.op = "call" /\ "far" \in i.flags ->
                places(Op0(i)) \o pointer(Op0(i)) \o stack(-1) \o stack(-2)
          [] i.op = "call" /\ "far" \notin i.flags -> places(Op0(i)) \o stack(-1)
          [] i.op = "jmp" -> places(Op0(i)) \o
                (IF "far" \in i.flags THEN pointer(Op0(i)) ELSE <<>>)
          [] i.op = "int" -> stack(-1) \o stack(-2) \o stack(-3)
                             \o <<4 * Op0(i).imm, 4 * Op0(i).imm + 2>>
          [] i.op \in Strings8086 ->
                IF Wide(i) THEN elements[Elements(i, s, 1).count] ELSE <<>>
          [] i.op \in OneResult -> places(Op0(i)) \o places(Op0(i)) \o places(Op1(i))
          [] OTHER -> places(Op0(i)) \o places(Op1(i))

\* An operand that is read before it is needed is counted twice; far pointers
\* and ports are not counted.
CountedTwice(i, s) ==
    IF i.op = "pop" \/ (i.op \in {"call", "jmp"} /\ "far" \notin i.flags)
    THEN ManualTransfers([i EXCEPT !.op = "cmp"], s) ELSE <<>>
NotCounted(i, s) ==
    CASE i.op \in {"in", "out"} -> ManualTransfers(i, s)
      [] i.op \in {"call", "jmp"} /\ "far" \in i.flags ->
            ManualTransfers([i EXCEPT !.op = "cmp"], s)
      [] i.op = "int" -> <<4 * Op0(i).imm, 4 * Op0(i).imm + 2>>
      [] OTHER -> <<>>

Odd(places) == Cardinality({k \in DOMAIN places : places[k] % 2 = 1})

\* The memory after the writes that the trace prints, if each was to what is
\* there.
Replayed(mem, trace) ==
    LET at(t, k) == (t.address + k) % MemorySize
        one(was, t) ==
            IF t.wide
            THEN (t.address :> (t.new % 256)) @@ (at(t, 1) :> (t.new \div 256)) @@ was
            ELSE (t.address :> t.new) @@ was
        after[n \in 0..Len(trace)] ==
            IF n = 0 THEN mem ELSE one(after[n - 1], trace[n])
    IN  after[Len(trace)]

\* The result that is handed on to be written has more bits than a byte; with a
\* byte that was extended, if there is no carry to take them away.
Spilled(i, s) ==
    LET a == ManualAlu(i, s)
    IN  /\ i.op \in OneResult /\ ~Wide(i) /\ InMemory(Op0(i))
        /\ CASE i.op \in Adds -> (Sum(i.op, a) > 255) # Stretched(i)
             [] i.op = "sbb" ->
                    (a.dest - (a.src - Carries("sbb", a)) \notin 0..255) # Stretched(i)
             [] i.op \in Subs \ {"sbb"} -> (Difference(i.op, a) < 0) # Stretched(i)
             [] i.op \in {"or", "xor"} -> Stretched(i)
             [] i.op = "neg" -> a.dest # 0
             [] i.op = "not" -> TRUE
             [] i.op = "shl" -> (a.dest * (2 ^ a.src)) % Words > 255
             [] i.op = "sar" -> a.dest > 127
             [] OTHER -> FALSE

\* A word of a string is traced one byte too high, a byte before the start of
\* the segment when DI comes to its end; the addresses of strings and of the
\* stack are not cut to 20 bits.
TraceDeparts(i, s) ==
    LET last == s.regs["di"] + Elements(i, s, 1).count - 1
        pushes == CASE i.op = "push" -> 1
                    [] i.op = "call" -> IF "far" \in i.flags THEN 2 ELSE 1
                    [] i.op = "int" -> 3
                    [] OTHER -> 0
    IN  \/ Spilled(i, s)
        \/ /\ i.op \in {"movs", "stos"}
           /\ Elements(i, s, 1).count > 0
           /\ Wide(i) \/ last + 1 >= Words \/ 16 * s.regs["es"] + last >= MemorySize
        \/ \E k \in 1..pushes :
              16 * s.regs["ss"] + ((s.regs["sp"] - 2 * k) % Words) >= MemorySize

---------------------------------------------------------------------------
(* Properties.                                                             *)

Divided(d) ==
    LET o == d.instr.op
        i == ManualAlu(d.instr, d.in)
        num(x) == IF o = "idiv" THEN Signed(x, i.wide) ELSE x
        quot == num(IF i.wide THEN d.out.regs["a"] ELSE Al(d.out.regs["a"]))
        rem == num(IF i.wide THEN d.out.regs["d"] ELSE Ah(d.out.regs["a"]))
        below(x, n) == -n < x /\ x < n
        thrown == ManualState(d.instr, d.in)
    IN  CASE d.out.status = "ok" ->
                /\ quot * Divisor(o, i) + rem = Dividend(o, i)
                /\ \/ below(rem, Divisor(o, i))
                   \/ below(rem, -Divisor(o, i))
                /\ rem # 0 => (rem < 0) = (Dividend(o, i) < 0)
                /\ o = "idiv" => below(quot, Size(i.wide) \div 2)
          [] d.out.status = "thrown" ->
                /\ (Same(d.out, thrown) /\ d.out.flags = thrown.flags)
                        = ~InterruptDeparts(d.in, 0)
                /\ Divisor(o, i) # 0 =>
                    LET q == Truncated(Dividend(o, i), Divisor(o, i))
                    IN  IF o = "div" THEN q >= Size(i.wide)
                        ELSE ~below(q, Size(i.wide) \div 2)
          [] OTHER ->
                \/ RunsOut(d.instr, d.in)
                \/ /\ o = "idiv" /\ i.wide
                   /\ i.dx = 32768 /\ i.ax = 0 /\ i.src = 65535

\* The flags of these are compared with the numbers they tell of.
FlagsApart == Ops \cup {"cmps", "scas"}

\* An instruction leaves registers and memory as the manual has them, except
\* exactly where Departs lists it (simulator.cpp 648-651, 790-1044); a division
\* gives quotient and remainder, or the interrupt of the divide exception and
\* only when the quotient does not fit, and the least dividend by -1 alone takes
\* the simulator down.  What a port gives to in is not the program's to say.
ResultsDepartWhereKnown ==
    \A k \in DOMAIN done :
        LET d == done[k]
            i == d.instr
            manual == ManualState(i, d.in)
        IN  CASE i.op \in Divisions -> Divided(d)
              [] i.op = "in" -> TRUE
              [] OTHER ->
                    (/\ d.out.status = "ok"
                     /\ Same(d.out, manual)
                     /\ i.op \notin FlagsApart => d.out.flags = manual.flags)
                        = ~Departs(i, d.in)

\* What a comparison of strings compares.
ScanInput(i, s) ==
    LET at(seg, r) == IF Wide(i) THEN WordAt(s, seg, s.regs[r])
                      ELSE WordAt(s, seg, s.regs[r]) % 256
    IN  [AluInput(i, s) EXCEPT
            !.dest = IF i.op = "cmps" THEN at(StringSegment(i), "si")
                     ELSE Get(s, Accumulator(Wide(i)), Wide(i), "max"),
            !.src = at("es", "di")]

\* A comparison of strings is a cmp of two elements.
Arithmetic8086(i) == IF i.op \in {"cmps", "scas"} THEN "cmp" ELSE i.op
ManualInput(i, s) == IF i.op \in {"cmps", "scas"} THEN ScanInput(i, s) ELSE ManualAlu(i, s)

\* The flags that are wrong, those included that are because the operand is not
\* the manual's: the carry of a byte extended by its sign comes out inverted,
\* and a comparison of strings looks for its source in the data segment.
FlagsWrong(i, s) ==
    LET op == Arithmetic8086(i)
        in(j) == ManualInput(j, s)
    IN  CASE i.op = "cmps" ->
                SymDiff(FlagsDepart(op, in(Plain(i))),
                        Differing(ManualFlags(op, in(Plain(i))), ManualFlags(op, in(i))))
          [] i.op \in Adds \cup Subs /\ Stretched(i) -> FlagsDepart(op, in(i)) \cup {"c"}
          [] OTHER -> FlagsDepart(op, in(i))

\* An instruction leaves each flag that the manual defines as the manual
\* says, except exactly the ones that FlagsWrong lists (simulator.cpp 452-516,
\* 648-651, decoder.cpp 20-21).
FlagsDepartWhereKnown ==
    \A k \in DOMAIN done :
        LET d == done[k]
            op == Arithmetic8086(d.instr)
            in == ManualInput(d.instr, d.in)
        IN  /\ op \in Compared
            /\ ~(op = "sbb" /\ d.in.flags.c)
            /\ d.out.status = "ok"
            /\ "rep" \notin d.instr.flags
            => Differing(d.out.flags, ManualFlags(op, in)) \ Undefined(op, in)
                    = FlagsWrong(d.instr, d.in)

\* An instruction that does what the manual says counts the words that the
\* manual counts as transferred, and those at odd addresses, for the estimate
\* of its clocks; except exactly that operands of pop and of near jumps in
\* memory count twice, and far pointers and ports not at all (simulator.cpp
\* 219-248, 616, 806-811).
TransfersDepartWhereKnown ==
    \A k \in DOMAIN done :
        LET d == done[k]
            all == ManualTransfers(d.instr, d.in)
            twice == CountedTwice(d.instr, d.in)
            missing == NotCounted(d.instr, d.in)
        IN  d.out.status = "ok" /\ ~Departs(d.instr, d.in) =>
                /\ d.out.wide_transfer_cnt = Len(all) + Len(twice) - Len(missing)
                /\ d.out.wide_odd_transfer_cnt = Odd(all) + Odd(twice) - Odd(missing)

\* Whoever follows the traced writes has the memory of the machine, and the
\* traced old contents are those that were there, except exactly for words
\* moved by string instructions, bytes whose result is wider, and stacks that
\* wrap around the end of the memory (simulator.cpp 315-342, 448, 701-708).
TraceDepartsWhereKnown ==
    \A k \in DOMAIN done :
        LET d == done[k]
        IN  d.out.status = "ok" =>
                (Replayed(d.in.mem, d.out.trace) = d.out.mem) = ~TraceDeparts(d.instr, d.in)

\* After cmp or sub, the jumps for unsigned numbers and for equality compare
\* the operands; those for signed numbers do whenever the difference is in
\* range, as they do not look at the overflow flag; and those for unsigned
\* numbers are all wrong after a byte that was extended by its sign, unless it
\* is equal (simulator.cpp 1088-1125, decoder.cpp 20-21).
JumpsCompareOperands ==
    \A k \in DOMAIN done :
        LET i == ManualAlu(done[k].instr, done[k].in)
            f == done[k].out.flags
            a == Signed(i.dest, i.wide)
            b == Signed(i.src, i.wide)
            astray == Stretched(done[k].instr) /\ i.dest # i.src
        IN  done[k].instr.op \in {"cmp", "sub"} /\ done[k].out.status = "ok" =>
                /\ JumpTaken("je", f) = (i.dest = i.src)
                /\ JumpTaken("jne", f) = (i.dest # i.src)
                /\ (JumpTaken("jb", f) = (i.dest < i.src)) = ~astray
                /\ (JumpTaken("jbe", f) = (i.dest <= i.src)) = ~astray
                /\ (JumpTaken("jae", f) = (i.dest >= i.src)) = ~astray
                /\ (JumpTaken("ja", f) = (i.dest > i.src)) = ~astray
                /\ (JumpTaken("jl", f) = (a < b)) = ~OutOfRange(a - b, i.wide)
                /\ (JumpTaken("jle", f) = (a <= b)) = ~OutOfRange(a - b, i.wide)
                /\ (JumpTaken("jge", f) = (a >= b)) = ~OutOfRange(a - b, i.wide)
                /\ (JumpTaken("jg", f) = (a > b)) = ~OutOfRange(a - b, i.wide)

\* The number two decimal digits in a byte stand for.
Packed(b) == 10 * (b \div 16) + (b % 16)
IsPacked(b) == b \div 16 <= 9 /\ b % 16 <= 9

\* Two instructions compute what one cannot: add and adc a sum of 16 bits
\* with its carry, shl and rcl or shr and rcr a shift of 16 bits, add or sub
\* with an adjustment a sum or difference in decimal, mul and aam the digits
\* of a product, aad and div the quotient of two digits; xchg twice changes
\* nothing unless it moves its own operand, push and pop move a word.  The
\* packed decimal adjustments fail exactly where DecimalDeparts says, and 16
\* bits are added wrongly exactly with a byte that was extended by its sign.
ChainsCompute ==
    Len(done) = 2 =>
        LET in == done[1].in
            out == done[2].out
            i == ManualAlu(done[1].instr, in)
            mid == AluInput(done[2].instr, done[2].in)
            ax == in.regs["a"]
            al == Al(ax)
            r == out.regs["a"]
            ops == <<done[1].instr.op, done[2].instr.op>>
            stretched == Stretched(done[1].instr)
            \* What the adjustment would find after the carry of the manual.
            right == [mid EXCEPT !.flags.c = @ # stretched]
            sum == ax + Ax(mid.src, i.src)
            decimal == IF ops[1] = "add" THEN Packed(al) + Packed(i.src)
                       ELSE Packed(al) - Packed(i.src)
            later == Plus(in.regs["ip"], done[1].instr.size + done[2].instr.size)
        IN  CASE ops = <<"add", "adc">> ->
                    (r = sum % 65536 /\ out.flags.c = (sum > 65535))
                        = ~(stretched \/ Stretched(done[2].instr))
              [] ops = <<"shl", "rcl">> -> i.src = 1 => r = (2 * ax) % 65536
              [] ops = <<"shr", "rcr">> -> i.src = 1 => r = ax \div 2
              [] ops \in {<<"add", "aaa">>, <<"sub", "aas">>} ->
                    al <= 9 /\ i.src <= 9 =>
                        /\ r = Ax(Ah(ax) + (decimal \div 10), decimal % 10)
                        /\ out.flags.c = (decimal \notin 0..9)
              [] ops \in {<<"add", "daa">>, <<"sub", "das">>} ->
                    IsPacked(al) /\ IsPacked(i.src) =>
                        (/\ IsPacked(Al(r)) /\ Packed(Al(r)) = decimal % 100
                         /\ out.flags.c = (decimal \notin 0..99)) = ~DecimalDeparts(right)
              [] ops = <<"mul", "aam">> ->
                    al <= 9 /\ i.src <= 9 => 10 * Ah(r) + Al(r) = al * i.src
              [] ops = <<"aad", "div">> ->
                    al <= 9 /\ Ah(ax) <= 9 /\ out.status = "ok" =>
                        mid.src * Al(r) + Ah(r) = 10 * Ah(ax) + al
              [] ops = <<"xchg", "xchg">> ->
                    out.status = "ok" =>
                        \/ Same(out, [in EXCEPT !.regs["ip"] = later])
                        \/ Departs(done[1].instr, in)
              [] ops = <<"push", "pop">> ->
                    out.status = "ok" /\ ~Departs(done[1].instr, in)
                        /\ Over(done[2].instr) = "max" =>
                            /\ Get(out, Op0(done[2].instr), TRUE, "max") = OpVal(done[1].instr, in, 1)
                            /\ Op0(done[2].instr).type = "mem" => out.regs["sp"] = in.regs["sp"]
=============================================================================
