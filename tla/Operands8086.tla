---------------------------- MODULE Operands8086 ----------------------------
(***************************************************************************)
(* The execution of one instruction of the 8086 simulator with its         *)
(* operands: registers, memory in segments, effective addresses, the words *)
(* of the stack, string instructions, jumps through memory (simulator.cpp  *)
(* 219-450, 603-818, 820-866, 1038-1080, 1172-1182; memory.cpp).  With     *)
(* each access come what the estimate of clocks counts, and what the trace *)
(* prints of a write; the option to trace data is on.                      *)
(*                                                                         *)
(* The operands are the decoder's (Decoder8086).  The memory starts as     *)
(* Contents has it; mem holds the bytes written.                           *)
(***************************************************************************)
EXTENDS Alu8086, TLC

CONSTANTS
    Contents(_),        \* the byte at an address, before any is written
    Instructions,       \* those tried first
    Starts(_),          \* the machines that an instruction is tried on
    Follows(_, _)       \* those tried next, after one and what it left

VARIABLES
    instr,  \* the instruction, decoded or just executed
    m,      \* the machine
    ready,  \* instr is decoded, not yet executed
    done    \* the instructions executed, with the machine before and after

vars == <<instr, m, ready, done>>

Moves == {"mov", "xchg", "xlat", "lea", "lds", "les", "lahf", "sahf", "in", "out"}
Strings8086 == {"movs", "cmps", "scas", "lods", "stos"}

---------------------------------------------------------------------------
(* Memory.                                                                 *)

Words == 65536          \* 2^16: c_seg_size, and how many words there are
MemorySize == 1048576   \* c_mem_size

Plus(word, n) == (word + n) % Words
bytes(wide) == IF wide THEN 2 ELSE 1

get_full_address(base, offset) == (base + offset) % MemorySize

Byte(mem, address) == IF address \in DOMAIN mem THEN mem[address] ELSE Contents(address)
read_byte_at(mem, base, offset) == Byte(mem, get_full_address(base, offset))
read_word_at(mem, base, offset) ==
    read_byte_at(mem, base, offset) + 256 * read_byte_at(mem, base, offset + 1)
read_val_at(mem, base, offset, wide) ==
    IF wide THEN read_word_at(mem, base, offset) ELSE read_byte_at(mem, base, offset)

write_val_to(mem, base, offset, val, wide) ==
    LET low == get_full_address(base, offset) :> (val % 256)
        high == get_full_address(base, offset + 1) :> ((val \div 256) % 256)
    IN  IF wide THEN low @@ high @@ mem ELSE low @@ mem

get_segment_access(s, seg) == 16 * s.regs[seg]

\* An access of the simulated machine.  The second byte of a word has to be
\* inside the segment: read_byte_at asserts it, and every write is after a read.
Recorded(s, base, offset, wide) ==
    CASE wide /\ offset + 1 >= Words -> [s EXCEPT !.status = "died"]
      [] wide /\ offset + 1 < Words ->
            [s EXCEPT !.wide_transfer_cnt = @ + 1,
                      !.wide_odd_transfer_cnt = @ + ((base + offset) % 2)]
      [] OTHER -> s

\* What trace_mem_write prints: an address, and what was and will be there.
Written(address, old, new, wide) ==
    [address |-> address, old |-> old, new |-> new % Words, wide |-> wide]

Write(s, base, offset, val, wide, traced) ==
    [Recorded(s, base, offset, wide) EXCEPT
        !.mem = write_val_to(@, base, offset, val, wide),
        !.trace = Append(@, Written(traced, read_val_at(s.mem, base, offset, wide),
                                    val, wide))]

---------------------------------------------------------------------------
(* Operands.                                                               *)

\* The registers that the base of an address adds up.
EaRegisters(base) ==
    CASE base = "bx_si" -> {"b", "si"}  [] base = "bx_di" -> {"b", "di"}
      [] base = "bp_si" -> {"bp", "si"} [] base = "bp_di" -> {"bp", "di"}
      [] base = "si" -> {"si"}          [] base = "di" -> {"di"}
      [] base = "bp" -> {"bp"}          [] base = "bx" -> {"b"}
      [] base = "direct" -> {}

calculate_ea(s, ea) ==
    LET value(r) == IF r \in EaRegisters(ea.base) THEN s.regs[r] ELSE 0
    IN  (value("b") + value("bp") + value("si") + value("di") + ea.disp) % Words

\* FAULTY: the stack segment for addresses with BP alone.
SegmentOfBp(ea, over) ==
    IF over # "max" THEN over ELSE IF ea.base = "bp" THEN "ss" ELSE "ds"
\* get_segment_access_for_ea.
SegmentOf(ea, over) ==
    IF over # "max" THEN over
    ELSE IF "bp" \in EaRegisters(ea.base) THEN "ss" ELSE "ds"
BaseOf(s, ea, over) == get_segment_access(s, SegmentOf(ea, over))

read_reg(s, r) ==
    IF r.size = 2 THEN s.regs[r.reg]
    ELSE IF r.offset = 1 THEN Ah(s.regs[r.reg]) ELSE Al(s.regs[r.reg])

write_reg(s, r, val) ==
    [s EXCEPT !.regs[r.reg] =
        IF r.size = 2 THEN val % Words
        ELSE IF r.offset = 1 THEN Ax(val, Al(@)) ELSE Ax(Ah(@), val)]

read_mem(s, ea, wide, over) ==
    read_val_at(s.mem, BaseOf(s, ea, over), calculate_ea(s, ea), wide)
Accessed(s, ea, wide, over) ==
    Recorded(s, BaseOf(s, ea, over), calculate_ea(s, ea), wide)
\* FAULTY: the offset is traced, without its segment.
write_mem_offset(s, ea, val, wide, over) ==
    LET offset == calculate_ea(s, ea)
    IN  Write(s, BaseOf(s, ea, over), offset, val, wide, offset)
write_mem(s, ea, val, wide, over) ==
    LET base == BaseOf(s, ea, over)
        offset == calculate_ea(s, ea)
    IN  Write(s, base, offset, val, wide, get_full_address(base, offset))

\* The value of an operand, and the machine that has read it.
read_operand(s, o, wide, over) ==
    CASE o.type = "reg" -> read_reg(s, o)
      [] o.type = "imm" -> o.imm
      [] o.type = "mem" -> read_mem(s, o, wide, over)
      [] o.type = "none" -> 0
AfterRead(s, o, wide, over) ==
    IF o.type = "mem" THEN Accessed(s, o, wide, over) ELSE s

write_operand(s, o, val, wide, over) ==
    IF o.type = "reg" THEN write_reg(s, o, val) ELSE write_mem(s, o, val, wide, over)

push_to_stack(s, word) ==
    LET sp == Plus(s.regs["sp"], -2)
        base == get_segment_access(s, "ss")
    IN  Write([s EXCEPT !.regs["sp"] = sp], base, sp, word, TRUE, base + sp)

TopWord(s) == read_val_at(s.mem, get_segment_access(s, "ss"), s.regs["sp"], TRUE)
Popped(s) ==
    [Recorded(s, get_segment_access(s, "ss"), s.regs["sp"], TRUE) EXCEPT
        !.regs["sp"] = Plus(@, 2)]

---------------------------------------------------------------------------
(* What is common to all instructions: IP goes on, and both operands are   *)
(* read, but for the first of mov and that of lea.                         *)

NoneOperand == [type |-> "none"]
Wide(i) == "w" \in i.flags
Over(i) == i.segment_override
Op0(i) == i.operands[1]
Op1(i) == i.operands[2]

\* FAULTY: the first operand of mov is read too.
ReadOfMov(i, k) ==
    IF i.op = <<"none", "lea">>[k] THEN NoneOperand ELSE i.operands[k]
ReadOf(i, k) ==
    IF i.op = <<"mov", "lea">>[k] THEN NoneOperand ELSE i.operands[k]

Before(i, s) ==
    [s EXCEPT !.regs["ip"] = Plus(@, i.size), !.trace = <<>>,
              !.wide_transfer_cnt = 0, !.wide_odd_transfer_cnt = 0]
OpVal(i, s, k) == read_operand(s, ReadOf(i, k), Wide(i), Over(i))
Fetched(i, s) ==
    AfterRead(AfterRead(Before(i, s), ReadOf(i, 1), Wide(i), Over(i)),
              ReadOf(i, 2), Wide(i), Over(i))

\* After a failed assertion nothing is left to look at.
Survives(before, after) ==
    IF after.status = "died" THEN [before EXCEPT !.status = "died"] ELSE after

---------------------------------------------------------------------------
(* The instructions, each as what it makes of the machine.                 *)

SahfFlags == {"s", "z", "a", "p", "c"}
FlagBits == [c |-> 1, p |-> 4, a |-> 16, z |-> 64, s |-> 128, d |-> 256,
             i |-> 512, t |-> 1024, o |-> 2048]
Bits(f, names) ==
    LET bit(n) == IF n \in names /\ f[n] THEN FlagBits[n] ELSE 0
    IN  bit("c") + bit("p") + bit("a") + bit("z") + bit("s") + bit("d")
        + bit("i") + bit("t") + bit("o")

AL == [type |-> "reg", reg |-> "a", offset |-> 0, size |-> 1]
AH == [AL EXCEPT !.offset = 1]
Accumulator(wide) == IF wide THEN [AL EXCEPT !.size = 2] ELSE AL

Mov(i, s) == write_operand(Fetched(i, s), Op0(i), OpVal(i, s, 2), Wide(i), Over(i))

\* The address of a second operand in memory is computed after the first one,
\* a register, is written.
Xchg(i, s) ==
    write_operand(
        write_operand(Fetched(i, s), Op0(i), OpVal(i, s, 2), Wide(i), Over(i)),
        Op1(i), OpVal(i, s, 1), Wide(i), Over(i))

Xlat(i, s) ==
    LET ea == [type |-> "mem", base |-> "bx", disp |-> read_reg(s, AL)]
    IN  write_reg(Accessed(Fetched(i, s), ea, FALSE, "max"), AL,
                  read_mem(s, ea, FALSE, "max"))

Lea(i, s) == write_operand(Fetched(i, s), Op0(i), calculate_ea(s, Op1(i)), TRUE, "max")

LoadPointer(i, s) ==
    LET base == [Op1(i) EXCEPT !.disp = Plus(@, 2)]
    IN  [write_operand(Accessed(Fetched(i, s), base, Wide(i), Over(i)),
                       Op0(i), OpVal(i, s, 2), Wide(i), "max") EXCEPT
            !.regs[IF i.op = "lds" THEN "ds" ELSE "es"] =
                read_mem(s, base, Wide(i), Over(i))]

Lahf(i, s) == write_reg(Fetched(i, s), AH, Bits(s.flags, SahfFlags))
Sahf(i, s) ==
    [Fetched(i, s) EXCEPT !.flags = [n \in DOMAIN @ |->
        IF n \in SahfFlags THEN (read_reg(s, AH) & FlagBits[n]) # 0 ELSE @[n]]]

\* No port is there to read.
In(i, s) == write_operand(Fetched(i, s), Op0(i), 0, Wide(i), "max")

Move(i, s) ==
    CASE i.op = "mov" -> Mov(i, s)          [] i.op = "xchg" -> Xchg(i, s)
      [] i.op = "xlat" -> Xlat(i, s)        [] i.op = "lea" -> Lea(i, s)
      [] i.op \in {"lds", "les"} -> LoadPointer(i, s)
      [] i.op = "lahf" -> Lahf(i, s)        [] i.op = "sahf" -> Sahf(i, s)
      [] i.op = "in" -> In(i, s)            [] i.op = "out" -> Fetched(i, s)

Push(i, s) == push_to_stack(Fetched(i, s), OpVal(i, s, 1))
\* The segment override is not passed on.
Pop(i, s) == write_operand(Popped(Fetched(i, s)), Op0(i), TopWord(s), Wide(i), "max")

\* The operands that Alu8086 computes with.
AluInput(i, s) ==
    [dest |-> OpVal(i, s, 1), ax |-> s.regs["a"], dx |-> s.regs["d"],
     src |-> OpVal(i, s, IF i.op \in Multiplications \cup Divisions THEN 1 ELSE 2),
     wide |-> Wide(i), flags |-> s.flags, status |-> "ok"]

OneResult == (Adds \cup Subs \cup Negations \cup Logic \cup Shifts \cup Rotates)
             \ {"cmp", "test"}

\* The result goes to the first operand, or to AX and DX.
WithResult(i, s, r) ==
    LET set == [s EXCEPT !.flags = r.flags, !.regs["a"] = r.ax,
                         !.regs["d"] = r.dx,
                         !.status = IF @ = "died" THEN @ ELSE r.status]
    IN  IF i.op \in OneResult
        THEN write_operand([s EXCEPT !.flags = r.flags], Op0(i), r.dest,
                           Wide(i), Over(i))
        ELSE set

---------------------------------------------------------------------------
(* Jumps through memory, and interrupts.                                   *)

JumpTo(s, cs, ip) == [s EXCEPT !.regs["cs"] = cs, !.regs["ip"] = ip]

\* Jumping to the far pointer at ea: what is saved may be read again.  The
\* four bytes are read without being recorded.
FarJump(s, ea, saves, over) ==
    LET saved == IF saves THEN push_to_stack(push_to_stack(s, s.regs["cs"]),
                                             s.regs["ip"])
                 ELSE s
        base == BaseOf(saved, ea, over)
        offset == calculate_ea(saved, ea)
    IN  IF offset + 3 >= Words THEN [saved EXCEPT !.status = "died"]
        ELSE JumpTo(saved, read_word_at(saved.mem, base, offset + 2),
                    read_word_at(saved.mem, base, offset))

NearJump(s, ea, saves) ==
    LET saved == IF saves THEN push_to_stack(s, s.regs["ip"]) ELSE s
    IN  [Accessed(saved, ea, TRUE, "max") EXCEPT
            !.regs["ip"] = read_mem(saved, ea, TRUE, "max")]

\* The override is not passed on, as the operand is read once before.
Jump(i, s) ==
    IF "far" \in i.flags THEN FarJump(Fetched(i, s), Op0(i), i.op = "call", "max")
    ELSE NearJump(Fetched(i, s), Op0(i), i.op = "call")

Vector(n) == [type |-> "mem", base |-> "direct", disp |-> 4 * n]

\* Vectors are looked up in the code segment.
Interrupt(s, n) ==
    FarJump(push_to_stack(s, Bits(s.flags, DOMAIN s.flags)), Vector(n), TRUE, "cs")

IntN(i, s) == Interrupt(Fetched(i, s), OpVal(i, s, 1))

\* The result, or after a division the interrupt of the exception, which is
\* processed as an instruction of its own: its clocks are not the division's.
Arithmetic(i, s) ==
    LET r == WithResult(i, Fetched(i, s), Computed(i.op, AluInput(i, s)))
    IN  IF r.status = "thrown"
        THEN [Interrupt(r, 0) EXCEPT
                !.wide_transfer_cnt = r.wide_transfer_cnt,
                !.wide_odd_transfer_cnt = r.wide_odd_transfer_cnt]
        ELSE r

---------------------------------------------------------------------------
(* String instructions.                                                    *)

Stepped(s, names, wide) ==
    [s EXCEPT !.regs = [r \in DOMAIN @ |->
        IF r \in names THEN Plus(@[r], bytes(wide)) ELSE @[r]]]

\* Where a string's write is traced: one byte before DI, which has moved.
TracedAt(s, dst, wide) == dst + Plus(s.regs["di"], bytes(wide)) - 1

\* One element.  The destination is looked at first, whatever the instruction.
execute_op(op, s, wide) ==
    LET src == get_segment_access(s, "ds")
        dst == get_segment_access(s, "es")
        si == s.regs["si"]
        di == s.regs["di"]
        src_val == read_val_at(s.mem, src, si, wide)
        dst_val == read_val_at(s.mem, dst, di, wide)
        accum_val == read_reg(s, Accumulator(wide))
        fromSource == Recorded(s, src, si, wide)
        compared(t, val) ==
            [Recorded(t, dst, di, wide) EXCEPT
                !.flags = update_arifm_flags(@, val, -dst_val, wide)]
        written(t, val) == Write(t, dst, di, val, wide, TracedAt(s, dst, wide))
        result == CASE op = "movs" ->
                            Stepped(written(fromSource, src_val), {"si", "di"}, wide)
                    [] op = "cmps" ->
                            Stepped(compared(fromSource, src_val), {"si", "di"}, wide)
                    [] op = "scas" -> Stepped(compared(s, accum_val), {"di"}, wide)
                    [] op = "lods" ->
                            Stepped(write_reg(fromSource, Accumulator(wide), src_val),
                                    {"si"}, wide)
                    [] op = "stos" -> Stepped(written(s, accum_val), {"di"}, wide)
    IN  IF wide /\ di + 1 >= Words THEN [s EXCEPT !.status = "died"] ELSE result

Counted(s) == [s EXCEPT !.regs["c"] = Plus(@, -1)]
GoesOn(i, s) ==
    /\ s.status # "died"
    /\ i.op \in {"scas", "cmps"} => ("z" \in i.flags) = s.flags.z

\* CX times, while the comparisons come out as the prefix has it.
string_instruction(i, s) ==
    LET after[n \in 0..s.regs["c"]] ==
            IF n = 0 THEN [machine |-> Fetched(i, s), going |-> TRUE]
            ELSE LET before == after[n - 1]
                     one == execute_op(i.op, before.machine, Wide(i))
                 IN  IF before.going
                     THEN [machine |-> Counted(one), going |-> GoesOn(i, one)]
                     ELSE before
    IN  IF "rep" \in i.flags THEN after[s.regs["c"]].machine
        ELSE execute_op(i.op, Fetched(i, s), Wide(i))

---------------------------------------------------------------------------
Init ==
    /\ instr \in Instructions
    /\ m \in Starts(instr)
    /\ ready = TRUE
    /\ done = <<>>

\* An instruction of ops, which leaves out.
Execute(ops, out) ==
    /\ ready
    /\ instr.op \in ops
    /\ m' = Survives(m, out)
    /\ done' = Append(done, [instr |-> instr, in |-> m, out |-> m'])
    /\ ready' = FALSE
    /\ UNCHANGED instr

\* The next instruction is decoded.
Continue ==
    /\ ~ready
    /\ Len(done) = 1
    /\ m.status = "ok"
    /\ instr' \in Follows(instr, m)
    /\ ready' = TRUE
    /\ UNCHANGED <<m, done>>

Next ==
    \/ Execute(Moves, Move(instr, m))
    \/ Execute({"push"}, Push(instr, m))
    \/ Execute({"pop"}, Pop(instr, m))
    \/ Execute(Ops, Arithmetic(instr, m))
    \/ Execute({"call", "jmp"}, Jump(instr, m))
    \/ Execute({"int"}, IntN(instr, m))
    \/ Execute(Strings8086, string_instruction(instr, m))
    \/ Continue

Spec == Init /\ [][Next]_vars
=============================================================================
