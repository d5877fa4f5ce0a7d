---------------------------- MODULE Machine8086 ----------------------------
(***************************************************************************)
(* The 8086 simulator: the loop that decodes and executes (main.cpp), the  *)
(* prefixes the decoder remembers (decoder.cpp), and what an instruction   *)
(* does to IP, CS, SP, CX, the flags and the words of the stack            *)
(* (simulator.cpp).  One step is one pass of the loop.  Program gives for  *)
(* each address the instructions that may be found there: one, or several  *)
(* to stand for many programs at once and for code that is overwritten.    *)
(*                                                                         *)
(* Data is abstract: a value read from memory outside the stack is any     *)
(* value of Loaded, and what arithmetic computes is any result that the    *)
(* operation may leave in CX and the flags.  The stack is the StackWords   *)
(* words below the top of the stack segment, where it starts (SP = 0); the *)
(* programs considered do not load SP or SS and do not store into the      *)
(* stack except by pushing.                                                *)
(***************************************************************************)
EXTENDS Integers

CONSTANTS
    CodeBytes,          \* the bytes of the program
    Program,            \* the instructions in it, by address, unprefixed
    StackWords,         \* bound: words of stack a program uses
    Loaded,             \* the words found in memory outside the stack
    EffectiveOffsets,   \* the offsets memory operands may have
    ComputedFlags,      \* what arithmetic may leave in the flags
    ComputedCounts,     \* what a data instruction may leave in CX
    ScanStops           \* what a repeated scan that stops may leave in CX

Words == 65536              \* 2^16: how many words there are
Word == 0..(Words - 1)
MemoryBytes == 16 * Words

PrefixOps == {"lock", "rep", "segment"}
Returns == {"ret", "retf"}
StringScans == {"cmps", "scas"}
StringMoves == {"movs", "lods", "stos"}
StringOps == StringScans \cup StringMoves
FlagOps == {"clc", "stc", "cmc", "cld", "std", "cli", "sti"}
Interrupts == {"int", "int3", "into"}
CondJumps == {"je", "jl", "jle", "jb", "jbe", "jp", "jo", "js",
              "jne", "jge", "jg", "jae", "ja", "jnp", "jno", "jns"}
CountJumps == {"loop", "loopz", "loopnz", "jcxz"}
\* Those with an encoding of their own and no operand.
Bare == FlagOps \cup {"pushf", "popf", "into", "int3", "iret",
                     "adjust", "nop", "hlt"}
Ops == PrefixOps \cup Returns \cup StringOps \cup Bare \cup CondJumps
       \cup CountJumps
       \cup {"call", "jmp", "int", "push", "pop", "div", "compute"}

\* operand is the kind of the only operand, imm its value or displacement.
Instruction ==
    [op : Ops, size : 1..6, operand : {"none", "reg", "imm", "mem", "cs_ip"},
     imm : Word, cs : Word, far : BOOLEAN, z : BOOLEAN]

ASSUME MachineAssumption ==
    /\ CodeBytes \in 1..MemoryBytes
    /\ Program \in [0..(CodeBytes - 1) -> SUBSET Instruction]
    /\ StackWords \in Nat /\ 2 * StackWords < Words
    /\ Loaded \subseteq Word /\ Loaded # {}
    /\ EffectiveOffsets \subseteq Word
    /\ ComputedFlags \subseteq Word
    /\ ComputedCounts \subseteq Word /\ ScanStops \subseteq Word

VARIABLES
    machine,        \* g_machine, with the stack in memory
    ctx,            \* decoder_context_t: the pending prefixes
    prefix_bytes,   \* g_tracing.ip_offset_from_prefixes
    traced,         \* the IP the trace printed last
    status,         \* of decode_and_process_instructions
    stop_on_ret     \* the option -stoponret

vars == <<machine, ctx, prefix_bytes, traced, status, stop_on_ret>>

---------------------------------------------------------------------------
(* Words, flags and the stack.                                             *)

Plus(word, n) == (word + n) % Words

CF == 1
PF == 4
AF == 16
ZF == 64
SF == 128
DF == 256
IF_ == 512
OF == 2048

Get(flags, flag) == (flags \div flag) % 2 = 1
Set(flags, flag, on) ==
    flags - (IF Get(flags, flag) THEN flag ELSE 0) + (IF on THEN flag ELSE 0)

\* The status flags as in f, the others as in flags.
WithStatus(flags, f) ==
    Set(Set(Set(Set(Set(Set(flags, OF, Get(f, OF)), SF, Get(f, SF)),
        ZF, Get(f, ZF)), AF, Get(f, AF)), PF, Get(f, PF)), CF, Get(f, CF))

\* The words of the stack, by their offset in its segment.
Cells == {Words - 2 * k : k \in 1..StackWords}

HasRoom(words) == \A k \in 1..words : Plus(machine.sp, -2 * k) \in Cells

push_to_stack(m, word) ==
    LET sp == Plus(m.sp, -2)
    IN  [m EXCEPT !.sp = sp, !.mem = [@ EXCEPT ![sp] = word]]

TopWord(m) == IF m.sp \in Cells THEN {m.mem[m.sp]} ELSE Loaded
Popped(m) == [m EXCEPT !.sp = Plus(@, 2)]

\* The machine m that goes on elsewhere.
At(m, cs, ip) == [m EXCEPT !.cs = cs, !.ip = ip]

---------------------------------------------------------------------------
(* The loop and the prefixes.                                              *)

Init ==
    /\ machine = [ip |-> 0, cs |-> 0, sp |-> 0, cx |-> 0, flags |-> 0,
                  mem |-> [c \in Cells |-> 0]]
    /\ ctx = {}
    /\ prefix_bytes = 0
    /\ traced = 0
    /\ status = "running"
    /\ stop_on_ret \in BOOLEAN

get_full_ip == 16 * machine.cs + machine.ip

Instructions == UNION {Program[a] : a \in 0..(CodeBytes - 1)}

\* validate_instruction, as far as the pending prefixes are concerned.
Valid(instr) ==
    /\ instr.op \in Bare => ctx = {}
    /\ "rep" \in ctx => instr.op \in PrefixOps \cup StringOps \cup Returns

Decodes(instr) ==
    /\ status = "running"
    /\ get_full_ip < CodeBytes
    /\ get_full_ip + 1 < MemoryBytes
    /\ instr \in Program[get_full_ip]
    /\ get_full_ip + instr.size <= CodeBytes
    /\ Valid(instr)

\* ip == bytes: the program is over.
Finish ==
    /\ status = "running"
    /\ get_full_ip = CodeBytes
    /\ status' = "ended"
    /\ UNCHANGED <<machine, ctx, prefix_bytes, traced, stop_on_ret>>

\* Unknown bytes, bytes outside the program, or an invalid combination.
DecodeFails ==
    /\ status = "running"
    /\ get_full_ip # CodeBytes
    /\ get_full_ip + 1 < MemoryBytes
    /\ status' = "failed"
    /\ UNCHANGED <<machine, ctx, prefix_bytes, traced, stop_on_ret>>

\* The decoder reads two to six bytes and asserts that they are inside the
\* memory; how many depends on the bytes.
DecodeAborts ==
    /\ status = "running"
    /\ get_full_ip # CodeBytes
    /\ get_full_ip + 5 >= MemoryBytes
    /\ status' = "aborted"
    /\ UNCHANGED <<machine, ctx, prefix_bytes, traced, stop_on_ret>>

Fetched(instr) == [machine EXCEPT !.ip = Plus(@, instr.size)]

\* FAULTY: prefixes are not forgotten after the instruction.
RememberedOn(instr) == ctx \cup (IF instr.op = "segment" THEN {"seg"}
                       ELSE IF instr.op \in {"lock", "rep"} THEN {instr.op} ELSE {})
\* update_decoder_ctx.  The flags of the prefixes before are part of those of
\* instr, so that a repz before a repnz is not forgotten.
Remembered(instr) ==
    CASE instr.op = "lock" -> (ctx \ {"rep", "z"}) \cup {"lock"}
      [] instr.op = "rep" -> (ctx \ {"lock", "z"}) \cup {"rep"}
                             \cup (IF instr.z \/ "z" \in ctx THEN {"z"} ELSE {})
      [] instr.op = "segment" -> ctx \cup {"seg"}
      [] OTHER -> {}

\* FAULTY: only the last prefix is counted.
LastPrefix(instr) ==
    /\ instr.op \in PrefixOps
    /\ machine' = Fetched(instr)
    /\ ctx' = Remembered(instr)
    /\ prefix_bytes' = instr.size
    /\ UNCHANGED <<traced, status, stop_on_ret>>
Prefix(instr) ==
    /\ instr.op \in PrefixOps
    /\ machine' = Fetched(instr)
    /\ ctx' = Remembered(instr)
    /\ prefix_bytes' = prefix_bytes + instr.size
    /\ UNCHANGED <<traced, status, stop_on_ret>>

\* PREV_IP: where the first prefix of the instruction was.
PrevIp == Plus(machine.ip, -prefix_bytes)

\* The instruction ends with the registers and memory of m.
Executed(instr, m) ==
    /\ machine' = m
    /\ ctx' = Remembered(instr)
    /\ prefix_bytes' = 0
    /\ traced' = m.ip
    /\ UNCHANGED <<status, stop_on_ret>>

\* The loop ends without the instruction being traced: its results are m.
Terminated(instr, m, prefixes) ==
    /\ machine' = m
    /\ ctx' = Remembered(instr)
    /\ prefix_bytes' = prefixes
    /\ status' = "ended"
    /\ UNCHANGED <<traced, stop_on_ret>>

\* An assertion fails in the middle of the instruction.
Aborted(instr) ==
    /\ status' = "aborted"
    /\ ctx' = Remembered(instr)
    /\ UNCHANGED <<machine, prefix_bytes, traced, stop_on_ret>>

\* read_byte_at asserts that every byte of a read is inside the segment.
ReadFails(instr, bytes) ==
    /\ instr.operand = "mem"
    /\ \E offset \in EffectiveOffsets : offset + bytes > Words
ReadWorks(instr, bytes) ==
    instr.operand = "mem" =>
        \E offset \in EffectiveOffsets : offset + bytes <= Words

---------------------------------------------------------------------------
(* Jumps.                                                                  *)

IsFar(instr) == instr.far \/ instr.operand = "cs_ip"

\* FAULTY: a far call saves IP first.
SavedSwapped(instr, m) ==
    IF instr.op # "call" THEN m
    ELSE IF IsFar(instr) THEN push_to_stack(push_to_stack(m, m.ip), m.cs)
    ELSE push_to_stack(m, m.ip)

\* What uncond_jump saves, and in which order.
Saved(instr, m) ==
    IF instr.op # "call" THEN m
    ELSE IF IsFar(instr) THEN push_to_stack(push_to_stack(m, m.cs), m.ip)
    ELSE push_to_stack(m, m.ip)

PointerBytes(instr) == IF IsFar(instr) THEN 4 ELSE 2

Jumped(instr, m) ==
    CASE instr.operand = "imm" -> {[m EXCEPT !.ip = Plus(@, instr.imm)]}
      [] instr.operand = "cs_ip" -> {At(m, instr.cs, instr.imm)}
      [] instr.operand = "mem" /\ instr.far ->
            {At(m, cs, ip) : cs \in Loaded, ip \in Loaded}
      [] OTHER -> {At(m, m.cs, ip) : ip \in Loaded}

UncondJump(instr) ==
    /\ instr.op \in {"call", "jmp"}
    /\ instr.operand # "reg"
    /\ ReadWorks(instr, PointerBytes(instr))
    /\ instr.op = "call" => HasRoom(IF IsFar(instr) THEN 2 ELSE 1)
    /\ \E m \in Jumped(instr, Saved(instr, Fetched(instr))) : Executed(instr, m)

\* "Wrong instr for intrasegment jump, fix validation"
JumpFails(instr) ==
    /\ instr.op \in {"call", "jmp"}
    /\ instr.operand = "reg" \/ ReadFails(instr, PointerBytes(instr))
    /\ Aborted(instr)

Taken(op, flags) ==
    LET z == Get(flags, ZF)
        s == Get(flags, SF)
        c == Get(flags, CF)
        p == Get(flags, PF)
        o == Get(flags, OF)
    IN  CASE op = "je"  -> z         [] op = "jne" -> ~z
          [] op = "jl"  -> s /\ ~z   [] op = "jge" -> ~s \/ z
          [] op = "jle" -> s \/ z    [] op = "jg"  -> ~s /\ ~z
          [] op = "jb"  -> c /\ ~z   [] op = "jae" -> ~c \/ z
          [] op = "jbe" -> c \/ z    [] op = "ja"  -> ~c /\ ~z
          [] op = "jp"  -> p         [] op = "jnp" -> ~p
          [] op = "jo"  -> o         [] op = "jno" -> ~o
          [] op = "js"  -> s         [] op = "jns" -> ~s

CondJump(instr) ==
    LET m == Fetched(instr)
    IN  /\ instr.op \in CondJumps
        /\ Executed(instr, IF Taken(instr.op, m.flags)
                           THEN [m EXCEPT !.ip = Plus(@, instr.imm)] ELSE m)

\* cx_loop_jump; jcxz calls it with nothing to subtract.
CountJump(instr) ==
    LET m == Fetched(instr)
        cx == Plus(m.cx, IF instr.op = "jcxz" THEN 0 ELSE -1)
        holds == CASE instr.op = "loopz" -> Get(m.flags, ZF)
                   [] instr.op = "loopnz" -> ~Get(m.flags, ZF)
                   [] OTHER -> TRUE
    IN  /\ instr.op \in CountJumps
        /\ Executed(instr, [m EXCEPT !.cx = cx,
                !.ip = IF cx # 0 /\ holds THEN Plus(@, instr.imm) ELSE @])

---------------------------------------------------------------------------
(* The stack, interrupts and returns.                                      *)

Return(instr) ==
    LET m == Fetched(instr)
        offset == IF instr.operand = "imm" THEN instr.imm ELSE 0
    IN  /\ instr.op \in Returns
        /\ ~stop_on_ret
        /\ IF instr.op = "ret"
           THEN \E ip \in TopWord(m) :
                   Executed(instr, At(Popped(m), m.cs, Plus(ip, offset)))
           ELSE \E ip \in TopWord(m), cs \in TopWord(Popped(m)) :
                   Executed(instr, At(Popped(Popped(m)), cs, Plus(ip, offset)))

ReturnStops(instr) ==
    /\ instr.op \in Returns
    /\ stop_on_ret
    /\ Terminated(instr, machine, prefix_bytes)

\* The vector is read from the segment of CS.
Interrupted(m) ==
    LET saved == push_to_stack(push_to_stack(push_to_stack(
                    m, m.flags), m.cs), m.ip)
    IN  {At(saved, cs, ip) : cs \in Loaded, ip \in Loaded}

Interrupt(instr) ==
    /\ instr.op \in Interrupts
    /\ instr.op = "into" => Get(machine.flags, OF)
    /\ HasRoom(3)
    /\ \E m \in Interrupted(Fetched(instr)) : Executed(instr, m)

NoOverflow(instr) ==
    /\ instr.op = "into"
    /\ ~Get(machine.flags, OF)
    /\ Executed(instr, Fetched(instr))

\* FAULTY: a return from an interrupt pops the flags, but keeps its own.
IretKeepsFlags(instr) ==
    LET m == Fetched(instr)
    IN  /\ instr.op = "iret"
        /\ \E ip \in TopWord(m), cs \in TopWord(Popped(m)) :
              Executed(instr, At(Popped(Popped(Popped(m))), cs, ip))
Iret(instr) ==
    LET m == Fetched(instr)
    IN  /\ instr.op = "iret"
        /\ \E ip \in TopWord(m), cs \in TopWord(Popped(m)),
              flags \in TopWord(Popped(Popped(m))) :
              Executed(instr, [At(Popped(Popped(Popped(m))), cs, ip)
                               EXCEPT !.flags = flags])

\* A quotient exists, or exception 0 is thrown and the interrupt is processed
\* after the instruction, as one of size 0.
Divide(instr) ==
    LET m == Fetched(instr)
    IN  /\ instr.op = "div"
        /\ ReadWorks(instr, 2)
        /\ Executed(instr, [m EXCEPT !.flags = WithStatus(@, 0)])

DivideThrows(instr) ==
    /\ instr.op = "div"
    /\ ReadWorks(instr, 2)
    /\ HasRoom(3)
    /\ \E m \in Interrupted(Fetched(instr)) : Executed(instr, m)

Push(instr) ==
    /\ instr.op = "push"
    /\ ReadWorks(instr, 2)
    /\ HasRoom(1)
    /\ \E word \in Loaded :
          Executed(instr, push_to_stack(Fetched(instr), word))

\* The destination is a word of memory, CX, or a register not modelled.
Pop(instr) ==
    LET m == Fetched(instr)
    IN  /\ instr.op = "pop"
        /\ ReadWorks(instr, 2)
        /\ \E word \in TopWord(m) :
              \/ Executed(instr, Popped(m))
              \/ /\ instr.operand = "reg"
                 /\ Executed(instr, [Popped(m) EXCEPT !.cx = word])

Pushf(instr) ==
    /\ instr.op = "pushf"
    /\ HasRoom(1)
    /\ Executed(instr, push_to_stack(Fetched(instr), machine.flags))

Popf(instr) ==
    LET m == Fetched(instr)
    IN  /\ instr.op = "popf"
        /\ \E flags \in TopWord(m) :
              Executed(instr, [Popped(m) EXCEPT !.flags = flags])

---------------------------------------------------------------------------
(* Data instructions, strings, flags, and the end.                         *)

\* The instruction leaves cx in CX and the status flags of f.
Computed(m, cx, f) == [m EXCEPT !.cx = cx, !.flags = WithStatus(@, f)]

Compute(instr) ==
    LET m == Fetched(instr)
    IN  /\ instr.op \in {"compute", "adjust"}
        /\ ReadWorks(instr, 2)
        /\ \E f \in ComputedFlags \cup {m.flags},
              cx \in ComputedCounts \cup {m.cx} :
              Executed(instr, Computed(m, cx, f))

OperandFails(instr) ==
    /\ instr.op \in {"compute", "div", "push", "pop"}
    /\ ReadFails(instr, 2)
    /\ Aborted(instr)

\* One element, or CX of them; a repeated scan goes on while ZF is what the
\* prefix requires, and ZF is that of the last comparison.
Repeated(instr, m) ==
    LET unequal == {f \in ComputedFlags : Get(f, ZF) # ("z" \in ctx)}
    IN  CASE instr.op \in StringMoves /\ "rep" \notin ctx -> {m}
          [] instr.op \in StringScans /\ "rep" \notin ctx ->
                {Computed(m, m.cx, f) : f \in ComputedFlags}
          [] "rep" \in ctx /\ m.cx = 0 -> {m}
          [] instr.op \in StringMoves /\ "rep" \in ctx /\ m.cx > 0 ->
                {[m EXCEPT !.cx = 0]}
          [] OTHER -> {Computed(m, 0, f) : f \in ComputedFlags}
                      \cup {Computed(m, cx, f) : f \in unequal,
                            cx \in {c \in ScanStops : c < m.cx}}

String(instr) ==
    /\ instr.op \in StringOps
    /\ \E m \in Repeated(instr, Fetched(instr)) : Executed(instr, m)

FlagOp(instr) ==
    LET m == Fetched(instr)
        op == instr.op
    IN  /\ op \in FlagOps
        /\ Executed(instr, [m EXCEPT !.flags =
              CASE op = "clc" -> Set(@, CF, FALSE)
                [] op = "stc" -> Set(@, CF, TRUE)
                [] op = "cmc" -> Set(@, CF, ~Get(@, CF))
                [] op = "cld" -> Set(@, DF, FALSE)
                [] op = "std" -> Set(@, DF, TRUE)
                [] op = "cli" -> Set(@, IF_, FALSE)
                [] op = "sti" -> Set(@, IF_, TRUE)])

Nop(instr) ==
    /\ instr.op = "nop"
    /\ Executed(instr, Fetched(instr))

Halt(instr) ==
    /\ instr.op = "hlt"
    /\ Terminated(instr, Fetched(instr), 0)

Execute(instr) ==
    \/ Prefix(instr)     \/ UncondJump(instr)   \/ JumpFails(instr)
    \/ CondJump(instr)   \/ CountJump(instr)
    \/ Return(instr)     \/ ReturnStops(instr)
    \/ Interrupt(instr)  \/ NoOverflow(instr)   \/ Iret(instr)
    \/ Divide(instr)     \/ DivideThrows(instr)
    \/ Push(instr)       \/ Pop(instr)
    \/ Pushf(instr)      \/ Popf(instr)
    \/ Compute(instr)    \/ OperandFails(instr)
    \/ String(instr)     \/ FlagOp(instr)
    \/ Nop(instr)        \/ Halt(instr)

Step(instr) == Decodes(instr) /\ Execute(instr)

Next ==
    \/ \E instr \in Instructions : Step(instr)
    \/ Finish
    \/ DecodeFails
    \/ DecodeAborts

Spec == Init /\ [][Next]_vars

---------------------------------------------------------------------------
(* Properties.                                                             *)

IsMachine(m) ==
    /\ m \in [ip : Word, cs : Word, sp : Word, cx : Word, flags : Word,
              mem : [Cells -> Word]]
    /\ m.sp % 2 = 0

\* The machine keeps 16-bit registers and stack words, and SP on the words
\* of the stack segment.
TypeOK ==
    /\ IsMachine(machine)
    /\ ctx \subseteq {"lock", "rep", "z", "seg"}
    /\ prefix_bytes \in Nat
    /\ traced \in Word
    /\ status \in {"running", "ended", "failed", "aborted"}
    /\ stop_on_ret \in BOOLEAN

\* decoder.cpp and simulator.cpp each remember on their own whether prefixes
\* are pending, one for the flags of the next instruction, one for its
\* address: they never disagree, and of two contradicting prefixes one counts.
PrefixesAgree ==
    status = "running" =>
        /\ ctx = {} <=> prefix_bytes = 0
        /\ ~ {"lock", "rep"} \subseteq ctx
        /\ "z" \in ctx => "rep" \in ctx

\* The trace prints for each instruction how it changed IP, prefixes included
\* (PREV_IP, simulator.cpp 768-771): the lines join up without gap or overlap,
\* through prefixes, jumps, interrupts and exceptions.
TraceIsGapless ==
    status = "running" => traced = PrevIp

\* validation.cpp promises the simulator instructions it can execute, and
\* memory.cpp reads inside the segment: no assertion fails.
AssertsHold == status # "aborted"
=============================================================================
