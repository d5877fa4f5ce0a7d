--------------------------- MODULE MCOperands8086 ---------------------------
EXTENDS ManualOperands8086

\* The bytes in memory: each value a few times in a row.
MCContents(address) == ((address \div 3) * 37 + 11) % 256

---------------------------------------------------------------------------
(* Arithmetic in registers: the operands at the limits of their size, and  *)
(* decimal digits, packed or not.                                          *)

MCBytes == {0, 1, 5, 8, 9, 15, 16, 69, 88, 127, 128, 129, 153, 255}
MCWords == {0, 1, 15, 255, 256, 32767, 32768, 32769, 65535}
\* Bound: the counts that CL holds, around the sizes and above 32.
MCCounts == {0, 1, 2, 7, 8, 9, 16, 17, 32, 33, 40}
\* Bound: what AH and DX hold before.
MCHigh(o) == IF o \in {"add", "sub", "shl", "shr", "aad"} \cup Divisions
             THEN {0, 7, 9, 255} ELSE {0}
MCDx(o) == IF o \in Divisions THEN {0, 1, 32767, 32768, 65535} ELSE {0}

Reg(r) == [type |-> "reg", reg |-> r, offset |-> 0, size |-> 2]
BL == [AL EXCEPT !.reg = "b"]
CL == [AL EXCEPT !.reg = "c"]
Imm(n) == [type |-> "imm", imm |-> n]
W(wide) == IF wide THEN {"w"} ELSE {}

Instr(o, operands, flags) ==
    [op |-> o, size |-> 2, operands |-> operands, flags |-> flags,
     segment_override |-> "max"]
Binary == (Adds \cup Subs \cup Logic) \ {"inc", "dec"}

\* Opcode 82h: bytes from 128 to 255 as the decoder extends them, decimal digits
\* among them.
MCStretched == {65408, 65409, 65416, 65433, 65535}
StretchedImm(o, dest, ns) == {Instr(o, <<dest, Imm(n)>>, {"s"}) : n \in ns}

AluInstructions ==
    LET unary(o, wide) == Instr(o, <<Accumulator(wide), NoneOperand>>, W(wide))
        by(o, wide) == Instr(o, <<IF wide THEN Reg("b") ELSE BL, NoneOperand>>, W(wide))
    IN  {Instr(o, <<Accumulator(wide), Imm(n)>>, W(wide)) :
            o \in Binary, wide \in {FALSE}, n \in MCBytes}
        \cup {Instr(o, <<Accumulator(wide), Imm(n)>>, W(wide)) :
                o \in Binary, wide \in {TRUE}, n \in MCWords}
        \cup UNION {StretchedImm(o, AL, MCStretched) : o \in Binary \ {"test"}}
        \cup {unary(o, wide) : o \in {"inc", "dec"} \cup Negations, wide \in BOOLEAN}
        \cup {Instr(o, <<Accumulator(wide), CL>>, W(wide)) :
                o \in Shifts \cup Rotates, wide \in BOOLEAN}
        \cup {Instr("shr", <<AH, CL>>, {})}
        \cup {by(o, wide) : o \in Multiplications \cup Divisions, wide \in BOOLEAN}
        \cup {Instr(o, <<NoneOperand, NoneOperand>>, {}) : o \in Adjusts}

MCFlags == {[c |-> c, a |-> a, o |-> u, s |-> u, z |-> u, p |-> u,
             d |-> FALSE, i |-> FALSE, t |-> FALSE] : c, a, u \in BOOLEAN}

\* Bound: TLC counts in 32 bits with a sign.
MCFitsTLC(o, ax, dx, src) ==
    /\ o = "mul" /\ src # 0 => ax <= 2147483647 \div src
    /\ o = "div" => dx <= 32767

ZeroRegs == [r \in {"a", "b", "c", "d", "sp", "bp", "si", "di",
                    "es", "cs", "ss", "ds", "ip"} |-> 0]
Machine(regs, f) ==
    [regs |-> regs, flags |-> f, mem |-> <<>>, status |-> "ok", trace |-> <<>>,
     wide_transfer_cnt |-> 0, wide_odd_transfer_cnt |-> 0]

AluMachines(i) ==
    LET o == i.op
        bs == IF o \in Multiplications \cup Divisions
              THEN (IF Wide(i) THEN MCWords ELSE MCBytes)
              ELSE IF o = "aad" THEN {0, 1, 7, 9} ELSE {0}
        cs == IF o \in Shifts \cup Rotates THEN MCCounts ELSE {0}
        as == IF Wide(i) \/ o \in {"cbw", "cwd"} THEN MCWords
              ELSE {Ax(h, x) : h \in MCHigh(o), x \in MCBytes}
        regs == {[ZeroRegs EXCEPT !["a"] = a, !["b"] = b, !["c"] = c, !["d"] = d] :
                    a \in as, b \in bs, c \in cs, d \in MCDx(o)}
    IN  {Machine(r, f) : r \in {q \in regs : Wide(i) => MCFitsTLC(o, q["a"], q["d"], q["b"])},
                         f \in MCFlags}

---------------------------------------------------------------------------
(* Operands in memory, at both ends of a segment and of the memory.        *)

Mem(base, disp) == [type |-> "mem", base |-> base, disp |-> disp]
Places == {Mem("si", 0), Mem("bp", 65535), Mem("bx_di", 3), Mem("direct", 65535)}
Few == {Mem("si", 0), Mem("bp_di", 2)}

Overridden(instrs) ==
    instrs \cup {[i EXCEPT !.segment_override = "es"] : i \in instrs}

MoveInstructions ==
    LET to(wide) == IF wide THEN {Reg("a"), Reg("si"), Reg("es")} ELSE {AL, AH}
        bytesOrWords(o, xs(_), ys(_)) ==
            UNION {{Instr(o, <<x, y>>, W(wide)) : x \in xs(wide), y \in ys(wide)} :
                    wide \in BOOLEAN}
    IN  Overridden(
            bytesOrWords("mov", to, LAMBDA w : Places)
            \cup bytesOrWords("mov", LAMBDA w : Places, to)
            \cup bytesOrWords("mov", LAMBDA w : Few, LAMBDA w : {Imm(IF w THEN 4660 ELSE 18)})
            \cup bytesOrWords("xchg", LAMBDA w : to(w) \ {Reg("es")}, LAMBDA w : Places)
            \cup {Instr(o, <<Reg(r), p>>, {"w"}) :
                    o \in {"lea", "lds", "les"}, r \in {"a", "si"}, p \in Places})
        \cup {Instr("xlat", <<NoneOperand, NoneOperand>>, {}),
              Instr("lahf", <<NoneOperand, NoneOperand>>, {}),
              Instr("sahf", <<NoneOperand, NoneOperand>>, {}),
              Instr("xchg", <<AL, AH>>, {}), Instr("xchg", <<Reg("a"), Reg("b")>>, {"w"})}
        \cup {Instr("in", <<Accumulator(w), Reg("d")>>, W(w)) : w \in BOOLEAN}
        \cup {Instr("out", <<Reg("d"), Accumulator(w)>>, W(w)) : w \in BOOLEAN}

AluInMemory ==
    LET all(w) == IF w THEN 65535 ELSE 255
    IN  UNION {{Instr(o, <<p, Imm(all(w))>>, W(w)) : o \in Binary, p \in Few}
               \cup {Instr(o, <<Accumulator(w), p>>, W(w)) : o \in Binary, p \in Few}
               \cup {Instr(o, <<p, NoneOperand>>, W(w)) :
                        o \in {"inc", "dec"} \cup Negations \cup Multiplications
                              \cup Divisions, p \in Few}
               \cup {Instr(o, <<p, CL>>, W(w)) : o \in Shifts \cup Rotates, p \in Few} :
               w \in BOOLEAN}
        \cup UNION {StretchedImm(o, p, {65408, 65535}) : o \in Binary \ {"test"}, p \in Few}

Pops == Overridden({Instr("pop", <<p, NoneOperand>>, {"w"}) :
                        p \in {Reg("a"), Reg("ds"), Reg("sp"), Mem("si", 0), Mem("direct", 65534)}})
StackInstructions ==
    Pops
    \cup Overridden({Instr("push", <<p, NoneOperand>>, {"w"}) :
                        p \in {Reg("a"), Reg("ds"), Reg("sp")} \cup Places})
    \cup Overridden({Instr(o, <<p, NoneOperand>>, far \cup {"w"}) :
                        o \in {"call", "jmp"}, far \in {{}, {"far"}},
                        p \in Places \cup {Mem("direct", 65532)}})
    \cup {Instr("int", <<Imm(n), NoneOperand>>, {}) : n \in {0, 2, 33, 255}}

StringInstructions ==
    Overridden({Instr(o, <<NoneOperand, NoneOperand>>, flags) :
                    o \in Strings8086, flags \in SUBSET {"w", "rep", "z"}})

Clear == [n \in DOMAIN FlagBits |-> FALSE]
DataRegs ==
    [a |-> 4660, b |-> 8192, c |-> 2, d |-> 513, sp |-> 256, bp |-> 4096, si |-> 4,
     di |-> 9, es |-> 768, cs |-> 0, ss |-> 1024, ds |-> 512, ip |-> 100]

DataMachines ==
    {Machine([DataRegs EXCEPT !["si"] = x, !["di"] = y, !["ds"] = ds], [Clear EXCEPT !.c = c]) :
        x \in {4, 65534, 65535}, y \in {9, 57341, 57342}, ds \in {512, 65535}, c \in BOOLEAN}
StackMachines(i) ==
    {Machine([DataRegs EXCEPT !["sp"] = sp, !["ss"] = ss, !["cs"] = cs, !["si"] = x], f) :
        sp \in {0, 1, 3, 5, 256}, ss \in {1024, 65535}, cs \in {0, 768}, x \in {4, 65534},
        f \in IF i.op = "int"
              THEN {Clear} \cup {[Clear EXCEPT ![n] = TRUE] : n \in {"c", "d", "t", "i"}}
                   \cup {[Clear EXCEPT !.d = TRUE, !.t = TRUE]}
              ELSE {Clear}}
\* AL and AX hold what is at DI, or not.
StringMachines ==
    LET found(es, di) == 257 * MCContents(16 * es + di)
    IN  UNION {{Machine([DataRegs EXCEPT !["si"] = x, !["di"] = y, !["c"] = c,
                                         !["es"] = es, !["a"] = a],
                        [Clear EXCEPT !.d = d, !.z = d]) :
                    a \in {4660, found(es, y)}} :
                x \in {6, 65533, 65534}, y \in {6, 9, 65532, 65533}, c \in {0, 1, 3},
                es \in {512, 65535}, d \in BOOLEAN}

---------------------------------------------------------------------------
MCInstructions ==
    AluInstructions \cup MoveInstructions \cup AluInMemory
    \cup StackInstructions \cup StringInstructions

MCStarts(i) ==
    CASE i.op \in Strings8086 -> StringMachines
      [] i.op \in {"push", "pop", "call", "jmp", "int"} -> StackMachines(i)
      [] i.op \in Moves \/ "mem" \in {Op0(i).type, Op1(i).type} -> DataMachines
      [] OTHER -> AluMachines(i)

MCFollows(i, s) ==
    LET adjusts(names) == {Instr(o, <<NoneOperand, NoneOperand>>, {}) : o \in names}
        inRegisters == Op0(i).type = "reg" /\ Op1(i).type # "mem" /\ ~Wide(i)
        onAH(o, ns) == {Instr(o, <<AH, Imm(n)>>, {}) : n \in ns}
    IN  CASE i.op = "xchg" -> {i}
          [] i.op = "push" -> Pops
          [] i.op = "add" /\ inRegisters -> adjusts({"aaa", "daa"}) \cup onAH("adc", {0, 127, 255})
                                         \cup StretchedImm("adc", AH, {65535})
          [] i.op = "sub" /\ inRegisters -> adjusts({"aas", "das"})
          [] i.op = "shl" /\ inRegisters -> onAH("rcl", {1})
          [] i.op = "shr" /\ Op0(i) = AH -> {Instr("rcr", <<AL, Imm(1)>>, {})}
          [] i.op = "mul" /\ inRegisters -> adjusts({"aam"})
          [] i.op = "aad" -> {Instr("div", <<BL, NoneOperand>>, {})}
          [] OTHER -> {}
=============================================================================
